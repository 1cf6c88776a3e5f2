---------------------------- MODULE MCBoundCalls ----------------------------
(* One call with every kind of binding against names that resolve to a public, *)
(* a private and a metadata address, another port of the composed name, and an *)
(* address written out.                                                        *)
EXTENDS BoundCalls

At(host, port) == [host |-> host, port |-> port]

MCClassOf == [ip \in IPs |-> CASE ip = "pub" -> "public" [] ip = "priv" -> "private" [] OTHER -> "linkLocal"]
MCAuthorities == {At("dep", 1), At("dep", 2), At("store", 1), At("priv", 1)}
MCLiteral == [host \in {"dep", "store", "priv"} |-> IF host = "priv" THEN "priv" ELSE None]
MCComposed == {At("dep", 1)}
MCProvider == At("store", 1)
MCTokenHost == At("dep", 2)
=============================================================================
