----------------------------- MODULE MCGateway -----------------------------
(* A small instance of Gateway. *)
EXTENDS Gateway

CONSTANTS c1, c2, w1, k1, k2, o1

TwoKeys == {k1, k2}
Part == {{k1}}

Ask(op, src, keys) == [op |-> op, src |-> src, keys |-> keys]

\* One request of each kind, all meeting on k1.
AllRequests == {Ask("put", k1, <<k1>>), Ask("delete", k1, <<k1>>),
                Ask("copy", k1, <<k2>>), Ask("deletemany", k1, <<k1, k2>>)}

MCEvent == [call : Calls, key : Keys, op : {"put", "delete"}, ver : Content \cup {Absent}]

\* Bound: of the two calls one is no batch, the other a put or the batch.
RequestsOf(c) ==
  {r \in Requests : IF c = c1 THEN r.op # "deletemany" ELSE r.op \in {"put", "deletemany"}}

MCNext == Next /\ \A c \in Calls : call'[c].req \in RequestsOf(c) \cup {NoRequest}

MCFairSpec == Init /\ [][MCNext]_vars /\ Fairness
=============================================================================
