----------------------------- MODULE MCCustody -----------------------------
(* Small instances of Custody. *)
EXTENDS Custody, TLC

CONSTANTS r1, r2, o1, o2, b1, MaxMade

SameOwner == [r \in Runs |-> o1]
TwoOwners == [r \in Runs |-> IF r = r1 THEN o1 ELSE o2]
SameBucket == [r \in Runs |-> b1]

\* Bound: MaxMade ids and buckets are made in all.
MCNext == Next /\ made' <= MaxMade
MCSpec == Init /\ [][MCNext]_vars
MCFairSpec == MCSpec /\ Fairness
=============================================================================
