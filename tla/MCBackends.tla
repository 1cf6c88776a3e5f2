---------------------------- MODULE MCBackends ----------------------------
(* Instances of Backends for TLC. *)
EXTENDS Backends, TLC

CONSTANTS c1, c2, k1, k2, x, y

\* Clients, keys and contents are interchangeable; a content is its own ETag.
Symmetry == Permutations({c1, c2}) \cup Permutations({k1, k2}) \cup Permutations({x, y})
=============================================================================
