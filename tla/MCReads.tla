------------------------------ MODULE MCReads ------------------------------
(* Small instances of Reads.  The prefix begins at 10; 4 and 30 are outside. *)
EXTENDS Reads, TLC

MCNames == {4, 11, 14, 15, 30}
MCKeys == {1, 4, 5}
MCFolderOf == 4 :> 0 @@ 11 :> 0 @@ 14 :> 13 @@ 15 :> 13 @@ 30 :> 0
MCFirstSize == 4 :> 0 @@ 11 :> 3 @@ 14 :> 2 @@ 15 :> 0 @@ 30 :> 0
=============================================================================
