--------------------------- MODULE MCMinioNetwork ---------------------------
(* Instances of MinioNetwork for TLC. *)
EXTENDS MinioNetwork
=============================================================================
