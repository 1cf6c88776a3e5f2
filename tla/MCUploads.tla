------------------------------ MODULE MCUploads ------------------------------
(* One upload of up to three data messages to each backend, with an unknown  *)
(* size, the default one, and sizes below, at and above that of the body.    *)
EXTENDS Uploads

MCSizes == {-1, 0, 1, 2}
=============================================================================
