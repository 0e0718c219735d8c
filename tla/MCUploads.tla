----------------------------- MODULE MCUploads -----------------------------
(* Uploads with its instances for TLC.                                     *)
EXTENDS Uploads
=============================================================================
