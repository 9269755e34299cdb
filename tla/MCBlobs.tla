------------------------------- MODULE MCBlobs ------------------------------
(* The instance of Blobs that TLC explores. *)
EXTENDS Blobs, TLC
=============================================================================
