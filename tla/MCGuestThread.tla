--------------------------- MODULE MCGuestThread ----------------------------
(* The instance of GuestThread that TLC explores. *)
EXTENDS GuestThread, TLC
=============================================================================
