------------------------------ MODULE MCGuestIO ------------------------------
(***************************************************************************)
(* Small instances of GuestIO for TLC.                                      *)
(***************************************************************************)
EXTENDS GuestIO, TLC
=============================================================================
