-------------------------- MODULE MCHostInterrupts --------------------------
(***************************************************************************)
(* Small instances of HostInterrupts for TLC.                               *)
(***************************************************************************)
EXTENDS HostInterrupts, TLC
=============================================================================
