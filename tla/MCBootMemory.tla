---------------------------- MODULE MCBootMemory ----------------------------
(***************************************************************************)
(* The shipped layout: the visor's variables on page 4 (visor.map), the     *)
(* memory map at 3C000h (_start.c).                                         *)
(***************************************************************************)
EXTENDS BootMemory
=============================================================================
