------------------------------ MODULE MCPaging ------------------------------
(***************************************************************************)
(* A small instance of Paging for TLC: 12 entries per table, one table for  *)
(* the guest (pages 0..11, all tables below 1 MB among them), two for the   *)
(* host, which has its own and the nested tables in the second.             *)
(***************************************************************************)
EXTENDS Paging

\* RAM reads as nothing present, or as the page of the host's directory.
MCRam == {NotPresent, 13}

\* An entry that maps a page of the guest's, and one that maps the host's.
MCValues == {6, 13}
=============================================================================
