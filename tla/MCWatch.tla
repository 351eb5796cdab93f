------------------------------- MODULE MCWatch -------------------------------
(***************************************************************************)
(* One page, two trains and one transaction.                               *)
(***************************************************************************)
EXTENDS Watch

CONSTANTS t1, t2
=============================================================================
