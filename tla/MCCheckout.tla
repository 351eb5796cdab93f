----------------------------- MODULE MCCheckout -----------------------------
(***************************************************************************)
(* One or two trains for a browser to book on.                             *)
(***************************************************************************)
EXTENDS Checkout

CONSTANTS t1, t2
=============================================================================
