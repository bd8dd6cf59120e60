----------------------------- MODULE MCPs2Queue -----------------------------
(***************************************************************************)
(* Ps2Queue for TLC: a ring of four slots.  All elements are kept apart.   *)
(***************************************************************************)
EXTENDS Ps2Queue, TLC

CONSTANTS e1, e2

MCElem == {e1, e2}
=============================================================================
