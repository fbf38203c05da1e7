----------------------------- MODULE MCDebounce -----------------------------
(* The instance of Debounce with one pull request.                           *)
EXTENDS Debounce

CONSTANT p1

MCOnePR == {p1}
=============================================================================
