-------------------------- MODULE MCLocationIndex --------------------------
(***************************************************************************)
(* Four locations of which one has a blank in its text.  Nothing is        *)
(* claimed of the numbering once that one is in use: MaxBroken bounds the  *)
(* hooks of such a history.                                                *)
(***************************************************************************)
EXTENDS LocationIndex

FirstWord(l) == l - 100
MaxBroken == 2
Bounded == NoBlank \/ Cardinality(built) <= MaxBroken
=============================================================================
