----------------------------- MODULE MCStringSet -----------------------------
(***************************************************************************)
(* An instance of StringSet for TLC: two sets, compared both ways and each *)
(* with itself, and subtracted one way.                                    *)
(***************************************************************************)
EXTENDS StringSet

TwoSets == {"A", "B"}
OneWay  == {<<"A", "B">>}
=============================================================================
