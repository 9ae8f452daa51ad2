------------------------- MODULE MCDocumentGenerator -------------------------
(* Small instances of the generators for TLC. *)
EXTENDS DocumentGenerator

(* Digits at two places of different weight, for every remainder of the sum. *)
TwoDigitsVary == {<<0, 3, a, b, 4, 0, 6, 1, 5>> : a \in {0, 7}, b \in 0..9}
=============================================================================
