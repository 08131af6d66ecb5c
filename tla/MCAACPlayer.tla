---------------------------- MODULE MCAACPlayer ----------------------------
(* Instances of AACPlayer for TLC: the decoder yields four or five blocks,  *)
(* enough to come back to the first of the three arrays.                     *)
EXTENDS AACPlayer

OneSize == {1}
TwoSizes == {1, 2}
FourBlocks == <<2, 1, 2, 1>>
FiveBlocks == <<1, 2, 1, 2, 1>>
=============================================================================
