-------------------------------- MODULE MCKeys --------------------------------
(***************************************************************************)
(* Every name of up to five runes that are capitals, small letters, digits *)
(* and separators, and every one of up to three runes of any class.        *)
(***************************************************************************)
EXTENDS Keys

MCInputs == BoundedSeq({"upper", "lower", "digit", "dash"}, 5) \union BoundedSeq(Classes, 3)

=============================================================================
