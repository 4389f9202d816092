------------------------- MODULE MCVerificationCodes -------------------------
(* Small instances of VerificationCodes for TLC. *)
EXTENDS VerificationCodes, TLC

\* Emails are not symmetric: NoJob chooses one
Symmetry == Permutations(Workers)
=============================================================================
