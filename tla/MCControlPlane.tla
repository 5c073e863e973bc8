---------------------------- MODULE MCControlPlane ----------------------------
(***************************************************************************)
(* Instances of ControlPlane for TLC.  A Duration of 10 bits with a second *)
(* of 5 units keeps the order of the program's quantities: the cap is      *)
(* reached at the third failure in a row (the fifth in the program) and    *)
(* the product leaves the word at the seventh (the thirty-fourth).         *)
(***************************************************************************)
EXTENDS ControlPlane

SmallWord == 2^10

\* The failures in a row after which the product still fits in the word, and
\* one more.
BeforeOverflow == 6
AtOverflow == 7

ASSUME OverflowAssumption ==
    /\ 2^BeforeOverflow * Second < WordModulus \div 2
    /\ 2^AtOverflow * Second >= WordModulus \div 2

=============================================================================
