------------------------------ MODULE MCAction ------------------------------
(* Small instances of Action for TLC. *)
EXTENDS Action
CONSTANTS d, e, f

ThreePaths == {d, e, f}
InOne      == [p \in ThreePaths |-> IF p = d THEN <<e>> ELSE <<>>]
TwoDirs    == <<d, f>>
OneDir     == <<d>>
Flat       == [p \in ThreePaths |-> <<>>]
=============================================================================
