---------------------------- MODULE MCDirectory ----------------------------
(* Small instances of Directory for TLC. *)
EXTENDS Directory, TLC
CONSTANTS a, b

TwoNames  == {a, b}
FirstName == {a}
OneHidden == {b}
NoName    == {}
NoFilter  == {}
OnlyDirs  == {"dirs"}

(* Windows are only told apart by what was done in them. *)
Symmetry  == Permutations(Window)
=============================================================================
