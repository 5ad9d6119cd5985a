---------------------------- MODULE MCAdbcErrors ----------------------------
(* AdbcErrors for TLC: addresses are interchangeable.                      *)
EXTENDS AdbcErrors, TLC

Symmetry == Permutations(Blocks)
=============================================================================
