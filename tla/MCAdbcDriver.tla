---------------------------- MODULE MCAdbcDriver ----------------------------
(***************************************************************************)
(* Instances of AdbcDriver for TLC.                                        *)
(***************************************************************************)
EXTENDS AdbcDriver, TLC

Symmetry == Permutations(Threads) \cup Permutations(Connections)
=============================================================================
