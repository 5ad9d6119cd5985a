---------------------------- MODULE ErrorInspector ----------------------------
(***************************************************************************)
(* InspectError (error_inspector.go): the ADBC status of an error, from    *)
(* the server's error number, else from the class of its SQLSTATE, else    *)
(* the default of the call that failed.                                    *)
(***************************************************************************)
EXTENDS Naturals

CONSTANTS
  Defaults,   (* statuses the callers pass                                  *)
  None

VARIABLES
  error,      (* [number, class], None: not an error of the server          *)
  default,
  status,     (* the status so far                                          *)
  pc

vars == <<error, default, status, pc>>

(* The numbers of the switch; others leave the status alone.               *)
NumberStatus(n) ==
  CASE n = 1045 -> "UNAUTHENTICATED"
    [] n \in {1044, 1142, 1143, 1227} -> "UNAUTHORIZED"
    [] n \in {1146, 1049} -> "NOT_FOUND"
    [] n \in {1050, 1007} -> "ALREADY_EXISTS"
    [] n \in {1062, 1451, 1452, 1048, 1364} -> "INTEGRITY"
    [] n \in {1064, 1054, 1052} -> "INVALID_ARGUMENT"
    [] n \in {1366, 1292, 1264} -> "INVALID_DATA"
    [] n = 1205 -> "TIMEOUT"
    [] n = 1213 -> "CANCELLED"
    [] n \in {2002, 2003, 2006, 2013} -> "IO"
    [] n = 1105 -> "INTERNAL"
    [] OTHER -> None

ClassStatus(class) ==
  CASE class = "02" -> "NOT_FOUND"
    [] class \in {"07", "08"} -> "IO"
    [] class \in {"21", "22"} -> "INVALID_DATA"
    [] class = "23" -> "INTEGRITY"
    [] class = "28" -> "UNAUTHENTICATED"
    [] class \in {"34", "42"} -> "INVALID_ARGUMENT"
    [] class = "44" -> "INTEGRITY"
    [] class \in {"55", "57"} -> "INVALID_STATE"
    [] class = "58" -> "INTERNAL"
    [] OTHER -> None

(* The SQLSTATE classes the server sends with these numbers, external.     *)
ServerClass(n) ==
  CASE n \in {1045, 1227} -> IF n = 1045 THEN "28" ELSE "42"
    [] n \in {1044, 1142, 1143, 1146, 1049, 1050, 1064, 1054} -> "42"
    [] n \in {1062, 1451, 1452, 1048, 1052} -> "23"
    [] n \in {1292, 1264} -> "22"
    [] n = 1213 -> "40"
    [] OTHER -> "HY"

Numbers == {1045, 1044, 1142, 1143, 1227, 1146, 1049, 1050, 1007, 1062, 1451, 1452, 1048, 1364,
            1064, 1054, 1052, 1366, 1292, 1264, 1205, 1213, 2002, 2003, 2006, 2013, 1105}
Classes == {"02", "07", "08", "21", "22", "23", "28", "34", "42", "44", "55", "57", "58", "HY",
            "none"}

Errors ==
  {[number |-> n, class |-> ServerClass(n)] : n \in Numbers}
    \cup [number : {9999}, class : Classes] \cup {None}

Or(a, b) == IF a = None THEN b ELSE a

ByNumber ==
  /\ pc = "number"
  /\ status' = IF error = None THEN status ELSE Or(NumberStatus(error.number), status)
  /\ pc' = "class"
  /\ UNCHANGED <<error, default>>

(* Mutant: the class decides whatever the number said.                     *)
UndeterminedNever == error # None /\ error.class # "none"

(* "If status still not determined": it is the default one.                *)
Undetermined == error # None /\ error.class # "none" /\ status = default

ByClass ==
  /\ pc = "class"
  /\ status' = IF Undetermined THEN Or(ClassStatus(error.class), status) ELSE status
  /\ pc' = "done"
  /\ UNCHANGED <<error, default>>

Init ==
  /\ error \in Errors
  /\ default \in Defaults
  /\ status = default
  /\ pc = "number"

Next == ByNumber \/ ByClass

Spec == Init /\ [][Next]_vars

-----------------------------------------------------------------------------
(* The number decides if it is a known one, the class of the SQLSTATE only *)
(* if it is not.                                                           *)
NumberDecides ==
  pc = "done" /\ error # None /\ NumberStatus(error.number) # None =>
    status = NumberStatus(error.number)
=============================================================================
