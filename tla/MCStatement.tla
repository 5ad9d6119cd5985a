----------------------------- MODULE MCStatement -----------------------------
(***************************************************************************)
(* What a database, a statement and its results go through in the driver   *)
(* without the server, for TLC.  A behaviour is one part of it: the life   *)
(* of some statements, one query whose placeholders are counted, one value *)
(* read and bound again, one connection string, or one error inspected.    *)
(* The last three share a program counter; the variables of the other      *)
(* parts stay None.                                                        *)
(***************************************************************************)
EXTENDS Statement, Integers

CONSTANTS
  Alphabet, MaxLength,                                  (* Placeholders      *)
  MaxDecimal, MilliDigits, MicroDigits,                 (* ColumnValues      *)
  MaxHours, Hours, Minutes, Fractions, MaxDimension, Offsets,
  MaxParams, Colons,                                    (* ConnectionStrings *)
  Defaults                                              (* ErrorInspector    *)

ASSUME LengthAssumption == MaxLength \in Nat

(* What TypeConversion assumes, and that parts of a TIME are numbers.       *)
ASSUME ValuesAssumption ==
  /\ MilliDigits \in Nat \ {0} /\ MicroDigits \in Nat /\ MilliDigits < MicroDigits
  /\ None \notin Int
  /\ Hours \subseteq Nat /\ Minutes \subseteq Nat /\ Fractions \subseteq 0 .. 9
  /\ MaxDimension \in Nat

VARIABLES
  part,                                   (* the part the behaviour is about *)
  query, i, state, count,                 (* of Placeholders                 *)
  column, zero, sent, appended, bound,    (* of ColumnValues                 *)
  given, opts, dsn, config,               (* of ConnectionStrings            *)
  error, default, status,                 (* of ErrorInspector               *)
  pc

Placeholder == INSTANCE Placeholders
Value       == INSTANCE ColumnValues
String      == INSTANCE ConnectionStrings
Error       == INSTANCE ErrorInspector

queryVars  == <<query, i, state, count>>
valueVars  == <<column, zero, sent, appended, bound>>
stringVars == <<given, opts, dsn, config>>
errorVars  == <<error, default, status>>
allVars    == <<part, vars, queryVars, valueVars, stringVars, errorVars, pc>>

NoQuery  == query = None /\ i = None /\ state = None /\ count = None
NoValue  == column = None /\ zero = None /\ sent = None /\ appended = None /\ bound = None
NoString == given = None /\ opts = None /\ dsn = None /\ config = None
NoError  == error = None /\ default = None /\ status = None

(* Every part but statements leaves them as they are at first.             *)
PartInit ==
  /\ Init
  /\ \/ part = "statements" /\ NoQuery /\ NoValue /\ NoString /\ NoError /\ pc = None
     \/ part = "query" /\ Placeholder!Init /\ NoValue /\ NoString /\ NoError /\ pc = None
     \/ part = "value" /\ Value!Init /\ NoQuery /\ NoString /\ NoError
     \/ part = "string" /\ String!Init /\ NoQuery /\ NoValue /\ NoError
     \/ part = "error" /\ Error!Init /\ NoQuery /\ NoValue /\ NoString

PartNext ==
  \/ /\ part = "statements" /\ Next
     /\ UNCHANGED <<part, queryVars, valueVars, stringVars, errorVars, pc>>
  \/ /\ part = "query" /\ Placeholder!Next
     /\ UNCHANGED <<part, vars, valueVars, stringVars, errorVars, pc>>
  \/ /\ part = "value" /\ Value!Next
     /\ UNCHANGED <<part, vars, queryVars, stringVars, errorVars>>
  \/ /\ part = "string" /\ String!Next
     /\ UNCHANGED <<part, vars, queryVars, valueVars, errorVars>>
  \/ /\ part = "error" /\ Error!Next
     /\ UNCHANGED <<part, vars, queryVars, valueVars, stringVars>>

PartSpec == PartInit /\ [][PartNext]_allVars

-----------------------------------------------------------------------------
(* The count GetParameterSchema reports is the number of parameters of the *)
(* query, whatever quotes, escapes and comments it nests and wherever it   *)
(* breaks off.                                                             *)
CountExact == part = "query" => Placeholder!CountExact

(* Durations, vectors, dates and geometries read and bound again are the   *)
(* same, or are refused; zero dates become NULL.                           *)
ValuesSurvive == part = "value" => Value!ValuesSurvive

(* Every spelling of a connection string reaches its server with its       *)
(* credentials and parameters, and with UTC whatever time zone it asks.    *)
SettingsKept == part = "string" => String!SettingsKept

(* The server's error number decides the status, its SQLSTATE only if the  *)
(* number is not known.                                                    *)
NumberDecides == part = "error" => Error!NumberDecides
=============================================================================
