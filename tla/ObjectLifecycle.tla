--------------------------- MODULE ObjectLifecycle ---------------------------
(***************************************************************************)
(* What the C ABI of a driver promises about the objects behind its        *)
(* structs, whatever handles, flags and history it keeps: an object is     *)
(* allocated or created for one struct, opened at most once, kept open     *)
(* while any call works on it, and closed exactly once, by the one call    *)
(* that took it from its struct.                                           *)
(***************************************************************************)
CONSTANTS
  Threads,      (* application threads                                      *)
  Structs,      (* AdbcDatabase, AdbcConnection, AdbcStatement and          *)
                (* ArrowArrayStream structs                                 *)
  Objects,      (* the objects ever behind them                             *)
  None

VARIABLES
  owns,         (* the object of every struct, or None                      *)
  object,       (* the state of every object                                *)
  working       (* the objects the call of every thread works on            *)

vars == <<owns, object, working>>

Owned(o)  == \E s \in Structs : owns[s] = o
InUse(o)  == \E t \in Threads : o \in working[t]
Usable(o) == Owned(o) /\ object[o] = "open"

Init ==
  /\ owns = [s \in Structs |-> None]
  /\ object = [o \in Objects |-> "unused"]
  /\ working = [t \in Threads |-> {}]

(* A struct without an object gets one that must be opened later.          *)
Allocate(s, o) ==
  /\ owns[s] = None /\ object[o] = "unused"
  /\ owns' = [owns EXCEPT ![s] = o]
  /\ object' = [object EXCEPT ![o] = "allocated"]
  /\ UNCHANGED working

(* A call that works on other objects creates an open one and returns.     *)
Create(t, s, o) ==
  /\ working[t] # {} /\ \A used \in working[t] : Usable(used)
  /\ owns[s] = None /\ object[o] = "unused"
  /\ owns' = [owns EXCEPT ![s] = o]
  /\ object' = [object EXCEPT ![o] = "open"]
  /\ working' = [working EXCEPT ![t] = {}]

(* An ordinary call begins; others may work on the same object.            *)
Begin(t, o) ==
  /\ working[t] = {} /\ Usable(o)
  /\ working' = [working EXCEPT ![t] = {o}]
  /\ UNCHANGED <<owns, object>>

(* A call that will open an object has it for itself, beside the parents   *)
(* it needs.                                                               *)
BeginOpening(t, o) ==
  /\ working[t] = {}
  /\ object[o] = "allocated" /\ Owned(o) /\ ~InUse(o)
  /\ \E parents \in SUBSET {p \in Objects : Usable(p)} :
       working' = [working EXCEPT ![t] = {o} \cup parents]
  /\ UNCHANGED <<owns, object>>

Open(t, o) ==
  /\ o \in working[t] /\ Owned(o) /\ object[o] = "allocated"
  /\ \A used \in working[t] \ {o} : Usable(used)
  /\ object' = [object EXCEPT ![o] = "open"]
  /\ working' = [working EXCEPT ![t] = {}]
  /\ UNCHANGED owns

(* A call returns; its objects are still there.                            *)
End(t) ==
  /\ working[t] # {}
  /\ \A o \in working[t] : Owned(o) /\ object[o] \in {"allocated", "open"}
  /\ working' = [working EXCEPT ![t] = {}]
  /\ UNCHANGED <<owns, object>>

(* A release takes an object nobody works on from its struct.              *)
Release(t, s) ==
  /\ working[t] = {}
  /\ owns[s] # None /\ object[owns[s]] \in {"allocated", "open"} /\ ~InUse(owns[s])
  /\ owns' = [owns EXCEPT ![s] = None]
  /\ working' = [working EXCEPT ![t] = {owns[s]}]
  /\ UNCHANGED object

(* The call that took the object closes it, alone with it.                 *)
Close(t, o) ==
  /\ working[t] = {o} /\ ~Owned(o) /\ \A u \in Threads \ {t} : o \notin working[u]
  /\ object[o] \in {"allocated", "open"}
  /\ object' = [object EXCEPT ![o] = "closed"]
  /\ working' = [working EXCEPT ![t] = {}]
  /\ UNCHANGED owns

(* Both at once.                                                           *)
ReleaseAndClose(s) ==
  /\ owns[s] # None /\ object[owns[s]] = "open" /\ ~InUse(owns[s])
  /\ owns' = [owns EXCEPT ![s] = None]
  /\ object' = [object EXCEPT ![owns[s]] = "closed"]
  /\ UNCHANGED working

-----------------------------------------------------------------------------
(* The steps, told apart by what they change: the object of a struct, or   *)
(* the objects of a call only.                                             *)
StructStep ==
  /\ owns' # owns
  /\ \E s \in Structs :
       \/ ReleaseAndClose(s)
       \/ \E o \in Objects : Allocate(s, o)
       \/ \E t \in Threads : Release(t, s) \/ \E o \in Objects : Create(t, s, o)

CallStep ==
  /\ owns' = owns
  /\ \E t \in Threads :
       \/ \E o \in working'[t] \ working[t] : Begin(t, o) \/ BeginOpening(t, o)
       \/ \E o \in working[t] \ working'[t] : Open(t, o) \/ Close(t, o) \/ End(t)

Next == StructStep \/ CallStep

Spec == Init /\ [][Next]_vars
=============================================================================
