---------------------------- MODULE Cancellation ----------------------------
(***************************************************************************)
(* Cancellation of calls in flight on one connection and one of its        *)
(* statements (pkg/driver.go).  Every call into the Go driver gets a       *)
(* context from a driverbase.CancellableContext of the object it is made   *)
(* on, and Cancel closes the context the CancellableContext holds at that  *)
(* moment.  A statement has two of them: executionContext for the calls    *)
(* that execute the query, and the embedded one for all others.            *)
(*                                                                         *)
(* The application follows adbc.h: calls on one object are serialized,     *)
(* except GetOption and Cancel, which may overlap them.                    *)
(***************************************************************************)
EXTENDS Integers

CONSTANTS
  Threads,      (* application threads                                      *)
  MaxContexts,  (* bound on the contexts a behaviour creates                *)
  None

ASSUME CancellationAssumption == MaxContexts \in Nat /\ None \notin Int

VARIABLES
  lib,          (* what the external libraries do; fixed by Init            *)
  nextCtx,      (* the next context NewContext creates                      *)
  current,      (* the context each CancellableContext holds, or None       *)
  cancelled,    (* contexts that were cancelled                             *)
  call,         (* what every thread is executing inside the driver         *)
  verdict       (* history: how the last Cancel that returned ended         *)

vars == <<lib, nextCtx, current, cancelled, call, verdict>>

Holders == {"conn", "stmt", "exec"}

IdleCall  == [op |-> "idle", ctx |-> None, active |-> FALSE, hit |-> FALSE,
              pending |-> FALSE, overlap |-> FALSE]
NoVerdict == [op |-> "none", status |-> "none", hit |-> FALSE, pending |-> FALSE]

ConnectionOps == {"ConnectionCall", "ConnectionGetOption"}
StatementOps  == {"Execute", "StatementCall", "StatementGetOption", "StatementCancel"}

Idle(t)     == call[t].op = "idle"
Running(op) == \E t \in Threads : call[t].op = op

(* The contexts the running executions were given.                         *)
Executing == {call[t].ctx : t \in {u \in Threads : call[u].op = "Execute"}}

-----------------------------------------------------------------------------
(***************************************************************************)
(* driverbase.CancellableContext, an external library.  Whether NewContext *)
(* cancels the context it replaces is not visible in this repository: both *)
(* are possible (lib.replaceCancels).                                      *)
(***************************************************************************)
NewContext(x) ==
  /\ nextCtx <= MaxContexts
  /\ nextCtx' = nextCtx + 1
  /\ current' = [current EXCEPT ![x] = nextCtx]
  /\ cancelled' = IF lib.replaceCancels THEN (cancelled \cup {current[x]}) \ {None}
                                        ELSE cancelled

(* Mutant: the cancel function is called even if it is nil.                *)
CancelContextNil(xs) ==
  /\ cancelled' = cancelled \cup {current[x] : x \in xs}
  /\ current' = [x \in Holders |-> IF x \in xs THEN None ELSE current[x]]

(* Cancels the contexts held and forgets them; true if there was one.      *)
CancelContext(xs) ==
  /\ cancelled' = (cancelled \cup {current[x] : x \in xs}) \ {None}
  /\ current' = [x \in Holders |-> IF x \in xs THEN None ELSE current[x]]

(* Mutant: the deferred FinishContext is missing.                          *)
FinishContextMissing(x, c) == UNCHANGED current

FinishContext(x, c) ==
  current' = [current EXCEPT ![x] = IF @ = c THEN None ELSE @]

-----------------------------------------------------------------------------
(* A call enters with the context NewContext returns.                      *)
Enter(t, op) ==
  call' = [call EXCEPT ![t] = [IdleCall EXCEPT !.op = op, !.ctx = nextCtx]]

Return(t) == call' = [call EXCEPT ![t] = IdleCall]

(* ExecuteQuery, ExecuteSchema and ExecutePartitions.                      *)
StatementExecute(t) ==
  /\ Idle(t) /\ ~Running("Execute") /\ ~Running("StatementCall")
  /\ NewContext("exec")
  /\ call' = [call EXCEPT ![t] = [IdleCall EXCEPT !.op = "Execute", !.ctx = nextCtx,
                                    !.overlap = Running("StatementCancel")]]
  /\ UNCHANGED <<lib, verdict>>

(* The deferred FinishContext runs whatever the execution returns.         *)
StatementExecuteReturns(t) ==
  /\ call[t].op = "Execute"
  /\ FinishContext("exec", call[t].ctx)
  /\ Return(t)
  /\ UNCHANGED <<lib, nextCtx, cancelled, verdict>>

(* Prepare, SetSqlQuery, SetSubstraitPlan, Bind, BindStream,               *)
(* GetParameterSchema and SetOption.                                       *)
StatementCall(t) ==
  /\ Idle(t) /\ ~Running("Execute") /\ ~Running("StatementCall")
  /\ NewContext("stmt")
  /\ Enter(t, "StatementCall")
  /\ UNCHANGED <<lib, verdict>>

(* Mutant: an option call takes the context of the execution.              *)
StatementGetOptionExec(t) ==
  /\ Idle(t)
  /\ NewContext("exec")
  /\ Enter(t, "StatementGetOption")
  /\ UNCHANGED <<lib, verdict>>

StatementGetOption(t) ==
  /\ Idle(t)
  /\ NewContext("stmt")
  /\ Enter(t, "StatementGetOption")
  /\ UNCHANGED <<lib, verdict>>

(* The first half of StatementCancel: active says whether there was a      *)
(* context to cancel.  hit and pending record what that context was: that  *)
(* of a running execution, and one no Cancel had reached before.           *)
StatementCancel(t) ==
  /\ Idle(t)
  /\ CancelContext({"exec"})
  /\ LET cancel == [IdleCall EXCEPT !.op = "StatementCancel",
                      !.active = current["exec"] # None,
                      !.hit = current["exec"] \in Executing,
                      !.pending = Executing \ cancelled # {}]
     IN  call' = [u \in Threads |->
                   IF u = t THEN cancel
                   ELSE IF call[u].op = "Execute" THEN [call[u] EXCEPT !.overlap = TRUE]
                   ELSE call[u]]
  /\ UNCHANGED <<lib, nextCtx, verdict>>

Conclude(t, op, status, hit) ==
  /\ verdict' = [op |-> op, status |-> status, hit |-> hit, pending |-> call[t].pending]
  /\ Return(t)

(* The second half, for a statement that is no StatementCanceler.          *)
StatementCancelReturns(t) ==
  /\ call[t].op = "StatementCancel" /\ ~lib.canceler
  /\ Conclude(t, "StatementCancel", IF call[t].active THEN "OK" ELSE "INVALID_STATE",
              call[t].hit)
  /\ UNCHANGED <<lib, nextCtx, current, cancelled>>

(* The second half with a StatementCanceler, which is external: Cancel     *)
(* interrupts the execution it finds, finds none, or fails.  Finding none  *)
(* is a success if the context was active.                                 *)
StatementCancelerReturns(t) ==
  /\ call[t].op = "StatementCancel" /\ lib.canceler
  /\ \/ /\ Executing # {}
        /\ cancelled' = cancelled \cup Executing
        /\ Conclude(t, "StatementCancel", "OK", TRUE)
     \/ /\ Conclude(t, "StatementCancel", IF call[t].active THEN "OK" ELSE "INVALID_STATE",
                    call[t].hit)
        /\ UNCHANGED cancelled
     \/ /\ Conclude(t, "StatementCancel", "error", call[t].hit)
        /\ UNCHANGED cancelled
  /\ UNCHANGED <<lib, nextCtx, current>>

(* StatementRelease, alone on the statement: the context of Close and both *)
(* others are cancelled when it returns.                                   *)
StatementRelease(t) ==
  /\ Idle(t) /\ \A op \in StatementOps : ~Running(op)
  /\ CancelContext({"stmt", "exec"})
  /\ UNCHANGED <<lib, nextCtx, call, verdict>>

-----------------------------------------------------------------------------
(* GetInfo, GetObjects, GetStatistics, GetStatisticNames, GetTableSchema,  *)
(* GetTableTypes, ReadPartition, Commit, Rollback, SetOption and           *)
(* StatementNew.                                                           *)
ConnectionCall(t) ==
  /\ Idle(t) /\ ~Running("ConnectionCall")
  /\ NewContext("conn")
  /\ Enter(t, "ConnectionCall")
  /\ UNCHANGED <<lib, verdict>>

ConnectionGetOption(t) ==
  /\ Idle(t)
  /\ NewContext("conn")
  /\ Enter(t, "ConnectionGetOption")
  /\ UNCHANGED <<lib, verdict>>

(* The result of CancelContext is dropped and the status is OK.            *)
ConnectionCancel(t) ==
  /\ Idle(t)
  /\ CancelContext({"conn"})
  /\ verdict' = [op |-> "ConnectionCancel", status |-> "OK", pending |-> FALSE,
                 hit |-> \E u \in Threads :
                           call[u].op \in ConnectionOps /\ call[u].ctx = current["conn"]]
  /\ call' = [u \in Threads |-> IF call[u].op = "ConnectionCall"
                                THEN [call[u] EXCEPT !.overlap = TRUE] ELSE call[u]]
  /\ UNCHANGED <<lib, nextCtx>>

ConnectionRelease(t) ==
  /\ Idle(t) /\ \A op \in ConnectionOps : ~Running(op)
  /\ CancelContext({"conn"})
  /\ UNCHANGED <<lib, nextCtx, call, verdict>>

(* Calls that do not finish their context.                                 *)
CallReturns(t) ==
  /\ call[t].op \in {"StatementCall", "StatementGetOption"} \cup ConnectionOps
  /\ Return(t)
  /\ UNCHANGED <<lib, nextCtx, current, cancelled, verdict>>

-----------------------------------------------------------------------------
Init ==
  /\ lib \in [canceler : BOOLEAN, replaceCancels : BOOLEAN]
  /\ nextCtx = 1
  /\ current = [x \in Holders |-> None]
  /\ cancelled = {}
  /\ call = [t \in Threads |-> IdleCall]
  /\ verdict = NoVerdict

Next == \E t \in Threads :
  \/ StatementExecute(t) \/ StatementExecuteReturns(t) \/ StatementCall(t)
  \/ StatementGetOption(t) \/ StatementCancel(t) \/ StatementCancelReturns(t)
  \/ StatementCancelerReturns(t) \/ StatementRelease(t)
  \/ ConnectionCall(t) \/ ConnectionGetOption(t) \/ ConnectionCancel(t)
  \/ ConnectionRelease(t) \/ CallReturns(t)

Spec == Init /\ [][Next]_vars

-----------------------------------------------------------------------------
(***************************************************************************)
(* Properties.                                                             *)
(***************************************************************************)
Contexts == 1 .. MaxContexts

Call == [op : {"idle"} \cup ConnectionOps \cup StatementOps, ctx : Contexts \cup {None},
         active : BOOLEAN, hit : BOOLEAN, pending : BOOLEAN, overlap : BOOLEAN]

Verdict == [op : {"none", "StatementCancel", "ConnectionCancel"},
            status : {"none", "OK", "INVALID_STATE", "error"}, hit : BOOLEAN, pending : BOOLEAN]

(* The values the variables range over; cancelled never holds None, which  *)
(* would be a call of a nil cancel function.                               *)
TypeOK ==
  /\ lib \in [canceler : BOOLEAN, replaceCancels : BOOLEAN]
  /\ nextCtx \in 1 .. MaxContexts + 1
  /\ current \in [Holders -> Contexts \cup {None}]
  /\ cancelled \in SUBSET Contexts
  /\ call \in [Threads -> Call]
  /\ verdict \in Verdict

(* The comment of cStmt.executionContext: "Non-execution calls must not    *)
(* make StatementCancel report success."  StatementCancel returns OK only  *)
(* if it cancelled the context of an execution that was running, also when *)
(* executions start and end between its two halves.                        *)
StatementCancelHonest ==
  verdict.op = "StatementCancel" /\ verdict.status = "OK" => verdict.hit

(* StatementCancel never answers "no active query to cancel" while an      *)
(* execution that no Cancel reached yet is running.                        *)
StatementCancelNotDenied ==
  verdict.status = "INVALID_STATE" => ~verdict.pending

(* An execution is cancelled only by a StatementCancel that overlaps it:   *)
(* neither an earlier Cancel nor any other call on the objects does it.    *)
ExecutionsUndisturbed ==
  \A t \in Threads :
    call[t].op = "Execute" /\ call[t].ctx \in cancelled => call[t].overlap

(* adbc.h:1489 says of AdbcConnectionCancel: "ADBC_STATUS_INVALID_STATE if *)
(* there is no operation to cancel".                                       *)
ConnectionCancelHonest ==
  verdict.op = "ConnectionCancel" /\ verdict.status = "OK" => verdict.hit

(* adbc.h:1470 says of AdbcConnectionCancel: "Cancel the in-progress       *)
(* operation on a connection", and adbc.h:1675 of AdbcConnectionGetOption: *)
(* "This must always be thread-safe".  So the context of a call in         *)
(* progress is cancelled exactly if a ConnectionCancel overlapped the call,*)
(* whatever GetOption calls run beside it.                                 *)
ConnectionCallsUndisturbed ==
  \A t \in Threads :
    call[t].op = "ConnectionCall" => (call[t].ctx \in cancelled <=> call[t].overlap)
=============================================================================
