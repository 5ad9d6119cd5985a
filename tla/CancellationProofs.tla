------------------------- MODULE CancellationProofs -------------------------
(***************************************************************************)
(* Proofs about Cancellation for any number of threads and contexts.       *)
(***************************************************************************)
EXTENDS Cancellation, TLAPS

Executes(t) == call[t].op = "Execute"

(* executionContext holds the context of the one running execution, until  *)
(* a Cancel takes it away.                                                 *)
OneExecution == \A t, u \in Threads : Executes(t) /\ Executes(u) => t = u

ExecHeld ==
  /\ current["exec"] # None => \E t \in Threads : Executes(t) /\ call[t].ctx = current["exec"]
  /\ \A t \in Threads : Executes(t) =>
       /\ call[t].ctx \in Contexts
       /\ call[t].ctx \notin cancelled => current["exec"] = call[t].ctx

(* No other CancellableContext holds that context.                         *)
Separate ==
  \A t \in Threads : Executes(t) =>
    call[t].ctx # current["stmt"] /\ call[t].ctx # current["conn"]

(* Contexts that were not created yet are nowhere.                         *)
FreshContexts ==
  /\ \A x \in Holders : current[x] # nextCtx
  /\ \A c \in cancelled : c < nextCtx
  /\ \A x \in Holders : current[x] # None => current[x] < nextCtx
  /\ \A t \in Threads : call[t].ctx # None => call[t].ctx < nextCtx

(* A StatementCancel between its halves.                                   *)
CancelsInFlight ==
  \A t \in Threads : call[t].op = "StatementCancel" =>
    /\ call[t].active => call[t].hit
    /\ call[t].pending => call[t].active

(* A StatementCancel overlaps the execution it runs beside.                *)
Overlapping ==
  \A t, u \in Threads : call[t].op = "StatementCancel" /\ Executes(u) => call[u].overlap

IInv ==
  /\ Overlapping
  /\ OneExecution /\ ExecHeld /\ Separate /\ FreshContexts /\ CancelsInFlight
  /\ StatementCancelHonest /\ StatementCancelNotDenied /\ ExecutionsUndisturbed

-----------------------------------------------------------------------------
(***************************************************************************)
(* Types.                                                                  *)
(***************************************************************************)
(* None is no context.                                                     *)
LEMMA NoneNoContext == None \notin Contexts
<1>1. \A c \in Contexts : c \in Int
  BY DEF Contexts
<1> QED
  BY <1>1, CancellationAssumption

(* NewContext keeps the types, within the bound on contexts.               *)
LEMMA NewContextType ==
  ASSUME TypeOK, NEW x \in Holders, NewContext(x)
  PROVE  /\ nextCtx \in Contexts /\ nextCtx' \in 1 .. MaxContexts + 1
         /\ current' \in [Holders -> Contexts \cup {None}] /\ cancelled' \in SUBSET Contexts
<1>1. nextCtx \in Contexts /\ nextCtx' \in 1 .. MaxContexts + 1
  BY CancellationAssumption DEF TypeOK, NewContext, Contexts
<1> QED
  BY <1>1 DEF TypeOK, NewContext

(* CancelContext keeps the types.                                          *)
LEMMA CancelContextType ==
  ASSUME TypeOK, NEW xs \in SUBSET Holders, CancelContext(xs)
  PROVE  current' \in [Holders -> Contexts \cup {None}] /\ cancelled' \in SUBSET Contexts
  BY DEF TypeOK, CancelContext

(* An idle thread is a call of its type.                                   *)
LEMMA IdleType == IdleCall \in Call
  BY DEF IdleCall, Call

(* A call with the context NewContext returns has its type.                *)
LEMMA EnterType ==
  ASSUME TypeOK, NEW t \in Threads, NEW op \in ConnectionOps \cup StatementOps,
         nextCtx \in Contexts, Enter(t, op)
  PROVE  call' \in [Threads -> Call]
  BY DEF TypeOK, Enter, IdleCall, Call

(* Returning keeps the type of call.                                       *)
LEMMA ReturnType ==
  ASSUME TypeOK, NEW t \in Threads, Return(t)
  PROVE  call' \in [Threads -> Call]
  BY IdleType DEF TypeOK, Return

(* The end of a Cancel keeps the types of call and verdict.                *)
LEMMA ConcludeType ==
  ASSUME TypeOK, NEW t \in Threads, NEW status \in {"OK", "INVALID_STATE", "error"},
         NEW hit \in BOOLEAN, Conclude(t, "StatementCancel", status, hit)
  PROVE  call' \in [Threads -> Call] /\ verdict' \in Verdict
<1>1. call[t].pending \in BOOLEAN
  BY DEF TypeOK, Call
<1>2. verdict' \in Verdict
  BY <1>1 DEF Conclude, Verdict
<1> QED
  BY <1>2, ReturnType DEF Conclude

(* An entry of a call that only takes a context.                           *)
LEMMA EnterStepType ==
  ASSUME TypeOK, NEW t \in Threads, NEW op \in ConnectionOps \cup StatementOps,
         NEW x \in Holders, NewContext(x), Enter(t, op), UNCHANGED <<lib, verdict>>
  PROVE  TypeOK'
  BY NewContextType, EnterType DEF TypeOK

(* TypeOK is inductive by itself.                                          *)
LEMMA TypeInductive ==
  ASSUME TypeOK, ExecHeld, [Next]_vars
  PROVE  TypeOK'
<1>1. ASSUME NEW t \in Threads, StatementExecute(t) PROVE TypeOK'
  <2>1. nextCtx \in Contexts
    BY <1>1, NewContextType DEF StatementExecute, Holders
  <2>2. call' \in [Threads -> Call]
    <3>1. [IdleCall EXCEPT !.op = "Execute", !.ctx = nextCtx,
                           !.overlap = Running("StatementCancel")] \in Call
      BY <2>1 DEF IdleCall, Call, Running, StatementOps
    <3> QED
      BY <1>1, <3>1 DEF StatementExecute, TypeOK
  <2> QED
    BY <1>1, <2>2, NewContextType DEF StatementExecute, TypeOK, Holders
<1>2. ASSUME NEW t \in Threads, StatementExecuteReturns(t) PROVE TypeOK'
  BY <1>2, ReturnType DEF StatementExecuteReturns, FinishContext, TypeOK
<1>3. ASSUME NEW t \in Threads, StatementCall(t) \/ StatementGetOption(t) PROVE TypeOK'
  BY <1>3, EnterStepType DEF StatementCall, StatementGetOption, Holders, StatementOps
<1>4. ASSUME NEW t \in Threads, ConnectionCall(t) \/ ConnectionGetOption(t) PROVE TypeOK'
  BY <1>4, EnterStepType DEF ConnectionCall, ConnectionGetOption, Holders, ConnectionOps
<1>5. ASSUME NEW t \in Threads, StatementCancel(t) PROVE TypeOK'
  <2>1. [IdleCall EXCEPT !.op = "StatementCancel", !.active = current["exec"] # None,
           !.hit = current["exec"] \in Executing,
           !.pending = Executing \ cancelled # {}] \in Call
    <3>1. \A a, h, q \in BOOLEAN :
            [IdleCall EXCEPT !.op = "StatementCancel", !.active = a, !.hit = h, !.pending = q] \in Call
      BY DEF IdleCall, Call, StatementOps
    <3>2. /\ (current["exec"] # None) \in BOOLEAN
          /\ (current["exec"] \in Executing) \in BOOLEAN
          /\ (Executing \ cancelled # {}) \in BOOLEAN
      OBVIOUS
    <3> QED
      BY <3>1, <3>2, Zenon
  <2>2. \A u \in Threads : call[u] \in Call /\ [call[u] EXCEPT !.overlap = TRUE] \in Call
    BY DEF TypeOK, Call
  <2>3. call' \in [Threads -> Call]
    BY <1>5, <2>1, <2>2 DEF StatementCancel
  <2>4. {"exec"} \in SUBSET Holders
    BY DEF Holders
  <2> QED
    BY <1>5, <2>3, <2>4, CancelContextType DEF StatementCancel, TypeOK
<1>6. ASSUME NEW t \in Threads, StatementCancelReturns(t) \/ StatementCancelerReturns(t)
      PROVE  TypeOK'
  <2>1. call[t].hit \in BOOLEAN /\ Executing \subseteq Contexts
    BY DEF TypeOK, Call, Executing, ExecHeld, Executes
  <2>2. call' \in [Threads -> Call] /\ verdict' \in Verdict
    BY <1>6, <2>1, ConcludeType DEF StatementCancelReturns, StatementCancelerReturns
  <2>3. UNCHANGED <<lib, nextCtx, current>>
    BY <1>6 DEF StatementCancelReturns, StatementCancelerReturns
  <2>4. cancelled' \in SUBSET Contexts
    BY <1>6, <2>1 DEF StatementCancelReturns, StatementCancelerReturns, TypeOK
  <2> QED
    BY <2>2, <2>3, <2>4 DEF TypeOK
<1>7. ASSUME NEW t \in Threads, StatementRelease(t) \/ ConnectionRelease(t) PROVE TypeOK'
  <2>1. {"stmt", "exec"} \in SUBSET Holders /\ {"conn"} \in SUBSET Holders
    BY DEF Holders
  <2> QED
    BY <1>7, <2>1, CancelContextType DEF StatementRelease, ConnectionRelease, TypeOK
<1>8. ASSUME NEW t \in Threads, ConnectionCancel(t) PROVE TypeOK'
  <2>1. {"conn"} \in SUBSET Holders
    BY DEF Holders
  <2>2. verdict' \in Verdict
    BY <1>8 DEF ConnectionCancel, Verdict
  <2>3. \A u \in Threads : call[u] \in Call /\ [call[u] EXCEPT !.overlap = TRUE] \in Call
    BY DEF TypeOK, Call
  <2>4. call' \in [Threads -> Call]
    BY <1>8, <2>3 DEF ConnectionCancel
  <2> QED
    BY <1>8, <2>1, <2>2, <2>4, CancelContextType DEF ConnectionCancel, TypeOK
<1>9. ASSUME NEW t \in Threads, CallReturns(t) PROVE TypeOK'
  BY <1>9, ReturnType DEF CallReturns, TypeOK
<1>10. CASE UNCHANGED vars
  BY <1>10 DEF vars, TypeOK
<1> QED
  BY <1>1, <1>2, <1>3, <1>4, <1>5, <1>6, <1>7, <1>8, <1>9, <1>10 DEF Next

-----------------------------------------------------------------------------
(***************************************************************************)
(* Every action preserves the invariant.                                   *)
(***************************************************************************)

(* A call that is no execution takes a context of its own.                 *)
LEMMA OtherEntersInv ==
  ASSUME TypeOK, TypeOK', IInv, NEW t \in Threads, NEW x \in {"stmt", "conn"},
         NEW op \in {"StatementCall", "StatementGetOption", "ConnectionCall", "ConnectionGetOption"},
         Idle(t), NewContext(x), Enter(t, op), UNCHANGED <<lib, verdict>>
  PROVE  IInv'
<1>1. /\ call'[t].op = op /\ call'[t].ctx = nextCtx
      /\ \A u \in Threads \ {t} : call'[u] = call[u]
  BY DEF Enter, TypeOK, IdleCall
<1>2. /\ current'["exec"] = current["exec"] /\ current'[x] = nextCtx
      /\ \A y \in Holders \ {x} : current'[y] = current[y]
      /\ nextCtx' = nextCtx + 1 /\ nextCtx \in Nat
      /\ cancelled' = cancelled \/ cancelled' = (cancelled \cup {current[x]}) \ {None}
  BY CancellationAssumption DEF NewContext, TypeOK, Holders
<1>3. \A u \in Threads : Executes(u)' <=> Executes(u) /\ u # t
  BY <1>1 DEF Executes
<1>4. \A u \in Threads : Executes(u) => u # t
  BY DEF Executes, Idle
<1>5. FreshContexts'
  <2>1. None \notin Int /\ \A c \in cancelled : c \in Int
    BY CancellationAssumption DEF TypeOK, Contexts
  <2>2. \A y \in Holders : current[y] # None => current[y] \in Int
    BY DEF TypeOK, Contexts
  <2>3. \A u \in Threads : call[u].ctx # None => call[u].ctx \in Int
    BY DEF TypeOK, Call, Contexts
  <2> QED
    BY <1>1, <1>2, <2>1, <2>2, <2>3 DEF IInv, FreshContexts, Holders
<1>6. \A u \in Threads : Executes(u) => (call[u].ctx \in cancelled' <=> call[u].ctx \in cancelled)
  <2>1. \A u \in Threads : Executes(u) => call[u].ctx # None /\ call[u].ctx # current[x]
    BY CancellationAssumption DEF IInv, Separate, ExecHeld, Contexts
  <2> QED
    BY <1>2, <2>1
<1>7. ExecHeld'
  BY <1>1, <1>2, <1>3, <1>4, <1>6 DEF IInv, ExecHeld
<1>8. Separate'
  <2>1. \A u \in Threads : Executes(u) => call[u].ctx < nextCtx /\ call[u].ctx \in Int
    BY CancellationAssumption DEF IInv, ExecHeld, FreshContexts, Contexts
  <2> QED
    BY <1>1, <1>2, <1>3, <2>1 DEF IInv, Separate, Holders
<1>9. OneExecution' /\ Overlapping' /\ CancelsInFlight'
  BY <1>1, <1>3 DEF IInv, OneExecution, Overlapping, CancelsInFlight
<1>10. ExecutionsUndisturbed'
  BY <1>1, <1>3, <1>6 DEF IInv, ExecutionsUndisturbed, Executes
<1> QED
  BY <1>5, <1>7, <1>8, <1>9, <1>10
  DEF IInv, StatementCancelHonest, StatementCancelNotDenied

(* The start of an execution preserves the invariant.                      *)
LEMMA ExecuteInv ==
  ASSUME TypeOK, TypeOK', IInv, NEW t \in Threads, StatementExecute(t)
  PROVE  IInv'
<1>1. /\ call'[t].op = "Execute" /\ call'[t].ctx = nextCtx
      /\ call'[t].overlap = Running("StatementCancel")
      /\ \A u \in Threads \ {t} : call'[u] = call[u]
  BY DEF StatementExecute, TypeOK, IdleCall
<1>2. \A u \in Threads : ~Executes(u)
  BY DEF StatementExecute, Running, Executes
<1>3. /\ current'["exec"] = nextCtx /\ \A y \in Holders \ {"exec"} : current'[y] = current[y]
      /\ nextCtx' = nextCtx + 1 /\ nextCtx \in Contexts /\ nextCtx \in Int
      /\ UNCHANGED verdict
  BY NewContextType DEF StatementExecute, NewContext, TypeOK, Holders
<1>4. cancelled' = cancelled
  <2>1. current["exec"] = None
    BY <1>2 DEF IInv, ExecHeld
  <2>2. None \notin cancelled
    BY NoneNoContext DEF TypeOK
  <2>3. cancelled' = cancelled \/ cancelled' = (cancelled \cup {current["exec"]}) \ {None}
    BY DEF StatementExecute, NewContext
  <2> QED
    BY <2>1, <2>2, <2>3
<1>5. nextCtx \notin cancelled
  BY <1>3 DEF IInv, FreshContexts
<1>6. \A u \in Threads : Executes(u)' <=> u = t
  BY <1>1, <1>2 DEF Executes
<1>7. FreshContexts'
  <2>1. None \notin Int /\ \A c \in cancelled : c \in Int
    BY CancellationAssumption DEF TypeOK, Contexts
  <2>2. \A y \in Holders : current[y] # None => current[y] \in Int
    BY DEF TypeOK, Contexts
  <2>3. \A u \in Threads : call[u].ctx # None => call[u].ctx \in Int
    BY DEF TypeOK, Call, Contexts
  <2> QED
    BY <1>1, <1>3, <1>4, <2>1, <2>2, <2>3 DEF IInv, FreshContexts, Holders
<1>8. ExecHeld' /\ OneExecution'
  BY <1>1, <1>3, <1>6 DEF ExecHeld, OneExecution, Contexts
<1>9. Separate'
  BY <1>1, <1>3, <1>6 DEF IInv, FreshContexts, Separate, Holders
<1>10. Overlapping'
  BY <1>1, <1>6 DEF Overlapping, Running
<1>11. CancelsInFlight'
  BY <1>1 DEF IInv, CancelsInFlight
<1>12. ExecutionsUndisturbed'
  BY <1>1, <1>4, <1>5, <1>6 DEF ExecutionsUndisturbed, Executes
<1> QED
  BY <1>3, <1>7, <1>8, <1>9, <1>10, <1>11, <1>12
  DEF IInv, StatementCancelHonest, StatementCancelNotDenied

(* A call returns and takes its context out of executionContext, if it is  *)
(* the execution.                                                          *)
LEMMA ReturnsInv ==
  ASSUME TypeOK, TypeOK', IInv, NEW t \in Threads, Return(t),
         StatementExecuteReturns(t) \/ CallReturns(t)
  PROVE  IInv'
<1>1. /\ call'[t].op = "idle" /\ call'[t].ctx = None
      /\ \A u \in Threads \ {t} : call'[u] = call[u]
  BY DEF Return, TypeOK, IdleCall
<1>2. /\ \A y \in Holders \ {"exec"} : current'[y] = current[y]
      /\ UNCHANGED <<nextCtx, cancelled, verdict>>
      /\ \/ Executes(t) /\ current'["exec"] = IF current["exec"] = call[t].ctx THEN None ELSE current["exec"]
         \/ ~Executes(t) /\ current'["exec"] = current["exec"]
  BY DEF StatementExecuteReturns, CallReturns, FinishContext, Executes, TypeOK, Holders, ConnectionOps
<1>3. \A u \in Threads : Executes(u)' <=> Executes(u) /\ u # t
  BY <1>1 DEF Executes
<1>4. current'["exec"] = current["exec"] \/ current'["exec"] = None
  BY <1>2
<1>5. FreshContexts'
  <2>1. nextCtx # None
    BY CancellationAssumption DEF TypeOK
  <2> QED
    BY <1>1, <1>2, <1>4, <2>1 DEF IInv, FreshContexts, Holders
<1>6. OneExecution' /\ Overlapping' /\ CancelsInFlight'
  BY <1>1, <1>3 DEF IInv, OneExecution, Overlapping, CancelsInFlight
<1>7. ExecHeld'
  BY <1>1, <1>2, <1>3 DEF IInv, ExecHeld, OneExecution
<1>8. Separate'
  BY <1>1, <1>2, <1>3 DEF IInv, Separate, Holders
<1>9. ExecutionsUndisturbed'
  BY <1>1, <1>2, <1>3 DEF IInv, ExecutionsUndisturbed, Executes
<1> QED
  BY <1>2, <1>5, <1>6, <1>7, <1>8, <1>9 DEF IInv, StatementCancelHonest, StatementCancelNotDenied

(* The first half of StatementCancel preserves the invariant.              *)
LEMMA StatementCancelInv ==
  ASSUME TypeOK, TypeOK', IInv, NEW t \in Threads, StatementCancel(t)
  PROVE  IInv'
<1>1. /\ call'[t].op = "StatementCancel" /\ call'[t].ctx = None
      /\ call'[t].active <=> current["exec"] # None
      /\ call'[t].hit <=> current["exec"] \in Executing
      /\ call'[t].pending <=> Executing \ cancelled # {}
  BY DEF StatementCancel, IdleCall
<1>2. \A u \in Threads \ {t} :
        /\ call'[u].op = call[u].op /\ call'[u].ctx = call[u].ctx
        /\ call'[u].active = call[u].active /\ call'[u].hit = call[u].hit
        /\ call'[u].pending = call[u].pending
        /\ call[u].op # "Execute" => call'[u].overlap = call[u].overlap
        /\ call[u].op = "Execute" => call'[u].overlap = TRUE
  <2>1. \A u \in Threads \ {t} :
          call'[u] = IF call[u].op = "Execute" THEN [call[u] EXCEPT !.overlap = TRUE] ELSE call[u]
    BY DEF StatementCancel
  <2>2. \A u \in Threads : call[u] \in Call
    BY DEF TypeOK
  <2> QED
    BY <2>1, <2>2 DEF Call
<1>3. /\ current'["exec"] = None /\ \A y \in Holders \ {"exec"} : current'[y] = current[y]
      /\ cancelled' = (cancelled \cup {current["exec"]}) \ {None}
      /\ UNCHANGED <<nextCtx, verdict>>
  BY DEF StatementCancel, CancelContext, Holders
<1>4. \A u \in Threads : (Executes(u)' <=> Executes(u)) /\ (Executes(u) => u # t)
  BY <1>1, <1>2 DEF Executes, StatementCancel, Idle
<1>5. FreshContexts'
  <2>1. nextCtx # None
    BY CancellationAssumption DEF TypeOK
  <2> QED
    BY <1>1, <1>2, <1>3, <2>1 DEF IInv, FreshContexts, Holders
<1>6. OneExecution' /\ Overlapping'
  BY <1>1, <1>2, <1>4 DEF IInv, OneExecution, Overlapping, Executes
<1>7. ExecHeld'
  BY <1>1, <1>2, <1>3, <1>4, NoneNoContext DEF IInv, ExecHeld
<1>8. Separate'
  BY <1>2, <1>3, <1>4 DEF IInv, Separate, Holders
<1>9. ExecutionsUndisturbed'
  BY <1>2, <1>4 DEF ExecutionsUndisturbed, Executes
<1>10. CancelsInFlight'
  <2>1. \A c : c \in Executing <=> \E u \in Threads : Executes(u) /\ call[u].ctx = c
    BY DEF Executing, Executes
  <2>2. current["exec"] # None => current["exec"] \in Executing
    BY <2>1 DEF IInv, ExecHeld
  <2>3. ASSUME Executing \ cancelled # {} PROVE current["exec"] # None
    <3>1. PICK u \in Threads : Executes(u) /\ call[u].ctx \notin cancelled
      BY <2>1, <2>3
    <3> QED
      BY <3>1, NoneNoContext DEF IInv, ExecHeld
  <2>4. (call'[t].active => call'[t].hit) /\ (call'[t].pending => call'[t].active)
    BY <1>1, <2>2, <2>3
  <2> QED
    BY <1>2, <2>4 DEF IInv, CancelsInFlight
<1> QED
  BY <1>3, <1>5, <1>6, <1>7, <1>8, <1>9, <1>10
  DEF IInv, StatementCancelHonest, StatementCancelNotDenied

(* The second half of StatementCancel, with or without a canceler.         *)
LEMMA CancelReturnsInv ==
  ASSUME TypeOK, TypeOK', IInv, NEW t \in Threads,
         StatementCancelReturns(t) \/ StatementCancelerReturns(t)
  PROVE  IInv'
<1>0. call[t].op = "StatementCancel" /\ UNCHANGED <<nextCtx, current>>
  BY DEF StatementCancelReturns, StatementCancelerReturns
<1>1. /\ call'[t].op = "idle" /\ call'[t].ctx = None
      /\ \A u \in Threads \ {t} : call'[u] = call[u]
  BY DEF StatementCancelReturns, StatementCancelerReturns, Conclude, Return, TypeOK, IdleCall
<1>2. \A u \in Threads : (Executes(u)' <=> Executes(u)) /\ (Executes(u) => u # t)
  BY <1>0, <1>1 DEF Executes
<1>3. cancelled' = cancelled \/ cancelled' = cancelled \cup Executing
  BY DEF StatementCancelReturns, StatementCancelerReturns
<1>4. \A c : c \in Executing <=> \E u \in Threads : Executes(u) /\ call[u].ctx = c
  BY DEF Executing, Executes
<1>5. FreshContexts'
  <2>1. \A c \in Executing : c < nextCtx
    BY <1>4, NoneNoContext DEF IInv, FreshContexts, ExecHeld
  <2> QED
    BY <1>0, <1>1, <1>3, <2>1 DEF IInv, FreshContexts
<1>6. OneExecution' /\ Overlapping' /\ CancelsInFlight' /\ Separate'
  BY <1>0, <1>1, <1>2 DEF IInv, OneExecution, Overlapping, CancelsInFlight, Separate
<1>7. ExecHeld'
  BY <1>0, <1>1, <1>2, <1>3, <1>4 DEF IInv, ExecHeld
<1>8. ExecutionsUndisturbed'
  BY <1>0, <1>1, <1>2, <1>3, <1>4 DEF IInv, ExecutionsUndisturbed, Overlapping, Executes
<1>9. (call[t].active => call[t].hit) /\ (call[t].pending => call[t].active)
  BY <1>0 DEF IInv, CancelsInFlight
<1>10. StatementCancelHonest' /\ StatementCancelNotDenied'
  BY <1>9 DEF StatementCancelReturns, StatementCancelerReturns, Conclude,
              StatementCancelHonest, StatementCancelNotDenied
<1> QED
  BY <1>5, <1>6, <1>7, <1>8, <1>10 DEF IInv

(* Release: nothing of the object runs.                                    *)
LEMMA ReleaseInv ==
  ASSUME TypeOK, TypeOK', IInv, NEW t \in Threads, StatementRelease(t) \/ ConnectionRelease(t)
  PROVE  IInv'
<1>1. /\ UNCHANGED <<nextCtx, call, verdict>>
      /\ \A y \in Holders : current'[y] = current[y] \/ current'[y] = None
  BY DEF StatementRelease, ConnectionRelease, CancelContext
<1>2. \A u \in Threads : Executes(u)' <=> Executes(u)
  BY <1>1 DEF Executes
<1>3. /\ \A u \in Threads : Executes(u) =>
           current'["exec"] = current["exec"]
             /\ (call[u].ctx \in cancelled' <=> call[u].ctx \in cancelled)
      /\ \A c \in cancelled' : c < nextCtx
  <2>1. \A y \in Holders : current[y] # None => current[y] < nextCtx
    BY DEF IInv, FreshContexts
  <2>2. \A c \in cancelled : c < nextCtx
    BY DEF IInv, FreshContexts
  <2>3. CASE StatementRelease(t)
    <3>1. \A u \in Threads : ~Executes(u)
      BY <2>3 DEF StatementRelease, StatementOps, Running, Executes
    <3> QED
      BY <2>1, <2>2, <2>3, <3>1 DEF StatementRelease, CancelContext, Holders
  <2>4. CASE ConnectionRelease(t)
    <3>1. /\ current'["exec"] = current["exec"]
          /\ cancelled' = (cancelled \cup {current["conn"]}) \ {None}
      BY <2>4 DEF ConnectionRelease, CancelContext, Holders
    <3>2. \A u \in Threads : Executes(u) => call[u].ctx # current["conn"] /\ call[u].ctx # None
      BY NoneNoContext DEF IInv, Separate, ExecHeld
    <3> QED
      BY <2>1, <2>2, <3>1, <3>2 DEF Holders
  <2> QED
    BY <2>3, <2>4
<1>4. nextCtx # None
  BY CancellationAssumption DEF TypeOK
<1>5. FreshContexts'
  BY <1>1, <1>3, <1>4 DEF IInv, FreshContexts
<1>6. OneExecution' /\ Overlapping' /\ CancelsInFlight'
  BY <1>1, <1>2 DEF IInv, OneExecution, Overlapping, CancelsInFlight
<1>7. ExecHeld'
  BY <1>1, <1>2, <1>3 DEF IInv, ExecHeld, Holders
<1>8. Separate'
  <2>1. \A u \in Threads : Executes(u) => call[u].ctx # None
    BY NoneNoContext DEF IInv, ExecHeld
  <2> QED
    BY <1>1, <1>2, <2>1 DEF IInv, Separate, Holders
<1>9. ExecutionsUndisturbed'
  BY <1>1, <1>3 DEF IInv, ExecutionsUndisturbed, Executes
<1> QED
  BY <1>1, <1>5, <1>6, <1>7, <1>8, <1>9 DEF IInv, StatementCancelHonest, StatementCancelNotDenied

(* ConnectionCancel preserves the invariant.                               *)
LEMMA ConnectionCancelInv ==
  ASSUME TypeOK, TypeOK', IInv, NEW t \in Threads, ConnectionCancel(t)
  PROVE  IInv'
<1>1. /\ UNCHANGED nextCtx /\ verdict'.op = "ConnectionCancel" /\ verdict'.status = "OK"
      /\ current'["conn"] = None /\ \A y \in Holders \ {"conn"} : current'[y] = current[y]
      /\ cancelled' = (cancelled \cup {current["conn"]}) \ {None}
  BY DEF ConnectionCancel, CancelContext, Holders
<1>2. \A u \in Threads :
        /\ call'[u].op = call[u].op /\ call'[u].ctx = call[u].ctx
        /\ call'[u].active = call[u].active /\ call'[u].hit = call[u].hit
        /\ call'[u].pending = call[u].pending
        /\ call[u].op # "ConnectionCall" => call'[u].overlap = call[u].overlap
  <2>1. \A u \in Threads : call[u] \in Call
    BY DEF TypeOK
  <2> QED
    BY <2>1 DEF ConnectionCancel, Call
<1>3. \A u \in Threads : Executes(u)' <=> Executes(u)
  BY <1>2 DEF Executes
<1>4. \A u \in Threads : Executes(u) =>
        call[u].ctx # None /\ (call[u].ctx \in cancelled' <=> call[u].ctx \in cancelled)
  BY <1>1, NoneNoContext DEF IInv, Separate, ExecHeld
<1>5. FreshContexts'
  <2>1. nextCtx # None
    BY CancellationAssumption DEF TypeOK
  <2> QED
    BY <1>1, <1>2, <2>1 DEF IInv, FreshContexts, Holders
<1>6. OneExecution' /\ Overlapping' /\ CancelsInFlight'
  BY <1>2, <1>3 DEF IInv, OneExecution, Overlapping, CancelsInFlight, Executes
<1>7. ExecHeld'
  BY <1>1, <1>2, <1>3, <1>4 DEF IInv, ExecHeld, Holders
<1>8. Separate'
  BY <1>1, <1>2, <1>3, <1>4 DEF IInv, Separate, Holders
<1>9. ExecutionsUndisturbed'
  BY <1>2, <1>4 DEF IInv, ExecutionsUndisturbed, Executes
<1> QED
  BY <1>1, <1>5, <1>6, <1>7, <1>8, <1>9 DEF IInv, StatementCancelHonest, StatementCancelNotDenied

(* Every step preserves the invariant.                                     *)
LEMMA InvInductive ==
  ASSUME TypeOK, IInv, [Next]_vars
  PROVE  TypeOK' /\ IInv'
<1>1. TypeOK'
  BY TypeInductive DEF IInv
<1>2. ASSUME NEW t \in Threads, StatementCall(t) \/ StatementGetOption(t) PROVE IInv'
  BY <1>1, <1>2, OtherEntersInv DEF StatementCall, StatementGetOption
<1>3. ASSUME NEW t \in Threads, ConnectionCall(t) \/ ConnectionGetOption(t) PROVE IInv'
  BY <1>1, <1>3, OtherEntersInv DEF ConnectionCall, ConnectionGetOption
<1>4. ASSUME NEW t \in Threads, StatementExecuteReturns(t) \/ CallReturns(t) PROVE IInv'
  BY <1>1, <1>4, ReturnsInv DEF StatementExecuteReturns, CallReturns
<1>5. CASE UNCHANGED vars
  BY <1>1, <1>5 DEF vars, IInv, OneExecution, ExecHeld, Separate, FreshContexts, CancelsInFlight,
              Overlapping, Executes, StatementCancelHonest, StatementCancelNotDenied,
              ExecutionsUndisturbed
<1> QED
  BY <1>1, <1>2, <1>3, <1>4, <1>5, ExecuteInv, StatementCancelInv, CancelReturnsInv,
     ReleaseInv, ConnectionCancelInv DEF Next

(* The invariant holds before the first call.                              *)
LEMMA InitInv == Init => TypeOK /\ IInv
<1> SUFFICES ASSUME Init PROVE TypeOK /\ IInv
  OBVIOUS
<1>1. \A t \in Threads : call[t] = IdleCall /\ call[t].op = "idle" /\ call[t].ctx = None
  BY DEF Init, IdleCall
<1>2. nextCtx \in 1 .. MaxContexts + 1 /\ nextCtx # None
  BY CancellationAssumption DEF Init
<1>3. verdict \in Verdict
  BY DEF Init, NoVerdict, Verdict
<1>4. TypeOK
  BY <1>1, <1>2, <1>3, IdleType DEF Init, TypeOK
<1>5. IInv
  BY <1>1, <1>2
  DEF Init, IInv, OneExecution, ExecHeld, Separate, FreshContexts, CancelsInFlight,
      Overlapping, Executes, StatementCancelHonest, StatementCancelNotDenied,
      ExecutionsUndisturbed, NoVerdict, Holders
<1> QED
  BY <1>4, <1>5

(* The invariant holds in every reachable state.                           *)
THEOREM CancellationInvariance == Spec => [](TypeOK /\ IInv)
  BY InitInv, InvInductive, PTL DEF Spec

(* Every variable keeps its type.                                          *)
THEOREM CancellationTypeCorrect == Spec => []TypeOK
  BY CancellationInvariance, PTL

(* StatementCancel reports success only if it cancelled an execution that  *)
(* was running, for any number of threads and any interleaving.            *)
THEOREM CancelAlwaysHonest == Spec => []StatementCancelHonest
<1>1. IInv => StatementCancelHonest
  BY DEF IInv
<1> QED
  BY <1>1, CancellationInvariance, PTL

(* StatementCancel never denies a running execution nobody cancelled yet.  *)
THEOREM CancelNeverDenied == Spec => []StatementCancelNotDenied
<1>1. IInv => StatementCancelNotDenied
  BY DEF IInv
<1> QED
  BY <1>1, CancellationInvariance, PTL

(* Only a StatementCancel that overlaps an execution cancels it.           *)
THEOREM ExecutionsAlwaysUndisturbed == Spec => []ExecutionsUndisturbed
<1>1. IInv => ExecutionsUndisturbed
  BY DEF IInv
<1> QED
  BY <1>1, CancellationInvariance, PTL
=============================================================================
