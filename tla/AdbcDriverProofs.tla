-------------------------- MODULE AdbcDriverProofs --------------------------
(***************************************************************************)
(* Proofs about AdbcDriver for any number of threads, structs, options and *)
(* handles.                                                                *)
(***************************************************************************)
EXTENDS AdbcDriver, TLAPS

(* The kinds of struct a call is made on and with.                         *)
CallShape ==
  \A t \in Threads :
    LET c == call[t] IN
    /\ c.op \in {"idle", "StreamRead"} \cup LifecycleOps \cup WorkOps \cup SharedOps
    /\ c.op # "idle" => c.slot \in Slots
    /\ c.op = "idle" => c = IdleCall
    /\ c.op \in LifecycleOps \cup WorkOps \cup SharedOps => c.slot \notin Streams
    /\ c.op = "StreamRead" => c.slot \in Streams
    /\ c.op = "StatementNew" => c.slot \in Statements /\ privateData[c.slot] = Null
                                  /\ c.obj = Null
    /\ c.op \in {"ConnectionInit", "StatementNew"} => c.peer \in Databases \cup Connections
    /\ c.op = "ConnectionMetadata" => c.peer # Null
    /\ c.op \in {"ConnectionMetadata", "StatementExecuteQuery"} /\ c.peer # Null =>
         c.peer \in Streams /\ privateData[c.peer] = Null
    /\ c.op \notin {"ConnectionInit", "StatementNew", "ConnectionMetadata",
                    "StatementExecuteQuery"} => c.peer = Null
    /\ c.late => c.op = "StreamRead"

(* The threading rules of adbc.h, as they hold between calls in flight.    *)
Exclusion ==
  \A t, u \in Threads : t # u =>
    /\ call[t].op \in LifecycleOps => ~Uses(u, call[t].slot)
    /\ call[t].op = "StreamRead" => ~Uses(u, call[t].slot)
    /\ call[t].peer \in Streams => ~Uses(u, call[t].peer)

(* Handles the counter has not reached yet are unused.                     *)
Fresh ==
  /\ \A h \in Handles : h >= nextHandle => h \notin live /\ ~initialized[h]
  /\ \A t \in Threads : call[t].obj # Null => call[t].obj < nextHandle

(* A stream that has a handle has a reader.                                *)
StreamsOpen ==
  \A s \in Streams : privateData[s] # Null => initialized[privateData[s]]

(* The inductive invariant: HandlesOwned, NoUseAfterRelease and            *)
(* OpenedObjectsClosed support each other, and need to know which calls    *)
(* are in flight together and on what.                                     *)
ObjInv ==
  /\ CallShape /\ Exclusion /\ Fresh /\ StreamsOpen
  /\ HandlesOwned /\ NoUseAfterRelease /\ OpenedObjectsClosed

-----------------------------------------------------------------------------
(***************************************************************************)
(* Every step of the driver has one of these shapes, as far as the         *)
(* handles, the Go objects behind them and the calls in flight go.         *)
(***************************************************************************)

(* A call enters and touches no handle.                                    *)
Entering(t, op, s, p) ==
  /\ Idle(t) /\ s \in Slots
  /\ Enter(t, op, s, p) /\ UNCHANGED objVars

WorkEnters(t, op, s, p) ==
  /\ Entering(t, op, s, p) /\ ~poisoned
  /\ op \in WorkOps \cup SharedOps /\ s \notin Streams
  /\ Shareable(s)
  /\ privateData[s] # Null /\ initialized[privateData[s]]
  /\ \/ p = Null /\ op # "ConnectionMetadata"
     \/ /\ op \in {"ConnectionMetadata", "StatementExecuteQuery"}
        /\ p \in Streams /\ Quiescent(p) /\ privateData[p] = Null

InitEnters(t, op, s, p) ==
  /\ Entering(t, op, s, p) /\ ~poisoned
  /\ op \in {"DatabaseInit", "ConnectionInit"} /\ s \notin Streams /\ Quiescent(s)
  /\ privateData[s] # Null /\ ~initialized[privateData[s]]
  /\ \/ op = "DatabaseInit" /\ p = Null
     \/ /\ op = "ConnectionInit" /\ p \in Databases /\ Shareable(p)
        /\ privateData[p] # Null /\ initialized[privateData[p]]

NewEnters(t, s, c) ==
  /\ Entering(t, "StatementNew", s, c) /\ ~poisoned
  /\ s \in Statements /\ c \in Connections /\ Quiescent(s) /\ Shareable(c)
  /\ privateData[s] = Null
  /\ privateData[c] # Null /\ initialized[privateData[c]]

StreamEnters(t, s) ==
  /\ Entering(t, "StreamRead", s, Null)
  /\ s \in Streams /\ Quiescent(s) /\ privateData[s] # Null

(* A struct without a handle gets one, with or without a Go object.        *)
Allocates(s) ==
  /\ s \in Slots \ Streams /\ Quiescent(s) /\ privateData[s] = Null /\ ~poisoned
  /\ NewObject(s, FALSE) /\ UNCHANGED call

AllocatesAndReturns(t, s) ==
  /\ \/ call[t].op = "StatementNew" /\ s = call[t].slot
     \/ /\ call[t].op \in {"ConnectionMetadata", "StatementExecuteQuery"}
        /\ s = call[t].peer /\ s # Null
  /\ NewObject(s, TRUE) /\ call' = [call EXCEPT ![t] = IdleCall]

ReleaseEnters(t, op, s) ==
  /\ Idle(t) /\ s \in Slots \ Streams /\ Quiescent(s) /\ ~poisoned
  /\ op \in ReleaseOps /\ privateData[s] # Null
  /\ DropHandle(s) /\ Enter(t, op, s, Null)
  /\ UNCHANGED <<nextHandle, initialized, outstanding>>

ReleaseReturns(t) ==
  /\ call[t].op \in ReleaseOps
  /\ Closed(call[t].obj)
  /\ initialized' \in {initialized, [initialized EXCEPT ![call[t].obj] = FALSE]}
  /\ call' = [call EXCEPT ![t] = IdleCall]
  /\ UNCHANGED <<privateData, nextHandle, live>>

InitReturns(t) ==
  /\ call[t].op \in {"DatabaseInit", "ConnectionInit"}
  /\ Opened(call[t].obj)
  /\ call' = [call EXCEPT ![t] = IdleCall]
  /\ UNCHANGED <<privateData, nextHandle, live>>

StreamReleases(s) ==
  /\ s \in Streams /\ Quiescent(s) /\ privateData[s] # Null
  /\ DropHandle(s) /\ Closed(privateData[s])
  /\ UNCHANGED <<nextHandle, initialized, call>>

Returns(t) ==
  /\ call[t].op \notin ReleaseOps
  /\ call' = [call EXCEPT ![t] = IdleCall] /\ UNCHANGED objVars

Shape ==
  \/ \E t \in Threads, op \in Ops, s \in Slots, p \in Slots \cup {Null} :
       WorkEnters(t, op, s, p) \/ InitEnters(t, op, s, p)
  \/ \E t \in Threads, s \in Slots, c \in Slots : NewEnters(t, s, c)
  \/ \E t \in Threads, s \in Slots : StreamEnters(t, s) \/ AllocatesAndReturns(t, s)
  \/ \E t \in Threads, op \in Ops, s \in Slots : ReleaseEnters(t, op, s)
  \/ \E t \in Threads : ReleaseReturns(t) \/ InitReturns(t) \/ Returns(t)
  \/ \E s \in Slots : Allocates(s) \/ StreamReleases(s)
  \/ UNCHANGED <<objVars, call>>

-----------------------------------------------------------------------------
(***************************************************************************)
(* What entering and returning do to the calls in flight.                  *)
(***************************************************************************)
(* Entering changes the call of one thread.                                *)
LEMMA EnterFacts ==
  ASSUME TypeOK, NEW t \in Threads, NEW op, NEW s, NEW p, Enter(t, op, s, p)
  PROVE  /\ call'[t].op = op /\ call'[t].slot = s /\ call'[t].obj = privateData[s]
         /\ call'[t].peer = p /\ call'[t].late = poisoned
         /\ \A u \in Threads \ {t} : call'[u] = call[u]
  BY DEF TypeOK, Enter

(* Returning makes one thread idle.                                        *)
LEMMA ReturnFacts ==
  ASSUME TypeOK, NEW t \in Threads, call' = [call EXCEPT ![t] = IdleCall]
  PROVE  /\ call'[t] = IdleCall
         /\ call'[t].op = "idle" /\ call'[t].slot = Null /\ call'[t].obj = Null
         /\ call'[t].peer = Null /\ call'[t].late = FALSE
         /\ \A u \in Threads \ {t} : call'[u] = call[u]
  BY DEF TypeOK, IdleCall

(* The fields of a call in flight.                                         *)
LEMMA CallType ==
  ASSUME TypeOK, NEW t \in Threads
  PROVE  /\ call[t].op \in Ops \cup {"idle"}
         /\ call[t].slot \in Slots \cup {Null}
         /\ call[t].obj \in Handles \cup {Null}
         /\ call[t].peer \in Slots \cup {Null}
         /\ call[t].late \in BOOLEAN
  BY DEF TypeOK, Call

(* Every live handle came from the counter.                                *)
LEMMA LiveBelowNext ==
  ASSUME TypeOK, Fresh, NEW h \in live
  PROVE  h < nextHandle
  BY ConstantsAssumption DEF TypeOK, Fresh, Handles

(***************************************************************************)
(* Each shape preserves the part of the invariant that is not its type.    *)
(***************************************************************************)
(* An ordinary call, a GetOption or a Cancel enters.                       *)
LEMMA WorkEntersInv ==
  ASSUME TypeOK, TypeOK', ObjInv, NEW t \in Threads, NEW op \in Ops, NEW s \in Slots,
         NEW p \in Slots \cup {Null}, WorkEnters(t, op, s, p)
  PROVE  ObjInv'
<1>1. /\ call'[t].op = op /\ call'[t].slot = s /\ call'[t].obj = privateData[s]
      /\ call'[t].peer = p /\ call'[t].late = FALSE
      /\ \A u \in Threads \ {t} : call'[u] = call[u]
  <2>1. Enter(t, op, s, p) /\ poisoned = FALSE
    BY DEF WorkEnters, Entering, TypeOK
  <2> QED
    BY <2>1, EnterFacts
<1>2. UNCHANGED <<privateData, nextHandle, live, initialized, outstanding>>
  BY DEF WorkEnters, Entering, objVars
<1>3. call[t].op = "idle" /\ call[t] = IdleCall
  BY DEF WorkEnters, Entering, Idle, ObjInv, CallShape
<1>4. CallShape'
  <2>1. CallShape
    BY DEF ObjInv
  <2> SUFFICES ASSUME NEW v \in Threads PROVE CallShape!(v)'
    BY DEF CallShape
  <2>2. CASE v = t
    BY <1>1, <1>2, <2>2, ConstantsAssumption DEF WorkEnters, LifecycleOps, WorkOps, SharedOps, ReleaseOps, Slots
  <2>3. CASE v # t
    BY <1>1, <1>2, <2>1, <2>3 DEF CallShape
  <2> QED
    BY <2>2, <2>3
<1>5. Exclusion'
  BY <1>1, <1>2, <1>3, ConstantsAssumption
  DEF CallShape, Exclusion, ObjInv, WorkEnters, Shareable, Quiescent, Uses, LifecycleOps, WorkOps, SharedOps, ReleaseOps, Slots
<1>6. Fresh'
  <2>1. privateData[s] \in live
    BY DEF WorkEnters, ObjInv, HandlesOwned
  <2> QED
    BY <2>1, <1>1, <1>2, LiveBelowNext DEF Fresh, ObjInv
<1>7. StreamsOpen' /\ HandlesOwned'
  BY <1>2 DEF StreamsOpen, HandlesOwned, ObjInv
<1>8. NoUseAfterRelease'
  <2>1. privateData[s] \in live /\ privateData[s] # Null
    BY DEF WorkEnters, ObjInv, HandlesOwned, StreamsOpen
  <2>2. NoUseAfterRelease
    BY DEF ObjInv
  <2> SUFFICES ASSUME NEW v \in Threads PROVE NoUseAfterRelease!(v)'
    BY DEF NoUseAfterRelease
  <2>3. CASE v = t
    BY <1>1, <1>2, <2>1, <2>3 DEF WorkEnters, LifecycleOps, WorkOps, SharedOps, ReleaseOps
  <2>4. CASE v # t
    BY <1>1, <1>2, <2>1, <2>2, <2>4 DEF NoUseAfterRelease
  <2> QED
    BY <2>3, <2>4
<1>9. OpenedObjectsClosed'
  BY <1>1, <1>2, <1>3 DEF OpenedObjectsClosed, Releasing, ObjInv, WorkEnters, LifecycleOps, WorkOps, SharedOps, ReleaseOps
<1> QED
  BY <1>4, <1>5, <1>6, <1>7, <1>8, <1>9 DEF ObjInv

(* DatabaseInit or ConnectionInit enters.                                  *)
LEMMA InitEntersInv ==
  ASSUME TypeOK, TypeOK', ObjInv, NEW t \in Threads, NEW op \in Ops, NEW s \in Slots,
         NEW p \in Slots \cup {Null}, InitEnters(t, op, s, p)
  PROVE  ObjInv'
<1>1. /\ call'[t].op = op /\ call'[t].slot = s /\ call'[t].obj = privateData[s]
      /\ call'[t].peer = p /\ call'[t].late = FALSE
      /\ \A u \in Threads \ {t} : call'[u] = call[u]
  <2>1. Enter(t, op, s, p) /\ poisoned = FALSE
    BY DEF InitEnters, Entering, TypeOK
  <2> QED
    BY <2>1, EnterFacts
<1>2. UNCHANGED <<privateData, nextHandle, live, initialized, outstanding>>
  BY DEF InitEnters, Entering, objVars
<1>3. call[t].op = "idle" /\ call[t] = IdleCall
  BY DEF InitEnters, Entering, Idle, ObjInv, CallShape
<1>4. CallShape'
  <2>1. CallShape
    BY DEF ObjInv
  <2> SUFFICES ASSUME NEW v \in Threads PROVE CallShape!(v)'
    BY DEF CallShape
  <2>2. CASE v = t
    BY <1>1, <1>2, <2>2, ConstantsAssumption DEF InitEnters, LifecycleOps, WorkOps, SharedOps, ReleaseOps, Slots
  <2>3. CASE v # t
    BY <1>1, <1>2, <2>1, <2>3 DEF CallShape
  <2> QED
    BY <2>2, <2>3
<1>5. Exclusion'
  BY <1>1, <1>2, <1>3, ConstantsAssumption
  DEF CallShape, Exclusion, ObjInv, InitEnters, Shareable, Quiescent, Uses, LifecycleOps, WorkOps, SharedOps, ReleaseOps, Slots
<1>6. Fresh'
  <2>1. privateData[s] \in live
    BY DEF InitEnters, ObjInv, HandlesOwned
  <2> QED
    BY <2>1, <1>1, <1>2, LiveBelowNext DEF Fresh, ObjInv
<1>7. StreamsOpen' /\ HandlesOwned'
  BY <1>2 DEF StreamsOpen, HandlesOwned, ObjInv
<1>8. NoUseAfterRelease'
  <2>1. privateData[s] \in live /\ privateData[s] # Null
    BY DEF InitEnters, ObjInv, HandlesOwned, StreamsOpen
  <2>2. NoUseAfterRelease
    BY DEF ObjInv
  <2> SUFFICES ASSUME NEW v \in Threads PROVE NoUseAfterRelease!(v)'
    BY DEF NoUseAfterRelease
  <2>3. CASE v = t
    BY <1>1, <1>2, <2>1, <2>3 DEF InitEnters, LifecycleOps, WorkOps, SharedOps, ReleaseOps
  <2>4. CASE v # t
    BY <1>1, <1>2, <2>1, <2>2, <2>4 DEF NoUseAfterRelease
  <2> QED
    BY <2>3, <2>4
<1>9. OpenedObjectsClosed'
  BY <1>1, <1>2, <1>3 DEF OpenedObjectsClosed, Releasing, ObjInv, InitEnters, LifecycleOps, WorkOps, SharedOps, ReleaseOps
<1> QED
  BY <1>4, <1>5, <1>6, <1>7, <1>8, <1>9 DEF ObjInv

(* StatementNew enters.                                                    *)
LEMMA NewEntersInv ==
  ASSUME TypeOK, TypeOK', ObjInv, NEW t \in Threads, NEW s \in Slots, NEW c \in Slots, NewEnters(t, s, c)
  PROVE  ObjInv'
<1>1. /\ call'[t].op = "StatementNew" /\ call'[t].slot = s /\ call'[t].obj = privateData[s]
      /\ call'[t].peer = c /\ call'[t].late = FALSE
      /\ \A u \in Threads \ {t} : call'[u] = call[u]
  <2>1. Enter(t, "StatementNew", s, c) /\ poisoned = FALSE
    BY DEF NewEnters, Entering, TypeOK
  <2> QED
    BY <2>1, EnterFacts
<1>2. UNCHANGED <<privateData, nextHandle, live, initialized, outstanding>>
  BY DEF NewEnters, Entering, objVars
<1>3. call[t].op = "idle" /\ call[t] = IdleCall
  BY DEF NewEnters, Entering, Idle, ObjInv, CallShape
<1>4. CallShape'
  <2>1. CallShape
    BY DEF ObjInv
  <2> SUFFICES ASSUME NEW v \in Threads PROVE CallShape!(v)'
    BY DEF CallShape
  <2>2. CASE v = t
    BY <1>1, <1>2, <2>2, ConstantsAssumption DEF NewEnters, LifecycleOps, WorkOps, SharedOps, ReleaseOps, Slots
  <2>3. CASE v # t
    BY <1>1, <1>2, <2>1, <2>3 DEF CallShape
  <2> QED
    BY <2>2, <2>3
<1>5. Exclusion'
  BY <1>1, <1>2, <1>3, ConstantsAssumption
  DEF CallShape, Exclusion, ObjInv, NewEnters, Shareable, Quiescent, Uses, LifecycleOps, WorkOps, SharedOps, ReleaseOps, Slots
<1>6. Fresh'
  BY <1>1, <1>2 DEF Fresh, ObjInv, NewEnters
<1>7. StreamsOpen' /\ HandlesOwned'
  BY <1>2 DEF StreamsOpen, HandlesOwned, ObjInv
<1>8. NoUseAfterRelease'
  <2>1. privateData[s] = Null
    BY DEF NewEnters, ObjInv, HandlesOwned, StreamsOpen
  <2>2. NoUseAfterRelease
    BY DEF ObjInv
  <2> SUFFICES ASSUME NEW v \in Threads PROVE NoUseAfterRelease!(v)'
    BY DEF NoUseAfterRelease
  <2>3. CASE v = t
    BY <1>1, <1>2, <2>1, <2>3 DEF NewEnters, LifecycleOps, WorkOps, SharedOps, ReleaseOps
  <2>4. CASE v # t
    BY <1>1, <1>2, <2>1, <2>2, <2>4 DEF NoUseAfterRelease
  <2> QED
    BY <2>3, <2>4
<1>9. OpenedObjectsClosed'
  BY <1>1, <1>2, <1>3 DEF OpenedObjectsClosed, Releasing, ObjInv, NewEnters, LifecycleOps, WorkOps, SharedOps, ReleaseOps
<1> QED
  BY <1>4, <1>5, <1>6, <1>7, <1>8, <1>9 DEF ObjInv

(* GetNext or GetSchema of a stream enters.                                *)
LEMMA StreamEntersInv ==
  ASSUME TypeOK, TypeOK', ObjInv, NEW t \in Threads, NEW s \in Slots, StreamEnters(t, s)
  PROVE  ObjInv'
<1>1. /\ call'[t].op = "StreamRead" /\ call'[t].slot = s /\ call'[t].obj = privateData[s]
      /\ call'[t].peer = Null /\ call'[t].late = poisoned
      /\ \A u \in Threads \ {t} : call'[u] = call[u]
  <2>1. Enter(t, "StreamRead", s, Null)
    BY DEF StreamEnters, Entering, TypeOK
  <2> QED
    BY <2>1, EnterFacts
<1>2. UNCHANGED <<privateData, nextHandle, live, initialized, outstanding>>
  BY DEF StreamEnters, Entering, objVars
<1>3. call[t].op = "idle" /\ call[t] = IdleCall
  BY DEF StreamEnters, Entering, Idle, ObjInv, CallShape
<1>4. CallShape'
  <2>1. CallShape
    BY DEF ObjInv
  <2> SUFFICES ASSUME NEW v \in Threads PROVE CallShape!(v)'
    BY DEF CallShape
  <2>2. CASE v = t
    BY <1>1, <1>2, <2>2, ConstantsAssumption DEF StreamEnters, LifecycleOps, WorkOps, SharedOps, ReleaseOps, Slots
  <2>3. CASE v # t
    BY <1>1, <1>2, <2>1, <2>3 DEF CallShape
  <2> QED
    BY <2>2, <2>3
<1>5. Exclusion'
  BY <1>1, <1>2, <1>3, ConstantsAssumption
  DEF CallShape, Exclusion, ObjInv, StreamEnters, Shareable, Quiescent, Uses, LifecycleOps, WorkOps, SharedOps, ReleaseOps, Slots
<1>6. Fresh'
  <2>1. privateData[s] \in live
    BY DEF StreamEnters, ObjInv, HandlesOwned
  <2> QED
    BY <2>1, <1>1, <1>2, LiveBelowNext DEF Fresh, ObjInv
<1>7. StreamsOpen' /\ HandlesOwned'
  BY <1>2 DEF StreamsOpen, HandlesOwned, ObjInv
<1>8. NoUseAfterRelease'
  <2>1. privateData[s] \in live /\ privateData[s] # Null
        /\ initialized[privateData[s]]
    BY DEF StreamEnters, ObjInv, HandlesOwned, StreamsOpen
  <2>2. NoUseAfterRelease
    BY DEF ObjInv
  <2> SUFFICES ASSUME NEW v \in Threads PROVE NoUseAfterRelease!(v)'
    BY DEF NoUseAfterRelease
  <2>3. CASE v = t
    BY <1>1, <1>2, <2>1, <2>3 DEF StreamEnters, LifecycleOps, WorkOps, SharedOps, ReleaseOps
  <2>4. CASE v # t
    BY <1>1, <1>2, <2>1, <2>2, <2>4 DEF NoUseAfterRelease
  <2> QED
    BY <2>3, <2>4
<1>9. OpenedObjectsClosed'
  BY <1>1, <1>2, <1>3 DEF OpenedObjectsClosed, Releasing, ObjInv, StreamEnters, LifecycleOps, WorkOps, SharedOps, ReleaseOps
<1> QED
  BY <1>4, <1>5, <1>6, <1>7, <1>8, <1>9 DEF ObjInv

(* What the allocation of a handle changes.                                *)
LEMMA NewObjectFacts ==
  ASSUME TypeOK, NEW s \in Slots, NEW open \in BOOLEAN, NewObject(s, open)
  PROVE  /\ nextHandle \in Handles /\ nextHandle \in Nat /\ nextHandle' = nextHandle + 1
         /\ live' = live \cup {nextHandle}
         /\ privateData'[s] = nextHandle
         /\ \A r \in Slots \ {s} : privateData'[r] = privateData[r]
         /\ initialized'[nextHandle] = open
         /\ outstanding'[nextHandle] = IF open THEN 1 ELSE 0
         /\ \A h \in Handles \ {nextHandle} :
              initialized'[h] = initialized[h] /\ outstanding'[h] = outstanding[h]
  BY ConstantsAssumption DEF TypeOK, NewObject, Handles

(* A struct nobody else uses gets a new handle, and at most the calls that *)
(* use it return.                                                          *)
LEMMA AllocationInv ==
  ASSUME TypeOK, TypeOK', ObjInv, NEW s \in Slots, NEW open \in BOOLEAN,
         NewObject(s, open), privateData[s] = Null, s \in Streams => open,
         \A v \in Threads : \/ call'[v] = call[v] /\ ~Uses(v, s)
                            \/ call'[v] = IdleCall /\ call[v].op \notin ReleaseOps
  PROVE  ObjInv'
<1>1. /\ nextHandle \in Handles /\ nextHandle \in Nat /\ nextHandle' = nextHandle + 1 /\ live' = live \cup {nextHandle}
      /\ privateData'[s] = nextHandle
      /\ \A r \in Slots \ {s} : privateData'[r] = privateData[r]
      /\ initialized'[nextHandle] = open /\ outstanding'[nextHandle] = IF open THEN 1 ELSE 0
      /\ \A h \in Handles \ {nextHandle} :
           initialized'[h] = initialized[h] /\ outstanding'[h] = outstanding[h]
  BY NewObjectFacts
<1>0. /\ \A r \in Slots : privateData[r] \in Handles \cup {Null}
      /\ live \subseteq Handles /\ Null \notin Handles /\ Null \notin Slots
      /\ Streams \subseteq Slots
  BY ConstantsAssumption DEF TypeOK, Slots
<1>2. nextHandle # Null /\ nextHandle \notin live /\ ~initialized[nextHandle] /\ \A r \in Slots : privateData[r] # nextHandle
  BY <1>1, ConstantsAssumption DEF ObjInv, Fresh, HandlesOwned
<1>3. \A v \in Threads : call[v].obj # nextHandle /\ call'[v].obj # nextHandle
  BY <1>1, <1>2 DEF ObjInv, Fresh, IdleCall
<1>4. CallShape'
  <2> SUFFICES ASSUME NEW v \in Threads PROVE CallShape!(v)'
    BY DEF CallShape
  <2>1. CASE call'[v] = call[v] /\ ~Uses(v, s)
    BY <2>1, <1>1 DEF CallShape, ObjInv, Uses, Slots
  <2>2. CASE call'[v] = IdleCall
    BY <2>2 DEF IdleCall, LifecycleOps, WorkOps, SharedOps, ReleaseOps
  <2> QED
    BY <2>1, <2>2
<1>5. Exclusion'
  BY ConstantsAssumption
  DEF Exclusion, ObjInv, Uses, IdleCall, LifecycleOps, ReleaseOps, CallShape, Slots
<1>6. Fresh'
  <2>1. ASSUME NEW h \in Handles, h >= nextHandle + 1
        PROVE  h \notin live' /\ ~initialized'[h]
    BY <2>1, <1>1 DEF Fresh, ObjInv, Handles
  <2>2. ASSUME NEW v \in Threads, call'[v].obj # Null
        PROVE  call'[v].obj < nextHandle + 1
    BY <2>2, <1>1, CallType DEF Fresh, ObjInv, Handles, IdleCall
  <2> QED
    BY <1>1, <2>1, <2>2 DEF Fresh
<1>7. StreamsOpen'
  <2>1. ASSUME NEW r \in Streams, privateData'[r] # Null
        PROVE  initialized'[privateData'[r]]
    <3>1. CASE r = s
      BY <3>1, <2>1, <1>1
    <3>2. CASE r # s
      <4>1. privateData'[r] = privateData[r] /\ privateData[r] \in Handles \ {nextHandle}
        BY <3>2, <2>1, <1>0, <1>1, <1>2
      <4>2. initialized'[privateData[r]] = initialized[privateData[r]]
        BY <4>1, <1>1
      <4> QED
        BY <4>1, <4>2, <2>1 DEF StreamsOpen, ObjInv
    <3> QED
      BY <3>1, <3>2
  <2> QED
    BY <2>1 DEF StreamsOpen
<1>8. HandlesOwned'
  BY <1>0, <1>1, <1>2 DEF HandlesOwned, ObjInv
<1>9. NoUseAfterRelease'
  <2>1. NoUseAfterRelease
    BY DEF ObjInv
  <2> SUFFICES ASSUME NEW v \in Threads PROVE NoUseAfterRelease!(v)'
    BY DEF NoUseAfterRelease
  <2>3. CASE call'[v] = call[v] /\ ~Uses(v, s)
    <3>1. /\ call[v].slot \in Slots \cup {Null} /\ call[v].peer \in Slots \cup {Null}
          /\ call[v].obj \in Handles \cup {Null}
      BY CallType
    <3>2. /\ call[v].op # "idle" => call[v].slot \in Slots
          /\ call[v].op \in {"ConnectionInit", "StatementNew"} => call[v].peer \in Slots
      BY DEF ObjInv, CallShape, Slots
    <3>3. ASSUME NEW r \in Slots, r # s, privateData[r] # Null
          PROVE  /\ privateData'[r] = privateData[r]
                 /\ initialized'[privateData[r]] = initialized[privateData[r]]
      BY <1>0, <1>1, <1>2, <3>3
    <3> QED
      BY <2>1, <2>3, <1>0, <1>1, <1>2, <1>3, <3>1, <3>2, <3>3
      DEF NoUseAfterRelease, Uses, IdleCall, WorkOps, SharedOps, ReleaseOps
  <2>4. CASE call'[v] = IdleCall
    BY <2>4 DEF IdleCall, WorkOps, SharedOps, ReleaseOps
  <2> QED
    BY <2>3, <2>4
<1>10. OpenedObjectsClosed'
  <2>1. \A h \in Handles : Releasing(h)' <=> Releasing(h)
    BY DEF Releasing, IdleCall, ReleaseOps
  <2>2. ~Releasing(nextHandle)
    BY <1>3 DEF Releasing
  <2> QED
    BY <2>1, <2>2, <1>1, <1>2 DEF OpenedObjectsClosed, ObjInv
<1> QED
  BY <1>4, <1>5, <1>6, <1>7, <1>8, <1>9, <1>10 DEF ObjInv

(* DatabaseNew and ConnectionNew.                                          *)
LEMMA AllocatesInv ==
  ASSUME TypeOK, TypeOK', ObjInv, NEW s \in Slots, Allocates(s)
  PROVE  ObjInv'
<1>1. /\ NewObject(s, FALSE) /\ privateData[s] = Null /\ s \notin Streams
      /\ \A v \in Threads : call'[v] = call[v] /\ ~Uses(v, s)
  BY DEF Allocates, Quiescent
<1> QED
  BY <1>1, AllocationInv

(* A StatementNew or a call that exports a reader succeeds.                *)
LEMMA AllocatesAndReturnsInv ==
  ASSUME TypeOK, TypeOK', ObjInv, NEW t \in Threads, NEW s \in Slots,
         AllocatesAndReturns(t, s)
  PROVE  ObjInv'
<1>1. /\ NewObject(s, TRUE)
      /\ call'[t] = IdleCall /\ \A v \in Threads \ {t} : call'[v] = call[v]
  BY ReturnFacts DEF AllocatesAndReturns
<1>2. privateData[s] = Null /\ call[t].op \notin ReleaseOps
  BY DEF AllocatesAndReturns, ObjInv, CallShape, ReleaseOps
<1>3. \A v \in Threads \ {t} : ~Uses(v, s)
  BY DEF AllocatesAndReturns, ObjInv, CallShape, Exclusion, LifecycleOps
<1> QED
  BY <1>1, <1>2, <1>3, AllocationInv

(* A deleted handle was owned by one struct, which owns none afterwards.   *)
LEMMA DropHandleFacts ==
  ASSUME TypeOK, HandlesOwned, NEW s \in Slots, privateData[s] # Null, DropHandle(s)
  PROVE  /\ privateData[s] \in live /\ live \subseteq Handles
         /\ privateData'[s] = Null /\ live' = live \ {privateData[s]}
         /\ \A r \in Slots \ {s} :
              privateData'[r] = privateData[r] /\ privateData[r] # privateData[s]
         /\ HandlesOwned'
<1>1. /\ privateData'[s] = Null /\ live' = live \ {privateData[s]}
      /\ \A r \in Slots \ {s} : privateData'[r] = privateData[r]
  BY DEF TypeOK, DropHandle
<1>2. privateData[s] \in live /\ live \subseteq Handles /\ Null \notin Handles
  BY ConstantsAssumption DEF TypeOK, HandlesOwned
<1>3. \A r \in Slots \ {s} : privateData[r] # privateData[s]
  BY DEF HandlesOwned
<1>4. HandlesOwned'
  BY <1>1, <1>2, <1>3 DEF HandlesOwned
<1> QED
  BY <1>1, <1>2, <1>3, <1>4

(* A Release of a database, connection or statement enters.                *)
LEMMA ReleaseEntersInv ==
  ASSUME TypeOK, TypeOK', ObjInv, NEW t \in Threads, NEW op \in Ops, NEW s \in Slots,
         ReleaseEnters(t, op, s)
  PROVE  ObjInv'
<1>1. /\ call'[t].op = op /\ call'[t].slot = s /\ call'[t].obj = privateData[s]
      /\ call'[t].peer = Null /\ call'[t].late = FALSE
      /\ \A u \in Threads \ {t} : call'[u] = call[u]
  <2>1. Enter(t, op, s, Null) /\ poisoned = FALSE
    BY DEF ReleaseEnters, TypeOK
  <2> QED
    BY <2>1, EnterFacts
<1>2. /\ UNCHANGED <<nextHandle, initialized, outstanding>>
      /\ op \in ReleaseOps /\ s \notin Streams
      /\ call[t].op = "idle" /\ privateData[s] # Null
      /\ \A u \in Threads : ~Uses(u, s)
  BY DEF ReleaseEnters, Idle, Quiescent
<1>3. /\ privateData[s] \in live /\ live \subseteq Handles
      /\ privateData'[s] = Null /\ live' = live \ {privateData[s]}
      /\ \A r \in Slots \ {s} :
           privateData'[r] = privateData[r] /\ privateData[r] # privateData[s]
      /\ HandlesOwned'
  BY <1>2, DropHandleFacts DEF ReleaseEnters, ObjInv
<1>4. \A u \in Threads : call[u].obj # privateData[s]
  <2> SUFFICES ASSUME NEW u \in Threads, call[u].obj = privateData[s] PROVE FALSE
    OBVIOUS
  <2>1. call[u].op # "idle"
    BY <1>2 DEF ObjInv, CallShape, IdleCall
  <2>2. call[u].slot \in Slots /\ call[u].op # "StatementNew" /\ call[u].op \notin ReleaseOps
    BY <2>1, <1>2, <1>3 DEF ObjInv, CallShape, NoUseAfterRelease
  <2>3. privateData[call[u].slot] = call[u].obj
    BY <2>1, <2>2 DEF ObjInv, CallShape, NoUseAfterRelease, LifecycleOps, ReleaseOps
  <2> QED
    BY <2>2, <2>3, <1>2, <1>3 DEF Uses
<1>5. CallShape'
  <2> SUFFICES ASSUME NEW v \in Threads PROVE CallShape!(v)'
    BY DEF CallShape
  <2>1. CASE v = t
    BY <2>1, <1>1, <1>2 DEF LifecycleOps, ReleaseOps
  <2>2. CASE v # t
    <3>1. \A r \in Slots \cup {Null} : r # s /\ r \in Slots => privateData'[r] = privateData[r]
      BY <1>3
    <3> QED
      BY <2>2, <1>1, <1>2, <3>1 DEF CallShape, ObjInv, Uses, Slots
  <2> QED
    BY <2>1, <2>2
<1>6. Exclusion'
  BY <1>1, <1>2, ConstantsAssumption
  DEF Exclusion, ObjInv, CallShape, Uses, LifecycleOps, ReleaseOps, Slots
<1>7. Fresh'
  <2>1. privateData[s] < nextHandle
    BY <1>3, LiveBelowNext DEF ObjInv
  <2> QED
    BY <2>1, <1>1, <1>2, <1>3 DEF Fresh, ObjInv
<1>8. StreamsOpen'
  BY <1>2, <1>3 DEF StreamsOpen, ObjInv, Slots
<1>9. NoUseAfterRelease'
  <2> SUFFICES ASSUME NEW v \in Threads PROVE NoUseAfterRelease!(v)'
    BY DEF NoUseAfterRelease
  <2>1. CASE v = t
    BY <2>1, <1>1, <1>2, <1>3, <1>4 DEF WorkOps, SharedOps, ReleaseOps
  <2>2. CASE v # t
    <3>1. /\ call[v].op # "idle" => call[v].slot \in Slots \ {s}
          /\ call[v].op \in {"ConnectionInit", "StatementNew"} => call[v].peer \in Slots \ {s}
      BY <1>2 DEF ObjInv, CallShape, Slots, Uses
    <3> QED
      BY <2>2, <3>1, <1>1, <1>2, <1>3, <1>4
      DEF NoUseAfterRelease, ObjInv, WorkOps, SharedOps, ReleaseOps
  <2> QED
    BY <2>1, <2>2
<1>10. OpenedObjectsClosed'
  <2>1. \A h \in Handles : Releasing(h)' <=> Releasing(h) \/ h = privateData[s]
    BY <1>1, <1>2 DEF Releasing, ReleaseOps
  <2> QED
    BY <2>1, <1>2, <1>3 DEF OpenedObjectsClosed, ObjInv
<1> QED
  BY <1>3, <1>5, <1>6, <1>7, <1>8, <1>9, <1>10 DEF ObjInv

(* The release callback of a stream.                                       *)
LEMMA StreamReleasesInv ==
  ASSUME TypeOK, TypeOK', ObjInv, NEW s \in Slots, StreamReleases(s)
  PROVE  ObjInv'
<1>1. /\ UNCHANGED <<nextHandle, initialized, call>> /\ Closed(privateData[s])
      /\ s \in Streams /\ privateData[s] # Null
      /\ \A u \in Threads : ~Uses(u, s)
  BY DEF StreamReleases, Quiescent
<1>2. /\ privateData[s] \in live /\ live \subseteq Handles
      /\ privateData'[s] = Null /\ live' = live \ {privateData[s]}
      /\ \A r \in Slots \ {s} :
           privateData'[r] = privateData[r] /\ privateData[r] # privateData[s]
      /\ HandlesOwned'
  BY <1>1, DropHandleFacts DEF StreamReleases, ObjInv
<1>3. \A u \in Threads : /\ call[u].op # "idle" => call[u].slot \in Slots \ {s}
                         /\ call[u].op \in {"ConnectionInit", "StatementNew"} =>
                              call[u].peer \in Slots \ {s}
                         /\ call[u].peer # s
  BY <1>1 DEF ObjInv, CallShape, Slots, Uses
<1>4. CallShape'
  BY <1>1, <1>2, <1>3 DEF ObjInv, CallShape, Slots
<1>5. Exclusion' /\ Fresh'
  BY <1>1, <1>2 DEF ObjInv, Exclusion, Fresh, Uses
<1>6. StreamsOpen'
  BY <1>1, <1>2 DEF ObjInv, StreamsOpen, Slots
<1>7. NoUseAfterRelease'
  BY <1>1, <1>2, <1>3
  DEF ObjInv, NoUseAfterRelease, WorkOps, SharedOps, ReleaseOps
<1>8. OpenedObjectsClosed'
  <2>1. \A h \in Handles : Releasing(h)' <=> Releasing(h)
    BY <1>1 DEF Releasing
  <2>2. ~Releasing(privateData[s])
    BY <1>2 DEF Releasing, ObjInv, NoUseAfterRelease
  <2>3. initialized[privateData[s]] /\ outstanding[privateData[s]] = 1
    BY <1>1, <1>2 DEF ObjInv, StreamsOpen, OpenedObjectsClosed
  <2>4. /\ outstanding'[privateData[s]] = 0
        /\ \A h \in Handles \ {privateData[s]} : outstanding'[h] = outstanding[h]
    BY <2>3, <1>1, <1>2 DEF Closed, TypeOK
  <2> QED
    BY <2>1, <2>2, <2>4, <1>1, <1>2 DEF OpenedObjectsClosed, ObjInv
<1> QED
  BY <1>2, <1>4, <1>5, <1>6, <1>7, <1>8 DEF ObjInv

(* What the return of a call does to the parts that mention calls only.    *)
LEMMA ReturnShape ==
  ASSUME TypeOK, ObjInv, NEW t \in Threads, call' = [call EXCEPT ![t] = IdleCall],
         UNCHANGED <<privateData, nextHandle, live>>
  PROVE  CallShape' /\ Exclusion' /\ HandlesOwned'
<1>1. /\ call'[t] = IdleCall /\ \A u \in Threads \ {t} : call'[u] = call[u]
      /\ call'[t].op = "idle" /\ call'[t].slot = Null /\ call'[t].peer = Null
      /\ call'[t].late = FALSE
  BY ReturnFacts
<1>2. CallShape'
  <2> SUFFICES ASSUME NEW v \in Threads PROVE CallShape!(v)'
    BY DEF CallShape
  <2>1. CASE v = t
    BY <2>1, <1>1 DEF LifecycleOps, WorkOps, SharedOps, ReleaseOps
  <2>2. CASE v # t
    BY <2>2, <1>1 DEF CallShape, ObjInv
  <2> QED
    BY <2>1, <2>2
<1>3. Exclusion'
  BY <1>1, ConstantsAssumption
  DEF Exclusion, ObjInv, CallShape, Uses, LifecycleOps, ReleaseOps, Slots
<1> QED
  BY <1>2, <1>3 DEF HandlesOwned, ObjInv

(* A Release returns, after it closed the Go object.                       *)
LEMMA ReleaseReturnsInv ==
  ASSUME TypeOK, TypeOK', ObjInv, NEW t \in Threads, ReleaseReturns(t)
  PROVE  ObjInv'
<1> DEFINE h == call[t].obj
<1>1. /\ call'[t] = IdleCall /\ \A u \in Threads \ {t} : call'[u] = call[u]
      /\ call'[t].op = "idle" /\ call'[t].obj = Null
      /\ UNCHANGED <<privateData, nextHandle, live>>
      /\ call[t].op \in ReleaseOps
  BY ReturnFacts DEF ReleaseReturns
<1>2. CallShape' /\ Exclusion' /\ HandlesOwned'
  BY ReturnShape DEF ReleaseReturns
<1>3. h \in Handles /\ h \notin live /\ \A u \in Threads \ {t} : call[u].obj # h
  BY <1>1, CallType DEF ObjInv, NoUseAfterRelease
<1>4. /\ \A g \in Handles \ {h} :
           initialized'[g] = initialized[g] /\ outstanding'[g] = outstanding[g]
      /\ initialized'[h] = initialized[h] \/ initialized'[h] = FALSE
      /\ outstanding'[h] = IF initialized[h] THEN outstanding[h] - 1 ELSE outstanding[h]
  BY <1>3 DEF ReleaseReturns, Closed, TypeOK
<1> HIDE DEF h
<1>5. Fresh'
  BY <1>1, <1>3, <1>4 DEF Fresh, ObjInv
<1>6. \A r \in Slots : privateData[r] # Null => privateData[r] \in Handles \ {h}
  BY <1>3 DEF ObjInv, HandlesOwned, TypeOK
<1>7. StreamsOpen'
  BY <1>1, <1>4, <1>6 DEF StreamsOpen, ObjInv, Slots
<1>8. NoUseAfterRelease'
  <2> SUFFICES ASSUME NEW v \in Threads PROVE NoUseAfterRelease!(v)'
    BY DEF NoUseAfterRelease
  <2>1. CASE v = t
    BY <2>1, <1>1 DEF WorkOps, SharedOps, ReleaseOps
  <2>2. CASE v # t
    <3>1. /\ call[v].op # "idle" => call[v].slot \in Slots
          /\ call[v].op \in {"ConnectionInit", "StatementNew"} => call[v].peer \in Slots
          /\ call[v].obj \in Handles \cup {Null} /\ call[v].obj # h
      BY <2>2, <1>3, CallType DEF ObjInv, CallShape, Slots
    <3>2. call'[v] = call[v] /\ \A u \in Threads : call'[u].obj = call[u].obj \/ call'[u].obj = Null
      BY <2>2, <1>1
    <3>3. call[v].obj # Null => initialized'[call[v].obj] = initialized[call[v].obj]
      BY <3>1, <1>4
    <3>4. call[v].op \in {"ConnectionInit", "StatementNew"} /\ privateData[call[v].peer] # Null =>
            initialized'[privateData[call[v].peer]] = initialized[privateData[call[v].peer]]
      BY <3>1, <1>4, <1>6
    <3> QED
      BY <3>1, <3>2, <3>3, <3>4, <1>1 DEF NoUseAfterRelease, ObjInv
  <2> QED
    BY <2>1, <2>2
<1>9. OpenedObjectsClosed'
  <2>1. \A g \in Handles \ {h} : Releasing(g)' <=> Releasing(g)
    BY <1>1 DEF Releasing, ReleaseOps, h
  <2>2. \A g \in Handles : g = h => ~(Releasing(g)')
    BY <1>1, <1>3, ConstantsAssumption DEF Releasing, ReleaseOps
  <2>3. outstanding[h] = IF initialized[h] THEN 1 ELSE 0
    BY <1>1, <1>3 DEF OpenedObjectsClosed, ObjInv, Releasing, h
  <2>4. outstanding'[h] = 0
    BY <2>3, <1>4
  <2> SUFFICES ASSUME NEW g \in Handles PROVE OpenedObjectsClosed!(g)'
    BY DEF OpenedObjectsClosed
  <2>5. CASE g = h
    BY <2>2, <2>4, <2>5, <1>1, <1>3
  <2>6. CASE g # h
    BY <2>1, <2>6, <1>1, <1>4 DEF OpenedObjectsClosed, ObjInv
  <2> QED
    BY <2>5, <2>6
<1> QED
  BY <1>2, <1>5, <1>7, <1>8, <1>9 DEF ObjInv

(* An Init returns with an opened object, with or without an error.        *)
LEMMA InitReturnsInv ==
  ASSUME TypeOK, TypeOK', ObjInv, NEW t \in Threads, InitReturns(t)
  PROVE  ObjInv'
<1> DEFINE h == call[t].obj
<1>1. /\ call'[t] = IdleCall /\ \A u \in Threads \ {t} : call'[u] = call[u]
      /\ call'[t].op = "idle" /\ call'[t].obj = Null
      /\ UNCHANGED <<privateData, nextHandle, live>>
      /\ call[t].op \in {"DatabaseInit", "ConnectionInit"}
  BY ReturnFacts DEF InitReturns
<1>2. CallShape' /\ Exclusion' /\ HandlesOwned'
  BY ReturnShape DEF InitReturns
<1>3. /\ h \in Handles /\ h # Null /\ h \in live /\ ~initialized[h]
      /\ call[t].slot \in Slots /\ privateData[call[t].slot] = h
  BY <1>1, CallType DEF ObjInv, NoUseAfterRelease, HandlesOwned, CallShape
<1>4. /\ \A g \in Handles \ {h} :
           initialized'[g] = initialized[g] /\ outstanding'[g] = outstanding[g]
      /\ initialized'[h] = TRUE /\ outstanding'[h] = outstanding[h] + 1
  BY <1>3 DEF InitReturns, Opened, TypeOK
<1>5. Fresh'
  BY <1>1, <1>3, <1>4, LiveBelowNext DEF Fresh, ObjInv, Handles, TypeOK
<1>6. \A g \in Handles : initialized[g] => initialized'[g]
  BY <1>4
<1>7. StreamsOpen'
  BY <1>1, <1>6 DEF StreamsOpen, ObjInv, Slots, TypeOK
<1>8. NoUseAfterRelease'
  <2> SUFFICES ASSUME NEW v \in Threads PROVE NoUseAfterRelease!(v)'
    BY DEF NoUseAfterRelease
  <2>1. CASE v = t
    BY <2>1, <1>1 DEF WorkOps, SharedOps, ReleaseOps
  <2>2. CASE v # t
    <3>1. call[v].op \in {"DatabaseInit", "ConnectionInit"} => call[v].obj # h
      BY <2>2, <1>1, <1>3 DEF ObjInv, CallShape, NoUseAfterRelease, HandlesOwned, Exclusion, Uses, LifecycleOps
    <3>2. call'[v] = call[v] /\ \A u \in Threads : call'[u].obj = call[u].obj \/ call'[u].obj = Null
      BY <2>2, <1>1
    <3>3. call[v].obj \in Handles \cup {Null}
      BY CallType
    <3>4. call[v].op \in {"ConnectionInit", "StatementNew"} => call[v].peer \in Slots
      BY DEF ObjInv, CallShape, Slots
    <3>5. \A r \in Slots : privateData[r] \in Handles \cup {Null}
      BY DEF TypeOK
    <3> QED
      BY <3>1, <3>2, <3>3, <3>4, <3>5, <1>1, <1>4, <1>6 DEF NoUseAfterRelease, ObjInv
  <2> QED
    BY <2>1, <2>2
<1>9. OpenedObjectsClosed'
  <2>1. \A g \in Handles : Releasing(g)' <=> Releasing(g)
    BY <1>1 DEF Releasing, ReleaseOps
  <2> QED
    BY <2>1, <1>1, <1>3, <1>4 DEF OpenedObjectsClosed, ObjInv
<1> QED
  BY <1>2, <1>5, <1>7, <1>8, <1>9 DEF ObjInv

(* Any other call returns.                                                 *)
LEMMA ReturnsInv ==
  ASSUME TypeOK, TypeOK', ObjInv, NEW t \in Threads, Returns(t)
  PROVE  ObjInv'
<1>1. /\ call'[t] = IdleCall /\ \A u \in Threads \ {t} : call'[u] = call[u]
      /\ call'[t].op = "idle" /\ call'[t].obj = Null
      /\ UNCHANGED <<privateData, nextHandle, live, initialized, outstanding>>
  BY ReturnFacts DEF Returns, objVars
<1>2. CallShape' /\ Exclusion' /\ HandlesOwned'
  BY <1>1, ReturnShape DEF Returns
<1>3. Fresh' /\ StreamsOpen'
  BY <1>1 DEF Fresh, StreamsOpen, ObjInv
<1>4. NoUseAfterRelease'
  <2> SUFFICES ASSUME NEW v \in Threads PROVE NoUseAfterRelease!(v)'
    BY DEF NoUseAfterRelease
  <2>1. CASE v = t
    BY <2>1, <1>1 DEF WorkOps, SharedOps, ReleaseOps
  <2>2. CASE v # t
    BY <2>2, <1>1 DEF NoUseAfterRelease, ObjInv
  <2> QED
    BY <2>1, <2>2
<1>5. OpenedObjectsClosed'
  <2>1. \A g \in Handles : Releasing(g)' <=> Releasing(g)
    BY <1>1 DEF Releasing, ReleaseOps, Returns
  <2> QED
    BY <2>1, <1>1 DEF OpenedObjectsClosed, ObjInv
<1> QED
  BY <1>2, <1>3, <1>4, <1>5 DEF ObjInv

-----------------------------------------------------------------------------
(***************************************************************************)
(* Type correctness.  The lemmas give the types of what the actions are    *)
(* built from.                                                             *)
(***************************************************************************)
(* Entering keeps the type of call.                                        *)
LEMMA EnterType ==
  ASSUME TypeOK, NEW t \in Threads, NEW op \in Ops, NEW s \in Slots,
         NEW p \in Slots \cup {Null}, Enter(t, op, s, p)
  PROVE  call' \in [Threads -> Call]
  BY DEF TypeOK, Enter, Call

(* Returning keeps the type of call.                                       *)
LEMMA ReturnType ==
  ASSUME TypeOK, NEW t \in Threads, call' = [call EXCEPT ![t] = IdleCall]
  PROVE  call' \in [Threads -> Call]
  BY DEF TypeOK, IdleCall, Call

(* The history of late successes keeps its type.                           *)
LEMMA RecordType ==
  ASSUME TypeOK, NEW op, NEW late, RecordOK(op, late)
  PROVE  lateOK' \in SUBSET Kinds
<1>1. Kind(op) \in Kinds
  BY DEF Kind, Kinds
<1> QED
  BY <1>1 DEF TypeOK, RecordOK

(* The allocation of a handle keeps the types of the object variables.     *)
LEMMA NewObjectType ==
  ASSUME TypeOK, NEW s, NEW open \in BOOLEAN, NewObject(s, open)
  PROVE  /\ privateData' \in [Slots -> Handles \cup {Null}]
         /\ nextHandle' \in 1 .. MaxHandles + 1
         /\ live' \in SUBSET Handles
         /\ initialized' \in [Handles -> BOOLEAN]
         /\ outstanding' \in [Handles -> Int]
<1>1. nextHandle \in Handles /\ nextHandle' \in 1 .. MaxHandles + 1
  BY ConstantsAssumption DEF TypeOK, NewObject, Handles
<1>2. privateData' \in [Slots -> Handles \cup {Null}]
  BY <1>1 DEF TypeOK, NewObject
<1>3. live' \in SUBSET Handles /\ outstanding' \in [Handles -> Int]
  BY <1>1 DEF TypeOK, NewObject
<1>4. initialized' \in [Handles -> BOOLEAN]
  BY <1>1 DEF TypeOK, NewObject
<1> QED
  BY <1>1, <1>2, <1>3, <1>4

(* Opening a Go object keeps the types of the object variables.            *)
LEMMA OpenedType ==
  ASSUME TypeOK, NEW h, Opened(h)
  PROVE  initialized' \in [Handles -> BOOLEAN] /\ outstanding' \in [Handles -> Int]
<1>1. initialized' \in [Handles -> BOOLEAN]
  BY DEF TypeOK, Opened
<1>2. outstanding' \in [Handles -> Int]
  <2>1. \A g \in Handles : outstanding[g] + 1 \in Int
    BY DEF TypeOK
  <2> QED
    BY <2>1 DEF TypeOK, Opened
<1> QED
  BY <1>1, <1>2

(* Closing a Go object keeps the type of outstanding.                      *)
LEMMA ClosedType ==
  ASSUME TypeOK, NEW h, Closed(h)
  PROVE  outstanding' \in [Handles -> Int]
<1>1. \A g \in Handles : outstanding[g] - 1 \in Int /\ outstanding[g] \in Int
  BY DEF TypeOK
<1> QED
  BY <1>1 DEF TypeOK, Closed

(* Deleting a handle keeps the types of the handle variables.              *)
LEMMA DropHandleType ==
  ASSUME TypeOK, NEW s \in Slots, DropHandle(s)
  PROVE  privateData' \in [Slots -> Handles \cup {Null}] /\ live' \in SUBSET Handles
  BY DEF TypeOK, DropHandle

(* The poison flag is a Boolean after a call that may have panicked.       *)
LEMMA PoisonType ==
  ASSUME TypeOK, poisoned' \in {poisoned, TRUE}
  PROVE  poisoned' \in BOOLEAN
  BY DEF TypeOK

(* One option of one object is set to a value.                             *)
LEMMA SetOneType ==
  ASSUME NEW f \in Options, NEW h, NEW k, NEW v \in Vals
  PROVE  [f EXCEPT ![h][k] = v] \in Options
  BY DEF Options

(* The options of one object are replaced.                                 *)
LEMMA SetAllType ==
  ASSUME NEW f \in Options, NEW h, NEW o \in [Keys -> Vals \cup {Null}]
  PROVE  [f EXCEPT ![h] = o] \in Options
  BY DEF Options

(* No options set is a value of the options.                               *)
LEMMA NoOptsType == NoOpts \in [Keys -> Vals \cup {Null}]
  BY DEF NoOpts

(* The step forms most actions share.                                      *)
LEMMA RefuseType ==
  ASSUME TypeOK, UNCHANGED vars
  PROVE  TypeOK'
  BY DEF TypeOK, vars, objVars, optVars, Options, Call

(* A step that only enters a call.                                         *)
LEMMA EnterStepType ==
  ASSUME TypeOK, NEW t \in Threads, NEW op \in Ops, NEW s \in Slots,
         NEW p \in Slots \cup {Null}, Enter(t, op, s, p),
         UNCHANGED <<poisoned, objVars, optVars, lateOK>>
  PROVE  TypeOK'
  BY EnterType DEF TypeOK, objVars, optVars

(* A step that enters a Release.                                           *)
LEMMA ReleaseStepType ==
  ASSUME TypeOK, NEW t \in Threads, NEW op \in Ops, NEW s \in Slots,
         DropHandle(s), Enter(t, op, s, Null),
         UNCHANGED <<poisoned, nextHandle, initialized, outstanding, optVars, lateOK>>
  PROVE  TypeOK'
  BY EnterType, DropHandleType DEF TypeOK, optVars

(* A step that only returns an error.                                      *)
LEMMA ReturnErrorType ==
  ASSUME TypeOK, NEW t \in Threads, ReturnError(t), poisoned' \in {poisoned, TRUE},
         UNCHANGED <<objVars, optVars>>
  PROVE  TypeOK'
  BY ReturnType, PoisonType DEF TypeOK, ReturnError, objVars, optVars

(* A step that only records a success.                                     *)
LEMMA RecordStepType ==
  ASSUME TypeOK, NEW op, NEW late, RecordOK(op, late),
         UNCHANGED <<poisoned, objVars, optVars, call>>
  PROVE  TypeOK'
  BY RecordType DEF TypeOK, objVars, optVars

(* The names of the calls.                                                 *)
LEMMA OpsFacts ==
  /\ LifecycleOps \subseteq Ops /\ ReleaseOps \subseteq Ops /\ WorkOps \subseteq Ops
  /\ SharedOps \subseteq Ops /\ StreamOps \subseteq Ops
  BY DEF Ops, LifecycleOps

(* The kinds of struct.                                                    *)
LEMMA SlotsFacts ==
  /\ Databases \subseteq Slots /\ Connections \subseteq Slots
  /\ Statements \subseteq Slots /\ Streams \subseteq Slots
  BY DEF Slots

(* The entries of the database functions keep the types.                   *)
LEMMA DatabaseStepType ==
  ASSUME TypeOK, NEW t \in Threads, DatabaseStep(t)
  PROVE  TypeOK'
<1> PICK d \in Databases :
      \/ DatabaseNew(t, d)  \/ DatabaseSetOption(t, d) \/ DatabaseGetOption(t, d)
      \/ DatabaseInit(t, d) \/ DatabaseRelease(t, d)
  BY DEF DatabaseStep
<1>0. d \in Slots
  BY SlotsFacts
<1>1. CASE DatabaseNew(t, d)
  <2>1. CASE NewObject(d, FALSE) /\ RecordOK("DatabaseNew", poisoned)
               /\ UNCHANGED <<poisoned, optVars, call>>
    BY <1>0, <2>1, NewObjectType, RecordType DEF TypeOK, optVars
  <2> QED
    BY <1>1, <2>1, RefuseType DEF DatabaseNew, Refuse
<1>2. CASE DatabaseSetOption(t, d)
  <2>1. ASSUME NEW k \in Keys, NEW v \in Vals,
               buffered' = [buffered EXCEPT ![privateData[d]][k] = v],
               asked' = [asked EXCEPT ![privateData[d]][k] = v],
               RecordOK("DatabaseSetOption", poisoned),
               UNCHANGED <<poisoned, objVars, delivered, initOK, call>>
        PROVE  TypeOK'
    <3>1. buffered' \in Options /\ asked' \in Options
      BY <2>1, SetOneType DEF TypeOK
    <3> QED
      BY <2>1, <3>1, RecordType DEF TypeOK, objVars
  <2>2. CASE Enter(t, "DatabaseSetOption", d, Null)
               /\ UNCHANGED <<poisoned, objVars, optVars, lateOK>>
    BY <1>0, <2>2, EnterStepType, OpsFacts DEF WorkOps
  <2> QED
    BY <1>2, <2>1, <2>2, RefuseType DEF DatabaseSetOption, Refuse
<1>3. CASE DatabaseGetOption(t, d)
  BY <1>0, <1>3, EnterStepType, RefuseType, OpsFacts DEF DatabaseGetOption, Refuse, SharedOps
<1>4. CASE DatabaseInit(t, d)
  BY <1>0, <1>4, EnterStepType, RefuseType, OpsFacts DEF DatabaseInit, Refuse, LifecycleOps
<1>5. CASE DatabaseRelease(t, d)
  BY <1>0, <1>5, ReleaseStepType, RefuseType, OpsFacts DEF DatabaseRelease, Refuse, ReleaseOps
<1> QED
  BY <1>1, <1>2, <1>3, <1>4, <1>5

(* The entries of the connection functions keep the types.                 *)
LEMMA ConnectionStepType ==
  ASSUME TypeOK, NEW t \in Threads, ConnectionStep(t)
  PROVE  TypeOK'
<1> PICK c \in Connections :
      \/ ConnectionNew(t, c) \/ ConnectionSetOption(t, c) \/ ConnectionSetTypedOption(t, c)
      \/ ConnectionGetOption(t, c) \/ ConnectionRelease(t, c) \/ ConnectionCancel(t, c)
      \/ ConnectionOp(t, c)
      \/ \E d \in Databases : ConnectionInit(t, c, d)
      \/ \E out \in Streams : ConnectionMetadata(t, c, out)
  BY DEF ConnectionStep
<1>0. c \in Slots
  BY SlotsFacts
<1>1. CASE ConnectionNew(t, c)
  <2>1. CASE NewObject(c, FALSE) /\ RecordOK("ConnectionNew", poisoned)
               /\ UNCHANGED <<poisoned, optVars, call>>
    BY <1>0, <2>1, NewObjectType, RecordType DEF TypeOK, optVars
  <2> QED
    BY <1>1, <2>1, RefuseType DEF ConnectionNew, Refuse
<1>2. CASE ConnectionSetOption(t, c)
  <2>1. ASSUME NEW k \in Keys, NEW v \in StringVals,
               buffered' = [buffered EXCEPT ![privateData[c]][k] = v],
               asked' = [asked EXCEPT ![privateData[c]][k] = v],
               RecordOK("ConnectionSetOption", poisoned),
               UNCHANGED <<poisoned, objVars, delivered, initOK, call>>
        PROVE  TypeOK'
    <3>1. buffered' \in Options /\ asked' \in Options
      BY <2>1, SetOneType DEF TypeOK, Vals
    <3> QED
      BY <2>1, <3>1, RecordType DEF TypeOK, objVars
  <2>2. CASE Enter(t, "ConnectionSetOption", c, Null)
               /\ UNCHANGED <<poisoned, objVars, optVars, lateOK>>
    BY <1>0, <2>2, EnterStepType, OpsFacts DEF WorkOps
  <2> QED
    BY <1>2, <2>1, <2>2, RefuseType DEF ConnectionSetOption, Refuse
<1>3. CASE ConnectionSetTypedOption(t, c)
  BY <1>0, <1>3, EnterStepType, RefuseType, OpsFacts DEF ConnectionSetTypedOption, Refuse, WorkOps
<1>4. CASE ConnectionGetOption(t, c)
  BY <1>0, <1>4, EnterStepType, RefuseType, OpsFacts DEF ConnectionGetOption, Refuse, SharedOps
<1>5. CASE ConnectionRelease(t, c)
  BY <1>0, <1>5, ReleaseStepType, RefuseType, OpsFacts DEF ConnectionRelease, Refuse, ReleaseOps
<1>6. CASE ConnectionCancel(t, c)
  BY <1>6, RecordStepType, RefuseType DEF ConnectionCancel, Refuse
<1>7. CASE ConnectionOp(t, c)
  BY <1>0, <1>7, EnterStepType, RefuseType, OpsFacts DEF ConnectionOp, Refuse, WorkOps
<1>8. ASSUME NEW d \in Databases, ConnectionInit(t, c, d) PROVE TypeOK'
  BY <1>0, <1>8, EnterStepType, RefuseType, OpsFacts, SlotsFacts
  DEF ConnectionInit, Refuse, LifecycleOps
<1>9. ASSUME NEW out \in Streams, ConnectionMetadata(t, c, out) PROVE TypeOK'
  BY <1>0, <1>9, EnterStepType, RefuseType, OpsFacts, SlotsFacts
  DEF ConnectionMetadata, Refuse, WorkOps
<1> QED
  BY <1>1, <1>2, <1>3, <1>4, <1>5, <1>6, <1>7, <1>8, <1>9

(* The entries of the statement functions keep the types.                  *)
LEMMA StatementStepType ==
  ASSUME TypeOK, NEW t \in Threads, StatementStep(t)
  PROVE  TypeOK'
<1> PICK st \in Statements :
      \/ StatementGetOption(t, st) \/ StatementCancel(t, st) \/ StatementOp(t, st)
      \/ StatementRelease(t, st)
      \/ \E c \in Connections : StatementNew(t, st, c)
      \/ \E out \in Streams \cup {Null} : StatementExecuteQuery(t, st, out)
  BY DEF StatementStep
<1>0. st \in Slots
  BY SlotsFacts
<1>1. CASE StatementGetOption(t, st)
  BY <1>0, <1>1, EnterStepType, RefuseType, OpsFacts DEF StatementGetOption, Refuse, SharedOps
<1>2. CASE StatementCancel(t, st)
  BY <1>0, <1>2, EnterStepType, RefuseType, OpsFacts DEF StatementCancel, Refuse, SharedOps
<1>3. CASE StatementOp(t, st)
  BY <1>0, <1>3, EnterStepType, RefuseType, OpsFacts DEF StatementOp, Refuse, WorkOps
<1>4. CASE StatementRelease(t, st)
  BY <1>0, <1>4, ReleaseStepType, RefuseType, OpsFacts DEF StatementRelease, Refuse, ReleaseOps
<1>5. ASSUME NEW c \in Connections, StatementNew(t, st, c) PROVE TypeOK'
  BY <1>0, <1>5, EnterStepType, RefuseType, OpsFacts, SlotsFacts
  DEF StatementNew, Refuse, LifecycleOps
<1>6. ASSUME NEW out \in Streams \cup {Null}, StatementExecuteQuery(t, st, out) PROVE TypeOK'
  BY <1>0, <1>6, EnterStepType, RefuseType, OpsFacts, SlotsFacts
  DEF StatementExecuteQuery, Refuse, WorkOps
<1> QED
  BY <1>1, <1>2, <1>3, <1>4, <1>5, <1>6

(* The stream callbacks keep the types.                                    *)
LEMMA StreamStepType ==
  ASSUME TypeOK, NEW t \in Threads, StreamStep(t)
  PROVE  TypeOK'
<1> PICK s \in Streams : StreamRead(t, s) \/ StreamGetLastError(t, s) \/ StreamRelease(t, s)
  BY DEF StreamStep
<1>0. s \in Slots
  BY SlotsFacts
<1>1. CASE StreamRead(t, s)
  BY <1>0, <1>1, EnterStepType, RefuseType, OpsFacts DEF StreamRead, Refuse, StreamOps
<1>2. CASE StreamGetLastError(t, s)
  BY <1>2, RecordStepType, RefuseType DEF StreamGetLastError, Refuse
<1>3. CASE StreamRelease(t, s)
  <2>1. CASE DropHandle(s) /\ Closed(privateData[s]) /\ RecordOK("StreamRelease", poisoned)
               /\ UNCHANGED <<poisoned, nextHandle, initialized, optVars, call>>
    BY <1>0, <2>1, DropHandleType, ClosedType, RecordType DEF TypeOK, optVars
  <2> QED
    BY <1>3, <2>1, RefuseType DEF StreamRelease, Refuse
<1> QED
  BY <1>1, <1>2, <1>3

(* The return of an Init that opened an object and took options.           *)
LEMMA OpenedStepType ==
  ASSUME TypeOK, NEW t \in Threads, NEW h, Opened(h),
         call' = [call EXCEPT ![t] = IdleCall], lateOK' \in SUBSET Kinds,
         poisoned' \in {poisoned, TRUE}, delivered' \in Options, buffered' \in Options,
         initOK' \in SUBSET Handles, UNCHANGED <<privateData, nextHandle, live, asked>>
  PROVE  TypeOK'
  BY ReturnType, OpenedType, PoisonType DEF TypeOK

(* The returns keep the types.                                             *)
LEMMA ReturnStepType ==
  ASSUME TypeOK, NoUseAfterRelease, NEW t \in Threads, Return(t)
  PROVE  TypeOK'
<1> DEFINE h == call[t].obj
<1>h. call[t].op \in {"DatabaseInit", "ConnectionInit"} => h \in Handles
  BY CallType DEF NoUseAfterRelease
<1>0. /\ h \in Handles => buffered[h] \in [Keys -> Vals \cup {Null}]
      /\ buffered \in Options /\ delivered \in Options /\ asked \in Options
      /\ initOK \in SUBSET Handles /\ lateOK \in SUBSET Kinds
  BY DEF TypeOK, Options
<1>1. CASE DatabaseInitReturns(t)
  <2>1. ASSUME NEW done, DeliverDatabaseOpts(h, done) PROVE delivered' \in Options
    BY <2>1, <1>0 DEF DeliverDatabaseOpts, Options
  <2>2. ASSUME NEW done, Opened(h), DeliverDatabaseOpts(h, done), ReturnError(t),
               poisoned' \in {poisoned, TRUE},
               UNCHANGED <<privateData, nextHandle, live, buffered, asked, initOK>>
        PROVE  TypeOK'
    BY <2>1, <2>2, <1>0, OpenedStepType DEF ReturnError
  <2>3. ASSUME NEW done, Opened(h), DeliverDatabaseOpts(h, done), ReturnOK(t),
               initOK' = initOK \cup {h},
               UNCHANGED <<poisoned, privateData, nextHandle, live, buffered, asked>>
        PROVE  TypeOK'
    <3>1. /\ delivered' \in Options /\ buffered' \in Options
          /\ initOK' \in SUBSET Handles /\ lateOK' \in SUBSET Kinds
      BY <2>1, <2>3, <1>0, <1>h, <1>1, RecordType DEF ReturnOK, DatabaseInitReturns
    <3> QED
      BY <2>3, <3>1, OpenedStepType DEF ReturnOK
  <2> QED
    BY <1>1, <2>2, <2>3, ReturnErrorType DEF DatabaseInitReturns
<1>2. CASE DatabaseReleaseReturns(t)
  <2>1. /\ outstanding' \in [Handles -> Int] /\ call' \in [Threads -> Call]
        /\ lateOK' \in SUBSET Kinds /\ poisoned' \in BOOLEAN
    BY <1>2, ClosedType, ReturnType, RecordType
    DEF DatabaseReleaseReturns, ReturnOK, ReturnError, poison, TypeOK
  <2>2. initialized' \in [Handles -> BOOLEAN]
    BY <1>2 DEF DatabaseReleaseReturns, TypeOK
  <2>3. buffered' \in Options
    <3>1. [buffered EXCEPT ![h] = NoOpts] \in Options
      BY <1>0, SetAllType, NoOptsType
    <3> QED
      BY <1>0, <1>2, <3>1 DEF DatabaseReleaseReturns
  <2> QED
    BY <1>2, <2>1, <2>2, <2>3 DEF DatabaseReleaseReturns, TypeOK
<1>3. CASE ConnectionInitReturns(t)
  <2>1. ASSUME NEW done, Opened(h), ReturnError(t),
               delivered' = [delivered EXCEPT ![h] =
                 [k \in Keys |-> IF k \in done THEN buffered[h][k] ELSE Null]],
               poisoned' \in {poisoned, TRUE},
               UNCHANGED <<privateData, nextHandle, live, buffered, asked, initOK>>
        PROVE  TypeOK'
    <3>1. delivered' \in Options
      BY <2>1, <1>0 DEF Options
    <3> QED
      BY <2>1, <3>1, <1>0, OpenedStepType DEF ReturnError
  <2>2. ASSUME Opened(h), ReturnOK(t),
               delivered' = [delivered EXCEPT ![h] = buffered[h]],
               buffered' = [buffered EXCEPT ![h] = NoOpts],
               initOK' = initOK \cup {h},
               UNCHANGED <<poisoned, privateData, nextHandle, live, asked>>
        PROVE  TypeOK'
    <3>1. delivered' \in Options /\ buffered' \in Options
      BY <2>2, <1>0, NoOptsType DEF Options
    <3>2. initOK' \in SUBSET Handles /\ lateOK' \in SUBSET Kinds
      BY <2>2, <1>0, <1>h, <1>3, RecordType DEF ReturnOK, ConnectionInitReturns
    <3> QED
      BY <2>2, <3>1, <3>2, OpenedStepType DEF ReturnOK
  <2> QED
    BY <1>3, <2>1, <2>2, ReturnErrorType DEF ConnectionInitReturns
<1>4. CASE ConnectionReleaseReturns(t) \/ StatementReleaseReturns(t)
  <2>1. /\ outstanding' \in [Handles -> Int] /\ call' \in [Threads -> Call]
        /\ lateOK' \in SUBSET Kinds /\ poisoned' \in BOOLEAN
    BY <1>4, ClosedType, ReturnType, RecordType, PoisonType
    DEF ConnectionReleaseReturns, StatementReleaseReturns, ReturnOK, ReturnError, TypeOK
  <2>2. initialized' \in [Handles -> BOOLEAN]
    BY <1>4 DEF ConnectionReleaseReturns, StatementReleaseReturns, TypeOK
  <2> QED
    BY <1>4, <2>1, <2>2 DEF ConnectionReleaseReturns, StatementReleaseReturns, TypeOK, optVars
<1>5. ASSUME NEW s, NewObject(s, TRUE), ReturnOK(t), UNCHANGED <<poisoned, optVars>>
      PROVE  TypeOK'
  BY <1>5, NewObjectType, ReturnType, RecordType DEF ReturnOK, TypeOK, optVars
<1>6. CASE StatementNewReturns(t)
  BY <1>5, <1>6, ReturnErrorType DEF StatementNewReturns
<1>7. CASE exportRecordReader(t)
  BY <1>5, <1>7 DEF exportRecordReader
<1>8. CASE StreamReadReturns(t)
  BY <1>8, ReturnType, RecordType DEF StreamReadReturns, ReturnOK, ReturnError, TypeOK, objVars, optVars
<1>9. CASE CallFails(t)
  BY <1>9, ReturnErrorType DEF CallFails
<1>10. CASE CallSucceeds(t)
  BY <1>10, ReturnType, RecordType DEF CallSucceeds, ReturnOK, TypeOK, objVars, optVars
<1>11. CASE SetOptionSucceeds(t)
  <2>1. delivered' \in Options /\ asked' \in Options
    <3>1. PICK k \in Keys, v \in Vals : /\ delivered' = [delivered EXCEPT ![h][k] = v]
                                        /\ asked' = [asked EXCEPT ![h][k] = v]
      BY <1>11 DEF SetOptionSucceeds
    <3> QED
      BY <1>0, <3>1, SetOneType
  <2> QED
    BY <1>11, <2>1, ReturnType, RecordType DEF SetOptionSucceeds, ReturnOK, TypeOK, objVars
<1> QED
  BY <1>1, <1>2, <1>3, <1>4, <1>6, <1>7, <1>8, <1>9, <1>10, <1>11 DEF Return

(* TypeOK is inductive by itself.                                          *)
LEMMA TypeInductive ==
  /\ Init => TypeOK
  /\ TypeOK /\ NoUseAfterRelease /\ [Next]_vars => TypeOK'
<1>1. ASSUME Init PROVE TypeOK
  <2>1. NoOpts \in [Keys -> Vals \cup {Null}] /\ IdleCall \in Call
    BY NoOptsType DEF IdleCall, Call
  <2>2. nextHandle \in 1 .. MaxHandles + 1 /\ outstanding \in [Handles -> Int]
    BY <1>1, ConstantsAssumption DEF Init
  <2>3. poisoned \in BOOLEAN /\ initialized \in [Handles -> BOOLEAN]
    BY <1>1 DEF Init
  <2>4. buffered \in Options /\ delivered \in Options /\ asked \in Options
    BY <1>1, <2>1 DEF Init, Options
  <2> QED
    BY <1>1, <2>1, <2>2, <2>3, <2>4 DEF Init, TypeOK
<1>2. ASSUME TypeOK, NoUseAfterRelease, [Next]_vars PROVE TypeOK'
  <2>1. ASSUME NEW t \in Threads, DriverInit(t) PROVE TypeOK'
    BY <1>2, <2>1, RecordStepType DEF DriverInit
  <2>2. CASE Next
    BY <1>2, <2>1, <2>2, DatabaseStepType, ConnectionStepType, StatementStepType,
       StreamStepType, ReturnStepType DEF Next
  <2> QED
    BY <1>2, <2>2, RefuseType
<1> QED
  BY <1>1, <1>2

-----------------------------------------------------------------------------
(***************************************************************************)
(* Every step has one of the shapes.                                       *)
(***************************************************************************)
(* A serialized call may also be made where a shared one may.              *)
LEMMA SerializedShareable ==
  ASSUME NEW s, Serialized(s)
  PROVE  Shareable(s)
  BY DEF Serialized, Shareable, Uses, SharedOps, LifecycleOps, ReleaseOps

(* The kinds of struct are disjoint.                                       *)
LEMMA SlotsDisjoint ==
  /\ Databases \cap Streams = {} /\ Connections \cap Streams = {}
  /\ Statements \cap Streams = {}
  BY ConstantsAssumption

(* The shapes of the entries of the database functions.                    *)
LEMMA DatabaseStepShape ==
  ASSUME TypeOK, NEW t \in Threads, DatabaseStep(t)
  PROVE  Shape
<1> PICK d \in Databases :
      \/ DatabaseNew(t, d)  \/ DatabaseSetOption(t, d) \/ DatabaseGetOption(t, d)
      \/ DatabaseInit(t, d) \/ DatabaseRelease(t, d)
  BY DEF DatabaseStep
<1>0. d \in Slots /\ d \notin Streams
  BY SlotsFacts, SlotsDisjoint
<1>a. Refuse => Shape
  BY DEF Refuse, Shape, vars
<1>1. CASE DatabaseNew(t, d)
  <2>1. Allocates(d) \/ Refuse
    BY <1>0, <1>1 DEF DatabaseNew, Allocates
  <2> QED
    BY <2>1, <1>0, <1>a DEF Shape
<1>2. CASE DatabaseSetOption(t, d)
  <2>1. WorkEnters(t, "DatabaseSetOption", d, Null) \/ UNCHANGED <<objVars, call>>
    BY <1>0, <1>2, SerializedShareable
    DEF DatabaseSetOption, WorkEnters, Entering, checkDBInit, checkDBAlloc, WorkOps, Refuse, vars
  <2> QED
    BY <2>1, <1>0, OpsFacts DEF Shape, WorkOps
<1>3. CASE DatabaseGetOption(t, d)
  <2>1. WorkEnters(t, "DatabaseGetOption", d, Null) \/ Refuse
    BY <1>0, <1>3
    DEF DatabaseGetOption, WorkEnters, Entering, checkDBInit, checkDBAlloc, SharedOps
  <2> QED
    BY <2>1, <1>0, <1>a, OpsFacts DEF Shape, SharedOps
<1>4. CASE DatabaseInit(t, d)
  <2>1. InitEnters(t, "DatabaseInit", d, Null) \/ Refuse
    BY <1>0, <1>4 DEF DatabaseInit, InitEnters, Entering, checkDBAlloc
  <2> QED
    BY <2>1, <1>0, <1>a, OpsFacts DEF Shape, LifecycleOps
<1>5. CASE DatabaseRelease(t, d)
  <2>1. ReleaseEnters(t, "DatabaseRelease", d) \/ Refuse
    BY <1>0, <1>5 DEF DatabaseRelease, ReleaseEnters, checkDBAlloc, ReleaseOps
  <2> QED
    BY <2>1, <1>0, <1>a, OpsFacts DEF Shape, ReleaseOps
<1> QED
  BY <1>1, <1>2, <1>3, <1>4, <1>5

(* The shapes of the entries of the connection functions.                  *)
LEMMA ConnectionStepShape ==
  ASSUME TypeOK, NEW t \in Threads, ConnectionStep(t)
  PROVE  Shape
<1> PICK c \in Connections :
      \/ ConnectionNew(t, c) \/ ConnectionSetOption(t, c) \/ ConnectionSetTypedOption(t, c)
      \/ ConnectionGetOption(t, c) \/ ConnectionRelease(t, c) \/ ConnectionCancel(t, c)
      \/ ConnectionOp(t, c)
      \/ \E d \in Databases : ConnectionInit(t, c, d)
      \/ \E out \in Streams : ConnectionMetadata(t, c, out)
  BY DEF ConnectionStep
<1>0. c \in Slots /\ c \notin Streams
  BY SlotsFacts, SlotsDisjoint
<1>a. Refuse => Shape
  BY DEF Refuse, Shape, vars
<1>1. CASE ConnectionNew(t, c)
  <2>1. Allocates(c) \/ Refuse
    BY <1>0, <1>1 DEF ConnectionNew, Allocates
  <2> QED
    BY <2>1, <1>0, <1>a DEF Shape
<1>2. CASE ConnectionSetOption(t, c)
  <2>1. WorkEnters(t, "ConnectionSetOption", c, Null) \/ UNCHANGED <<objVars, call>>
    BY <1>0, <1>2, SerializedShareable
    DEF ConnectionSetOption, WorkEnters, Entering, checkConnInit, checkConnAlloc, WorkOps, Refuse, vars
  <2> QED
    BY <2>1, <1>0, OpsFacts DEF Shape, WorkOps
<1>3. CASE ConnectionSetTypedOption(t, c)
  <2>1. WorkEnters(t, "ConnectionSetTypedOption", c, Null) \/ Refuse
    BY <1>0, <1>3, SerializedShareable
    DEF ConnectionSetTypedOption, WorkEnters, Entering, checkConnInit, checkConnAlloc, WorkOps
  <2> QED
    BY <2>1, <1>0, <1>a, OpsFacts DEF Shape, WorkOps
<1>4. CASE ConnectionGetOption(t, c)
  <2>1. WorkEnters(t, "ConnectionGetOption", c, Null) \/ Refuse
    BY <1>0, <1>4
    DEF ConnectionGetOption, WorkEnters, Entering, checkConnInit, checkConnAlloc, SharedOps
  <2> QED
    BY <2>1, <1>0, <1>a, OpsFacts DEF Shape, SharedOps
<1>5. CASE ConnectionRelease(t, c)
  <2>1. ReleaseEnters(t, "ConnectionRelease", c) \/ Refuse
    BY <1>0, <1>5 DEF ConnectionRelease, ReleaseEnters, checkConnAlloc, ReleaseOps
  <2> QED
    BY <2>1, <1>0, <1>a, OpsFacts DEF Shape, ReleaseOps
<1>6. CASE ConnectionCancel(t, c)
  BY <1>6, <1>a DEF ConnectionCancel, Shape
<1>7. CASE ConnectionOp(t, c)
  <2>1. WorkEnters(t, "ConnectionOp", c, Null) \/ Refuse
    BY <1>0, <1>7, SerializedShareable
    DEF ConnectionOp, WorkEnters, Entering, checkConnInit, checkConnAlloc, WorkOps
  <2> QED
    BY <2>1, <1>0, <1>a, OpsFacts DEF Shape, WorkOps
<1>8. ASSUME NEW d \in Databases, ConnectionInit(t, c, d) PROVE Shape
  <2>1. InitEnters(t, "ConnectionInit", c, d) \/ Refuse
    BY <1>0, <1>8
    DEF ConnectionInit, InitEnters, Entering, checkConnAlloc, checkDBInit, checkDBAlloc
  <2> QED
    BY <2>1, <1>0, <1>a, OpsFacts, SlotsFacts DEF Shape, LifecycleOps
<1>9. ASSUME NEW out \in Streams, ConnectionMetadata(t, c, out) PROVE Shape
  <2>1. WorkEnters(t, "ConnectionMetadata", c, out) \/ Refuse
    BY <1>0, <1>9, SerializedShareable
    DEF ConnectionMetadata, WorkEnters, Entering, checkConnInit, checkConnAlloc, WorkOps
  <2> QED
    BY <2>1, <1>0, <1>a, OpsFacts, SlotsFacts DEF Shape, WorkOps
<1> QED
  BY <1>1, <1>2, <1>3, <1>4, <1>5, <1>6, <1>7, <1>8, <1>9

(* The shapes of the entries of the statement functions.                   *)
LEMMA StatementStepShape ==
  ASSUME TypeOK, NEW t \in Threads, StatementStep(t)
  PROVE  Shape
<1> PICK st \in Statements :
      \/ StatementGetOption(t, st) \/ StatementCancel(t, st) \/ StatementOp(t, st)
      \/ StatementRelease(t, st)
      \/ \E c \in Connections : StatementNew(t, st, c)
      \/ \E out \in Streams \cup {Null} : StatementExecuteQuery(t, st, out)
  BY DEF StatementStep
<1>0. st \in Slots /\ st \notin Streams
  BY SlotsFacts, SlotsDisjoint
<1>a. Refuse => Shape
  BY DEF Refuse, Shape, vars
<1>1. CASE StatementGetOption(t, st) \/ StatementCancel(t, st)
  <2>1. \/ WorkEnters(t, "StatementGetOption", st, Null)
        \/ WorkEnters(t, "StatementCancel", st, Null) \/ Refuse
    BY <1>0, <1>1
    DEF StatementGetOption, StatementCancel, WorkEnters, Entering, checkStmtInit,
        checkStmtAlloc, SharedOps
  <2> QED
    BY <2>1, <1>0, <1>a, OpsFacts DEF Shape, SharedOps
<1>2. CASE StatementOp(t, st)
  <2>1. WorkEnters(t, "StatementOp", st, Null) \/ Refuse
    BY <1>0, <1>2, SerializedShareable
    DEF StatementOp, WorkEnters, Entering, checkStmtInit, checkStmtAlloc, WorkOps
  <2> QED
    BY <2>1, <1>0, <1>a, OpsFacts DEF Shape, WorkOps
<1>3. CASE StatementRelease(t, st)
  <2>1. ReleaseEnters(t, "StatementRelease", st) \/ Refuse
    BY <1>0, <1>3 DEF StatementRelease, ReleaseEnters, checkStmtAlloc, ReleaseOps
  <2> QED
    BY <2>1, <1>0, <1>a, OpsFacts DEF Shape, ReleaseOps
<1>4. ASSUME NEW c \in Connections, StatementNew(t, st, c) PROVE Shape
  <2>1. NewEnters(t, st, c) \/ Refuse
    BY <1>0, <1>4, SerializedShareable
    DEF StatementNew, NewEnters, Entering, checkConnInit, checkConnAlloc
  <2> QED
    BY <2>1, <1>0, <1>a, SlotsFacts DEF Shape
<1>5. ASSUME NEW out \in Streams \cup {Null}, StatementExecuteQuery(t, st, out) PROVE Shape
  <2>1. WorkEnters(t, "StatementExecuteQuery", st, out) \/ Refuse
    BY <1>0, <1>5, SerializedShareable
    DEF StatementExecuteQuery, WorkEnters, Entering, checkStmtInit, checkStmtAlloc, WorkOps
  <2> QED
    BY <2>1, <1>0, <1>a, OpsFacts, SlotsFacts DEF Shape, WorkOps
<1> QED
  BY <1>1, <1>2, <1>3, <1>4, <1>5

(* The shapes of the stream callbacks.                                     *)
LEMMA StreamStepShape ==
  ASSUME TypeOK, NEW t \in Threads, StreamStep(t)
  PROVE  Shape
<1> PICK s \in Streams : StreamRead(t, s) \/ StreamGetLastError(t, s) \/ StreamRelease(t, s)
  BY DEF StreamStep
<1>0. s \in Slots
  BY SlotsFacts
<1>a. Refuse => Shape
  BY DEF Refuse, Shape, vars
<1>1. CASE StreamRead(t, s)
  <2>1. StreamEnters(t, s) \/ Refuse
    BY <1>0, <1>1 DEF StreamRead, StreamEnters, Entering
  <2> QED
    BY <2>1, <1>0, <1>a DEF Shape
<1>2. CASE StreamGetLastError(t, s)
  BY <1>2, <1>a DEF StreamGetLastError, Shape
<1>3. CASE StreamRelease(t, s)
  <2>1. StreamReleases(s) \/ Refuse
    BY <1>0, <1>3 DEF StreamRelease, StreamReleases
  <2> QED
    BY <2>1, <1>0, <1>a DEF Shape
<1> QED
  BY <1>1, <1>2, <1>3

(* The shapes of the returns.                                              *)
LEMMA ReturnStepShape ==
  ASSUME TypeOK, ObjInv, NEW t \in Threads, Return(t)
  PROVE  Shape
<1>1. CASE DatabaseReleaseReturns(t) \/ ConnectionReleaseReturns(t) \/ StatementReleaseReturns(t)
  <2>1. ReleaseReturns(t)
    BY <1>1 DEF DatabaseReleaseReturns, ConnectionReleaseReturns, StatementReleaseReturns,
                ReleaseReturns, ReleaseOps, ReturnOK, ReturnError, poison
  <2> QED
    BY <2>1 DEF Shape
<1>2. CASE DatabaseInitReturns(t) \/ ConnectionInitReturns(t)
  <2>1. InitReturns(t) \/ Returns(t)
    BY <1>2 DEF DatabaseInitReturns, ConnectionInitReturns, InitReturns, Returns,
                ReleaseOps, ReturnOK, ReturnError
  <2> QED
    BY <2>1 DEF Shape
<1>3. CASE StatementNewReturns(t)
  <2>1. AllocatesAndReturns(t, call[t].slot) \/ Returns(t)
    BY <1>3 DEF StatementNewReturns, AllocatesAndReturns, Returns, ReleaseOps, ReturnOK, ReturnError
  <2>2. call[t].slot \in Slots
    BY <1>3 DEF StatementNewReturns, ObjInv, CallShape
  <2> QED
    BY <2>1, <2>2 DEF Shape
<1>4. CASE exportRecordReader(t)
  <2>1. call[t].peer \in Slots /\ call[t].peer # Null
    BY <1>4, CallType DEF exportRecordReader, ObjInv, CallShape
  <2>2. AllocatesAndReturns(t, call[t].peer)
    BY <1>4, <2>1 DEF exportRecordReader, AllocatesAndReturns, ReturnOK
  <2> QED
    BY <2>1, <2>2 DEF Shape
<1>5. CASE StreamReadReturns(t) \/ CallFails(t) \/ CallSucceeds(t) \/ SetOptionSucceeds(t)
  <2>1. Returns(t)
    BY <1>5 DEF StreamReadReturns, CallFails, CallSucceeds, SetOptionSucceeds, Returns,
                ReleaseOps, WorkOps, SharedOps, ReturnOK, ReturnError
  <2> QED
    BY <2>1 DEF Shape
<1> QED
  BY <1>1, <1>2, <1>3, <1>4, <1>5 DEF Return

(* Every step has a shape or leaves handles and calls alone.               *)
LEMMA NextShape ==
  ASSUME TypeOK, ObjInv, [Next]_vars
  PROVE  Shape
<1>1. ASSUME NEW t \in Threads, DriverInit(t) PROVE Shape
  BY <1>1 DEF DriverInit, Shape
<1>2. CASE Next
  BY <1>1, <1>2, DatabaseStepShape, ConnectionStepShape, StatementStepShape,
     StreamStepShape, ReturnStepShape DEF Next
<1>3. CASE UNCHANGED vars
  BY <1>3 DEF vars, Shape
<1> QED
  BY <1>2, <1>3

(* The invariant holds before the first call.                              *)
LEMMA InitObjInv == Init => ObjInv
<1> SUFFICES ASSUME Init PROVE ObjInv
  OBVIOUS
<1>1. \A t \in Threads : /\ call[t] = IdleCall /\ call[t].op = "idle" /\ call[t].slot = Null
                         /\ call[t].obj = Null /\ call[t].peer = Null /\ call[t].late = FALSE
  BY DEF Init, IdleCall
<1>2. CallShape
  BY <1>1 DEF CallShape, LifecycleOps, ReleaseOps, WorkOps, SharedOps
<1>3. Exclusion
  BY <1>1, SlotsFacts, ConstantsAssumption DEF Exclusion, LifecycleOps, ReleaseOps, Slots
<1>4. Fresh /\ StreamsOpen /\ HandlesOwned
  BY <1>1, SlotsFacts DEF Init, Fresh, StreamsOpen, HandlesOwned
<1>5. NoUseAfterRelease
  BY <1>1 DEF NoUseAfterRelease, WorkOps, SharedOps, ReleaseOps
<1>6. OpenedObjectsClosed
  BY DEF Init, OpenedObjectsClosed
<1> QED
  BY <1>2, <1>3, <1>4, <1>5, <1>6 DEF ObjInv

(* The invariant and its type are preserved together.                      *)
LEMMA ObjInvInductive ==
  ASSUME TypeOK, ObjInv, [Next]_vars
  PROVE  TypeOK' /\ ObjInv'
<1>1. TypeOK'
  BY TypeInductive DEF ObjInv
<1>2. Shape
  BY NextShape
<1>3. ASSUME UNCHANGED <<objVars, call>> PROVE ObjInv'
  <2>1. UNCHANGED <<privateData, nextHandle, live, initialized, outstanding, call>>
    BY <1>3 DEF objVars
  <2>2. CallShape' /\ Exclusion' /\ Fresh' /\ StreamsOpen'
    BY <2>1 DEF ObjInv, CallShape, Exclusion, Uses, Fresh, StreamsOpen
  <2>3. HandlesOwned' /\ NoUseAfterRelease' /\ OpenedObjectsClosed'
    BY <2>1 DEF ObjInv, HandlesOwned, NoUseAfterRelease, OpenedObjectsClosed, Releasing
  <2> QED
    BY <2>2, <2>3 DEF ObjInv
<1> QED
  BY <1>1, <1>2, <1>3, WorkEntersInv, InitEntersInv, NewEntersInv, StreamEntersInv,
     AllocatesInv, AllocatesAndReturnsInv, ReleaseEntersInv, ReleaseReturnsInv,
     InitReturnsInv, ReturnsInv, StreamReleasesInv DEF Shape

(* The inductive invariant holds in every reachable state.                 *)
THEOREM Invariance == Spec => [](TypeOK /\ ObjInv)
  BY TypeInductive, InitObjInv, ObjInvInductive, PTL DEF Spec

(* Every variable keeps its type, for every number of threads, structs,    *)
(* options and handles.                                                    *)
THEOREM TypeCorrect == Spec => []TypeOK
  BY Invariance, PTL

(* private_data fields and the cgo handle table always agree: no dangling, *)
(* shared or lost handle.                                                  *)
THEOREM HandlesAlwaysOwned == Spec => []HandlesOwned
<1>1. ObjInv => HandlesOwned
  BY DEF ObjInv
<1> QED
  BY <1>1, Invariance, PTL

(* Every Go object the driver opens is closed once, by the Release of the  *)
(* struct that owns it.                                                    *)
THEOREM ObjectsClosedOnce == Spec => []OpenedObjectsClosed
<1>1. ObjInv => OpenedObjectsClosed
  BY DEF ObjInv
<1> QED
  BY <1>1, Invariance, PTL

(* No call in flight works on an object another thread freed or closed.    *)
THEOREM NeverUseAfterRelease == Spec => []NoUseAfterRelease
<1>1. ObjInv => NoUseAfterRelease
  BY DEF ObjInv
<1> QED
  BY <1>1, Invariance, PTL

-----------------------------------------------------------------------------
(***************************************************************************)
(* Poisoning.                                                              *)
(***************************************************************************)

(* A call that is not on an object, or entered before any panic, leaves    *)
(* PoisonStopsObjects alone when it returns OK.                            *)
LEMMA RecordKeepsPoison ==
  ASSUME PoisonStopsObjects, NEW op, NEW late, RecordOK(op, late),
         late = FALSE \/ op \in StreamOps \/ op = "DriverInit"
  PROVE  PoisonStopsObjects'
  BY DEF PoisonStopsObjects, RecordOK, Kind, StreamOps

(* The same for the return of a call in flight.                            *)
LEMMA ReturnKeepsPoison ==
  ASSUME TypeOK, ObjInv, PoisonStopsObjects, NEW t \in Threads, ReturnOK(t)
  PROVE  PoisonStopsObjects'
<1>1. call[t].late = FALSE \/ call[t].op \in StreamOps
  BY CallType DEF ObjInv, CallShape, StreamOps
<1> QED
  BY <1>1, RecordKeepsPoison DEF ReturnOK

(* PoisonStopsObjects is preserved, given the shape of calls.              *)
LEMMA PoisonInductive ==
  ASSUME TypeOK, ObjInv, PoisonStopsObjects, [Next]_vars
  PROVE  PoisonStopsObjects'
<1>0. UNCHANGED lateOK => PoisonStopsObjects'
  BY DEF PoisonStopsObjects
<1>a. poisoned \in BOOLEAN
  BY DEF TypeOK
<1>1. ASSUME NEW t \in Threads, DatabaseStep(t) PROVE PoisonStopsObjects'
  BY <1>0, <1>a, <1>1, RecordKeepsPoison
  DEF DatabaseStep, DatabaseNew, DatabaseSetOption, DatabaseGetOption, DatabaseInit,
      DatabaseRelease, checkDBAlloc, Refuse, vars
<1>2. ASSUME NEW t \in Threads, ConnectionStep(t) PROVE PoisonStopsObjects'
  BY <1>0, <1>a, <1>2, RecordKeepsPoison
  DEF ConnectionStep, ConnectionNew, ConnectionSetOption, ConnectionSetTypedOption,
      ConnectionGetOption, ConnectionRelease, ConnectionCancel, ConnectionOp, ConnectionInit,
      ConnectionMetadata, checkConnInit, checkConnAlloc, Refuse, vars
<1>3. ASSUME NEW t \in Threads, StatementStep(t) PROVE PoisonStopsObjects'
  BY <1>0, <1>3
  DEF StatementStep, StatementGetOption, StatementCancel, StatementOp, StatementRelease,
      StatementNew, StatementExecuteQuery, Refuse, vars
<1>4. ASSUME NEW t \in Threads, StreamStep(t) \/ DriverInit(t) PROVE PoisonStopsObjects'
  BY <1>0, <1>4, RecordKeepsPoison
  DEF StreamStep, StreamRead, StreamGetLastError, StreamRelease, DriverInit, StreamOps, Refuse, vars
<1>5. ASSUME NEW t \in Threads, Return(t) PROVE PoisonStopsObjects'
  BY <1>0, <1>5, ReturnKeepsPoison
  DEF Return, DatabaseInitReturns, DatabaseReleaseReturns, ConnectionInitReturns,
      ConnectionReleaseReturns, StatementNewReturns, StatementReleaseReturns,
      StreamReadReturns, exportRecordReader, CallFails, CallSucceeds, SetOptionSucceeds,
      ReturnError, poison
<1> QED
  BY <1>0, <1>1, <1>2, <1>3, <1>4, <1>5 DEF Next, vars

(* No call on a database, connection or statement that starts after a      *)
(* panic ever returns OK.                                                  *)
THEOREM PoisonAlwaysStops == Spec => []PoisonStopsObjects
<1>1. Init => PoisonStopsObjects
  BY DEF Init, PoisonStopsObjects
<1> QED
  BY <1>1, PoisonInductive, Invariance, PTL DEF Spec

(* After a panic the private_data of databases, connections and statements *)
(* is frozen, but for a StatementNew already under way.                    *)
THEOREM PoisonAlwaysFreezes == Spec => PoisonFreezes
<1>1. ASSUME TypeOK, ObjInv, [Next]_vars, poisoned,
             NEW s \in Slots \ Streams, privateData'[s] # privateData[s]
      PROVE  \E t \in Threads : call[t].op = "StatementNew" /\ call[t].slot = s /\ ~call[t].late
  <2>1. Shape
    BY <1>1, NextShape
  <2>2. PICK t \in Threads, r \in Slots : AllocatesAndReturns(t, r)
    BY <1>1, <2>1
    DEF Shape, WorkEnters, InitEnters, NewEnters, StreamEnters, Entering, ReleaseEnters,
        ReleaseReturns, InitReturns, Returns, Allocates, StreamReleases, DropHandle, objVars, TypeOK
  <2>3. r = s
    BY <1>1, <2>2 DEF AllocatesAndReturns, NewObject, TypeOK
  <2>4. call[t].op = "StatementNew" /\ call[t].slot = s /\ ~call[t].late
    BY <1>1, <2>2, <2>3 DEF AllocatesAndReturns, ObjInv, CallShape
  <2> QED
    BY <2>4
<1>2. TypeOK /\ ObjInv /\ [Next]_vars =>
        [poisoned => \A s \in Slots \ Streams : privateData'[s] # privateData[s] =>
           \E t \in Threads : call[t].op = "StatementNew" /\ call[t].slot = s /\ ~call[t].late]_vars
  BY <1>1
<1> QED
  BY <1>2, Invariance, PTL DEF Spec, PoisonFreezes

-----------------------------------------------------------------------------
(***************************************************************************)
(* Options.  Until Init opens the object, everything that was asked for is *)
(* still in the buffer, and Init has not returned OK.                      *)
(***************************************************************************)
Pending(h) == asked[h] = buffered[h] /\ h \notin initOK

OptInv ==
  /\ \A h \in Handles : h >= nextHandle => Pending(h)
  /\ \A h \in live : ~initialized[h] => Pending(h)
  /\ OptionsDelivered

(* A step that leaves the options alone and initializes nothing anew.      *)
LEMMA OptUnchanged ==
  ASSUME TypeOK, OptInv, UNCHANGED optVars, nextHandle' >= nextHandle, nextHandle' \in Int,
         \A h \in live' : ~initialized'[h] =>
           (h \in live /\ ~initialized[h]) \/ (h \in Handles /\ h >= nextHandle)
  PROVE  OptInv'
<1>1. \A h \in Handles : h >= nextHandle' => h >= nextHandle
  BY DEF TypeOK, Handles
<1>2. \A h \in Handles : Pending(h) => Pending(h)'
  BY DEF Pending, optVars
<1>3. \A h \in live' : ~initialized'[h] => Pending(h)'
  BY <1>2 DEF OptInv, TypeOK
<1>4. OptionsDelivered'
  BY DEF OptInv, OptionsDelivered, optVars
<1> QED
  BY <1>1, <1>2, <1>3, <1>4 DEF OptInv

(* The steps that only move handles.                                       *)
LEMMA ShapeKeepsOptions ==
  ASSUME TypeOK, TypeOK', ObjInv, ObjInv', OptInv, Shape, UNCHANGED optVars
  PROVE  OptInv'
<1>0. nextHandle \in Int /\ nextHandle' \in Int /\ live \subseteq Handles
  BY DEF TypeOK
<1>1. ASSUME nextHandle' = nextHandle, live' \subseteq live,
             \A h \in live' : initialized[h] => initialized'[h]
      PROVE  OptInv'
  BY <1>0, <1>1, OptUnchanged
<1>2. ASSUME NEW t \in Threads, ReleaseReturns(t) PROVE OptInv'
  <2>1. call[t].obj \notin live
    BY <1>2 DEF ObjInv, NoUseAfterRelease, ReleaseReturns
  <2>2. \A h \in live : initialized'[h] = initialized[h]
    BY <1>2, <2>1 DEF ReleaseReturns, TypeOK
  <2> QED
    BY <1>1, <1>2, <2>2 DEF ReleaseReturns
<1>3. ASSUME NEW t \in Threads, InitReturns(t) PROVE OptInv'
  <2>1. \A h \in Handles : initialized[h] => initialized'[h]
    BY <1>3 DEF InitReturns, Opened, TypeOK
  <2> QED
    BY <1>0, <1>1, <1>3, <2>1 DEF InitReturns
<1>4. ASSUME NEW s, NEW open, NewObject(s, open) PROVE OptInv'
  <2>1. nextHandle' >= nextHandle /\ live' = live \cup {nextHandle}
    BY <1>0, <1>4 DEF NewObject
  <2>2. nextHandle \in Handles /\ nextHandle >= nextHandle
    BY <1>4, ConstantsAssumption DEF NewObject, TypeOK, Handles
  <2>3. \A h \in live : initialized'[h] = initialized[h]
    <3>1. nextHandle \notin live
      BY <2>2 DEF ObjInv, Fresh
    <3> QED
      BY <1>4, <3>1 DEF NewObject, TypeOK
  <2> QED
    BY <1>0, <2>1, <2>2, <2>3, OptUnchanged
<1>5. ASSUME UNCHANGED <<nextHandle, initialized>>, live' \subseteq live PROVE OptInv'
  BY <1>1, <1>5
<1>6. ASSUME NEW t \in Threads, NEW op, NEW s, NEW p, Entering(t, op, s, p) PROVE OptInv'
  BY <1>5, <1>6 DEF Entering, objVars
<1>7. ASSUME NEW t \in Threads, Returns(t) PROVE OptInv'
  BY <1>5, <1>7 DEF Returns, objVars
<1>8. ASSUME NEW t \in Threads, NEW op, NEW s, ReleaseEnters(t, op, s) PROVE OptInv'
  BY <1>5, <1>8 DEF ReleaseEnters, DropHandle
<1>9. ASSUME NEW s, StreamReleases(s) PROVE OptInv'
  BY <1>5, <1>9 DEF StreamReleases, DropHandle
<1>10. ASSUME UNCHANGED objVars PROVE OptInv'
  BY <1>5, <1>10 DEF objVars
<1> QED
  BY <1>2, <1>3, <1>4, <1>6, <1>7, <1>8, <1>9, <1>10
  DEF Shape, WorkEnters, InitEnters, NewEnters, StreamEnters, Allocates, AllocatesAndReturns

(* SetOption before Init.                                                  *)
LEMMA BufferKeepsOptions ==
  ASSUME TypeOK, OptInv, NEW g \in live, ~initialized[g], NEW k \in Keys, NEW v,
         buffered' = [buffered EXCEPT ![g][k] = v], asked' = [asked EXCEPT ![g][k] = v],
         UNCHANGED <<objVars, delivered, initOK>>
  PROVE  OptInv'
<1>1. Pending(g) /\ g \in Handles
  BY DEF OptInv, TypeOK
<1>2. UNCHANGED <<nextHandle, live, initialized, delivered, initOK>>
  BY DEF objVars
<1>3. \A h \in Handles \ {g} : asked'[h] = asked[h] /\ buffered'[h] = buffered[h]
  BY DEF TypeOK, Options
<1>4. asked'[g] = buffered'[g]
  BY <1>1 DEF TypeOK, Options, Pending
<1>5. \A h \in Handles : Pending(h) => Pending(h)'
  BY <1>1, <1>2, <1>3, <1>4 DEF Pending
<1>6. OptionsDelivered'
  BY <1>1, <1>2, <1>3 DEF OptInv, OptionsDelivered, Pending, TypeOK
<1> QED
  BY <1>2, <1>5, <1>6 DEF OptInv, TypeOK

(* SetOption after Init.                                                   *)
LEMMA DeliverKeepsOptions ==
  ASSUME TypeOK, ObjInv, OptInv, NEW g \in live, initialized[g], NEW k \in Keys, NEW v,
         delivered' = [delivered EXCEPT ![g][k] = v], asked' = [asked EXCEPT ![g][k] = v],
         UNCHANGED <<objVars, buffered, initOK>>
  PROVE  OptInv'
<1>1. g \in Handles /\ ~(g >= nextHandle)
  BY DEF ObjInv, Fresh, TypeOK
<1>2. UNCHANGED <<nextHandle, live, initialized, buffered, initOK>>
  BY DEF objVars
<1>3. \A h \in Handles \ {g} : asked'[h] = asked[h] /\ delivered'[h] = delivered[h]
  BY DEF TypeOK, Options
<1>4. g \in initOK => \A j \in Keys : delivered'[g][j] = asked'[g][j]
  BY <1>1 DEF TypeOK, Options, OptInv, OptionsDelivered
<1>5. \A h \in Handles \ {g} : Pending(h) => Pending(h)'
  BY <1>2, <1>3 DEF Pending
<1>6. OptionsDelivered'
  BY <1>1, <1>2, <1>3, <1>4 DEF OptInv, OptionsDelivered, TypeOK
<1> QED
  BY <1>1, <1>2, <1>5, <1>6 DEF OptInv, TypeOK

(* The return of an Init that opened the object, with or without an error. *)
LEMMA InitKeepsOptions ==
  ASSUME TypeOK, ObjInv, OptInv, NEW t \in Threads, NEW g, g = call[t].obj,
         call[t].op \in {"DatabaseInit", "ConnectionInit"}, Opened(g),
         UNCHANGED <<privateData, nextHandle, live, asked>>,
         \A h \in Handles \ {g} : buffered'[h] = buffered[h] /\ delivered'[h] = delivered[h],
         \/ initOK' = initOK
         \/ /\ initOK' = initOK \cup {g}
            /\ \A k \in Keys : delivered'[g][k] = buffered[g][k]
  PROVE  OptInv'
<1>1. g \in Handles /\ g \in live /\ ~initialized[g] /\ ~(g >= nextHandle)
  BY CallType DEF ObjInv, NoUseAfterRelease, HandlesOwned, CallShape, Fresh
<1>2. Pending(g)
  BY <1>1 DEF OptInv
<1>3. initialized'[g] = TRUE /\ \A h \in Handles \ {g} : initialized'[h] = initialized[h]
  BY <1>1 DEF Opened, TypeOK
<1>4. \A h \in Handles \ {g} : Pending(h) => Pending(h)'
  BY DEF Pending
<1>5. OptionsDelivered'
  <2> SUFFICES ASSUME NEW h \in initOK', NEW k \in Keys PROVE delivered'[h][k] = asked'[h][k]
    BY DEF OptionsDelivered
  <2>1. CASE h = g
    BY <2>1, <1>2 DEF Pending
  <2>2. CASE h # g
    <3>1. h \in initOK /\ h \in Handles
      BY <2>2 DEF TypeOK
    <3> QED
      BY <2>2, <3>1 DEF OptInv, OptionsDelivered
  <2> QED
    BY <2>1, <2>2
<1> QED
  BY <1>1, <1>3, <1>4, <1>5 DEF OptInv, TypeOK

(* The invariant on options is preserved by every step.                    *)
LEMMA OptInductive ==
  ASSUME TypeOK, TypeOK', ObjInv, ObjInv', OptInv, [Next]_vars
  PROVE  OptInv'
<1>0. UNCHANGED optVars => OptInv'
  BY NextShape, ShapeKeepsOptions
<1>1. ASSUME NEW t \in Threads, DatabaseStep(t) PROVE OptInv'
  <2>1. CASE UNCHANGED optVars
    BY <2>1, <1>0
  <2>2. CASE ~UNCHANGED optVars
    <3>1. PICK d \in Databases : DatabaseSetOption(t, d)
      BY <1>1, <2>2 DEF DatabaseStep, DatabaseNew, DatabaseGetOption, DatabaseInit,
                        DatabaseRelease, Refuse, vars
    <3>2. PICK k \in Keys, v \in Vals :
            /\ privateData[d] # Null /\ ~initialized[privateData[d]]
            /\ buffered' = [buffered EXCEPT ![privateData[d]][k] = v]
            /\ asked' = [asked EXCEPT ![privateData[d]][k] = v]
            /\ UNCHANGED <<objVars, delivered, initOK>>
      BY <2>2, <3>1 DEF DatabaseSetOption, checkDBAlloc, Refuse, vars
    <3>3. privateData[d] \in live
      BY <3>2, SlotsFacts DEF ObjInv, HandlesOwned
    <3> QED
      BY <3>2, <3>3, BufferKeepsOptions
  <2> QED
    BY <2>1, <2>2
<1>2. ASSUME NEW t \in Threads, ConnectionStep(t) PROVE OptInv'
  <2>1. CASE UNCHANGED optVars
    BY <2>1, <1>0
  <2>2. CASE ~UNCHANGED optVars
    <3>1. PICK c \in Connections : ConnectionSetOption(t, c)
      BY <1>2, <2>2
      DEF ConnectionStep, ConnectionNew, ConnectionSetTypedOption, ConnectionGetOption,
          ConnectionRelease, ConnectionCancel, ConnectionOp, ConnectionInit,
          ConnectionMetadata, Refuse, vars
    <3>2. PICK k \in Keys, v \in StringVals :
            /\ privateData[c] # Null /\ ~initialized[privateData[c]]
            /\ buffered' = [buffered EXCEPT ![privateData[c]][k] = v]
            /\ asked' = [asked EXCEPT ![privateData[c]][k] = v]
            /\ UNCHANGED <<objVars, delivered, initOK>>
      BY <2>2, <3>1 DEF ConnectionSetOption, checkConnAlloc, Refuse, vars
    <3>3. privateData[c] \in live
      BY <3>2, SlotsFacts DEF ObjInv, HandlesOwned
    <3> QED
      BY <3>2, <3>3, BufferKeepsOptions
  <2> QED
    BY <2>1, <2>2
<1>3. ASSUME NEW t \in Threads, StatementStep(t) \/ StreamStep(t) \/ DriverInit(t) PROVE OptInv'
  BY <1>0, <1>3
  DEF StatementStep, StatementGetOption, StatementCancel, StatementOp, StatementRelease,
      StatementNew, StatementExecuteQuery, StreamStep, StreamRead, StreamGetLastError,
      StreamRelease, DriverInit, Refuse, vars
<1>4. ASSUME NEW t \in Threads, Return(t) PROVE OptInv'
  <2> DEFINE h == call[t].obj
  <2>0. /\ buffered \in Options /\ delivered \in Options /\ asked \in Options
        /\ call[t].op \in {"DatabaseInit", "ConnectionInit"} => h \in Handles
    BY CallType DEF TypeOK, ObjInv, NoUseAfterRelease
  <2>1. CASE DatabaseInitReturns(t)
    <3>1. CASE UNCHANGED optVars
      BY <3>1, <1>0
    <3>2. ASSUME NEW done, Opened(h), DeliverDatabaseOpts(h, done),
                 UNCHANGED <<privateData, nextHandle, live, buffered, asked>>,
                 initOK' = initOK \/ (initOK' = initOK \cup {h} /\ done = TypedKeys(h))
          PROVE  OptInv'
      <4>1. h \in Handles /\ call[t].op \in {"DatabaseInit", "ConnectionInit"}
        BY <2>0, <2>1 DEF DatabaseInitReturns
      <4>2. \A g \in Handles \ {h} : buffered'[g] = buffered[g] /\ delivered'[g] = delivered[g]
        BY <3>2, <2>0, <4>1 DEF DeliverDatabaseOpts, Options
      <4>3. done = TypedKeys(h) => \A k \in Keys : delivered'[h][k] = buffered[h][k]
        BY <3>2, <2>0, <4>1 DEF DeliverDatabaseOpts, Options, TypedKeys, Vals
      <4> HIDE DEF h
      <4> QED
        BY <3>2, <4>1, <4>2, <4>3, InitKeepsOptions DEF h
    <3> QED
      BY <2>1, <3>1, <3>2 DEF DatabaseInitReturns
  <2>2. CASE ConnectionInitReturns(t)
    <3>1. CASE UNCHANGED optVars
      BY <3>1, <1>0
    <3>2. ASSUME NEW o, Opened(h), delivered' = [delivered EXCEPT ![h] = o],
                 UNCHANGED <<privateData, nextHandle, live, asked>>,
                 \/ UNCHANGED <<buffered, initOK>>
                 \/ /\ o = buffered[h] /\ initOK' = initOK \cup {h}
                    /\ buffered' = [buffered EXCEPT ![h] = NoOpts]
          PROVE  OptInv'
      <4>1. h \in Handles /\ call[t].op \in {"DatabaseInit", "ConnectionInit"}
        BY <2>0, <2>2 DEF ConnectionInitReturns
      <4>2. \A g \in Handles \ {h} : buffered'[g] = buffered[g] /\ delivered'[g] = delivered[g]
        BY <3>2, <2>0, <4>1 DEF Options
      <4>3. delivered'[h] = o
        BY <3>2, <2>0, <4>1 DEF Options
      <4> QED
        BY <3>2, <4>1, <4>2, <4>3, InitKeepsOptions
    <3> QED
      BY <2>2, <3>1, <3>2 DEF ConnectionInitReturns
  <2>3. CASE DatabaseReleaseReturns(t)
    <3>1. h \in Handles /\ h \notin live /\ ~(h >= nextHandle)
      BY <2>3, CallType DEF DatabaseReleaseReturns, ObjInv, NoUseAfterRelease, Fresh, ReleaseOps, TypeOK, Handles
    <3>2. /\ UNCHANGED <<nextHandle, live, delivered, asked, initOK>>
          /\ \A g \in Handles \ {h} : initialized'[g] = initialized[g] /\ buffered'[g] = buffered[g]
      BY <2>3, <2>0, <3>1 DEF DatabaseReleaseReturns, TypeOK, Options
    <3>3. \A g \in Handles \ {h} : Pending(g) => Pending(g)'
      BY <3>2 DEF Pending
    <3>4. OptionsDelivered'
      BY <3>2 DEF OptionsDelivered, OptInv
    <3> QED
      BY <3>1, <3>2, <3>3, <3>4 DEF OptInv, TypeOK
  <2>4. CASE SetOptionSucceeds(t)
    <3>1. PICK k \in Keys, v \in Vals :
            /\ delivered' = [delivered EXCEPT ![h][k] = v]
            /\ asked' = [asked EXCEPT ![h][k] = v]
      BY <2>4 DEF SetOptionSucceeds
    <3>2. h \in live /\ initialized[h]
      BY <2>4 DEF SetOptionSucceeds, WorkOps, ObjInv, NoUseAfterRelease, HandlesOwned, CallShape
    <3>3. UNCHANGED <<objVars, buffered, initOK>>
      BY <2>4 DEF SetOptionSucceeds
    <3> QED
      BY <3>1, <3>2, <3>3, DeliverKeepsOptions
  <2> QED
    BY <1>0, <1>4, <2>1, <2>2, <2>3, <2>4
    DEF Return, ConnectionReleaseReturns, StatementNewReturns, StatementReleaseReturns,
        StreamReadReturns, exportRecordReader, CallFails, CallSucceeds
<1>5. CASE UNCHANGED vars
  BY <1>0, <1>5 DEF vars
<1> QED
  BY <1>1, <1>2, <1>3, <1>4, <1>5 DEF Next

(* Once Init has returned OK, the Go object has every option the           *)
(* application set with success, with the value it set last.               *)
THEOREM OptionsAlwaysDelivered == Spec => []OptionsDelivered
<1>1. Init => OptInv
  BY DEF Init, OptInv, OptionsDelivered, Pending
<1>2. OptInv => OptionsDelivered
  BY DEF OptInv
<1>3. TypeOK /\ ObjInv /\ OptInv /\ [Next]_vars => OptInv'
  BY ObjInvInductive, OptInductive
<1> QED
  BY <1>1, <1>2, <1>3, Invariance, PTL DEF Spec

-----------------------------------------------------------------------------
(***************************************************************************)
(* The life cycle of the Go objects: every shape of a step is a step of    *)
(* ObjectLifecycle, or changes nothing it can see.                         *)
(***************************************************************************)
(* The Go object behind h is held: by its struct, or by the Release that   *)
(* took it from there.                                                     *)
Held(h) == h \in live \/ Releasing(h)

(* Three tests tell the states of the objects.                             *)
StatesTold ==
  \A h \in Handles :
    /\ h >= nextHandle => ObjectStates[h] = "unused"
    /\ h < nextHandle /\ Held(h) =>
         ObjectStates[h] = IF initialized[h] THEN "open" ELSE "allocated"
    /\ h < nextHandle /\ ~Held(h) => ObjectStates[h] = "closed"

LEMMA StatesAreTold == TypeOK /\ ObjInv => StatesTold
<1> SUFFICES ASSUME TypeOK, ObjInv, NEW h \in Handles PROVE StatesTold!(h)
  BY DEF StatesTold
<1>0. ObjectStates[h] = ObjectState(h)
  BY DEF ObjectStates
<1>1. outstanding[h] = IF initialized[h] /\ Held(h) THEN 1 ELSE 0
  BY DEF ObjInv, OpenedObjectsClosed, Held
<1>2. h >= nextHandle => ~initialized[h]
  BY DEF ObjInv, Fresh
<1>3. h \in Int /\ nextHandle \in Int
  BY ConstantsAssumption DEF Handles, TypeOK
<1>4. CASE h >= nextHandle
  BY <1>0, <1>1, <1>2, <1>3, <1>4 DEF ObjectState
<1>5. CASE h < nextHandle /\ Held(h) /\ initialized[h]
  BY <1>0, <1>1, <1>3, <1>5 DEF ObjectState
<1>6. CASE h < nextHandle /\ Held(h) /\ ~initialized[h]
  BY <1>0, <1>1, <1>3, <1>6 DEF ObjectState, Held
<1>7. CASE h < nextHandle /\ ~Held(h)
  BY <1>0, <1>1, <1>3, <1>7 DEF ObjectState, Held
<1> QED
  BY <1>3, <1>4, <1>5, <1>6, <1>7

(* The same after a step.                                                  *)
LEMMA StatesAreToldNext == TypeOK' /\ ObjInv' => StatesTold'
  BY StatesAreTold, PTL

(* A held object was allocated.                                            *)
LEMMA HeldBelowNext ==
  ASSUME TypeOK, ObjInv, NEW h \in Handles, Held(h)
  PROVE  h < nextHandle
<1>1. CASE h \in live
  BY <1>1, LiveBelowNext DEF ObjInv
<1>2. CASE Releasing(h)
  BY <1>2, ConstantsAssumption DEF Releasing, ObjInv, Fresh
<1> QED
  BY <1>1, <1>2 DEF Held

(* What is owned and not being released.                                   *)
LEMMA OwnedState ==
  ASSUME TypeOK, ObjInv, NEW s \in Slots, privateData[s] # Null
  PROVE  /\ privateData[s] \in Handles /\ Held(privateData[s])
         /\ Lifecycle!Owned(privateData[s])
         /\ ObjectStates[privateData[s]] = IF initialized[privateData[s]] THEN "open" ELSE "allocated"
<1>1. privateData[s] \in live /\ privateData[s] \in Handles
  BY DEF ObjInv, HandlesOwned, TypeOK
<1>2. privateData[s] < nextHandle
  BY <1>1, LiveBelowNext DEF ObjInv
<1> QED
  BY <1>1, <1>2, StatesAreTold DEF StatesTold, Held, Lifecycle!Owned

(* An object whose struct no call uses is in no call.                      *)
LEMMA QuiescentUnused ==
  ASSUME TypeOK, ObjInv, NEW s \in Slots, Quiescent(s), privateData[s] # Null
  PROVE  \A u \in Threads : privateData[s] \notin Working[u]
<1> SUFFICES ASSUME NEW u \in Threads, privateData[s] \in Working[u] PROVE FALSE
  OBVIOUS
<1>1. privateData[s] = call[u].obj \/ privateData[s] = ParentOf(u)
  BY DEF Working
<1>2. privateData[s] \in live
  BY DEF ObjInv, HandlesOwned
<1>3. CASE privateData[s] = ParentOf(u)
  <2>1. call[u].peer \in Slots /\ privateData[call[u].peer] = privateData[s]
    BY <1>3, CallType DEF ParentOf
  <2>2. call[u].peer = s
    BY <2>1 DEF ObjInv, HandlesOwned
  <2> QED
    BY <2>2 DEF Quiescent, Uses
<1>4. CASE privateData[s] = call[u].obj
  <2>1. call[u].op # "idle"
    BY <1>4 DEF ObjInv, CallShape, IdleCall
  <2>2. call[u].slot \in Slots /\ call[u].op # "StatementNew" /\ call[u].op \notin ReleaseOps
    BY <2>1, <1>2, <1>4 DEF ObjInv, CallShape, NoUseAfterRelease
  <2>3. privateData[call[u].slot] = call[u].obj
    BY <2>1, <2>2 DEF ObjInv, CallShape, NoUseAfterRelease, LifecycleOps, ReleaseOps
  <2>4. call[u].slot = s
    BY <1>4, <2>2, <2>3 DEF ObjInv, HandlesOwned
  <2> QED
    BY <2>4 DEF Quiescent, Uses
<1> QED
  BY <1>1, <1>3, <1>4

(* The operation of a call tells what it works on.                         *)
WorkingTold ==
  \A t \in Threads :
    /\ call[t].op = "idle" => Working[t] = {}
    /\ call[t].op \in WorkOps \cup SharedOps \cup {"StreamRead"} \cup ReleaseOps
                        \cup {"DatabaseInit"} =>
         Working[t] = {call[t].obj}
    /\ call[t].op = "ConnectionInit" =>
         Working[t] = {call[t].obj, privateData[call[t].peer]}
    /\ call[t].op = "StatementNew" => Working[t] = {privateData[call[t].peer]}

LEMMA WorkingIsTold == TypeOK /\ ObjInv => WorkingTold
<1> SUFFICES ASSUME TypeOK, ObjInv, NEW t \in Threads PROVE WorkingTold!(t)
  BY DEF WorkingTold
<1>1. Working[t] = {call[t].obj, ParentOf(t)} \ {Null}
  BY DEF Working
<1>2. CASE call[t].op = "idle"
  BY <1>1, <1>2 DEF ObjInv, CallShape, IdleCall, ParentOf, ReleaseOps, WorkOps, SharedOps
<1>3. CASE call[t].op \in WorkOps \cup SharedOps \cup {"StreamRead"} \cup ReleaseOps \cup {"DatabaseInit"}
  <2>1. ParentOf(t) = Null
    BY <1>3 DEF ObjInv, CallShape, ParentOf, ReleaseOps, WorkOps, SharedOps
  <2>2. call[t].obj # Null
    BY <1>3 DEF ObjInv, NoUseAfterRelease
  <2> QED
    BY <1>1, <1>3, <2>1, <2>2 DEF ReleaseOps, WorkOps, SharedOps
<1>4. CASE call[t].op \in {"ConnectionInit", "StatementNew"}
  <2>1. call[t].peer \in Slots /\ call[t].peer # Null /\ privateData[call[t].peer] # Null
    BY <1>4, ConstantsAssumption DEF ObjInv, CallShape, NoUseAfterRelease, Slots
  <2>2. call[t].op = "ConnectionInit" => call[t].obj # Null
    BY DEF ObjInv, NoUseAfterRelease
  <2>3. call[t].op = "StatementNew" => call[t].obj = Null
    BY DEF ObjInv, CallShape
  <2> QED
    BY <1>1, <1>4, <2>1, <2>2, <2>3 DEF ParentOf, ReleaseOps, WorkOps, SharedOps
<1> QED
  BY <1>2, <1>3, <1>4 DEF ObjInv, CallShape, LifecycleOps

(* The same after a step.                                                  *)
LEMMA WorkingIsToldNext == TypeOK' /\ ObjInv' => WorkingTold'
  BY WorkingIsTold, PTL

(* A call keeps its objects while the structs it uses keep theirs.         *)
LEMMA WorkingKept ==
  ASSUME TypeOK, NEW u \in Threads, call'[u] = call[u],
         \A r \in Slots : call[u].peer = r => privateData'[r] = privateData[r]
  PROVE  Working'[u] = Working[u]
<1>1. call[u].peer \in Slots \cup {Null}
  BY CallType
<1>2. ParentOf(u)' = ParentOf(u)
  BY <1>1 DEF ParentOf
<1> QED
  BY <1>2 DEF Working

(* The step of one thread changes what that thread works on.               *)
LEMMA OneWorks ==
  ASSUME NEW t \in Threads, \A u \in Threads \ {t} : Working'[u] = Working[u]
  PROVE  Working' = [Working EXCEPT ![t] = Working'[t]]
  BY DEF Working

(* Objects keep their states when they are held as before.                 *)
LEMMA StateKept ==
  ASSUME TypeOK, TypeOK', ObjInv, ObjInv', NEW h \in Handles,
         h < nextHandle' <=> h < nextHandle,
         Held(h)' <=> Held(h), Held(h) => initialized'[h] = initialized[h]
  PROVE  ObjectStates'[h] = ObjectStates[h]
<1>1. h \in Int /\ nextHandle \in Int /\ nextHandle' \in Int
  BY ConstantsAssumption DEF Handles, TypeOK
<1>2. StatesTold /\ StatesTold'
  BY StatesAreTold, StatesAreToldNext
<1> QED
  BY <1>1, <1>2 DEF StatesTold

(* A call that is not a Release works on owned objects, all of them open   *)
(* but the one an Init opens.                                              *)
LEMMA WorksOnOwned ==
  ASSUME TypeOK, ObjInv, NEW t \in Threads, call[t].op \notin ReleaseOps,
         NEW o \in Working[t]
  PROVE  /\ Lifecycle!Owned(o) /\ ObjectStates[o] \in {"allocated", "open"}
         /\ \/ ObjectStates[o] = "open"
            \/ call[t].op \in {"DatabaseInit", "ConnectionInit"} /\ o = call[t].obj
<1>1. WorkingTold
  BY WorkingIsTold
<1>2. call[t].op # "idle"
  BY <1>1 DEF WorkingTold
<1>3. CASE call[t].op \in WorkOps \cup SharedOps \cup {"StreamRead"}
  <2>1. o = call[t].obj
    BY <1>1, <1>3 DEF WorkingTold
  <2>2. /\ call[t].slot \in Slots /\ privateData[call[t].slot] = o /\ o # Null
        /\ initialized[o]
    BY <1>2, <1>3, <2>1 DEF ObjInv, CallShape, NoUseAfterRelease
  <2> QED
    BY <2>2, OwnedState
<1>4. CASE call[t].op \in {"DatabaseInit", "ConnectionInit"} /\ o = call[t].obj
  <2>1. /\ call[t].slot \in Slots /\ privateData[call[t].slot] = o /\ o # Null
        /\ ~initialized[o]
    BY <1>2, <1>4 DEF ObjInv, CallShape, NoUseAfterRelease
  <2> QED
    BY <1>4, <2>1, OwnedState
<1>5. CASE call[t].op \in {"ConnectionInit", "StatementNew"} /\ o = privateData[call[t].peer]
  <2>1. call[t].peer \in Slots /\ o # Null /\ initialized[o]
    BY <1>5 DEF ObjInv, CallShape, NoUseAfterRelease, Slots
  <2> QED
    BY <1>5, <2>1, OwnedState
<1> QED
  BY <1>1, <1>2, <1>3, <1>4, <1>5 DEF WorkingTold, ObjInv, CallShape, LifecycleOps

(* A call in flight works on something.                                    *)
LEMMA WorksOnSomething ==
  ASSUME TypeOK, ObjInv, NEW t \in Threads, call[t].op # "idle"
  PROVE  Working[t] # {}
  BY WorkingIsTold DEF WorkingTold, ObjInv, CallShape, LifecycleOps

(* Entering and returning without a Release changes no object.             *)
LEMMA CallsOnly ==
  ASSUME TypeOK, TypeOK', ObjInv, ObjInv', NEW t \in Threads,
         UNCHANGED <<privateData, nextHandle, live, initialized>>,
         \A u \in Threads \ {t} : call'[u] = call[u],
         call[t].op \notin ReleaseOps, call'[t].op \notin ReleaseOps
  PROVE  ObjectStates' = ObjectStates /\ Working' = [Working EXCEPT ![t] = Working'[t]]
<1>1. \A h \in Handles : Held(h)' <=> Held(h)
  BY DEF Held, Releasing
<1>2. \A h \in Handles : ObjectStates'[h] = ObjectStates[h]
  BY <1>1, StateKept
<1>3. ObjectStates' = ObjectStates
  BY <1>2 DEF ObjectStates
<1>4. \A u \in Threads \ {t} : Working'[u] = Working[u]
  BY WorkingKept
<1> QED
  BY <1>3, <1>4, OneWorks

-----------------------------------------------------------------------------
(* An ordinary call, a GetOption or a Cancel enters.                       *)
LEMMA WorkEntersLives ==
  ASSUME TypeOK, TypeOK', ObjInv, ObjInv', NEW t \in Threads, NEW op \in Ops,
         NEW s \in Slots, NEW p \in Slots \cup {Null}, WorkEnters(t, op, s, p)
  PROVE  Lifecycle!Next
<1>1. /\ call'[t].op = op /\ call'[t].obj = privateData[s]
      /\ \A u \in Threads \ {t} : call'[u] = call[u]
      /\ call[t].op = "idle" /\ op \in WorkOps \cup SharedOps
      /\ privateData[s] # Null /\ initialized[privateData[s]]
      /\ UNCHANGED <<privateData, nextHandle, live, initialized>>
  BY EnterFacts DEF WorkEnters, Entering, Idle, objVars
<1>2. ObjectStates' = ObjectStates /\ Working' = [Working EXCEPT ![t] = Working'[t]]
  BY <1>1, CallsOnly DEF WorkOps, SharedOps, ReleaseOps
<1>3. Working[t] = {} /\ Working'[t] = {privateData[s]}
  BY <1>1, WorkingIsTold, WorkingIsToldNext DEF WorkingTold
<1>4. privateData[s] \in Handles /\ Lifecycle!Usable(privateData[s])
  BY <1>1, OwnedState DEF Lifecycle!Usable
<1>5. Lifecycle!Begin(t, privateData[s])
  BY <1>1, <1>2, <1>3, <1>4 DEF Lifecycle!Begin
<1> QED
  BY <1>1, <1>3, <1>5 DEF Lifecycle!Next, Lifecycle!CallStep

(* DatabaseInit or ConnectionInit enters.                                  *)
LEMMA InitEntersLives ==
  ASSUME TypeOK, TypeOK', ObjInv, ObjInv', NEW t \in Threads, NEW op \in Ops,
         NEW s \in Slots, NEW p \in Slots \cup {Null}, InitEnters(t, op, s, p)
  PROVE  Lifecycle!Next
<1>1. /\ call'[t].op = op /\ call'[t].obj = privateData[s] /\ call'[t].peer = p
      /\ \A u \in Threads \ {t} : call'[u] = call[u]
      /\ call[t].op = "idle" /\ op \in {"DatabaseInit", "ConnectionInit"}
      /\ privateData[s] # Null /\ ~initialized[privateData[s]] /\ Quiescent(s)
      /\ UNCHANGED <<privateData, nextHandle, live, initialized>>
      /\ op = "ConnectionInit" => p \in Slots /\ privateData[p] # Null
                                   /\ initialized[privateData[p]]
  BY EnterFacts DEF InitEnters, Entering, Idle, objVars, Slots
<1>2. ObjectStates' = ObjectStates /\ Working' = [Working EXCEPT ![t] = Working'[t]]
  BY <1>1, CallsOnly DEF ReleaseOps
<1>3. /\ Working[t] = {}
      /\ op = "DatabaseInit" => Working'[t] = {privateData[s]}
      /\ op = "ConnectionInit" => Working'[t] = {privateData[s]} \cup {privateData[p]}
  BY <1>1, WorkingIsTold, WorkingIsToldNext DEF WorkingTold
<1>4. /\ privateData[s] \in Handles /\ Lifecycle!Owned(privateData[s])
      /\ ObjectStates[privateData[s]] = "allocated" /\ ~Lifecycle!InUse(privateData[s])
  BY <1>1, OwnedState, QuiescentUnused DEF Lifecycle!InUse
<1>5. PICK parents \in SUBSET {o \in Handles : Lifecycle!Usable(o)} :
        Working'[t] = {privateData[s]} \cup parents
  <2>1. CASE op = "DatabaseInit"
    BY <1>3, <2>1
  <2>2. CASE op = "ConnectionInit"
    <3>1. privateData[p] \in Handles /\ Lifecycle!Usable(privateData[p])
      BY <1>1, <2>2, OwnedState DEF Lifecycle!Usable
    <3> QED
      BY <1>3, <2>2, <3>1
  <2> QED
    BY <1>1, <2>1, <2>2
<1>6. Lifecycle!BeginOpening(t, privateData[s])
  BY <1>1, <1>2, <1>3, <1>4, <1>5 DEF Lifecycle!BeginOpening
<1>7. privateData[s] \in Working'[t] \ Working[t]
  BY <1>3, <1>5
<1> QED
  BY <1>1, <1>6, <1>7 DEF Lifecycle!Next, Lifecycle!CallStep

(* StatementNew enters.                                                    *)
LEMMA NewEntersLives ==
  ASSUME TypeOK, TypeOK', ObjInv, ObjInv', NEW t \in Threads, NEW s \in Slots,
         NEW c \in Slots, NewEnters(t, s, c)
  PROVE  Lifecycle!Next
<1>1. /\ call'[t].op = "StatementNew" /\ call'[t].peer = c
      /\ \A u \in Threads \ {t} : call'[u] = call[u]
      /\ call[t].op = "idle" /\ privateData[c] # Null /\ initialized[privateData[c]]
      /\ UNCHANGED <<privateData, nextHandle, live, initialized>>
  BY EnterFacts DEF NewEnters, Entering, Idle, objVars
<1>2. ObjectStates' = ObjectStates /\ Working' = [Working EXCEPT ![t] = Working'[t]]
  BY <1>1, CallsOnly DEF ReleaseOps
<1>3. Working[t] = {} /\ Working'[t] = {privateData[c]}
  BY <1>1, WorkingIsTold, WorkingIsToldNext DEF WorkingTold
<1>4. privateData[c] \in Handles /\ Lifecycle!Usable(privateData[c])
  BY <1>1, OwnedState DEF Lifecycle!Usable
<1>5. Lifecycle!Begin(t, privateData[c])
  BY <1>1, <1>2, <1>3, <1>4 DEF Lifecycle!Begin
<1> QED
  BY <1>1, <1>3, <1>5 DEF Lifecycle!Next, Lifecycle!CallStep

(* GetNext or GetSchema of a stream enters.                                *)
LEMMA StreamEntersLives ==
  ASSUME TypeOK, TypeOK', ObjInv, ObjInv', NEW t \in Threads, NEW s \in Slots,
         StreamEnters(t, s)
  PROVE  Lifecycle!Next
<1>1. /\ call'[t].op = "StreamRead" /\ call'[t].obj = privateData[s]
      /\ \A u \in Threads \ {t} : call'[u] = call[u]
      /\ call[t].op = "idle" /\ privateData[s] # Null /\ initialized[privateData[s]]
      /\ UNCHANGED <<privateData, nextHandle, live, initialized>>
  BY EnterFacts DEF StreamEnters, Entering, Idle, objVars, ObjInv, StreamsOpen
<1>2. ObjectStates' = ObjectStates /\ Working' = [Working EXCEPT ![t] = Working'[t]]
  BY <1>1, CallsOnly DEF ReleaseOps
<1>3. Working[t] = {} /\ Working'[t] = {privateData[s]}
  BY <1>1, WorkingIsTold, WorkingIsToldNext DEF WorkingTold
<1>4. privateData[s] \in Handles /\ Lifecycle!Usable(privateData[s])
  BY <1>1, OwnedState DEF Lifecycle!Usable
<1>5. Lifecycle!Begin(t, privateData[s])
  BY <1>1, <1>2, <1>3, <1>4 DEF Lifecycle!Begin
<1> QED
  BY <1>1, <1>3, <1>5 DEF Lifecycle!Next, Lifecycle!CallStep

(* A call that neither opens nor closes anything returns.                  *)
LEMMA ReturnsLives ==
  ASSUME TypeOK, TypeOK', ObjInv, ObjInv', NEW t \in Threads, Returns(t)
  PROVE  [Lifecycle!Next]_(Lifecycle!vars)
<1>1. /\ call'[t].op = "idle" /\ call[t].op \notin ReleaseOps
      /\ \A u \in Threads \ {t} : call'[u] = call[u]
      /\ UNCHANGED <<privateData, nextHandle, live, initialized>>
  BY ReturnFacts DEF Returns, objVars
<1>2. ObjectStates' = ObjectStates /\ Working' = [Working EXCEPT ![t] = Working'[t]]
  BY <1>1, CallsOnly DEF ReleaseOps
<1>3. Working'[t] = {}
  BY <1>1, WorkingIsToldNext DEF WorkingTold
<1>4. CASE Working[t] = {}
  <2>1. Working' = Working
    BY <1>2, <1>3, <1>4 DEF Working
  <2> QED
    BY <1>1, <1>2, <2>1 DEF Lifecycle!vars
<1>5. CASE Working[t] # {}
  <2>1. Lifecycle!End(t)
    BY <1>1, <1>2, <1>3, <1>5, WorksOnOwned DEF Lifecycle!End
  <2> QED
    BY <1>1, <1>3, <1>5, <2>1 DEF Lifecycle!Next, Lifecycle!CallStep
<1> QED
  BY <1>4, <1>5

(* A struct nobody else uses gets a new object.                            *)
LEMMA AllocationLives ==
  ASSUME TypeOK, TypeOK', ObjInv, ObjInv', NEW s \in Slots, NEW open \in BOOLEAN,
         NewObject(s, open), privateData[s] = Null,
         \A h \in Handles : Releasing(h)' <=> Releasing(h)
  PROVE  /\ nextHandle \in Handles /\ ObjectStates[nextHandle] = "unused"
         /\ privateData' = [privateData EXCEPT ![s] = nextHandle] /\ privateData' # privateData
         /\ ObjectStates' = [ObjectStates EXCEPT ![nextHandle] =
                                IF open THEN "open" ELSE "allocated"]
<1>1. /\ nextHandle \in Handles /\ nextHandle \in Nat /\ nextHandle' = nextHandle + 1
      /\ live' = live \cup {nextHandle} /\ privateData'[s] = nextHandle
      /\ initialized'[nextHandle] = open
      /\ \A h \in Handles \ {nextHandle} : initialized'[h] = initialized[h]
      /\ \A r \in Slots \ {s} : privateData'[r] = privateData[r]
  BY NewObjectFacts
<1>2. StatesTold /\ StatesTold'
  BY StatesAreTold, StatesAreToldNext
<1>3. ObjectStates[nextHandle] = "unused"
  BY <1>1, <1>2 DEF StatesTold
<1>4. ObjectStates'[nextHandle] = IF open THEN "open" ELSE "allocated"
  <2>1. PICK n \in Handles : n = nextHandle
    BY <1>1
  <2>2. Held(n)' /\ n < nextHandle' /\ initialized'[n] = open
    BY <1>1, <2>1 DEF Held
  <2> QED
    BY <2>1, <2>2, <1>2 DEF StatesTold
<1>5. ASSUME NEW h \in Handles \ {nextHandle} PROVE ObjectStates'[h] = ObjectStates[h]
  <2>1. Held(h)' <=> Held(h)
    BY <1>1 DEF Held
  <2>2. h < nextHandle' <=> h < nextHandle
    BY <1>1 DEF Handles
  <2> QED
    BY <1>1, <2>1, <2>2, StateKept
<1>6. ObjectStates' = [ObjectStates EXCEPT ![nextHandle] = IF open THEN "open" ELSE "allocated"]
  BY <1>4, <1>5 DEF ObjectStates
<1>7. nextHandle # Null
  BY <1>1, ConstantsAssumption
<1> QED
  BY <1>1, <1>3, <1>6, <1>7 DEF NewObject

(* DatabaseNew and ConnectionNew.                                          *)
LEMMA AllocatesLives ==
  ASSUME TypeOK, TypeOK', ObjInv, ObjInv', NEW s \in Slots, Allocates(s)
  PROVE  Lifecycle!Next
<1>1. /\ NewObject(s, FALSE) /\ privateData[s] = Null /\ UNCHANGED call
      /\ \A v \in Threads : ~Uses(v, s)
  BY DEF Allocates, Quiescent
<1>2. \A h \in Handles : Releasing(h)' <=> Releasing(h)
  BY <1>1 DEF Releasing
<1>3. /\ nextHandle \in Handles /\ ObjectStates[nextHandle] = "unused"
      /\ privateData' = [privateData EXCEPT ![s] = nextHandle] /\ privateData' # privateData
      /\ ObjectStates' = [ObjectStates EXCEPT ![nextHandle] = "allocated"]
  BY <1>1, <1>2, AllocationLives
<1>4. \A u \in Threads : Working'[u] = Working[u]
  BY <1>1, <1>3, WorkingKept DEF Uses, TypeOK
<1>5. Working' = Working
  BY <1>4 DEF Working
<1>6. Lifecycle!Allocate(s, nextHandle)
  BY <1>1, <1>3, <1>5 DEF Lifecycle!Allocate
<1> QED
  BY <1>3, <1>6 DEF Lifecycle!Next, Lifecycle!StructStep

(* A StatementNew or a call that exports a reader succeeds.                *)
LEMMA AllocatesAndReturnsLives ==
  ASSUME TypeOK, TypeOK', ObjInv, ObjInv', NEW t \in Threads, NEW s \in Slots,
         AllocatesAndReturns(t, s)
  PROVE  Lifecycle!Next
<1>1. /\ NewObject(s, TRUE) /\ call'[t].op = "idle"
      /\ \A v \in Threads \ {t} : call'[v] = call[v]
      /\ call[t].op \in {"StatementNew", "ConnectionMetadata", "StatementExecuteQuery"}
  BY ReturnFacts DEF AllocatesAndReturns
<1>2. privateData[s] = Null /\ \A v \in Threads \ {t} : ~Uses(v, s)
  BY DEF AllocatesAndReturns, ObjInv, CallShape, Exclusion, LifecycleOps
<1>3. \A h \in Handles : Releasing(h)' <=> Releasing(h)
  BY <1>1 DEF Releasing, ReleaseOps
<1>4. /\ nextHandle \in Handles /\ ObjectStates[nextHandle] = "unused"
      /\ privateData' = [privateData EXCEPT ![s] = nextHandle] /\ privateData' # privateData
      /\ ObjectStates' = [ObjectStates EXCEPT ![nextHandle] = "open"]
  BY <1>1, <1>2, <1>3, AllocationLives
<1>5. \A u \in Threads \ {t} : Working'[u] = Working[u]
  BY <1>1, <1>2, <1>4, WorkingKept DEF Uses, TypeOK
<1>6. Working' = [Working EXCEPT ![t] = {}]
  BY <1>1, <1>5, OneWorks, WorkingIsToldNext DEF WorkingTold
<1>7. Working[t] # {} /\ \A o \in Working[t] : Lifecycle!Usable(o)
  BY <1>1, WorksOnSomething, WorksOnOwned DEF Lifecycle!Usable, ReleaseOps
<1>8. Lifecycle!Create(t, s, nextHandle)
  BY <1>2, <1>4, <1>6, <1>7 DEF Lifecycle!Create
<1> QED
  BY <1>4, <1>8 DEF Lifecycle!Next, Lifecycle!StructStep

(* A Release of a database, connection or statement enters.                *)
LEMMA ReleaseEntersLives ==
  ASSUME TypeOK, TypeOK', ObjInv, ObjInv', NEW t \in Threads, NEW op \in Ops,
         NEW s \in Slots, ReleaseEnters(t, op, s)
  PROVE  Lifecycle!Next
<1>1. /\ call'[t].op = op /\ call'[t].obj = privateData[s] /\ op \in ReleaseOps
      /\ \A u \in Threads \ {t} : call'[u] = call[u]
      /\ call[t].op = "idle" /\ privateData[s] # Null /\ Quiescent(s)
      /\ UNCHANGED <<nextHandle, initialized>> /\ DropHandle(s)
  BY EnterFacts DEF ReleaseEnters, Idle
<1>2. /\ privateData[s] \in live /\ live' = live \ {privateData[s]}
      /\ privateData'[s] = Null
      /\ \A r \in Slots \ {s} : privateData'[r] = privateData[r]
  BY <1>1, DropHandleFacts DEF ObjInv
<1>3. \A h \in Handles : Releasing(h)' <=> Releasing(h) \/ h = privateData[s]
  BY <1>1 DEF Releasing, ReleaseOps
<1>4. \A h \in Handles : ObjectStates'[h] = ObjectStates[h]
  <2>1. \A h \in Handles : Held(h)' <=> Held(h)
    BY <1>2, <1>3 DEF Held
  <2> QED
    BY <1>1, <2>1, StateKept
<1>5. ObjectStates' = ObjectStates
  BY <1>4 DEF ObjectStates
<1>6. \A u \in Threads \ {t} : Working'[u] = Working[u]
  BY <1>1, <1>2, WorkingKept DEF Quiescent, Uses
<1>7. Working[t] = {} /\ Working'[t] = {privateData[s]}
  BY <1>1, WorkingIsTold, WorkingIsToldNext DEF WorkingTold
<1>8. Working' = [Working EXCEPT ![t] = {privateData[s]}]
  BY <1>6, <1>7, OneWorks
<1>9. ObjectStates[privateData[s]] \in {"allocated", "open"} /\ ~Lifecycle!InUse(privateData[s])
  BY <1>1, OwnedState, QuiescentUnused DEF Lifecycle!InUse
<1>10. Lifecycle!Release(t, s)
  BY <1>1, <1>5, <1>7, <1>8, <1>9 DEF Lifecycle!Release, DropHandle
<1> QED
  BY <1>1, <1>2, <1>10 DEF Lifecycle!Next, Lifecycle!StructStep

(* A Release returns, after it closed the Go object.                       *)
LEMMA ReleaseReturnsLives ==
  ASSUME TypeOK, TypeOK', ObjInv, ObjInv', NEW t \in Threads, ReleaseReturns(t)
  PROVE  Lifecycle!Next
<1>1. /\ call'[t].op = "idle" /\ call'[t].obj = Null /\ call[t].op \in ReleaseOps
      /\ \A u \in Threads \ {t} : call'[u] = call[u]
      /\ UNCHANGED <<privateData, nextHandle, live>>
  BY ReturnFacts DEF ReleaseReturns
<1>2. PICK h \in Handles : /\ h = call[t].obj /\ h \notin live
                           /\ \A u \in Threads \ {t} : call[u].obj # h
  BY <1>1, CallType DEF ObjInv, NoUseAfterRelease
<1>3. \A g \in Handles \ {h} : initialized'[g] = initialized[g]
  BY <1>2 DEF ReleaseReturns, TypeOK
<1>4. Releasing(h)
  BY <1>1, <1>2 DEF Releasing
<1>5. \A g \in Handles \ {h} : Releasing(g)' <=> Releasing(g)
  BY <1>1, <1>2 DEF Releasing, ReleaseOps
<1>6. ~Releasing(h)'
  BY <1>1, <1>2, ConstantsAssumption DEF Releasing, ReleaseOps
<1>7. Working[t] = {h} /\ Working'[t] = {}
  BY <1>1, <1>2, WorkingIsTold, WorkingIsToldNext DEF WorkingTold
<1>8. h < nextHandle /\ Held(h) /\ ~Held(h)'
  BY <1>1, <1>2, <1>4, <1>6, HeldBelowNext DEF Held
<1>9. StatesTold /\ StatesTold'
  BY StatesAreTold, StatesAreToldNext
<1>10. ObjectStates[h] \in {"allocated", "open"}
  BY <1>2, <1>8, <1>9 DEF StatesTold
<1>11. ObjectStates'[h] = "closed"
  BY <1>1, <1>2, <1>8, <1>9 DEF StatesTold
<1>12. ASSUME NEW g \in Handles \ {h} PROVE ObjectStates'[g] = ObjectStates[g]
  <2>1. Held(g)' <=> Held(g)
    BY <1>1, <1>5 DEF Held
  <2> QED
    BY <1>1, <1>3, <2>1, StateKept
<1>13. ObjectStates' = [ObjectStates EXCEPT ![h] = "closed"]
  BY <1>11, <1>12 DEF ObjectStates
<1>14. \A u \in Threads \ {t} : Working'[u] = Working[u]
  BY <1>1, WorkingKept
<1>15. Working' = [Working EXCEPT ![t] = {}]
  BY <1>7, <1>14, OneWorks
<1>16. ~Lifecycle!Owned(h)
  BY <1>2, ConstantsAssumption DEF ObjInv, HandlesOwned, Lifecycle!Owned
<1>17. ASSUME NEW u \in Threads \ {t} PROVE h \notin Working[u]
  <2>1. ParentOf(u) # h
    BY <1>2, <1>16, CallType, ConstantsAssumption DEF ParentOf, Lifecycle!Owned
  <2>2. call[u].obj # h
    BY <1>2
  <2> QED
    BY <2>1, <2>2 DEF Working
<1>18. Lifecycle!Close(t, h)
  BY <1>1, <1>7, <1>10, <1>13, <1>15, <1>16, <1>17 DEF Lifecycle!Close
<1> QED
  BY <1>1, <1>7, <1>18 DEF Lifecycle!Next, Lifecycle!CallStep

(* An Init returns with an opened object, with or without an error.        *)
LEMMA InitReturnsLives ==
  ASSUME TypeOK, TypeOK', ObjInv, ObjInv', NEW t \in Threads, InitReturns(t)
  PROVE  Lifecycle!Next
<1>1. /\ call'[t].op = "idle" /\ call[t].op \in {"DatabaseInit", "ConnectionInit"}
      /\ \A u \in Threads \ {t} : call'[u] = call[u]
      /\ UNCHANGED <<privateData, nextHandle, live>>
  BY ReturnFacts DEF InitReturns
<1>2. PICK h \in Handles : /\ h = call[t].obj /\ h # Null /\ ~initialized[h]
                           /\ call[t].slot \in Slots /\ privateData[call[t].slot] = h
  BY <1>1, CallType DEF ObjInv, NoUseAfterRelease, HandlesOwned, CallShape
<1>3. initialized'[h] /\ \A g \in Handles \ {h} : initialized'[g] = initialized[g]
  BY <1>2 DEF InitReturns, Opened, TypeOK
<1>4. Held(h) /\ Lifecycle!Owned(h) /\ ObjectStates[h] = "allocated"
  BY <1>2, OwnedState
<1>5. \A g \in Handles : Held(g)' <=> Held(g)
  BY <1>1 DEF Held, Releasing, ReleaseOps
<1>6. /\ h \in Working[t] /\ Working'[t] = {}
      /\ \A o \in Working[t] \ {h} : Lifecycle!Usable(o)
  <2>1. Working'[t] = {}
    BY <1>1, WorkingIsToldNext DEF WorkingTold
  <2>2. h \in Working[t]
    BY <1>1, <1>2, WorkingIsTold DEF WorkingTold
  <2>3. \A o \in Working[t] \ {h} : Lifecycle!Usable(o)
    BY <1>1, <1>2, WorksOnOwned DEF Lifecycle!Usable, ReleaseOps
  <2> QED
    BY <2>1, <2>2, <2>3
<1>7. ObjectStates'[h] = "open"
  <2>1. h < nextHandle' /\ Held(h)'
    BY <1>1, <1>2, <1>4, <1>5, HeldBelowNext
  <2>2. StatesTold'
    BY StatesAreToldNext
  <2> QED
    BY <1>2, <1>3, <2>1, <2>2 DEF StatesTold
<1>8. \A g \in Handles \ {h} : ObjectStates'[g] = ObjectStates[g]
  BY <1>1, <1>3, <1>5, StateKept
<1>9. ObjectStates' = [ObjectStates EXCEPT ![h] = "open"]
  BY <1>7, <1>8 DEF ObjectStates
<1>10. \A u \in Threads \ {t} : Working'[u] = Working[u]
  BY <1>1, WorkingKept
<1>11. Working' = [Working EXCEPT ![t] = {}]
  BY <1>6, <1>10, OneWorks
<1>12. Lifecycle!Open(t, h)
  BY <1>1, <1>4, <1>6, <1>9, <1>11 DEF Lifecycle!Open
<1> QED
  BY <1>1, <1>2, <1>6, <1>12 DEF Lifecycle!Next, Lifecycle!CallStep

(* The release callback of a stream.                                       *)
LEMMA StreamReleasesLives ==
  ASSUME TypeOK, TypeOK', ObjInv, ObjInv', NEW s \in Slots, StreamReleases(s)
  PROVE  Lifecycle!Next
<1>1. /\ UNCHANGED <<nextHandle, initialized, call>> /\ DropHandle(s)
      /\ privateData[s] # Null /\ Quiescent(s) /\ initialized[privateData[s]]
  BY DEF StreamReleases, ObjInv, StreamsOpen
<1>2. PICK h \in Handles :
        /\ h = privateData[s] /\ h \in live /\ live' = live \ {h} /\ privateData'[s] = Null
        /\ \A r \in Slots \ {s} : privateData'[r] = privateData[r]
  BY <1>1, DropHandleFacts DEF ObjInv
<1>3. /\ Held(h) /\ ObjectStates[h] = "open"
      /\ \A u \in Threads : h \notin Working[u]
  BY <1>1, <1>2, OwnedState, QuiescentUnused
<1>4. privateData' = [privateData EXCEPT ![s] = Null]
  BY <1>1 DEF DropHandle
<1>5. ~Releasing(h)
  BY <1>2 DEF Releasing, ObjInv, NoUseAfterRelease
<1>6. \A g \in Handles : Releasing(g)' <=> Releasing(g)
  BY <1>1 DEF Releasing
<1>7. ~Held(h)'
  BY <1>2, <1>3, <1>5, <1>6 DEF Held
<1>8. ObjectStates'[h] = "closed"
  <2>1. h < nextHandle'
    BY <1>1, <1>3, HeldBelowNext
  <2>2. StatesTold'
    BY StatesAreToldNext
  <2> QED
    BY <1>3, <1>7, <2>1, <2>2 DEF StatesTold
<1>9. ASSUME NEW g \in Handles \ {h} PROVE ObjectStates'[g] = ObjectStates[g]
  <2>1. Held(g)' <=> Held(g)
    BY <1>2, <1>6 DEF Held
  <2> QED
    BY <1>1, <2>1, StateKept
<1>10. ObjectStates' = [ObjectStates EXCEPT ![h] = "closed"]
  BY <1>8, <1>9 DEF ObjectStates
<1>11. \A u \in Threads : Working'[u] = Working[u]
  BY <1>1, <1>2, WorkingKept DEF Quiescent, Uses
<1>12. Working' = Working
  BY <1>11 DEF Working
<1>13. Lifecycle!ReleaseAndClose(s)
  BY <1>1, <1>2, <1>3, <1>4, <1>10, <1>12 DEF Lifecycle!ReleaseAndClose, Lifecycle!InUse
<1>14. privateData' # privateData
  BY <1>1, <1>2
<1> QED
  BY <1>13, <1>14 DEF Lifecycle!Next, Lifecycle!StructStep

-----------------------------------------------------------------------------
(* Steps that touch neither handles nor calls.                             *)
LEMMA IdleLives ==
  ASSUME UNCHANGED <<objVars, call>>
  PROVE  UNCHANGED Lifecycle!vars
<1>1. UNCHANGED <<privateData, nextHandle, live, initialized, outstanding, call>>
  BY DEF objVars
<1>2. \A h : ObjectState(h)' = ObjectState(h)
  BY <1>1 DEF ObjectState, Releasing
<1>3. ObjectStates' = ObjectStates
  BY <1>2 DEF ObjectStates
<1>4. Working' = Working
  BY <1>1 DEF Working, ParentOf
<1> QED
  BY <1>1, <1>3, <1>4 DEF Lifecycle!vars

(* Every step of the driver is one of ObjectLifecycle or leaves all it     *)
(* sees alone.                                                             *)
LEMMA StepLives ==
  ASSUME TypeOK, TypeOK', ObjInv, ObjInv', [Next]_vars
  PROVE  [Lifecycle!Next]_(Lifecycle!vars)
<1>1. Shape
  BY NextShape
<1> QED
  BY <1>1, IdleLives, WorkEntersLives, InitEntersLives, NewEntersLives, StreamEntersLives,
     AllocatesLives, AllocatesAndReturnsLives, ReleaseEntersLives, ReleaseReturnsLives,
     InitReturnsLives, ReturnsLives, StreamReleasesLives DEF Shape

(* No object exists before the first call.                                 *)
LEMMA InitLives == Init => Lifecycle!Init
<1> SUFFICES ASSUME Init PROVE Lifecycle!Init
  OBVIOUS
<1>1. \A h \in Handles : ObjectState(h) = "unused"
  BY DEF Init, ObjectState, Handles
<1>2. \A t \in Threads : {call[t].obj, ParentOf(t)} \ {Null} = {}
  BY DEF Init, IdleCall, ParentOf
<1> QED
  BY <1>1, <1>2 DEF Init, Lifecycle!Init, ObjectStates, Working

(* Every Go object lives as ObjectLifecycle says, whatever the threads,    *)
(* their panics and failed Inits do: opened at most once, open and owned   *)
(* while a call works on it, closed once, by the call that took it from    *)
(* its struct.                                                             *)
THEOREM ObjectsLiveAsPromised == Spec => ImplementsLifecycle
<1>1. TypeOK /\ ObjInv /\ (TypeOK /\ ObjInv)' /\ [Next]_vars => [Lifecycle!Next]_(Lifecycle!vars)
  BY StepLives
<1> QED
  BY <1>1, InitLives, Invariance, PTL DEF Spec, ImplementsLifecycle, Lifecycle!Spec
=============================================================================
