----------------------- MODULE AdbcTransactionsProofs -----------------------
(***************************************************************************)
(* Proofs about AdbcTransactions: the abstract connection keeps Promises,  *)
(* for any set of rows.                                                    *)
(*                                                                         *)
(* Promises is about kept and gone; what makes it inductive is what is     *)
(* known of the open transaction at every phase of a request: until a      *)
(* request is performed the acknowledged writes are tentative, a performed *)
(* COMMIT has made them durable, a performed ROLLBACK has removed them,    *)
(* and a refusal that may have aborted leaves them open to anything.       *)
(***************************************************************************)
EXTENDS AdbcTransactions, TLAPS

Is(name) == request.cmd.name = name

(* The mode the application sees is that of the session, up to a change    *)
(* performed and not acknowledged; autocommit leaves nothing tentative.    *)
ModeInv ==
  /\ linked => store.autocommit = IF request.phase = "performed" /\ Is("SET autocommit")
                                    THEN request.cmd.arg = "1" ELSE mode
  /\ store.autocommit => store.tentative = {}

LinkInv ==
  /\ request.phase # "none" => request.cmd \in Commands
  /\ linked => request.phase # "abandoned"
  /\ ~linked => request.phase \in {"none", "abandoned"} /\ journal.open = {}

(* Every row is in one place; a row about to be written is in none.        *)
RowInv ==
  /\ store.durable \cap store.tentative = {}
  /\ journal.kept \subseteq store.durable
  /\ journal.gone \cap (store.durable \cup store.tentative) = {}
  /\ request.phase \in {"issued", "abandoned"} /\ Is("WRITE") =>
       request.cmd.arg \in Rows \ (store.durable \cup store.tentative \cup journal.gone)

(* What is known of the acknowledged writes of the open transaction.       *)
OpenTentative == journal.open \subseteq store.tentative

OpenInv ==
  linked =>
    /\ request.phase \in {"none", "issued"} => OpenTentative
    /\ request.phase = "refused" /\ ~MayAbort(request.cmd) => OpenTentative
    /\ request.phase = "performed" =>
         /\ Is("COMMIT") => journal.open \subseteq store.durable
         /\ Is("ROLLBACK") => journal.open \cap (store.durable \cup store.tentative) = {}
         /\ Is("SET autocommit") =>
              IF request.cmd.arg = "1" THEN journal.open \subseteq store.durable
                                       ELSE OpenTentative
         /\ Is("WRITE") => /\ OpenTentative
                           /\ request.cmd.arg \in IF mode THEN store.durable ELSE store.tentative
         /\ request.cmd.name \in OtherNames => OpenTentative

IInv == TypeOK /\ ModeInv /\ LinkInv /\ RowInv /\ OpenInv

-----------------------------------------------------------------------------
(* Fields of the effects on a store.                                       *)
LEMMA WithAutocommitFields ==
  ASSUME NEW s \in Store, NEW on \in BOOLEAN
  PROVE  /\ WithAutocommit(s, on) \in Store
         /\ WithAutocommit(s, on).autocommit = on
         /\ on => /\ WithAutocommit(s, on).durable = s.durable \cup s.tentative
                  /\ WithAutocommit(s, on).tentative = {}
         /\ ~on => /\ WithAutocommit(s, on).durable = s.durable
                   /\ WithAutocommit(s, on).tentative = s.tentative
<1>1. CASE on
  BY <1>1 DEF WithAutocommit, Committed, Store
<1>2. CASE ~on
  BY <1>2 DEF WithAutocommit, Store
<1> QED
  BY <1>1, <1>2

LEMMA EffectFields ==
  ASSUME NEW s \in Store, NEW c \in Commands
  PROVE  /\ Effect(c, s) \in Store
         /\ c.name = "WRITE" =>
              /\ Effect(c, s).autocommit = s.autocommit
              /\ s.autocommit => /\ Effect(c, s).durable = s.durable \cup {c.arg}
                                 /\ Effect(c, s).tentative = s.tentative
              /\ ~s.autocommit => /\ Effect(c, s).durable = s.durable
                                  /\ Effect(c, s).tentative = s.tentative \cup {c.arg}
         /\ c.name = "COMMIT" \/ (c.name = "SET autocommit" /\ c.arg = "1") =>
              /\ Effect(c, s).durable = s.durable \cup s.tentative
              /\ Effect(c, s).tentative = {}
         /\ c.name = "ROLLBACK" => Effect(c, s).durable = s.durable /\ Effect(c, s).tentative = {}
         /\ c.name = "SET autocommit" => Effect(c, s).autocommit = (c.arg = "1")
         /\ c.name = "SET autocommit" /\ c.arg # "1" =>
              Effect(c, s).durable = s.durable /\ Effect(c, s).tentative = s.tentative
         /\ c.name \in {"COMMIT", "ROLLBACK"} => Effect(c, s).autocommit = s.autocommit
         /\ c.name \in OtherNames => Effect(c, s) = s
<1>0. /\ s.durable \subseteq Rows /\ s.tentative \subseteq Rows /\ s.autocommit \in BOOLEAN
      /\ s = [durable |-> s.durable, tentative |-> s.tentative, autocommit |-> s.autocommit]
  BY DEF Store
<1>1. CASE c.name = "WRITE"
  <2>1. c.arg \in Rows
    BY <1>1 DEF Commands, OtherNames
  <2>2. Effect(c, s) = IF s.autocommit THEN [s EXCEPT !.durable = @ \cup {c.arg}]
                                       ELSE [s EXCEPT !.tentative = @ \cup {c.arg}]
    BY <1>1 DEF Effect, Written
  <2> QED
    BY <1>0, <1>1, <2>1, <2>2 DEF Store, OtherNames
<1>2. CASE c.name = "COMMIT"
  BY <1>0, <1>2 DEF Effect, Committed, Store, OtherNames
<1>3. CASE c.name = "ROLLBACK"
  BY <1>0, <1>3 DEF Effect, RolledBack, Store, OtherNames
<1>4. CASE c.name = "SET autocommit"
  <2>1. Effect(c, s) = WithAutocommit(s, c.arg = "1")
    BY <1>4 DEF Effect
  <2>2. CASE c.arg = "1"
    <3>1. Effect(c, s) = WithAutocommit(s, TRUE)
      BY <2>1, <2>2
    <3> QED
      BY <1>4, <2>2, <3>1, WithAutocommitFields DEF OtherNames
  <2>3. CASE c.arg # "1"
    <3>1. Effect(c, s) = WithAutocommit(s, FALSE)
      BY <2>1, <2>3
    <3> QED
      BY <1>4, <2>3, <3>1, WithAutocommitFields DEF OtherNames
  <2> QED
    BY <2>2, <2>3
<1>5. CASE c.name \in OtherNames
  BY <1>0, <1>5 DEF Effect, OtherNames
<1> QED
  BY <1>1, <1>2, <1>3, <1>4, <1>5 DEF Commands

LEMMA RolledBackFields ==
  ASSUME NEW s \in Store
  PROVE  /\ RolledBack(s) \in Store /\ RolledBack(s).durable = s.durable
         /\ RolledBack(s).tentative = {} /\ RolledBack(s).autocommit = s.autocommit
BY DEF RolledBack, Store

(* Fields of what the application learns.                                  *)
LEMMA AcknowledgedFields ==
  ASSUME NEW j \in Journal, NEW c \in Commands, NEW m \in BOOLEAN
  PROVE  /\ Acknowledged(c, m, j) \in Journal
         /\ c.name = "WRITE" =>
              /\ Acknowledged(c, m, j).gone = j.gone
              /\ m => /\ Acknowledged(c, m, j).kept = j.kept \cup {c.arg}
                      /\ Acknowledged(c, m, j).open = j.open
              /\ ~m => /\ Acknowledged(c, m, j).kept = j.kept
                       /\ Acknowledged(c, m, j).open = j.open \cup {c.arg}
         /\ c.name = "COMMIT" \/ (c.name = "SET autocommit" /\ c.arg = "1") =>
              /\ Acknowledged(c, m, j).kept = j.kept \cup j.open
              /\ Acknowledged(c, m, j).gone = j.gone /\ Acknowledged(c, m, j).open = {}
         /\ c.name = "ROLLBACK" =>
              /\ Acknowledged(c, m, j).gone = j.gone \cup j.open
              /\ Acknowledged(c, m, j).kept = j.kept /\ Acknowledged(c, m, j).open = {}
         /\ c.name \in OtherNames \/ (c.name = "SET autocommit" /\ c.arg # "1") =>
              Acknowledged(c, m, j) = j
<1>0. j.open \subseteq Rows /\ j.kept \subseteq Rows /\ j.gone \subseteq Rows
  BY DEF Journal
<1>1. CASE c.name = "WRITE"
  <2>1. c.arg \in Rows
    BY <1>1 DEF Commands, OtherNames
  <2>2. Acknowledged(c, m, j) = IF m THEN [j EXCEPT !.kept = @ \cup {c.arg}]
                                     ELSE [j EXCEPT !.open = @ \cup {c.arg}]
    BY <1>1 DEF Acknowledged
  <2> QED
    BY <1>0, <1>1, <2>1, <2>2 DEF Journal, OtherNames
<1>2. CASE c.name = "COMMIT"
  BY <1>0, <1>2 DEF Acknowledged, Journal, OtherNames
<1>3. CASE c.name = "ROLLBACK"
  BY <1>0, <1>3 DEF Acknowledged, Journal, OtherNames
<1>4. CASE c.name = "SET autocommit"
  BY <1>0, <1>4 DEF Acknowledged, Journal, OtherNames
<1>5. CASE c.name \in OtherNames
  BY <1>0, <1>5 DEF Acknowledged, OtherNames
<1> QED
  BY <1>1, <1>2, <1>3, <1>4, <1>5 DEF Commands

LEMMA DoubtedFields ==
  ASSUME NEW j \in Journal
  PROVE  /\ Doubted(j) \in Journal /\ Doubted(j).open = {}
         /\ Doubted(j).kept = j.kept /\ Doubted(j).gone = j.gone
BY DEF Doubted, Journal

-----------------------------------------------------------------------------
LEMMA InitHolds == Init => IInv
<1> SUFFICES ASSUME Init PROVE IInv
  OBVIOUS
<1>1. /\ store \in Store /\ store.durable = {} /\ store.tentative = {} /\ store.autocommit = TRUE
      /\ journal \in Journal /\ journal.open = {} /\ journal.kept = {} /\ journal.gone = {}
      /\ request.phase = "none" /\ request.cmd = NoCommand
      /\ request \in [phase : Phases, cmd : Commands \cup {NoCommand}]
      /\ mode = TRUE /\ linked = TRUE
  BY DEF Init, FreshStore, Store, NoJournal, Journal, NoRequest, Phases
<1> QED
  BY <1>1 DEF IInv, TypeOK, ModeInv, LinkInv, RowInv, OpenInv, OpenTentative

LEMMA NoRequestFields ==
  /\ NoRequest \in [phase : Phases, cmd : Commands \cup {NoCommand}]
  /\ NoRequest.phase = "none"
BY DEF NoRequest, Phases

LEMMA IssuePreserves ==
  ASSUME IInv, NEW c \in Commands, Issue(c)
  PROVE  IInv'
<1>1. /\ request' \in [phase : Phases, cmd : Commands \cup {NoCommand}]
      /\ request'.phase = "issued" /\ request'.cmd = c
      /\ request.phase = "none" /\ linked /\ Allowed(c)
      /\ UNCHANGED <<store, mode, linked, journal>>
  BY DEF Issue, Phases
<1>2. c.name = "WRITE" => c.arg \in Rows \ (store.durable \cup store.tentative \cup journal.gone)
  BY <1>1 DEF Allowed, OtherNames
<1>3. TypeOK' /\ ModeInv' /\ LinkInv'
  BY <1>1 DEF IInv, TypeOK, ModeInv, LinkInv, Is
<1>4. RowInv' /\ OpenInv'
  BY <1>1, <1>2 DEF IInv, RowInv, OpenInv, OpenTentative, Is
<1> QED
  BY <1>3, <1>4 DEF IInv

(* What becomes of a request the server has taken up.                      *)
LEMMA TakenUp ==
  ASSUME IInv, request.phase \in {"issued", "abandoned"}, NEW phase \in {"performed", "refused"},
         request' = IF request.phase = "issued" THEN [request EXCEPT !.phase = phase]
                                                ELSE NoRequest
  PROVE  /\ request' \in [phase : Phases, cmd : Commands \cup {NoCommand}]
         /\ request.cmd \in Commands
         /\ linked => request'.phase = phase /\ request'.cmd = request.cmd
         /\ ~linked => request'.phase = "none"
<1>1. request.cmd \in Commands /\ (linked <=> request.phase = "issued")
  BY DEF IInv, LinkInv
<1> QED
  BY <1>1, NoRequestFields DEF IInv, TypeOK, Phases

LEMMA PerformPreserves == IInv /\ Perform => IInv'
<1> SUFFICES ASSUME IInv, Perform PROVE IInv'
  OBVIOUS
<1> DEFINE c == request.cmd
<1>1. /\ request.phase \in {"issued", "abandoned"} /\ store' = Effect(c, store)
      /\ request' = IF request.phase = "issued" THEN [request EXCEPT !.phase = "performed"]
                                                ELSE NoRequest
      /\ UNCHANGED <<mode, linked, journal>>
  BY DEF Perform
<1>2. /\ request' \in [phase : Phases, cmd : Commands \cup {NoCommand}] /\ c \in Commands
      /\ linked => request'.phase = "performed" /\ request'.cmd = c
      /\ ~linked => request'.phase = "none"
      /\ linked => request.phase = "issued"
  BY <1>1, TakenUp DEF IInv, LinkInv
<1>3. store \in Store /\ store' \in Store
  BY <1>1, <1>2, EffectFields DEF IInv, TypeOK
<1>4. c.name \in {"WRITE", "COMMIT", "ROLLBACK", "SET autocommit"} \cup OtherNames
      /\ (c.name = "SET autocommit" => c.arg \in {"0", "1"})
  BY <1>2 DEF Commands, OtherNames
<1>5. TypeOK' /\ LinkInv'
  BY <1>1, <1>2, <1>3 DEF IInv, TypeOK, LinkInv
<1> HIDE DEF c
<1>6. ModeInv' /\ RowInv' /\ OpenInv'
  <2>0. /\ store.durable \cap store.tentative = {} /\ journal.kept \subseteq store.durable
        /\ journal.gone \cap (store.durable \cup store.tentative) = {}
        /\ linked => journal.open \subseteq store.tentative
        /\ linked => store.autocommit = mode
        /\ store.autocommit => store.tentative = {}
        /\ c.name = "WRITE" => c.arg \in Rows \ (store.durable \cup store.tentative \cup journal.gone)
        /\ store.autocommit \in BOOLEAN /\ mode \in BOOLEAN /\ linked \in BOOLEAN
    BY <1>1, <1>2, <1>3
       DEF IInv, RowInv, ModeInv, OpenInv, OpenTentative, Is, c, TypeOK, Store
  <2>1. /\ store'.durable \cap store'.tentative = {}
        /\ journal.kept \subseteq store'.durable
        /\ journal.gone \cap (store'.durable \cup store'.tentative) = {}
        /\ store'.autocommit => store'.tentative = {}
        /\ store'.autocommit = IF c.name = "SET autocommit" THEN c.arg = "1" ELSE store.autocommit
        /\ c.name = "COMMIT" => store.tentative \subseteq store'.durable
        /\ c.name = "ROLLBACK" => store'.tentative = {} /\ store'.durable = store.durable
        /\ c.name = "SET autocommit" => IF c.arg = "1" THEN store.tentative \subseteq store'.durable
                                         ELSE store'.tentative = store.tentative
        /\ c.name = "WRITE" =>
             /\ store.tentative \subseteq store'.tentative
             /\ c.arg \in IF store.autocommit THEN store'.durable ELSE store'.tentative
        /\ c.name \in OtherNames => store'.tentative = store.tentative
    <3>0. store' = Effect(c, store) /\ c \in Commands /\ store \in Store
      BY <1>1, <1>2, <1>3 DEF c
    <3>1. CASE c.name = "WRITE"
      <4>1. /\ store'.autocommit = store.autocommit
            /\ store.autocommit => /\ store'.durable = store.durable \cup {c.arg}
                                   /\ store'.tentative = store.tentative
            /\ ~store.autocommit => /\ store'.durable = store.durable
                                    /\ store'.tentative = store.tentative \cup {c.arg}
        BY <3>0, <3>1, EffectFields
      <4> QED
        BY <2>0, <3>1, <4>1 DEF OtherNames
    <3>2. CASE c.name = "COMMIT"
      <4>1. store'.durable = store.durable \cup store.tentative /\ store'.tentative = {}
        BY <3>0, <3>2 DEF Effect, Committed, Store
      <4>2. store'.autocommit = store.autocommit
        <5>1. c.name \in {"COMMIT", "ROLLBACK"}
          BY <3>2
        <5> QED
          BY <3>0, <5>1, EffectFields, Zenon
      <4> QED
        BY <2>0, <3>2, <4>1, <4>2 DEF OtherNames
    <3>3. CASE c.name = "ROLLBACK"
      <4>1. store'.durable = store.durable /\ store'.tentative = {}
        BY <3>0, <3>3 DEF Effect, RolledBack, Store
      <4>2. store'.autocommit = store.autocommit
        <5>1. c.name \in {"COMMIT", "ROLLBACK"}
          BY <3>3
        <5> QED
          BY <3>0, <5>1, EffectFields, Zenon
      <4> QED
        BY <2>0, <3>3, <4>1, <4>2 DEF OtherNames
    <3>4. CASE c.name = "SET autocommit" /\ c.arg = "1"
      <4>1. store'.durable = store.durable \cup store.tentative /\ store'.tentative = {}
        BY <3>0, <3>4, EffectFields
      <4>2. store'.autocommit = (c.arg = "1")
        BY <3>0, <3>4, EffectFields, Zenon
      <4>3. c.name \notin {"COMMIT", "ROLLBACK", "WRITE"} \cup OtherNames
        BY <3>4 DEF OtherNames
      <4>4. store'.autocommit = IF c.name = "SET autocommit" THEN c.arg = "1" ELSE store.autocommit
        BY <3>4, <4>2, Zenon
      <4>5. /\ store'.durable \cap store'.tentative = {}
            /\ journal.kept \subseteq store'.durable
            /\ journal.gone \cap (store'.durable \cup store'.tentative) = {}
            /\ store.tentative \subseteq store'.durable
        BY <2>0, <4>1
      <4> QED
        BY <3>4, <4>1, <4>3, <4>4, <4>5
    <3>5. CASE c.name = "SET autocommit" /\ c.arg # "1"
      <4>1. store'.durable = store.durable /\ store'.tentative = store.tentative
        BY <3>0, <3>5, EffectFields
      <4>2. store'.autocommit = (c.arg = "1")
        BY <3>0, <3>5, EffectFields, Zenon
      <4>3. c.name \notin {"COMMIT", "ROLLBACK", "WRITE"} \cup OtherNames
        BY <3>5 DEF OtherNames
      <4>4. store'.autocommit = IF c.name = "SET autocommit" THEN c.arg = "1" ELSE store.autocommit
        BY <3>5, <4>2, Zenon
      <4>5. ~store'.autocommit
        BY <3>5, <4>2
      <4> QED
        BY <2>0, <3>5, <4>1, <4>3, <4>4, <4>5
    <3>6. CASE c.name \in OtherNames
      <4>1. store' = store
        BY <3>0, <3>6, EffectFields
      <4> QED
        BY <2>0, <3>6, <4>1 DEF OtherNames
    <3> QED
      BY <1>4, <3>1, <3>2, <3>3, <3>4, <3>5, <3>6
  <2>2. ModeInv'
    BY <1>1, <1>2, <2>0, <2>1 DEF ModeInv, Is
  <2>3. RowInv'
    BY <1>1, <1>2, <2>0, <2>1 DEF RowInv
  <2>4. OpenInv'
    BY <1>1, <1>2, <1>4, <2>0, <2>1 DEF OpenInv, OpenTentative, Is, OtherNames
  <2> QED
    BY <2>2, <2>3, <2>4
<1> QED
  BY <1>5, <1>6 DEF IInv

LEMMA RefusePreserves == IInv /\ Refuse => IInv'
<1> SUFFICES ASSUME IInv, Refuse PROVE IInv'
  OBVIOUS
<1>1. /\ request.phase \in {"issued", "abandoned"}
      /\ store' = store \/ (MayAbort(request.cmd) /\ store' = RolledBack(store))
      /\ request' = IF request.phase = "issued" THEN [request EXCEPT !.phase = "refused"]
                                                ELSE NoRequest
      /\ UNCHANGED <<mode, linked, journal>>
  BY DEF Refuse
<1>2. /\ request' \in [phase : Phases, cmd : Commands \cup {NoCommand}] /\ request.cmd \in Commands
      /\ linked => request'.phase = "refused" /\ request'.cmd = request.cmd
      /\ ~linked => request'.phase = "none"
      /\ linked => request.phase = "issued"
  BY <1>1, TakenUp DEF IInv, LinkInv
<1>3. /\ store' \in Store /\ store'.durable = store.durable
      /\ store'.autocommit = store.autocommit /\ store'.tentative \subseteq store.tentative
      /\ ~MayAbort(request.cmd) => store' = store
  <2>1. CASE store' = store
    BY <2>1 DEF IInv, TypeOK
  <2>2. CASE MayAbort(request.cmd) /\ store' = RolledBack(store)
    BY <2>2, RolledBackFields DEF IInv, TypeOK
  <2> QED
    BY <1>1, <2>1, <2>2
<1>4. TypeOK' /\ LinkInv'
  BY <1>1, <1>2, <1>3 DEF IInv, TypeOK, LinkInv
<1>5. ModeInv'
  <2>1. /\ linked => store.autocommit = mode
        /\ store.autocommit => store.tentative = {}
    BY <1>2 DEF IInv, ModeInv
  <2> QED
    BY <1>1, <1>2, <1>3, <2>1 DEF ModeInv
<1>6. OpenInv'
  BY <1>1, <1>2, <1>3 DEF IInv, OpenInv, OpenTentative, MayAbort
<1>7. RowInv'
  BY <1>1, <1>2, <1>3 DEF IInv, RowInv
<1> QED
  BY <1>4, <1>5, <1>6, <1>7 DEF IInv

LEMMA AcknowledgePreserves == IInv /\ Acknowledge => IInv'
<1> SUFFICES ASSUME IInv, Acknowledge PROVE IInv'
  OBVIOUS
<1> DEFINE c == request.cmd
<1>1. /\ linked /\ request.phase = "performed" /\ journal' = Acknowledged(c, mode, journal)
      /\ mode' = ModeAfter(c, mode) /\ request' = NoRequest
      /\ UNCHANGED <<store, linked>>
      /\ c \in Commands /\ journal \in Journal /\ mode \in BOOLEAN /\ store \in Store
  BY DEF Acknowledge, IInv, TypeOK, LinkInv
<1>2. c.name \in {"WRITE", "COMMIT", "ROLLBACK", "SET autocommit"} \cup OtherNames
  BY <1>1 DEF Commands, OtherNames
<1>3. journal' \in Journal /\ mode' \in BOOLEAN /\ request'.phase = "none"
  BY <1>1, AcknowledgedFields, NoRequestFields DEF ModeAfter
<1>4. TypeOK' /\ LinkInv' /\ ModeInv'
  BY <1>1, <1>3, NoRequestFields DEF IInv, TypeOK, LinkInv, ModeInv, ModeAfter, Is
<1>5. /\ journal'.kept \subseteq store.durable
      /\ journal'.gone \cap (store.durable \cup store.tentative) = {}
      /\ journal'.open \subseteq store.tentative
  <2>0. /\ journal.kept \subseteq store.durable
        /\ journal.gone \cap (store.durable \cup store.tentative) = {}
    BY DEF IInv, RowInv
  <2> HIDE DEF c
  <2>1. CASE c.name = "WRITE"
    <3>1. /\ journal'.gone = journal.gone
          /\ mode => journal'.kept = journal.kept \cup {c.arg} /\ journal'.open = journal.open
          /\ ~mode => journal'.kept = journal.kept /\ journal'.open = journal.open \cup {c.arg}
      BY <1>1, <2>1, AcknowledgedFields
    <3>2. /\ journal.open \subseteq store.tentative
          /\ c.arg \in IF mode THEN store.durable ELSE store.tentative
      BY <1>1, <2>1 DEF IInv, OpenInv, OpenTentative, Is, c
    <3> QED
      BY <1>1, <2>0, <3>1, <3>2
  <2>2. CASE c.name = "COMMIT" \/ (c.name = "SET autocommit" /\ c.arg = "1")
    <3>1. journal'.kept = journal.kept \cup journal.open /\ journal'.gone = journal.gone
          /\ journal'.open = {}
      BY <1>1, <2>2, AcknowledgedFields
    <3>2. journal.open \subseteq store.durable
      BY <1>1, <2>2 DEF IInv, OpenInv, Is, c
    <3> QED
      BY <2>0, <3>1, <3>2
  <2>3. CASE c.name = "ROLLBACK"
    <3>1. journal'.kept = journal.kept /\ journal'.gone = journal.gone \cup journal.open
          /\ journal'.open = {}
      BY <1>1, <2>3, AcknowledgedFields
    <3>2. journal.open \cap (store.durable \cup store.tentative) = {}
      BY <1>1, <2>3 DEF IInv, OpenInv, Is, c
    <3> QED
      BY <2>0, <3>1, <3>2
  <2>4. CASE c.name \in OtherNames \/ (c.name = "SET autocommit" /\ c.arg # "1")
    <3>1. journal' = journal
      BY <1>1, <2>4, AcknowledgedFields
    <3>2. journal.open \subseteq store.tentative
      BY <1>1, <2>4 DEF IInv, OpenInv, OpenTentative, Is, c
    <3> QED
      BY <2>0, <3>1, <3>2
  <2> QED
    BY <1>2, <2>1, <2>2, <2>3, <2>4
<1>6. RowInv' /\ OpenInv'
  BY <1>1, <1>3, <1>5 DEF IInv, RowInv, OpenInv, OpenTentative
<1> QED
  BY <1>4, <1>6 DEF IInv

LEMMA DenyPreserves == IInv /\ Deny => IInv'
<1> SUFFICES ASSUME IInv, Deny PROVE IInv'
  OBVIOUS
<1>1. /\ linked /\ request.phase = "refused" /\ request' = NoRequest
      /\ journal' = IF MayAbort(request.cmd) THEN Doubted(journal) ELSE journal
      /\ UNCHANGED <<store, mode, linked>>
  BY DEF Deny
<1>2. /\ journal' \in Journal /\ journal'.kept = journal.kept /\ journal'.gone = journal.gone
      /\ journal'.open \subseteq store.tentative /\ request'.phase = "none"
  BY <1>1, DoubtedFields, NoRequestFields DEF IInv, TypeOK, OpenInv, OpenTentative
<1>3. TypeOK' /\ LinkInv' /\ ModeInv'
  BY <1>1, <1>2, NoRequestFields DEF IInv, TypeOK, LinkInv, ModeInv
<1>4. RowInv' /\ OpenInv'
  BY <1>1, <1>2 DEF IInv, RowInv, OpenInv, OpenTentative
<1> QED
  BY <1>3, <1>4 DEF IInv

LEMMA SeverPreserves == IInv /\ Sever => IInv'
<1> SUFFICES ASSUME IInv, Sever PROVE IInv'
  OBVIOUS
<1>1. /\ linked /\ linked' = FALSE /\ journal' = Doubted(journal)
      /\ request' = IF request.phase = "issued" THEN [request EXCEPT !.phase = "abandoned"]
                                                ELSE NoRequest
      /\ UNCHANGED <<store, mode>>
  BY DEF Sever
<1>2. /\ journal' \in Journal /\ journal'.kept = journal.kept /\ journal'.gone = journal.gone
      /\ journal'.open = {}
  BY <1>1, DoubtedFields DEF IInv, TypeOK
<1>3. /\ request' \in [phase : Phases, cmd : Commands \cup {NoCommand}]
      /\ request'.phase \in {"none", "abandoned"}
      /\ request'.phase = "abandoned" => request.phase = "issued" /\ request'.cmd = request.cmd
  BY <1>1, NoRequestFields DEF IInv, TypeOK, Phases
<1>4. TypeOK' /\ LinkInv' /\ ModeInv'
  BY <1>1, <1>2, <1>3 DEF IInv, TypeOK, LinkInv, ModeInv
<1>5. RowInv' /\ OpenInv'
  BY <1>1, <1>2, <1>3 DEF IInv, RowInv, OpenInv, Is
<1> QED
  BY <1>4, <1>5 DEF IInv

LEMMA EndPreserves == IInv /\ End => IInv'
<1> SUFFICES ASSUME IInv, End PROVE IInv'
  OBVIOUS
<1>1. /\ ~linked /\ store' = RolledBack(store) /\ request' = NoRequest
      /\ UNCHANGED <<mode, linked, journal>>
  BY DEF End
<1>2. /\ store' \in Store /\ store'.durable = store.durable /\ store'.tentative = {}
      /\ store'.autocommit = store.autocommit /\ request'.phase = "none"
  BY <1>1, RolledBackFields, NoRequestFields DEF IInv, TypeOK
<1>3. TypeOK' /\ LinkInv' /\ ModeInv'
  BY <1>1, <1>2, NoRequestFields DEF IInv, TypeOK, LinkInv, ModeInv
<1>4. RowInv' /\ OpenInv'
  BY <1>1, <1>2 DEF IInv, RowInv, OpenInv
<1> QED
  BY <1>3, <1>4 DEF IInv

LEMMA StepHolds == IInv /\ [Next]_vars => IInv'
<1> SUFFICES ASSUME IInv, [Next]_vars PROVE IInv'
  OBVIOUS
<1>1. CASE UNCHANGED vars
  BY <1>1 DEF vars, IInv, TypeOK, ModeInv, LinkInv, RowInv, OpenInv, OpenTentative, Is
<1> QED
  BY <1>1, IssuePreserves, PerformPreserves, RefusePreserves, AcknowledgePreserves,
     DenyPreserves, SeverPreserves, EndPreserves DEF Next

(* Every behaviour of the abstract connection keeps the invariant.         *)
THEOREM TransactionsInvariant == Spec => []IInv
<1>1. IInv /\ [Next]_vars => IInv'
  BY StepHolds
<1> QED
  BY InitHolds, <1>1, PTL DEF Spec

(* Whatever is refused, lost or performed late: rows the application was   *)
(* told are committed are durable, rows it was told are rolled back never  *)
(* become so.                                                              *)
THEOREM PromisesKept == Spec => []Promises
<1>1. IInv => Promises
  BY DEF IInv, RowInv, Promises
<1> QED
  BY TransactionsInvariant, <1>1, PTL
=============================================================================
