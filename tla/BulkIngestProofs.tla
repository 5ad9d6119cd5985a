-------------------------- MODULE BulkIngestProofs --------------------------
(***************************************************************************)
(* Proofs about BulkIngest: for every number of placeholders, default      *)
(* batch size, option value and schema, and any number of ingests.         *)
(*                                                                         *)
(* The invariants of the module are about the end of an ingest or about    *)
(* the tables alone.  The inductive invariant adds what holds in between:  *)
(* what is fixed once an ingest has begun (Begun), that the rows sent are  *)
(* in the table INSERT means (SentLanded), what the statements before the  *)
(* first batch have done (Progress), and that the tables a ROLLBACK would  *)
(* bring back are as orderly as the ones seen (Orderly of saved).          *)
(***************************************************************************)
EXTENDS BulkIngest, TLAPS

Kinds     == {"perm", "temp"}
Table     == [exists : BOOLEAN, rows : SUBSET Int]
TablesType == [perm : Table, temp : Table]
Steps     == {"idle", "drop", "create", "size", "batch"}

IngestType ==
  [pc : Steps, mode : Modes \cup {"none"}, temporary : BOOLEAN, cols : Nat, rows : Nat,
   base : Nat, sent : Nat]

AnswerType ==
  [status : {"none", "OK", "IO", "INVALID_ARGUMENT"}, mode : Modes \cup {"none", "unknown"},
   temporary : BOOLEAN, rows : SUBSET Int, aborted : BOOLEAN]

Typed ==
  /\ tables \in TablesType /\ saved \in TablesType
  /\ before \in TablesType /\ committed \in TablesType
  /\ autocommit \in BOOLEAN /\ connected \in BOOLEAN
  /\ size \in Nat
  /\ ingest \in IngestType /\ ingest.sent <= ingest.rows
  /\ ingests \in 0 .. MaxIngests
  /\ answer \in AnswerType

(* A table that does not exist has no rows, and no gaps.                   *)
Orderly(t) ==
  \A k \in Kinds :
    /\ ~t[k].exists => t[k].rows = {}
    /\ \A r \in t[k].rows : r > 0 /\ (r - 1) % MaxRows # 0 => r - 1 \in t[k].rows

AllOrderly == Orderly(tables) /\ Orderly(saved) /\ Orderly(before)

(* What is fixed once an ingest has begun.                                 *)
Begun ==
  ingest.pc # "idle" =>
    /\ ingest.cols \in 1 .. MaxPlaceholders
    /\ ingest.mode \in Modes
    /\ ingest.base % MaxRows = 0
    /\ ingest.pc = "drop" => ingest.mode = "replace"
    /\ ingest.pc = "create" => ingest.mode # "append"
    /\ ingest.pc # "batch" => ingest.sent = 0
    /\ answer.status = "none"

SentLanded == ingest.pc = "batch" => Sent(ingest) \subseteq tables[Visible(tables)].rows

(* OtherTableMeant, of the ingest in progress.                             *)
OtherMeant ==
  IF ingest.temporary THEN ingest.mode = "append" /\ ~before.temp.exists
                      ELSE before.temp.exists

Old(k) == IF ingest.mode = "replace" THEN {} ELSE before[k].rows

(* What has become of table k, the one the ingest names.                   *)
ProgressOf(k) ==
  /\ \A j \in Kinds \ {k} : tables[j] = before[j]
  /\ ingest.pc = "drop" => tables[k] = before[k]
  /\ ingest.pc = "create" => tables[k] = IF ingest.mode = "replace" THEN Absent ELSE before[k]
  /\ ingest.pc \in {"size", "batch"} =>
       /\ ingest.mode = "create" => ~before[k].exists
       /\ tables[k] = [exists |-> ingest.mode # "append" \/ before[k].exists,
                       rows |-> Old(k) \cup Sent(ingest)]

Progress == ingest.pc # "idle" /\ ~OtherMeant => ProgressOf(Kind(ingest.temporary))

IInv ==
  /\ Typed /\ AllOrderly /\ Begun /\ SentLanded /\ Progress
  /\ PlaceholderLimit /\ IngestLands

-----------------------------------------------------------------------------
(* Arithmetic of the batch size.                                           *)

LEMMA Division ==
  ASSUME NEW m \in Nat \ {0}, NEW c \in 1 .. m
  PROVE  m \div c \in Nat /\ m \div c >= 1 /\ (m \div c) * c <= m
OBVIOUS

LEMMA SmallerBatch ==
  ASSUME NEW m \in Nat, NEW q \in Nat, NEW c \in Nat, NEW a \in Nat, a <= q, q * c <= m
  PROVE  a * c <= m
OBVIOUS

LEMMA Multiple ==
  ASSUME NEW m \in Nat \ {0}, NEW n \in Nat
  PROVE  n * m \in Nat /\ (n * m) % m = 0
OBVIOUS

(* The batch size holds a row and fits, for every option value.            *)
LEMMA BatchSizeFits ==
  ASSUME NEW asked \in Nat, NEW cols \in 1 .. MaxPlaceholders
  PROVE  /\ BatchSize(asked, cols) \in Nat
         /\ BatchSize(asked, cols) >= 1
         /\ BatchSize(asked, cols) * cols <= MaxPlaceholders
<1> DEFINE q == MaxPlaceholders \div cols
           b == BatchSize(asked, cols)
<1>1. q \in Nat /\ q >= 1 /\ q * cols <= MaxPlaceholders /\ MaxPlaceholders \in Nat /\ cols \in Nat
  BY Division, IngestAssumption
<1>2. b \in Nat /\ b >= 1 /\ b <= q
  BY <1>1, IngestAssumption DEF BatchSize, Least
<1> HIDE DEF q, b
<1>3. b * cols <= MaxPlaceholders
  BY <1>1, <1>2, SmallerBatch
<1> QED
  BY <1>2, <1>3 DEF b

-----------------------------------------------------------------------------
(* Tables: two are equal if they are for both kinds, and the effects of    *)
(* the statements kind by kind.                                            *)

LEMMA SameTables ==
  ASSUME NEW t \in TablesType, NEW u \in TablesType, t.perm = u.perm, t.temp = u.temp
  PROVE  t = u
BY DEF TablesType

LEMMA Fields ==
  ASSUME NEW t \in TablesType
  PROVE  /\ t["perm"] = t.perm /\ t["temp"] = t.temp
         /\ \A k \in Kinds : t[k] \in Table /\ t[k].exists \in BOOLEAN /\ t[k].rows \subseteq Int
         /\ Visible(t) \in Kinds
BY DEF TablesType, Table, Kinds, Visible

(* Table k of u is x, the other one is that of t.                          *)
Becomes(u, t, k, x) ==
  u \in TablesType /\ u[k] = x /\ \A j \in Kinds \ {k} : u[j] = t[j]

LEMMA Replaced ==
  ASSUME NEW t \in TablesType, NEW k \in Kinds, NEW x \in Table
  PROVE  Becomes([t EXCEPT ![k] = x], t, k, x)
BY DEF TablesType, Kinds, Becomes

LEMMA DropIs ==
  ASSUME NEW t \in TablesType, NEW b \in BOOLEAN
  PROVE  Becomes(DropEffect(t, b), t, IF b THEN "temp" ELSE Visible(t), Absent)
<1>1. Absent \in Table /\ (IF b THEN "temp" ELSE Visible(t)) \in Kinds
  BY Fields DEF Absent, Table, Kinds
<1> QED
  BY <1>1, Replaced DEF DropEffect

LEMMA CreateIs ==
  ASSUME NEW t \in TablesType, NEW b \in BOOLEAN
  PROVE  Becomes(CreateEffect(t, b), t, Kind(b), IF t[Kind(b)].exists THEN t[Kind(b)] ELSE Empty)
<1>1. Empty \in Table /\ Kind(b) \in Kinds
  BY DEF Empty, Table, Kind, Kinds
<1>2. (IF t[Kind(b)].exists THEN t[Kind(b)] ELSE Empty) \in Table
  BY <1>1, Fields
<1> QED
  BY <1>1, <1>2, Replaced DEF CreateEffect

LEMMA InsertIs ==
  ASSUME NEW t \in TablesType, NEW rows \in SUBSET Int
  PROVE  Becomes(InsertEffect(t, rows), t, Visible(t),
                 [exists |-> t[Visible(t)].exists, rows |-> t[Visible(t)].rows \cup rows])
<1>1. ASSUME NEW y \in Table
      PROVE  /\ [exists |-> y.exists, rows |-> y.rows \cup rows] \in Table
             /\ [y EXCEPT !.rows = y.rows \cup rows]
                  = [exists |-> y.exists, rows |-> y.rows \cup rows]
  BY DEF Table
<1>2. Visible(t) \in Kinds /\ t[Visible(t)] \in Table
  BY Fields
<1>3. InsertEffect(t, rows) =
        [t EXCEPT ![Visible(t)] = [t[Visible(t)] EXCEPT !.rows = t[Visible(t)].rows \cup rows]]
  BY DEF InsertEffect
<1> DEFINE x == [exists |-> t[Visible(t)].exists, rows |-> t[Visible(t)].rows \cup rows]
<1>4. InsertEffect(t, rows) = [t EXCEPT ![Visible(t)] = x] /\ x \in Table
  BY <1>1, <1>2, <1>3
<1> HIDE DEF x
<1>5. Becomes([t EXCEPT ![Visible(t)] = x], t, Visible(t), x)
  BY <1>2, <1>4, Replaced
<1> QED
  BY <1>4, <1>5 DEF x

-----------------------------------------------------------------------------
(* A table in order keeps Orderly.                                         *)
LEMMA OrderlyBecomes ==
  ASSUME NEW t \in TablesType, Orderly(t), NEW k \in Kinds, NEW x, NEW u, Becomes(u, t, k, x),
         ~x.exists => x.rows = {},
         \A r \in x.rows : r > 0 /\ (r - 1) % MaxRows # 0 => r - 1 \in x.rows
  PROVE  u \in TablesType /\ Orderly(u)
<1>1. ASSUME NEW j \in Kinds
      PROVE  /\ ~u[j].exists => u[j].rows = {}
             /\ \A r \in u[j].rows : r > 0 /\ (r - 1) % MaxRows # 0 => r - 1 \in u[j].rows
  <2>1. CASE j = k
    BY <2>1 DEF Becomes
  <2>2. CASE j # k
    BY <2>2 DEF Becomes, Orderly
  <2> QED
    BY <2>1, <2>2
<1> QED
  BY <1>1 DEF Orderly, Becomes

LEMMA DropOrderly ==
  ASSUME NEW t \in TablesType, Orderly(t), NEW b \in BOOLEAN
  PROVE  DropEffect(t, b) \in TablesType /\ Orderly(DropEffect(t, b))
<1>1. (IF b THEN "temp" ELSE Visible(t)) \in Kinds
  BY Fields DEF Kinds
<1>2. ~Absent.exists => Absent.rows = {}
  BY DEF Absent
<1>3. Absent.rows = {}
  BY DEF Absent
<1> QED
  BY <1>1, <1>2, <1>3, DropIs, OrderlyBecomes

LEMMA CreateOrderly ==
  ASSUME NEW t \in TablesType, Orderly(t), NEW b \in BOOLEAN
  PROVE  CreateEffect(t, b) \in TablesType /\ Orderly(CreateEffect(t, b))
<1>1. Kind(b) \in Kinds
  BY DEF Kind, Kinds
<1> DEFINE x == IF t[Kind(b)].exists THEN t[Kind(b)] ELSE Empty
<1>2. /\ ~x.exists => x.rows = {}
      /\ \A r \in x.rows : r > 0 /\ (r - 1) % MaxRows # 0 => r - 1 \in x.rows
  BY <1>1 DEF Orderly, Empty
<1>3. Becomes(CreateEffect(t, b), t, Kind(b), x)
  BY CreateIs
<1> HIDE DEF x
<1> QED
  BY <1>1, <1>2, <1>3, OrderlyBecomes

(* Without a temporary table of that name.                                 *)
LEMMA WithoutTemp ==
  ASSUME NEW t \in TablesType, Orderly(t)
  PROVE  [t EXCEPT !.temp = Absent] \in TablesType /\ Orderly([t EXCEPT !.temp = Absent])
<1> DEFINE u == [t EXCEPT !.temp = Absent]
<1>1. u \in TablesType /\ u.temp = Absent /\ u.perm = t.perm
  BY DEF TablesType, Table, Absent
<1>2. u["temp"] = Absent /\ u["perm"] = t["perm"]
  BY <1>1, Fields
<1> HIDE DEF u
<1>3. \A j \in Kinds \ {"temp"} : u[j] = t[j]
  BY <1>2 DEF Kinds
<1>4. Becomes(u, t, "temp", Absent)
  BY <1>1, <1>2, <1>3 DEF Becomes
<1>5. "temp" \in Kinds /\ Absent.rows = {}
  BY DEF Kinds, Absent
<1>6. u \in TablesType /\ Orderly(u)
  BY <1>4, <1>5, OrderlyBecomes
<1> QED
  BY <1>6 DEF u

(* A table of t and one of u.                                              *)
LEMMA WithTempOf ==
  ASSUME NEW t \in TablesType, Orderly(t), NEW u \in TablesType, Orderly(u)
  PROVE  [t EXCEPT !.temp = u.temp] \in TablesType /\ Orderly([t EXCEPT !.temp = u.temp])
<1> DEFINE v == [t EXCEPT !.temp = u.temp]
<1>1. v \in TablesType /\ v.temp = u.temp /\ v.perm = t.perm
  BY DEF TablesType
<1>2. v["temp"] = u["temp"] /\ v["perm"] = t["perm"]
  BY <1>1, Fields
<1> HIDE DEF v
<1>3. Becomes(v, t, "temp", u["temp"])
  BY <1>1, <1>2 DEF Becomes, Kinds
<1>4. "temp" \in Kinds
  BY DEF Kinds
<1>5. v \in TablesType /\ Orderly(v)
  BY <1>3, <1>4, OrderlyBecomes DEF Orderly
<1> QED
  BY <1>5 DEF v

LEMMA DDLOrderly ==
  ASSUME Typed, AllOrderly, NEW effect \in TablesType, Orderly(effect), NEW b \in BOOLEAN,
         DDL(effect, b)
  PROVE  /\ tables' \in TablesType /\ Orderly(tables')
         /\ saved' \in TablesType /\ Orderly(saved')
BY WithTempOf DEF DDL, Typed, AllOrderly

-----------------------------------------------------------------------------
(* The rows a batch inserts continue those sent.                           *)
LEMMA BatchRowsType ==
  ASSUME Typed, PlaceholderLimit, ingest.pc = "batch", ingest.sent < ingest.rows
  PROVE  /\ BatchRows \in Nat /\ BatchRows >= 1 /\ ingest.sent + BatchRows <= ingest.rows
         /\ AfterBatch \in IngestType
         /\ AfterBatch.sent = ingest.sent + BatchRows
         /\ AfterBatch.pc = "batch" /\ AfterBatch.mode = ingest.mode
         /\ AfterBatch.temporary = ingest.temporary /\ AfterBatch.cols = ingest.cols
         /\ AfterBatch.rows = ingest.rows /\ AfterBatch.base = ingest.base
<1>1. BatchRows \in Nat /\ BatchRows >= 1 /\ ingest.sent + BatchRows <= ingest.rows
  BY DEF Typed, IngestType, PlaceholderLimit, BatchRows, Least
<1> QED
  BY <1>1 DEF Typed, IngestType, AfterBatch

LEMMA SentAfterBatch ==
  ASSUME Typed, PlaceholderLimit, ingest.pc = "batch", ingest.sent < ingest.rows
  PROVE  /\ Sent(AfterBatch) \subseteq Int /\ Sent(ingest) \subseteq Sent(AfterBatch)
         /\ Sent(AfterBatch) =
              Sent(ingest) \cup (ingest.base + ingest.sent + 1 .. ingest.base + ingest.sent + BatchRows)
<1>1. ingest.base \in Nat /\ ingest.sent \in Nat
  BY DEF Typed, IngestType
<1> QED
  BY <1>1, BatchRowsType DEF Sent

LEMMA InsertOrderly ==
  ASSUME Typed, AllOrderly, Begun, SentLanded, PlaceholderLimit,
         ingest.pc = "batch", ingest.sent < ingest.rows, InsertAccepted
  PROVE  Inserted \in TablesType /\ Orderly(Inserted)
<1> DEFINE k == Visible(tables)
           new == Sent(AfterBatch) \ Sent(ingest)
           x == [exists |-> tables[k].exists, rows |-> tables[k].rows \cup new]
<1>1. tables \in TablesType /\ k \in Kinds /\ tables[k].rows \subseteq Int
  BY Fields DEF Typed
<1>2. x.exists
  BY DEF InsertAccepted, InsertAllowed
<1>3. new \in SUBSET Int /\ Becomes(Inserted, tables, k, x)
  BY <1>1, SentAfterBatch, InsertIs DEF Inserted
<1>4. ASSUME NEW r \in x.rows, r > 0, (r - 1) % MaxRows # 0
      PROVE  r - 1 \in x.rows
  <2>1. CASE r \in tables[k].rows
    BY <1>1, <1>4, <2>1 DEF AllOrderly, Orderly
  <2>2. CASE r \in new
    <3>1. /\ ingest.base \in Nat /\ ingest.sent \in Nat /\ ingest.base % MaxRows = 0
          /\ BatchRows \in Nat
      BY BatchRowsType DEF Typed, IngestType, Begun
    <3>2. r \in Int /\ r >= ingest.base + ingest.sent + 1
          /\ r <= ingest.base + ingest.sent + BatchRows
      BY <2>2, <3>1, SentAfterBatch
    <3>3. CASE r = ingest.base + ingest.sent + 1
      <4>1. ingest.sent # 0
        BY <1>4, <3>1, <3>3
      <4>2. r - 1 \in Sent(ingest)
        BY <3>1, <3>3, <4>1 DEF Sent
      <4> QED
        BY <4>2 DEF SentLanded
    <3>4. CASE r # ingest.base + ingest.sent + 1
      <4>1. r - 1 \in ingest.base + ingest.sent + 1 .. ingest.base + ingest.sent + BatchRows
        BY <3>1, <3>2, <3>4
      <4>2. r - 1 \in new
        BY <3>1, <4>1, SentAfterBatch DEF Sent
      <4> QED
        BY <4>2
    <3> QED
      BY <3>3, <3>4
  <2> QED
    BY <2>1, <2>2
<1>5. ~x.exists => x.rows = {}
  BY <1>2
<1> HIDE DEF x, k
<1> QED
  BY <1>1, <1>3, <1>4, <1>5, OrderlyBecomes DEF AllOrderly

-----------------------------------------------------------------------------
LEMMA InitHolds == Init => IInv
<1> SUFFICES ASSUME Init PROVE IInv
  OBVIOUS
<1>1. tables \in TablesType /\ Orderly(tables)
  <2> DEFINE P == {Absent, [exists |-> TRUE, rows |-> {0}]}
             T == {Absent, [exists |-> TRUE, rows |-> {-1}]}
  <2>0. P \subseteq Table /\ T \subseteq Table
    BY DEF Table, Absent
  <2>2. tables \in [perm : P, temp : T]
    BY DEF Init
  <2>1. tables \in TablesType /\ tables.perm \in P /\ tables.temp \in T
    <3> HIDE DEF P, T
    <3> QED
      BY <2>0, <2>2 DEF TablesType
  <2>3. \A k \in Kinds : tables[k] \in {Absent, [exists |-> TRUE, rows |-> {0}],
                                         [exists |-> TRUE, rows |-> {-1}]}
    BY <2>1, Fields DEF Kinds
  <2> QED
    BY <2>1, <2>3 DEF Orderly, Absent
<1>2. Typed
  BY <1>1, IngestAssumption DEF Init, Typed, NoIngest, IngestType, Steps, NoAnswer, AnswerType
<1>3. AllOrderly
  BY <1>1 DEF Init, AllOrderly
<1>4. Begun /\ SentLanded /\ Progress /\ PlaceholderLimit
  BY DEF Init, NoIngest, Begun, SentLanded, Progress, PlaceholderLimit
<1>5. IngestLands
  BY DEF Init, NoAnswer, IngestLands
<1> QED
  BY <1>2, <1>3, <1>4, <1>5 DEF IInv

(* The type of the rows sent.                                              *)
LEMMA SentType ==
  ASSUME Typed
  PROVE  Sent(ingest) \subseteq Int
BY DEF Typed, IngestType, Sent

LEMMA ReturnsIs ==
  ASSUME Typed, NEW status \in {"OK", "IO"}, NEW aborted \in BOOLEAN, Returns(status, aborted)
  PROVE  /\ ingest' \in IngestType /\ ingest'.sent <= ingest'.rows /\ ingest'.pc = "idle"
         /\ answer' \in AnswerType
         /\ answer'.status = status /\ answer'.mode = ingest.mode
         /\ answer'.temporary = ingest.temporary /\ answer'.rows = Sent(ingest)
         /\ answer'.aborted = aborted
BY SentType DEF Typed, Returns, NoIngest, IngestType, Steps, AnswerType

(* An ingest ends with an error.                                           *)
LEMMA FailurePreserves ==
  ASSUME IInv, ingest.pc # "idle", NEW aborted \in BOOLEAN, Returns("IO", aborted),
         tables' \in TablesType, Orderly(tables'), saved' \in TablesType, Orderly(saved'),
         connected' \in BOOLEAN,
         UNCHANGED <<autocommit, size, ingests, before, committed>>
  PROVE  IInv'
<1>1. Typed' /\ AllOrderly'
  BY ReturnsIs DEF IInv, Typed, AllOrderly
<1>2. Begun' /\ SentLanded' /\ Progress' /\ PlaceholderLimit'
  BY ReturnsIs DEF IInv, Begun, SentLanded, Progress, PlaceholderLimit
<1>3. IngestLands'
  BY ReturnsIs DEF IInv, IngestLands
<1> QED
  BY <1>1, <1>2, <1>3 DEF IInv

LEMMA RefusedPreserves ==
  ASSUME IInv, ingest.pc # "idle", Refused
  PROVE  IInv'
<1>1. /\ Typed /\ AllOrderly /\ Returns("IO", FALSE)
      /\ UNCHANGED <<tables, connected, autocommit, size, ingests, before, committed>>
      /\ saved' \in {saved, tables}
  BY DEF IInv, Refused
<1> QED
  BY <1>1, FailurePreserves DEF Typed, AllOrderly

LEMMA ExecutedOrderly ==
  ASSUME IInv, ingest.pc = "batch" => ingest.sent < ingest.rows
  PROVE  Executed \in TablesType /\ Orderly(Executed)
<1>0. /\ Typed /\ AllOrderly /\ Begun /\ SentLanded /\ PlaceholderLimit
      /\ tables \in TablesType /\ Orderly(tables) /\ saved \in TablesType /\ Orderly(saved)
  BY DEF IInv, Typed, AllOrderly
<1>1. DropEffect(tables, FALSE) \in TablesType /\ Orderly(DropEffect(tables, FALSE))
  BY <1>0, DropOrderly
<1>2. CreateEffect(tables, FALSE) \in TablesType /\ Orderly(CreateEffect(tables, FALSE))
  BY <1>0, CreateOrderly
<1>3. ingest.pc = "batch" /\ InsertAccepted => Inserted \in TablesType /\ Orderly(Inserted)
  BY <1>0, InsertOrderly
<1> QED
  BY <1>0, <1>1, <1>2, <1>3 DEF Executed

LEMMA StatementFailsPreserves == IInv /\ StatementFails => IInv'
<1> SUFFICES ASSUME IInv, StatementFails PROVE IInv'
  OBVIOUS
<1>1. ingest.pc # "idle" /\ (ingest.pc = "batch" => ingest.sent < ingest.rows)
  BY DEF StatementFails
<1>2. CASE Refused
  BY <1>1, <1>2, RefusedPreserves
<1>4. CASE TransactionAborted
  BY <1>1, <1>4, FailurePreserves DEF TransactionAborted, IInv, Typed, AllOrderly
<1>3. ASSUME NEW s \in {saved, Executed, tables}, Returns("IO", FALSE), connected' = FALSE,
             tables' = [s EXCEPT !.temp = Absent], saved' = [s EXCEPT !.temp = Absent],
             UNCHANGED <<autocommit, size, ingests, before, committed>>
      PROVE  IInv'
  <2>1. s \in TablesType /\ Orderly(s)
    BY <1>1, ExecutedOrderly DEF IInv, Typed, AllOrderly
  <2>2. tables' \in TablesType /\ Orderly(tables') /\ saved' \in TablesType /\ Orderly(saved')
    BY <1>3, <2>1, WithoutTemp
  <2> QED
    BY <1>1, <1>3, <2>2, FailurePreserves
<1> QED
  BY <1>2, <1>3, <1>4 DEF StatementFails

(* An ingest is refused, or begins with the statement of its mode.         *)
LEMMA ExecuteBulkIngestPreserves ==
  ASSUME IInv, NEW mode \in Modes \cup {"unknown"}, NEW temporary \in BOOLEAN,
         NEW cols \in Columns, NEW rows \in 0 .. MaxRows, NEW maxQuerySize \in BOOLEAN,
         ExecuteBulkIngest(mode, temporary, cols, rows, maxQuerySize)
  PROVE  IInv'
<1>0. /\ Typed /\ ingest.pc = "idle" /\ ingests < MaxIngests /\ ingests' = ingests + 1
      /\ before' = tables /\ committed' = saved
      /\ UNCHANGED <<tables, saved, autocommit, connected, size>>
      /\ cols \in Nat /\ rows \in Nat
  BY IngestAssumption DEF IInv, ExecuteBulkIngest
<1>1. AllOrderly'
  BY <1>0 DEF IInv, AllOrderly
<1>2. CASE maxQuerySize \/ ~ValidOptions(cols) \/ mode \notin Modes
  <2>1. /\ answer' = [status |-> Refusal(cols, maxQuerySize), mode |-> mode,
                      temporary |-> temporary, rows |-> {}, aborted |-> FALSE]
        /\ ingest' = ingest
    BY <1>2 DEF ExecuteBulkIngest
  <2>2. answer' \in AnswerType /\ answer'.status # "OK"
    BY <2>1 DEF AnswerType, Refusal
  <2>3. Typed'
    BY <1>0, <2>1, <2>2, IngestAssumption DEF Typed
  <2>4. Begun' /\ SentLanded' /\ Progress' /\ PlaceholderLimit' /\ IngestLands'
    BY <1>0, <2>1, <2>2 DEF Begun, SentLanded, Progress, PlaceholderLimit, IngestLands
  <2> QED
    BY <1>1, <2>3, <2>4 DEF IInv
<1>3. CASE ~(maxQuerySize \/ ~ValidOptions(cols) \/ mode \notin Modes)
  <2> DEFINE i == [pc |-> FirstStep(mode), mode |-> mode, temporary |-> temporary,
                   cols |-> cols, rows |-> rows, base |-> ingests * MaxRows, sent |-> 0]
  <2>1. ingest' = i /\ answer' = NoAnswer /\ mode \in Modes /\ ValidOptions(cols)
    BY <1>3 DEF ExecuteBulkIngest
  <2>2. ingests \in Nat /\ ingests * MaxRows \in Nat /\ (ingests * MaxRows) % MaxRows = 0
    BY <1>0, IngestAssumption, Multiple DEF Typed
  <2>3. /\ FirstStep(mode) \in {"drop", "create", "size"}
        /\ FirstStep(mode) = "drop" <=> mode = "replace"
        /\ FirstStep(mode) = "size" <=> mode = "append"
    BY <2>1 DEF FirstStep, Modes
  <2>4. ingest' \in IngestType /\ ingest'.sent <= ingest'.rows
    BY <1>0, <2>1, <2>2, <2>3 DEF IngestType, Steps
  <2>5. answer' \in AnswerType /\ answer'.status # "OK"
    BY <2>1 DEF NoAnswer, AnswerType
  <2>6. Typed'
    BY <1>0, <2>4, <2>5, IngestAssumption DEF Typed
  <2>7. Begun'
    BY <1>0, <2>1, <2>2, <2>3, IngestAssumption DEF Begun, ValidOptions, NoAnswer
  <2>8. SentLanded' /\ PlaceholderLimit' /\ IngestLands'
    BY <2>1, <2>3, <2>5 DEF SentLanded, PlaceholderLimit, IngestLands
  <2>9. Progress'
    <3> SUFFICES ASSUME NEW k \in Kinds PROVE ProgressOf(k)'
      BY <1>0, <2>1 DEF Progress, Kind, Kinds
    <3>1. tables' = tables /\ before' = tables /\ tables[k] \in Table
      BY <1>0, Fields DEF Typed
    <3>2. ingest'.mode = mode /\ ingest'.pc = FirstStep(mode) /\ Sent(ingest)' = {}
      BY <2>1, <2>2 DEF Sent
    <3>3. CASE mode = "append"
      <4>1. (mode # "append" \/ tables[k].exists) = tables[k].exists
        BY <1>0, <3>3, Fields DEF Typed
      <4>2. tables[k] = [exists |-> mode # "append" \/ tables[k].exists,
                         rows |-> tables[k].rows \cup {}]
        BY <3>1, <4>1 DEF Table
      <4> QED
        BY <2>3, <3>1, <3>2, <3>3, <4>2 DEF ProgressOf, Old
    <3>4. CASE mode # "append"
      BY <2>3, <3>1, <3>2, <3>4 DEF ProgressOf
    <3> QED
      BY <3>3, <3>4
  <2> QED
    BY <1>1, <2>6, <2>7, <2>8, <2>9 DEF IInv
<1> QED
  BY <1>2, <1>3

(* Goes leaves everything but the step alone.                              *)
LEMMA GoesIs ==
  ASSUME Typed, NEW pc \in Steps, Goes(pc)
  PROVE  /\ ingest' \in IngestType /\ ingest'.pc = pc
         /\ ingest'.mode = ingest.mode /\ ingest'.temporary = ingest.temporary
         /\ ingest'.cols = ingest.cols /\ ingest'.rows = ingest.rows
         /\ ingest'.base = ingest.base /\ ingest'.sent = ingest.sent
         /\ UNCHANGED <<autocommit, connected, size, ingests, before, committed, answer>>
BY DEF Typed, IngestType, Goes

(* The table an ingest means, if no other stands in the way.               *)
LEMMA MeantIsVisible ==
  ASSUME IInv, ingest.pc # "idle", ~OtherMeant, ingest.pc = "batch" \/ ~ingest.temporary,
         tables[Visible(tables)].exists \/ ~ingest.temporary
  PROVE  Visible(tables) = Kind(ingest.temporary)
<1>1. ProgressOf(Kind(ingest.temporary)) /\ Typed /\ Begun
  BY DEF IInv, Progress
<1>2. /\ tables["temp"] = tables.temp /\ before["temp"] = before.temp
      /\ before.temp.exists \in BOOLEAN /\ ingest.temporary \in BOOLEAN
  BY <1>1, Fields DEF Typed, IngestType, Kinds
<1>3. CASE ~ingest.temporary
  BY <1>1, <1>2, <1>3 DEF ProgressOf, OtherMeant, Kind, Kinds, Visible
<1>4. CASE ingest.temporary
  <2>1. tables["temp"].exists = (ingest.mode # "append" \/ before["temp"].exists)
    BY <1>1, <1>4 DEF ProgressOf, Kind
  <2> QED
    BY <1>2, <1>4, <2>1 DEF OtherMeant, Kind, Visible
<1> QED
  BY <1>3, <1>4

LEMMA dropTablePreserves == IInv /\ dropTable => IInv'
<1> SUFFICES ASSUME IInv, dropTable PROVE IInv'
  OBVIOUS
<1>0. /\ Typed /\ AllOrderly /\ Begun /\ ingest.pc = "drop" /\ ingest.mode = "replace"
      /\ ingest.sent = 0 /\ answer.status = "none"
      /\ tables \in TablesType /\ Orderly(tables) /\ ingest.temporary \in BOOLEAN
  BY DEF IInv, dropTable, Begun, Typed, AllOrderly, IngestType
<1>1. "create" \in Steps /\ Goes("create") /\ DDL(DropEffect(tables, ingest.temporary), ingest.temporary)
  BY DEF dropTable, Steps
<1>2. /\ tables' \in TablesType /\ Orderly(tables') /\ saved' \in TablesType /\ Orderly(saved')
      /\ tables' = DropEffect(tables, ingest.temporary)
  BY <1>0, <1>1, DropOrderly, DDLOrderly DEF DDL
<1>3. Typed' /\ AllOrderly'
  BY <1>0, <1>1, <1>2, GoesIs DEF Typed, AllOrderly
<1>4. Begun' /\ SentLanded' /\ PlaceholderLimit'
  BY <1>0, <1>1, GoesIs DEF Begun, SentLanded, PlaceholderLimit
<1>5. IngestLands'
  BY <1>0, <1>1, GoesIs DEF IngestLands
<1>6. Progress'
  <2> SUFFICES ASSUME NEW k \in Kinds, k = Kind(ingest.temporary), ~OtherMeant
               PROVE  ProgressOf(k)'
    BY <1>0, <1>1, GoesIs DEF Progress, OtherMeant, Kind, Kinds
  <2>1. (IF ingest.temporary THEN "temp" ELSE Visible(tables)) = k
    BY <1>0, MeantIsVisible DEF Kind
  <2>2. Becomes(tables', tables, k, Absent)
    BY <1>0, <1>2, <2>1, DropIs
  <2>3. ProgressOf(k)
    BY <1>0 DEF IInv, Progress
  <2> QED
    BY <1>0, <1>1, <2>2, <2>3, GoesIs DEF ProgressOf, Becomes
<1> QED
  BY <1>3, <1>4, <1>5, <1>6 DEF IInv

LEMMA createTablePreserves == IInv /\ createTable => IInv'
<1> SUFFICES ASSUME IInv, createTable PROVE IInv'
  OBVIOUS
<1>1. CASE Refused
  BY <1>1, RefusedPreserves DEF createTable
<1>2. CASE /\ CreateAccepted
           /\ DDL(CreateEffect(tables, ingest.temporary), ingest.temporary)
           /\ Goes("size")
  <2> DEFINE k == Kind(ingest.temporary)
             x == IF tables[k].exists THEN tables[k] ELSE Empty
  <2>0. /\ Typed /\ AllOrderly /\ Begun /\ ingest.pc = "create"
        /\ ingest.mode \in {"create", "create_append", "replace"}
        /\ ingest.sent = 0 /\ answer.status = "none"
        /\ tables \in TablesType /\ Orderly(tables) /\ Orderly(before)
        /\ before \in TablesType /\ ingest.temporary \in BOOLEAN
    BY DEF IInv, createTable, Begun, Typed, AllOrderly, IngestType, Modes
  <2>1. /\ tables' \in TablesType /\ Orderly(tables') /\ saved' \in TablesType /\ Orderly(saved')
        /\ tables' = CreateEffect(tables, ingest.temporary)
    BY <1>2, <2>0, CreateOrderly, DDLOrderly DEF DDL
  <2>2. k \in Kinds /\ Becomes(tables', tables, k, x)
    BY <2>0, <2>1, CreateIs DEF Kind, Kinds
  <2>3. /\ ingest' \in IngestType /\ ingest'.pc = "size" /\ ingest'.mode = ingest.mode
        /\ ingest'.temporary = ingest.temporary /\ ingest'.cols = ingest.cols
        /\ ingest'.rows = ingest.rows /\ ingest'.base = ingest.base /\ ingest'.sent = ingest.sent
        /\ UNCHANGED <<autocommit, connected, size, ingests, before, committed, answer>>
    BY <1>2, <2>0, GoesIs DEF Steps
  <2>4. Typed' /\ AllOrderly'
    BY <2>0, <2>1, <2>3 DEF Typed, AllOrderly
  <2>5. Begun' /\ SentLanded' /\ PlaceholderLimit' /\ IngestLands'
    BY <2>0, <2>3 DEF Begun, SentLanded, PlaceholderLimit, IngestLands
  <2>7. Progress'
    <3> SUFFICES ASSUME NEW n \in Kinds, n = k, ~OtherMeant PROVE ProgressOf(n)'
      BY <2>0, <2>3 DEF Progress, OtherMeant, Kind, Kinds
    <3>1. ProgressOf(n)
      BY <2>0 DEF IInv, Progress
    <3>2. /\ tables[n] = IF ingest.mode = "replace" THEN Absent ELSE before[n]
          /\ ingest.mode = "create" => ~tables[n].exists
      BY <1>2, <2>0, <3>1 DEF ProgressOf, CreateAccepted, CreateAllowed, ifNotExists
    <3>3. Sent(ingest)' = {}
      BY <2>0, <2>3 DEF Sent, IngestType
    <3>4. before[n] \in Table /\ (~before[n].exists => before[n].rows = {})
      BY <2>0, Fields DEF Orderly
    <3>5. tables'[n] = IF tables[n].exists THEN tables[n] ELSE Empty
      BY <2>2 DEF Becomes
    <3>6. tables'[n] = [exists |-> TRUE, rows |-> Old(n) \cup {}]
      <4>1. CASE ingest.mode = "replace"
        BY <3>2, <3>5, <4>1 DEF Old, Absent, Empty
      <4>2. CASE ingest.mode # "replace" /\ before[n].exists
        BY <3>2, <3>4, <3>5, <4>2 DEF Old, Table
      <4>3. CASE ingest.mode # "replace" /\ ~before[n].exists
        BY <3>2, <3>4, <3>5, <4>3 DEF Old, Empty
      <4> QED
        BY <4>1, <4>2, <4>3
    <3>7. \A j \in Kinds \ {n} : tables'[j] = before'[j]
      BY <2>2, <2>3, <3>1 DEF Becomes, ProgressOf
    <3>8. Old(n)' = Old(n) /\ (ingest'.mode # "append" \/ before'[n].exists) = TRUE
      BY <2>0, <2>3 DEF Old
    <3>9. ingest'.mode = "create" => ~before'[n].exists
      BY <2>0, <2>3, <3>2
    <3> QED
      BY <2>3, <3>3, <3>6, <3>7, <3>8, <3>9 DEF ProgressOf
  <2> QED
    BY <2>4, <2>5, <2>7 DEF IInv
<1> QED
  BY <1>1, <1>2 DEF createTable

LEMMA capBatchSizePreserves == IInv /\ capBatchSize => IInv'
<1> SUFFICES ASSUME IInv, capBatchSize PROVE IInv'
  OBVIOUS
<1>0. /\ Typed /\ AllOrderly /\ Begun /\ ingest.pc = "size" /\ ingest.sent = 0
      /\ answer.status = "none" /\ size' = BatchSize(size, ingest.cols)
      /\ ingest.cols \in 1 .. MaxPlaceholders
      /\ UNCHANGED <<tables, saved, autocommit, connected, ingests, before, committed, answer>>
  BY DEF IInv, capBatchSize, Begun
<1>1. /\ ingest' \in IngestType /\ ingest'.pc = "batch" /\ ingest'.mode = ingest.mode
      /\ ingest'.temporary = ingest.temporary /\ ingest'.cols = ingest.cols
      /\ ingest'.rows = ingest.rows /\ ingest'.base = ingest.base /\ ingest'.sent = ingest.sent
  BY DEF IInv, capBatchSize, Typed, IngestType, Steps
<1>2. size' \in Nat /\ size' >= 1 /\ size' * ingest.cols <= MaxPlaceholders
  BY <1>0, BatchSizeFits DEF Typed
<1>3. Typed' /\ AllOrderly'
  BY <1>0, <1>1, <1>2 DEF Typed, AllOrderly
<1>4. Sent(ingest)' = {} /\ Sent(ingest) = {}
  BY <1>0, <1>1 DEF Sent, Typed, IngestType
<1>5. Begun' /\ SentLanded' /\ PlaceholderLimit' /\ IngestLands'
  BY <1>0, <1>1, <1>2, <1>4 DEF Begun, SentLanded, PlaceholderLimit, IngestLands
<1>7. Progress'
  <2> SUFFICES ASSUME NEW k \in Kinds, k = Kind(ingest.temporary), ~OtherMeant
               PROVE  ProgressOf(k)'
    BY <1>0, <1>1 DEF Progress, OtherMeant, Kind, Kinds, Typed, IngestType
  <2>1. ProgressOf(k)
    BY <1>0 DEF IInv, Progress
  <2> QED
    BY <1>0, <1>1, <1>4, <2>1 DEF ProgressOf, Old
<1> QED
  BY <1>3, <1>5, <1>7 DEF IInv

LEMMA InsertBatchPreserves == IInv /\ InsertBatch => IInv'
<1> SUFFICES ASSUME IInv, InsertBatch PROVE IInv'
  OBVIOUS
<1>1. CASE Refused
  BY <1>1, RefusedPreserves DEF InsertBatch
<1>2. CASE /\ InsertAccepted
           /\ DML(Inserted)
           /\ ingest' = AfterBatch
           /\ UNCHANGED <<autocommit, connected, size, ingests, before, committed, open, undone, answer>>
  <2>0. /\ Typed /\ AllOrderly /\ Begun /\ SentLanded /\ PlaceholderLimit
        /\ ingest.pc = "batch" /\ ingest.sent < ingest.rows /\ answer.status = "none"
        /\ tables \in TablesType /\ saved \in TablesType /\ Orderly(saved)
        /\ tables[Visible(tables)].exists
    BY <1>2 DEF IInv, InsertBatch, Begun, Typed, AllOrderly, InsertAccepted, InsertAllowed
  <2>1. Inserted \in TablesType /\ Orderly(Inserted)
    BY <1>2, <2>0, InsertOrderly
  <2>2. Typed' /\ AllOrderly'
    BY <1>2, <2>0, <2>1, BatchRowsType DEF Typed, AllOrderly, DML
  <2>3. Begun' /\ PlaceholderLimit' /\ IngestLands'
    BY <1>2, <2>0, BatchRowsType DEF Begun, PlaceholderLimit, IngestLands
  <2>4. PICK v \in Kinds : v = Visible(tables)
    BY <2>0, Fields
  <2>5. /\ tables'[v] = [exists |-> tables[v].exists,
                         rows |-> tables[v].rows \cup (Sent(AfterBatch) \ Sent(ingest))]
        /\ \A j \in Kinds \ {v} : tables'[j] = tables[j]
        /\ tables' = Inserted
    BY <1>2, <2>0, <2>4, SentAfterBatch, InsertIs DEF DML, Inserted, Becomes
  <2>6. Visible(tables') = v
    <3>1. tables'["temp"].exists = tables["temp"].exists
      BY <2>5 DEF Kinds
    <3>2. tables'["temp"] = tables'.temp /\ tables["temp"] = tables.temp
      BY <2>0, <2>1, <2>5, Fields
    <3> QED
      BY <2>4, <3>1, <3>2 DEF Visible
  <2>7. SentLanded'
    <3>1. Sent(ingest) \subseteq tables[v].rows
      BY <2>0, <2>4 DEF SentLanded
    <3>2. Sent(AfterBatch) \subseteq tables'[v].rows
      BY <2>5, <3>1
    <3> QED
      BY <1>2, <2>6, <3>2 DEF SentLanded
  <2>9. Progress'
    <3> SUFFICES ASSUME ~OtherMeant, v = Kind(ingest.temporary) PROVE ProgressOf(v)'
      BY <1>2, <2>0, <2>4, BatchRowsType, MeantIsVisible DEF Progress, OtherMeant
    <3>1. ProgressOf(v)
      BY <2>0 DEF IInv, Progress
    <3>2. Old(v)' = Old(v) /\ Sent(ingest)' = Sent(AfterBatch)
      BY <1>2, <2>0, BatchRowsType DEF Old, Sent
    <3>3. /\ tables[v].exists = (ingest.mode # "append" \/ before[v].exists)
          /\ tables[v].rows = Old(v) \cup Sent(ingest)
          /\ ingest.mode = "create" => ~before[v].exists
      BY <2>0, <3>1 DEF ProgressOf
    <3>4. tables[v].rows \cup (Sent(AfterBatch) \ Sent(ingest)) = Old(v) \cup Sent(AfterBatch)
      BY <2>0, <3>3, SentAfterBatch
    <3>5. tables'[v] = [exists |-> ingest.mode # "append" \/ before[v].exists,
                        rows |-> Old(v) \cup Sent(AfterBatch)]
      BY <2>5, <3>3, <3>4
    <3>6. \A j \in Kinds \ {v} : tables'[j] = before[j]
      BY <2>5, <3>1 DEF ProgressOf
    <3>7. ingest'.mode = ingest.mode /\ ingest'.pc = "batch" /\ before' = before
      BY <1>2, <2>0, BatchRowsType
    <3> QED
      BY <3>2, <3>3, <3>5, <3>6, <3>7 DEF ProgressOf
  <2> QED
    BY <2>2, <2>3, <2>7, <2>9 DEF IInv
<1> QED
  BY <1>1, <1>2 DEF InsertBatch

(* The progress of the last batch is what the mode promises.               *)
LEMMA IngestDonePreserves == IInv /\ IngestDone => IInv'
<1> SUFFICES ASSUME IInv, IngestDone PROVE IInv'
  OBVIOUS
<1>0. /\ Typed /\ ingest.pc = "batch" /\ Returns("OK", FALSE)
      /\ UNCHANGED <<tables, saved, autocommit, connected, size, ingests, before, committed>>
      /\ tables \in TablesType /\ before \in TablesType
  BY DEF IInv, IngestDone, Typed
<1>1. Typed' /\ AllOrderly'
  BY <1>0, ReturnsIs DEF IInv, Typed, AllOrderly
<1>2. Begun' /\ SentLanded' /\ Progress' /\ PlaceholderLimit'
  BY <1>0, ReturnsIs DEF IInv, Begun, SentLanded, Progress, PlaceholderLimit
<1>4. IngestLands'
  <2> SUFFICES ASSUME NEW k \in Kinds, k = Kind(ingest.temporary), ~OtherMeant
               PROVE  LandsIn(k)'
    BY <1>0, ReturnsIs DEF IngestLands, OtherTableMeant, OtherMeant, Kind, Kinds
  <2>1. ProgressOf(k)
    BY <1>0 DEF IInv, Progress
  <2> DEFINE x == [exists |-> ingest.mode # "append" \/ before[k].exists,
                   rows |-> Old(k) \cup Sent(ingest)]
  <2>2. tables[k] = x /\ x \in Table /\ \A j \in Kinds \ {k} : tables[j] = before[j]
    BY <1>0, <2>1, Fields DEF ProgressOf
  <2>3. tables = [before EXCEPT ![k] = x]
    <3> HIDE DEF x
    <3>1. Becomes([before EXCEPT ![k] = x], before, k, x)
      BY <1>0, <2>2, Replaced
    <3> DEFINE u == [before EXCEPT ![k] = x]
    <3>2. u \in TablesType /\ \A j \in Kinds : u[j] = tables[j]
      BY <2>2, <3>1 DEF Becomes
    <3> HIDE DEF u
    <3>3. u.perm = tables.perm /\ u.temp = tables.temp
      BY <1>0, <3>2, Fields DEF Kinds
    <3>4. u = tables
      BY <1>0, <3>2, <3>3, SameTables
    <3> QED
      BY <3>4 DEF u
  <2>4. ingest.mode = "create" => ~before[k].exists
    BY <1>0, <2>1 DEF ProgressOf
  <2> QED
    BY <1>0, <2>3, <2>4, ReturnsIs DEF LandsIn, Old
<1> QED
  BY <1>1, <1>2, <1>4 DEF IInv

(* What the application does between ingests.                              *)
LEMMA BetweenPreserves ==
  ASSUME IInv, ingest.pc = "idle",
         tables' \in TablesType, Orderly(tables'), saved' \in TablesType, Orderly(saved'),
         autocommit' \in BOOLEAN, size' \in Nat,
         UNCHANGED <<connected, ingest, ingests, before, committed>>,
         (tables' = tables /\ answer' = answer) \/ answer' = NoAnswer
  PROVE  IInv'
<1>0. NoAnswer \in AnswerType /\ NoAnswer.status # "OK"
  BY DEF NoAnswer, AnswerType
<1>1. Typed' /\ AllOrderly'
  BY <1>0 DEF IInv, Typed, AllOrderly
<1>2. Begun' /\ SentLanded' /\ Progress' /\ PlaceholderLimit'
  BY DEF Begun, SentLanded, Progress, PlaceholderLimit
<1>4. IngestLands'
  <2>1. CASE answer' = NoAnswer
    BY <1>0, <2>1 DEF IngestLands
  <2>2. CASE tables' = tables /\ answer' = answer
    BY <2>2 DEF IInv, IngestLands, OtherTableMeant, LandsIn, Kind
  <2> QED
    BY <2>1, <2>2
<1> QED
  BY <1>1, <1>2, <1>4 DEF IInv

LEMMA StepHolds == IInv /\ [Next]_vars => IInv'
<1> SUFFICES ASSUME IInv, [Next]_vars PROVE IInv'
  OBVIOUS
<1>1. CASE \E mode \in Modes \cup {"unknown"}, temporary, maxQuerySize \in BOOLEAN,
              cols \in Columns, rows \in 0 .. MaxRows :
                ExecuteBulkIngest(mode, temporary, cols, rows, maxQuerySize)
  BY <1>1, ExecuteBulkIngestPreserves
<1>2. CASE Ingesting \/ StatementFails
  BY <1>2, dropTablePreserves, createTablePreserves, capBatchSizePreserves,
     InsertBatchPreserves, IngestDonePreserves, StatementFailsPreserves DEF Ingesting
<1>3. CASE \E n \in BatchSizes : SetBatchSize(n)
  BY <1>3, IngestAssumption, BetweenPreserves DEF SetBatchSize, IInv, Typed, AllOrderly
<1>4. CASE \E on \in BOOLEAN : SetAutocommit(on)
  BY <1>4, BetweenPreserves DEF SetAutocommit, IInv, Typed, AllOrderly
<1>5. CASE Rollback
  BY <1>5, BetweenPreserves DEF Rollback, IInv, Typed, AllOrderly
<1>6. CASE UNCHANGED vars
  <2>1. Typed' /\ AllOrderly'
    BY <1>6 DEF vars, IInv, Typed, AllOrderly
  <2>2. Begun' /\ SentLanded' /\ PlaceholderLimit'
    BY <1>6 DEF vars, IInv, Begun, SentLanded, PlaceholderLimit, Sent
  <2>3. Progress'
    BY <1>6 DEF vars, IInv, Progress, OtherMeant, ProgressOf, Old, Sent, Kind
  <2>4. IngestLands'
    BY <1>6 DEF vars, IInv, IngestLands, OtherTableMeant, LandsIn,
                Kind
  <2> QED
    BY <2>1, <2>2, <2>3, <2>4 DEF IInv
<1> QED
  BY <1>1, <1>2, <1>3, <1>4, <1>5, <1>6 DEF Next

-----------------------------------------------------------------------------
(* Every behaviour keeps the inductive invariant.                          *)
THEOREM IngestInvariant == Spec => []IInv
<1>1. IInv /\ [Next]_vars => IInv'
  BY StepHolds
<1> QED
  BY InitHolds, <1>1, PTL DEF Spec

(* The state of an ingest keeps its type; no more rows are sent than the   *)
(* stream has.                                                             *)
THEOREM IngestTypeCorrect == Spec => []TypeOK
<1>1. IInv => TypeOK
  <2> SUFFICES ASSUME IInv PROVE TypeOK
    OBVIOUS
  <2>1. tables.perm.exists \in BOOLEAN /\ tables.temp.exists \in BOOLEAN
    BY DEF IInv, Typed, TablesType, Table
  <2> QED
    BY <2>1 DEF IInv, Typed, IngestType, Steps, TypeOK
<1> QED
  BY IngestInvariant, <1>1, PTL

(* No INSERT has more placeholders than the server accepts, and every one  *)
(* has a row: for every limit, default, option value and schema.           *)
THEOREM PlaceholdersAlwaysFit == Spec => []PlaceholderLimit
<1>1. IInv => PlaceholderLimit
  BY DEF IInv
<1> QED
  BY IngestInvariant, <1>1, PTL

(* A failed or lost batch never leaves a gap.                              *)
THEOREM NeverAGap == Spec => []NoGap
<1>1. IInv => NoGap
  BY DEF IInv, AllOrderly, Orderly, Kinds, NoGap
<1> QED
  BY IngestInvariant, <1>1, PTL

(* An ingest that reports success did what its mode says.                  *)
THEOREM IngestsAlwaysLand == Spec => []IngestLands
<1>1. IInv => IngestLands
  BY DEF IInv
<1> QED
  BY IngestInvariant, <1>1, PTL
-----------------------------------------------------------------------------
(***************************************************************************)
(* Rows that were there.  What ROLLBACK would leave is also what a lost    *)
(* connection or an abort leaves: it holds what was committed when the     *)
(* ingest started (StillCommitted), and nothing that cannot be seen        *)
(* (SavedSeen).                                                            *)
(***************************************************************************)
Within(t, u) == \A k \in Kinds : t[k].rows \subseteq u[k].rows

SavedSeen == Within(saved, tables)

StillCommitted ==
  ingest.pc # "idle" /\ ingest.mode # "replace" =>
    Within(committed, saved) /\ Within(before, tables) /\ ~answer.aborted

KInv == SavedSeen /\ StillCommitted /\ ExistingRowsKept

LEMMA PermWithin ==
  ASSUME NEW t \in TablesType, NEW u \in TablesType, Within(t, u)
  PROVE  t.perm.rows \subseteq u.perm.rows
BY Fields DEF Within, Kinds

LEMMA WithinTrans ==
  ASSUME NEW t, NEW u, NEW v, Within(t, u), Within(u, v)
  PROVE  Within(t, v)
BY DEF Within

(* What the statements of an ingest that does not replace do to the tables *)
(* they are about.                                                         *)
LEMMA CreateWithin ==
  ASSUME NEW t \in TablesType, Orderly(t), NEW b \in BOOLEAN
  PROVE  Within(t, CreateEffect(t, b)) /\ CreateEffect(t, b) \in TablesType
<1>1. Kind(b) \in Kinds
  BY DEF Kind, Kinds
<1> DEFINE x == IF t[Kind(b)].exists THEN t[Kind(b)] ELSE Empty
           u == CreateEffect(t, b)
<1>2. t[Kind(b)].rows \subseteq x.rows
  BY <1>1 DEF Orderly
<1>3. Becomes(u, t, Kind(b), x)
  BY CreateIs
<1> HIDE DEF x, u
<1>4. Within(t, u) /\ u \in TablesType
  BY <1>2, <1>3 DEF Becomes, Within
<1> QED
  BY <1>4 DEF u

LEMMA InsertedWithin ==
  ASSUME Typed, PlaceholderLimit, ingest.pc = "batch", ingest.sent < ingest.rows
  PROVE  Within(tables, Inserted) /\ Inserted \in TablesType
<1>1. tables \in TablesType /\ Sent(AfterBatch) \ Sent(ingest) \in SUBSET Int
  BY SentAfterBatch DEF Typed
<1> DEFINE k == Visible(tables)
           x == [exists |-> tables[k].exists,
                 rows |-> tables[k].rows \cup (Sent(AfterBatch) \ Sent(ingest))]
<1>2. Becomes(Inserted, tables, k, x)
  BY <1>1, InsertIs DEF Inserted
<1>3. tables[k].rows \subseteq x.rows
  OBVIOUS
<1> HIDE DEF k, x
<1> QED
  BY <1>2, <1>3 DEF Becomes, Within

(* DDL keeps SavedSeen; if it loses no row, saved loses none either.       *)
LEMMA DDLWithin ==
  ASSUME Typed, AllOrderly, SavedSeen, NEW effect \in TablesType, NEW b \in BOOLEAN,
         DDL(effect, b), b => effect.perm = tables.perm
  PROVE  /\ tables' = effect /\ Within(saved', tables')
         /\ Within(tables, effect) => Within(saved, saved')
<1>0. tables \in TablesType /\ saved \in TablesType /\ tables' = effect
  BY DEF Typed, DDL
<1>1. CASE ~b
  <2>1. saved' = effect
    BY <1>1 DEF DDL
  <2> QED
    BY <1>0, <2>1 DEF SavedSeen, Within
<1>2. CASE b /\ effect # tables
  <2>1. saved' = [saved EXCEPT !.temp = effect.temp]
    BY <1>2 DEF DDL
  <2>2. saved' \in TablesType /\ saved'.temp = effect.temp /\ saved'.perm = saved.perm
    BY <1>0, <2>1 DEF TablesType
  <2>3. saved'["temp"] = effect["temp"] /\ saved'["perm"] = saved["perm"]
        /\ effect["perm"] = tables["perm"]
    BY <1>0, <1>2, <2>2, Fields
  <2> QED
    BY <1>0, <2>3 DEF SavedSeen, Within, Kinds
<1>3. CASE b /\ effect = tables
  BY <1>0, <1>3 DEF DDL, SavedSeen, Within
<1> QED
  BY <1>1, <1>2, <1>3

(* A statement of an ingest that does not replace: no row goes.            *)
LEMMA GrowthKeeps ==
  ASSUME IInv, KInv, IInv', ingest.pc # "idle", ingest'.pc # "idle", ingest'.mode = ingest.mode,
         UNCHANGED <<connected, before, committed, answer>>,
         Within(saved', tables'),
         ingest.mode # "replace" => Within(tables, tables') /\ Within(saved, saved')
  PROVE  KInv'
<1>0. /\ {tables', before', committed'} \subseteq TablesType
      /\ CurrentMode' = ingest.mode
  BY DEF IInv, Typed, CurrentMode
<1>1. SavedSeen' /\ StillCommitted'
  BY DEF KInv, SavedSeen, StillCommitted, Within
<1>2. ASSUME ingest.mode # "replace"
      PROVE  /\ committed'.perm.rows \subseteq tables'.perm.rows
             /\ ~answer'.aborted /\ Within(before', tables')
  <2>1. Within(committed', saved') /\ Within(saved', tables')
    BY <1>1, <1>2 DEF StillCommitted, SavedSeen
  <2>2. Within(committed', tables')
    BY <2>1, WithinTrans
  <2> QED
    BY <1>0, <1>1, <1>2, <2>2, PermWithin DEF StillCommitted
<1>3. ExistingRowsKept'
  BY <1>0, <1>2 DEF ExistingRowsKept, Within, Kinds
<1> QED
  BY <1>1, <1>3 DEF KInv

(* An ingest ends with an error, the tables left by x.                     *)
LEMMA FailureKeeps ==
  ASSUME IInv, KInv, IInv', ingest.pc # "idle", NEW aborted \in BOOLEAN, Returns("IO", aborted),
         UNCHANGED <<before, committed>>, Within(saved', tables'),
         NEW x \in TablesType, tables'.perm = x.perm,
         ingest.mode # "replace" => Within(saved, x),
         ingest.mode # "replace" /\ connected' =>
           IF aborted THEN tables' = saved ELSE tables' = tables
  PROVE  KInv'
<1>0. /\ {tables, saved, before, committed} \subseteq TablesType
      /\ ingest'.pc = "idle" /\ answer'.mode = ingest.mode /\ answer'.aborted = aborted
  BY ReturnsIs DEF IInv, Typed
<1>1. SavedSeen' /\ StillCommitted' /\ CurrentMode' = ingest.mode
  BY <1>0 DEF SavedSeen, StillCommitted, CurrentMode
<1>2. ASSUME ingest.mode # "replace"
      PROVE  /\ committed.perm.rows \subseteq x.perm.rows
             /\ Within(committed, saved) /\ Within(before, tables)
  <2>1. Within(committed, saved) /\ Within(saved, x) /\ Within(before, tables)
    BY <1>2 DEF KInv, StillCommitted
  <2>2. Within(committed, x)
    BY <2>1, WithinTrans
  <2> QED
    BY <1>0, <2>1, <2>2, PermWithin
<1>3. ExistingRowsKept'
  BY <1>0, <1>1, <1>2 DEF ExistingRowsKept, Within, Kinds
<1> QED
  BY <1>1, <1>3 DEF KInv

LEMMA RefusedKeeps ==
  ASSUME IInv, KInv, IInv', ingest.pc # "idle", Refused
  PROVE  KInv'
<1>1. /\ Returns("IO", FALSE) /\ tables \in TablesType /\ Within(saved, tables)
      /\ UNCHANGED <<tables, connected, before, committed>> /\ saved' \in {saved, tables}
  BY DEF Refused, IInv, Typed, KInv, SavedSeen
<1>2. Within(saved', tables')
  BY <1>1 DEF Within
<1> QED
  BY <1>1, <1>2, FailureKeeps

LEMMA StatementFailsKeeps ==
  ASSUME IInv, KInv, IInv', StatementFails
  PROVE  KInv'
<1>0. /\ ingest.pc # "idle" /\ (ingest.pc = "batch" => ingest.sent < ingest.rows)
      /\ Typed /\ AllOrderly /\ Begun /\ PlaceholderLimit
      /\ tables \in TablesType /\ Orderly(tables) /\ saved \in TablesType
      /\ Within(saved, tables)
  BY DEF StatementFails, IInv, Typed, AllOrderly, KInv, SavedSeen
<1>1. CASE Refused
  BY <1>0, <1>1, RefusedKeeps
<1>2. CASE TransactionAborted
  <2>1. /\ Returns("IO", TRUE) /\ tables' = saved /\ saved' = saved
        /\ UNCHANGED <<connected, before, committed>>
    BY <1>2 DEF TransactionAborted
  <2>2. Within(saved', tables') /\ Within(saved, saved)
    BY <2>1 DEF Within
  <2> QED
    BY <1>0, <2>1, <2>2, FailureKeeps
<1>3. ASSUME NEW s \in {saved, Executed, tables}, Returns("IO", FALSE), connected' = FALSE,
             tables' = [s EXCEPT !.temp = Absent], saved' = [s EXCEPT !.temp = Absent],
             UNCHANGED <<before, committed>>
      PROVE  KInv'
  <2>1. s \in TablesType
    BY <1>0, ExecutedOrderly
  <2>2. tables'.perm = s.perm /\ Within(saved', tables')
    BY <1>3, <2>1 DEF TablesType, Within
  <2>3. ASSUME ingest.mode # "replace"
        PROVE  Within(saved, s)
    <3>1. Within(saved, saved)
      BY DEF Within
    <3>2. Within(tables, CreateEffect(tables, FALSE))
      BY <1>0, CreateWithin
    <3>3. ingest.pc = "batch" => Within(tables, Inserted)
      BY <1>0, InsertedWithin
    <3>4. Executed \in {saved, CreateEffect(tables, FALSE)}
            \/ (ingest.pc = "batch" /\ Executed = Inserted)
      BY <1>0, <2>3 DEF Executed, Begun
    <3>5. \A t : Within(tables, t) => Within(saved, t)
      BY <1>0, WithinTrans
    <3> QED
      BY <1>0, <1>3, <3>1, <3>2, <3>3, <3>4, <3>5
  <2> QED
    BY <1>0, <1>3, <2>1, <2>2, <2>3, FailureKeeps
<1> QED
  BY <1>0, <1>1, <1>2, <1>3 DEF StatementFails

LEMMA IngestingKeeps ==
  ASSUME IInv, KInv, IInv', Ingesting
  PROVE  KInv'
<1>0. /\ Typed /\ AllOrderly /\ Begun /\ PlaceholderLimit /\ SavedSeen
      /\ tables \in TablesType /\ Orderly(tables) /\ saved \in TablesType
      /\ Within(saved, tables) /\ ingest \in IngestType /\ ingest.temporary \in BOOLEAN
  BY DEF IInv, Typed, AllOrderly, KInv, SavedSeen, IngestType
<1>1. CASE dropTable
  <2>1. /\ ingest.pc = "drop" /\ Goes("create") /\ "create" \in Steps /\ ingest.mode = "replace"
        /\ DDL(DropEffect(tables, ingest.temporary), ingest.temporary)
    BY <1>0, <1>1 DEF dropTable, Begun, Steps
  <2>2. /\ DropEffect(tables, ingest.temporary) \in TablesType
        /\ ingest.temporary => DropEffect(tables, ingest.temporary).perm = tables.perm
    BY <1>0, DropIs DEF Becomes, DropEffect, TablesType
  <2>3. Within(saved', tables')
    BY <1>0, <2>1, <2>2, DDLWithin
  <2> QED
    BY <1>0, <2>1, <2>3, GoesIs, GrowthKeeps
<1>2. CASE createTable
  <2>1. CASE Refused
    BY <1>2, <2>1, RefusedKeeps DEF createTable
  <2>2. CASE /\ DDL(CreateEffect(tables, ingest.temporary), ingest.temporary)
             /\ Goes("size")
    <3>1. ingest.pc = "create" /\ "size" \in Steps
      BY <1>2 DEF createTable, Steps
    <3>2. /\ CreateEffect(tables, ingest.temporary) \in TablesType
          /\ Within(tables, CreateEffect(tables, ingest.temporary))
          /\ ingest.temporary => CreateEffect(tables, ingest.temporary).perm = tables.perm
      BY <1>0, CreateWithin DEF CreateEffect, Kind, TablesType
    <3>3. /\ tables' = CreateEffect(tables, ingest.temporary)
          /\ Within(saved', tables') /\ Within(saved, saved')
      BY <1>0, <2>2, <3>2, DDLWithin
    <3> QED
      BY <1>0, <2>2, <3>1, <3>2, <3>3, GoesIs, GrowthKeeps
  <2> QED
    BY <1>2, <2>1, <2>2 DEF createTable
<1>3. CASE capBatchSize
  <2>1. /\ ingest.pc = "size" /\ ingest'.pc = "batch" /\ ingest'.mode = ingest.mode
        /\ UNCHANGED <<tables, saved, connected, before, committed, answer>>
    BY <1>0, <1>3 DEF capBatchSize, IngestType
  <2>2. Within(tables, tables') /\ Within(saved, saved') /\ Within(saved', tables')
    BY <1>0, <2>1 DEF Within
  <2> QED
    BY <2>1, <2>2, GrowthKeeps
<1>4. CASE InsertBatch
  <2>1. CASE Refused
    BY <1>4, <2>1, RefusedKeeps DEF InsertBatch
  <2>2. CASE /\ DML(Inserted) /\ ingest' = AfterBatch
             /\ UNCHANGED <<connected, before, committed, answer>>
    <3>1. ingest.pc = "batch" /\ ingest.sent < ingest.rows
      BY <1>4 DEF InsertBatch
    <3>2. ingest'.pc = "batch" /\ ingest'.mode = ingest.mode
      BY <1>0, <2>2, <3>1, BatchRowsType
    <3>3. Within(tables, Inserted) /\ Within(saved, Inserted) /\ Within(Inserted, Inserted)
          /\ Within(saved, saved)
      BY <1>0, <3>1, InsertedWithin DEF Within
    <3>4. tables' = Inserted /\ saved' \in {saved, Inserted}
      BY <2>2 DEF DML
    <3> QED
      BY <2>2, <3>1, <3>2, <3>3, <3>4, GrowthKeeps
  <2> QED
    BY <1>4, <2>1, <2>2 DEF InsertBatch
<1>5. CASE IngestDone
  <2>1. /\ ingest.pc = "batch" /\ Returns("OK", FALSE)
        /\ UNCHANGED <<tables, saved, connected, before, committed>>
    BY <1>5 DEF IngestDone
  <2>2. ingest'.pc = "idle" /\ answer'.mode = ingest.mode /\ ~answer'.aborted
    BY <1>0, <2>1, ReturnsIs
  <2>3. SavedSeen' /\ StillCommitted'
    BY <2>1, <2>2 DEF KInv, SavedSeen, StillCommitted
  <2>4. ExistingRowsKept'
    <3>1. CASE ingest.mode = "replace"
      BY <2>2, <3>1 DEF ExistingRowsKept, CurrentMode
    <3>2. CASE ingest.mode # "replace"
      <4>1. Within(committed, saved) /\ Within(before, tables)
        BY <2>1, <3>2 DEF KInv, StillCommitted
      <4>2. Within(committed, tables) /\ committed \in TablesType
        BY <1>0, <4>1, WithinTrans DEF Typed
      <4>3. committed.perm.rows \subseteq tables.perm.rows
        BY <1>0, <4>2, PermWithin
      <4> QED
        BY <2>1, <2>2, <4>1, <4>3 DEF ExistingRowsKept, Within, Kinds
    <3> QED
      BY <3>1, <3>2
  <2> QED
    BY <2>3, <2>4 DEF KInv
<1> QED
  BY <1>1, <1>2, <1>3, <1>4, <1>5 DEF Ingesting

LEMMA ExecuteKeeps ==
  ASSUME IInv, KInv, NEW mode \in Modes \cup {"unknown"}, NEW temporary \in BOOLEAN,
         NEW cols \in Columns, NEW rows \in 0 .. MaxRows, NEW maxQuerySize \in BOOLEAN,
         ExecuteBulkIngest(mode, temporary, cols, rows, maxQuerySize)
  PROVE  KInv'
<1>1. /\ ingest.pc = "idle" /\ before' = tables /\ committed' = saved
      /\ UNCHANGED <<tables, saved, connected>>
      /\ tables \in TablesType /\ saved \in TablesType /\ Within(saved, tables)
  BY DEF ExecuteBulkIngest, IInv, Typed, KInv, SavedSeen
<1>2. ~answer'.aborted
  BY DEF ExecuteBulkIngest, NoAnswer
<1>3. Within(saved, saved) /\ Within(tables, tables)
  BY DEF Within
<1>4. SavedSeen' /\ StillCommitted'
  BY <1>1, <1>2, <1>3 DEF SavedSeen, StillCommitted
<1>5. ExistingRowsKept'
  BY <1>1, <1>2, PermWithin DEF ExistingRowsKept
<1> QED
  BY <1>4, <1>5 DEF KInv

LEMMA StepKeeps == IInv /\ KInv /\ [Next]_vars /\ IInv' => KInv'
<1> SUFFICES ASSUME IInv, KInv, [Next]_vars, IInv' PROVE KInv'
  OBVIOUS
<1>1. CASE \E mode \in Modes \cup {"unknown"}, temporary, maxQuerySize \in BOOLEAN,
              cols \in Columns, rows \in 0 .. MaxRows :
                ExecuteBulkIngest(mode, temporary, cols, rows, maxQuerySize)
  BY <1>1, ExecuteKeeps
<1>2. CASE Ingesting
  BY <1>2, IngestingKeeps
<1>3. CASE StatementFails
  BY <1>3, StatementFailsKeeps
<1>4. CASE \E n \in BatchSizes : SetBatchSize(n)
  BY <1>4 DEF SetBatchSize, KInv, SavedSeen, StillCommitted, ExistingRowsKept, CurrentMode
<1>5. CASE \E on \in BOOLEAN : SetAutocommit(on)
  BY <1>5 DEF SetAutocommit, KInv, SavedSeen, StillCommitted, ExistingRowsKept, CurrentMode, Within
<1>6. CASE Rollback
  BY <1>6 DEF Rollback, KInv, SavedSeen, StillCommitted, ExistingRowsKept, CurrentMode, Within,
              NoAnswer, Modes
<1>7. CASE UNCHANGED vars
  BY <1>7 DEF vars, KInv, SavedSeen, StillCommitted, ExistingRowsKept, CurrentMode
<1> QED
  BY <1>1, <1>2, <1>3, <1>4, <1>5, <1>6, <1>7 DEF Next

LEMMA InitKeeps == Init => KInv
BY DEF Init, KInv, SavedSeen, StillCommitted, ExistingRowsKept, CurrentMode, Within, NoIngest,
       NoAnswer, Modes

(* An ingest that does not replace never loses a committed row, whatever   *)
(* fails, and an uncommitted one only if the server rolled the transaction *)
(* back or the connection is lost.                                         *)
THEOREM ExistingRowsAlwaysKept == Spec => []ExistingRowsKept
<1>1. IInv /\ KInv /\ [Next]_vars /\ IInv' => KInv'
  BY StepKeeps
<1>2. KInv => ExistingRowsKept
  BY DEF KInv
<1> QED
  BY InitKeeps, IngestInvariant, <1>1, <1>2, PTL DEF Spec

-----------------------------------------------------------------------------
(***************************************************************************)
(* Rollback.  Rows are numbered in the order they are sent, ingest after   *)
(* ingest: the rows of the ingest in progress are above those of the open  *)
(* transaction and those undone, and what ROLLBACK would bring back holds  *)
(* neither.                                                                *)
(***************************************************************************)
Rows(t)    == t.perm.rows \cup t.temp.rows
UpTo(S, n) == \A r \in S : r \in Int /\ r <= n
Limit      == ingests * MaxRows

Numbered ==
  /\ UpTo(Rows(tables), Limit) /\ UpTo(Rows(saved), Limit)
  /\ UpTo(open, Limit) /\ UpTo(undone, Limit)
  /\ ingest.pc # "idle" =>
       /\ ingest.base + MaxRows = Limit /\ ingest.rows <= MaxRows
       /\ UpTo(open, ingest.base) /\ UpTo(undone, ingest.base)
       /\ ingest.pc # "batch" => UpTo(Rows(tables), ingest.base)
       /\ ingest.pc # "batch" \/ ~autocommit => UpTo(Rows(saved), ingest.base)

Apart ==
  /\ open \cap Rows(saved) = {}
  /\ undone \cap Rows(saved) = {} /\ undone \cap Rows(tables) = {}
  /\ autocommit => open = {}
  /\ Commits => open = {}

RInv == Numbered /\ Apart

LEMMA NextLimit ==
  ASSUME Typed
  PROVE  /\ MaxRows \in Nat /\ MaxRows > 0 /\ ingests \in Nat
         /\ Limit \in Nat /\ (ingests + 1) * MaxRows = Limit + MaxRows
<1>1. MaxRows \in Nat /\ MaxRows > 0 /\ ingests \in Nat
  BY IngestAssumption DEF Typed
<1>2. \A n, m \in Nat : n * m \in Nat /\ (n + 1) * m = n * m + m
  OBVIOUS
<1> QED
  BY <1>1, <1>2 DEF Limit

(* The rows the statements leave.                                          *)
LEMMA RowsLeft ==
  ASSUME NEW t \in TablesType, NEW u \in TablesType, NEW k \in Kinds, NEW x, Becomes(u, t, k, x)
  PROVE  Rows(u) \subseteq Rows(t) \cup x.rows
<1>1. /\ u["perm"] = u.perm /\ u["temp"] = u.temp
      /\ t["perm"] = t.perm /\ t["temp"] = t.temp
  BY Fields
<1>2. CASE k = "perm"
  BY <1>1, <1>2 DEF Becomes, Kinds, Rows
<1>3. CASE k = "temp"
  BY <1>1, <1>3 DEF Becomes, Kinds, Rows
<1> QED
  BY <1>2, <1>3 DEF Kinds

LEMMA DropRows ==
  ASSUME NEW t \in TablesType, NEW b \in BOOLEAN
  PROVE  /\ Rows(DropEffect(t, b)) \subseteq Rows(t)
         /\ b => DropEffect(t, b).temp.rows = {}
<1> DEFINE k == IF b THEN "temp" ELSE Visible(t)
           u == DropEffect(t, b)
<1>1. k \in Kinds /\ Becomes(u, t, k, Absent) /\ u \in TablesType /\ Absent.rows = {}
  BY DropIs, Fields DEF Kinds, Becomes, Absent
<1>2. u["temp"] = u.temp
  BY <1>1, Fields
<1>3. b => u.temp = Absent
  BY <1>1, <1>2 DEF Becomes
<1> HIDE DEF k, u
<1>4. Rows(u) \subseteq Rows(t) \cup Absent.rows
  BY <1>1, RowsLeft
<1> QED
  BY <1>1, <1>3, <1>4 DEF u

LEMMA CreateRows ==
  ASSUME NEW t \in TablesType, NEW b \in BOOLEAN
  PROVE  /\ Rows(CreateEffect(t, b)) \subseteq Rows(t)
         /\ b /\ CreateEffect(t, b) # t => CreateEffect(t, b).temp.rows = {}
<1> DEFINE k == Kind(b)
           u == CreateEffect(t, b)
           x == IF t[k].exists THEN t[k] ELSE Empty
<1>1. k \in Kinds /\ Becomes(u, t, k, x) /\ u \in TablesType
  BY CreateIs DEF Kind, Kinds, Becomes
<1>2. /\ u["temp"] = u.temp /\ u["perm"] = u.perm
      /\ t["temp"] = t.temp /\ t["perm"] = t.perm
  BY <1>1, Fields
<1>3. x.rows \subseteq t[k].rows /\ t[k].rows \subseteq Rows(t)
  BY <1>1, <1>2 DEF Empty, Rows, Kinds
<1>4. ASSUME b, u # t PROVE u.temp.rows = {}
  <2>1. k = "temp" /\ u.temp = x /\ u.perm = t.perm
    BY <1>1, <1>2, <1>4 DEF Kind, Becomes, Kinds
  <2>2. ~t[k].exists
    <3> SUFFICES ASSUME t[k].exists PROVE u = t
      BY <1>4
    <3>1. u.temp = t.temp
      BY <1>2, <2>1
    <3> HIDE DEF u
    <3> QED
      BY <1>1, <2>1, <3>1, SameTables
  <2> QED
    BY <2>1, <2>2 DEF Empty
<1> HIDE DEF k, u, x
<1>5. Rows(u) \subseteq Rows(t) \cup x.rows
  BY <1>1, RowsLeft
<1> QED
  BY <1>3, <1>4, <1>5 DEF u

LEMMA InsertedRows ==
  ASSUME Typed, PlaceholderLimit, ingest.pc = "batch", ingest.sent < ingest.rows
  PROVE  Rows(Inserted) \subseteq Rows(tables) \cup (Sent(AfterBatch) \ Sent(ingest))
<1> DEFINE k == Visible(tables)
           new == Sent(AfterBatch) \ Sent(ingest)
           x == [exists |-> tables[k].exists, rows |-> tables[k].rows \cup new]
<1>1. tables \in TablesType /\ k \in Kinds /\ new \in SUBSET Int
  BY SentAfterBatch, Fields DEF Typed
<1>2. Becomes(Inserted, tables, k, x) /\ Inserted \in TablesType
  BY <1>1, InsertIs DEF Inserted, Becomes
<1>3. tables[k].rows \subseteq Rows(tables) /\ x.rows = tables[k].rows \cup new
  BY <1>1, Fields DEF Rows, Kinds
<1> HIDE DEF x, k
<1>4. Rows(Inserted) \subseteq Rows(tables) \cup x.rows
  BY <1>1, <1>2, RowsLeft
<1> QED
  BY <1>3, <1>4

LEMMA WithoutTempRows ==
  ASSUME NEW t \in TablesType
  PROVE  Rows([t EXCEPT !.temp = Absent]) \subseteq Rows(t)
BY DEF TablesType, Absent, Rows

(* DDL of an ingest in progress: nothing comes back.                       *)
LEMMA DDLRows ==
  ASSUME Typed, NEW effect \in TablesType, NEW b \in BOOLEAN, DDL(effect, b),
         Rows(effect) \subseteq Rows(tables), b /\ effect # tables => effect.temp.rows = {}
  PROVE  /\ Rows(tables') \subseteq Rows(tables)
         /\ IF b THEN Rows(saved') \subseteq Rows(saved) ELSE Rows(saved') \subseteq Rows(tables)
<1>1. CASE ~b
  BY <1>1 DEF DDL
<1>2. CASE b /\ effect # tables
  <2>1. saved' = [saved EXCEPT !.temp = effect.temp] /\ saved \in TablesType
    BY <1>2 DEF DDL, Typed
  <2>2. saved'.perm = saved.perm /\ saved'.temp = effect.temp
    BY <2>1 DEF TablesType
  <2> QED
    BY <1>2, <2>2 DEF Rows, DDL
<1>3. CASE b /\ effect = tables
  BY <1>3 DEF DDL
<1> QED
  BY <1>1, <1>2, <1>3

(* A step before the first batch.                                          *)
LEMMA DDLKeepsApart ==
  ASSUME IInv, RInv, ingest.pc \in {"drop", "create"}, NEW pc \in {"create", "size"}, Goes(pc),
         NEW effect \in TablesType, DDL(effect, ingest.temporary),
         Rows(effect) \subseteq Rows(tables),
         ingest.temporary /\ effect # tables => effect.temp.rows = {}
  PROVE  RInv'
<1>1. /\ Typed /\ ingest.temporary \in BOOLEAN /\ ingest'.pc = pc /\ pc \in Steps
      /\ ingest'.base = ingest.base /\ ingest'.rows = ingest.rows
      /\ ingest'.temporary = ingest.temporary
      /\ UNCHANGED <<autocommit, ingests, open, undone>>
  BY GoesIs DEF IInv, Typed, IngestType, Goes, Steps
<1>2. /\ Rows(tables') \subseteq Rows(tables)
      /\ IF ingest.temporary THEN Rows(saved') \subseteq Rows(saved)
                             ELSE Rows(saved') \subseteq Rows(tables)
  BY <1>1, DDLRows
<1>3. Numbered'
  BY <1>1, <1>2 DEF RInv, Numbered, UpTo, Limit
<1>4. ~ingest.temporary => open = {}
  BY DEF RInv, Apart, Commits
<1>5. Apart'
  BY <1>1, <1>2, <1>4 DEF RInv, Apart, Commits
<1> QED
  BY <1>3, <1>5 DEF RInv

(* An ingest that ends with an error, or the connection with it.           *)
LEMMA FailureKeepsApart ==
  ASSUME IInv, RInv, ingest.pc # "idle", NEW aborted \in BOOLEAN, Returns("IO", aborted),
         UNCHANGED <<autocommit, ingests, undone>>, open' \in {open, {}},
         UpTo(Rows(tables'), Limit), UpTo(Rows(saved'), Limit),
         undone \cap Rows(tables') = {}, undone \cap Rows(saved') = {},
         open \cap Rows(saved') = {}
  PROVE  RInv'
<1>1. ingest'.pc = "idle" /\ ~Commits' /\ Limit' = Limit
  BY ReturnsIs DEF IInv, Commits, Limit
<1>4. UpTo(open', Limit) /\ UpTo(undone, Limit)
  BY DEF RInv, Numbered, UpTo
<1>2. Numbered'
  BY <1>1, <1>4 DEF Numbered
<1>3. Apart'
  BY <1>1 DEF RInv, Apart
<1> QED
  BY <1>2, <1>3 DEF RInv

(* The rows of the batch are new.                                          *)
LEMMA BatchIsNew ==
  ASSUME IInv, RInv, ingest.pc = "batch", ingest.sent < ingest.rows
  PROVE  /\ UpTo(Rows(Inserted), Limit)
         /\ undone \cap Rows(Inserted) = {}
<1>1. /\ Typed /\ PlaceholderLimit /\ ingest.base \in Nat /\ ingest.sent \in Nat
      /\ ingest.rows \in Nat /\ Limit \in Nat /\ MaxRows \in Nat
  BY NextLimit DEF IInv, Typed, IngestType
<1>2. Rows(Inserted) \subseteq Rows(tables) \cup (Sent(AfterBatch) \ Sent(ingest))
  BY <1>1, InsertedRows
<1>3. AfterBatch.base = ingest.base /\ AfterBatch.sent \in Nat /\ AfterBatch.sent <= ingest.rows
  BY <1>1, BatchRowsType
<1>4. \A r \in Sent(AfterBatch) : r \in Int /\ r > ingest.base /\ r <= ingest.base + MaxRows
  BY <1>1, <1>3 DEF Sent, RInv, Numbered
<1>5. ingest.base + MaxRows = Limit /\ UpTo(undone, ingest.base)
  BY DEF RInv, Numbered
<1>6. undone \cap Sent(AfterBatch) = {}
  BY <1>1, <1>4, <1>5 DEF UpTo
<1> QED
  BY <1>2, <1>4, <1>5, <1>6 DEF RInv, Numbered, Apart, UpTo

LEMMA RefusedKeepsApart ==
  ASSUME IInv, RInv, ingest.pc # "idle", Refused
  PROVE  RInv'
<1>1. CASE saved' = saved
  BY <1>1, FailureKeepsApart DEF Refused, RInv, Numbered, Apart
<1>2. CASE Commits /\ saved' = tables
  BY <1>2, FailureKeepsApart DEF Refused, RInv, Numbered, Apart
<1> QED
  BY <1>1, <1>2 DEF Refused

LEMMA StatementFailsKeepsApart ==
  ASSUME IInv, RInv, StatementFails
  PROVE  RInv'
<1>1. ingest.pc # "idle" /\ (ingest.pc = "batch" => ingest.sent < ingest.rows)
  BY DEF StatementFails
<1>2. ASSUME NEW s \in {saved, Executed, IF Commits THEN tables ELSE saved},
             Returns("IO", FALSE), tables' = [s EXCEPT !.temp = Absent], saved' = [s EXCEPT !.temp = Absent],
             UNCHANGED <<autocommit, ingests, open, undone>>
      PROVE  RInv'
  <2>1. /\ Typed /\ tables \in TablesType /\ saved \in TablesType /\ Executed \in TablesType
    BY <1>1, ExecutedOrderly DEF IInv, Typed
  <2>2. s \in TablesType /\ Rows(tables') \subseteq Rows(s) /\ Rows(saved') \subseteq Rows(s)
    BY <1>2, <2>1, WithoutTempRows
  <2>3. UpTo(Rows(s), Limit) /\ undone \cap Rows(s) = {} /\ open \cap Rows(s) = {}
    <3>1. CASE s = saved
      BY <3>1 DEF RInv, Numbered, Apart
    <3>2. CASE Commits /\ s = tables
      BY <3>2 DEF RInv, Numbered, Apart
    <3>3. CASE Commits /\ s = Executed
      <4>1. Rows(DropEffect(tables, FALSE)) \subseteq Rows(tables)
        BY <2>1, DropRows
      <4>2. Rows(CreateEffect(tables, FALSE)) \subseteq Rows(tables)
        BY <2>1, CreateRows
      <4>3. Rows(s) \subseteq Rows(tables) \/ s = saved
        BY <3>3, <4>1, <4>2 DEF Executed, Commits
      <4> QED
        BY <3>1, <3>3, <4>3 DEF RInv, Numbered, Apart, UpTo
    <3>4. CASE ingest.pc = "batch" /\ autocommit /\ s = Inserted
      BY <1>1, <3>4, BatchIsNew DEF RInv, Apart
    <3> QED
      BY <1>2, <3>1, <3>2, <3>3, <3>4 DEF Executed, Commits
  <2> QED
    BY <1>1, <1>2, <2>2, <2>3, FailureKeepsApart DEF UpTo
<1>3. CASE Refused
  BY <1>1, <1>3, RefusedKeepsApart
<1>4. CASE TransactionAborted
  BY <1>1, <1>4, FailureKeepsApart DEF TransactionAborted, RInv, Numbered, Apart
<1> QED
  BY <1>2, <1>3, <1>4 DEF StatementFails

LEMMA ExecuteKeepsApart ==
  ASSUME IInv, RInv, NEW mode \in Modes \cup {"unknown"}, NEW temporary \in BOOLEAN,
         NEW cols \in Columns, NEW rows \in 0 .. MaxRows, NEW maxQuerySize \in BOOLEAN,
         ExecuteBulkIngest(mode, temporary, cols, rows, maxQuerySize)
  PROVE  RInv'
<1>1. /\ ingest.pc = "idle" /\ ingests' = ingests + 1
      /\ open' = (IF mode = "append" \/ temporary THEN open ELSE {})
      /\ UNCHANGED <<tables, saved, autocommit, undone>>
  BY DEF ExecuteBulkIngest
<1>2. /\ Limit \in Nat /\ MaxRows \in Nat /\ Limit' = Limit + MaxRows
      /\ UpTo(open', Limit) /\ UpTo(undone', Limit)
      /\ UpTo(Rows(tables'), Limit) /\ UpTo(Rows(saved'), Limit)
  BY <1>1, NextLimit DEF IInv, Limit, RInv, Numbered, UpTo
<1>3. CASE ingest' = ingest
  <2>1. Numbered'
    BY <1>1, <1>2, <1>3 DEF Numbered, UpTo
  <2>2. Apart'
    BY <1>1, <1>3 DEF RInv, Apart, Commits
  <2> QED
    BY <2>1, <2>2 DEF RInv
<1>4. CASE /\ mode \in Modes
           /\ ingest' = [pc |-> FirstStep(mode), mode |-> mode, temporary |-> temporary,
                         cols |-> cols, rows |-> rows, base |-> ingests * MaxRows, sent |-> 0]
  <2>1. /\ ingest'.base = Limit /\ ingest'.rows = rows /\ ingest'.temporary = temporary
        /\ ingest'.pc = FirstStep(mode)
    BY <1>4 DEF Limit
  <2>2. FirstStep(mode) \in {"drop", "create"} => mode # "append"
    BY <1>4 DEF FirstStep
  <2>3. Numbered'
    BY <1>2, <2>1 DEF Numbered, UpTo
  <2>4. Apart'
    BY <1>1, <2>1, <2>2 DEF RInv, Apart, Commits
  <2> QED
    BY <2>3, <2>4 DEF RInv
<1> QED
  BY <1>3, <1>4 DEF ExecuteBulkIngest

LEMMA IngestingKeepsApart ==
  ASSUME IInv, RInv, Ingesting
  PROVE  RInv'
<1>0. /\ Typed /\ tables \in TablesType /\ saved \in TablesType /\ ingest.temporary \in BOOLEAN
      /\ ingest \in IngestType
  BY DEF IInv, Typed, IngestType
<1>1. CASE dropTable
  <2>1. /\ Rows(DropEffect(tables, ingest.temporary)) \subseteq Rows(tables)
        /\ ingest.temporary => DropEffect(tables, ingest.temporary).temp.rows = {}
        /\ DropEffect(tables, ingest.temporary) \in TablesType
    BY <1>0, DropRows, DropIs DEF Becomes
  <2> QED
    BY <1>1, <2>1, DDLKeepsApart DEF dropTable
<1>2. CASE createTable
  <2>1. /\ Rows(CreateEffect(tables, ingest.temporary)) \subseteq Rows(tables)
        /\ CreateEffect(tables, ingest.temporary) \in TablesType
        /\ ingest.temporary /\ CreateEffect(tables, ingest.temporary) # tables =>
             CreateEffect(tables, ingest.temporary).temp.rows = {}
    BY <1>0, CreateRows, CreateIs DEF Becomes
  <2> QED
    BY <1>2, <2>1, DDLKeepsApart, RefusedKeepsApart DEF createTable
<1>3. CASE capBatchSize
  <2>1. /\ ingest.pc = "size" /\ ingest'.pc = "batch"
        /\ ingest'.base = ingest.base /\ ingest'.rows = ingest.rows
        /\ UNCHANGED <<tables, saved, autocommit, ingests, open, undone>>
    BY <1>0, <1>3 DEF capBatchSize, IngestType
  <2>2. Numbered'
    BY <2>1 DEF RInv, Numbered, Limit
  <2>3. Apart'
    BY <2>1 DEF RInv, Apart, Commits
  <2> QED
    BY <2>2, <2>3 DEF RInv
<1>4. CASE InsertBatch
  <2>1. CASE Refused
    BY <1>4, <2>1, RefusedKeepsApart DEF InsertBatch
  <2>2. CASE /\ DML(Inserted) /\ ingest' = AfterBatch
             /\ UNCHANGED <<autocommit, ingests, open, undone>>
    <3>1. /\ ingest.pc = "batch" /\ ingest.sent < ingest.rows
          /\ UpTo(Rows(Inserted), Limit) /\ undone \cap Rows(Inserted) = {}
      BY <1>4, BatchIsNew DEF InsertBatch
    <3>2. ingest'.pc = "batch" /\ ingest'.base = ingest.base /\ ingest'.rows = ingest.rows
      BY <1>0, <2>2, <3>1, BatchRowsType DEF IInv
    <3>3. tables' = Inserted /\ saved' = IF autocommit THEN Inserted ELSE saved
      BY <2>2 DEF DML
    <3>4. Numbered'
      BY <2>2, <3>1, <3>2, <3>3 DEF RInv, Numbered, Limit
    <3>5. Apart'
      BY <2>2, <3>1, <3>2, <3>3 DEF RInv, Apart, Commits
    <3> QED
      BY <3>4, <3>5 DEF RInv
  <2> QED
    BY <1>4, <2>1, <2>2 DEF InsertBatch
<1>5. CASE IngestDone
  <2>1. /\ ingest.pc = "batch" /\ ingest'.pc = "idle" /\ ingest.sent = ingest.rows
        /\ open' = (IF autocommit THEN {} ELSE open \cup Sent(ingest))
        /\ UNCHANGED <<tables, saved, autocommit, ingests, undone>>
    BY <1>0, <1>5, ReturnsIs DEF IngestDone
  <2>2. /\ ingest.base \in Nat /\ ingest.sent \in Nat /\ ingest.sent <= MaxRows
        /\ ingest.base + MaxRows = Limit /\ MaxRows \in Nat
    BY <1>0, <2>1, NextLimit DEF IngestType, RInv, Numbered
  <2>3. \A r \in Sent(ingest) : r \in Int /\ r > ingest.base /\ r <= Limit
    BY <2>2 DEF Sent
  <2>4. Numbered'
    BY <2>1, <2>3 DEF RInv, Numbered, UpTo, Limit
  <2>5. ~autocommit => Sent(ingest) \cap Rows(saved) = {}
    BY <2>1, <2>2, <2>3 DEF RInv, Numbered, UpTo
  <2>6. Apart'
    BY <2>1, <2>5 DEF RInv, Apart, Commits
  <2> QED
    BY <2>4, <2>6 DEF RInv
<1> QED
  BY <1>1, <1>2, <1>3, <1>4, <1>5 DEF Ingesting

LEMMA StepKeepsApart == IInv /\ RInv /\ [Next]_vars => RInv'
<1> SUFFICES ASSUME IInv, RInv, [Next]_vars PROVE RInv'
  OBVIOUS
<1>1. CASE \E mode \in Modes \cup {"unknown"}, temporary, maxQuerySize \in BOOLEAN,
              cols \in Columns, rows \in 0 .. MaxRows :
                ExecuteBulkIngest(mode, temporary, cols, rows, maxQuerySize)
  BY <1>1, ExecuteKeepsApart
<1>2. CASE \E n \in BatchSizes : SetBatchSize(n)
  BY <1>2 DEF SetBatchSize, RInv, Numbered, Apart, Commits, Limit
<1>3. CASE \E on \in BOOLEAN : SetAutocommit(on)
  <2>1. PICK on \in BOOLEAN : SetAutocommit(on)
    BY <1>3
  <2> QED
    BY <2>1 DEF SetAutocommit, RInv, Numbered, Apart, Commits, Limit, UpTo
<1>4. CASE Rollback
  <2>1. /\ ingest.pc = "idle" /\ ~autocommit /\ tables' = saved /\ open' = {}
        /\ undone' = undone \cup open
        /\ UNCHANGED <<saved, autocommit, ingest, ingests>>
    BY <1>4 DEF Rollback
  <2> QED
    BY <2>1 DEF RInv, Numbered, Apart, Commits, Limit, UpTo
<1>5. CASE UNCHANGED vars
  BY <1>5 DEF vars, RInv, Numbered, Apart, Commits, Limit
<1> QED
  BY <1>1, <1>2, <1>3, <1>4, <1>5, IngestingKeepsApart, StatementFailsKeepsApart DEF Next

LEMMA InitApart == Init => RInv
<1> SUFFICES ASSUME Init PROVE RInv
  OBVIOUS
<1>1. /\ ingest.pc = "idle" /\ open = {} /\ undone = {} /\ saved = tables
      /\ ingests = 0 /\ MaxRows \in Nat
  BY IngestAssumption DEF Init, NoIngest
<1>2. Limit = 0
  BY <1>1 DEF Limit
<1>3. UpTo(Rows(tables), 0)
  <2>1. tables.perm.rows \subseteq {0} /\ tables.temp.rows \subseteq {-1}
    BY DEF Init, Absent
  <2> QED
    BY <2>1 DEF Rows, UpTo
<1> QED
  BY <1>1, <1>2, <1>3 DEF RInv, Numbered, Apart, Commits, UpTo

(* Rows whose Rollback was acknowledged never show again.                  *)
THEOREM RollbackAlwaysUndoes == Spec => []RollbackUndoes
<1>1. IInv /\ RInv /\ [Next]_vars => RInv'
  BY StepKeepsApart
<1>2. RInv => RollbackUndoes
  BY DEF RInv, Apart, Rows, RollbackUndoes
<1> QED
  BY InitApart, IngestInvariant, <1>1, <1>2, PTL DEF Spec
=============================================================================
