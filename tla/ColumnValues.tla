----------------------------- MODULE ColumnValues -----------------------------
(***************************************************************************)
(* Values that leave the server as bytes, become Arrow values              *)
(* (CreateInserter and AppendValue of mariadb.go) and are bound as         *)
(* parameters again (ConvertArrowToGo).  The column's converter chose the  *)
(* Arrow type (TypeConversion); the Arrow array may be a slice.            *)
(*                                                                         *)
(* TIME values are modelled in ticks: MicroDigits digits make the finest   *)
(* fraction MariaDB has, MilliDigits of them a millisecond.                *)
(***************************************************************************)
EXTENDS TypeConversion, Sequences

CONSTANTS
  MaxHours,     (* 838                                                      *)
  Hours,        (* hours of the values tried                                *)
  Minutes,      (* minutes and seconds of the values tried                  *)
  Fractions,    (* the digits of the fractions tried                        *)
  MaxDimension, (* bound on the dimension of vectors                        *)
  Offsets       (* offsets of the slices bound                              *)

VARIABLES
  column,       (* the column as the client library describes it            *)
  zero,         (* the zero datetime behaviour of the converter             *)
  sent,         (* the value the server sends                               *)
  appended,     (* the value in the Arrow array                             *)
  bound,        (* the parameter                                            *)
  pc

vars == <<column, zero, sent, appended, bound, pc>>

field    == ConvertRawColumnType(column)
inserter == CreateInserter(field)

Null == [kind |-> "null"]

(* Ten to the power of n.                                                  *)
Pow10[n \in 0 .. MicroDigits] == IF n = 0 THEN 1 ELSE 10 * Pow10[n - 1]

Second == Pow10[MicroDigits]

-----------------------------------------------------------------------------
(***************************************************************************)
(* TIME.  A text is a sign, hours, minutes and seconds, and the digits of  *)
(* the fraction as a sequence.                                             *)
(***************************************************************************)
Digits(text) == [i \in 1 .. MicroDigits |-> IF i <= Len(text.fraction) THEN text.fraction[i] ELSE 0]

Number(digits) ==
  LET sum[i \in 0 .. Len(digits)] == IF i = 0 THEN 0 ELSE 10 * sum[i - 1] + digits[i]
  IN  sum[Len(digits)]

(* The fraction is cut to, or filled up to, the digits of a microsecond.   *)
ParsedTicks(text) ==
  ((text.hours * 60 + text.minutes) * 60 + text.seconds) * Second + Number(Digits(text))

ValidText(text) == text.hours <= MaxHours /\ text.minutes <= 59 /\ text.seconds <= 59

parseMariaDBDuration(text) == IF text.negative THEN -ParsedTicks(text) ELSE ParsedTicks(text)

Ticks(unit) ==
  CASE unit = "s" -> Second [] unit = "ms" -> Pow10[MicroDigits - MilliDigits] [] unit = "us" -> 1

(* Integer division of Go cuts towards zero.                               *)
Quotient(n, d) == IF n >= 0 THEN n \div d ELSE -((-n) \div d)

(* ConvertArrowToGo of a duration: always all digits of a microsecond.     *)
Formatted(count, unit) ==
  LET ticks    == count * Ticks(unit)
      duration == IF ticks < 0 THEN -ticks ELSE ticks
      micros   == duration % Second
  IN  [kind |-> "time", negative |-> ticks < 0,
       hours |-> duration \div (3600 * Second),
       minutes |-> (duration \div (60 * Second)) % 60,
       seconds |-> (duration \div Second) % 60,
       fraction |-> [i \in 1 .. MicroDigits |-> (micros \div Pow10[MicroDigits - i]) % 10]]

(* The server shows a TIME(p) with p digits.                               *)
TimeTexts(p) ==
  [kind : {"time"}, negative : BOOLEAN, hours : Hours, minutes : Minutes, seconds : Minutes,
   fraction : [1 .. p -> Fractions]]

-----------------------------------------------------------------------------
(***************************************************************************)
(* VECTOR: a sequence of elements; GEOMETRY: bytes, four of the SRID       *)
(* before the WKB, which starts with its byte order; dates: year, month    *)
(* and day that may be zero, and the Go type they arrive as; the rest by   *)
(* the Go type of the value.                                               *)
(***************************************************************************)
Vectors(dim) == {[kind |-> "vector", elements |-> [i \in 1 .. n |-> i]] : n \in {dim, dim + 1}}

Wkb(order) == <<order, 7, 0, 0, 0, 9>>

Geometries == {[kind |-> "bytes", bytes |-> <<4, 3, 2, 1>> \o Wkb(order)] : order \in {0, 1}}

Dates == [kind : {"date"}, form : {"text", "time.Time"}, year : {0, 2024}, month : {0, 5},
          day : {0, 1}]

Opaque == [kind : {"bytes", "string", "int64"}]

ZeroDate(d) == d.year = 0 \/ d.month = 0 \/ d.day = 0

(* The client library, external.  With parseTime=true in the connection    *)
(* string a date arrives as a time.Time, which has no zero parts: a zero   *)
(* date arrives as some other one.                                         *)
HandedOver(d) ==
  IF d.form = "time.Time" /\ ZeroDate(d)
    THEN {t \in Dates : t.form = d.form /\ ~ZeroDate(t)} ELSE {d}

-----------------------------------------------------------------------------
Appends(value) == appended' = value /\ pc' = "read"
Fails          == pc' = "error" /\ UNCHANGED appended

(* mariaDBDurationInserter                                                 *)
AppendDuration ==
  /\ inserter = "duration" /\ sent # Null
  /\ IF ValidText(sent)
       THEN Appends([kind |-> "duration",
                     count |-> Quotient(parseMariaDBDuration(sent), Ticks(field.type[2]))])
       ELSE Fails

dimension == field.type[2]

VectorFits(value) == Len(value.elements) = dimension

(* mariadbVectorInserter                                                   *)
AppendVector ==
  /\ inserter = "vector" /\ sent # Null
  /\ IF VectorFits(sent) THEN Appends([kind |-> "list", elements |-> sent.elements]) ELSE Fails

(* mariadbSpatialInserter                                                  *)
AppendSpatial ==
  /\ inserter = "spatial" /\ sent # Null
  /\ IF Len(sent.bytes) >= 5 /\ sent.bytes[5] \in {0, 1}
       THEN Appends([sent EXCEPT !.bytes = SubSeq(@, 5, Len(@))])
       ELSE Appends(sent)

(* A string or bytes; every other Go type counts as not zero.              *)
isZeroDatetimeValue(value) == value.form = "text" /\ ZeroDate(value)

(* mariadbZeroDatetimeInserter                                             *)
AppendDate ==
  /\ inserter = "zero datetime" /\ sent # Null
  /\ \E value \in HandedOver(sent) :
       CASE ~isZeroDatetimeValue(value) -> Appends(value)
         [] isZeroDatetimeValue(value) /\ zero = "convert_to_null" -> Appends(Null)
         [] OTHER -> Fails

(* mariadbJSONInserter, mariadbUUIDInserter and mariadbBitInserter         *)
AppendText ==
  /\ inserter \in {"json", "uuid", "bit"} /\ sent # Null
  /\ IF sent.kind = "bytes" \/ (sent.kind = "string" /\ inserter # "bit")
       THEN Appends(sent) ELSE Fails

(* The default inserter, external, of a VECTOR without a width.            *)
AppendDefault == inserter = "default" /\ sent # Null /\ Appends(sent)

AppendNull == sent = Null /\ Appends(Null)

AppendValue ==
  /\ pc = "sent"
  /\ AppendNull \/ AppendDuration \/ AppendVector \/ AppendSpatial \/ AppendDate
       \/ AppendText \/ AppendDefault
  /\ UNCHANGED <<column, zero, sent, bound>>

(* A list is read from the child array: the lists before the slice come    *)
(* first in it.  The driver starts at index * dimension.                   *)
ChildValues(list, offset) ==
  [i \in 1 .. (offset + 1) * Len(list) |->
     IF i > offset * Len(list) THEN list[i - offset * Len(list)] ELSE -i]

ListBound(list, offset) == [i \in 1 .. dimension |-> ChildValues(list, offset)[i]]

(* ConvertArrowToGo of the first value of a slice.                         *)
ConvertArrowToGo(offset) ==
  /\ pc = "read"
  /\ bound' = CASE appended = Null -> Null
                [] appended.kind = "duration" -> Formatted(appended.count, field.type[2])
                [] appended.kind = "list" ->
                     [kind |-> "vector", elements |-> ListBound(appended.elements, offset)]
                [] OTHER -> appended
  /\ pc' = "bound"
  /\ UNCHANGED <<column, zero, sent, appended>>

Column(base, precision, length) ==
  [name |-> [base |-> base, sign |-> "none"], precision |-> precision, scale |-> None,
   length |-> length]

Init ==
  /\ zero \in {"error", "convert_to_null"}
  /\ \/ \E p \in 0 .. MicroDigits :
          column = Column("TIME", p, None) /\ sent \in TimeTexts(p) \cup {Null}
     \/ \E dim \in 1 .. MaxDimension, length \in {"bytes", "omitted"} :
          /\ column = Column("VECTOR", None, IF length = "bytes" THEN 4 * dim ELSE None)
          /\ sent \in Vectors(dim) \cup {Null}
     \/ column = Column("GEOMETRY", None, None) /\ sent \in Geometries \cup {Null}
     \/ \E base \in {"DATE", "DATETIME", "TIMESTAMP"} :
          column = Column(base, None, None) /\ sent \in Dates \cup {Null}
     \/ \E base \in {"JSON", "UUID", "BIT"} :
          column = Column(base, None, None) /\ sent \in Opaque \cup {Null}
  /\ appended = Null /\ bound = Null
  /\ pc = "sent"

Next == AppendValue \/ \E offset \in Offsets : ConvertArrowToGo(offset)

Spec == Init /\ [][Next]_vars

-----------------------------------------------------------------------------
(* The fraction without the zeros that fill it up.                         *)
SameTime(a, b) ==
  /\ a.hours = b.hours /\ a.minutes = b.minutes /\ a.seconds = b.seconds
  /\ Number(Digits(a)) = Number(Digits(b))
  /\ a.negative = b.negative \/ ParsedTicks(a) = 0

(* A value read from a column and bound again is the same.  Of a TIME of   *)
(* any precision, sign, hours beyond a day and every digit survive the     *)
(* unit the converter chose; values Arrow cannot hold are refused, never   *)
(* misread: vectors of another dimension, dates in text with a part that   *)
(* is zero, which may also become NULL.  A vector whose width the result   *)
(* omits keeps its bytes; a geometry loses its prefix and nothing else,    *)
(* whatever its byte order.  A zero date the client library turned into a  *)
(* time.Time is not recognized: the date it was turned into is bound.      *)
ValuesSurvive ==
  pc = "bound" /\ sent # Null =>
    /\ inserter = "duration" => SameTime(bound, sent)
    /\ inserter \in {"vector", "default"} => bound = sent
    /\ inserter = "zero datetime" =>
         IF sent.form = "text" /\ ZeroDate(sent) THEN bound = Null ELSE bound \in HandedOver(sent)
    /\ inserter = "spatial" => sent.bytes = <<4, 3, 2, 1>> \o bound.bytes
=============================================================================
