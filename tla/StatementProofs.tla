-------------------------- MODULE StatementProofs --------------------------
(***************************************************************************)
(* Proofs about Statement, for any sets of statements and queries, and     *)
(* about the parts beside it in MCStatement: connection strings, errors    *)
(* inspected, the placeholders of a query, and values read and bound again.*)
(*                                                                         *)
(* ParametersOfPrepared speaks of the last GetParameterSchema; what makes  *)
(* it true is that the driver's copy of the query is always sqlwrapper's   *)
(* (query = base), and that a statement the driver takes for prepared was  *)
(* prepared from that query (CopiesAgree).                                 *)
(***************************************************************************)
EXTENDS MCStatement, Sequences, FiniteSetTheorems, TLAPS

StmtType ==
  [zero : Behaviours \cup {None}, query : Queries \cup {None}, prepared : BOOLEAN,
   base : Queries \cup {None}, server : Queries \cup {None}]

TypeOK ==
  /\ db \in Behaviours /\ conn \in Behaviours \cup {None}
  /\ stmt \in [Statements -> StmtType]
  /\ stream \in [Statements ->
       {None} \cup [zero : Behaviours \cup {None}, asked : Behaviours \cup {None}]]
  /\ chosen \in [Statements -> Behaviours \cup {None}]
  /\ schema \in [counted : Queries \cup {None}, server : Queries \cup {None}]

CopiesAgree ==
  \A s \in Statements :
    /\ stmt[s].query = stmt[s].base
    /\ stmt[s].prepared => stmt[s].server = stmt[s].base

IInv == TypeOK /\ CopiesAgree /\ ParametersOfPrepared /\ StreamsAsChosen

(* parseZeroDatetimeBehavior keeps an option in range: what it returns is  *)
(* a known behaviour or the old value.                                     *)
LEMMA ParsedType ==
  ASSUME NEW value, NEW old
  PROVE  parseZeroDatetimeBehavior(value, old) \in Behaviours \cup {old}
BY DEF parseZeroDatetimeBehavior

LEMMA InitHolds == Init => IInv
BY DEF Init, IInv, TypeOK, StmtType, CopiesAgree, ParametersOfPrepared, StreamsAsChosen, Closed,
       NoSchema, Behaviours

LEMMA OptionsPreserve ==
  ASSUME IInv, NEW value,
         CreateConnection \/ DatabaseSetOption(value) \/ ConnectionSetOption(value)
  PROVE  IInv'
BY ParsedType
   DEF IInv, TypeOK, StmtType, CopiesAgree, ParametersOfPrepared, StreamsAsChosen, CreateConnection,
       DatabaseSetOption, ConnectionSetOption, Behaviours

LEMMA NewStatementPreserves ==
  ASSUME IInv, NEW s \in Statements, NewStatement(s)
  PROVE  IInv'
<1>1. TypeOK'
  BY DEF IInv, TypeOK, StmtType, NewStatement, parseZeroDatetimeBehavior, Behaviours
<1>2. CopiesAgree' /\ ParametersOfPrepared'
  BY DEF IInv, TypeOK, StmtType, CopiesAgree, ParametersOfPrepared, NewStatement
<1>3. StreamsAsChosen'
  BY DEF IInv, TypeOK, StmtType, StreamsAsChosen, NewStatement, parseZeroDatetimeBehavior
<1> QED
  BY <1>1, <1>2, <1>3 DEF IInv

LEMMA StatementSetOptionPreserves ==
  ASSUME IInv, NEW s \in Statements, NEW value \in Values, StatementSetOption(s, value)
  PROVE  IInv'
<1>1. TypeOK'
  BY SMTT(30) DEF IInv, TypeOK, StmtType, StatementSetOption, parseZeroDatetimeBehavior, Behaviours
<1>2. CopiesAgree' /\ ParametersOfPrepared'
  BY DEF IInv, TypeOK, StmtType, CopiesAgree, ParametersOfPrepared, StatementSetOption
<1>3. StreamsAsChosen'
  BY DEF IInv, TypeOK, StmtType, StreamsAsChosen, StatementSetOption, parseZeroDatetimeBehavior
<1> QED
  BY <1>1, <1>2, <1>3 DEF IInv

(* What a nested EXCEPT does to the record of a statement, field by field. *)
LEMMA QueryFields ==
  ASSUME NEW r \in StmtType, NEW q \in Queries \cup {None}, NEW p \in BOOLEAN,
         NEW v \in Queries \cup {None}
  PROVE  [[[[r EXCEPT !.query = q] EXCEPT !.prepared = p] EXCEPT !.base = q] EXCEPT !.server = v]
           \in StmtType
BY DEF StmtType

LEMMA SetSqlQueryPreserves ==
  ASSUME IInv, NEW s \in Statements, NEW q \in Queries, SetSqlQuery(s, q)
  PROVE  IInv'
<1>1. TypeOK'
  <2>1. stmt[s] \in StmtType
    BY DEF IInv, TypeOK
  <2>2. stmt' = [stmt EXCEPT ![s] =
          [[[[stmt[s] EXCEPT !.query = q] EXCEPT !.prepared = FALSE]
              EXCEPT !.base = q] EXCEPT !.server = None]]
    BY <2>1 DEF IInv, TypeOK, StmtType, SetSqlQuery
  <2>3. stmt' \in [Statements -> StmtType]
    BY <2>1, <2>2, QueryFields DEF IInv, TypeOK
  <2> QED
    BY <2>3 DEF IInv, TypeOK, StmtType, SetSqlQuery
<1>2. CopiesAgree' /\ ParametersOfPrepared'
  BY DEF IInv, TypeOK, StmtType, CopiesAgree, ParametersOfPrepared, SetSqlQuery
<1>3. StreamsAsChosen'
  BY DEF IInv, TypeOK, StmtType, StreamsAsChosen, SetSqlQuery
<1> QED
  BY <1>1, <1>2, <1>3 DEF IInv

LEMMA PreparePreserves ==
  ASSUME IInv, NEW s \in Statements, Prepare(s)
  PROVE  IInv'
<1>1. TypeOK'
  <2>1. stmt[s] \in StmtType /\ stmt[s].base \in Queries \cup {None}
    BY DEF IInv, TypeOK, StmtType
  <2>2. PICK p \in BOOLEAN, v \in Queries \cup {None} :
          stmt' = [stmt EXCEPT ![s] = [[stmt[s] EXCEPT !.prepared = p] EXCEPT !.server = v]]
    BY <2>1 DEF IInv, TypeOK, StmtType, Prepare
  <2>3. [[stmt[s] EXCEPT !.prepared = p] EXCEPT !.server = v] \in StmtType
    BY <2>1 DEF StmtType
  <2>4. stmt' \in [Statements -> StmtType]
    BY <2>2, <2>3 DEF IInv, TypeOK
  <2> QED
    BY <2>4 DEF IInv, TypeOK, Prepare
<1>2. CopiesAgree' /\ ParametersOfPrepared'
  BY DEF IInv, TypeOK, StmtType, CopiesAgree, ParametersOfPrepared, Prepare
<1>3. StreamsAsChosen'
  BY DEF IInv, TypeOK, StmtType, StreamsAsChosen, Prepare
<1> QED
  BY <1>1, <1>2, <1>3 DEF IInv

LEMMA ResultsPreserve ==
  ASSUME IInv, NEW s \in Statements, GetParameterSchema(s) \/ ExecuteQuery(s) \/ Close(s)
  PROVE  IInv'
<1>1. TypeOK'
  <2>1. CASE GetParameterSchema(s)
    BY <2>1 DEF IInv, TypeOK, StmtType, GetParameterSchema, NoSchema
  <2>2. CASE ExecuteQuery(s)
    BY <2>2 DEF IInv, TypeOK, StmtType, ExecuteQuery
  <2>3. CASE Close(s)
    BY <2>3 DEF IInv, TypeOK, StmtType, Close, Closed
  <2> QED
    BY <2>1, <2>2, <2>3
<1>2. CopiesAgree'
  BY DEF IInv, TypeOK, StmtType, CopiesAgree, GetParameterSchema, ExecuteQuery, Close, Closed
<1>3. ParametersOfPrepared'
  BY DEF IInv, TypeOK, StmtType, CopiesAgree, ParametersOfPrepared, GetParameterSchema, ExecuteQuery,
         Close, NoSchema
<1>4. StreamsAsChosen'
  BY DEF IInv, TypeOK, StmtType, StreamsAsChosen, GetParameterSchema, ExecuteQuery, Close, Closed
<1> QED
  BY <1>1, <1>2, <1>3, <1>4 DEF IInv

LEMMA StepHolds == IInv /\ [Next]_vars => IInv'
<1> SUFFICES ASSUME IInv, [Next]_vars PROVE IInv'
  OBVIOUS
<1>1. CASE CreateConnection
  BY <1>1, OptionsPreserve
<1>2. CASE \E v \in Values : DatabaseSetOption(v) \/ ConnectionSetOption(v)
  BY <1>2, OptionsPreserve
<1>3. ASSUME NEW s \in Statements,
             \/ NewStatement(s) \/ Prepare(s) \/ GetParameterSchema(s) \/ ExecuteQuery(s)
             \/ Close(s)
             \/ \E v \in Values : StatementSetOption(s, v)
             \/ \E q \in Queries : SetSqlQuery(s, q)
      PROVE  IInv'
  BY <1>3, NewStatementPreserves, PreparePreserves, ResultsPreserve,
     StatementSetOptionPreserves, SetSqlQueryPreserves
<1>4. CASE UNCHANGED vars
  BY <1>4 DEF vars, IInv, TypeOK, CopiesAgree, ParametersOfPrepared, StreamsAsChosen
<1> QED
  BY <1>1, <1>2, <1>3, <1>4 DEF Next

(* Every behaviour keeps the inductive invariant.                          *)
THEOREM StatementInvariant == Spec => []IInv
<1>1. IInv /\ [Next]_vars => IInv'
  BY StepHolds
<1> QED
  BY InitHolds, <1>1, PTL DEF Spec

(* GetParameterSchema reports the parameters of the query the server has   *)
(* prepared, however queries are set, prepared and refused before it.      *)
THEOREM ParametersAlwaysOfPrepared == Spec => []ParametersOfPrepared
<1>1. IInv => ParametersOfPrepared
  BY DEF IInv
<1> QED
  BY StatementInvariant, <1>1, PTL

(* Zero dates are converted as the application chose for the statement,    *)
(* for any number of statements and changes of the option.                 *)
THEOREM StreamsAlwaysAsChosen == Spec => []StreamsAsChosen
<1>1. IInv => StreamsAsChosen
  BY DEF IInv
<1> QED
  BY StatementInvariant, <1>1, PTL

-----------------------------------------------------------------------------
(***************************************************************************)
(* Connection strings.  FormatDSN lists a map of parameters in any order   *)
(* (SetToSeq) and ParseDSN takes the last of a name.  The lemmas say that  *)
(* a list formatted from a map holds every name once, so that it counts    *)
(* whatever stands before it; the invariant, that the DSN carries what is  *)
(* expected from the step that builds it on.                               *)
(***************************************************************************)

(* A set of numbers that is not empty has a least one.                     *)
LEMMA LeastOfSet ==
  ASSUME NEW S \in SUBSET Nat, S # {}
  PROVE  \E j \in S : \A h \in S : j <= h
<1> DEFINE R == {p \in Nat \X Nat : p[1] < p[2]}
<1>1. IsWellFoundedOn(R, Nat)
  BY NatLessThanWellFounded DEF OpToRel
<1>2. PICK j \in S : \A h \in S : <<h, j>> \notin R
  BY <1>1, WFMin, Zenon
<1>3. ASSUME NEW h \in S PROVE j <= h
  <2>1. <<h, j>> \in Nat \X Nat /\ <<h, j>> \notin R
    BY <1>2
  <2> QED
    BY <2>1
<1> QED
  BY <1>3

(* A bounded one has a last one.                                           *)
LEMMA LastOfSet ==
  ASSUME NEW S \in SUBSET Nat, S # {}, NEW n \in Nat, \A j \in S : j <= n
  PROVE  \E j \in S : \A h \in S : h <= j
<1> DEFINE T == {m \in Nat : \A j \in S : j <= m}
<1>1. n \in T
  OBVIOUS
<1>2. PICK m \in T : \A h \in T : m <= h
  BY <1>1, LeastOfSet
<1>3. m \in Nat /\ \A j \in S : j <= m
  BY <1>2
<1>4. m \in S
  <2>1. CASE m = 0
    <3>1. PICK j \in S : TRUE
      OBVIOUS
    <3> QED
      BY <2>1, <3>1, <1>3
  <2>2. CASE m # 0
    <3>1. m - 1 \in Nat /\ m - 1 \notin T
      BY <2>2, <1>2
    <3>2. PICK j \in S : ~(j <= m - 1)
      BY <3>1
    <3> QED
      BY <3>2, <1>3
  <2> QED
    BY <2>1, <2>2
<1> QED
  BY <1>3, <1>4

(* SetToSeq lists a finite set: every element at one place.                *)
LEMMA SetToSeqLists ==
  ASSUME NEW S, IsFiniteSet(S)
  PROVE  /\ String!SetToSeq(S) \in Seq(S)
         /\ \A x \in S : \E k \in 1 .. Len(String!SetToSeq(S)) : String!SetToSeq(S)[k] = x
         /\ String!IsInjective(String!SetToSeq(S))
<1> DEFINE n == Cardinality(S)
<1>1. n \in Nat /\ \E f \in Bijection(1 .. n, S) : TRUE
  <2>1. PICK m \in Nat : ExistsBijection(1 .. m, S)
    BY FS_NatBijection
  <2>2. m = n
    BY <2>1, FS_CountingElements
  <2> QED
    BY <2>1, <2>2 DEF ExistsBijection
<1>2. String!Cardinality(S) = n
  BY DEF String!Cardinality, Cardinality
<1>3. \E f \in [1 .. n -> S] : String!IsInjective(f)
  BY <1>1 DEF Bijection, Injection, Surjection, IsInjective, String!IsInjective
<1> DEFINE g == String!SetToSeq(S)
<1>4. g \in [1 .. n -> S] /\ String!IsInjective(g)
  <2>1. g = CHOOSE f \in [1 .. n -> S] : String!IsInjective(f)
    BY <1>2, Zenon DEF String!SetToSeq
  <2> QED
    BY <1>3, <2>1, Zenon
<1>5. g \in Surjection(1 .. n, S)
  <2>1. g \in Injection(1 .. n, S)
    BY <1>4 DEF Injection, IsInjective, String!IsInjective
  <2>2. IsFiniteSet(1 .. n) /\ Cardinality(1 .. n) = n
    BY <1>1, FS_Interval
  <2> QED
    BY <2>1, <2>2, FS_Injection
<1>6. Len(g) = n /\ g \in Seq(S)
  BY <1>1, <1>4
<1> QED
  BY <1>4, <1>5, <1>6 DEF Surjection

(* The names of the parameters, and the pairs a list is made of.           *)
ParamNames == {"loc", "time_zone", "charset"}
Pairs  == ParamNames \X {"UTC", "Paris", "+00:00", "+02:00", "utf8"}

LEMMA ConcatIs ==
  ASSUME NEW T, NEW a \in Seq(T), NEW b \in Seq(T)
  PROVE  /\ a \o b \in Seq(T) /\ Len(a \o b) = Len(a) + Len(b)
         /\ \A h \in 1 .. Len(a) : (a \o b)[h] = a[h]
         /\ \A h \in 1 .. Len(b) : (a \o b)[Len(a) + h] = b[h]
OBVIOUS

LEMMA EmptyIs ==
  ASSUME NEW T
  PROVE  <<>> \in Seq(T) /\ Len(<<>>) = 0 /\ DOMAIN <<>> = {}
OBVIOUS

LEMMA EmptyConcat ==
  ASSUME NEW T, NEW p \in Seq(T)
  PROVE  (<<>> \o <<>>) \o p = p /\ <<>> \o p = p
OBVIOUS

LEMMA SeqOfSubset ==
  ASSUME NEW T, NEW S, S \subseteq T, NEW g \in Seq(S)
  PROVE  g \in Seq(T) /\ DOMAIN g = 1 .. Len(g) /\ \A h \in 1 .. Len(g) : g[h] \in S
OBVIOUS

LEMMA PairsFinite == IsFiniteSet(Pairs)
<1>1. IsFiniteSet({"loc", "time_zone", "charset"})
  <2>1. IsFiniteSet({"loc"} \cup {"time_zone"})
    BY FS_Singleton, FS_AddElement, Zenon
  <2>2. IsFiniteSet(({"loc"} \cup {"time_zone"}) \cup {"charset"})
    BY <2>1, FS_AddElement, Zenon
  <2>3. ({"loc"} \cup {"time_zone"}) \cup {"charset"} = {"loc", "time_zone", "charset"}
    OBVIOUS
  <2> QED
    BY <2>2, <2>3
<1>2. IsFiniteSet({"UTC", "Paris", "+00:00", "+02:00", "utf8"})
  <2>1. IsFiniteSet({"UTC"} \cup {"Paris"})
    BY FS_Singleton, FS_AddElement, Zenon
  <2>2. IsFiniteSet({"+00:00"} \cup {"+02:00"})
    BY FS_Singleton, FS_AddElement, Zenon
  <2>3. IsFiniteSet(({"UTC"} \cup {"Paris"}) \cup ({"+00:00"} \cup {"+02:00"}))
    BY <2>1, <2>2, FS_Union, Zenon
  <2>4. IsFiniteSet((({"UTC"} \cup {"Paris"}) \cup ({"+00:00"} \cup {"+02:00"})) \cup {"utf8"})
    BY <2>3, FS_AddElement, Zenon
  <2>5. (({"UTC"} \cup {"Paris"}) \cup ({"+00:00"} \cup {"+02:00"})) \cup {"utf8"} =
          {"UTC", "Paris", "+00:00", "+02:00", "utf8"}
    OBVIOUS
  <2> QED
    BY <2>4, <2>5
<1> QED
  BY <1>1, <1>2, FS_Product DEF Pairs, ParamNames

LEMMA GivenParams == String!Params \subseteq Pairs
BY DEF String!Params, String!Values, Pairs, ParamNames

(* The last of the parameters with a name counts.                          *)
LEMMA LastValueIs ==
  ASSUME NEW params \in Seq(Pairs), NEW k, NEW v, NEW d, NEW m \in 1 .. Len(params),
         params[m] = <<k, v>>, \A j \in 1 .. Len(params) : j > m => params[j][1] # k
  PROVE  String!LastValue(params, k, d) = v
<1> DEFINE at == {h \in DOMAIN params : params[h][1] = k}
<1>1. DOMAIN params = 1 .. Len(params) /\ Len(params) \in Nat
  OBVIOUS
<1>2. m \in at
  BY <1>1
<1>3. ASSUME NEW j \in at PROVE j <= m
  BY <1>1
<1>4. (CHOOSE h \in at : \A j \in at : j <= h) = m
  <2>1. at \subseteq Nat
    BY <1>1
  <2>2. \E h \in at : \A j \in at : j <= h
    BY <1>2, <1>3
  <2> DEFINE c == CHOOSE h \in at : \A j \in at : j <= h
  <2>3. c \in at /\ \A j \in at : j <= c
    BY <2>2, Zenon
  <2> HIDE DEF at, c
  <2>4. c <= m /\ m <= c /\ c \in Nat /\ m \in Nat
    BY <2>1, <2>3, <1>2, <1>3
  <2> QED
    BY <2>4 DEF c
<1> QED
  BY <1>2, <1>4 DEF String!LastValue

(* Every name has a value, of its own pair.                                *)
LEMMA LastValueType ==
  ASSUME NEW params \in Seq(Pairs), NEW k, \E h \in DOMAIN params : params[h][1] = k, NEW d
  PROVE  <<k, String!LastValue(params, k, d)>> \in Pairs
<1> DEFINE at == {h \in DOMAIN params : params[h][1] = k}
<1>1. at \in SUBSET Nat /\ at # {} /\ Len(params) \in Nat /\ \A h \in at : h <= Len(params)
  OBVIOUS
<1>2. \E h \in at : \A j \in at : j <= h
  BY <1>1, LastOfSet
<1> DEFINE m == CHOOSE h \in at : \A j \in at : j <= h
<1>3. m \in at
  BY <1>2
<1>4. String!LastValue(params, k, d) = params[m][2]
  BY <1>1 DEF String!LastValue
<1> HIDE DEF m
<1>5. params[m] \in Pairs /\ params[m][1] = k
  BY <1>3
<1> QED
  BY <1>4, <1>5 DEF Pairs

HasName(params, k) == \E h \in DOMAIN params : params[h][1] = k

(* The parameter k has the value v, and stands once in the list.           *)
Once(g, k, v) ==
  \E j \in 1 .. Len(g) : g[j] = <<k, v>> /\ \A h \in 1 .. Len(g) : h # j => g[h][1] # k

(* What is appended counts, whatever stood before.                         *)
LEMMA AppendedCounts ==
  ASSUME NEW prefix \in Seq(Pairs), NEW g \in Seq(Pairs), NEW k, NEW v, Once(g, k, v)
  PROVE  /\ HasName(prefix \o g, k)
         /\ \A d : String!LastValue(prefix \o g, k, d) = v
<1> DEFINE c == prefix \o g
<1> PICK j \in 1 .. Len(g) : g[j] = <<k, v>> /\ \A h \in 1 .. Len(g) : h # j => g[h][1] # k
  BY DEF Once
<1>1. /\ c \in Seq(Pairs) /\ Len(c) = Len(prefix) + Len(g)
      /\ \A h \in 1 .. Len(g) : c[Len(prefix) + h] = g[h]
  BY ConcatIs
<1> HIDE DEF c
<1>2. Len(prefix) \in Nat /\ Len(g) \in Nat
  OBVIOUS
<1>3. Len(prefix) + j \in 1 .. Len(c) /\ c[Len(prefix) + j] = <<k, v>>
  BY <1>1, <1>2
<1>4. ASSUME NEW h \in 1 .. Len(c), h > Len(prefix) + j PROVE c[h][1] # k
  <2>1. /\ h - Len(prefix) \in 1 .. Len(g) /\ h - Len(prefix) # j
        /\ h = Len(prefix) + (h - Len(prefix))
    BY <1>1, <1>2, <1>4
  <2> QED
    BY <2>1, <1>1
<1>5. ASSUME NEW d PROVE String!LastValue(c, k, d) = v
  <2>1. PICK m \in 1 .. Len(c) : c[m] = <<k, v>> /\ \A h \in 1 .. Len(c) : h > m => c[h][1] # k
    BY <1>3, <1>4
  <2>2. c \in Seq(Pairs)
    BY <1>1
  <2> QED
    BY <2>1, <2>2, LastValueIs, Zenon
<1>6. Len(prefix) + j \in DOMAIN c /\ c[Len(prefix) + j][1] = k
  BY <1>1, <1>3
<1> QED
  BY <1>5, <1>6 DEF c, HasName

(* FormatDSN lists the parameters: each of them once.                      *)
LEMMA ParametersListed ==
  ASSUME NEW f, DOMAIN f \subseteq ParamNames, \A k \in DOMAIN f : <<k, f[k]>> \in Pairs,
         NEW g, g = String!SetToSeq({<<k, f[k]>> : k \in DOMAIN f})
  PROVE  /\ g \in Seq(Pairs)
         /\ \A h \in 1 .. Len(g) : g[h][1] \in DOMAIN f
         /\ \A k \in DOMAIN f : Once(g, k, f[k])
<1> DEFINE S == {<<k, f[k]>> : k \in DOMAIN f}
<1>1. IsFiniteSet(S) /\ S \subseteq Pairs
  BY PairsFinite, FS_Subset
<1>2. /\ g \in Seq(S) /\ String!IsInjective(g)
      /\ \A x \in S : \E k \in 1 .. Len(g) : g[k] = x
  BY <1>1, SetToSeqLists
<1>3. \A k \in DOMAIN f : <<k, f[k]>> \in S
  OBVIOUS
<1>4. \A x \in S : x[1] \in DOMAIN f /\ x = <<x[1], f[x[1]]>>
  OBVIOUS
<1> HIDE DEF S
<1>5. g \in Seq(Pairs) /\ DOMAIN g = 1 .. Len(g) /\ \A h \in 1 .. Len(g) : g[h] \in S
  <2>1. S \subseteq Pairs /\ g \in Seq(S)
    BY <1>1, <1>2
  <2> QED
    BY <2>1, SeqOfSubset, ZenonT(30)
<1>6. ASSUME NEW k \in DOMAIN f PROVE Once(g, k, f[k])
  <2>1. PICK j \in 1 .. Len(g) : g[j] = <<k, f[k]>>
    BY <1>2, <1>3
  <2>2. ASSUME NEW h \in 1 .. Len(g), g[h][1] = k PROVE h = j
    <3>1. g[h] = g[j]
      BY <2>1, <2>2, <1>4, <1>5
    <3> QED
      BY <3>1, <1>2, <1>5 DEF String!IsInjective
  <2> QED
    BY <2>1, <2>2 DEF Once
<1> QED
  BY <1>4, <1>5, <1>6


(***************************************************************************)
(* The invariant                                                           *)
(***************************************************************************)
Creds(user, pass) == IF user = <<>> THEN <<>> ELSE user \o pass

Users  == {<<>>, <<"u">>, <<"v">>}
Passes == {<<>>, <<"p">>, <<"q">>}

(* The DSN says what is expected.                                          *)
Carries(d) ==
  /\ d.params \in Seq(Pairs)
  /\ d.creds = Creds(String!Expected.user, String!Expected.pass)
  /\ d.net = String!Expected.net /\ d.port = String!Expected.port /\ d.db = String!Expected.db
  /\ String!Expected.charset <=> HasName(d.params, "charset")

InUTC(d) ==
  /\ String!LastValue(d.params, "loc", "UTC") = "UTC"
  /\ HasName(d.params, "time_zone")
  /\ String!LastValue(d.params, "time_zone", None) = "+00:00"

StringTyped ==
  /\ given \in String!Strings
  /\ opts \in [username : String!Names, password : {<<>>, <<"q">>}]
  /\ pc \in {"start", "built", "unparsable", "forced", "opened", "failed"}

(* A host, or a malformed DSN, with nothing to add to it.                  *)
NoDSN == given.form \in {"host", "malformed dsn"} /\ String!NoCredentials

StringInv ==
  part = "string" =>
    /\ StringTyped
    /\ pc = "unparsable" => NoDSN
    /\ pc \in {"built", "forced"} => Carries(dsn)
    /\ pc = "forced" => InUTC(dsn)
    /\ String!SettingsKept

LEMMA SingletonIs ==
  ASSUME NEW T, NEW x \in T
  PROVE  <<x>> \in Seq(T) /\ Len(<<x>>) = 1 /\ <<x>>[1] = x
OBVIOUS

LEMMA ConsIs ==
  ASSUME NEW T, NEW x \in T, NEW p \in Seq(T)
  PROVE  <<x>> \o p # <<>> /\ Head(<<x>> \o p) = x /\ Tail(<<x>> \o p) = p
<1> DEFINE c == <<x>> \o p
<1>1. /\ c \in Seq(T) /\ Len(c) = Len(<<x>>) + Len(p)
      /\ \A h \in 1 .. Len(<<x>>) : c[h] = <<x>>[h]
      /\ \A h \in 1 .. Len(p) : c[Len(<<x>>) + h] = p[h]
  BY SingletonIs, ConcatIs
<1>2. Len(c) = 1 + Len(p) /\ c[1] = x /\ \A h \in 1 .. Len(p) : c[1 + h] = p[h]
  BY <1>1, SingletonIs
<1> HIDE DEF c
<1>3. Len(p) \in Nat
  OBVIOUS
<1>4. c # <<>>
  BY <1>1, <1>2, <1>3
<1>5. Head(c) = x
  BY <1>1, <1>2, <1>4
<1>6. Tail(c) \in Seq(T) /\ Len(Tail(c)) = Len(p)
  BY <1>1, <1>2, <1>3, <1>4
<1>7. ASSUME NEW h \in 1 .. Len(p) PROVE Tail(c)[h] = p[h]
  BY <1>1, <1>2, <1>3, <1>4, <1>6
<1> QED
  BY <1>4, <1>5, <1>6, <1>7 DEF c

LEMMA CredsParsed ==
  ASSUME NEW user \in Users, NEW pass \in Passes
  PROVE  /\ Creds(user, pass) = <<>> <=> user = <<>>
         /\ user # <<>> => <<Head(Creds(user, pass))>> = user /\ Tail(Creds(user, pass)) = pass
<1> DEFINE T == {"u", "v", "p", "q"}
<1>1. pass \in Seq(T)
  <2>1. "p" \in T /\ "q" \in T
    OBVIOUS
  <2> HIDE DEF T
  <2>2. pass = <<>> \/ pass = <<"p">> \/ pass = <<"q">>
    BY DEF Passes
  <2>3. <<"p">> \in Seq(T) /\ <<"q">> \in Seq(T)
    BY <2>1, SingletonIs
  <2> QED
    BY <2>2, <2>3, EmptyIs
<1>2. ASSUME NEW x \in T, user = <<x>>
      PROVE  /\ Creds(user, pass) # <<>> /\ user # <<>>
             /\ <<Head(Creds(user, pass))>> = user /\ Tail(Creds(user, pass)) = pass
  <2>1. user # <<>> /\ Creds(user, pass) = <<x>> \o pass
    BY <1>2 DEF Creds
  <2> HIDE DEF T
  <2> QED
    BY <2>1, <1>1, <1>2, ConsIs
<1>3. user = <<>> \/ user = <<"u">> \/ user = <<"v">>
  BY DEF Users
<1>4. CASE user = <<>>
  BY <1>4 DEF Creds
<1>5. CASE user = <<"u">>
  BY <1>2, <1>5
<1>6. CASE user = <<"v">>
  BY <1>2, <1>6
<1> QED
  BY <1>3, <1>4, <1>5, <1>6

LEMMA GivenTyped ==
  ASSUME StringTyped, Colons = FALSE
  PROVE  /\ given.user \in Users /\ given.pass \in Passes /\ given.params \in Seq(Pairs)
         /\ opts.username \in Users /\ opts.password \in Passes
         /\ given.user = <<>> => given.pass = <<>>
         /\ given.form = "host" => given.user = <<>> /\ given.db = "" /\ given.params = <<>>
         /\ given.form \in String!Forms
<1>1. String!Names = Users
  BY DEF String!Names, Users
<1>2. PICK n \in 0 .. MaxParams : given.params \in [1 .. n -> String!Params]
  BY DEF StringTyped, String!Strings
<1>3. given.params \in Seq(Pairs)
  BY <1>2, GivenParams
<1> QED
  BY <1>1, <1>3 DEF StringTyped, String!Strings, String!Spellable, Users, Passes

LEMMA ExpectedTyped ==
  ASSUME StringTyped, Colons = FALSE
  PROVE  String!Expected.user \in Users /\ String!Expected.pass \in Passes
BY GivenTyped DEF String!Expected, Users, Passes

LEMMA NothingListed ==
  ASSUME NEW f, DOMAIN f = {} PROVE String!SetToSeq({<<k, f[k]>> : k \in DOMAIN f}) = <<>>
<1> DEFINE g == String!SetToSeq({<<k, f[k]>> : k \in DOMAIN f})
<1>1. g \in Seq(Pairs) /\ \A h \in 1 .. Len(g) : g[h][1] \in DOMAIN f
  BY ParametersListed
<1> HIDE DEF g
<1>2. Len(g) = 0
  BY <1>1
<1> QED
  BY <1>1, <1>2 DEF g

(* A URI.                                                                  *)
LEMMA UriBuilt ==
  ASSUME StringTyped, Colons = FALSE, NEW net,
         \/ given.form = "tcp uri" /\ net = "tcp"
         \/ given.form = "brackets" /\ net = "unix"
  PROVE  Carries([String!FormatDSN(String!WithCredentials(String!Given(net)))
                    EXCEPT !.params = @ \o given.params])
<1> DEFINE cfg == String!WithCredentials(String!Given(net))
           d   == [String!FormatDSN(cfg) EXCEPT !.params = @ \o given.params]
<1>1. /\ cfg.user = String!Expected.user
      /\ cfg.user # <<>> => cfg.pass = String!Expected.pass
      /\ cfg.net = net /\ cfg.db = given.db /\ cfg.loc = "UTC" /\ cfg.params = <<>>
      /\ cfg.port = IF net = "unix" THEN "default" ELSE given.port
  BY GivenTyped
     DEF String!WithCredentials, String!Given, String!NewConfig, String!Expected
<1> HIDE DEF cfg
<1>2. /\ d.creds = IF cfg.user = <<>> THEN <<>> ELSE cfg.user \o cfg.pass
      /\ d.net = cfg.net /\ d.port = cfg.port /\ d.db = cfg.db
      /\ d.params = (<<>> \o <<>>) \o given.params
  <2>1. DOMAIN cfg.params = {}
    BY <1>1, EmptyIs
  <2>2. String!SetToSeq({<<k, cfg.params[k]>> : k \in DOMAIN cfg.params}) = <<>>
    BY <2>1, NothingListed
  <2> QED
    BY <1>1, <2>2 DEF String!FormatDSN
<1>3. d.params = given.params
  <2>1. given.params \in Seq(Pairs)
    BY GivenTyped
  <2> QED
    BY <1>2, <2>1, EmptyConcat
<1> HIDE DEF d
<1>4. d.creds = Creds(String!Expected.user, String!Expected.pass)
  BY <1>1, <1>2 DEF Creds
<1>5. /\ d.net = String!Expected.net /\ d.port = String!Expected.port /\ d.db = String!Expected.db
      /\ String!Expected.charset <=> HasName(d.params, "charset")
  BY <1>1, <1>2, <1>3, ZenonT(30) DEF String!Expected, HasName
<1> QED
  BY <1>3, <1>4, <1>5, GivenTyped DEF d, cfg, Carries

(* What FormatDSN writes of a configuration.                               *)
LEMMA FormattedParams ==
  ASSUME NEW cfg, <<"loc", cfg.loc>> \in Pairs, DOMAIN cfg.params \subseteq ParamNames,
         \A k \in DOMAIN cfg.params : <<k, cfg.params[k]>> \in Pairs
  PROVE  /\ String!FormatDSN(cfg).params \in Seq(Pairs)
         /\ \A k \in DOMAIN cfg.params :
              /\ HasName(String!FormatDSN(cfg).params, k)
              /\ \A x : String!LastValue(String!FormatDSN(cfg).params, k, x) = cfg.params[k]
         /\ \A k : HasName(String!FormatDSN(cfg).params, k) => k \in DOMAIN cfg.params \cup {"loc"}
<1> DEFINE g      == String!SetToSeq({<<k, cfg.params[k]>> : k \in DOMAIN cfg.params})
           prefix == IF cfg.loc = "UTC" THEN <<>> ELSE <<<<"loc", cfg.loc>>>>
           c      == prefix \o g
<1>1. /\ g \in Seq(Pairs) /\ \A h \in 1 .. Len(g) : g[h][1] \in DOMAIN cfg.params
      /\ \A k \in DOMAIN cfg.params : Once(g, k, cfg.params[k])
  BY ParametersListed, Zenon
<1>2. String!FormatDSN(cfg).params = c
  BY DEF String!FormatDSN
<1>3. prefix \in Seq(Pairs) /\ \A h \in 1 .. Len(prefix) : prefix[h][1] = "loc"
  <2>1. CASE cfg.loc = "UTC"
    BY <2>1, EmptyIs
  <2>2. CASE cfg.loc # "UTC"
    <3>1. prefix = <<<<"loc", cfg.loc>>>>
      BY <2>2
    <3>2. PICK x \in Pairs : x = <<"loc", cfg.loc>>
      OBVIOUS
    <3>3. prefix = <<x>> /\ x[1] = "loc"
      BY <3>1, <3>2
    <3> HIDE DEF prefix
    <3> QED
      BY <3>3, SingletonIs
  <2> QED
    BY <2>1, <2>2
<1> HIDE DEF g, prefix
<1>4. /\ c \in Seq(Pairs) /\ Len(c) = Len(prefix) + Len(g)
      /\ \A h \in 1 .. Len(prefix) : c[h] = prefix[h]
      /\ \A h \in 1 .. Len(g) : c[Len(prefix) + h] = g[h]
  BY <1>1, <1>3, ConcatIs
<1>5. ASSUME NEW k \in DOMAIN cfg.params
      PROVE  HasName(c, k) /\ \A x : String!LastValue(c, k, x) = cfg.params[k]
  <2>1. Once(g, k, cfg.params[k])
    BY <1>1
  <2>2. g \in Seq(Pairs) /\ prefix \in Seq(Pairs)
    BY <1>1, <1>3
  <2> QED
    BY <2>1, <2>2, AppendedCounts
<1> HIDE DEF c
<1>6. ASSUME NEW h \in DOMAIN c PROVE c[h][1] \in DOMAIN cfg.params \cup {"loc"}
  <2>1. h \in 1 .. Len(c) /\ Len(prefix) \in Nat /\ Len(g) \in Nat
    BY <1>1, <1>3, <1>4
  <2>2. CASE h \in 1 .. Len(prefix)
    BY <2>2, <1>3, <1>4
  <2>3. CASE h \notin 1 .. Len(prefix)
    <3>1. h - Len(prefix) \in 1 .. Len(g) /\ h = Len(prefix) + (h - Len(prefix))
      BY <2>1, <2>3, <1>4
    <3>2. c[h] = g[h - Len(prefix)]
      BY <3>1, <1>4
    <3> QED
      BY <3>1, <3>2, <1>1
  <2> QED
    BY <2>2, <2>3
<1>7. \A k : HasName(c, k) => k \in DOMAIN cfg.params \cup {"loc"}
  BY <1>6 DEF HasName
<1> QED
  BY <1>2, <1>4, <1>5, <1>7

(* What ParseDSN reads from parameters.                                    *)
LEMMA ParsedParams ==
  ASSUME NEW d, d.params \in Seq(Pairs)
  PROVE  /\ <<"loc", String!ParseDSN(d).loc>> \in Pairs
         /\ DOMAIN String!ParseDSN(d).params \subseteq ParamNames
         /\ \A k : k \in DOMAIN String!ParseDSN(d).params <=> HasName(d.params, k) /\ k # "loc"
         /\ \A k \in DOMAIN String!ParseDSN(d).params :
              /\ <<k, String!ParseDSN(d).params[k]>> \in Pairs
              /\ String!ParseDSN(d).params[k] = String!LastValue(d.params, k, None)
<1> DEFINE names == {d.params[h][1] : h \in DOMAIN d.params} \ {"loc"}
<1>1. /\ String!ParseDSN(d).params = [k \in names |-> String!LastValue(d.params, k, None)]
      /\ String!ParseDSN(d).loc = String!LastValue(d.params, "loc", "UTC")
  BY DEF String!ParseDSN
<1>2. \A k : k \in names <=> HasName(d.params, k) /\ k # "loc"
  BY DEF HasName
<1>3. names \subseteq ParamNames
  <2>1. \A h \in DOMAIN d.params : d.params[h] \in Pairs
    OBVIOUS
  <2> QED
    BY <2>1 DEF Pairs
<1>4. \A k \in names : <<k, String!LastValue(d.params, k, None)>> \in Pairs
  BY <1>2, LastValueType DEF HasName
<1>5. <<"loc", String!LastValue(d.params, "loc", "UTC")>> \in Pairs
  <2>1. CASE HasName(d.params, "loc")
    BY <2>1, LastValueType DEF HasName
  <2>2. CASE ~HasName(d.params, "loc")
    <3>1. String!LastValue(d.params, "loc", "UTC") = "UTC"
      BY <2>2 DEF HasName, String!LastValue
    <3> QED
      BY <3>1 DEF Pairs, ParamNames
  <2> QED
    BY <2>1, <2>2
<1> HIDE DEF names
<1>6. DOMAIN String!ParseDSN(d).params = names
  BY <1>1
<1>7. \A k \in names : String!ParseDSN(d).params[k] = String!LastValue(d.params, k, None)
  BY <1>1
<1> QED
  BY <1>1, <1>2, <1>3, <1>4, <1>5, <1>6, <1>7

(* The string taken as a DSN.                                              *)
LEMMA NativeIs ==
  ASSUME StringTyped, Colons = FALSE, NEW net
  PROVE  /\ String!Native(net).creds = Creds(given.user, given.pass)
         /\ String!Native(net).net = net /\ String!Native(net).db = given.db
         /\ String!Native(net).port = IF net = "unix" THEN "default" ELSE given.port
         /\ String!Native(net).params = given.params
BY DEF String!Native, String!Given, String!NewConfig, String!FormatDSN, Creds

LEMMA TakenCarries ==
  ASSUME StringTyped, Colons = FALSE, String!NoCredentials, NEW net,
         \/ given.form = "tcp dsn" /\ net = "tcp"
         \/ given.form = "unix dsn" /\ net = "unix"
  PROVE  Carries(String!Native(net))
<1>1. String!Expected.user = given.user /\ String!Expected.pass = given.pass
  BY GivenTyped DEF String!NoCredentials, String!Expected
<1>2. /\ String!Expected.net = net /\ String!Expected.db = given.db
      /\ String!Expected.port = IF net = "unix" THEN "default" ELSE given.port
      /\ String!Expected.charset <=> HasName(given.params, "charset")
  BY DEF String!Expected, HasName
<1> QED
  BY <1>1, <1>2, NativeIs, GivenTyped, ZenonT(30) DEF Carries

(* What FormatDSN makes of a configuration with the expected settings.     *)
LEMMA FormatCarries ==
  ASSUME StringTyped, Colons = FALSE, NEW cfg,
         cfg.user = String!Expected.user, cfg.user # <<>> => cfg.pass = String!Expected.pass,
         cfg.net = String!Expected.net, cfg.port = String!Expected.port,
         cfg.db = String!Expected.db,
         <<"loc", cfg.loc>> \in Pairs, DOMAIN cfg.params \subseteq ParamNames,
         \A k \in DOMAIN cfg.params : <<k, cfg.params[k]>> \in Pairs,
         String!Expected.charset <=> "charset" \in DOMAIN cfg.params
  PROVE  Carries(String!FormatDSN(cfg))
<1>1. /\ String!FormatDSN(cfg).creds = Creds(cfg.user, cfg.pass)
      /\ String!FormatDSN(cfg).net = cfg.net /\ String!FormatDSN(cfg).port = cfg.port
      /\ String!FormatDSN(cfg).db = cfg.db
  BY DEF String!FormatDSN, Creds
<1>2. Creds(cfg.user, cfg.pass) = Creds(String!Expected.user, String!Expected.pass)
  BY DEF Creds
<1>3. /\ String!FormatDSN(cfg).params \in Seq(Pairs)
      /\ HasName(String!FormatDSN(cfg).params, "charset") <=> "charset" \in DOMAIN cfg.params
  BY FormattedParams
<1> QED
  BY <1>1, <1>2, <1>3 DEF Carries

(* The credentials and the place of a DSN are read back.                   *)
LEMMA ParsedIs ==
  ASSUME NEW d, NEW user \in Users, NEW pass \in Passes, d.creds = Creds(user, pass)
  PROVE  /\ String!ParseDSN(d).user = user
         /\ String!ParseDSN(d).pass = IF user = <<>> THEN <<>> ELSE pass
         /\ String!ParseDSN(d).net = d.net /\ String!ParseDSN(d).port = d.port
         /\ String!ParseDSN(d).db = d.db
<1>1. /\ String!ParseDSN(d).user = IF d.creds = <<>> THEN <<>> ELSE <<Head(d.creds)>>
      /\ String!ParseDSN(d).pass = IF d.creds = <<>> THEN <<>> ELSE Tail(d.creds)
      /\ String!ParseDSN(d).net = d.net /\ String!ParseDSN(d).port = d.port
      /\ String!ParseDSN(d).db = d.db
  BY DEF String!ParseDSN
<1> QED
  BY <1>1, CredsParsed

LEMMA WithCredentialsIs ==
  ASSUME StringTyped, Colons = FALSE, NEW c,
         c = [user |-> c.user, pass |-> c.pass, net |-> c.net, port |-> c.port, db |-> c.db,
              loc |-> c.loc, params |-> c.params],
         c.user = given.user, c.pass = given.pass
  PROVE  /\ String!WithCredentials(c).user = String!Expected.user
         /\ String!Expected.user # <<>> => String!WithCredentials(c).pass = String!Expected.pass
         /\ String!WithCredentials(c).net = c.net /\ String!WithCredentials(c).port = c.port
         /\ String!WithCredentials(c).db = c.db /\ String!WithCredentials(c).loc = c.loc
         /\ String!WithCredentials(c).params = c.params
BY DEF String!WithCredentials, String!Expected

LEMMA RebuiltCarries ==
  ASSUME StringTyped, Colons = FALSE, NEW net,
         \/ given.form = "tcp dsn" /\ net = "tcp"
         \/ given.form = "unix dsn" /\ net = "unix"
  PROVE  Carries(String!FormatDSN(String!WithCredentials(String!ParseDSN(String!Native(net)))))
<1> DEFINE d   == String!Native(net)
           c   == String!ParseDSN(d)
           cfg == String!WithCredentials(c)
<1>1. /\ d.creds = Creds(given.user, given.pass) /\ d.net = net /\ d.db = given.db
      /\ d.port = IF net = "unix" THEN "default" ELSE given.port
      /\ d.params = given.params
  BY NativeIs
<1> HIDE DEF d
<1>2. c = [user |-> c.user, pass |-> c.pass, net |-> c.net, port |-> c.port, db |-> c.db,
           loc |-> c.loc, params |-> c.params]
  BY DEF String!ParseDSN
<1>3. c.user = given.user /\ c.pass = given.pass /\ c.net = net /\ c.db = given.db
        /\ c.port = IF net = "unix" THEN "default" ELSE given.port
  BY <1>1, ParsedIs, GivenTyped
<1>4. /\ <<"loc", c.loc>> \in Pairs /\ DOMAIN c.params \subseteq ParamNames
      /\ \A k \in DOMAIN c.params : <<k, c.params[k]>> \in Pairs
      /\ "charset" \in DOMAIN c.params <=> HasName(given.params, "charset")
  BY <1>1, ParsedParams, GivenTyped
<1> HIDE DEF c
<1>5. /\ cfg.user = String!Expected.user
      /\ cfg.user # <<>> => cfg.pass = String!Expected.pass
      /\ cfg.net = c.net /\ cfg.port = c.port /\ cfg.db = c.db /\ cfg.loc = c.loc
      /\ cfg.params = c.params
  BY <1>2, <1>3, WithCredentialsIs
<1>6. /\ String!Expected.net = net /\ String!Expected.db = given.db
      /\ String!Expected.port = IF net = "unix" THEN "default" ELSE given.port
      /\ String!Expected.charset <=> HasName(given.params, "charset")
  BY DEF String!Expected, HasName
<1> HIDE DEF cfg
<1>7. Carries(String!FormatDSN(cfg))
  BY <1>3, <1>4, <1>5, <1>6, FormatCarries
<1> QED
  BY <1>7 DEF cfg, c, d

LEMMA HostCarries ==
  ASSUME StringTyped, Colons = FALSE, given.form = "host"
  PROVE  Carries(String!FormatDSN(String!WithCredentials(
                   [String!NewConfig EXCEPT !.port = given.port])))
<1> DEFINE cfg == String!WithCredentials([String!NewConfig EXCEPT !.port = given.port])
<1>1. given.user = <<>> /\ given.pass = <<>> /\ given.db = "" /\ given.params = <<>>
  BY GivenTyped
<1>2. /\ cfg.user = String!Expected.user
      /\ cfg.user # <<>> => cfg.pass = String!Expected.pass
      /\ cfg.net = "tcp" /\ cfg.port = given.port /\ cfg.db = "" /\ cfg.loc = "UTC"
      /\ cfg.params = <<>>
  BY <1>1 DEF String!WithCredentials, String!NewConfig, String!Expected
<1> HIDE DEF cfg
<1>4. /\ String!Expected.net = "tcp" /\ String!Expected.db = given.db
      /\ String!Expected.port = given.port
      /\ String!Expected.charset <=> HasName(given.params, "charset")
  BY DEF String!Expected, HasName
<1>5. DOMAIN cfg.params = {} /\ ~HasName(given.params, "charset")
  BY <1>1, <1>2, EmptyIs DEF HasName
<1>6. <<"loc", "UTC">> \in Pairs
  BY DEF Pairs, ParamNames
<1>7. Carries(String!FormatDSN(cfg))
  BY <1>1, <1>2, <1>4, <1>5, <1>6, FormatCarries
<1> QED
  BY <1>7 DEF cfg

LEMMA BuildStep ==
  ASSUME StringTyped, Colons = FALSE, String!BuildMariaDBDSN
  PROVE  \/ pc' = "built" /\ Carries(dsn')
         \/ /\ pc' = "failed"
            /\ given.form \in {"missing", "other scheme", "malformed uri", "open bracket",
                              "no host", "malformed dsn"}
         \/ pc' = "unparsable" /\ NoDSN
<1>1. CASE given.form \in {"missing", "other scheme", "malformed uri", "open bracket", "no host"}
  BY <1>1 DEF String!BuildMariaDBDSN, String!Fails
<1>2. CASE given.form = "tcp uri"
  <2>1. String!parseToMariaDBDSN("tcp")
    BY <1>2 DEF String!BuildMariaDBDSN
  <2> QED
    BY <1>2, <2>1, UriBuilt DEF String!parseToMariaDBDSN, String!Builds
<1>3. CASE given.form = "brackets"
  <2>1. String!parseToMariaDBDSN("unix")
    BY <1>3 DEF String!BuildMariaDBDSN
  <2> QED
    BY <1>3, <2>1, UriBuilt DEF String!parseToMariaDBDSN, String!Builds
<1>4. CASE given.form \in {"tcp dsn", "unix dsn", "malformed dsn", "host"} /\ String!NoCredentials
  <2>1. String!TakenAsIs
    BY <1>4 DEF String!BuildMariaDBDSN
  <2> QED
    BY <1>4, <2>1, TakenCarries DEF String!TakenAsIs, String!Builds, NoDSN
<1>5. CASE given.form \in {"tcp dsn", "unix dsn", "malformed dsn", "host"} /\ ~String!NoCredentials
  <2>1. String!buildFromNativeDSN
    BY <1>5 DEF String!BuildMariaDBDSN
  <2> QED
    BY <1>5, <2>1, RebuiltCarries, HostCarries 
       DEF String!buildFromNativeDSN, String!Builds, String!Fails
<1> QED
  BY <1>1, <1>2, <1>3, <1>4, <1>5, GivenTyped DEF String!Forms

LEMMA ForceStep ==
  ASSUME StringTyped, Colons = FALSE, Carries(dsn), String!forceUTCTimezone
  PROVE  Carries(dsn') /\ InUTC(dsn')
<1> DEFINE c   == String!ParseDSN(dsn)
           cfg == [c EXCEPT !.params = [k \in DOMAIN @ \cup {"time_zone", "loc"} |->
                     CASE k = "time_zone" -> "+00:00" [] k = "loc" -> "UTC" [] OTHER -> @[k]]]
<1>1. dsn' = String!FormatDSN(cfg)
  BY DEF String!forceUTCTimezone
<1>2. c = [user |-> c.user, pass |-> c.pass, net |-> c.net, port |-> c.port, db |-> c.db,
           loc |-> c.loc, params |-> c.params]
  BY DEF String!ParseDSN
<1>3. /\ c.user = String!Expected.user
      /\ c.user # <<>> => c.pass = String!Expected.pass
      /\ c.net = String!Expected.net /\ c.port = String!Expected.port /\ c.db = String!Expected.db
  BY ParsedIs, ExpectedTyped DEF Carries
<1>4. /\ <<"loc", c.loc>> \in Pairs /\ DOMAIN c.params \subseteq ParamNames
      /\ \A k \in DOMAIN c.params : <<k, c.params[k]>> \in Pairs
      /\ "charset" \in DOMAIN c.params <=> String!Expected.charset
  BY ParsedParams DEF Carries
<1> HIDE DEF c
<1>5. /\ cfg.user = c.user /\ cfg.pass = c.pass /\ cfg.net = c.net /\ cfg.port = c.port
      /\ cfg.db = c.db /\ cfg.loc = c.loc
      /\ cfg.params = [k \in DOMAIN c.params \cup {"time_zone", "loc"} |->
           CASE k = "time_zone" -> "+00:00" [] k = "loc" -> "UTC" [] OTHER -> c.params[k]]
  BY <1>2
<1> HIDE DEF cfg
<1>6. /\ DOMAIN cfg.params = DOMAIN c.params \cup {"time_zone", "loc"}
      /\ cfg.params["time_zone"] = "+00:00" /\ cfg.params["loc"] = "UTC"
      /\ \A k \in DOMAIN c.params : k \notin {"time_zone", "loc"} => cfg.params[k] = c.params[k]
  BY <1>5
<1>7. /\ DOMAIN cfg.params \subseteq ParamNames
      /\ \A k \in DOMAIN cfg.params : <<k, cfg.params[k]>> \in Pairs
      /\ <<"loc", cfg.loc>> \in Pairs
      /\ "charset" \in DOMAIN cfg.params <=> String!Expected.charset
  <2>1. "time_zone" \in ParamNames /\ "loc" \in ParamNames
    BY DEF ParamNames
  <2>2. <<"time_zone", "+00:00">> \in Pairs /\ <<"loc", "UTC">> \in Pairs
    BY DEF Pairs, ParamNames
  <2>3. ASSUME NEW k \in DOMAIN cfg.params PROVE <<k, cfg.params[k]>> \in Pairs
    <3>1. CASE k = "time_zone"
      BY <3>1, <2>2, <1>6
    <3>2. CASE k = "loc"
      BY <3>2, <2>2, <1>6
    <3>3. CASE k \notin {"time_zone", "loc"}
      BY <3>3, <1>4, <1>6
    <3> QED
      BY <3>1, <3>2, <3>3
  <2> QED
    BY <2>1, <2>3, <1>4, <1>5, <1>6
<1>8. Carries(String!FormatDSN(cfg))
  BY <1>3, <1>5, <1>7, FormatCarries
<1>9. InUTC(String!FormatDSN(cfg))
  <2>1. "time_zone" \in DOMAIN cfg.params /\ "loc" \in DOMAIN cfg.params
    BY <1>6
  <2>2. \A k \in DOMAIN cfg.params :
          /\ HasName(String!FormatDSN(cfg).params, k)
          /\ \A x : String!LastValue(String!FormatDSN(cfg).params, k, x) = cfg.params[k]
    BY <1>7, FormattedParams
  <2> QED
    BY <2>1, <2>2, <1>6 DEF InUTC
<1> QED
  BY <1>1, <1>8, <1>9

LEMMA OpenStep ==
  ASSUME StringTyped, Colons = FALSE, Carries(dsn), InUTC(dsn), String!CreateDB
  PROVE  /\ config'.loc = "UTC" /\ config'.params.time_zone = "+00:00"
         /\ [user |-> config'.user, pass |-> config'.pass, net |-> config'.net,
             port |-> config'.port, db |-> config'.db,
             charset |-> "charset" \in DOMAIN config'.params] = String!Expected
<1> DEFINE c == String!ParseDSN(dsn)
           e == String!Expected
<1>1. config' = c
  BY DEF String!CreateDB
<1>2. c.user = e.user /\ c.pass = (IF e.user = <<>> THEN <<>> ELSE e.pass)
        /\ c.net = e.net /\ c.port = e.port /\ c.db = e.db
  BY ParsedIs, ExpectedTyped DEF Carries
<1>3. e.pass = IF e.user = <<>> THEN <<>> ELSE e.pass
  BY DEF String!Expected
<1>4. e = [user |-> e.user, pass |-> e.pass, net |-> e.net, port |-> e.port, db |-> e.db,
           charset |-> e.charset] /\ e.charset \in BOOLEAN
  BY DEF String!Expected
<1>5. c.loc = "UTC"
  BY DEF InUTC, String!ParseDSN
<1>6. "time_zone" \in DOMAIN c.params /\ c.params["time_zone"] = "+00:00"
  BY ParsedParams DEF Carries, InUTC
<1>7. "charset" \in DOMAIN c.params <=> e.charset
  BY ParsedParams DEF Carries
<1> HIDE DEF c, e
<1> QED
  BY <1>1, <1>2, <1>3, <1>4, <1>5, <1>6, <1>7 DEF e

LEMMA StringInit == PartInit => StringInv
BY DEF PartInit, StringInv, StringTyped, String!Init, String!SettingsKept

LEMMA StringStep ==
  ASSUME Colons = FALSE, StringInv, [PartNext]_allVars
  PROVE  StringInv'
<1> SUFFICES ASSUME part' = "string" PROVE StringInv'
  BY DEF StringInv
<1>1. part = "string" /\ (String!Next \/ UNCHANGED <<given, opts, dsn, config, pc>>)
  BY DEF PartNext, allVars, stringVars
<1>2. StringTyped /\ String!SettingsKept
  BY <1>1 DEF StringInv
<1>3. CASE UNCHANGED <<given, opts, dsn, config, pc>>
  BY <1>1, <1>3
     DEF StringInv, StringTyped, Carries, InUTC, String!SettingsKept, String!Expected,
         String!NoCredentials, NoDSN
<1>4. CASE String!BuildMariaDBDSN
  <2>1. /\ given' = given /\ opts' = opts /\ String!Expected' = String!Expected
        /\ String!NoCredentials' = String!NoCredentials
    BY <1>4 DEF String!BuildMariaDBDSN, String!Expected, String!NoCredentials
  <2>2. /\ pc' \in {"built", "failed", "unparsable"} /\ (pc' = "built" => Carries(dsn'))
        /\ pc' = "unparsable" => NoDSN
    BY <1>2, <1>4, BuildStep
  <2>3. StringTyped' /\ (pc' = "built" => Carries(dsn)')
    BY <1>2, <2>1, <2>2 DEF StringTyped, Carries
  <2>4. String!SettingsKept'
    BY <1>2, <1>4, <2>1, BuildStep DEF String!SettingsKept
  <2>5. pc' = "unparsable" => NoDSN'
    BY <2>1, <2>2 DEF NoDSN
  <2> QED
    BY <2>2, <2>3, <2>4, <2>5 DEF StringInv
<1>5. CASE String!forceUTCTimezone
  <2>1. given' = given /\ opts' = opts /\ pc' = "forced" /\ String!Expected' = String!Expected
    BY <1>5 DEF String!forceUTCTimezone, String!Expected
  <2>2. Carries(dsn)
    BY <1>1, <1>5 DEF StringInv, String!forceUTCTimezone
  <2>3. Carries(dsn') /\ InUTC(dsn')
    BY <1>2, <1>5, <2>2, ForceStep
  <2>4. StringTyped' /\ Carries(dsn)' /\ InUTC(dsn)'
    BY <1>2, <2>1, <2>3 DEF StringTyped, Carries, InUTC
  <2>5. String!SettingsKept'
    BY <2>1 DEF String!SettingsKept
  <2> QED
    BY <2>1, <2>4, <2>5 DEF StringInv
<1>6. CASE String!CreateDB
  <2>1. given' = given /\ opts' = opts /\ pc' = "opened" /\ String!Expected' = String!Expected
    BY <1>6 DEF String!CreateDB, String!Expected
  <2>2. Carries(dsn) /\ InUTC(dsn)
    BY <1>1, <1>6 DEF StringInv, String!CreateDB
  <2>3. String!SettingsKept'
    BY <1>2, <1>6, <2>1, <2>2, OpenStep DEF String!SettingsKept
  <2>4. StringTyped'
    BY <1>2, <2>1 DEF StringTyped
  <2> QED
    BY <2>1, <2>3, <2>4 DEF StringInv
<1>7. CASE String!OverrideFails
  <2>1. /\ given' = given /\ opts' = opts /\ pc' = "failed" /\ String!NoCredentials' = String!NoCredentials
    BY <1>7 DEF String!OverrideFails, String!Fails, String!NoCredentials
  <2>2. NoDSN
    BY <1>1, <1>7 DEF StringInv, String!OverrideFails
  <2>3. StringTyped'
    BY <1>2, <2>1 DEF StringTyped
  <2>4. String!SettingsKept'
    BY <2>1, <2>2 DEF String!SettingsKept, NoDSN
  <2> QED
    BY <2>1, <2>3, <2>4 DEF StringInv
<1> QED
  BY <1>1, <1>3, <1>4, <1>5, <1>6, <1>7 DEF String!Next

(* Whatever options, spelling and parameters a connection string has, any  *)
(* number of them in any order, the database is opened with the server,    *)
(* credentials and parameters it names and in UTC, or the string is one    *)
(* that must be refused; user names hold no colon.                         *)
THEOREM SettingsAlwaysKept == ASSUME Colons = FALSE PROVE PartSpec => []SettingsKept
<1>1. StringInv /\ [PartNext]_allVars => StringInv'
  BY StringStep
<1>2. StringInv => SettingsKept
  BY DEF StringInv, SettingsKept
<1> QED
  BY StringInit, <1>1, <1>2, PTL DEF PartSpec

-----------------------------------------------------------------------------
(* Callers pass no default that a class could replace: the four statuses   *)
(* below belong to numbers whose SQLSTATE class stands for another one.    *)
DefaultsOK ==
  Defaults \cap {"UNAUTHORIZED", "NOT_FOUND", "ALREADY_EXISTS", "INVALID_ARGUMENT"} = {}

(* Once the number was looked up it has decided, if it is known.           *)
ErrorInv ==
  part = "error" =>
    /\ error \in Error!Errors /\ default \in Defaults
    /\ pc \in {"number", "class", "done"}
    /\ pc \in {"class", "done"} /\ error # None /\ Error!NumberStatus(error.number) # None =>
         status = Error!NumberStatus(error.number)

(* A class that may still be asked agrees with the number.                 *)
LEMMA ClassAgrees ==
  ASSUME DefaultsOK, NEW n \in Error!Numbers, Error!NumberStatus(n) \in Defaults
  PROVE  Error!ClassStatus(Error!ServerClass(n)) \in {None, Error!NumberStatus(n)}
BY DEF DefaultsOK, Error!Numbers, Error!NumberStatus, Error!ClassStatus, Error!ServerClass

LEMMA KnownErrors ==
  ASSUME NEW e \in Error!Errors, e # None, Error!NumberStatus(e.number) # None
  PROVE  e.number \in Error!Numbers /\ e.class = Error!ServerClass(e.number)
BY DEF Error!Errors, Error!NumberStatus, Error!Numbers

LEMMA ErrorStep ==
  ASSUME DefaultsOK, ErrorInv, [PartNext]_allVars
  PROVE  ErrorInv'
<1> SUFFICES ASSUME part' = "error" PROVE ErrorInv'
  BY DEF ErrorInv
<1>1. part = "error" /\ (Error!Next \/ UNCHANGED <<error, default, status, pc>>)
  BY DEF PartNext, allVars, errorVars
<1>2. CASE UNCHANGED <<error, default, status, pc>>
  BY <1>1, <1>2 DEF ErrorInv
<1>3. CASE Error!ByNumber
  BY <1>1, <1>3 DEF ErrorInv, Error!ByNumber, Error!Or
<1>4. CASE Error!ByClass
  BY <1>1, <1>4, ClassAgrees, KnownErrors DEF ErrorInv, Error!ByClass, Error!Or, Error!Undetermined
<1> QED
  BY <1>1, <1>2, <1>3, <1>4 DEF Error!Next

(* The status of a known error number is the one of the number, whatever   *)
(* SQLSTATE it comes with and whatever default, of those it may have.      *)
THEOREM NumberAlwaysDecides == ASSUME DefaultsOK PROVE PartSpec => []NumberDecides
<1>1. PartInit => ErrorInv
  BY DEF PartInit, ErrorInv, Error!Init
<1>2. ErrorInv /\ [PartNext]_allVars => ErrorInv'
  BY ErrorStep
<1>3. ErrorInv => NumberDecides
  BY DEF ErrorInv, NumberDecides, Error!NumberDecides
<1> QED
  BY <1>1, <1>2, <1>3, PTL DEF PartSpec

-----------------------------------------------------------------------------
(***************************************************************************)
(* Placeholders.  The tokens of the reference are the least set that cuts  *)
(* the query: a token starts at a boundary, and the next boundary is the   *)
(* one after its end (NextBoundary).  The invariant says that the loop is  *)
(* at a boundary, or inside the token that started at the last one and not *)
(* past its end, with the parameters before that boundary counted.         *)
(***************************************************************************)

(* A carriage return ends a comment for the driver, and not for the        *)
(* server; "end" stands for what is after the last character.              *)
CharactersOK == "return" \notin Alphabet /\ "end" \notin Alphabet

(* What the reference takes for the end of a token.                        *)
IsLine(s) ==
  query[s] = "#" \/ (Placeholder!Starts2(s, "-", "-") /\ Placeholder!At(s + 2) \in Placeholder!Blank)

LEMMA FirstInIs ==
  ASSUME NEW S, S \subseteq Nat
  PROVE  /\ S = {} => Placeholder!FirstIn(S) = Len(query)
         /\ S # {} => Placeholder!FirstIn(S) \in S /\ \A q \in S : Placeholder!FirstIn(S) <= q
<1>1. S # {} => \E x \in S : \A q \in S : x <= q
  BY LeastOfSet
<1> QED
  BY <1>1 DEF Placeholder!FirstIn

LEMMA FirstInAt ==
  ASSUME NEW S, S \subseteq Nat, NEW e \in S, \A q \in S : e <= q
  PROVE  Placeholder!FirstIn(S) = e
<1>1. /\ Placeholder!FirstIn(S) \in S /\ Placeholder!FirstIn(S) <= e /\ e <= Placeholder!FirstIn(S)
  BY FirstInIs
<1>2. Placeholder!FirstIn(S) \in Nat /\ e \in Nat
  BY <1>1
<1> QED
  BY <1>1, <1>2

(* What may end a text, a line comment and a block comment.                *)
TextEnds(s)  == {p \in s + 1 .. Len(query) : Placeholder!ClosesText(s, p)}
LineEnds(s)  == {p \in s + 1 .. Len(query) : query[p] = "newline"}
BlockEnds(s) ==
  {p \in s + 1 .. Len(query) : p > s + 2 /\ Placeholder!Starts2(p - 1, "*", "/")}

LEMMA TokenEndIs ==
  ASSUME NEW s \in 1 .. Len(query)
  PROVE  /\ query[s] \in Placeholder!Quotes =>
              Placeholder!TokenEnd(s) = Placeholder!FirstIn(TextEnds(s))
         /\ IsLine(s) => Placeholder!TokenEnd(s) = Placeholder!FirstIn(LineEnds(s))
         /\ Placeholder!Starts2(s, "/", "*") =>
              Placeholder!TokenEnd(s) = Placeholder!FirstIn(BlockEnds(s))
         /\ /\ query[s] \notin Placeholder!Quotes /\ ~IsLine(s)
            /\ ~Placeholder!Starts2(s, "/", "*")
            => Placeholder!TokenEnd(s) = s
<1>1. Placeholder!At(s) = query[s]
  BY DEF Placeholder!At
<1>2. IsLine(s) => query[s] \in {"#", "-"}
  BY <1>1 DEF IsLine, Placeholder!Starts2
<1>3. Placeholder!Starts2(s, "/", "*") => query[s] = "/"
  BY <1>1 DEF Placeholder!Starts2
<1>4. query[s] \in Placeholder!Quotes => query[s] \notin {"#", "-", "/"}
  BY DEF Placeholder!Quotes
<1>5. Placeholder!TokenEnd(s) =
        CASE query[s] \in Placeholder!Quotes -> Placeholder!FirstIn(TextEnds(s))
          [] IsLine(s) -> Placeholder!FirstIn(LineEnds(s))
          [] Placeholder!Starts2(s, "/", "*") -> Placeholder!FirstIn(BlockEnds(s))
          [] OTHER -> s
  BY DEF Placeholder!TokenEnd, IsLine, TextEnds, LineEnds, BlockEnds
<1> QED
  BY <1>2, <1>3, <1>4, <1>5

LEMMA EndBounds ==
  ASSUME Len(query) \in Nat, NEW s \in 1 .. Len(query)
  PROVE  Placeholder!TokenEnd(s) \in s .. Len(query)
<1>1. ASSUME NEW S, S \subseteq s + 1 .. Len(query)
      PROVE  Placeholder!FirstIn(S) \in s .. Len(query)
  <2>1. S \subseteq Nat
    BY <1>1
  <2>2. Placeholder!FirstIn(S) = Len(query) \/ Placeholder!FirstIn(S) \in S
    BY <2>1, FirstInIs
  <2>3. Len(query) \in s .. Len(query) /\ s + 1 .. Len(query) \subseteq s .. Len(query)
    OBVIOUS
  <2> QED
    BY <1>1, <2>2, <2>3, Zenon
<1>2. /\ TextEnds(s) \subseteq s + 1 .. Len(query) /\ LineEnds(s) \subseteq s + 1 .. Len(query)
      /\ BlockEnds(s) \subseteq s + 1 .. Len(query)
  BY DEF TextEnds, LineEnds, BlockEnds
<1> QED
  BY <1>1, <1>2, TokenEndIs

(* Where tokens start.  At a boundary a token starts and none is open.     *)
Start(p) == \A S \in Placeholder!CutSets : p \in S

Boundary(p) ==
  /\ p \in 1 .. Len(query) + 1 /\ Start(p)
  /\ \A s \in 1 .. Len(query) : Start(s) /\ s < p => Placeholder!TokenEnd(s) < p

LEMMA FirstBoundary ==
  ASSUME Len(query) \in Nat
  PROVE  Boundary(1)
<1>1. Start(1)
  BY DEF Start, Placeholder!CutSets
<1> QED
  BY <1>1 DEF Boundary

LEMMA NextBoundary ==
  ASSUME Len(query) \in Nat, NEW p \in 1 .. Len(query), Boundary(p)
  PROVE  /\ Boundary(Placeholder!TokenEnd(p) + 1)
         /\ \A q \in p + 1 .. Placeholder!TokenEnd(p) : ~Start(q)
<1> DEFINE e == Placeholder!TokenEnd(p) + 1
<1>1. e \in p + 1 .. Len(query) + 1
  BY EndBounds
<1>2. Start(e)
  <2> SUFFICES ASSUME NEW S \in Placeholder!CutSets PROVE e \in S
    BY DEF Start
  <2>1. p \in S
    BY DEF Boundary, Start
  <2> QED
    BY <2>1 DEF Placeholder!CutSets
<1> DEFINE C == {q \in 1 .. Len(query) + 1 : (q <= p /\ Start(q)) \/ e <= q}
<1>3. C \in Placeholder!CutSets
  <2>1. 1 \in C
    <3>1. Start(1)
      BY DEF Start, Placeholder!CutSets
    <3> QED
      BY <3>1
  <2>2. ASSUME NEW s \in C, s <= Len(query) PROVE Placeholder!TokenEnd(s) + 1 \in C
    <3>0. s \in 1 .. Len(query) /\ Placeholder!TokenEnd(s) \in s .. Len(query)
      BY <2>2, EndBounds
    <3>1. CASE s < p /\ Start(s)
      <4>1. Placeholder!TokenEnd(s) < p
        BY <3>0, <3>1 DEF Boundary
      <4>2. Start(Placeholder!TokenEnd(s) + 1)
        <5> SUFFICES ASSUME NEW S \in Placeholder!CutSets PROVE Placeholder!TokenEnd(s) + 1 \in S
          BY DEF Start
        <5>1. s \in S
          BY <3>1 DEF Start
        <5> QED
          BY <3>0, <5>1 DEF Placeholder!CutSets
      <4> QED
        BY <3>0, <4>1, <4>2
    <3>2. CASE s = p
      BY <1>1, <3>2
    <3>3. CASE e <= s
      BY <1>1, <3>0, <3>3
    <3> QED
      BY <1>1, <3>0, <3>1, <3>2, <3>3
  <2> HIDE DEF C
  <2>3. C \subseteq 1 .. Len(query) + 1
    BY DEF C
  <2> QED
    BY <2>1, <2>2, <2>3 DEF Placeholder!CutSets
<1>4. ASSUME NEW q \in 1 .. Len(query) + 1, Start(q) PROVE q <= p \/ e <= q
  BY <1>3, <1>4 DEF Start
<1> HIDE DEF e
<1>5. \A q \in p + 1 .. Placeholder!TokenEnd(p) : ~Start(q)
  <2> SUFFICES ASSUME NEW q \in p + 1 .. Placeholder!TokenEnd(p), Start(q) PROVE FALSE
    OBVIOUS
  <2>1. Placeholder!TokenEnd(p) \in p .. Len(query) /\ e = Placeholder!TokenEnd(p) + 1
    BY EndBounds DEF e
  <2>2. q \in 1 .. Len(query) + 1 /\ ~(q <= p) /\ ~(e <= q)
    BY <2>1
  <2> QED
    BY <1>4, <2>2
<1>6. ASSUME NEW s \in 1 .. Len(query), Start(s), s < e PROVE Placeholder!TokenEnd(s) < e
  <2>1. s <= p
    BY <1>1, <1>4, <1>6
  <2>2. CASE s = p
    <3>1. Placeholder!TokenEnd(p) \in p .. Len(query) /\ e = Placeholder!TokenEnd(p) + 1
      BY EndBounds DEF e
    <3> QED
      BY <2>2, <3>1
  <2>3. CASE s < p
    <3>1. Placeholder!TokenEnd(s) < p /\ Placeholder!TokenEnd(s) \in s .. Len(query)
      BY <1>6, <2>3, EndBounds DEF Boundary
    <3> QED
      BY <1>1, <3>1
  <2> QED
    BY <2>1, <2>2, <2>3
<1>7. Boundary(e)
  BY <1>1, <1>2, <1>6 DEF Boundary
<1> QED
  BY <1>5, <1>7 DEF e

(* The parameters before p.                                                *)
Counted(p) == {q \in 1 .. p - 1 : query[q] = "?" /\ Start(q)}

LEMMA CountedFinite ==
  ASSUME NEW p \in Nat
  PROVE  IsFiniteSet(Counted(p)) /\ Cardinality(Counted(p)) \in Nat
<1>1. IsFiniteSet(1 .. p - 1)
  BY FS_Interval
<1>2. IsFiniteSet(Counted(p))
  BY <1>1, FS_Subset DEF Counted
<1> QED
  BY <1>2, FS_CardinalityType

(* A token that is no parameter adds none, a question mark adds itself.    *)
LEMMA CountedNext ==
  ASSUME Len(query) \in Nat, NEW p \in 1 .. Len(query), Boundary(p)
  PROVE  /\ query[p] # "?" => Counted(Placeholder!TokenEnd(p) + 1) = Counted(p)
         /\ query[p] = "?" => /\ Placeholder!TokenEnd(p) = p
                              /\ Cardinality(Counted(p + 1)) = Cardinality(Counted(p)) + 1
<1> DEFINE e == Placeholder!TokenEnd(p)
<1>1. e \in p .. Len(query) /\ \A q \in p + 1 .. e : ~Start(q)
  BY EndBounds, NextBoundary
<1>2. ASSUME query[p] # "?" PROVE Counted(e + 1) = Counted(p)
  <2> HIDE DEF e
  <2>1. ASSUME NEW q PROVE q \in Counted(e + 1) <=> q \in Counted(p)
    BY <1>1, <1>2 DEF Counted
  <2> QED
    BY <2>1
<1>3. ASSUME query[p] = "?"
      PROVE  e = p /\ Cardinality(Counted(p + 1)) = Cardinality(Counted(p)) + 1
  <2>1. e = p
    <3>1. query[p] \notin Placeholder!Quotes
      BY <1>3 DEF Placeholder!Quotes
    <3>2. ~IsLine(p) /\ ~Placeholder!Starts2(p, "/", "*")
      BY <1>3 DEF IsLine, Placeholder!Starts2, Placeholder!At
    <3> QED
      BY <3>1, <3>2, TokenEndIs
  <2>2. Start(p)
    BY DEF Boundary
  <2>3. Counted(p + 1) = Counted(p) \cup {p} /\ p \notin Counted(p)
    BY <1>3, <2>2 DEF Counted
  <2>4. IsFiniteSet(Counted(p))
    BY CountedFinite
  <2> QED
    BY <2>1, <2>3, <2>4, FS_AddElement
<1> QED
  BY <1>2, <1>3

(* The backslashes just before p, at most back to s.                       *)
Run(s, p) ==
  IF Placeholder!Backslashes(p) > p - s - 1 THEN p - s - 1 ELSE Placeholder!Backslashes(p)

LEMMA BackslashesIs ==
  ASSUME NEW p \in Nat \ {0}
  PROVE  /\ Placeholder!Backslashes(p) \in Nat
         /\ Placeholder!Backslashes(p + 1) =
              IF query[p] = "backslash" THEN Placeholder!Backslashes(p) + 1 ELSE 0
<1> DEFINE B(x) == {k \in 1 .. x - 1 : \A m \in k .. x - 1 : query[m] = "backslash"}
<1>1. \A x : Placeholder!Backslashes(x) = Cardinality(B(x))
  BY DEF Placeholder!Backslashes, Placeholder!Cardinality, Cardinality
<1>2. IsFiniteSet(B(p))
  <2>1. IsFiniteSet(1 .. p - 1)
    BY FS_Interval
  <2> QED
    BY <2>1, FS_Subset
<1>3. Cardinality(B(p)) \in Nat
  BY <1>2, FS_CardinalityType
<1>4. CASE query[p] = "backslash"
  <2>1. B(p + 1) = B(p) \cup {p} /\ p \notin B(p)
    <3>1. ASSUME NEW k PROVE k \in B(p + 1) <=> k \in B(p) \/ k = p
      BY <1>4
    <3>2. p \notin B(p)
      OBVIOUS
    <3> HIDE DEF B
    <3> QED
      BY <3>1, <3>2
  <2> HIDE DEF B
  <2>2. Cardinality(B(p + 1)) = Cardinality(B(p)) + 1
    BY <1>2, <2>1, FS_AddElement
  <2> QED
    BY <1>1, <1>3, <1>4, <2>2
<1>5. CASE query[p] # "backslash"
  <2>1. B(p + 1) = {}
    BY <1>5
  <2> HIDE DEF B
  <2>2. Cardinality(B(p + 1)) = 0
    BY <2>1, FS_EmptySet
  <2> QED
    BY <1>1, <1>3, <1>5, <2>2
<1> QED
  BY <1>4, <1>5

LEMMA RunIs ==
  ASSUME NEW s \in Nat \ {0}, NEW p \in Nat, s < p
  PROVE  /\ Run(s, p) \in Nat /\ Run(s, s + 1) = 0
         /\ Run(s, p + 1) = IF query[p] = "backslash" THEN Run(s, p) + 1 ELSE 0
<1>1. /\ Placeholder!Backslashes(p) \in Nat /\ Placeholder!Backslashes(s + 1) \in Nat
      /\ Placeholder!Backslashes(p + 1) =
           IF query[p] = "backslash" THEN Placeholder!Backslashes(p) + 1 ELSE 0
  BY BackslashesIs
<1> QED
  BY <1>1 DEF Run

(* How far the loop has come: x, st and c are i, state and count.  In a    *)
(* token that started at s the parameters before s are counted, and the    *)
(* end of the token was not passed.                                        *)
InToken(s, c) ==
  Boundary(s) /\ query[s] # "?" /\ c = Cardinality(Counted(s))

InText(s, x, st) ==
  /\ query[s] = st
  /\ \A p \in s + 1 .. x - 1 : ~Placeholder!ClosesText(s, p)
  /\ st # "backtick" /\ x <= Len(query) => Run(s, x) % 2 = 0

InLine(s, x) == IsLine(s) /\ \A p \in s + 1 .. x - 1 : query[p] # "newline"

InBlock(s, x) ==
  /\ Placeholder!Starts2(s, "/", "*") /\ s + 2 <= x
  /\ \A p \in s + 3 .. x : ~Placeholder!Starts2(p - 1, "*", "/")

Reached(x, st, c) ==
  /\ st = "plain" => Boundary(x) /\ c = Cardinality(Counted(x))
  /\ st \in Placeholder!Quotes => \E s \in 1 .. x - 1 : InToken(s, c) /\ InText(s, x, st)
  /\ st = "line"  => \E s \in 1 .. x - 1 : InToken(s, c) /\ InLine(s, x)
  /\ st = "block" => \E s \in 1 .. x - 1 : InToken(s, c) /\ InBlock(s, x)

CountStates == {"plain", "line", "block"} \cup Placeholder!Quotes

CountInv ==
  /\ query \in Seq(Alphabet) /\ i \in 1 .. Len(query) + 1 /\ state \in CountStates
  /\ Reached(i, state, count)

(* What is said of the query stays, as the query does.                     *)
LEMMA CountInvKept ==
  ASSUME query' = query
  PROVE  CountInv' <=> /\ query \in Seq(Alphabet) /\ i' \in 1 .. Len(query) + 1
                       /\ state' \in CountStates /\ Reached(i', state', count')
BY DEF CountInv, CountStates, Reached, InToken, InText, InLine, InBlock, IsLine, Boundary, Start,
       Counted, Run, Placeholder!CutSets, Placeholder!TokenEnd, Placeholder!FirstIn,
       Placeholder!ClosesText, Placeholder!Starts2, Placeholder!At, Placeholder!Backslashes

(* An action of the loop, for every query with the characters allowed.     *)
Looping == CharactersOK /\ CountInv /\ i <= Len(query)

LEMMA LoopFacts ==
  ASSUME Looping
  PROVE  /\ Len(query) \in Nat /\ i \in 1 .. Len(query) /\ i \in Nat \ {0}
         /\ query[i] \in Alphabet /\ query[i] \notin {"return", "end"}
         /\ Placeholder!At(i) = query[i]
<1>1. query \in Seq(Alphabet) /\ i \in 1 .. Len(query) + 1 /\ i <= Len(query)
  BY DEF Looping, CountInv
<1>2. Len(query) \in Nat /\ i \in 1 .. Len(query)
  BY <1>1
<1>3. query[i] \in Alphabet
  BY <1>1, <1>2
<1> QED
  BY <1>2, <1>3 DEF Looping, CharactersOK, Placeholder!At

(* Between tokens: the token that starts here is one character, or is      *)
(* entered.                                                                *)
LEMMA PlainStep ==
  ASSUME Looping, Placeholder!Plain
  PROVE  i' \in 1 .. Len(query) + 1 /\ state' \in CountStates /\ Reached(i', state', count')
<1>1. /\ Len(query) \in Nat /\ i \in 1 .. Len(query) /\ i \in Nat \ {0}
      /\ Placeholder!At(i) = query[i]
  BY LoopFacts
<1>2. state = "plain" /\ Boundary(i) /\ count = Cardinality(Counted(i))
  BY DEF Looping, CountInv, Reached, Placeholder!Plain
<1> DEFINE dash  == /\ query[i] = "-" /\ Placeholder!At(i + 1) = "-"
                    /\ Placeholder!At(i + 2) \in Placeholder!Blank
           slash == query[i] = "/" /\ Placeholder!At(i + 1) = "*"
<1>3. /\ count' = IF query[i] = "?" THEN count + 1 ELSE count
      /\ state' = CASE query[i] \in Placeholder!Quotes -> query[i]
                    [] query[i] = "#" -> "line"
                    [] dash -> "line"
                    [] slash -> "block"
                    [] OTHER -> "plain"
      /\ i' = IF state' \in {"line", "block"} /\ query[i] # "#" THEN i + 2 ELSE i + 1
  BY <1>1 DEF Placeholder!Plain
<1>4. IsLine(i) <=> query[i] = "#" \/ dash
  BY <1>1 DEF IsLine, Placeholder!Starts2
<1>5. Placeholder!Starts2(i, "/", "*") <=> slash
  BY <1>1 DEF Placeholder!Starts2
<1>6. dash \/ slash => i + 1 <= Len(query)
  BY <1>1 DEF Placeholder!At, Placeholder!Blank
<1>7. CASE query[i] \in Placeholder!Quotes
  <2>1. state' = query[i] /\ i' = i + 1 /\ count' = count /\ query[i] \notin {"?", "plain", "line", "block"}
    BY <1>3, <1>7 DEF Placeholder!Quotes
  <2>2. InToken(i, count') /\ InText(i, i', state')
    <3>1. Run(i, i + 1) = 0
      <4>1. i + 1 \in Nat /\ i < i + 1
        BY <1>1
      <4> QED
        BY <1>1, <4>1, RunIs
    <3> QED
      BY <1>1, <1>2, <2>1, <3>1 DEF InToken, InText
  <2>3. i \in 1 .. i' - 1 /\ i' \in 1 .. Len(query) + 1
    BY <1>1, <2>1
  <2> QED
    BY <1>7, <2>1, <2>2, <2>3 DEF Reached, CountStates
<1>8. CASE query[i] = "#" \/ dash
  <2>1. /\ state' = "line" /\ count' = count /\ query[i] # "?"
        /\ i' = IF query[i] = "#" THEN i + 1 ELSE i + 2
    BY <1>3, <1>8 DEF Placeholder!Quotes
  <2>2. \A p \in i + 1 .. i' - 1 : query[p] # "newline"
    <3>1. CASE query[i] = "#"
      BY <1>1, <2>1, <3>1
    <3>2. CASE dash
      <4>1. query[i + 1] = "-" /\ i' = i + 2
        BY <1>6, <2>1, <3>2 DEF Placeholder!At
      <4> QED
        BY <1>1, <4>1
    <3> QED
      BY <1>8, <3>1, <3>2
  <2>3. InToken(i, count') /\ InLine(i, i')
    BY <1>2, <1>4, <1>8, <2>1, <2>2 DEF InToken, InLine
  <2>4. i \in 1 .. i' - 1 /\ i' \in 1 .. Len(query) + 1
    BY <1>1, <1>6, <1>8, <2>1
  <2> QED
    BY <2>1, <2>3, <2>4 DEF Reached, CountStates, Placeholder!Quotes
<1>9. CASE slash
  <2>1. state' = "block" /\ count' = count /\ query[i] # "?" /\ i' = i + 2
    BY <1>3, <1>9 DEF Placeholder!Quotes
  <2>2. InToken(i, count') /\ InBlock(i, i')
    BY <1>1, <1>2, <1>5, <1>9, <2>1 DEF InToken, InBlock
  <2>3. i \in 1 .. i' - 1 /\ i' \in 1 .. Len(query) + 1
    BY <1>1, <1>6, <1>9, <2>1
  <2> QED
    BY <2>1, <2>2, <2>3 DEF Reached, CountStates, Placeholder!Quotes
<1>10. CASE ~(query[i] \in Placeholder!Quotes \/ query[i] = "#" \/ dash \/ slash)
  <2>1. /\ state' = "plain" /\ i' = i + 1
        /\ count' = IF query[i] = "?" THEN count + 1 ELSE count
    BY <1>3, <1>10
  <2>2. Placeholder!TokenEnd(i) = i
    BY <1>1, <1>4, <1>5, <1>10, TokenEndIs
  <2>3. Boundary(i + 1)
    BY <1>1, <1>2, <2>2, NextBoundary
  <2>4. count' = Cardinality(Counted(i + 1))
    <3>1. query[i] # "?" => Counted(i + 1) = Counted(i)
      BY <1>1, <1>2, <2>2, CountedNext
    <3>2. query[i] = "?" => Cardinality(Counted(i + 1)) = Cardinality(Counted(i)) + 1
      BY <1>1, <1>2, CountedNext
    <3> QED
      BY <1>2, <2>1, <3>1, <3>2
  <2> QED
    BY <1>1, <2>1, <2>3, <2>4 DEF Reached, CountStates, Placeholder!Quotes
<1> QED
  BY <1>7, <1>8, <1>9, <1>10

(* The token that started at s ends at e: the loop is between tokens.      *)
LEMMA TokenDone ==
  ASSUME Len(query) \in Nat, NEW s \in 1 .. Len(query), NEW c, InToken(s, c),
         NEW e, Placeholder!TokenEnd(s) = e
  PROVE  Boundary(e + 1) /\ c = Cardinality(Counted(e + 1))
BY NextBoundary, CountedNext DEF InToken

LEMMA QuotedStep ==
  ASSUME Looping, Placeholder!Quoted
  PROVE  i' \in 1 .. Len(query) + 1 /\ state' \in CountStates /\ Reached(i', state', count')
<1>1. /\ Len(query) \in Nat /\ i \in 1 .. Len(query) /\ i \in Nat \ {0}
      /\ Placeholder!At(i) = query[i] /\ query[i] # "end"
  BY LoopFacts
<1> DEFINE esc  == query[i] = "backslash" /\ state # "backtick" /\ i < Len(query)
           next == Placeholder!At(i + 1) = state
<1>2. /\ state \in Placeholder!Quotes /\ count' = count
      /\ i' = IF esc \/ (query[i] = state /\ next) THEN i + 2 ELSE i + 1
      /\ state' = IF ~esc /\ query[i] = state /\ ~next THEN "plain" ELSE state
  BY <1>1 DEF Placeholder!Quoted, Placeholder!Escapes
<1>3. PICK s \in 1 .. i - 1 : InToken(s, count) /\ InText(s, i, state)
  BY <1>2 DEF Looping, CountInv, Reached
<1>4. /\ s \in 1 .. Len(query) /\ s < i /\ s \in Nat \ {0} /\ query[s] = state
      /\ \A p \in s + 1 .. i - 1 : ~Placeholder!ClosesText(s, p)
      /\ state # "backtick" => Run(s, i) % 2 = 0
  BY <1>1, <1>3 DEF InText
<1>5. state \notin {"backslash", "plain", "line", "block", "end"}
  BY <1>2 DEF Placeholder!Quotes
<1>6. /\ Run(s, i) \in Nat
      /\ Run(s, i + 1) = IF query[i] = "backslash" THEN Run(s, i) + 1 ELSE 0
      /\ Run(s, i + 2) = IF query[i + 1] = "backslash" THEN Run(s, i + 1) + 1 ELSE 0
  <2>1. i + 1 \in Nat /\ s < i + 1 /\ i \in Nat /\ (i + 1) + 1 = i + 2
    BY <1>1, <1>4
  <2>2. /\ Run(s, i) \in Nat
        /\ Run(s, i + 1) = IF query[i] = "backslash" THEN Run(s, i) + 1 ELSE 0
    BY <1>4, <2>1, RunIs
  <2>3. Run(s, (i + 1) + 1) = IF query[i + 1] = "backslash" THEN Run(s, i + 1) + 1 ELSE 0
    BY <1>4, <2>1, RunIs
  <2> QED
    BY <2>1, <2>2, <2>3
<1>7. \A p : Placeholder!ClosesText(s, p) <=>
               /\ p > s /\ query[p] = state /\ (state = "backtick" \/ Run(s, p) % 2 = 0)
  BY <1>4 DEF Placeholder!ClosesText, Run
<1>8. ASSUME state' = state, i' \in i + 1 .. Len(query) + 1, InText(s, i', state)
      PROVE  i' \in 1 .. Len(query) + 1 /\ state' \in CountStates /\ Reached(i', state', count')
  <2>1. s \in 1 .. i' - 1 /\ i' \in 1 .. Len(query) + 1
    <3>1. PICK j \in i + 1 .. Len(query) + 1 : i' = j
      BY <1>8, Zenon
    <3>2. s \in 1 .. j - 1 /\ j \in 1 .. Len(query) + 1
      <4> HIDE DEF esc, next
      <4> QED
        BY <1>1, <1>4
    <3> QED
      BY <3>1, <3>2, Zenon
  <2> QED
    BY <1>2, <1>3, <1>5, <1>8, <2>1 DEF Reached, CountStates
<1>9. CASE esc
  <2>1. i' = i + 2 /\ state' = state
    BY <1>2, <1>9
  <2>2. ~Placeholder!ClosesText(s, i)
    BY <1>5, <1>7, <1>9
  <2>3. ~Placeholder!ClosesText(s, i + 1)
    <3>1. Run(s, i + 1) = Run(s, i) + 1 /\ Run(s, i) % 2 = 0
      BY <1>4, <1>6, <1>9
    <3>2. Run(s, i + 1) % 2 # 0
      BY <1>6, <3>1
    <3> QED
      BY <1>7, <1>9, <3>2
  <2>4. Run(s, i + 2) % 2 = 0
    <3>1. Run(s, i + 1) = Run(s, i) + 1 /\ Run(s, i) % 2 = 0
      BY <1>4, <1>6, <1>9
    <3> QED
      BY <1>6, <3>1
  <2>5. \A p \in s + 1 .. i + 1 : ~Placeholder!ClosesText(s, p)
    BY <1>1, <1>4, <2>2, <2>3
  <2>6. InText(s, i', state)
    <3>1. (i + 2) - 1 = i + 1
      BY <1>1
    <3> QED
      BY <1>4, <2>1, <2>4, <2>5, <3>1 DEF InText
  <2>7. i' \in i + 1 .. Len(query) + 1
    BY <1>1, <1>9, <2>1
  <2> QED
    BY <1>8, <2>1, <2>6, <2>7
<1>10. CASE query[i] = state
  <2>1. Placeholder!ClosesText(s, i)
    BY <1>4, <1>7, <1>10
  <2>2. Placeholder!TokenEnd(s) = i
    <3>1. i \in TextEnds(s) /\ TextEnds(s) \subseteq Nat
      BY <1>1, <1>4, <2>1 DEF TextEnds
    <3>2. \A q \in TextEnds(s) : i <= q
      BY <1>1, <1>4 DEF TextEnds
    <3>3. Placeholder!FirstIn(TextEnds(s)) = i
      BY <3>1, <3>2, FirstInAt
    <3> QED
      BY <1>2, <1>4, <3>3, TokenEndIs
  <2>3. Boundary(i + 1) /\ count = Cardinality(Counted(i + 1))
    BY <1>1, <1>3, <1>4, <2>2, TokenDone
  <2>4. ~esc
    BY <1>5, <1>10
  <2>5. CASE next
    <3>1. i' = i + 2 /\ state' = state
      BY <1>2, <1>10, <2>4, <2>5
    <3>2. i + 1 \in 1 .. Len(query) /\ query[i + 1] = state
      BY <1>1, <1>5, <2>5 DEF Placeholder!At
    <3>3. InToken(i + 1, count')
      BY <1>2, <2>3, <3>2 DEF InToken, Placeholder!Quotes
    <3>4. InText(i + 1, i', state)
      <4>1. Run(i + 1, (i + 1) + 1) = 0
        <5>1. i + 1 \in Nat \ {0} /\ i + 2 \in Nat /\ i + 1 < i + 2
          BY <1>1
        <5> QED
          BY <5>1, RunIs
      <4>2. (i + 1) + 1 = i + 2 /\ (i + 2) - 1 = i + 1
        BY <1>1
      <4> QED
        BY <1>1, <3>1, <3>2, <4>1, <4>2 DEF InText
    <3>5. i + 1 \in 1 .. i' - 1 /\ i' \in 1 .. Len(query) + 1
      BY <1>1, <3>1, <3>2
    <3> QED
      BY <1>2, <1>5, <3>1, <3>3, <3>4, <3>5 DEF Reached, CountStates
  <2>6. CASE ~next
    <3>1. i' = i + 1 /\ state' = "plain"
      BY <1>2, <1>10, <2>4, <2>6
    <3> QED
      BY <1>1, <1>2, <2>3, <3>1 DEF Reached, CountStates, Placeholder!Quotes
  <2> QED
    BY <2>5, <2>6
<1>11. CASE ~esc /\ query[i] # state
  <2>1. i' = i + 1 /\ state' = state
    BY <1>2, <1>11
  <2>2. ~Placeholder!ClosesText(s, i)
    BY <1>7, <1>11
  <2>3. \A p \in s + 1 .. (i + 1) - 1 : ~Placeholder!ClosesText(s, p)
    BY <1>1, <1>4, <2>2
  <2>4. state # "backtick" /\ i + 1 <= Len(query) => Run(s, i + 1) % 2 = 0
    <3>1. state # "backtick" /\ i + 1 <= Len(query) => query[i] # "backslash"
      BY <1>1, <1>11
    <3> QED
      BY <1>6, <3>1
  <2>5. InText(s, i', state)
    BY <1>4, <2>1, <2>3, <2>4 DEF InText
  <2>6. i' \in i + 1 .. Len(query) + 1
    BY <1>1, <2>1
  <2> QED
    BY <1>8, <2>1, <2>5, <2>6
<1> QED
  BY <1>9, <1>10, <1>11

LEMMA LineStep ==
  ASSUME Looping, Placeholder!LineComment
  PROVE  i' \in 1 .. Len(query) + 1 /\ state' \in CountStates /\ Reached(i', state', count')
<1>1. /\ Len(query) \in Nat /\ i \in 1 .. Len(query) /\ i \in Nat \ {0}
      /\ Placeholder!At(i) = query[i] /\ query[i] # "return"
  BY LoopFacts
<1>2. /\ state = "line" /\ count' = count /\ i' = i + 1
      /\ state' = IF query[i] = "newline" THEN "plain" ELSE "line"
  BY <1>1 DEF Placeholder!LineComment
<1>3. PICK s \in 1 .. i - 1 : InToken(s, count) /\ InLine(s, i)
  BY <1>2 DEF Looping, CountInv, Reached
<1>4. /\ s \in 1 .. Len(query) /\ s < i /\ IsLine(s)
      /\ \A p \in s + 1 .. i - 1 : query[p] # "newline"
  BY <1>1, <1>3 DEF InLine
<1>5. CASE query[i] = "newline"
  <2>1. Placeholder!TokenEnd(s) = i
    <3>1. i \in LineEnds(s) /\ LineEnds(s) \subseteq Nat
      BY <1>1, <1>4, <1>5 DEF LineEnds
    <3>2. \A q \in LineEnds(s) : i <= q
      BY <1>1, <1>4 DEF LineEnds
    <3>3. Placeholder!FirstIn(LineEnds(s)) = i
      BY <3>1, <3>2, FirstInAt
    <3> QED
      BY <1>4, <3>3, TokenEndIs
  <2>2. Boundary(i + 1) /\ count = Cardinality(Counted(i + 1))
    BY <1>1, <1>3, <1>4, <2>1, TokenDone
  <2> QED
    BY <1>1, <1>2, <1>5, <2>2 DEF Reached, CountStates, Placeholder!Quotes
<1>6. CASE query[i] # "newline"
  <2>1. \A p \in s + 1 .. (i + 1) - 1 : query[p] # "newline"
    BY <1>1, <1>4, <1>6
  <2>2. InLine(s, i + 1) /\ s \in 1 .. (i + 1) - 1
    BY <1>1, <1>4, <2>1 DEF InLine
  <2> QED
    BY <1>1, <1>2, <1>3, <1>6, <2>2 DEF Reached, CountStates, Placeholder!Quotes
<1> QED
  BY <1>5, <1>6

LEMMA BlockStep ==
  ASSUME Looping, Placeholder!BlockComment
  PROVE  i' \in 1 .. Len(query) + 1 /\ state' \in CountStates /\ Reached(i', state', count')
<1>1. /\ Len(query) \in Nat /\ i \in 1 .. Len(query) /\ i \in Nat \ {0}
      /\ Placeholder!At(i) = query[i]
  BY LoopFacts
<1> DEFINE ends == query[i] = "*" /\ Placeholder!At(i + 1) = "/"
<1>2. /\ state = "block" /\ count' = count
      /\ i' = IF ends THEN i + 2 ELSE i + 1
      /\ state' = IF ends THEN "plain" ELSE "block"
  BY <1>1 DEF Placeholder!BlockComment
<1>3. PICK s \in 1 .. i - 1 : InToken(s, count) /\ InBlock(s, i)
  BY <1>2 DEF Looping, CountInv, Reached
<1>4. /\ s \in 1 .. Len(query) /\ s < i /\ s + 2 <= i /\ Placeholder!Starts2(s, "/", "*")
      /\ \A p \in s + 3 .. i : ~Placeholder!Starts2(p - 1, "*", "/")
  BY <1>1, <1>3 DEF InBlock
<1>5. (i + 1) - 1 = i
  BY <1>1
<1>6. Placeholder!Starts2((i + 1) - 1, "*", "/") <=> ends
  BY <1>1, <1>5 DEF Placeholder!Starts2
<1>7. CASE ends
  <2>1. i + 1 \in 1 .. Len(query)
    BY <1>1, <1>7 DEF Placeholder!At
  <2>2. Placeholder!TokenEnd(s) = i + 1
    <3>1. i + 1 \in BlockEnds(s) /\ BlockEnds(s) \subseteq Nat
      BY <1>1, <1>4, <1>6, <1>7, <2>1 DEF BlockEnds
    <3>2. \A q \in BlockEnds(s) : i + 1 <= q
      <4> SUFFICES ASSUME NEW q \in BlockEnds(s), ~(i + 1 <= q) PROVE FALSE
        OBVIOUS
      <4>1. q \in s + 3 .. i
        BY <1>1, <1>4 DEF BlockEnds
      <4>2. Placeholder!Starts2(q - 1, "*", "/")
        BY DEF BlockEnds
      <4> QED
        BY <1>4, <4>1, <4>2
    <3>3. Placeholder!FirstIn(BlockEnds(s)) = i + 1
      BY <3>1, <3>2, FirstInAt
    <3> QED
      BY <1>4, <3>3, TokenEndIs
  <2>3. Boundary((i + 1) + 1) /\ count = Cardinality(Counted((i + 1) + 1))
    BY <1>1, <1>3, <1>4, <2>2, TokenDone
  <2>4. (i + 1) + 1 = i + 2
    BY <1>1
  <2>5. /\ i' = i + 2 /\ state' = "plain" /\ count' = count
        /\ Boundary(i + 2) /\ count = Cardinality(Counted(i + 2))
    BY <1>2, <1>7, <2>3, <2>4
  <2>6. i' \in 1 .. Len(query) + 1
    <3>1. i + 2 \in 1 .. Len(query) + 1
      BY <1>1, <2>1
    <3> QED
      BY <2>5, <3>1, Zenon
  <2> QED
    BY <2>5, <2>6 DEF Reached, CountStates, Placeholder!Quotes
<1>8. CASE ~ends
  <2>1. \A p \in s + 3 .. i + 1 : ~Placeholder!Starts2(p - 1, "*", "/")
    <3> SUFFICES ASSUME NEW p \in s + 3 .. i + 1 PROVE ~Placeholder!Starts2(p - 1, "*", "/")
      OBVIOUS
    <3> HIDE DEF ends
    <3>1. p \in s + 3 .. i \/ p = i + 1
      BY <1>1, <1>4
    <3> QED
      BY <1>4, <1>6, <1>8, <3>1
  <2>2. InBlock(s, i + 1) /\ s \in 1 .. (i + 1) - 1
    <3>1. s + 2 <= i + 1 /\ s \in 1 .. (i + 1) - 1
      BY <1>1, <1>4
    <3> QED
      BY <1>4, <2>1, <3>1 DEF InBlock
  <2>3. i' = i + 1 /\ state' = "block" /\ count' = count /\ i + 1 \in 1 .. Len(query) + 1
    BY <1>1, <1>2, <1>8
  <2> QED
    BY <1>3, <2>2, <2>3 DEF Reached, CountStates, Placeholder!Quotes
<1> QED
  BY <1>7, <1>8

(* The loop starts between tokens, at the first character.                 *)
LEMMA CountStarts ==
  ASSUME Placeholder!Init
  PROVE  CountInv
<1>1. i = 1 /\ state = "plain" /\ count = 0
  BY DEF Placeholder!Init
<1>2. PICK n \in 0 .. MaxLength : query \in [1 .. n -> Alphabet]
  BY DEF Placeholder!Init
<1>3. query \in Seq(Alphabet) /\ Len(query) \in Nat
  BY <1>2, LengthAssumption
<1>4. Boundary(1)
  BY <1>3, FirstBoundary
<1>5. Cardinality(Counted(1)) = 0
  <2>1. Counted(1) = {}
    BY DEF Counted
  <2> QED
    BY <2>1, FS_EmptySet
<1>6. Reached(i, state, count)
  BY <1>1, <1>4, <1>5 DEF Reached, Placeholder!Quotes
<1> QED
  BY <1>1, <1>3, <1>6 DEF CountInv, CountStates

(* At the end of the query every token is over.                            *)
LEMMA CountEnds ==
  ASSUME CountInv, i > Len(query)
  PROVE  count = Placeholder!Cardinality(Placeholder!Parameters)
<1>1. Len(query) \in Nat /\ i = Len(query) + 1 /\ i \in Nat /\ state \in CountStates
  BY DEF CountInv
<1>2. Reached(i, state, count)
  BY DEF CountInv
<1>3. Placeholder!Cardinality(Placeholder!Parameters) = Cardinality(Counted(i))
  <2>1. Placeholder!Parameters = Counted(i)
    <3>1. \A q : q \in Placeholder!Parameters <=> q \in 1 .. Len(query) /\ Start(q) /\ query[q] = "?"
      BY DEF Placeholder!Parameters, Placeholder!TokenStarts, Start
    <3>2. (Len(query) + 1) - 1 = Len(query)
      BY <1>1
    <3>3. \A q : q \in Counted(i) <=> q \in 1 .. Len(query) /\ Start(q) /\ query[q] = "?"
      BY <1>1, <3>2 DEF Counted
    <3> QED
      BY <3>1, <3>3
  <2> QED
    BY <2>1 DEF Placeholder!Cardinality, Cardinality
<1>4. ASSUME NEW s \in 1 .. i - 1, InToken(s, count), Placeholder!TokenEnd(s) = Len(query)
      PROVE  count = Cardinality(Counted(i))
  <2>1. s \in 1 .. Len(query)
    BY <1>1
  <2> QED
    BY <1>1, <1>4, <2>1, TokenDone
<1>5. CASE state = "plain"
  BY <1>2, <1>3, <1>5 DEF Reached
<1>6. CASE state \in Placeholder!Quotes
  <2>1. PICK s \in 1 .. i - 1 : InToken(s, count) /\ InText(s, i, state)
    BY <1>2, <1>6 DEF Reached
  <2>2. s \in 1 .. Len(query) /\ query[s] \in Placeholder!Quotes
    BY <1>1, <1>6, <2>1 DEF InText
  <2>3. TextEnds(s) = {}
    BY <1>1, <2>1 DEF TextEnds, InText
  <2>4. Placeholder!FirstIn(TextEnds(s)) = Len(query)
    BY <2>3, FirstInIs
  <2> QED
    BY <1>3, <1>4, <2>1, <2>2, <2>4, TokenEndIs
<1>7. CASE state = "line"
  <2>1. PICK s \in 1 .. i - 1 : InToken(s, count) /\ InLine(s, i)
    BY <1>2, <1>7 DEF Reached
  <2>2. s \in 1 .. Len(query) /\ IsLine(s)
    BY <1>1, <2>1 DEF InLine
  <2>3. LineEnds(s) = {}
    BY <1>1, <2>1 DEF LineEnds, InLine
  <2>4. Placeholder!FirstIn(LineEnds(s)) = Len(query)
    BY <2>3, FirstInIs
  <2> QED
    BY <1>3, <1>4, <2>1, <2>2, <2>4, TokenEndIs
<1>8. CASE state = "block"
  <2>1. PICK s \in 1 .. i - 1 : InToken(s, count) /\ InBlock(s, i)
    BY <1>2, <1>8 DEF Reached
  <2>2. s \in 1 .. Len(query) /\ Placeholder!Starts2(s, "/", "*")
    BY <1>1, <2>1 DEF InBlock
  <2>3. BlockEnds(s) = {}
    <3> SUFFICES ASSUME NEW p \in BlockEnds(s) PROVE FALSE
      OBVIOUS
    <3>1. p \in s + 3 .. i /\ Placeholder!Starts2(p - 1, "*", "/")
      BY <1>1, <2>2 DEF BlockEnds
    <3> QED
      BY <2>1, <3>1 DEF InBlock
  <2>4. Placeholder!FirstIn(BlockEnds(s)) = Len(query)
    BY <2>3, FirstInIs
  <2> QED
    BY <1>3, <1>4, <2>1, <2>2, <2>4, TokenEndIs
<1> QED
  BY <1>1, <1>5, <1>6, <1>7, <1>8 DEF CountStates

LEMMA CountStep ==
  ASSUME CharactersOK, part = "query" => CountInv, [PartNext]_allVars
  PROVE  part' = "query" => CountInv'
<1> SUFFICES ASSUME part' = "query" PROVE CountInv'
  OBVIOUS
<1>1. part = "query" /\ (Placeholder!Next \/ UNCHANGED <<query, i, state, count>>)
  BY DEF PartNext, allVars, queryVars
<1>2. CountInv
  BY <1>1
<1>3. CASE UNCHANGED <<query, i, state, count>>
  <2>1. query' = query /\ i' = i /\ state' = state /\ count' = count
    BY <1>3
  <2>2. /\ query \in Seq(Alphabet) /\ i \in 1 .. Len(query) + 1 /\ state \in CountStates
        /\ Reached(i, state, count)
    BY <1>2 DEF CountInv
  <2>3. /\ i' \in 1 .. Len(query) + 1 /\ state' \in CountStates
        /\ Reached(i', state', count')
    BY <2>1, <2>2, Zenon
  <2> QED
    BY <2>1, <2>2, <2>3, CountInvKept, Zenon
<1>4. CASE Placeholder!Next
  <2>1. Looping /\ query' = query
    BY <1>2, <1>4 DEF Looping, Placeholder!Next
  <2>2. \/ Placeholder!Plain \/ Placeholder!Quoted
        \/ Placeholder!LineComment \/ Placeholder!BlockComment
    BY <1>4 DEF Placeholder!Next
  <2>3. /\ i' \in 1 .. Len(query) + 1 /\ state' \in CountStates
        /\ Reached(i', state', count')
    BY <2>1, <2>2, PlainStep, QuotedStep, LineStep, BlockStep, Zenon
  <2>4. query \in Seq(Alphabet)
    BY <1>2 DEF CountInv
  <2> QED
    BY <2>1, <2>3, <2>4, CountInvKept, Zenon
<1> QED
  BY <1>1, <1>3, <1>4

(* The number of parameters countPlaceholders returns is the number the    *)
(* reference finds, for queries of any length and any nesting of quotes,   *)
(* escapes and comments, broken off anywhere; they hold no carriage        *)
(* return.                                                                 *)
THEOREM CountAlwaysExact == ASSUME CharactersOK PROVE PartSpec => []CountExact
<1> DEFINE Inv == part = "query" => CountInv
<1>1. PartInit => Inv
  BY CountStarts DEF PartInit
<1>2. Inv /\ [PartNext]_allVars => Inv'
  BY CountStep
<1>3. Inv => CountExact
  BY CountEnds DEF CountExact, Placeholder!CountExact
<1> HIDE DEF Inv
<1> QED
  BY <1>1, <1>2, <1>3, PTL DEF PartSpec

-----------------------------------------------------------------------------
(***************************************************************************)
(* Values.  What survives is mostly a TIME: the digits of its fraction are *)
(* a number (Horner), the unit of its column divides that number, so the   *)
(* Arrow count is exact, and the digits taken out of the count again are   *)
(* those of the same number.  Both recursions, the one over the digits and *)
(* the powers of ten, are followed step by step: what holds of the first   *)
(* value and from each value to the next holds of all, as the set of its   *)
(* counterexamples would have a least.                                     *)
(***************************************************************************)

(* Induction over the places of a number, for a set of them.               *)
LEMMA StepByStep ==
  ASSUME NEW n \in Nat, NEW k \in 0 .. n, NEW S, k \in S,
         \A x \in k + 1 .. n : x - 1 \in S => x \in S
  PROVE  \A x \in k .. n : x \in S
<1> DEFINE T == {x \in k .. n : x \notin S}
<1> SUFFICES ASSUME T # {} PROVE FALSE
  OBVIOUS
<1>1. PICK x \in T : \A h \in T : x <= h
  <2>1. T \in SUBSET Nat
    OBVIOUS
  <2> QED
    BY <2>1, LeastOfSet
<1>2. x \in k + 1 .. n /\ x - 1 \in k .. n /\ x - 1 \notin T
  BY <1>1
<1> QED
  BY <1>2

(* Division of natural numbers by the places of a number.                  *)
LEMMA DivUnique ==
  ASSUME NEW d \in Nat \ {0}, NEW q \in Int, NEW r \in 0 .. d - 1
  PROVE  (q * d + r) \div d = q /\ (q * d + r) % d = r
OBVIOUS

(* Dividing twice is dividing by the product.                              *)
LEMMA DivDiv ==
  ASSUME NEW a \in Nat, NEW d \in Nat \ {0}, NEW e \in Nat \ {0}
  PROVE  a \div (d * e) = (a \div d) \div e
OBVIOUS

(* Quotient and rest of a natural number.                                  *)
LEMMA DivType ==
  ASSUME NEW a \in Nat, NEW d \in Nat \ {0}
  PROVE  a \div d \in Nat /\ a % d \in 0 .. d - 1 /\ a = (a \div d) * d + (a % d)
OBVIOUS

(* f is what the recursion over the digits ds computes, from first on.     *)
Horner(f, first, ds, n) ==
  f[0] = first /\ \A x \in 1 .. n : f[x] = 10 * f[x - 1] + ds[x]

(* One more digit.                                                         *)
LEMMA HornerMore ==
  ASSUME NEW k \in Nat, NEW first \in Nat, NEW ds, ds[k + 1] \in Nat,
         NEW f \in [0 .. k -> Nat], Horner(f, first, ds, k)
  PROVE  \E g \in [0 .. k + 1 -> Nat] : Horner(g, first, ds, k + 1)
<1> DEFINE next == 10 * f[k] + ds[k + 1]
           g    == [m \in 0 .. k + 1 |-> IF m <= k THEN f[m] ELSE next]
<1>1. next \in Nat
  OBVIOUS
<1>2. g \in [0 .. k + 1 -> Nat]
  BY <1>1
<1>3. \A m \in 0 .. k : g[m] = f[m]
  OBVIOUS
<1>4. g[k + 1] = next
  OBVIOUS
<1> HIDE DEF g
<1>5. ASSUME NEW x \in 1 .. k + 1 PROVE g[x] = 10 * g[x - 1] + ds[x]
  <2>1. CASE x <= k
    <3>1. x \in 1 .. k /\ x \in 0 .. k /\ x - 1 \in 0 .. k
      BY <2>1
    <3> QED
      BY <1>3, <3>1 DEF Horner
  <2>2. CASE x = k + 1
    <3>1. x - 1 = k /\ k \in 0 .. k
      BY <2>2
    <3> QED
      BY <1>3, <1>4, <2>2, <3>1
  <2> QED
    BY <2>1, <2>2
<1>6. g[0] = first
  BY <1>3 DEF Horner
<1> QED
  BY <1>2, <1>5, <1>6 DEF Horner

(* The recursion has a value for every sequence of digits.                 *)
LEMMA HornerExists ==
  ASSUME NEW n \in Nat, NEW first \in Nat, NEW ds \in [1 .. n -> Nat]
  PROVE  \E f \in [0 .. n -> Nat] : Horner(f, first, ds, n)
<1> DEFINE S == {k \in 0 .. n : \E f \in [0 .. k -> Nat] : Horner(f, first, ds, k)}
<1>1. 0 \in S
  <2>1. Horner([m \in 0 .. 0 |-> first], first, ds, 0)
    BY DEF Horner
  <2> QED
    BY <2>1
<1>2. ASSUME NEW k \in 0 + 1 .. n, k - 1 \in S PROVE k \in S
  <2>1. PICK f \in [0 .. k - 1 -> Nat] : Horner(f, first, ds, k - 1)
    BY <1>2
  <2>2. k - 1 \in Nat /\ (k - 1) + 1 = k /\ ds[k] \in Nat /\ k \in 0 .. n
    OBVIOUS
  <2>3. \E g \in [0 .. (k - 1) + 1 -> Nat] : Horner(g, first, ds, (k - 1) + 1)
    BY <2>1, <2>2, HornerMore
  <2>4. \E g \in [0 .. k -> Nat] : Horner(g, first, ds, k)
    BY <2>2, <2>3
  <2> QED
    BY <2>2, <2>4
<1> HIDE DEF S
<1>3. 0 \in 0 .. n
  OBVIOUS
<1>4. \A k \in 0 .. n : k \in S
  BY <1>1, <1>2, <1>3, StepByStep
<1>5. n \in S
  BY <1>4
<1> QED
  BY <1>5 DEF S

(* The number a sequence of digits stands for.                             *)
LEMMA NumberIs ==
  ASSUME NEW n \in Nat, NEW ds \in [1 .. n -> Nat]
  PROVE  \E f \in [0 .. n -> Nat] : Horner(f, 0, ds, n) /\ Value!Number(ds) = f[n]
<1>1. Len(ds) = n
  OBVIOUS
<1> DEFINE Sums(s) == s = [x \in 0 .. n |-> IF x = 0 THEN 0 ELSE 10 * s[x - 1] + ds[x]]
           sum == CHOOSE s : Sums(s)
<1>2. PICK f \in [0 .. n -> Nat] : Horner(f, 0, ds, n)
  BY HornerExists
<1>3. Sums(f)
  <2>1. \A x \in 0 .. n : f[x] = IF x = 0 THEN 0 ELSE 10 * f[x - 1] + ds[x]
    BY <1>2 DEF Horner
  <2>2. f = [x \in 0 .. n |-> f[x]]
    OBVIOUS
  <2> QED
    BY <2>1, <2>2, Zenon
<1>4. Sums(sum)
  BY <1>3, Zenon
<1>5. Value!Number(ds) = sum[n]
  BY <1>1, Zenon DEF Value!Number
<1> DEFINE e == [x \in 0 .. n |-> IF x = 0 THEN 0 ELSE 10 * sum[x - 1] + ds[x]]
<1>6. sum = e
  BY <1>4
<1> HIDE DEF sum
<1>7. \A x \in 0 .. n : e[x] = IF x = 0 THEN 0 ELSE 10 * sum[x - 1] + ds[x]
  OBVIOUS
<1>8. e = [x \in 0 .. n |-> e[x]]
  OBVIOUS
<1> HIDE DEF e, Sums
<1>9. /\ sum[0] = 0 /\ \A x \in 1 .. n : sum[x] = 10 * sum[x - 1] + ds[x]
      /\ sum = [x \in 0 .. n |-> sum[x]]
  <2>1. \A x \in 0 .. n : sum[x] = IF x = 0 THEN 0 ELSE 10 * sum[x - 1] + ds[x]
    BY <1>6, <1>7
  <2>2. sum[0] = 0
    BY <2>1
  <2>3. \A x \in 1 .. n : sum[x] = 10 * sum[x - 1] + ds[x]
    BY <2>1
  <2> QED
    BY <1>6, <1>8, <2>2, <2>3
<1>10. sum \in [0 .. n -> Nat]
  <2> DEFINE S == {x \in 0 .. n : sum[x] \in Nat}
  <2>1. 0 \in S
    BY <1>9
  <2>2. ASSUME NEW x \in 0 + 1 .. n, x - 1 \in S PROVE x \in S
    <3>1. x \in 1 .. n /\ x \in 0 .. n
      OBVIOUS
    <3>2. sum[x] = 10 * sum[x - 1] + ds[x] /\ ds[x] \in Nat
      BY <1>9, <3>1
    <3>3. sum[x - 1] \in Nat
      BY <2>2
    <3>4. sum[x] \in Nat
      BY ONLY <3>2, <3>3
    <3> QED
      BY <3>1, <3>4
  <2> HIDE DEF S
  <2>0. 0 \in 0 .. n
    OBVIOUS
  <2>3. \A x \in 0 .. n : x \in S
    BY <2>0, <2>1, <2>2, StepByStep
  <2>4. \A x \in 0 .. n : sum[x] \in Nat
    BY <2>3 DEF S
  <2> QED
    BY <1>9, <2>4
<1> QED
  BY <1>5, <1>9, <1>10 DEF Horner

-----------------------------------------------------------------------------
(* The digits of the finest fraction.                                      *)
Places == MicroDigits

(* The powers of ten up to a second.                                       *)
LEMMA PowersOfTen ==
  /\ Value!Pow10 \in [0 .. Places -> Nat \ {0}] /\ Value!Pow10[0] = 1
  /\ \A n \in 1 .. Places : Value!Pow10[n] = 10 * Value!Pow10[n - 1]
<1> DEFINE Powers(p) == p = [n \in 0 .. Places |-> IF n = 0 THEN 1 ELSE 10 * p[n - 1]]
           pow == CHOOSE p : Powers(p)
<1>0. Places \in Nat
  BY ValuesAssumption DEF Places
<1>1. PICK f \in [0 .. Places -> Nat] : Horner(f, 1, [n \in 1 .. Places |-> 0], Places)
  BY <1>0, HornerExists
<1>2. Powers(f)
  <2>1. ASSUME NEW n \in 1 .. Places PROVE f[n] = 10 * f[n - 1]
    <3>1. f[n] = 10 * f[n - 1] + [k \in 1 .. Places |-> 0][n]
      BY <1>1 DEF Horner
    <3>2. [k \in 1 .. Places |-> 0][n] = 0
      OBVIOUS
    <3>3. f[n - 1] \in Nat
      <4>1. n - 1 \in 0 .. Places
        BY <1>0
      <4> QED
        BY <1>1, <4>1
    <3> QED
      BY <3>1, <3>2, <3>3
  <2>2. f[0] = 1
    BY <1>1 DEF Horner
  <2>3. \A n \in 0 .. Places : f[n] = IF n = 0 THEN 1 ELSE 10 * f[n - 1]
    BY <2>1, <2>2
  <2>4. f = [n \in 0 .. Places |-> f[n]]
    BY <1>1
  <2> QED
    BY <2>3, <2>4, Zenon
<1>3. Powers(pow)
  BY <1>2, Zenon
<1>4. Value!Pow10 = pow
  BY Zenon DEF Value!Pow10, Places
<1> DEFINE e == [n \in 0 .. Places |-> IF n = 0 THEN 1 ELSE 10 * pow[n - 1]]
<1>5. pow = e
  BY <1>3
<1> HIDE DEF pow
<1>6. \A n \in 0 .. Places : e[n] = IF n = 0 THEN 1 ELSE 10 * pow[n - 1]
  OBVIOUS
<1>7. e = [n \in 0 .. Places |-> e[n]]
  OBVIOUS
<1> HIDE DEF e, Powers
<1>8. pow = [n \in 0 .. Places |-> pow[n]]
  BY <1>5, <1>7
<1>9. pow[0] = 1
  BY <1>0, <1>5, <1>6
<1>10. \A n \in 1 .. Places : pow[n] = 10 * pow[n - 1]
  BY <1>0, <1>5, <1>6
<1>11. \A n \in 0 .. Places : pow[n] \in Nat \ {0}
  <2> DEFINE S == {x \in 0 .. Places : pow[x] \in Nat \ {0}}
  <2>1. 0 \in 0 .. Places
    BY <1>0
  <2>2. 0 \in S
    BY <1>9, <2>1
  <2>3. ASSUME NEW x \in 0 + 1 .. Places, x - 1 \in S PROVE x \in S
    <3>1. x \in 1 .. Places /\ x \in 0 .. Places
      BY <1>0
    <3>2. pow[x] = 10 * pow[x - 1]
      BY <1>10, <3>1
    <3> QED
      BY <2>3, <3>1, <3>2
  <2> HIDE DEF S
  <2>4. \A x \in 0 .. Places : x \in S
    BY <1>0, <2>1, <2>2, <2>3, StepByStep
  <2> QED
    BY <2>4 DEF S
<1> QED
  BY <1>4, <1>8, <1>9, <1>10, <1>11

(* Ten to the power of n.                                                  *)
P10(n) == Value!Pow10[n]

(* What PowersOfTen says of one of them.                                   *)
LEMMA PowerAt ==
  ASSUME NEW n \in 0 .. Places
  PROVE  /\ P10(n) \in Nat \ {0} /\ P10(0) = 1 /\ Places \in Nat
         /\ n # 0 => P10(n) = 10 * P10(n - 1)
<1>1. Places \in Nat
  BY ValuesAssumption DEF Places
<1>2. n # 0 => n \in 1 .. Places
  BY <1>1
<1> QED
  BY <1>1, <1>2, PowersOfTen DEF P10

(* A sequence of digits is less than the power of ten of its length.       *)
LEMMA NumberBelow ==
  ASSUME NEW ds \in [1 .. Places -> 0 .. 9], NEW f \in [0 .. Places -> Nat],
         Horner(f, 0, ds, Places)
  PROVE  \A x \in 0 .. Places : f[x] < P10(x)
<1> DEFINE S == {x \in 0 .. Places : f[x] < P10(x)}
<1>0. Places \in Nat /\ 0 \in 0 .. Places
  BY ValuesAssumption DEF Places
<1>1. 0 \in S
  BY <1>0, PowerAt DEF Horner
<1>2. ASSUME NEW x \in 0 + 1 .. Places, x - 1 \in S PROVE x \in S
  <2>1. x \in 1 .. Places /\ x \in 0 .. Places /\ x # 0 /\ x - 1 \in 0 .. Places
    BY <1>0
  <2>2. /\ f[x] = 10 * f[x - 1] + ds[x] /\ ds[x] \in 0 .. 9
        /\ f[x - 1] \in Nat /\ f[x - 1] < P10(x - 1)
    BY <1>2, <2>1 DEF Horner
  <2>3. P10(x) = 10 * P10(x - 1) /\ P10(x - 1) \in Nat
    BY <2>1, PowerAt
  <2>4. f[x] < P10(x)
    BY <2>2, <2>3, SMTT(30)
  <2> QED
    BY <2>1, <2>4
<1> HIDE DEF S
<1>3. \A x \in 0 .. Places : x \in S
  BY <1>0, <1>1, <1>2, StepByStep
<1> QED
  BY <1>3 DEF S

(* Zeros at the end multiply by powers of ten.                             *)
LEMMA ZerosAtEnd ==
  ASSUME NEW ds \in [1 .. Places -> Nat], NEW f \in [0 .. Places -> Nat], Horner(f, 0, ds, Places),
         NEW k \in 0 .. Places, \A x \in k + 1 .. Places : ds[x] = 0
  PROVE  f[Places] = f[k] * P10(Places - k) /\ P10(Places) = P10(k) * P10(Places - k)
<1> DEFINE S == {x \in k .. Places : f[x] = f[k] * P10(x - k) /\ P10(x) = P10(k) * P10(x - k)}
<1>0. /\ Places \in Nat /\ k \in Nat /\ k <= Places /\ k \in k .. Places
      /\ k - k = 0 /\ 0 \in 0 .. Places
  BY ValuesAssumption DEF Places
<1>1. k \in S
  <2>1. f[k] \in Nat /\ P10(k) \in Nat /\ P10(0) = 1
    BY <1>0, PowerAt
  <2> QED
    BY <1>0, <2>1
<1>2. ASSUME NEW x \in k + 1 .. Places, x - 1 \in S PROVE x \in S
  <2>1. /\ x \in 1 .. Places /\ x \in 0 .. Places /\ x # 0 /\ x \in k .. Places
        /\ x - k \in 0 .. Places /\ x - k # 0 /\ (x - k) - 1 = (x - 1) - k
        /\ (x - 1) - k \in 0 .. Places /\ x - 1 \in 0 .. Places
    BY <1>0
  <2>2. /\ f[x] = 10 * f[x - 1] + ds[x] /\ ds[x] = 0 /\ f[x - 1] = f[k] * P10((x - 1) - k)
        /\ P10(x - 1) = P10(k) * P10((x - 1) - k) /\ f[k] \in Nat /\ f[x - 1] \in Nat
    BY <1>2, <2>1 DEF Horner
  <2>3. /\ P10(x - k) = 10 * P10((x - 1) - k) /\ P10((x - 1) - k) \in Nat /\ P10(k) \in Nat
        /\ P10(x) = 10 * P10(x - 1)
    BY <2>1, PowerAt
  <2> DEFINE a == P10((x - 1) - k)  b == P10(k)  c == P10(x - k)  g == f[k]
  <2>4. f[x] = 10 * (g * a) /\ P10(x) = 10 * (b * a) /\ c = 10 * a
    BY <2>2, <2>3
  <2>5. a \in Nat /\ b \in Nat /\ g \in Nat
    BY <2>2, <2>3
  <2> HIDE DEF a, b, c, g
  <2>6. 10 * (g * a) = g * (10 * a) /\ 10 * (b * a) = b * (10 * a)
    BY <2>5
  <2>7. f[x] = g * c /\ P10(x) = b * c
    BY <2>4, <2>6
  <2> QED
    BY <2>1, <2>7 DEF b, c, g
<1> HIDE DEF S
<1>3. \A x \in k .. Places : x \in S
  BY <1>0, <1>1, <1>2, StepByStep
<1>4. Places \in S
  BY <1>0, <1>3
<1> QED
  BY <1>4 DEF S

(* The digits taken from a number stand for it.                            *)
LEMMA DigitsOfNumber ==
  ASSUME NEW m \in Nat, m < P10(Places), NEW f \in [0 .. Places -> Nat],
         Horner(f, 0, [x \in 1 .. Places |-> (m \div P10(Places - x)) % 10], Places)
  PROVE  f[Places] = m
<1> DEFINE ds == [x \in 1 .. Places |-> (m \div P10(Places - x)) % 10]
           S  == {x \in 0 .. Places : f[x] = m \div P10(Places - x)}
<1>0. Places \in Nat /\ 0 \in 0 .. Places /\ Places \in 0 .. Places /\ Places - 0 = Places
      /\ Places - Places = 0
  BY ValuesAssumption DEF Places
<1>1. 0 \in S
  <2>1. P10(Places) \in Nat \ {0}
    BY <1>0, PowerAt
  <2>2. (0 * P10(Places) + m) \div P10(Places) = 0
    <3>1. m \in 0 .. P10(Places) - 1
      BY <2>1
    <3> QED
      BY <2>1, <3>1, DivUnique
  <2>3. m \div P10(Places) = 0
    BY <2>1, <2>2
  <2> QED
    BY <1>0, <2>3 DEF Horner
<1>2. ASSUME NEW x \in 0 + 1 .. Places, x - 1 \in S PROVE x \in S
  <2>1. /\ x \in 1 .. Places /\ x \in 0 .. Places
        /\ Places - x \in 0 .. Places /\ Places - (x - 1) \in 0 .. Places
        /\ Places - (x - 1) # 0 /\ (Places - (x - 1)) - 1 = Places - x
    BY <1>0
  <2>2. f[x] = 10 * f[x - 1] + ds[x] /\ f[x - 1] = m \div P10(Places - (x - 1))
    BY <1>2, <2>1 DEF Horner
  <2>3. ds[x] = (m \div P10(Places - x)) % 10
    BY <2>1
  <2> DEFINE d == P10(Places - x)
  <2>4. d \in Nat \ {0} /\ P10(Places - (x - 1)) = 10 * d
    BY <2>1, PowerAt
  <2> HIDE DEF d, ds
  <2>5. d * 10 = 10 * d
    BY <2>4
  <2>6. f[x - 1] = (m \div d) \div 10
    <3>1. m \div (d * 10) = (m \div d) \div 10
      BY <2>4, DivDiv
    <3> QED
      BY <2>2, <2>4, <2>5, <3>1
  <2>7. m \div d \in Nat
    BY <2>4, DivType
  <2>8. f[x] = m \div d
    <3>0. \A q \in Nat : q = (q \div 10) * 10 + (q % 10) /\ q \div 10 \in Nat /\ q % 10 \in Nat
      OBVIOUS
    <3>1. m \div d = ((m \div d) \div 10) * 10 + ((m \div d) % 10)
      BY <2>7, <3>0, Zenon
    <3>2. (m \div d) \div 10 \in Nat /\ (m \div d) % 10 \in Nat
      BY <2>7, <3>0, Zenon
    <3> QED
      BY <2>2, <2>3, <2>6, <3>1, <3>2 DEF d
  <2> QED
    BY <2>1, <2>8 DEF d
<1> HIDE DEF S, ds
<1>3. \A x \in 0 .. Places : x \in S
  BY <1>0, <1>1, <1>2, StepByStep
<1>4. f[Places] = m \div P10(0)
  <2>1. Places \in S
    BY <1>0, <1>3
  <2> QED
    BY <1>0, <2>1 DEF S
<1>5. m \div 1 = m
  OBVIOUS
<1> QED
  BY <1>0, <1>4, <1>5, PowerAt

-----------------------------------------------------------------------------
(* The parts of a TIME, from the outside to the digits of its fraction.    *)
TicksOf(h, m, s, n) == ((h * 60 + m) * 60 + s) * P10(Places) + n

(* Parts that are numbers make a number.                                   *)
LEMMA TicksTyped ==
  ASSUME NEW h \in Nat, NEW m \in Nat, NEW s \in Nat, NEW n \in Nat
  PROVE  TicksOf(h, m, s, n) \in Nat
<1>1. P10(Places) \in Nat
  <2>1. Places \in 0 .. Places
    BY ValuesAssumption DEF Places
  <2> QED
    BY <2>1, PowerAt
<1> QED
  BY <1>1 DEF TicksOf

(* The parts ConvertArrowToGo takes out of a duration again.               *)
HoursOf(x)   == x \div (3600 * P10(Places))
MinutesOf(x) == (x \div (60 * P10(Places))) % 60
SecondsOf(x) == (x \div P10(Places)) % 60
RestOf(x)    == x % P10(Places)

(* Minutes and seconds below sixty, and less than a second besides.        *)
ClockTime(h, m, s, n) == h \in Nat /\ m \in 0 .. 59 /\ s \in 0 .. 59 /\ n \in 0 .. P10(Places) - 1

(* They are the parts of x.                                                *)
Taken(x, h, m, s, n) == HoursOf(x) = h /\ MinutesOf(x) = m /\ SecondsOf(x) = s /\ RestOf(x) = n

(* What is put together from the parts gives the parts back.               *)
LEMMA TicksTaken ==
  ASSUME NEW h, NEW m, NEW s, NEW n, ClockTime(h, m, s, n)
  PROVE  Taken(TicksOf(h, m, s, n), h, m, s, n)
<1>0. h \in Nat /\ m \in 0 .. 59 /\ s \in 0 .. 59 /\ n \in 0 .. P10(Places) - 1
  BY DEF ClockTime
<1> DEFINE t == P10(Places)  a == (h * 60 + m) * 60 + s  x == TicksOf(h, m, s, n)
<1>1. t \in Nat \ {0}
  <2>1. Places \in 0 .. Places
    BY ValuesAssumption DEF Places
  <2> QED
    BY <2>1, PowerAt
<1>2. a \in Nat /\ h * 60 + m \in Nat
  BY <1>0
<1>3. x = a * t + n
  BY DEF TicksOf
<1>4. x \in Nat
  <2>1. h \in Nat /\ m \in Nat /\ s \in Nat /\ n \in Nat
    BY <1>0, <1>1
  <2> HIDE DEF t, x, a
  <2> QED
    BY <2>1, TicksTyped DEF x
<1> HIDE DEF t, x
<1>5. n \in 0 .. t - 1
  BY <1>0 DEF t
<1>6. x \div t = a /\ x % t = n
  <2> HIDE DEF a
  <2> QED
    BY <1>1, <1>2, <1>3, <1>5, DivUnique
<1>7. a \div 60 = h * 60 + m /\ a % 60 = s
  BY <1>0, <1>2, DivUnique
<1>8. (h * 60 + m) \div 60 = h /\ (h * 60 + m) % 60 = m
  BY <1>0, DivUnique
<1>9. x \div (60 * t) = h * 60 + m
  <2>1. x \div (t * 60) = (x \div t) \div 60
    <3>1. 60 \in Nat \ {0}
      OBVIOUS
    <3> QED
      BY <1>1, <1>4, <3>1, DivDiv, Zenon
  <2>2. t * 60 = 60 * t
    BY <1>1
  <2> QED
    BY <1>6, <1>7, <2>1, <2>2
<1>10. x \div (3600 * t) = h
  <2>1. x \div ((60 * t) * 60) = (x \div (60 * t)) \div 60
    <3>1. 60 * t \in Nat \ {0} /\ 60 \in Nat \ {0}
      BY <1>1
    <3> QED
      BY <1>4, <3>1, DivDiv, ZenonT(60)
  <2>2. (60 * t) * 60 = 3600 * t
    BY <1>1
  <2> QED
    BY <1>8, <1>9, <2>1, <2>2
<1> QED
  BY <1>6, <1>7, <1>8, <1>9, <1>10 DEF t, x, HoursOf, MinutesOf, SecondsOf, RestOf, Taken

(* A count of any unit that divides a TIME is the whole of it, before and  *)
(* after zero.                                                             *)
LEMMA UnitWhole ==
  ASSUME NEW x \in Nat, NEW t \in Nat \ {0}, NEW c \in Nat, x = c * t
  PROVE  Value!Quotient(x, t) * t = x /\ Value!Quotient(-x, t) * t = -x
<1>1. x \div t = c
  <2>1. (c * t + 0) \div t = c
    BY DivUnique
  <2>2. c * t + 0 = c * t
    OBVIOUS
  <2> QED
    BY <2>1, <2>2
<1>2. Value!Quotient(x, t) = c
  BY <1>1 DEF Value!Quotient
<1>3. CASE x = 0
  <2>1. -x = x
    BY <1>3
  <2> QED
    BY <1>2, <2>1
<1>4. CASE x # 0
  <2>1. ~(-x >= 0) /\ -(-x) = x
    BY <1>4
  <2>2. Value!Quotient(-x, t) = -c
    BY <1>1, <2>1 DEF Value!Quotient
  <2>3. (-c) * t = -(c * t)
    OBVIOUS
  <2> QED
    BY <1>2, <2>2, <2>3
<1> QED
  BY <1>3, <1>4

-----------------------------------------------------------------------------
(* A TIME the server may send, with the digits of its fraction.            *)
Timed(text, p) ==
  /\ p \in 0 .. Places
  /\ text.kind = "time" /\ text.negative \in BOOLEAN
  /\ text.hours \in Nat /\ text.minutes \in Nat /\ text.seconds \in Nat
  /\ text.fraction \in [1 .. p -> 0 .. 9]

(* All TIMEs the server sends are such.                                    *)
LEMMA TextsTimed ==
  ASSUME NEW p \in 0 .. Places, NEW text \in Value!TimeTexts(p)
  PROVE  Timed(text, p)
<1>1. \A f \in [1 .. p -> Fractions] : f \in [1 .. p -> 0 .. 9]
  BY ValuesAssumption
<1> QED
  BY <1>1, ValuesAssumption DEF Timed, Value!TimeTexts

(* The digits of a fraction, filled up with zeros.                         *)
LEMMA DigitsAre ==
  ASSUME NEW p \in 0 .. Places, NEW text, text.fraction \in [1 .. p -> 0 .. 9]
  PROVE  /\ Value!Digits(text) \in [1 .. Places -> 0 .. 9]
         /\ \A x \in p + 1 .. Places : Value!Digits(text)[x] = 0
         /\ p = Places => Value!Digits(text) = text.fraction
<1>1. Places \in Nat /\ p \in Nat /\ MicroDigits = Places
  BY ValuesAssumption DEF Places
<1>2. Len(text.fraction) = p
  BY <1>1
<1>3. Value!Digits(text) = [x \in 1 .. Places |-> IF x <= p THEN text.fraction[x] ELSE 0]
  BY <1>1, <1>2 DEF Value!Digits
<1>4. \A x \in 1 .. Places : x <= p => text.fraction[x] \in 0 .. 9
  BY <1>1
<1>5. Value!Digits(text) \in [1 .. Places -> 0 .. 9]
  BY <1>3, <1>4
<1>6. \A x \in p + 1 .. Places : Value!Digits(text)[x] = 0
  BY <1>1, <1>3
<1>7. p = Places => Value!Digits(text) = text.fraction
  BY <1>1, <1>3
<1> QED
  BY <1>5, <1>6, <1>7

(* The number of the digits, and the unit of the column divides it.        *)
LEMMA FractionIs ==
  ASSUME NEW p \in 0 .. Places, NEW text, text.fraction \in [1 .. p -> 0 .. 9]
  PROVE  /\ Value!Number(Value!Digits(text)) \in 0 .. P10(Places) - 1
         /\ \A k \in p .. Places : \E g \in Nat :
              /\ Value!Number(Value!Digits(text)) = g * P10(Places - k)
              /\ P10(Places) = P10(k) * P10(Places - k)
<1> DEFINE ds == Value!Digits(text)
<1>1. Places \in Nat /\ Places \in 0 .. Places /\ ds \in [1 .. Places -> 0 .. 9]
  BY DigitsAre, ValuesAssumption DEF Places
<1>2. ds \in [1 .. Places -> Nat]
  BY <1>1
<1>3. \A x \in p + 1 .. Places : ds[x] = 0
  BY DigitsAre
<1> HIDE DEF ds
<1>4. PICK f \in [0 .. Places -> Nat] : Horner(f, 0, ds, Places) /\ Value!Number(ds) = f[Places]
  BY <1>1, <1>2, NumberIs
<1>5. f[Places] < P10(Places) /\ f[Places] \in Nat
  BY <1>1, <1>4, NumberBelow
<1>6. Value!Number(ds) \in 0 .. P10(Places) - 1
  BY <1>1, <1>4, <1>5, PowerAt
<1>7. ASSUME NEW k \in p .. Places
      PROVE  \E g \in Nat : /\ Value!Number(ds) = g * P10(Places - k)
                            /\ P10(Places) = P10(k) * P10(Places - k)
  <2>1. k \in 0 .. Places /\ \A x \in k + 1 .. Places : ds[x] = 0
    BY <1>1, <1>3
  <2>2. f[Places] = f[k] * P10(Places - k) /\ P10(Places) = P10(k) * P10(Places - k)
    BY <1>2, <1>4, <2>1, ZerosAtEnd
  <2>3. f[k] \in Nat
    BY <1>4, <2>1
  <2> QED
    BY <1>4, <2>2, <2>3
<1> QED
  BY <1>6, <1>7 DEF ds

(* What parseMariaDBDuration computes without the sign.                    *)
LEMMA ParsedIsTicks ==
  ASSUME NEW text
  PROVE  Value!ParsedTicks(text) =
           TicksOf(text.hours, text.minutes, text.seconds, Value!Number(Value!Digits(text)))
BY DEF Value!ParsedTicks, TicksOf, Value!Second, P10, Places

(* A column of p digits has a unit that divides all its values.            *)
LEMMA UnitDivides ==
  ASSUME NEW p \in 0 .. Places, NEW text, Timed(text, p), NEW unit, unit = Value!TimeUnit(p)
  PROVE  /\ Value!Ticks(unit) \in Nat \ {0} /\ Value!ParsedTicks(text) \in Nat
         /\ \E c \in Nat : Value!ParsedTicks(text) = c * Value!Ticks(unit)
<1> DEFINE h == text.hours  m == text.minutes  s == text.seconds
           a == (h * 60 + m) * 60 + s
           n == Value!Number(Value!Digits(text))
           x == Value!ParsedTicks(text)
<1>0. /\ Places \in Nat /\ Places \in 0 .. Places /\ 0 \in 0 .. Places /\ MicroDigits = Places
      /\ MilliDigits \in Nat \ {0} /\ MilliDigits \in 0 .. Places /\ p # None
      /\ Places - MilliDigits \in 0 .. Places /\ Places - 0 = Places
  BY ValuesAssumption DEF Places
<1>1. n \in 0 .. P10(Places) - 1 /\ P10(Places) \in Nat
  BY <1>0, FractionIs, PowerAt DEF Timed
<1>2. h \in Nat /\ m \in Nat /\ s \in Nat /\ n \in Nat
  BY <1>1 DEF Timed
<1>3. x = TicksOf(h, m, s, n)
  BY ParsedIsTicks
<1> HIDE DEF h, m, s, n, x
<1>4. x \in Nat
  BY <1>2, <1>3, TicksTyped
<1>5. a \in Nat /\ x = a * P10(Places) + n
  BY <1>2, <1>3 DEF TicksOf
<1> HIDE DEF a
<1>6. CASE p <= 0
  <2>1. unit = "s"
    BY <1>0, <1>6 DEF Value!TimeUnit
  <2>2. Value!Ticks(unit) = P10(Places)
    BY <1>0, <2>1 DEF Value!Ticks, Value!Second, P10
  <2>3. 0 \in p .. Places
    BY <1>0, <1>6
  <2>4. PICK g \in Nat : n = g * P10(Places - 0)
    BY <2>3, FractionIs DEF Timed, n
  <2>5. P10(Places) \in Nat \ {0}
    BY <1>0, PowerAt
  <2>6. x = (a + g) * P10(Places)
    BY <1>0, <1>5, <2>4, <2>5
  <2>7. a + g \in Nat
    BY <1>5
  <2> QED
    BY <1>4, <2>2, <2>5, <2>6, <2>7 DEF x
<1>7. CASE p > 0 /\ p \in 1 .. MilliDigits
  <2>1. unit = "ms"
    BY <1>0, <1>7 DEF Value!TimeUnit
  <2>2. Value!Ticks(unit) = P10(Places - MilliDigits)
    BY <1>0, <2>1 DEF Value!Ticks, P10
  <2>3. MilliDigits \in p .. Places
    BY <1>0, <1>7
  <2>4. PICK g \in Nat : /\ n = g * P10(Places - MilliDigits)
                         /\ P10(Places) = P10(MilliDigits) * P10(Places - MilliDigits)
    BY <2>3, FractionIs DEF Timed, n
  <2>5. P10(Places - MilliDigits) \in Nat \ {0} /\ P10(MilliDigits) \in Nat
    BY <1>0, PowerAt
  <2> DEFINE t == P10(Places - MilliDigits)  k == P10(MilliDigits)
  <2>6. x = (a * k + g) * t /\ a * k + g \in Nat
    <3>1. t \in Nat /\ k \in Nat /\ x = a * (k * t) + g * t
      BY <1>5, <2>4, <2>5
    <3> HIDE DEF t, k
    <3> QED
      BY <1>5, <3>1
  <2> QED
    BY <1>4, <2>2, <2>5, <2>6 DEF x
<1>8. CASE ~(p <= 0) /\ p \notin 1 .. MilliDigits
  <2>1. unit = "us"
    BY <1>0, <1>8 DEF Value!TimeUnit
  <2>2. Value!Ticks(unit) = 1
    BY <2>1 DEF Value!Ticks
  <2>3. x = x * 1
    BY <1>4
  <2> QED
    BY <1>4, <2>2, <2>3 DEF x
<1> QED
  BY <1>0, <1>6, <1>7, <1>8

(* A count of a unit that stands for the TIME of these parts, of either    *)
(* sign, and b what ConvertArrowToGo formats from it.                      *)
Exact(h, m, s, n, x, k, y, unit, b) ==
  /\ h \in Nat /\ m \in 0 .. 59 /\ s \in 0 .. 59 /\ n \in 0 .. P10(Places) - 1
  /\ x = TicksOf(h, m, s, n) /\ k \in Int
  /\ y = k * Value!Ticks(unit) /\ (y = x \/ y = -x)
  /\ b = Value!Formatted(k, unit)

(* The parts are found in b again.                                         *)
Recovered(h, m, s, n, x, y, b) ==
  /\ b.hours = h /\ b.minutes = m /\ b.seconds = s
  /\ Value!Number(Value!Digits(b)) = n
  /\ b.negative = (y < 0) /\ Value!ParsedTicks(b) = x

(* What is formatted from a count that is exact is the TIME it came from.  *)
LEMMA FormattedIs ==
  ASSUME NEW h, NEW m, NEW s, NEW n, NEW x, NEW k, NEW y, NEW unit, NEW b,
         Exact(h, m, s, n, x, k, y, unit, b)
  PROVE  Recovered(h, m, s, n, x, y, b)
<1> DEFINE ticks    == k * Value!Ticks(unit)
           duration == IF ticks < 0 THEN -ticks ELSE ticks
           micros   == duration % P10(Places)
           fraction == [j \in 1 .. Places |-> (micros \div P10(Places - j)) % 10]
<1>. /\ h \in Nat /\ m \in 0 .. 59 /\ s \in 0 .. 59 /\ n \in 0 .. P10(Places) - 1
     /\ x = TicksOf(h, m, s, n) /\ k \in Int
     /\ y = k * Value!Ticks(unit) /\ (y = x \/ y = -x)
     /\ b = Value!Formatted(k, unit)
  BY DEF Exact
<1>0. /\ Places \in Nat /\ Places \in 0 .. Places /\ MicroDigits = Places
      /\ Value!Second = P10(Places) /\ P10(Places) \in Nat \ {0}
  <2>1. Places \in Nat /\ Places \in 0 .. Places /\ MicroDigits = Places
    BY ValuesAssumption DEF Places
  <2>2. Value!Second = P10(Places)
    BY DEF Value!Second, P10, Places
  <2> QED
    BY <2>1, <2>2, PowerAt
<1>1. x \in Nat
  <2>1. m \in Nat /\ s \in Nat /\ n \in Nat
    BY <1>0
  <2> QED
    BY <2>1, TicksTyped
<1>2. duration = x
  <2> HIDE DEF ticks
  <2>1. ticks = x \/ ticks = -x
    BY DEF ticks
  <2> QED
    BY <1>1, <2>1
<1>3. b = [kind |-> "time", negative |-> ticks < 0,
           hours |-> duration \div (3600 * P10(Places)),
           minutes |-> (duration \div (60 * P10(Places))) % 60,
           seconds |-> (duration \div P10(Places)) % 60,
           fraction |-> fraction]
  BY Zenon DEF Value!Formatted, Value!Second, P10, Places
<1> HIDE DEF ticks, duration, fraction
<1>4. /\ b.negative = (ticks < 0) /\ b.hours = duration \div (3600 * P10(Places))
      /\ b.minutes = (duration \div (60 * P10(Places))) % 60
      /\ b.seconds = (duration \div P10(Places)) % 60 /\ b.fraction = fraction
  BY <1>3
<1>5. b.hours = h /\ b.minutes = m /\ b.seconds = s /\ micros = n
  <2>1. /\ b.hours = HoursOf(duration) /\ b.minutes = MinutesOf(duration)
        /\ b.seconds = SecondsOf(duration) /\ micros = RestOf(duration)
    BY <1>4 DEF HoursOf, MinutesOf, SecondsOf, RestOf
  <2>2. duration = TicksOf(h, m, s, n)
    BY <1>2
  <2> HIDE DEF micros
  <2> QED
    <3> DEFINE y1 == TicksOf(h, m, s, n)
    <3>1. Taken(y1, h, m, s, n)
      <4>1. ClockTime(h, m, s, n)
        BY DEF ClockTime
      <4> QED
        BY ONLY <4>1, TicksTaken, Zenon
    <3>2. duration = y1
      BY <2>2
    <3> HIDE DEF y1
    <3> QED
      BY ONLY <2>1, <3>1, <3>2 DEF Taken
<1> HIDE DEF micros
<1>6. Value!Number(Value!Digits(b)) = n
  <2>1. fraction \in [1 .. Places -> 0 .. 9]
    <3>1. ASSUME NEW j \in 1 .. Places PROVE (micros \div P10(Places - j)) % 10 \in 0 .. 9
      <4>1. Places - j \in 0 .. Places
        BY <1>0
      <4>2. P10(Places - j) \in Nat \ {0}
        BY <4>1, PowerAt
      <4>3. micros \in Nat
        BY <1>0, <1>5
      <4>4. micros \div P10(Places - j) \in Nat
        BY <4>2, <4>3, DivType
      <4> QED
        BY <4>4
    <3> QED
      BY <3>1 DEF fraction
  <2>2. Value!Digits(b) = fraction
    <3>1. b.fraction = fraction /\ b.fraction \in [1 .. Places -> 0 .. 9]
      BY <1>4, <2>1
    <3> QED
      BY <1>0, <3>1, DigitsAre, Zenon
  <2>3. fraction \in [1 .. Places -> Nat]
    BY <2>1
  <2>4. PICK f \in [0 .. Places -> Nat] :
          Horner(f, 0, fraction, Places) /\ Value!Number(fraction) = f[Places]
    BY <1>0, <2>3, NumberIs
  <2>5. micros \in Nat /\ micros < P10(Places)
    BY <1>0, <1>5
  <2>6. f[Places] = micros
    BY <2>4, <2>5, DigitsOfNumber DEF fraction
  <2> QED
    BY <1>5, <2>2, <2>4, <2>6
<1>7. Value!ParsedTicks(b) = x
  BY <1>5, <1>6, ParsedIsTicks
<1> QED
  BY <1>4, <1>5, <1>6, <1>7 DEF ticks, Recovered

(* A TIME of a column survives the unit the converter chose.               *)
LEMMA TimeKept ==
  ASSUME NEW p \in 0 .. Places, NEW text, Timed(text, p), Value!ValidText(text),
         NEW unit, unit = Value!TimeUnit(p)
  PROVE  Value!SameTime(
           Value!Formatted(
             Value!Quotient(Value!parseMariaDBDuration(text), Value!Ticks(unit)), unit),
           text)
<1> DEFINE h == text.hours  m == text.minutes  s == text.seconds
           n == Value!Number(Value!Digits(text))
           x == Value!ParsedTicks(text)
           t == Value!Ticks(unit)
           d == Value!parseMariaDBDuration(text)
           k == Value!Quotient(d, t)
           b == Value!Formatted(k, unit)
<1>1. h \in Nat /\ m \in 0 .. 59 /\ s \in 0 .. 59 /\ text.negative \in BOOLEAN
  <2>1. h \in Nat /\ m \in Nat /\ s \in Nat /\ text.negative \in BOOLEAN
    BY DEF Timed
  <2>2. m <= 59 /\ s <= 59
    BY DEF Value!ValidText
  <2> HIDE DEF h, m, s
  <2> QED
    BY <2>1, <2>2
<1>2. n \in 0 .. P10(Places) - 1
  BY FractionIs DEF Timed
<1>3. x = TicksOf(h, m, s, n)
  BY ParsedIsTicks
<1>4. t \in Nat \ {0} /\ x \in Nat
  BY UnitDivides
<1>5. PICK c \in Nat : x = c * t
  BY UnitDivides
<1>6. d = IF text.negative THEN -x ELSE x
  BY DEF Value!parseMariaDBDuration
<1>7. k * t = d /\ k \in Int
  <2>1. Value!Quotient(x, t) * t = x /\ Value!Quotient(-x, t) * t = -x
    BY <1>4, <1>5, UnitWhole
  <2>2. \A y \in Int : Value!Quotient(y, t) \in Int
    BY <1>4 DEF Value!Quotient
  <2>3. d \in Int
    BY <1>4, <1>6
  <2> HIDE DEF t, x, d
  <2> QED
    BY <1>6, <2>1, <2>2, <2>3
<1> HIDE DEF h, m, s, n, x, t, d, k, b
<1>8. k * t = x \/ k * t = -x
  BY <1>6, <1>7
<1>9. /\ b.hours = h /\ b.minutes = m /\ b.seconds = s
      /\ Value!Number(Value!Digits(b)) = n
      /\ b.negative = (k * t < 0) /\ Value!ParsedTicks(b) = x
  <2>2. b = Value!Formatted(k, unit)
    BY DEF b
  <2> QED
    <3> DEFINE y == k * t
    <3>1. y = k * Value!Ticks(unit) /\ (y = x \/ y = -x)
      BY <1>8 DEF t
    <3>2. h \in Nat /\ m \in 0 .. 59 /\ s \in 0 .. 59 /\ n \in 0 .. P10(Places) - 1 /\ k \in Int
      BY <1>1, <1>2, <1>7
    <3>3. x = TicksOf(h, m, s, n)
      BY <1>3
    <3> HIDE DEF y
    <3>4. /\ b.hours = h /\ b.minutes = m /\ b.seconds = s
          /\ Value!Number(Value!Digits(b)) = n
          /\ b.negative = (y < 0) /\ Value!ParsedTicks(b) = x
      <4>1. Exact(h, m, s, n, x, k, y, unit, b)
        BY <2>2, <3>1, <3>2, <3>3, Zenon DEF Exact
      <4>2. Recovered(h, m, s, n, x, y, b)
        BY ONLY <4>1, FormattedIs, Zenon
      <4> QED
        BY <4>2 DEF Recovered
    <3> QED
      BY <3>4 DEF y
<1>10. b.negative = text.negative \/ Value!ParsedTicks(b) = 0
  <2>1. CASE x = 0
    BY <1>9, <2>1
  <2>2. CASE x # 0 /\ text.negative
    <3>1. k * t < 0
      BY <1>4, <1>6, <1>7, <2>2
    <3> QED
      BY <1>9, <2>2, <3>1
  <2>3. CASE x # 0 /\ ~text.negative
    <3>1. ~(k * t < 0)
      BY <1>4, <1>6, <1>7, <2>3
    <3> QED
      BY <1>1, <1>9, <2>3, <3>1
  <2> QED
    BY <2>1, <2>2, <2>3
<1>11. Value!SameTime(b, text)
  BY <1>9, <1>10 DEF Value!SameTime, h, m, s, n
<1> QED
  BY <1>11 DEF b, k, d, t

-----------------------------------------------------------------------------
(* The columns and what the converter makes of them.                       *)
InserterOf(base) ==
  CASE base = "TIME"     -> "duration"
    [] base = "VECTOR"   -> "vector"
    [] base = "GEOMETRY" -> "spatial"
    [] base \in {"DATE", "DATETIME", "TIMESTAMP"} -> "zero datetime"
    [] base = "JSON" -> "json"
    [] base = "UUID" -> "uuid"
    [] base = "BIT"  -> "bit"

(* ConvertRawColumnType and CreateInserter for a TIME.                     *)
LEMMA TimeField ==
  ASSUME NEW p, column = Value!Column("TIME", p, None)
  PROVE  Value!inserter = "duration" /\ Value!field.type[2] = Value!TimeUnit(p)
BY DEF Value!inserter, Value!field, Value!Column, Value!ConvertRawColumnType, Value!Converted,
       Value!CreateInserter, Value!normalizeUnsignedTypeName, Value!SpatialTypes

(* The same for a VECTOR, whose length is four bytes for each dimension.   *)
LEMMA VectorField ==
  ASSUME NEW dim \in Nat \ {0}, column = Value!Column("VECTOR", None, 4 * dim)
  PROVE  Value!inserter = "vector" /\ Value!dimension = dim
<1>1. 4 * dim # None /\ 4 * dim > 0 /\ (4 * dim) % 4 = 0 /\ (4 * dim) \div 4 = dim
  BY ValuesAssumption
<1>2. Value!field = Value!ConvertVector(4 * dim)
  BY DEF Value!field, Value!Column, Value!ConvertRawColumnType, Value!normalizeUnsignedTypeName,
         Value!SpatialTypes
<1>3. Value!field = [type |-> <<"vector", dim>>, tag |-> "vector"]
  BY <1>1, <1>2 DEF Value!ConvertVector, Value!Converted
<1> QED
  BY <1>3 DEF Value!inserter, Value!dimension, Value!CreateInserter

(* A VECTOR without a width is binary, and no vector inserter is chosen.   *)
LEMMA WidthlessField ==
  ASSUME column = Value!Column("VECTOR", None, None)
  PROVE  Value!inserter = "default"
<1>1. Value!field = Value!ConvertVector(None)
  BY DEF Value!field, Value!Column, Value!ConvertRawColumnType, Value!normalizeUnsignedTypeName,
         Value!SpatialTypes
<1>2. Value!field = [type |-> <<"binary">>, tag |-> "vector"]
  BY <1>1 DEF Value!ConvertVector, Value!Converted
<1> QED
  BY <1>2 DEF Value!inserter, Value!CreateInserter

(* The same for the columns whose type alone decides.                      *)
LEMMA OtherField ==
  ASSUME NEW base \in {"GEOMETRY", "DATE", "DATETIME", "TIMESTAMP", "JSON", "UUID", "BIT"},
         column = Value!Column(base, None, None)
  PROVE  Value!inserter = InserterOf(base)
<1>1. Value!field =
        CASE base = "GEOMETRY" -> [type |-> <<"binary">>, tag |-> "spatial"]
          [] base = "JSON" -> [type |-> <<"json">>, tag |-> "json"]
          [] base = "UUID" -> [type |-> <<"uuid">>, tag |-> "none"]
          [] base = "BIT"  -> [type |-> <<"binary">>, tag |-> "BIT"]
          [] base = "DATE" -> [type |-> <<"date32">>, tag |-> "none"]
          [] base = "DATETIME"  -> [type |-> <<"timestamp", "us", FALSE>>, tag |-> "none"]
          [] base = "TIMESTAMP" -> [type |-> <<"timestamp", "us", TRUE>>, tag |-> "none"]
  BY DEF Value!field, Value!Column, Value!ConvertRawColumnType, Value!normalizeUnsignedTypeName,
         Value!SpatialTypes, Value!Converted, Value!DefaultConvert, Value!IntegerTypes,
         Value!TimeUnit
<1> QED
  BY <1>1 DEF Value!inserter, Value!CreateInserter, InserterOf

-----------------------------------------------------------------------------
(* The driver ignores the offset of a slice of lists.                      *)
SlicesOK == Offsets \subseteq {0}

(* What the server sends for the columns modelled.                         *)
Sendable ==
  \/ \E p \in 0 .. Places :
        column = Value!Column("TIME", p, None) /\ sent \in Value!TimeTexts(p) \cup {Value!Null}
  \/ \E dim \in 1 .. MaxDimension :
        /\ column \in {Value!Column("VECTOR", None, 4 * dim), Value!Column("VECTOR", None, None)}
        /\ sent \in Value!Vectors(dim) \cup {Value!Null}
  \/ column = Value!Column("GEOMETRY", None, None) /\ sent \in Value!Geometries \cup {Value!Null}
  \/ \E base \in {"DATE", "DATETIME", "TIMESTAMP"} :
        column = Value!Column(base, None, None) /\ sent \in Value!Dates \cup {Value!Null}
  \/ \E base \in {"JSON", "UUID", "BIT"} : column = Value!Column(base, None, None)

ZeroText(d) == d.form = "text" /\ Value!ZeroDate(d)

(* What the Arrow array holds of a value that was not refused.             *)
AppendedRight ==
  sent # Value!Null =>
    /\ Value!inserter = "duration" =>
         /\ Value!ValidText(sent)
         /\ appended = [kind |-> "duration",
                        count |-> Value!Quotient(Value!parseMariaDBDuration(sent),
                                                 Value!Ticks(Value!field.type[2]))]
    /\ Value!inserter = "vector" =>
         Value!VectorFits(sent) /\ appended = [kind |-> "list", elements |-> sent.elements]
    /\ Value!inserter = "default" => appended = sent
    /\ Value!inserter = "zero datetime" =>
         IF ZeroText(sent) THEN appended = Value!Null ELSE appended \in Value!HandedOver(sent)
    /\ Value!inserter = "spatial" =>
         (Len(sent.bytes) >= 5 /\ sent.bytes[5] \in {0, 1} =>
            appended = [sent EXCEPT !.bytes = SubSeq(@, 5, Len(@))])

(* The invariant: what was sent is what the server may send, and what was  *)
(* read stands for it.                                                     *)
ValueInv ==
  part = "value" =>
    /\ Sendable
    /\ pc = "read" => AppendedRight
    /\ Value!ValuesSurvive

(* An inserter that does not refuse the value appends the right one.       *)
LEMMA AppendStep ==
  ASSUME Value!AppendValue, pc' = "read"
  PROVE  AppendedRight'
<1>1. /\ column' = column /\ sent' = sent /\ Value!field' = Value!field
      /\ Value!inserter' = Value!inserter /\ Value!dimension' = Value!dimension
  BY DEF Value!AppendValue, Value!field, Value!inserter, Value!dimension
<1>2. CASE Value!AppendNull
  BY <1>1, <1>2 DEF Value!AppendNull, AppendedRight
<1>3. CASE Value!AppendDuration
  BY <1>1, <1>3 DEF Value!AppendDuration, AppendedRight, Value!Appends, Value!Fails
<1>4. CASE Value!AppendVector
  BY <1>1, <1>4 DEF Value!AppendVector, AppendedRight, Value!Appends, Value!Fails, Value!VectorFits
<1>5. CASE Value!AppendSpatial
  BY <1>1, <1>5 DEF Value!AppendSpatial, AppendedRight, Value!Appends
<1>6. CASE Value!AppendDate
  <2>1. PICK value \in Value!HandedOver(sent) :
          IF ZeroText(value) THEN appended' = Value!Null ELSE appended' = value
    BY <1>6 DEF Value!AppendDate, Value!Appends, Value!Fails, Value!isZeroDatetimeValue, ZeroText
  <2>2. ZeroText(value) = ZeroText(sent)
    BY DEF Value!HandedOver, ZeroText
  <2> QED
    BY <1>1, <1>6, <2>1, <2>2 DEF Value!AppendDate, AppendedRight
<1>7. CASE Value!AppendText
  BY <1>1, <1>7 DEF Value!AppendText, AppendedRight
<1>8. CASE Value!AppendDefault
  BY <1>1, <1>8 DEF Value!AppendDefault, AppendedRight, Value!Appends
<1> QED
  BY <1>2, <1>3, <1>4, <1>5, <1>6, <1>7, <1>8 DEF Value!AppendValue

(* Which column an inserter is chosen for.                                 *)
LEMMA ColumnOf ==
  ASSUME Sendable, sent # Value!Null
  PROVE  /\ Value!inserter = "duration" =>
              \E p \in 0 .. Places : /\ sent \in Value!TimeTexts(p)
                                    /\ Value!field.type[2] = Value!TimeUnit(p)
         /\ Value!inserter \in {"vector", "default"} => \E dim \in Nat : sent \in Value!Vectors(dim)
         /\ Value!inserter = "zero datetime" => sent \in Value!Dates
         /\ Value!inserter = "spatial" => sent \in Value!Geometries
<1>1. CASE \E p \in 0 .. Places :
             column = Value!Column("TIME", p, None) /\ sent \in Value!TimeTexts(p) \cup {Value!Null}
  <2>1. PICK p \in 0 .. Places :
          column = Value!Column("TIME", p, None) /\ sent \in Value!TimeTexts(p)
    BY <1>1
  <2> QED
    BY <2>1, TimeField
<1>2. CASE \E dim \in 1 .. MaxDimension :
             /\ column \in {Value!Column("VECTOR", None, 4 * dim),
                            Value!Column("VECTOR", None, None)}
             /\ sent \in Value!Vectors(dim) \cup {Value!Null}
  <2>1. PICK dim \in 1 .. MaxDimension :
          /\ column \in {Value!Column("VECTOR", None, 4 * dim), Value!Column("VECTOR", None, None)}
          /\ sent \in Value!Vectors(dim)
    BY <1>2
  <2>2. dim \in Nat \ {0}
    BY ValuesAssumption
  <2>3. Value!inserter \in {"vector", "default"}
    BY <2>1, <2>2, VectorField, WidthlessField
  <2> QED
    BY <2>1, <2>2, <2>3
<1>3. CASE /\ column = Value!Column("GEOMETRY", None, None)
           /\ sent \in Value!Geometries \cup {Value!Null}
  <2>1. Value!inserter = "spatial"
    BY <1>3, OtherField DEF InserterOf
  <2> QED
    BY <1>3, <2>1
<1>4. CASE \E base \in {"DATE", "DATETIME", "TIMESTAMP"} :
             column = Value!Column(base, None, None) /\ sent \in Value!Dates \cup {Value!Null}
  <2>1. Value!inserter = "zero datetime" /\ sent \in Value!Dates
    BY <1>4, OtherField DEF InserterOf
  <2> QED
    BY <2>1
<1>5. CASE \E base \in {"JSON", "UUID", "BIT"} : column = Value!Column(base, None, None)
  <2>1. Value!inserter \in {"json", "uuid", "bit"}
    BY <1>5, OtherField DEF InserterOf
  <2> QED
    BY <2>1
<1> QED
  BY <1>1, <1>2, <1>3, <1>4, <1>5 DEF Sendable

(* The child values of the first list are its own.                         *)
LEMMA VectorKept ==
  ASSUME NEW dim \in Nat, NEW v \in Value!Vectors(dim), Value!VectorFits(v)
  PROVE  [kind |-> "vector", elements |-> Value!ListBound(v.elements, 0)] = v
<1>1. PICK n \in {dim, dim + 1} : v = [kind |-> "vector", elements |-> [j \in 1 .. n |-> j]]
  BY DEF Value!Vectors
<1>2. n \in Nat /\ Len(v.elements) = n /\ Value!dimension = n /\ v.elements = [j \in 1 .. n |-> j]
  BY <1>1 DEF Value!VectorFits
<1>3. Value!ChildValues(v.elements, 0) = [j \in 1 .. n |-> j]
  BY <1>2 DEF Value!ChildValues
<1>4. Value!ListBound(v.elements, 0) = [j \in 1 .. n |-> j]
  BY <1>2, <1>3 DEF Value!ListBound
<1> QED
  BY <1>1, <1>4

(* What is left of two sequences when the first is taken away.             *)
LEMMA TailOf ==
  ASSUME NEW a \in Seq(Nat), NEW b \in Seq(Nat)
  PROVE  /\ SubSeq(a \o b, Len(a) + 1, Len(a \o b)) = b
         /\ Len(a \o b) = Len(a) + Len(b)
         /\ Len(b) > 0 => (a \o b)[Len(a) + 1] = b[1]
<1>1. Len(a \o b) = Len(a) + Len(b) /\ a \o b \in Seq(Nat) /\ Len(a) \in Nat /\ Len(b) \in Nat
  OBVIOUS
<1> DEFINE c == SubSeq(a \o b, Len(a) + 1, Len(a \o b))
<1>2. c \in Seq(Nat) /\ Len(c) = Len(b)
  BY <1>1, SMTT(30)
<1>3. \A x \in 1 .. Len(b) : c[x] = b[x]
  <2> TAKE x \in 1 .. Len(b)
  <2>1. c[x] = (a \o b)[Len(a) + 1 + x - 1]
    BY <1>1
  <2> QED
    BY <1>1, <2>1
<1> HIDE DEF c
<1>4. c = b
  <2>1. c \in [1 .. Len(b) -> Nat] /\ b \in [1 .. Len(b) -> Nat]
    BY <1>1, <1>2
  <2> QED
    BY <1>3, <2>1
<1> QED
  BY <1>1, <1>4 DEF c

(* A geometry is its SRID and what the inserter keeps.                     *)
LEMMA GeometryKept ==
  ASSUME NEW v \in Value!Geometries
  PROVE  /\ v.kind = "bytes" /\ Len(v.bytes) >= 5 /\ v.bytes[5] \in {0, 1}
         /\ v.bytes = <<4, 3, 2, 1>> \o SubSeq(v.bytes, 5, Len(v.bytes))
<1>1. PICK order \in {0, 1} : v = [kind |-> "bytes", bytes |-> <<4, 3, 2, 1>> \o Value!Wkb(order)]
  BY DEF Value!Geometries
<1> DEFINE srid == <<4, 3, 2, 1>>  wkb == Value!Wkb(order)
<1>2. srid \in Seq(Nat) /\ Len(srid) = 4
  OBVIOUS
<1>3. wkb \in Seq(Nat) /\ Len(wkb) = 6 /\ wkb[1] = order
  BY DEF Value!Wkb
<1>4. v.kind = "bytes" /\ v.bytes = srid \o wkb
  BY <1>1
<1> HIDE DEF srid, wkb
<1>5. Len(v.bytes) = 10 /\ v.bytes[5] = order
  <2>1. Len(srid \o wkb) = Len(srid) + Len(wkb) /\ (srid \o wkb)[Len(srid) + 1] = wkb[1]
    <3>1. srid \in Seq(Nat) /\ wkb \in Seq(Nat) /\ Len(wkb) > 0
      BY <1>2, <1>3
    <3> QED
      BY ONLY <3>1, TailOf, Zenon
  <2>2. Len(srid) + Len(wkb) = 10 /\ Len(srid) + 1 = 5
    BY <1>2, <1>3
  <2> QED
    BY <1>3, <1>4, <2>1, <2>2
<1>6. SubSeq(v.bytes, 5, Len(v.bytes)) = wkb
  <2>1. SubSeq(srid \o wkb, Len(srid) + 1, Len(srid \o wkb)) = wkb
    BY <1>2, <1>3, TailOf
  <2>2. Len(srid) + 1 = 5
    BY <1>2
  <2> QED
    BY <1>4, <2>1, <2>2
<1> QED
  BY <1>4, <1>5, <1>6 DEF srid

(* The first value of an array that starts at zero is bound as it was sent. *)
LEMMA BoundStep ==
  ASSUME Sendable, AppendedRight, Value!ConvertArrowToGo(0)
  PROVE  Value!ValuesSurvive'
<1> SUFFICES ASSUME sent # Value!Null PROVE Value!ValuesSurvive'
  BY DEF Value!ValuesSurvive, Value!ConvertArrowToGo, Value!Null
<1>1. column' = column /\ sent' = sent /\ Value!inserter' = Value!inserter
  BY DEF Value!ConvertArrowToGo, Value!field, Value!inserter
<1>2. bound' = CASE appended = Value!Null -> Value!Null
                 [] appended.kind = "duration" ->
                      Value!Formatted(appended.count, Value!field.type[2])
                 [] appended.kind = "list" ->
                      [kind |-> "vector", elements |-> Value!ListBound(appended.elements, 0)]
                 [] OTHER -> appended
  BY DEF Value!ConvertArrowToGo
<1>3. ASSUME Value!inserter = "duration" PROVE Value!SameTime(bound', sent)
  <2>1. PICK p \in 0 .. Places :
          sent \in Value!TimeTexts(p) /\ Value!field.type[2] = Value!TimeUnit(p)
    BY <1>3, ColumnOf
  <2> DEFINE unit  == Value!field.type[2]
             total == Value!Quotient(Value!parseMariaDBDuration(sent), Value!Ticks(unit))
  <2>2. Value!ValidText(sent) /\ appended = [kind |-> "duration", count |-> total]
    BY <1>3 DEF AppendedRight
  <2>3. appended.kind = "duration" /\ appended.count = total
    BY <2>2
  <2>4. appended # Value!Null
    BY <2>3 DEF Value!Null
  <2>5. bound' = Value!Formatted(total, unit)
    BY <1>2, <2>3, <2>4
  <2>6. Value!SameTime(Value!Formatted(total, unit), sent)
    BY <2>1, <2>2, TextsTimed, TimeKept
  <2> QED
    BY <2>5, <2>6
<1>4. ASSUME Value!inserter = "vector" PROVE bound' = sent
  <2>1. PICK dim \in Nat : sent \in Value!Vectors(dim)
    BY <1>4, ColumnOf
  <2>2. Value!VectorFits(sent) /\ appended = [kind |-> "list", elements |-> sent.elements]
    BY <1>4 DEF AppendedRight
  <2>3. appended.kind = "list" /\ appended.elements = sent.elements
    BY <2>2
  <2>4. appended # Value!Null
    BY <2>3 DEF Value!Null
  <2>5. bound' = [kind |-> "vector", elements |-> Value!ListBound(sent.elements, 0)]
    BY <1>2, <2>3, <2>4
  <2> QED
    BY <2>1, <2>2, <2>5, VectorKept
<1>5. ASSUME Value!inserter = "zero datetime"
      PROVE  IF ZeroText(sent) THEN bound' = Value!Null ELSE bound' \in Value!HandedOver(sent)
  <2>1. sent \in Value!Dates
    BY <1>5, ColumnOf
  <2>2. \A d \in Value!HandedOver(sent) : d.kind = "date"
    BY <2>1 DEF Value!HandedOver, Value!Dates
  <2>3. CASE ZeroText(sent)
    <3>1. appended = Value!Null
      BY <1>5, <2>3 DEF AppendedRight
    <3>3. appended.kind = "null"
      BY <3>1 DEF Value!Null
    <3>2. bound' = Value!Null
      BY <1>2, <3>1, <3>3
    <3> QED
      BY <2>3, <3>2
  <2>4. CASE ~ZeroText(sent)
    <3>1. appended \in Value!HandedOver(sent) /\ appended.kind = "date"
      BY <1>5, <2>2, <2>4 DEF AppendedRight
    <3>2. appended # Value!Null
      BY <3>1 DEF Value!Null
    <3>3. bound' = appended
      BY <1>2, <3>1, <3>2
    <3> QED
      BY <2>4, <3>1, <3>3
  <2> QED
    BY <2>3, <2>4
<1>7. ASSUME Value!inserter = "default" PROVE bound' = sent
  <2>1. PICK dim \in Nat : sent \in Value!Vectors(dim)
    BY <1>7, ColumnOf
  <2>2. appended = sent /\ appended.kind = "vector"
    BY <1>7, <2>1 DEF AppendedRight, Value!Vectors
  <2>3. appended # Value!Null
    BY <2>2 DEF Value!Null
  <2> QED
    BY <1>2, <2>2, <2>3
<1>6. ASSUME Value!inserter = "spatial" PROVE sent.bytes = <<4, 3, 2, 1>> \o (bound').bytes
  <2>1. sent \in Value!Geometries
    BY <1>6, ColumnOf
  <2>2. /\ sent.kind = "bytes" /\ Len(sent.bytes) >= 5 /\ sent.bytes[5] \in {0, 1}
        /\ sent.bytes = <<4, 3, 2, 1>> \o SubSeq(sent.bytes, 5, Len(sent.bytes))
    BY <2>1, GeometryKept
  <2>3. appended = [sent EXCEPT !.bytes = SubSeq(@, 5, Len(@))]
    BY <1>6, <2>2 DEF AppendedRight
  <2>4. sent = [kind |-> sent.kind, bytes |-> sent.bytes]
    BY <2>1 DEF Value!Geometries
  <2>5. appended = [kind |-> "bytes", bytes |-> SubSeq(sent.bytes, 5, Len(sent.bytes))]
    BY <2>2, <2>3, <2>4
  <2>6. appended.kind = "bytes" /\ appended # Value!Null
    BY <2>5 DEF Value!Null
  <2>7. bound' = appended
    BY <1>2, <2>6
  <2> QED
    BY <2>2, <2>5, <2>7
<1> QED
  BY <1>1, <1>3, <1>4, <1>5, <1>6, <1>7 DEF Value!ValuesSurvive, ZeroText

(* ValueInv is inductive.                                                  *)
LEMMA ValueStep ==
  ASSUME SlicesOK, ValueInv, [PartNext]_allVars
  PROVE  ValueInv'
<1> SUFFICES ASSUME part' = "value" PROVE ValueInv'
  BY DEF ValueInv
<1>1. part = "value" /\ (Value!Next \/ UNCHANGED <<column, zero, sent, appended, bound, pc>>)
  BY DEF PartNext, allVars, valueVars
<1>2. CASE UNCHANGED <<column, zero, sent, appended, bound, pc>>
  BY <1>1, <1>2 DEF ValueInv, Sendable, AppendedRight, Value!ValuesSurvive, Value!inserter,
                    Value!field, Value!VectorFits, Value!dimension
<1>3. CASE Value!AppendValue
  <2>1. column' = column /\ sent' = sent /\ pc' \in {"read", "error"}
    BY <1>3 DEF Value!AppendValue, Value!AppendNull, Value!AppendDuration, Value!AppendVector,
       Value!AppendSpatial, Value!AppendDate, Value!AppendText, Value!AppendDefault,
       Value!Appends, Value!Fails
  <2>2. Sendable'
    BY <1>1, <2>1 DEF ValueInv, Sendable
  <2>3. Value!ValuesSurvive'
    BY <2>1 DEF Value!ValuesSurvive
  <2> QED
    BY <1>3, <2>2, <2>3, AppendStep DEF ValueInv
<1>4. CASE \E offset \in Offsets : Value!ConvertArrowToGo(offset)
  <2>1. Value!ConvertArrowToGo(0)
    BY <1>4 DEF SlicesOK
  <2>2. pc = "read" /\ pc' = "bound" /\ column' = column /\ sent' = sent
    BY <2>1 DEF Value!ConvertArrowToGo
  <2>3. Sendable'
    BY <1>1, <2>2 DEF ValueInv, Sendable
  <2>4. Value!ValuesSurvive'
    BY <1>1, <2>1, <2>2, BoundStep DEF ValueInv
  <2> QED
    BY <2>2, <2>3, <2>4 DEF ValueInv
<1> QED
  BY <1>1, <1>2, <1>3, <1>4 DEF Value!Next

(* Values read from a column and bound again are the same, or refused, if  *)
(* the Arrow array is not a slice that starts later.                       *)
THEOREM ValuesAlwaysSurvive == ASSUME SlicesOK PROVE PartSpec => []ValuesSurvive
<1>1. PartInit => ValueInv
  BY DEF PartInit, ValueInv, Value!Init, Sendable, Places, Value!ValuesSurvive
<1>2. ValueInv /\ [PartNext]_allVars => ValueInv'
  BY ValueStep
<1>3. ValueInv => ValuesSurvive
  BY DEF ValueInv, ValuesSurvive
<1> QED
  BY <1>1, <1>2, <1>3, PTL DEF PartSpec
=============================================================================
