-------------------------- MODULE AdbcErrorsProofs --------------------------
(***************************************************************************)
(* Proofs about AdbcErrors for any number of structs, streams and blocks.  *)
(***************************************************************************)
EXTENDS AdbcErrors, TLAPS

OwnedBy(r) == {r.message, r.private_data, r.self} \ {Null}
Others(e)  == UNION {Owned(f) : f \in Structs \ {e}}

(* The release callback matches what a struct holds.                       *)
Good(r) ==
  /\ r \in Fields
  /\ r.release = "none" <=> r.message = Null
  /\ r.release = "details" <=> r.private_data # Null
  /\ r.self # Null => r.self # r.message /\ r.self # r.private_data

(* The heap holds what the structs own, each block once.                   *)
Accounted ==
  /\ heap = UNION {Owned(e) : e \in Structs}
  /\ \A e, f \in Structs : e # f => Owned(e) \cap Owned(f) = {}

(* A struct that waits for a call, and an unused stream, own nothing.      *)
PhaseShape ==
  /\ \A e \in Errors : /\ phase[e] # "open" /\ err[e].self = Null
                       /\ phase[e] \in {"unused", "ready", "released"} => err[e].release = "none"
  /\ \A s \in Streams : /\ phase[s] \in {"unused", "open"}
                        /\ phase[s] = "unused" => err[s].self = Null
                        /\ err[s].self = Null => err[s].release = "none"

IInv ==
  /\ \A e \in Structs : Good(err[e])
  /\ Accounted /\ PhaseShape /\ StreamErrorCurrent

-----------------------------------------------------------------------------
(* What the release functions do to one struct.                            *)
LEMMA FreedIsOwned ==
  ASSUME NEW r, Good(r)
  PROVE  Freed(r) = OwnedBy(r) \ {r.self}
  BY ErrorsAssumption DEF Good, Freed, OwnedBy, Fields

(* Releasing an error leaves nothing but the struct itself.                *)
LEMMA ReleasedIsClean ==
  ASSUME NEW r, Good(r)
  PROVE  /\ MariaDBerrRelease(r) = [r EXCEPT !.message = Null, !.release = "none",
                                             !.private_data = Null,
                                             !.count = IF r.release = "details" THEN 0 ELSE @]
         /\ Good(MariaDBerrRelease(r)) /\ OwnedBy(MariaDBerrRelease(r)) = {r.self} \ {Null}
<1> DEFINE q == MariaDBerrRelease(r)
<1>1. /\ r \in Fields /\ r.message \in Blocks \cup {Null} /\ r.private_data \in Blocks \cup {Null}
      /\ r.self \in Blocks \cup {Null} /\ r.vendor_code \in Codes \cup {PrivateData}
      /\ r.count \in 0 .. MaxDetails /\ 0 \in 0 .. MaxDetails
      /\ r.release \in {"none", "plain", "details"}
  BY ErrorsAssumption DEF Good, Fields
<1>2. q = [r EXCEPT !.message = Null, !.release = "none", !.private_data = Null,
                    !.count = IF r.release = "details" THEN 0 ELSE @]
  <2>1. CASE r.release = "plain"
    BY <1>1, <2>1 DEF Good, Fields, MariaDBerrRelease, MariaDB_release_error
  <2>2. CASE r.release = "details"
    BY <1>1, <2>2 DEF Good, Fields, MariaDBerrRelease, MariaDBReleaseErrWithDetails
  <2>3. CASE r.release = "none"
    BY <1>1, <2>3 DEF Good, Fields, MariaDBerrRelease
  <2> QED
    BY <1>1, <2>1, <2>2, <2>3
<1>3. /\ q \in Fields /\ q.message = Null /\ q.private_data = Null /\ q.release = "none"
      /\ q.self = r.self
  BY <1>1, <1>2 DEF Fields
<1> QED
  BY <1>2, <1>3 DEF Good, OwnedBy

(* One struct changes and the heap follows it.                             *)
LEMMA Update ==
  ASSUME TypeOK, IInv, NEW e \in Structs, NEW q, Good(q),
         err' = [err EXCEPT ![e] = q],
         OwnedBy(q) \cap Others(e) = {}, heap' = Others(e) \cup OwnedBy(q)
  PROVE  /\ \A f \in Structs : Good(err'[f])
         /\ Accounted'
         /\ err'[e] = q /\ \A f \in Structs \ {e} : err'[f] = err[f]
<1>1. err'[e] = q /\ \A f \in Structs \ {e} : err'[f] = err[f]
  BY DEF TypeOK
<1>2. \A f \in Structs : Owned(f) = OwnedBy(err[f]) /\ Owned(f)' = OwnedBy(err'[f])
  BY DEF Owned, OwnedBy
<1>3. Owned(e)' = OwnedBy(q) /\ \A f \in Structs \ {e} : Owned(f)' = Owned(f)
  BY <1>1, <1>2
<1>4. \A f \in Structs \ {e} : Owned(f) \subseteq Others(e)
  BY DEF Others
<1>5. Accounted'
  <2>1. heap' = UNION {Owned(f)' : f \in Structs}
    BY <1>3 DEF Others
  <2>2. \A f, g \in Structs : f # g => Owned(f)' \cap Owned(g)' = {}
    BY <1>3, <1>4 DEF IInv, Accounted
  <2> QED
    BY <2>1, <2>2 DEF Accounted
<1> QED
  BY <1>1, <1>5 DEF IInv

(* The heap is what the others own and what e owns, which are apart.       *)
LEMMA HeapSplit ==
  ASSUME TypeOK, IInv, NEW e \in Structs
  PROVE  /\ heap = Others(e) \cup OwnedBy(err[e])
         /\ OwnedBy(err[e]) \cap Others(e) = {}
         /\ Good(err[e])
<1>1. \A f \in Structs : Owned(f) = OwnedBy(err[f])
  BY DEF Owned, OwnedBy
<1> QED
  BY <1>1 DEF IInv, Accounted, Others

-----------------------------------------------------------------------------
(* Between two calls e's record is r and the rest of the heap is intact.   *)
Holds(e, r, h) ==
  /\ Good(r)
  /\ OwnedBy(r) \cap Others(e) = {}
  /\ h = Others(e) \cup OwnedBy(r)

(* A step left the record q in e.                                          *)
Stored(e, q) ==
  /\ err' = [err EXCEPT ![e] = q]
  /\ Holds(e, q, heap')

(* A record that owns nothing but the struct itself, taken from a Good one.*)
LEMMA ReleaseHolds ==
  ASSUME NEW e, NEW r, NEW h, Holds(e, r, h)
  PROVE  /\ Holds(e, MariaDBerrRelease(r), h \ Freed(r))
         /\ MariaDBerrRelease(r).self = r.self
         /\ MariaDBerrRelease(r).release = "none"
<1>1. Freed(r) = OwnedBy(r) \ {r.self}
  BY FreedIsOwned DEF Holds
<1>2. Good(MariaDBerrRelease(r)) /\ OwnedBy(MariaDBerrRelease(r)) = {r.self} \ {Null}
  BY ReleasedIsClean DEF Holds
<1>3. MariaDBerrRelease(r).self = r.self /\ MariaDBerrRelease(r).release = "none"
  <2>1. r \in Fields
    BY DEF Holds, Good
  <2>2. MariaDBerrRelease(r) = [r EXCEPT !.message = Null, !.release = "none",
                                         !.private_data = Null,
                                         !.count = IF r.release = "details" THEN 0 ELSE @]
    BY ReleasedIsClean DEF Holds
  <2> QED
    BY <2>1, <2>2 DEF Fields
<1>4. {r.self} \ {Null} \subseteq OwnedBy(r)
  BY DEF OwnedBy
<1>5. h \ Freed(r) = Others(e) \cup ({r.self} \ {Null})
  BY <1>1, <1>4 DEF Holds, OwnedBy
<1> QED
  BY <1>2, <1>3, <1>4, <1>5 DEF Holds

(* The vendor code owns nothing.                                           *)
LEMMA VendorCodeHolds ==
  ASSUME NEW e, NEW r, NEW h, Holds(e, r, h), NEW v \in Codes \cup {PrivateData}
  PROVE  LET q == [r EXCEPT !.vendor_code = v] IN
         /\ Holds(e, q, h)
         /\ q.self = r.self /\ q.release = r.release /\ q.vendor_code = v
         /\ q.message = r.message /\ q.private_data = r.private_data
<1> DEFINE q == [r EXCEPT !.vendor_code = v]
<1>1. /\ q \in Fields /\ q.self = r.self /\ q.release = r.release /\ q.vendor_code = v
      /\ q.message = r.message /\ q.private_data = r.private_data
  BY DEF Holds, Good, Fields
<1>2. OwnedBy(q) = OwnedBy(r)
  BY <1>1 DEF OwnedBy
<1> HIDE DEF q
<1>3. Good(q)
  BY <1>1 DEF Holds, Good
<1>4. Holds(e, q, h)
  BY <1>2, <1>3 DEF Holds
<1> QED
  BY <1>1, <1>4 DEF q

(* setErr replaces whatever error the struct held.                         *)
LEMMA SetErrStores ==
  ASSUME NEW e, NEW r, NEW h, Holds(e, r, h), setErr(e, r, h)
  PROVE  \E q : Stored(e, q) /\ q.self = r.self /\ q.release = "plain"
<1>1. PICK m \in Blocks \ (h \ Freed(r)) :
        /\ err' = [err EXCEPT ![e] = [MariaDBerrRelease(r) EXCEPT !.message = m, !.release = "plain"]]
        /\ heap' = (h \ Freed(r)) \cup {m}
  BY DEF setErr
<1> DEFINE c == MariaDBerrRelease(r)
           q == [c EXCEPT !.message = m, !.release = "plain"]
<1>2. Holds(e, c, h \ Freed(r)) /\ c.self = r.self /\ c.release = "none"
  BY ReleaseHolds
<1> HIDE DEF c
<1>3. c \in Fields /\ c.private_data = Null /\ c.message = Null
  BY <1>2 DEF Holds, Good, Fields
<1>4. /\ q \in Fields /\ q.message = m /\ q.release = "plain" /\ q.private_data = Null
      /\ q.self = r.self
  BY <1>2, <1>3 DEF Fields
<1>5. m # Null /\ m \notin Others(e) /\ (r.self # Null => m # r.self)
  BY <1>2, ErrorsAssumption DEF Holds, OwnedBy
<1>6. OwnedBy(q) = OwnedBy(c) \cup {m}
  BY <1>2, <1>3, <1>4, <1>5 DEF OwnedBy
<1>7. err' = [err EXCEPT ![e] = q]
  BY <1>1 DEF c
<1> HIDE DEF q
<1>8. Good(q)
  BY <1>4, <1>5 DEF Good
<1>9. Holds(e, q, heap')
  BY <1>1, <1>2, <1>5, <1>6, <1>8 DEF Holds
<1> QED
  BY <1>4, <1>7, <1>9 DEF Stored

(* A failure carries a vendor code and a number of details within bounds.  *)
LEMMA FailureFields ==
  ASSUME NEW f \in Failures
  PROVE  f.code \in Codes /\ f.n \in 0 .. MaxDetails /\ (~f.adbc => f.n = 0)
<1>1. CASE f \in AdbcFailure
  BY <1>1 DEF AdbcFailure
<1>2. CASE f = OtherFailure
  <2>1. f.code = NoCode /\ f.n = 0
    BY <1>2 DEF OtherFailure
  <2> QED
    BY <2>1, ErrorsAssumption
<1> QED
  BY <1>1, <1>2 DEF Failures

(* On a struct without an error, errToAdbcErr stores any failure, and the  *)
(* number of its details if the caller asked for them.                     *)
LEMMA ErrToAdbcErrStores ==
  ASSUME NEW e, NEW r, NEW h, Holds(e, r, h), r.release = "none",
         NEW f \in Failures, errToAdbcErr(e, r, h, f)
  PROVE  \E q : /\ Stored(e, q) /\ q.self = r.self /\ q.release # "none"
                /\ r.vendor_code = PrivateData => MariaDBErrorGetDetailCount(q) = f.n
<1>f. f.code \in Codes /\ f.n \in 0 .. MaxDetails /\ (~f.adbc => f.n = 0)
  BY FailureFields
<1>1. CASE ~f.adbc
  <2>1. setErr(e, r, h)
    BY <1>1 DEF errToAdbcErr
  <2> QED
    BY <1>1, <1>f, <2>1, SetErrStores DEF MariaDBErrorGetDetailCount
<1>2. CASE f.adbc /\ UsesVendorCode(r, f)
  <2> DEFINE v == [r EXCEPT !.vendor_code = f.code]
  <2>1. setErr(e, v, h)
    BY <1>2 DEF errToAdbcErr, setErrWithDetails
  <2>2. Holds(e, v, h) /\ v.self = r.self
    BY <1>f, VendorCodeHolds
  <2> HIDE DEF v
  <2>3. PICK q : Stored(e, q) /\ q.self = r.self /\ q.release = "plain"
    BY <2>1, <2>2, SetErrStores
  <2>4. r.vendor_code = PrivateData => f.n = 0
    BY <1>2 DEF UsesVendorCode
  <2> QED
    BY <2>3, <2>4 DEF MariaDBErrorGetDetailCount
<1>3. CASE f.adbc /\ ~UsesVendorCode(r, f)
  <2>1. PICK m \in Blocks \ h, d \in Blocks \ h :
          /\ m # d
          /\ err' = [err EXCEPT ![e] =
               [r EXCEPT !.message = m, !.release = "details", !.private_data = d, !.count = f.n]]
          /\ heap' = h \cup {m, d}
    BY <1>3 DEF errToAdbcErr, setErrWithDetails
  <2> DEFINE q == [r EXCEPT !.message = m, !.release = "details", !.private_data = d, !.count = f.n]
  <2>2. r \in Fields /\ r.message = Null /\ r.private_data = Null
    BY DEF Holds, Good
  <2>3. /\ q \in Fields /\ q.message = m /\ q.release = "details" /\ q.private_data = d
        /\ q.count = f.n /\ q.self = r.self
    BY <1>f, <2>2 DEF Fields
  <2>4. err' = [err EXCEPT ![e] = q]
    BY <2>1
  <2> HIDE DEF q
  <2>5. m # Null /\ d # Null /\ (r.self # Null => m # r.self /\ d # r.self)
    BY ErrorsAssumption DEF Holds, OwnedBy
  <2>6. OwnedBy(q) = OwnedBy(r) \cup {m, d}
    BY <2>2, <2>3, <2>5 DEF OwnedBy
  <2>7. Good(q)
    BY <2>3, <2>5 DEF Good
  <2>8. Holds(e, q, heap')
    BY <2>1, <2>6, <2>7 DEF Holds
  <2> QED
    BY <2>3, <2>4, <2>5, <2>8 DEF Stored, MariaDBErrorGetDetailCount
<1> QED
  BY <1>1, <1>2, <1>3

-----------------------------------------------------------------------------
(* A record stored in one struct keeps the heap accounted for.             *)
LEMMA StoredKeeps ==
  ASSUME TypeOK, IInv, NEW e \in Structs, NEW q, Stored(e, q)
  PROVE  /\ err' \in [Structs -> Fields] /\ heap' \in SUBSET Blocks
         /\ \A f \in Structs : Good(err'[f])
         /\ Accounted'
         /\ err'[e] = q /\ \A f \in Structs \ {e} : err'[f] = err[f]
<1>1. Good(q) /\ q \in Fields /\ OwnedBy(q) \subseteq Blocks
  BY DEF Stored, Holds, Good, Fields, OwnedBy
<1>2. /\ \A f \in Structs : Good(err'[f])
      /\ Accounted'
      /\ err'[e] = q /\ \A f \in Structs \ {e} : err'[f] = err[f]
  BY <1>1, Update DEF Stored, Holds
<1>3. Others(e) \subseteq heap
  BY HeapSplit
<1> QED
  BY <1>1, <1>2, <1>3 DEF Stored, Holds, TypeOK

(* A step on a struct of the application.                                  *)
LEMMA ErrorStep ==
  ASSUME TypeOK, IInv, NEW e \in Errors, NEW q, Stored(e, q), q.self = Null,
         NEW p \in {"ready", "failed", "returned", "released"},
         p \in {"ready", "released"} => q.release = "none",
         phase' = [phase EXCEPT ![e] = p], UNCHANGED last
  PROVE  TypeOK' /\ IInv'
<1>1. e \in Structs /\ e \notin Streams /\ \A s \in Streams : s \in Structs \ {e}
  BY ErrorsAssumption DEF Structs
<1>2. /\ err' \in [Structs -> Fields] /\ heap' \in SUBSET Blocks
      /\ \A f \in Structs : Good(err'[f])
      /\ Accounted'
      /\ err'[e] = q /\ \A f \in Structs \ {e} : err'[f] = err[f]
  BY <1>1, StoredKeeps
<1>3. /\ phase' \in [Structs -> {"unused", "ready", "failed", "returned", "released", "open"}]
      /\ phase'[e] = p /\ \A f \in Structs \ {e} : phase'[f] = phase[f]
  BY <1>1 DEF TypeOK
<1>4. PhaseShape'
  <2>1. \A f \in Errors : /\ phase'[f] # "open" /\ err'[f].self = Null
                          /\ phase'[f] \in {"unused", "ready", "released"} => err'[f].release = "none"
    <3> TAKE f \in Errors
    <3>1. CASE f = e
      BY <3>1, <1>2, <1>3
    <3>2. CASE f # e
      <4>1. err'[f] = err[f] /\ phase'[f] = phase[f]
        BY <3>2, <1>2, <1>3 DEF Structs
      <4> QED
        BY <4>1 DEF IInv, PhaseShape
    <3> QED
      BY <3>1, <3>2
  <2>2. \A s \in Streams : /\ phase'[s] \in {"unused", "open"}
                           /\ phase'[s] = "unused" => err'[s].self = Null
                           /\ err'[s].self = Null => err'[s].release = "none"
    BY <1>1, <1>2, <1>3 DEF IInv, PhaseShape
  <2> QED
    BY <2>1, <2>2 DEF PhaseShape
<1>5. StreamErrorCurrent'
  BY <1>1, <1>2, <1>3 DEF IInv, StreamErrorCurrent, MariaDBErrorGetDetailCount
<1> QED
  BY <1>2, <1>3, <1>4, <1>5 DEF TypeOK, IInv

(* A step on the struct of a stream.                                       *)
LEMMA StreamStep ==
  ASSUME TypeOK, IInv, NEW s \in Streams, NEW q, Stored(s, q),
         NEW p \in {"unused", "open"}, NEW n \in 0 .. MaxDetails,
         p = "unused" => q.self = Null, q.self = Null => q.release = "none",
         p = "open" => MariaDBErrorGetDetailCount(q) = n,
         phase' = [phase EXCEPT ![s] = p], last' = [last EXCEPT ![s] = n]
  PROVE  TypeOK' /\ IInv'
<1>1. s \in Structs /\ s \notin Errors /\ \A f \in Errors : f \in Structs \ {s}
  BY ErrorsAssumption DEF Structs
<1>2. /\ err' \in [Structs -> Fields] /\ heap' \in SUBSET Blocks
      /\ \A f \in Structs : Good(err'[f])
      /\ Accounted'
      /\ err'[s] = q /\ \A f \in Structs \ {s} : err'[f] = err[f]
  BY <1>1, StoredKeeps
<1>3. /\ phase' \in [Structs -> {"unused", "ready", "failed", "returned", "released", "open"}]
      /\ phase'[s] = p /\ \A f \in Structs \ {s} : phase'[f] = phase[f]
  BY <1>1 DEF TypeOK
<1>4. /\ last' \in [Streams -> 0 .. MaxDetails]
      /\ last'[s] = n /\ \A f \in Streams \ {s} : last'[f] = last[f]
  BY DEF TypeOK
<1>5. PhaseShape'
  <2>1. \A f \in Errors : /\ phase'[f] # "open" /\ err'[f].self = Null
                          /\ phase'[f] \in {"unused", "ready", "released"} => err'[f].release = "none"
    BY <1>1, <1>2, <1>3 DEF IInv, PhaseShape
  <2>2. \A f \in Streams : /\ phase'[f] \in {"unused", "open"}
                           /\ phase'[f] = "unused" => err'[f].self = Null
                           /\ err'[f].self = Null => err'[f].release = "none"
    <3> TAKE f \in Streams
    <3>1. CASE f = s
      BY <3>1, <1>2, <1>3
    <3>2. CASE f # s
      <4>1. err'[f] = err[f] /\ phase'[f] = phase[f]
        BY <3>2, <1>2, <1>3 DEF Structs
      <4> QED
        BY <4>1 DEF IInv, PhaseShape
    <3> QED
      BY <3>1, <3>2
  <2> QED
    BY <2>1, <2>2 DEF PhaseShape
<1>6. \A f \in Streams : phase'[f] = "open" => MariaDBErrorGetDetailCount(err'[f]) = last'[f]
  <2> TAKE f \in Streams
  <2>1. CASE f = s
    BY <2>1, <1>2, <1>3, <1>4
  <2>2. CASE f # s
    <3>1. err'[f] = err[f] /\ phase'[f] = phase[f] /\ last'[f] = last[f]
      BY <2>2, <1>2, <1>3, <1>4 DEF Structs
    <3> QED
      BY <3>1 DEF IInv, StreamErrorCurrent
  <2> QED
    BY <2>1, <2>2
<1>7. StreamErrorCurrent'
  BY <1>6 DEF StreamErrorCurrent, MariaDBErrorGetDetailCount
<1> QED
  BY <1>2, <1>3, <1>4, <1>5, <1>7 DEF TypeOK, IInv

(* The struct without an error owns nothing; one that the driver allocated *)
(* owns itself.                                                            *)
LEMMA NoErrorHolds ==
  ASSUME NEW e
  PROVE  /\ NoError \in Fields /\ NoError.self = Null /\ NoError.release = "none"
         /\ Holds(e, NoError, Others(e))
<1>1. 0 \in 0 .. MaxDetails /\ NoCode \in Codes
  BY ErrorsAssumption
<1>2. /\ NoError \in Fields /\ NoError.message = Null /\ NoError.private_data = Null
      /\ NoError.release = "none" /\ NoError.self = Null
  BY <1>1 DEF Fields, NoError
<1>3. OwnedBy(NoError) = {}
  BY <1>2 DEF OwnedBy
<1>4. Good(NoError)
  BY <1>2 DEF Good
<1> QED
  BY <1>2, <1>3, <1>4 DEF Holds

(* The struct maybeError allocates owns itself and nothing else.           *)
LEMMA AllocatedHolds ==
  ASSUME NEW e, NEW b \in Blocks \ Others(e)
  PROVE  LET r == [NoError EXCEPT !.self = b, !.vendor_code = PrivateData] IN
         /\ Holds(e, r, Others(e) \cup {b})
         /\ r.self = b /\ r.release = "none" /\ r.vendor_code = PrivateData
<1> DEFINE r == [NoError EXCEPT !.self = b, !.vendor_code = PrivateData]
<1>1. NoError \in Fields /\ NoError.release = "none" /\ Good(NoError)
  BY NoErrorHolds DEF Holds
<1>2. NoError.message = Null /\ NoError.private_data = Null
  BY <1>1 DEF Good
<1>3. /\ r \in Fields /\ r.message = Null /\ r.private_data = Null /\ r.release = "none"
      /\ r.self = b /\ r.vendor_code = PrivateData
  BY <1>1, <1>2 DEF Fields
<1> HIDE DEF r
<1>4. b # Null
  BY ErrorsAssumption
<1>5. OwnedBy(r) = {b}
  BY <1>3, <1>4 DEF OwnedBy
<1>6. Good(r)
  BY <1>3, <1>4 DEF Good
<1> QED
  BY <1>3, <1>5, <1>6 DEF Holds, r

-----------------------------------------------------------------------------
(* Every struct that waits for a call owns nothing.                        *)
LEMMA Unheld ==
  ASSUME TypeOK, IInv, NEW e \in Structs, err[e].release = "none", err[e].self = Null
  PROVE  heap = Others(e)
<1>1. err[e].message = Null /\ err[e].private_data = Null
  BY DEF IInv, Good
<1>2. OwnedBy(err[e]) = {}
  BY <1>1 DEF OwnedBy
<1> QED
  BY <1>2, HeapSplit

(* What an application does with its structs preserves the invariant.      *)
LEMMA ErrorActions ==
  ASSUME TypeOK, IInv, NEW e \in Errors,
         AppInit(e) \/ CallFails(e) \/ CallPanics(e) \/ CallReturns(e) \/ AppRelease(e)
  PROVE  TypeOK' /\ IInv'
<1>1. e \in Structs /\ err[e].self = Null
  BY DEF Structs, IInv, PhaseShape
<1>2. phase[e] \in {"unused", "ready", "released"} => err[e].release = "none"
  BY DEF IInv, PhaseShape
<1>3. Holds(e, err[e], heap)
  BY <1>1, HeapSplit DEF Holds
<1>4. CASE AppInit(e)
  <2>1. PICK v \in {NoCode, PrivateData} :
          err' = [err EXCEPT ![e] = [NoError EXCEPT !.vendor_code = v]]
    BY <1>4 DEF AppInit
  <2> DEFINE q == [NoError EXCEPT !.vendor_code = v]
  <2>2. heap' = Others(e)
    BY <1>1, <1>2, <1>4, Unheld DEF AppInit
  <2>3. v \in Codes \cup {PrivateData}
    BY ErrorsAssumption
  <2>4. Holds(e, q, Others(e)) /\ q.self = Null /\ q.release = "none"
    BY <2>3, NoErrorHolds, VendorCodeHolds
  <2>5. Stored(e, q)
    BY <2>1, <2>2, <2>4 DEF Stored
  <2> HIDE DEF q
  <2> QED
    BY <1>4, <2>4, <2>5, ErrorStep DEF AppInit
<1>5. CASE CallFails(e)
  <2>1. PICK f \in Failures : errToAdbcErr(e, err[e], heap, f)
    BY <1>5 DEF CallFails
  <2>2. err[e].release = "none"
    BY <1>2, <1>5 DEF CallFails
  <2>3. PICK q : Stored(e, q) /\ q.self = Null
    BY <1>1, <1>3, <2>1, <2>2, ErrToAdbcErrStores
  <2> QED
    BY <1>5, <2>3, ErrorStep DEF CallFails
<1>6. CASE CallPanics(e)
  <2>1. PICK q : Stored(e, q) /\ q.self = Null
    BY <1>1, <1>3, <1>6, SetErrStores DEF CallPanics
  <2> QED
    BY <1>6, <2>1, ErrorStep DEF CallPanics
<1>7. CASE CallReturns(e)
  <2>1. err' = [err EXCEPT ![e] = err[e]] /\ heap' = heap
    BY <1>7 DEF CallReturns, TypeOK
  <2>2. Stored(e, err[e])
    BY <1>3, <2>1 DEF Stored
  <2> QED
    BY <1>1, <1>7, <2>2, ErrorStep DEF CallReturns
<1>8. CASE AppRelease(e)
  <2>1. /\ Stored(e, MariaDBerrRelease(err[e]))
        /\ MariaDBerrRelease(err[e]).self = Null /\ MariaDBerrRelease(err[e]).release = "none"
    <3>1. heap' = heap \ Freed(err[e]) /\ err' = [err EXCEPT ![e] = MariaDBerrRelease(err[e])]
      BY <1>8 DEF AppRelease
    <3> QED
      BY <1>1, <1>3, <3>1, ReleaseHolds DEF Stored
  <2> QED
    BY <1>8, <2>1, ErrorStep DEF AppRelease
<1> QED
  BY <1>4, <1>5, <1>6, <1>7, <1>8

(* What a stream does with its struct preserves the invariant.             *)
LEMMA StreamActions ==
  ASSUME TypeOK, IInv, NEW s \in Streams,
         exportRecordReader(s) \/ maybeError(s) \/ ArrayStreamRelease(s)
  PROVE  TypeOK' /\ IInv'
<1>1. /\ s \in Structs
      /\ phase[s] = "unused" => err[s].self = Null
      /\ err[s].self = Null => err[s].release = "none"
  BY DEF Structs, IInv, PhaseShape
<1>2. Holds(s, err[s], heap)
  BY <1>1, HeapSplit DEF Holds
<1>0. 0 \in 0 .. MaxDetails /\ last[s] \in 0 .. MaxDetails
  BY ErrorsAssumption DEF TypeOK
<1>3. CASE exportRecordReader(s)
  <2>1. err' = [err EXCEPT ![s] = err[s]] /\ heap' = heap
    BY <1>3 DEF exportRecordReader, TypeOK
  <2>2. Stored(s, err[s])
    BY <1>2, <2>1 DEF Stored
  <2>3. MariaDBErrorGetDetailCount(err[s]) = 0
    BY <1>1, <1>3 DEF exportRecordReader, MariaDBErrorGetDetailCount
  <2> QED
    BY <1>0, <1>1, <1>3, <2>2, <2>3, StreamStep DEF exportRecordReader
<1>4. CASE maybeError(s)
  <2>1. PICK f \in Failures :
          /\ \/ /\ err[s].self = Null
                /\ \E b \in Blocks \ heap :
                     errToAdbcErr(s, [NoError EXCEPT !.self = b, !.vendor_code = PrivateData],
                                  heap \cup {b}, f)
             \/ /\ err[s].self # Null
                /\ errToAdbcErr(s, [MariaDBerrRelease(err[s]) EXCEPT !.vendor_code = PrivateData],
                                heap \ Freed(err[s]), f)
          /\ last' = [last EXCEPT ![s] = f.n]
    BY <1>4 DEF maybeError
  <2>2. f.n \in 0 .. MaxDetails
    BY FailureFields
  <2>3. \E q : /\ Stored(s, q) /\ q.self # Null
               /\ MariaDBErrorGetDetailCount(q) = f.n
    <3>1. CASE err[s].self = Null
      <4>1. PICK b \in Blocks \ heap :
              errToAdbcErr(s, [NoError EXCEPT !.self = b, !.vendor_code = PrivateData],
                           heap \cup {b}, f)
        BY <2>1, <3>1
      <4> DEFINE r == [NoError EXCEPT !.self = b, !.vendor_code = PrivateData]
      <4>2. heap = Others(s)
        BY <1>1, <3>1, Unheld
      <4>3. /\ Holds(s, r, heap \cup {b})
            /\ r.self = b /\ r.release = "none" /\ r.vendor_code = PrivateData
        BY <4>2, AllocatedHolds
      <4>4. errToAdbcErr(s, r, heap \cup {b}, f)
        BY <4>1
      <4> HIDE DEF r
      <4>5. b # Null
        BY ErrorsAssumption
      <4> QED
        BY <4>3, <4>4, <4>5, ErrToAdbcErrStores
    <3>2. CASE err[s].self # Null
      <4> DEFINE c == MariaDBerrRelease(err[s])
                 r == [c EXCEPT !.vendor_code = PrivateData]
                 h == heap \ Freed(err[s])
      <4>1. Holds(s, c, h) /\ c.self = err[s].self /\ c.release = "none"
        BY <1>2, ReleaseHolds
      <4>2. errToAdbcErr(s, r, h, f)
        BY <2>1, <3>2
      <4> HIDE DEF c, h
      <4>3. /\ Holds(s, r, h)
            /\ r.self = err[s].self /\ r.release = "none" /\ r.vendor_code = PrivateData
        BY <4>1, VendorCodeHolds
      <4> HIDE DEF r
      <4> QED
        BY <3>2, <4>2, <4>3, ErrToAdbcErrStores
    <3> QED
      BY <3>1, <3>2
  <2>4. phase' = [phase EXCEPT ![s] = "open"]
    BY <1>1, <1>4 DEF maybeError, TypeOK
  <2> QED
    BY <2>1, <2>2, <2>3, <2>4, StreamStep
<1>5. CASE ArrayStreamRelease(s)
  <2>1. Freed(err[s]) = OwnedBy(err[s]) \ {err[s].self}
    BY <1>2, FreedIsOwned DEF Holds
  <2>2. Null \notin heap
    BY ErrorsAssumption DEF TypeOK
  <2>3. heap' = Others(s)
    <3>1. heap' = heap \ (Freed(err[s]) \cup {err[s].self})
      BY <1>5 DEF ArrayStreamRelease
    <3>2. heap = Others(s) \cup OwnedBy(err[s]) /\ OwnedBy(err[s]) \cap Others(s) = {}
      BY <1>2 DEF Holds
    <3>3. err[s].self = Null \/ err[s].self \in OwnedBy(err[s])
      BY DEF OwnedBy
    <3> QED
      BY <2>1, <2>2, <3>1, <3>2, <3>3
  <2>4. Stored(s, NoError) /\ NoError.self = Null /\ NoError.release = "none"
    BY <1>5, <2>3, NoErrorHolds DEF ArrayStreamRelease, Stored
  <2>5. last' = [last EXCEPT ![s] = last[s]] /\ phase' = [phase EXCEPT ![s] = "unused"]
    BY <1>5 DEF ArrayStreamRelease, TypeOK
  <2> QED
    BY <1>0, <2>4, <2>5, StreamStep
<1> QED
  BY <1>3, <1>4, <1>5

-----------------------------------------------------------------------------
(* The invariant holds before the first call.                              *)
LEMMA Initially == Init => TypeOK /\ IInv
<1> SUFFICES ASSUME Init PROVE TypeOK /\ IInv
  OBVIOUS
<1>1. NoError \in Fields /\ Good(NoError) /\ NoError.self = Null /\ NoError.release = "none"
  BY NoErrorHolds DEF Holds
<1>2. \A e \in Structs : err[e] = NoError /\ phase[e] = "unused"
  BY DEF Init
<1>3. OwnedBy(NoError) = {}
  BY <1>1 DEF Good, OwnedBy
<1>4. \A e \in Structs : Owned(e) = {}
  BY <1>2, <1>3 DEF Owned, OwnedBy
<1>5. Accounted
  BY <1>4 DEF Init, Accounted
<1>6. PhaseShape
  BY <1>1, <1>2 DEF PhaseShape, Structs
<1>7. StreamErrorCurrent
  BY <1>2 DEF StreamErrorCurrent, Structs
<1>8. TypeOK
  BY <1>1, ErrorsAssumption DEF Init, TypeOK
<1> QED
  BY <1>1, <1>2, <1>5, <1>6, <1>7, <1>8 DEF IInv

(* Stuttering preserves the invariant.                                     *)
LEMMA Unchanged == TypeOK /\ IInv /\ UNCHANGED vars => TypeOK' /\ IInv'
<1> SUFFICES ASSUME TypeOK, IInv, UNCHANGED vars PROVE TypeOK' /\ IInv'
  OBVIOUS
<1>1. err' = err /\ heap' = heap /\ phase' = phase /\ last' = last
  BY DEF vars
<1>2. TypeOK'
  BY <1>1 DEF TypeOK
<1>3. (\A e \in Structs : Good(err[e]))'
  BY <1>1 DEF IInv
<1>4. Accounted'
  <2>1. \A e \in Structs : Owned(e)' = Owned(e)
    BY <1>1 DEF Owned
  <2> QED
    BY <1>1, <2>1 DEF IInv, Accounted
<1>5. PhaseShape' /\ StreamErrorCurrent'
  BY <1>1 DEF IInv, PhaseShape, StreamErrorCurrent, MariaDBErrorGetDetailCount
<1> QED
  BY <1>2, <1>3, <1>4, <1>5 DEF IInv

(* The inductive invariant of the error structs: the release callback of   *)
(* each struct matches what it holds, and the heap is what they hold.      *)
THEOREM ErrorsInvariance == Spec => [](TypeOK /\ IInv)
<1>1. TypeOK /\ IInv /\ [Next]_vars => TypeOK' /\ IInv'
  BY ErrorActions, StreamActions, Unchanged DEF Next
<1> QED
  BY <1>1, Initially, PTL DEF Spec

(* Every field of the structs has a value of its C type.                   *)
THEOREM ErrorsTypeCorrect == Spec => []TypeOK
BY ErrorsInvariance, PTL

(* No leak, no dangling pointer and no double free, for any number of      *)
(* errors, streams and allocations.                                        *)
THEOREM ErrorMemoryAlwaysExact == Spec => []ErrorMemoryExact
<1>1. TypeOK /\ IInv => ErrorMemoryExact
  <2> SUFFICES ASSUME TypeOK, IInv PROVE ErrorMemoryExact
    OBVIOUS
  <2>1. \A e \in Structs : Owned(e) = OwnedBy(err[e])
    BY DEF Owned, OwnedBy
  <2>2. \A e \in Structs : Freed(err[e]) = Owned(e) \ {err[e].self}
    BY <2>1, FreedIsOwned DEF IInv
  <2> QED
    BY <2>2 DEF IInv, Accounted, ErrorMemoryExact
<1> QED
  BY <1>1, ErrorsInvariance, PTL

(* An open stream always shows the details of its last failure.            *)
THEOREM StreamErrorAlwaysCurrent == Spec => []StreamErrorCurrent
<1>1. TypeOK /\ IInv => StreamErrorCurrent
  BY DEF IInv
<1> QED
  BY <1>1, ErrorsInvariance, PTL
=============================================================================
