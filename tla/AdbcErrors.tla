----------------------------- MODULE AdbcErrors -----------------------------
(***************************************************************************)
(* Ownership of C memory behind AdbcError structs: the ones an application *)
(* passes to calls (pkg/driver.go: setErr, fmtErr, setErrWithDetails,      *)
(* errToAdbcErr, poison) and the one a failing ArrowArrayStream keeps      *)
(* (cArrayStream.adbcErr), with the release callbacks of pkg/utils.c.      *)
(*                                                                         *)
(* The application initializes a struct before the first call it passes it *)
(* to, in the form of ADBC 1.0.0 (vendor_code 0) or 1.1.0 (vendor_code     *)
(* ADBC_ERROR_VENDOR_CODE_PRIVATE_DATA), and releases it before it passes  *)
(* it to another call.                                                     *)
(***************************************************************************)
EXTENDS Integers

CONSTANTS
  Errors,       (* AdbcError structs of the application                     *)
  Streams,      (* exported ArrowArrayStreams                               *)
  Blocks,       (* addresses malloc can return                              *)
  Codes,        (* vendor codes, NoCode (0) among them                      *)
  NoCode,
  PrivateData,  (* ADBC_ERROR_VENDOR_CODE_PRIVATE_DATA                      *)
  MaxDetails,   (* bound on the details of an adbc.Error                    *)
  Null

ASSUME ErrorsAssumption ==
  /\ Errors \cap Streams = {}
  /\ NoCode \in Codes /\ PrivateData \notin Codes
  /\ Null \notin Blocks
  /\ MaxDetails \in Nat

VARIABLES
  err,          (* the fields of every AdbcError struct                     *)
  heap,         (* blocks allocated and not freed                           *)
  phase,        (* where the call or the stream that uses a struct is       *)
  last          (* history: the number of details of the last failure       *)

vars == <<err, heap, phase, last>>

Structs == Errors \cup Streams

(* self is the block of the struct itself, if the driver allocated it;     *)
(* private_data is the block of the struct MariaDBError with its arrays,   *)
(* which are allocated and freed together.                                 *)
NoError == [message |-> Null, vendor_code |-> NoCode, release |-> "none",
            private_data |-> Null, count |-> 0, self |-> Null]

(* What a call of the Go driver fails with: an adbc.Error, or any other.   *)
AdbcFailure  == [adbc : {TRUE}, code : Codes, n : 0 .. MaxDetails]
OtherFailure == [adbc |-> FALSE, code |-> NoCode, n |-> 0]
Failures     == AdbcFailure \cup {OtherFailure}

-----------------------------------------------------------------------------
(***************************************************************************)
(* The release callbacks.  err.message and MariaDBError.message are one    *)
(* block, which MariaDBReleaseErrWithDetails frees once.                   *)
(***************************************************************************)
MariaDB_release_error(r) == [r EXCEPT !.message = Null, !.release = "none"]

MariaDBReleaseErrWithDetails(r) ==
  IF r.private_data = Null THEN r
  ELSE [r EXCEPT !.message = Null, !.release = "none", !.private_data = Null, !.count = 0]

(* The struct after MariaDBerrRelease, and the blocks it frees.            *)
MariaDBerrRelease(r) ==
  [(CASE r.release = "plain"   -> MariaDB_release_error(r)
      [] r.release = "details" -> MariaDBReleaseErrWithDetails(r)
      [] OTHER -> r) EXCEPT !.release = "none"]

Freed(r) ==
  CASE r.release = "plain" -> {r.message} \ {Null}
    [] r.release = "details" /\ r.private_data # Null -> {r.message, r.private_data} \ {Null}
    [] OTHER -> {}

MariaDBErrorGetDetailCount(r) ==
  IF r.release = "details" /\ r.private_data # Null THEN r.count ELSE 0

-----------------------------------------------------------------------------
(* Mutant: setErr forgets to release the error it replaces.                *)
setErrLeaks(e, r, h) ==
  \E m \in Blocks \ h :
    /\ err' = [err EXCEPT ![e] = [r EXCEPT !.message = m, !.release = "plain"]]
    /\ heap' = h \cup {m}

(* The functions that set an error on the struct e, whose fields are r and *)
(* the allocated blocks h by now.                                          *)
setErr(e, r, h) ==
  \E m \in Blocks \ (h \ Freed(r)) :
    /\ err' = [err EXCEPT ![e] = [MariaDBerrRelease(r) EXCEPT !.message = m, !.release = "plain"]]
    /\ heap' = (h \ Freed(r)) \cup {m}

(* A caller of ADBC 1.0.0 gets the vendor code, one of 1.1.0 the details,  *)
(* or the vendor code if there are none.                                   *)
UsesVendorCode(r, f) == r.vendor_code # PrivateData \/ (f.n = 0 /\ f.code # NoCode)

(* Only the first branch releases what the struct held before.             *)
setErrWithDetails(e, r, h, f) ==
  \/ /\ UsesVendorCode(r, f)
     /\ setErr(e, [r EXCEPT !.vendor_code = f.code], h)
  \/ /\ ~UsesVendorCode(r, f)
     /\ \E m, d \in Blocks \ h :
          /\ m # d
          /\ err' = [err EXCEPT ![e] =
               [r EXCEPT !.message = m, !.release = "details", !.private_data = d, !.count = f.n]]
          /\ heap' = h \cup {m, d}

errToAdbcErr(e, r, h, f) ==
  \/ f.adbc /\ setErrWithDetails(e, r, h, f)
  \/ ~f.adbc /\ setErr(e, r, h)

-----------------------------------------------------------------------------
(***************************************************************************)
(* Structs of the application.                                             *)
(***************************************************************************)
AppInit(e) ==
  /\ phase[e] \in {"unused", "released"}
  /\ \E v \in {NoCode, PrivateData} :
       err' = [err EXCEPT ![e] = [NoError EXCEPT !.vendor_code = v]]
  /\ phase' = [phase EXCEPT ![e] = "ready"]
  /\ UNCHANGED <<heap, last>>

(* A call fails; its deferred functions have still to run.  An application *)
(* may reuse a struct it released without initializing it again.           *)
CallFails(e) ==
  /\ phase[e] \in {"ready", "released"}
  /\ \E f \in Failures : errToAdbcErr(e, err[e], heap, f)
  /\ phase' = [phase EXCEPT ![e] = "failed"]
  /\ UNCHANGED last

(* poison: the call panics, before or after it set an error.               *)
CallPanics(e) ==
  /\ phase[e] \in {"ready", "released", "failed"}
  /\ setErr(e, err[e], heap)
  /\ phase' = [phase EXCEPT ![e] = "returned"]
  /\ UNCHANGED last

CallReturns(e) ==
  /\ phase[e] = "failed"
  /\ phase' = [phase EXCEPT ![e] = "returned"]
  /\ UNCHANGED <<err, heap, last>>

(* The application calls err.release(err).                                 *)
AppRelease(e) ==
  /\ phase[e] = "returned"
  /\ err' = [err EXCEPT ![e] = MariaDBerrRelease(err[e])]
  /\ heap' = heap \ Freed(err[e])
  /\ phase' = [phase EXCEPT ![e] = "released"]
  /\ UNCHANGED last

-----------------------------------------------------------------------------
(***************************************************************************)
(* The struct of a stream.                                                 *)
(***************************************************************************)
exportRecordReader(s) ==
  /\ phase[s] = "unused"
  /\ phase' = [phase EXCEPT ![s] = "open"]
  /\ last' = [last EXCEPT ![s] = 0]
  /\ UNCHANGED <<err, heap>>

(* Mutant: vendor_code is only set when the struct is allocated.           *)
maybeErrorOnce(s) ==
  /\ phase[s] = "open"
  /\ \E f \in Failures :
       /\ \/ /\ err[s].self = Null
             /\ \E b \in Blocks \ heap :
                  errToAdbcErr(s, [NoError EXCEPT !.self = b, !.vendor_code = PrivateData],
                               heap \cup {b}, f)
          \/ /\ err[s].self # Null
             /\ errToAdbcErr(s, MariaDBerrRelease(err[s]), heap \ Freed(err[s]), f)
       /\ last' = [last EXCEPT ![s] = f.n]
  /\ UNCHANGED phase

(* GetNext or GetSchema fails.  The first time the struct is allocated,    *)
(* later its error is released; vendor_code asks for details every time.   *)
maybeError(s) ==
  /\ phase[s] = "open"
  /\ \E f \in Failures :
       /\ \/ /\ err[s].self = Null
             /\ \E b \in Blocks \ heap :
                  errToAdbcErr(s, [NoError EXCEPT !.self = b, !.vendor_code = PrivateData],
                               heap \cup {b}, f)
          \/ /\ err[s].self # Null
             /\ errToAdbcErr(s, [MariaDBerrRelease(err[s]) EXCEPT !.vendor_code = PrivateData],
                             heap \ Freed(err[s]), f)
       /\ last' = [last EXCEPT ![s] = f.n]
  /\ UNCHANGED phase

ArrayStreamRelease(s) ==
  /\ phase[s] = "open"
  /\ heap' = heap \ (Freed(err[s]) \cup {err[s].self})
  /\ err' = [err EXCEPT ![s] = NoError]
  /\ phase' = [phase EXCEPT ![s] = "unused"]
  /\ UNCHANGED last

-----------------------------------------------------------------------------
Init ==
  /\ err = [e \in Structs |-> NoError]
  /\ heap = {}
  /\ phase = [e \in Structs |-> "unused"]
  /\ last = [s \in Streams |-> 0]

Next ==
  \/ \E e \in Errors : AppInit(e) \/ CallFails(e) \/ CallPanics(e) \/ CallReturns(e) \/ AppRelease(e)
  \/ \E s \in Streams : exportRecordReader(s) \/ maybeError(s) \/ ArrayStreamRelease(s)

Spec == Init /\ [][Next]_vars

-----------------------------------------------------------------------------
(***************************************************************************)
(* Properties.                                                             *)
(***************************************************************************)
Fields == [message : Blocks \cup {Null}, vendor_code : Codes \cup {PrivateData},
           release : {"none", "plain", "details"}, private_data : Blocks \cup {Null},
           count : 0 .. MaxDetails, self : Blocks \cup {Null}]

(* The values the variables range over; only the driver's own structs are  *)
(* allocated.                                                              *)
TypeOK ==
  /\ err \in [Structs -> Fields]
  /\ heap \in SUBSET Blocks
  /\ phase \in [Structs -> {"unused", "ready", "failed", "returned", "released", "open"}]
  /\ last \in [Streams -> 0 .. MaxDetails]

Owned(e) == {err[e].message, err[e].private_data, err[e].self} \ {Null}

(* The C heap holds exactly the blocks the structs own, each owned once:   *)
(* no leak, no dangling pointer and no block two structs would free.  And  *)
(* the release callback of a struct frees everything it owns, whichever    *)
(* function set the error and whatever error it replaced.                  *)
ErrorMemoryExact ==
  /\ heap = UNION {Owned(e) : e \in Structs}
  /\ \A e, f \in Structs : e # f => Owned(e) \cap Owned(f) = {}
  /\ \A e \in Structs : Freed(err[e]) = Owned(e) \ {err[e].self}

(* AdbcErrorFromArrayStream shows the details of the last failure of the   *)
(* stream, also when an earlier failure overwrote vendor_code.             *)
StreamErrorCurrent ==
  \A s \in Streams : phase[s] = "open" => MariaDBErrorGetDetailCount(err[s]) = last[s]

(* adbc.h:308 says of AdbcError.private_data: it "may not be used unless   *)
(* vendor_code is ADBC_ERROR_VENDOR_CODE_PRIVATE_DATA.  If present, this   *)
(* field is NULLPTR iff the error is uninitialized/freed".                 *)
PrivateDataSet ==
  \A e \in Errors :
    phase[e] = "returned" /\ err[e].vendor_code = PrivateData => err[e].private_data # Null
=============================================================================
