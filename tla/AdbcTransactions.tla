-------------------------- MODULE AdbcTransactions --------------------------
(***************************************************************************)
(* What a connection promises about transactions, whatever the driver does *)
(* on the wire: a call takes effect at most once, an acknowledged call has *)
(* taken effect, and a call that failed because the connection was lost    *)
(* may take effect late or never, but nothing is called after it.          *)
(*                                                                         *)
(* journal is what the application knows (MariaDBServer).                  *)
(***************************************************************************)
EXTENDS MariaDBServer

VARIABLES
  store,      (* the rows and the mode of the server session               *)
  mode,       (* the autocommit mode as the application sees it            *)
  linked,     (* the application still reaches the session                 *)
  request,    (* the command asked for, and what became of it              *)
  journal     (* what the application was told                             *)

vars == <<store, mode, linked, request, journal>>

(* Commands that leave the store as it is: a query, and all others.        *)
OtherNames == {"SELECT", "OTHER"}

Phases    == {"none", "issued", "performed", "refused", "abandoned"}
NoCommand == [name |-> "none", arg |-> "none"]
NoRequest == [phase |-> "none", cmd |-> NoCommand]

Init ==
  /\ store = FreshStore(TRUE)
  /\ mode = TRUE
  /\ linked = TRUE
  /\ request = NoRequest
  /\ journal = NoJournal

(* The commands the application may ask for: it writes a row once, and     *)
(* COMMIT and ROLLBACK need a transaction.                                 *)
Allowed(c) ==
  \/ /\ c.name = "WRITE"
     /\ c.arg \in Rows \ (store.durable \cup store.tentative \cup journal.gone)
  \/ c.name \in {"COMMIT", "ROLLBACK"} /\ ~mode
  \/ c.name = "SET autocommit" /\ c.arg \in {"0", "1"}
  \/ c.name \in OtherNames

Issue(c) ==
  /\ linked /\ request.phase = "none" /\ Allowed(c)
  /\ request' = [phase |-> "issued", cmd |-> c]
  /\ UNCHANGED <<store, mode, linked, journal>>

Perform ==
  /\ request.phase \in {"issued", "abandoned"}
  /\ store' = Effect(request.cmd, store)
  /\ request' = IF request.phase = "issued" THEN [request EXCEPT !.phase = "performed"]
                                            ELSE NoRequest
  /\ UNCHANGED <<mode, linked, journal>>

Refuse ==
  /\ request.phase \in {"issued", "abandoned"}
  /\ \/ store' = store
     \/ MayAbort(request.cmd) /\ store' = RolledBack(store)
  /\ request' = IF request.phase = "issued" THEN [request EXCEPT !.phase = "refused"]
                                            ELSE NoRequest
  /\ UNCHANGED <<mode, linked, journal>>

Acknowledge ==
  /\ linked /\ request.phase = "performed"
  /\ journal' = Acknowledged(request.cmd, mode, journal)
  /\ mode' = ModeAfter(request.cmd, mode)
  /\ request' = NoRequest
  /\ UNCHANGED <<store, linked>>

Deny ==
  /\ linked /\ request.phase = "refused"
  /\ journal' = IF MayAbort(request.cmd) THEN Doubted(journal) ELSE journal
  /\ request' = NoRequest
  /\ UNCHANGED <<store, mode, linked>>

(* The connection is lost; what was asked for may still happen.            *)
Sever ==
  /\ linked
  /\ linked' = FALSE
  /\ journal' = Doubted(journal)
  /\ request' = IF request.phase = "issued" THEN [request EXCEPT !.phase = "abandoned"]
                                            ELSE NoRequest
  /\ UNCHANGED <<store, mode>>

(* The server ends a session nobody reaches.                               *)
End ==
  /\ ~linked
  /\ store' = RolledBack(store)
  /\ request' = NoRequest
  /\ UNCHANGED <<mode, linked, journal>>

Commands ==
  [name : {"WRITE"}, arg : Rows] \cup [name : {"SET autocommit"}, arg : {"0", "1"}]
    \cup [name : {"COMMIT", "ROLLBACK"} \cup OtherNames, arg : {"none"}]

Next ==
  \/ \E c \in Commands : Issue(c)
  \/ Perform \/ Refuse \/ Acknowledge \/ Deny \/ Sever \/ End

Spec == Init /\ [][Next]_vars

-----------------------------------------------------------------------------
TypeOK ==
  /\ store \in Store
  /\ mode \in BOOLEAN
  /\ linked \in BOOLEAN
  /\ request \in [phase : Phases, cmd : Commands \cup {NoCommand}]
  /\ journal \in Journal

(* Rows the application was told are committed (an acknowledged Commit, a  *)
(* write under autocommit, autocommit switched on) are durable, and rows   *)
(* of a transaction whose Rollback was acknowledged never become durable.  *)
Promises ==
  /\ journal.kept \subseteq store.durable
  /\ journal.gone \cap store.durable = {}
=============================================================================
