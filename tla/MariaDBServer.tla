---------------------------- MODULE MariaDBServer ----------------------------
(***************************************************************************)
(* What a MariaDB session does with the commands the driver sends: the     *)
(* part of the server the driver's promises rest on.  External: modelled   *)
(* from how mariadb.go, connection.go and their comments use it.           *)
(*                                                                         *)
(* A store holds the rows that survive the session (durable), the rows of  *)
(* the open transaction (tentative) and the session's autocommit mode.     *)
(***************************************************************************)
CONSTANT Rows

Store == [durable : SUBSET Rows, tentative : SUBSET Rows, autocommit : BOOLEAN]

FreshStore(mode) == [durable |-> {}, tentative |-> {}, autocommit |-> mode]

Committed(s)  == [s EXCEPT !.durable = @ \cup s.tentative, !.tentative = {}]
RolledBack(s) == [s EXCEPT !.tentative = {}]

Written(s, r) == IF s.autocommit THEN [s EXCEPT !.durable = @ \cup {r}]
                                 ELSE [s EXCEPT !.tentative = @ \cup {r}]

(* Enabling autocommit commits the open transaction (docs/mariadb.md).     *)
WithAutocommit(s, on) == [(IF on THEN Committed(s) ELSE s) EXCEPT !.autocommit = on]

(* A command is a name and an argument; every other command leaves the     *)
(* store as it is.                                                         *)
Effect(c, s) ==
  CASE c.name = "WRITE"          -> Written(s, c.arg)
    [] c.name = "COMMIT"         -> Committed(s)
    [] c.name = "ROLLBACK"       -> RolledBack(s)
    [] c.name = "SET autocommit" -> WithAutocommit(s, c.arg = "1")
    [] OTHER                     -> s

(* Commands whose failure may have rolled the transaction back: a          *)
(* deadlock, a lock timeout, a certification failure.  To enable           *)
(* autocommit is to commit.                                                *)
MayAbort(c) ==
  c.name \in {"WRITE", "COMMIT", "SELECT"} \/ (c.name = "SET autocommit" /\ c.arg = "1")
-----------------------------------------------------------------------------
(* The journal of the application: the acknowledged writes of the open     *)
(* transaction, the rows it was told are kept, the rows it was told are    *)
(* gone.                                                                   *)
Journal   == [open : SUBSET Rows, kept : SUBSET Rows, gone : SUBSET Rows]
NoJournal == [open |-> {}, kept |-> {}, gone |-> {}]

(* What the application learns from an acknowledged command.               *)
Acknowledged(c, m, j) ==
  CASE c.name = "WRITE" /\ m      -> [j EXCEPT !.kept = @ \cup {c.arg}]
    [] c.name = "WRITE" /\ ~m     -> [j EXCEPT !.open = @ \cup {c.arg}]
    [] c.name = "COMMIT"          -> [j EXCEPT !.kept = @ \cup j.open, !.open = {}]
    [] c.name = "ROLLBACK"        -> [j EXCEPT !.gone = @ \cup j.open, !.open = {}]
    [] c.name = "SET autocommit"  ->
         IF c.arg = "1" THEN [j EXCEPT !.kept = @ \cup j.open, !.open = {}] ELSE j
    [] OTHER                      -> j

(* A failure that may have ended the transaction leaves nothing to rely on.*)
Doubted(j) == [j EXCEPT !.open = {}]

ModeAfter(c, m) == IF c.name = "SET autocommit" THEN c.arg = "1" ELSE m
=============================================================================
