-------------------------- MODULE ConnectionStrings --------------------------
(***************************************************************************)
(* How the uri, username and password options become the configuration of  *)
(* a session (db_factory.go): the option is turned into a DSN, the DSN is  *)
(* parsed, its time zones are forced to UTC, it is formatted again, and    *)
(* parsed once more when the database is opened.                           *)
(*                                                                         *)
(* URIs and DSNs are taken apart already: credentials, network, address,   *)
(* database and the list of parameters.  A text is the sequence of its     *)
(* parts between colons, for credentials are told apart by a colon.        *)
(***************************************************************************)
EXTENDS Naturals, Sequences, SequencesExt

CONSTANTS
  MaxParams,    (* bound on the parameters of a string                      *)
  Colons,       (* a name may hold a colon                                  *)
  None

VARIABLES
  given,        (* the string of the uri option                             *)
  opts,         (* the username and password options                        *)
  dsn,          (* the DSN so far                                           *)
  config,       (* the configuration the database is opened with            *)
  pc

vars == <<given, opts, dsn, config, pc>>

(* "brackets": a MariaDB URI with a socket, "open bracket": one without    *)
(* the closing parenthesis, "host": a plain host, "malformed": what        *)
(* url.Parse or ParseDSN refuse.                                           *)
Forms == {"missing", "other scheme", "tcp uri", "brackets", "open bracket", "no host",
          "malformed uri", "tcp dsn", "unix dsn", "malformed dsn", "host"}

Names  == {<<>>, <<"u">>, <<"v">>} \cup (IF Colons THEN {<<"u", "x">>} ELSE {})
Values == [loc |-> {"UTC", "Paris"}, time_zone |-> {"+00:00", "+02:00"}, charset |-> {"utf8"}]
Params == UNION {{<<k, v>> : v \in Values[k]} : k \in DOMAIN Values}

(* A password goes with a user; a plain host is nothing but a host, and    *)
(* what a malformed string holds makes no difference.                      *)
Spellable(s) ==
  /\ s.user = <<>> => s.pass = <<>>
  /\ s.form \in {"host", "malformed uri", "malformed dsn"} =>
       s.user = <<>> /\ s.db = "" /\ s.params = <<>>

Strings ==
  {s \in [form : Forms, user : Names, pass : {<<>>, <<"p">>}, port : {"default", "3307"},
          db : {"", "db"}, params : UNION {[1 .. n -> Params] : n \in 0 .. MaxParams}] :
     Spellable(s)}

-----------------------------------------------------------------------------
(***************************************************************************)
(* The protocol library, external.  ParseDSN keeps loc in a field of its   *)
(* own and every other parameter in Params; the last one counts.           *)
(* FormatDSN writes loc if it is not UTC, then Params.                     *)
(***************************************************************************)
LastValue(params, k, default) ==
  LET at == {i \in DOMAIN params : params[i][1] = k}
  IN  IF at = {} THEN default ELSE params[CHOOSE i \in at : \A j \in at : j <= i][2]

ParseDSN(d) ==
  [user   |-> IF d.creds = <<>> THEN <<>> ELSE <<Head(d.creds)>>,
   pass   |-> IF d.creds = <<>> THEN <<>> ELSE Tail(d.creds),
   net    |-> d.net, port |-> d.port, db |-> d.db,
   loc    |-> LastValue(d.params, "loc", "UTC"),
   params |-> [k \in {d.params[i][1] : i \in DOMAIN d.params} \ {"loc"} |->
                 LastValue(d.params, k, None)]]

NewConfig == [user |-> <<>>, pass |-> <<>>, net |-> "tcp", port |-> "default", db |-> "",
              loc |-> "UTC", params |-> <<>>]

(* A password needs a user.                                                *)
FormatDSN(cfg) ==
  [creds  |-> IF cfg.user = <<>> THEN <<>> ELSE cfg.user \o cfg.pass,
   net    |-> cfg.net, port |-> cfg.port, db |-> cfg.db,
   params |-> (IF cfg.loc = "UTC" THEN <<>> ELSE <<<<"loc", cfg.loc>>>>)
                \o SetToSeq({<<k, cfg.params[k]>> : k \in DOMAIN cfg.params})]

-----------------------------------------------------------------------------
(* The options override the credentials of the string.                     *)
WithCredentials(cfg) ==
  [cfg EXCEPT !.user = IF opts.username # <<>> THEN opts.username ELSE @,
              !.pass = IF opts.password # <<>> THEN opts.password ELSE @]

(* The configuration a string spells out.                                  *)
Given(net) == [NewConfig EXCEPT !.user = given.user, !.pass = given.pass, !.net = net,
                                !.port = IF net = "unix" THEN "default" ELSE given.port,
                                !.db = given.db]

Fails    == pc' = "failed" /\ UNCHANGED dsn
Builds(d) == pc' = "built" /\ dsn' = d

(* The query of the URI is appended as it is.                              *)
parseToMariaDBDSN(net) ==
  Builds([FormatDSN(WithCredentials(Given(net))) EXCEPT !.params = @ \o given.params])

(* A DSN, written as it is formatted; a plain host has neither database    *)
(* nor parameters.                                                         *)
Native(net) == [FormatDSN(Given(net)) EXCEPT !.params = given.params]

buildFromNativeDSN ==
  CASE given.form = "tcp dsn"  -> Builds(FormatDSN(WithCredentials(ParseDSN(Native("tcp")))))
    [] given.form = "unix dsn" -> Builds(FormatDSN(WithCredentials(ParseDSN(Native("unix")))))
    [] given.form = "malformed dsn" -> Fails
    [] given.form = "host"     ->
         Builds(FormatDSN(WithCredentials([NewConfig EXCEPT !.port = given.port])))

(* Without credential options the string is taken as it is, a DSN or not.  *)
TakenAsIs ==
  CASE given.form = "tcp dsn"  -> Builds(Native("tcp"))
    [] given.form = "unix dsn" -> Builds(Native("unix"))
    [] given.form \in {"host", "malformed dsn"} -> pc' = "unparsable" /\ UNCHANGED dsn

NoCredentials == opts.username = <<>> /\ opts.password = <<>>

BuildMariaDBDSN ==
  /\ pc = "start"
  /\ CASE given.form \in {"missing", "other scheme", "malformed uri", "open bracket", "no host"} ->
            Fails
       [] given.form = "tcp uri"  -> parseToMariaDBDSN("tcp")
       [] given.form = "brackets" -> parseToMariaDBDSN("unix")
       [] OTHER -> IF NoCredentials THEN TakenAsIs ELSE buildFromNativeDSN
  /\ UNCHANGED <<given, opts, config>>

(* Mutant: loc is not set among the parameters.                            *)
forceUTCTimezoneOnly ==
  /\ pc = "built"
  /\ LET cfg == ParseDSN(dsn)
     IN  dsn' = FormatDSN([cfg EXCEPT !.params = [k \in DOMAIN @ \cup {"time_zone"} |->
                  IF k = "time_zone" THEN "+00:00" ELSE @[k]]])
  /\ pc' = "forced"
  /\ UNCHANGED <<given, opts, config>>

(* loc is set in Params beside the field of the same name.                 *)
forceUTCTimezone ==
  /\ pc = "built"
  /\ LET cfg == ParseDSN(dsn)
     IN  dsn' = FormatDSN([cfg EXCEPT !.params = [k \in DOMAIN @ \cup {"time_zone", "loc"} |->
                  CASE k = "time_zone" -> "+00:00" [] k = "loc" -> "UTC" [] OTHER -> @[k]]])
  /\ pc' = "forced"
  /\ UNCHANGED <<given, opts, config>>

(* What was taken as it is cannot be parsed: no DSN, or a malformed one.   *)
OverrideFails ==
  /\ pc = "unparsable"
  /\ Fails
  /\ UNCHANGED <<given, opts, config>>

(* sql.Open                                                                *)
CreateDB ==
  /\ pc = "forced"
  /\ config' = ParseDSN(dsn)
  /\ pc' = "opened"
  /\ UNCHANGED <<given, opts, dsn>>

Init ==
  /\ given \in Strings
  /\ opts \in [username : Names, password : {<<>>, <<"q">>}]
  /\ dsn = None /\ config = None
  /\ pc = "start"

Next == BuildMariaDBDSN \/ forceUTCTimezone \/ OverrideFails \/ CreateDB

Spec == Init /\ [][Next]_vars

-----------------------------------------------------------------------------
Expected ==
  LET user == IF opts.username # <<>> THEN opts.username ELSE given.user
      unix == given.form \in {"brackets", "unix dsn"}
  IN  [user |-> user,
       pass |-> IF user = <<>> THEN <<>>
                ELSE IF opts.password # <<>> THEN opts.password ELSE given.pass,
       net  |-> IF unix THEN "unix" ELSE "tcp",
       port |-> IF unix THEN "default" ELSE given.port,
       db   |-> given.db,
       charset |-> \E i \in DOMAIN given.params : given.params[i][1] = "charset"]

(* Every spelling reaches the server it names with the credentials of the  *)
(* options, else its own, and the parameters given, through three          *)
(* conversions; no other string is accepted.  Timestamps are read and      *)
(* written in UTC, whatever time zones the string asks for, by whichever   *)
(* of its spellings and however often.                                     *)
SettingsKept ==
  /\ pc = "opened" => config.loc = "UTC" /\ config.params.time_zone = "+00:00"
  /\ pc = "opened" =>
       [user |-> config.user, pass |-> config.pass, net |-> config.net, port |-> config.port,
        db |-> config.db, charset |-> "charset" \in DOMAIN config.params] = Expected
  /\ pc = "failed" =>
       \/ given.form \in {"missing", "other scheme", "malformed uri", "open bracket", "no host",
                        "malformed dsn"}
       \/ given.form = "host" /\ NoCredentials
=============================================================================
