----------------------------- MODULE Placeholders -----------------------------
(***************************************************************************)
(* countPlaceholders (mariadb.go): the loop that counts the parameters of  *)
(* a query, one iteration per step, against a definition of what the       *)
(* server's lexer takes for a parameter.  A query is a sequence of         *)
(* characters; quotes, backslash, blank and newline go by their names.     *)
(***************************************************************************)
EXTENDS Integers, Sequences, FiniteSets

CONSTANTS
  Alphabet,    (* the characters queries are made of                        *)
  MaxLength    (* bound on the length of a query                            *)

VARIABLES query, i, state, count

vars == <<query, i, state, count>>

Quotes == {"squote", "dquote", "backtick"}
Blank  == {"blank", "newline", "return"}   (* characters <= ' ' *)

At(p) == IF p <= Len(query) THEN query[p] ELSE "end"

-----------------------------------------------------------------------------
(* The switch of the loop.  Quoted states are named by their quote.        *)

Plain ==
  /\ state = "plain"
  /\ count' = IF At(i) = "?" THEN count + 1 ELSE count
  /\ state' = CASE At(i) \in Quotes -> At(i)
                [] At(i) = "#" -> "line"
                [] At(i) = "-" /\ At(i + 1) = "-" /\ At(i + 2) \in Blank -> "line"
                [] At(i) = "/" /\ At(i + 1) = "*" -> "block"
                [] OTHER -> "plain"
  /\ i' = IF state' \in {"line", "block"} /\ At(i) # "#" THEN i + 2 ELSE i + 1

(* Mutant: a backslash escapes in a quoted identifier, too.                *)
EscapesEverywhere == At(i) = "backslash" /\ i < Len(query)

Escapes == At(i) = "backslash" /\ state # "backtick" /\ i < Len(query)

Quoted ==
  /\ state \in Quotes
  /\ i' = IF Escapes \/ (At(i) = state /\ At(i + 1) = state) THEN i + 2 ELSE i + 1
  /\ state' = IF ~Escapes /\ At(i) = state /\ At(i + 1) # state THEN "plain" ELSE state
  /\ UNCHANGED count

LineComment ==
  /\ state = "line"
  /\ state' = IF At(i) \in {"newline", "return"} THEN "plain" ELSE state
  /\ i' = i + 1
  /\ UNCHANGED count

BlockComment ==
  /\ state = "block"
  /\ LET ends == At(i) = "*" /\ At(i + 1) = "/"
     IN  /\ state' = IF ends THEN "plain" ELSE state
         /\ i' = IF ends THEN i + 2 ELSE i + 1
  /\ UNCHANGED count

Init ==
  /\ query \in UNION {[1 .. n -> Alphabet] : n \in 0 .. MaxLength}
  /\ i = 1 /\ state = "plain" /\ count = 0

Next ==
  /\ i <= Len(query)
  /\ Plain \/ Quoted \/ LineComment \/ BlockComment
  /\ UNCHANGED query

Spec == Init /\ [][Next]_vars

-----------------------------------------------------------------------------
(***************************************************************************)
(* Reference: the query is cut into tokens from the left.  A quoted text   *)
(* ends at the first quote with an even number of backslashes before it (a *)
(* doubled quote is then two texts side by side), a comment at its first   *)
(* end mark; every other character is a token of its own.                  *)
(***************************************************************************)
Backslashes(p) ==   (* how many backslashes stand just before p *)
  Cardinality({k \in 1 .. p - 1 : \A m \in k .. p - 1 : query[m] = "backslash"})

ClosesText(s, p) ==
  /\ p > s /\ query[p] = query[s]
  /\ query[s] = "backtick" \/ \E k \in {Backslashes(p)} :
       (IF k > p - s - 1 THEN p - s - 1 ELSE k) % 2 = 0

FirstIn(S) == IF S = {} THEN Len(query) ELSE CHOOSE p \in S : \A q \in S : p <= q

Starts2(s, a, b) == At(s) = a /\ At(s + 1) = b

TokenEnd(s) ==
  LET after == s + 1 .. Len(query)
  IN  CASE query[s] \in Quotes -> FirstIn({p \in after : ClosesText(s, p)})
        [] query[s] = "#" \/ (Starts2(s, "-", "-") /\ At(s + 2) \in Blank) ->
             FirstIn({p \in after : query[p] = "newline"})
        [] Starts2(s, "/", "*") ->
             FirstIn({p \in after : p > s + 2 /\ Starts2(p - 1, "*", "/")})
        [] OTHER -> s

(* Where tokens start: 1, and after the end of every token.  The start of  *)
(* a token is in every set that cuts the query so.                         *)
CutSets ==
  {S \in SUBSET (1 .. Len(query) + 1) :
     1 \in S /\ \A s \in S : s <= Len(query) => TokenEnd(s) + 1 \in S}

TokenStarts ==
  LET cuts == CutSets
  IN  {p \in 1 .. Len(query) : \A S \in cuts : p \in S}

Parameters == {p \in TokenStarts : query[p] = "?"}

(* The count returned is the number of parameters: whatever quotes,        *)
(* escapes and comments the query nests, and wherever it breaks off        *)
(* (docs/mariadb.md: the parser ignores question marks inside quoted       *)
(* strings, quoted identifiers and SQL comments).                          *)
CountExact == i > Len(query) => count = Cardinality(Parameters)
=============================================================================
