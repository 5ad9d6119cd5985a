------------------------------ MODULE TypeValues ------------------------------
(***************************************************************************)
(* parseMariaDBTypeValues (connection.go): the values of an ENUM or SET    *)
(* column, read back from the COLUMN_TYPE the server renders.  Texts are   *)
(* sequences of characters, special ones by their names.                   *)
(***************************************************************************)
EXTENDS Integers, Sequences, SequencesExt

CONSTANTS
  Alphabet,     (* the characters of values                                 *)
  MaxValues,    (* bound on the number of values                            *)
  MaxLength     (* bound on the length of a value                           *)

VARIABLES
  declared,     (* the values of the column                                 *)
  form,         (* how the declaration is written, see Declaration          *)
  columnType,   (* the declaration the driver reads                         *)
  pos, value, values, pc

vars == <<declared, form, columnType, pos, value, values, pc>>

Texts == UNION {[1 .. n -> Alphabet] : n \in 0 .. MaxLength}

(* The server, external: it escapes the quote, the backslash and the       *)
(* characters that end lines and strings.                                  *)
Escaped(ch) == CASE ch = "quote"     -> <<"quote", "quote">>
                 [] ch = "backslash" -> <<"backslash", "backslash">>
                 [] ch = "newline"   -> <<"backslash", "n">>
                 [] ch = "return"    -> <<"backslash", "r">>
                 [] ch = "nul"       -> <<"backslash", "0">>
                 [] OTHER            -> <<ch>>

Rendered(text) == <<"quote">> \o FlattenSeq([k \in DOMAIN text |-> Escaped(text[k])]) \o <<"quote">>

RenderedList(texts, separator) ==
  FlattenSeq([k \in DOMAIN texts |->
               IF k = 1 THEN Rendered(texts[k]) ELSE separator \o Rendered(texts[k])])

(* Declarations as the server writes them, with blanks around the commas,  *)
(* without the last quote, and with text before or after a value.          *)
Forms == {"plain", "spaced", "cut", "prefixed", "suffixed"}

Declaration(texts, f) ==
  LET list == RenderedList(texts, IF f = "spaced" THEN <<"blank", "comma", "blank">>
                                                  ELSE <<"comma">>)
      body == CASE f \in {"plain", "spaced"} -> list
                [] f = "cut"      -> Front(list)
                [] f = "prefixed" -> <<"n">> \o list
                [] f = "suffixed" -> list \o <<"n">>
  IN  <<"enum", "(">> \o body \o <<")">>

-----------------------------------------------------------------------------
(* The text between the first "(" and the last ")".                        *)

Indices(ch) == {k \in DOMAIN columnType : columnType[k] = ch}

input ==
  LET open  == CHOOSE k \in Indices("(") : \A m \in Indices("(") : k <= m
      close == CHOOSE k \in Indices(")") : \A m \in Indices(")") : k >= m
  IN  SubSeq(columnType, open + 1, close - 1)

At(p) == IF p <= Len(input) THEN input[p] ELSE "end"

Fails == pc' = "error" /\ UNCHANGED <<pos, value, values>>

(* Between values: blanks and commas are skipped, a value starts with a    *)
(* quote.                                                                  *)
Between ==
  /\ pc = "between"
  /\ \/ /\ At(pos) \in {"blank", "comma"}
        /\ pos' = pos + 1
        /\ UNCHANGED <<value, values, pc>>
     \/ /\ At(pos) = "end"
        /\ pc' = "done"
        /\ UNCHANGED <<pos, value, values>>
     \/ /\ At(pos) = "quote"
        /\ pos' = pos + 1 /\ value' = <<>> /\ pc' = "value"
        /\ UNCHANGED values
     \/ At(pos) \notin {"blank", "comma", "end", "quote"} /\ Fails

(* Mutant: a doubled quote ends the value.                                 *)
DoubledNever == FALSE

Doubled == At(pos) = "quote" /\ At(pos + 1) = "quote"

(* One character of a value.                                               *)
InValue ==
  /\ pc = "value"
  /\ \/ At(pos) = "end" /\ Fails
     \/ /\ At(pos) = "backslash" /\ pos < Len(input)
        /\ value' = Append(value, At(pos + 1)) /\ pos' = pos + 2
        /\ UNCHANGED <<values, pc>>
     \/ /\ Doubled
        /\ value' = Append(value, "quote") /\ pos' = pos + 2
        /\ UNCHANGED <<values, pc>>
     \/ /\ At(pos) = "quote" /\ ~Doubled
        /\ values' = Append(values, value) /\ pos' = pos + 1 /\ pc' = "after"
        /\ UNCHANGED value
     \/ /\ At(pos) \notin {"end", "quote"} /\ ~(At(pos) = "backslash" /\ pos < Len(input))
        /\ value' = Append(value, At(pos)) /\ pos' = pos + 1
        /\ UNCHANGED <<values, pc>>

(* After a value only blanks, then a comma or the end.                     *)
AfterValue ==
  /\ pc = "after"
  /\ \/ At(pos) = "blank" /\ pos' = pos + 1 /\ UNCHANGED <<value, values, pc>>
     \/ At(pos) \in {"comma", "end"} /\ pc' = "between" /\ UNCHANGED <<pos, value, values>>
     \/ At(pos) \notin {"blank", "comma", "end"} /\ Fails

Init ==
  /\ declared \in UNION {[1 .. n -> Texts] : n \in 1 .. MaxValues}
  /\ form \in Forms
  /\ columnType = Declaration(declared, form)
  /\ pos = 1 /\ value = <<>> /\ values = <<>> /\ pc = "between"

Next == (Between \/ InValue \/ AfterValue) /\ UNCHANGED <<declared, form, columnType>>

Spec == Init /\ [][Next]_vars

-----------------------------------------------------------------------------
(* A declaration of the server is read back as the values declared,        *)
(* whatever quotes, backslashes, commas and parentheses they hold; one     *)
(* that breaks off within a value, or with text beside one, is refused.    *)
ValuesExact ==
  /\ pc = "done" => form \in {"plain", "spaced"} /\ values = declared
  /\ pc = "error" => form \notin {"plain", "spaced"}
=============================================================================
