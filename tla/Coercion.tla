-------------------------------- MODULE Coercion --------------------------------
(***************************************************************************)
(* The lenient readers of src/json_parse.cpp: what a field of a typed      *)
(* model becomes when the server sends a value of another JSON type.       *)
(*                                                                         *)
(* A JSON value is a record of its kind and content.  The parser of        *)
(* nlohmann/json keeps an integer literal that is not negative as an       *)
(* unsigned number and one that is as a signed one; "integer" is both.     *)
(* "real" counts in halves, and so does everything read as double.         *)
(* "absent" is a missing key or a null, "container" an object or an array. *)
(* A text is what the parsers of text tell apart:                          *)
(*                                                                         *)
(*   "integer"    what parse_full_int reads, white space and signs         *)
(*                included: "plain" if, trimmed, it is what std::to_string *)
(*                prints (neither +1 nor 01 is), "whole" if std::stod      *)
(*                reads it to its end (white space after it is left over)  *)
(*   "decimal"    another text that std::stod reads to its end as a number *)
(*   "nonfinite"  one that std::stod reads to its end as nan or inf        *)
(*   "clock"      parts between colons, of each what std::stod reads, if   *)
(*                it reads it to its end                                   *)
(*   "word"       any other, in lower case where case does not matter; the *)
(*                word " " is white space only                             *)
(*                                                                         *)
(* std::optional is a set of at most one element.  A cast the language     *)
(* leaves undefined may give any value, so a reader of integers stands for *)
(* the set of what it may return.                                          *)
(***************************************************************************)
EXTENDS Integers, Sequences, SequencesExt

CONSTANTS
  LongLimit,   \* the first number too large for std::int64_t, 2^63
  IntLimit,    \* the first number too large for int, 2^31
  NotFinite    \* a nan or an inf of std::stod, and what is reckoned from one

ASSUME CoAssumption ==
  /\ IntLimit \in Nat /\ 1 < IntLimit
  /\ LongLimit \in Nat /\ IntLimit <= LongLimit
  /\ NotFinite \notin Int

Fits(n, limit) == -limit <= n /\ n < limit

\* A conversion to the signed integers below a limit.
Wrap(n, limit) == ((n + limit) % (2 * limit)) - limit

Longs == -LongLimit .. LongLimit - 1
Ints == -IntLimit .. IntLimit - 1

\* Texts
Spelled(n, plain, whole) == [form |-> "integer", n |-> n, plain |-> plain, whole |-> whole]
IntegerText(n) == Spelled(n, TRUE, TRUE)
DecimalText(h) == [form |-> "decimal", halves |-> h]
NonFiniteText == [form |-> "nonfinite"]
Clock(parts) == [form |-> "clock", parts |-> parts]
Word(w) == [form |-> "word", w |-> w]
EmptyText == Word("")

\* JSON values
Absent == [kind |-> "absent"]
Container == [kind |-> "container"]
Bool(b) == [kind |-> "bool", b |-> b]
Integer(n) == [kind |-> "integer", n |-> n]
Real(h) == [kind |-> "real", halves |-> h]
String(t) == [kind |-> "string", text |-> t]

\* What the content of a text and of a value may be.
IsText(t) ==
  /\ t.form = "integer" => t.n \in Int /\ t.plain \in BOOLEAN /\ t.whole \in BOOLEAN
  /\ t.form = "decimal" => t.halves \in Int
  /\ t.form = "clock" =>
       /\ t.parts \in Seq(SUBSET (Int \cup {NotFinite})) /\ Len(t.parts) >= 2
       /\ \A part \in ToSet(t.parts) : \A m, n \in part : m = n

\* A literal beyond the largest unsigned number is no integer but a real.
IsValue(v) ==
  /\ v.kind = "bool" => v.b \in BOOLEAN
  /\ v.kind = "integer" => v.n \in -LongLimit .. 2 * LongLimit - 1
  /\ v.kind = "real" => v.halves \in Int
  /\ v.kind = "string" => IsText(v.text)

-----------------------------------------------------------------------------
\* A double cut towards zero.
Trunc(h) == IF h >= 0 THEN h \div 2 ELSE -((-h) \div 2)

\* Mutant: text is read up to the first character that is no digit.
ParsedIntPrefix(t) ==
  CASE t.form = "integer" /\ Fits(t.n, LongLimit) -> {t.n}
    [] t.form = "decimal" -> {Trunc(t.halves)}
    [] OTHER -> {}

\* parse_full_int: the whole text, and within 64 bits.
ParsedInt(t) == IF t.form = "integer" /\ Fits(t.n, LongLimit) THEN {t.n} ELSE {}

\* coerce_string.  is_number_integer() is true of unsigned numbers, so an
\* integer is always printed as the int64_t it converts to.
CoercedString(v) ==
  CASE v.kind = "string"  -> {v.text}
    [] v.kind = "bool"    -> {Word(IF v.b THEN "true" ELSE "false")}
    [] v.kind = "integer" -> {IntegerText(Wrap(v.n, LongLimit))}
    [] v.kind = "real"    ->
         {IF v.halves % 2 = 0 /\ Fits(v.halves \div 2, LongLimit)
          THEN IntegerText(v.halves \div 2) ELSE DecimalText(v.halves)}
    [] OTHER -> {}

\* coerce_int; the cast of a double outside 64 bits is undefined.
CoercedInts(v) ==
  CASE v.kind = "integer" -> {{Wrap(v.n, LongLimit)}}
    [] v.kind = "real"    -> IF Fits(Trunc(v.halves), LongLimit)
                             THEN {{Trunc(v.halves)}} ELSE {{n} : n \in Longs}
    [] v.kind = "bool"    -> {{IF v.b THEN 1 ELSE 0}}
    [] v.kind = "string"  -> {ParsedInt(v.text)}
    [] OTHER -> {{}}

\* coerce_id
CoercedIds(v) == IF v.kind = "bool" THEN {{}} ELSE CoercedInts(v)

\* Mutant: text is true unless it is empty.
CoercedBoolOfText(v) ==
  CASE v.kind = "bool"    -> {v.b}
    [] v.kind = "integer" -> {v.n # 0}
    [] v.kind = "real"    -> {v.halves # 0}
    [] v.kind = "string"  -> {v.text # EmptyText}
    [] OTHER -> {}

\* The texts coerce_bool compares with, once it has trimmed its own.
Is(t, words, n) ==
  \/ t.form = "word" /\ t.w \in words
  \/ t.form = "integer" /\ t.plain /\ t.n = n
IsFalse(t) == Is(t, {"", " ", "false", "no", "off"}, 0)
IsTrue(t) == Is(t, {"true", "yes", "on"}, 1)

\* coerce_bool
CoercedBool(v) ==
  CASE v.kind = "bool"    -> {v.b}
    [] v.kind = "integer" -> {v.n # 0}
    [] v.kind = "real"    -> {v.halves # 0}
    [] v.kind = "string" /\ IsFalse(v.text) -> {FALSE}
    [] v.kind = "string" /\ IsTrue(v.text)  -> {TRUE}
    [] OTHER -> {}

\* What an optional holds, or the default.
ValueOr(o, default) == IF o = {} THEN default ELSE CHOOSE x \in o : TRUE

\* Mutant: an int is not narrowed.
IntsWide(v) == {ValueOr(o, 0) : o \in CoercedInts(v)}

\* j_str, j_bool, j_int and j_int64; an id that is no number is left out.
Str(v) == ValueOr(CoercedString(v), EmptyText)
Truth(v) == ValueOr(CoercedBool(v), FALSE)
IntsOf(v) == {Wrap(ValueOr(o, 0), IntLimit) : o \in CoercedInts(v)}
Int64sOf(v) == {ValueOr(o, 0) : o \in CoercedInts(v)}
IdsOf(v) == {{Wrap(n, IntLimit) : n \in o} : o \in CoercedIds(v)}

\* The loop of offset_to_seconds over the parts; what is not finite stays so.
Total(parts) ==
  LET total[k \in 0..Len(parts)] ==
        IF k = 0 THEN 0 ELSE total[k - 1] * 60 + ValueOr(parts[k], 0)
  IN IF {NotFinite} \in ToSet(parts) THEN NotFinite ELSE total[Len(parts)]

\* offset_to_seconds, in halves of a second: up to three parts, each of which
\* std::stod reads to its end.
Seconds(t) ==
  CASE t.form = "integer" /\ t.whole -> {2 * t.n}
    [] t.form = "decimal"   -> {t.halves}
    [] t.form = "nonfinite" -> {NotFinite}
    [] t.form = "clock" /\ Len(t.parts) <= 3 /\ {} \notin ToSet(t.parts) -> {Total(t.parts)}
    [] OTHER -> {}
=================================================================================
