----------------------------- MODULE StrictJson -----------------------------
(***************************************************************************)
(* How the body of a turn start is read (parse_start_turn, and StrictJson  *)
(* and the number check of src/src/model.rs): a scan of the bytes hands    *)
(* every number to parse_json_number, then the document is visited, which  *)
(* refuses keys that are given twice, NUL, and integers binary64 does not  *)
(* have.  What is left is what the request is hashed and stored as.        *)
(*                                                                         *)
(* The body is a document serde_json can read, given by its lexemes; a     *)
(* byte is known by its class, and its place by the lexeme it belongs to.  *)
(* Numbers are counted in tenths, with the sign apart, and binary64 is a   *)
(* float of three bits in steps of a half: it rounds, overflows and has    *)
(* decimals of fewer digits than its own, as the real one does above 2^53. *)
(* What is checked and what is kept come from two readers: str::parse,     *)
(* which is exact, and serde_json's own, which need not be.                *)
(***************************************************************************)
EXTENDS Integers, Sequences, FiniteSets, SequencesExt

CONSTANTS
  Text, NulText,  \* what keys and strings say, and the ones NUL is in
  Name,         \* keys and strings: their bytes, and what these say
  Number,       \* numbers: sign, tenths and spelling
  Document,     \* bodies that are sent
  MaxExponent,  \* of the floats
  I64Max, U64Max,
  SerdeFloat    \* the float serde_json reads a number as

Class == {"quote", "backslash", "digit", "minus", "mark", "other"}
Numeric == {"digit", "minus", "mark"}      \* 0-9 - and . e E +

Lexeme == [is: {"open", "close"}] \cup [is: {"key", "string"}, name: Name]
            \cup [is: {"number"}, number: Number]

\* The string of a key or a value is written as JSON has it, with characters
\* at these places: a backslash and the byte after it are one, a quote alone
\* is none.
Spelled(bytes, places) ==
  /\ 1 \in places /\ Len(bytes) + 1 \in places
  /\ \A k \in places \cap DOMAIN bytes :
       IF bytes[k] = "backslash" THEN k + 1 \notin places /\ k + 2 \in places
       ELSE bytes[k] # "quote" /\ k + 1 \in places

\* How many objects are open after the first n lexemes.
Depth(d, n) ==
  Cardinality({j \in 1..n : d[j].is = "open"})
    - Cardinality({j \in 1..n : d[j].is = "close"})

ASSUME NameAssumption ==
  /\ Name \subseteq [bytes: Seq(Class), text: Text] /\ NulText \subseteq Text
  /\ \A name \in Name :
       \E places \in SUBSET (1..(Len(name.bytes) + 1)) : Spelled(name.bytes, places)
ASSUME NumberAssumption ==
  /\ Number \subseteq [neg: BOOLEAN, tenths: Nat,
                       spelling: {"integer", "fraction", "exponent"}]
  /\ \A n \in Number : n.spelling = "integer" => n.tenths % 10 = 0
ASSUME DocumentAssumption ==
  \A d \in Document :
    /\ d \in Seq(Lexeme) \ {<<>>}
    /\ \A i \in DOMAIN d : d[i].is \in {"key", "close"} => Depth(d, i - 1) > 0
ASSUME WidthAssumption == I64Max \in Nat /\ U64Max \in Nat /\ MaxExponent \in Nat

VARIABLES
  body,      \* the document
  at, byte,  \* the next byte is this one of this lexeme; then the next lexeme
  inString, escaped,
  token,     \* where the number that is read began
  checked,   \* the slices of the body checked as numbers
  objects,   \* the keys of each object that is open
  verdict

scanned == <<inString, escaped, token, checked>>
vars == <<body, at, byte, scanned, objects, verdict>>

-----------------------------------------------------------------------------
(* Numbers.                                                                *)

\* Floats are 5 * 2^e apart from 20 * 2^e on, and 5 apart below.
Step(d) ==
  IF d < 40 THEN 5
  ELSE 5 * 2^(CHOOSE e \in 1..d : 20 * 2^e <= d /\ d < 40 * 2^e)
Float == {0, 5, 10, 15} \cup {5 * k * 2^e : k \in 4..7, e \in 0..MaxExponent}
Infinity == 40 * 2^MaxExponent

\* str::parse::<f64>: to nearest, ties to even.
Round(d) ==
  LET q == d \div Step(d)
      r == 2 * (d % Step(d))
  IN  Step(d) * (IF r > Step(d) \/ (r = Step(d) /\ q % 2 = 1) THEN q + 1 ELSE q)
Parsed(n) == IF Round(n.tenths) >= Infinity THEN Infinity ELSE Round(n.tenths)

\* RFC 8785: the fewest digits that are read as the same float, and of these
\* the nearest.
Digits(n) == {m * 10^z : m \in 0..(10^n - 1), z \in 0..3}
Canonical == [f \in Float |->
  LET Read(n) == {d \in Digits(n) : d < Infinity /\ Round(d) = f}
      digits == CHOOSE n \in 1..4 : Read(n) # {} /\ \A k \in 1..(n - 1) : Read(k) = {}
  IN  CHOOSE d \in Read(digits) : \A c \in Read(digits) :
        (d - f) * (d - f) <= (c - f) * (c - f)]

\* Mutant: the value is not compared with its canonical form.
ParseJsonNumber_NoComparison(n) ==
  ~ (n.neg /\ Parsed(n) = 0) /\ Parsed(n) # Infinity
ParseJsonNumber(n) ==
  /\ ~ (n.neg /\ Parsed(n) = 0)
  /\ Parsed(n) # Infinity
  /\ Canonical[Parsed(n)] = n.tenths

\* serde_json's reader of floats, which multiplies the digits by a power of ten
\* and need not come to the nearest float (Cargo.toml:24 does not ask for
\* float_roundtrip): nothing is assumed of it but that it reads floats.
ASSUME SerdeFloatAssumption == SerdeFloat \in [Number -> Float \cup {Infinity}]

\* serde_json calls visit_i64 or visit_u64 for these, and visit_f64 for others.
AsInteger(n) ==
  /\ n.spelling = "integer" /\ ~ (n.neg /\ n.tenths = 0)
  /\ n.tenths <= 10 * (IF n.neg THEN I64Max + 1 ELSE U64Max)

\* Mutant: every integer is taken.
VisitNumber_Any(n) ==
  AsInteger(n) \/ (SerdeFloat[n] # Infinity /\ ~ (n.neg /\ SerdeFloat[n] = 0))
VisitNumber(n) ==
  IF AsInteger(n) THEN Round(n.tenths) = n.tenths
  ELSE SerdeFloat[n] # Infinity /\ ~ (n.neg /\ SerdeFloat[n] = 0)

\* The number of the effective request, and its bytes in the digest.
Effective(n) == IF AsInteger(n) THEN n.tenths ELSE SerdeFloat[n]
Hashed(n) == Canonical[IF AsInteger(n) THEN Round(Effective(n)) ELSE Effective(n)]

-----------------------------------------------------------------------------
(* The bytes of a body.                                                    *)

NumberBytes(n) ==
  (IF n.neg THEN <<"minus">> ELSE <<>>) \o
  CASE n.spelling = "integer" -> <<"digit">>
    [] n.spelling = "fraction" -> <<"digit", "mark", "digit">>
    [] n.spelling = "exponent" -> <<"digit", "mark", "minus", "digit">>
LexemeBytes(l) ==
  IF l.is \in {"key", "string"} THEN <<"quote">> \o l.name.bytes \o <<"quote">>
  ELSE IF l.is = "number" THEN NumberBytes(l.number) ELSE <<"other">>

\* A colon, a comma or a blank stands before every lexeme but the first.
Written(d, i) == (IF i = 1 THEN <<>> ELSE <<"other">>) \o LexemeBytes(d[i])
Begins(i) == IF i = 1 THEN 1 ELSE 2
Slice(i) == <<<<i, Begins(i)>>, <<i + 1, 1>>>>
NumbersOf(d) == {i \in DOMAIN d : d[i].is = "number"}

NoToken == <<>>

Init ==
  /\ body \in Document
  /\ at = 1 /\ byte = 1 /\ inString = FALSE /\ escaped = FALSE
  /\ token = NoToken /\ checked = {} /\ objects = <<>>
  /\ verdict = "scan"

-----------------------------------------------------------------------------
(* validate_json_number_tokens                                             *)

AtEnd == at > Len(body)
Byte == Written(body, at)[byte]
InNumber == ~AtEnd /\ Byte \in Numeric
Scanning == verdict = "scan" /\ token = NoToken /\ ~AtEnd

NextByte ==
  IF byte < Len(Written(body, at)) THEN byte' = byte + 1 /\ at' = at
  ELSE byte' = 1 /\ at' = at + 1

\* Mutant: a backslash means nothing.
StringByte_NoEscapes ==
  /\ Scanning /\ inString
  /\ inString' = (Byte # "quote")
  /\ NextByte
  /\ UNCHANGED <<body, escaped, token, checked, objects, verdict>>
StringByte ==
  /\ Scanning /\ inString
  /\ escaped' = (~escaped /\ Byte = "backslash")
  /\ inString' = (escaped \/ Byte # "quote")
  /\ NextByte
  /\ UNCHANGED <<body, token, checked, objects, verdict>>

OtherByte ==
  /\ Scanning /\ ~inString /\ Byte \notin {"digit", "minus"}
  /\ inString' = (Byte = "quote")
  /\ NextByte
  /\ UNCHANGED <<body, escaped, token, checked, objects, verdict>>

TokenBegins ==
  /\ Scanning /\ ~inString /\ Byte \in {"digit", "minus"}
  /\ token' = <<at, byte>>
  /\ NextByte
  /\ UNCHANGED <<body, inString, escaped, checked, objects, verdict>>

TokenGoesOn ==
  /\ verdict = "scan" /\ token # NoToken /\ InNumber
  /\ NextByte
  /\ UNCHANGED <<body, scanned, objects, verdict>>

\* A number of the document; what is none is not looked into.
TokenEnds ==
  LET slice == <<token, <<at, byte>>>> IN
  /\ verdict = "scan" /\ token # NoToken
  /\ ~InNumber
  /\ checked' = checked \cup {slice} /\ token' = NoToken
  /\ verdict' = IF \A i \in NumbersOf(body) :
                     Slice(i) = slice => ParseJsonNumber(body[i].number)
                THEN "scan" ELSE "refused"
  /\ UNCHANGED <<body, at, byte, inString, escaped, objects>>

ScanEnds ==
  /\ verdict = "scan" /\ token = NoToken /\ AtEnd
  /\ verdict' = "visit" /\ at' = 1
  /\ UNCHANGED <<body, byte, scanned, objects>>

-----------------------------------------------------------------------------
(* StrictJson::deserialize                                                 *)

Visiting(is) == verdict = "visit" /\ ~AtEnd /\ body[at].is \in is
Goes(fine) ==
  /\ verdict' = IF fine THEN "visit" ELSE "refused"
  /\ at' = at + 1
  /\ UNCHANGED <<body, byte, scanned>>

VisitOpen ==
  /\ Visiting({"open"}) /\ Goes(TRUE)
  /\ objects' = Append(objects, {})
VisitClose ==
  /\ Visiting({"close"}) /\ Goes(TRUE)
  /\ objects' = Front(objects)

\* Mutant: values.insert takes the last value of a key.
VisitKey_Last ==
  /\ Visiting({"key"}) /\ Goes(body[at].name.text \notin NulText)
  /\ objects' = [objects EXCEPT ![Len(objects)] = @ \cup {body[at].name.text}]
VisitKey ==
  /\ Visiting({"key"})
  /\ Goes(body[at].name.text \notin NulText \cup Last(objects))
  /\ objects' = [objects EXCEPT ![Len(objects)] = @ \cup {body[at].name.text}]

VisitLeaf ==
  /\ Visiting({"string", "number"})
  /\ Goes(IF body[at].is = "string" THEN body[at].name.text \notin NulText
          ELSE VisitNumber(body[at].number))
  /\ UNCHANGED objects

VisitEnds ==
  /\ verdict = "visit" /\ AtEnd
  /\ verdict' = "accepted"
  /\ UNCHANGED <<body, at, byte, scanned, objects>>

Next ==
  \/ StringByte \/ OtherByte \/ TokenBegins \/ TokenGoesOn \/ TokenEnds \/ ScanEnds
  \/ VisitOpen \/ VisitClose \/ VisitKey \/ VisitLeaf \/ VisitEnds

Spec == Init /\ [][Next]_vars

-----------------------------------------------------------------------------
\* The scan, which knows no grammar, checks the numbers of the document and
\* nothing else, whatever stands in its strings (model.rs:209-246).
NumbersChecked ==
  verdict \in {"visit", "accepted"} =>
    checked = {Slice(i) : i \in NumbersOf(body)}

\* Turn start RFC, lines 227-235: "rejects ... numbers that RFC 8785 cannot
\* represent losslessly".  An accepted number is what RFC 8785 writes for the
\* nearest float, no negative zero is kept, and every 64-bit integer is hashed as the
\* number that was sent; a float is, too, unless serde_json's reader takes it
\* for another one than str::parse, which was asked before (model.rs:106-118,
\* 180-207).
NumbersLossless ==
  verdict = "accepted" => \A i \in NumbersOf(body) :
    LET n == body[i].number IN
    /\ Canonical[Round(n.tenths)] = n.tenths
    /\ AsInteger(n) \/ SerdeFloat[n] = Parsed(n) => Hashed(n) = n.tenths
    /\ ~ (n.neg /\ Effective(n) = 0)

\* RFC, lines 233-235: "an integer above the binary64 safe range is accepted
\* only when conversion preserves its exact value", for the integers u64 and
\* i64 have (model.rs:83-104).
IntegersExact ==
  verdict = "accepted" => \A i \in NumbersOf(body) :
    AsInteger(body[i].number) =>
      Round(Effective(body[i].number)) = body[i].number.tenths

\* Whether two keys are in one object.
SameObject(d, i, j) ==
  Depth(d, i) = Depth(d, j) /\ \A k \in i..j : Depth(d, k) >= Depth(d, i)

\* RFC, line 227: "rejects duplicate object keys", however they are written, in
\* every object and only within one.
KeysUnique ==
  verdict = "accepted" => \A i, j \in DOMAIN body :
    body[i].is = "key" /\ body[j].is = "key" /\ i < j /\ SameObject(body, i, j) =>
      body[i].name.text # body[j].name.text
=============================================================================
