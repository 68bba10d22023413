-------------------------- MODULE StrictJsonProofs --------------------------
(***************************************************************************)
(* Proofs about StrictJson: the scan finds the numbers of every document,  *)
(* whatever its strings hold, and the visit finds keys given twice.        *)
(***************************************************************************)
EXTENDS StrictJson, FiniteSetTheorems, SequenceTheorems, TLAPS

\* The next byte is one of the body, until the body is over.
Placed ==
  /\ body \in Document
  /\ at \in 1..(Len(body) + 1)
  /\ verdict \in {"scan", "visit", "refused", "accepted"}
  /\ verdict = "scan" =>
       IF AtEnd THEN byte = 1 ELSE byte \in 1..Len(Written(body, at))
  /\ verdict = "accepted" => AtEnd

\* In a string the scan knows where a character begins ...
InStrings ==
  verdict = "scan" /\ inString =>
    /\ token = NoToken /\ ~AtEnd
    /\ body[at].is \in {"key", "string"} /\ byte > Begins(at)
    /\ \A places : Spelled(body[at].name.bytes, places) =>
         IF escaped
         THEN byte - Begins(at) \notin places /\ byte - Begins(at) + 1 \in places
         ELSE byte - Begins(at) \in places

\* ... and outside it is before a lexeme, or in or behind a number.
OutsideStrings ==
  verdict = "scan" /\ ~inString =>
    /\ escaped = FALSE
    /\ token = NoToken /\ ~AtEnd => byte <= Begins(at)
    /\ token # NoToken =>
         \E i \in NumbersOf(body) :
           /\ token = <<i, Begins(i)>>
           /\ (at = i /\ byte > Begins(i)) \/ (at = i + 1 /\ byte = 1)

Behind == {i \in NumbersOf(body) : i < IF token = NoToken THEN at ELSE token[1]}
CheckedBehind == verdict = "scan" => checked = {Slice(i) : i \in Behind}

\* What was checked or visited was found to be in order.
NumbersFine ==
  verdict # "refused" => \A i \in NumbersOf(body) :
    Slice(i) \in checked => ParseJsonNumber(body[i].number)
VisitedFine ==
  verdict \in {"visit", "accepted"} => \A i \in NumbersOf(body) :
    i < at => VisitNumber(body[i].number)

\* The objects that are open have their keys in hand.
ObjectsOpen ==
  /\ verdict = "scan" => objects = <<>>
  /\ verdict \in {"visit", "accepted"} =>
       objects \in Seq(SUBSET Text) /\ Len(objects) = Depth(body, at - 1)
KeysInHand ==
  verdict \in {"visit", "accepted"} => \A i \in 1..(at - 1) :
    body[i].is = "key" /\ (\A k \in i..(at - 1) : Depth(body, k) >= Depth(body, i)) =>
      body[i].name.text \in objects[Depth(body, i)]
KeysDiffer ==
  verdict \in {"visit", "accepted"} => \A i, j \in 1..(at - 1) :
    body[i].is = "key" /\ body[j].is = "key" /\ i < j /\ SameObject(body, i, j) =>
      body[i].name.text # body[j].name.text

IInv ==
  /\ Placed /\ InStrings /\ OutsideStrings /\ CheckedBehind
  /\ NumbersChecked /\ NumbersFine /\ VisitedFine
  /\ ObjectsOpen /\ KeysInHand /\ KeysDiffer

-----------------------------------------------------------------------------
(* The bytes of a document.                                                *)

LEMMA Concatenation ==
  ASSUME NEW s \in Seq(Class), NEW t \in Seq(Class)
  PROVE  /\ s \o t \in Seq(Class) /\ Len(s \o t) = Len(s) + Len(t)
         /\ Len(s) \in Nat /\ Len(t) \in Nat
         /\ \A k \in 1..Len(s) : (s \o t)[k] = s[k]
         /\ \A k \in 1..Len(t) : (s \o t)[Len(s) + k] = t[k]
<1>1. Len(s) \in Nat /\ Len(t) \in Nat
  OBVIOUS
<1>2. /\ s \o t \in Seq(Class) /\ Len(s \o t) = Len(s) + Len(t)
      /\ \A k \in 1..(Len(s) + Len(t)) :
           (s \o t)[k] = IF k <= Len(s) THEN s[k] ELSE t[k - Len(s)]
  BY ConcatProperties, Zenon
<1>3. ASSUME NEW k \in 1..Len(s)
      PROVE  (s \o t)[k] = s[k]
  BY <1>1, <1>2
<1>4. ASSUME NEW k \in 1..Len(t)
      PROVE  (s \o t)[Len(s) + k] = t[k]
  <2>1. /\ Len(s) + k \in 1..(Len(s) + Len(t)) /\ ~(Len(s) + k <= Len(s))
        /\ Len(s) + k - Len(s) = k
    BY <1>1
  <2> QED
    BY <1>2, <2>1
<1> QED
  BY <1>1, <1>2, <1>3, <1>4

\* A string stands between quotes, a number begins with a digit or a minus.
LEMMA LexemeFacts ==
  ASSUME NEW l \in Lexeme
  PROVE  /\ LexemeBytes(l) \in Seq(Class)
         /\ l.is \in {"key", "string"} =>
              /\ l.name \in Name /\ Len(LexemeBytes(l)) = Len(l.name.bytes) + 2
              /\ LexemeBytes(l)[1] = "quote"
              /\ LexemeBytes(l)[Len(l.name.bytes) + 2] = "quote"
              /\ \A k \in 1..Len(l.name.bytes) : LexemeBytes(l)[k + 1] = l.name.bytes[k]
         /\ l.is = "number" =>
              /\ l.number \in Number /\ Len(LexemeBytes(l)) > 0
              /\ LexemeBytes(l)[1] \in {"digit", "minus"}
              /\ \A k \in 1..Len(LexemeBytes(l)) : LexemeBytes(l)[k] \in Numeric
         /\ l.is \in {"open", "close"} => LexemeBytes(l) = <<"other">>
         /\ l.is \in {"open", "close", "key", "string", "number"}
<1>1. CASE l \in [is: {"open", "close"}]
  <2>1. l.is \in {"open", "close"}
    BY <1>1
  <2>2. LexemeBytes(l) = <<"other">>
    BY <2>1 DEF LexemeBytes
  <2>3. <<"other">> \in Seq(Class)
    BY DEF Class
  <2> QED
    BY <2>1, <2>2, <2>3
<1>2. CASE l \in [is: {"key", "string"}, name: Name]
  <2>1. l.name \in Name /\ l.name.bytes \in Seq(Class)
    BY <1>2, NameAssumption
  <2>2. PICK b \in Seq(Class) : b = l.name.bytes
    BY <2>1
  <2>3. LexemeBytes(l) = <<"quote">> \o b \o <<"quote">>
    BY <1>2, <2>2 DEF LexemeBytes
  <2>4. <<"quote">> \in Seq(Class)
    BY DEF Class
  <2>5. PICK s : s = <<"quote">> \o b \o <<"quote">>
    OBVIOUS
  <2>6. PICK q : q = <<"quote">>
    OBVIOUS
  <2>7. q \in Seq(Class) /\ Len(q) = 1 /\ q[1] = "quote"
    BY <2>4, <2>6
  <2>8. PICK r : r = q \o b
    OBVIOUS
  <2>9. /\ r \in Seq(Class) /\ Len(r) = Len(b) + 1 /\ Len(b) \in Nat
        /\ r[1] = "quote" /\ \A k \in 1..Len(b) : r[k + 1] = b[k]
    <3>1. /\ r \in Seq(Class) /\ Len(r) = Len(q) + Len(b) /\ Len(b) \in Nat
          /\ \A k \in 1..Len(q) : r[k] = q[k]
          /\ \A k \in 1..Len(b) : r[Len(q) + k] = b[k]
      BY <2>2, <2>7, <2>8, Concatenation, Zenon
    <3> QED
      BY <2>7, <3>1
  <2>10. s = r \o q
    BY <2>5, <2>6, <2>8
  <2>11. /\ s \in Seq(Class) /\ Len(s) = Len(b) + 2 /\ s[Len(b) + 2] = "quote"
         /\ \A k \in 1..Len(r) : s[k] = r[k]
    <3>1. /\ s \in Seq(Class) /\ Len(s) = Len(r) + Len(q)
          /\ \A k \in 1..Len(r) : s[k] = r[k]
          /\ \A k \in 1..Len(q) : s[Len(r) + k] = q[k]
      BY <2>7, <2>9, <2>10, Concatenation, ZenonT(60)
    <3> QED
      BY <2>7, <2>9, <3>1
  <2>12. s[1] = "quote" /\ \A k \in 1..Len(b) : s[k + 1] = b[k]
    <3>1. 1 \in 1..Len(r) /\ \A k \in 1..Len(b) : k + 1 \in 1..Len(r)
      BY <2>9
    <3> QED
      BY <2>9, <2>11, <3>1
  <2>13. l.is \in {"key", "string"}
    BY <1>2
  <2> QED
    BY <2>1, <2>2, <2>3, <2>5, <2>11, <2>12, <2>13
<1>3. CASE l \in [is: {"number"}, number: Number]
  <2>1. PICK n \in Number : n = l.number
    BY <1>3
  <2>2. /\ n.neg \in BOOLEAN /\ n.spelling \in {"integer", "fraction", "exponent"}
        /\ LexemeBytes(l) = NumberBytes(n)
    BY <1>3, <2>1, NumberAssumption DEF LexemeBytes
  <2>3. PICK sign : sign = IF n.neg THEN <<"minus">> ELSE <<>>
    OBVIOUS
  <2>4. PICK tail \in {<<"digit">>, <<"digit", "mark", "digit">>,
                       <<"digit", "mark", "minus", "digit">>} :
          NumberBytes(n) = sign \o tail
    <3>1. CASE n.spelling = "integer"
      BY <2>3, <3>1 DEF NumberBytes
    <3>2. CASE n.spelling = "fraction"
      BY <2>3, <3>2 DEF NumberBytes
    <3>3. CASE n.spelling = "exponent"
      BY <2>3, <3>3 DEF NumberBytes
    <3> QED
      BY <2>2, <3>1, <3>2, <3>3
  <2>5. sign \in {<<"minus">>, <<>>}
    BY <2>2, <2>3
  <2>6. /\ tail \in Seq(Numeric) /\ sign \in Seq(Numeric) /\ Len(tail) > 0
        /\ tail[1] = "digit" /\ (Len(sign) = 0 \/ sign[1] = "minus")
    <3>1. tail = <<"digit">> => tail \in Seq(Numeric) /\ Len(tail) > 0 /\ tail[1] = "digit"
      BY DEF Numeric
    <3>2. tail = <<"digit", "mark", "digit">> =>
            tail \in Seq(Numeric) /\ Len(tail) > 0 /\ tail[1] = "digit"
      BY DEF Numeric
    <3>3. tail = <<"digit", "mark", "minus", "digit">> =>
            tail \in Seq(Numeric) /\ Len(tail) > 0 /\ tail[1] = "digit"
      BY DEF Numeric
    <3>4. <<"minus">> \in Seq(Numeric)
      BY DEF Numeric
    <3>5. <<>> \in Seq(Numeric)
      OBVIOUS
    <3>6. sign \in Seq(Numeric)
      BY <2>5, <3>4, <3>5, Zenon
    <3>7. Len(sign) = 0 \/ sign[1] = "minus"
      BY <2>5
    <3> QED
      BY <2>4, <3>1, <3>2, <3>3, <3>6, <3>7
  <2>7. sign \o tail \in Seq(Numeric) /\ Len(sign \o tail) > 0
    BY <2>6
  <2>8. (sign \o tail)[1] \in {"digit", "minus"}
    BY <2>6
  <2>9. sign \o tail \in Seq(Class)
    BY <2>7 DEF Numeric, Class
  <2> QED
    BY <1>3, <2>1, <2>2, <2>4, <2>7, <2>8, <2>9, SMTT(40)
<1> QED
  BY <1>1, <1>2, <1>3 DEF Lexeme

LEMMA WrittenFacts ==
  ASSUME NEW d \in Document, NEW i \in DOMAIN d
  PROVE  /\ Len(d) \in Nat /\ i \in 1..Len(d) /\ d[i] \in Lexeme
         /\ Begins(i) \in {1, 2} /\ (Begins(i) = 1 <=> i = 1)
         /\ Len(Written(d, i)) = Begins(i) - 1 + Len(LexemeBytes(d[i]))
         /\ Len(LexemeBytes(d[i])) \in Nat \ {0}
         /\ \A k \in 1..Len(LexemeBytes(d[i])) :
              Written(d, i)[Begins(i) + k - 1] = LexemeBytes(d[i])[k]
         /\ i # 1 => Written(d, i)[1] = "other"
<1>1. d \in Seq(Lexeme) /\ d[i] \in Lexeme
  BY DocumentAssumption
<1>2. PICK b \in Seq(Class) : b = LexemeBytes(d[i])
  BY <1>1, LexemeFacts
<1>3. Len(b) \in Nat \ {0}
  <2>1. CASE d[i].is \in {"key", "string"}
    <3>1. Len(d[i].name.bytes) \in Nat
      BY <1>1, <2>1, LexemeFacts, NameAssumption
    <3> QED
      BY <1>1, <1>2, <2>1, <3>1, LexemeFacts
  <2>2. CASE d[i].is = "number"
    BY <1>1, <1>2, <2>2, LexemeFacts
  <2>3. CASE d[i].is \in {"open", "close"}
    <3>1. b = <<"other">>
      BY <1>1, <1>2, <2>3, LexemeFacts
    <3> QED
      BY <3>1
  <2>4. d[i].is \in {"open", "close", "key", "string", "number"}
    BY <1>1, LexemeFacts
  <2> QED
    BY <2>1, <2>2, <2>3, <2>4
<1>4. CASE i = 1
  <2>1. Written(d, i) = b
    BY <1>2, <1>4 DEF Written
  <2> QED
    BY <1>1, <1>2, <1>3, <1>4, <2>1 DEF Begins
<1>5. CASE i # 1
  <2>1. Written(d, i) = <<"other">> \o b /\ Begins(i) = 2
    BY <1>2, <1>5 DEF Written, Begins
  <2>2. /\ Len(<<"other">> \o b) = 1 + Len(b) /\ (<<"other">> \o b)[1] = "other"
        /\ \A k \in 1..Len(b) : (<<"other">> \o b)[k + 1] = b[k]
    BY <1>2
  <2> QED
    BY <1>1, <1>2, <1>3, <1>5, <2>1, <2>2
<1> QED
  BY <1>4, <1>5

\* The byte that is read next, by where it stands.
LEMMA ByteRead ==
  ASSUME Placed, verdict = "scan", ~AtEnd
  PROVE  /\ at \in 1..Len(body) /\ Len(body) \in Nat /\ body \in Document
         /\ body[at] \in Lexeme
         /\ byte \in 1..Len(Written(body, at)) /\ Begins(at) \in {1, 2}
         /\ byte < Begins(at) => Byte = "other" /\ byte < Len(Written(body, at))
         /\ byte = Begins(at) =>
              /\ Byte \in {"digit", "minus"} <=> body[at].is = "number"
              /\ Byte = "quote" <=> body[at].is \in {"key", "string"}
              /\ body[at].is \in {"open", "close"} => byte = Len(Written(body, at))
              /\ body[at].is \in {"key", "string"} => byte < Len(Written(body, at))
         /\ byte > Begins(at) /\ body[at].is = "number" => Byte \in Numeric
         /\ byte = 1 /\ at # 1 => Byte = "other"
<1>1. body \in Document /\ Len(body) \in Nat /\ at \in 1..Len(body)
  BY DocumentAssumption DEF Placed, AtEnd
<1>2. at \in DOMAIN body
  BY <1>1, DocumentAssumption
<1>3. /\ body[at] \in Lexeme /\ Begins(at) \in {1, 2} /\ (Begins(at) = 1 <=> at = 1)
      /\ Len(LexemeBytes(body[at])) \in Nat \ {0}
      /\ Len(Written(body, at)) = Begins(at) - 1 + Len(LexemeBytes(body[at]))
      /\ at # 1 => Written(body, at)[1] = "other"
  BY <1>1, <1>2, WrittenFacts
<1>4. byte \in 1..Len(Written(body, at))
  BY DEF Placed
<1>5. \A k \in 1..Len(LexemeBytes(body[at])) :
        Written(body, at)[Begins(at) + k - 1] = LexemeBytes(body[at])[k]
  BY <1>1, <1>2, WrittenFacts
<1>6. PICK k \in Int : k = byte - Begins(at) + 1
  BY <1>3, <1>4
<1>7. byte >= Begins(at) => /\ k \in 1..Len(LexemeBytes(body[at]))
                            /\ Byte = LexemeBytes(body[at])[k]
  BY <1>3, <1>4, <1>5, <1>6 DEF Byte
<1>8. byte = Begins(at) => Byte = LexemeBytes(body[at])[1]
  BY <1>3, <1>6, <1>7
<1>9. byte < Begins(at) => Byte = "other" /\ byte < Len(Written(body, at))
  BY <1>3, <1>4 DEF Byte
<1>10. byte = 1 /\ at # 1 => Byte = "other"
  BY <1>3, <1>9
<1>11. CASE body[at].is \in {"key", "string"}
  <2>1. /\ LexemeBytes(body[at])[1] = "quote"
        /\ Len(LexemeBytes(body[at])) = Len(body[at].name.bytes) + 2
        /\ Len(body[at].name.bytes) \in Nat
    BY <1>3, <1>11, LexemeFacts, NameAssumption
  <2>2. byte = Begins(at) => Byte = "quote" /\ byte < Len(Written(body, at))
    BY <1>3, <1>8, <2>1
  <2> QED
    BY <1>1, <1>3, <1>4, <1>9, <1>10, <1>11, <2>2
<1>12. CASE body[at].is = "number"
  <2>1. /\ LexemeBytes(body[at])[1] \in {"digit", "minus"}
        /\ \A n \in 1..Len(LexemeBytes(body[at])) : LexemeBytes(body[at])[n] \in Numeric
    BY <1>3, <1>12, LexemeFacts
  <2>2. byte > Begins(at) => Byte \in Numeric
    BY <1>3, <1>4, <1>7, <2>1
  <2> QED
    BY <1>1, <1>3, <1>4, <1>8, <1>9, <1>10, <1>12, <2>1, <2>2
<1>13. CASE body[at].is \in {"open", "close"}
  <2>1. LexemeBytes(body[at]) = <<"other">>
    BY <1>3, <1>13, LexemeFacts
  <2>2. Len(LexemeBytes(body[at])) = 1 /\ LexemeBytes(body[at])[1] = "other"
    BY <2>1
  <2>3. byte = Begins(at) => Byte = "other" /\ byte = Len(Written(body, at))
    BY <1>3, <1>8, <2>2
  <2> QED
    BY <1>1, <1>3, <1>4, <1>9, <1>10, <1>13, <2>3
<1> QED
  BY <1>3, <1>11, <1>12, <1>13, LexemeFacts

\* A byte of a string: of its name, or the quote that ends it.
LEMMA StringByteRead ==
  ASSUME Placed, verdict = "scan", ~AtEnd, body[at].is \in {"key", "string"},
         byte > Begins(at)
  PROVE  /\ body[at].name.bytes \in Seq(Class)
         /\ byte - Begins(at) \in 1..(Len(body[at].name.bytes) + 1)
         /\ IF byte - Begins(at) = Len(body[at].name.bytes) + 1
            THEN Byte = "quote" /\ byte = Len(Written(body, at))
            ELSE /\ Byte = body[at].name.bytes[byte - Begins(at)]
                 /\ byte < Len(Written(body, at))
<1>1. /\ at \in 1..Len(body) /\ body \in Document /\ body[at] \in Lexeme
      /\ byte \in 1..Len(Written(body, at))
  BY ByteRead
<1>2. at \in DOMAIN body
  BY <1>1, DocumentAssumption
<1>3. PICK name \in Seq(Class) : name = body[at].name.bytes
  BY <1>1, LexemeFacts, NameAssumption
<1>4. /\ Begins(at) \in {1, 2}
      /\ Len(Written(body, at)) = Begins(at) - 1 + Len(LexemeBytes(body[at]))
  BY <1>1, <1>2, WrittenFacts
<1>5. \A n \in 1..Len(LexemeBytes(body[at])) :
        Written(body, at)[Begins(at) + n - 1] = LexemeBytes(body[at])[n]
  BY <1>1, <1>2, WrittenFacts
<1>6. /\ Len(LexemeBytes(body[at])) = Len(name) + 2
      /\ LexemeBytes(body[at])[Len(name) + 2] = "quote"
      /\ \A n \in 1..Len(name) : LexemeBytes(body[at])[n + 1] = name[n]
  BY <1>1, <1>3, LexemeFacts
<1>7. PICK k \in Int : k = byte - Begins(at)
  BY <1>1, <1>4
<1>8. k \in 1..(Len(name) + 1) /\ Byte = LexemeBytes(body[at])[k + 1]
  <2>1. /\ Len(name) \in Nat /\ byte \in Int
        /\ byte <= Begins(at) + Len(name) + 1
    BY <1>1, <1>3, <1>4, <1>6, SMTT(40)
  <2>2. k + 1 \in 1..(Len(name) + 2) /\ Begins(at) + (k + 1) - 1 = byte
    BY <1>4, <1>7, <2>1
  <2>3. Written(body, at)[Begins(at) + (k + 1) - 1] = LexemeBytes(body[at])[k + 1]
    BY <1>5, <1>6, <2>2
  <2> QED
    BY <1>4, <1>7, <2>1, <2>2, <2>3 DEF Byte
<1>9. Len(Written(body, at)) = byte + Len(name) + 1 - k /\ Len(name) \in Nat
  BY <1>1, <1>3, <1>4, <1>6, <1>7, SMTT(40)
<1>10. CASE k = Len(name) + 1
  BY <1>1, <1>3, <1>6, <1>7, <1>8, <1>9, <1>10, SMTT(40)
<1>11. CASE k # Len(name) + 1
  <2>1. k \in 1..Len(name)
    BY <1>8, <1>9, <1>11
  <2>2. Byte = name[k]
    BY <1>6, <1>8, <2>1
  <2>3. byte < Len(Written(body, at))
    BY <1>1, <1>9, <2>1
  <2> QED
    BY <1>3, <1>7, <1>8, <1>11, <2>2, <2>3
<1> QED
  BY <1>10, <1>11

-----------------------------------------------------------------------------
(* The scan.                                                               *)

LEMMA NextByteStep ==
  ASSUME Placed, verdict = "scan", ~AtEnd, NextByte, body' = body, verdict' = "scan"
  PROVE  /\ Placed'
         /\ IF byte < Len(Written(body, at)) THEN at' = at /\ byte' = byte + 1
            ELSE at' = at + 1 /\ byte' = 1
         /\ byte = Len(Written(body, at)) \/ byte < Len(Written(body, at))
<1>1. /\ body \in Document /\ at \in 1..Len(body) /\ Len(body) \in Nat
      /\ byte \in 1..Len(Written(body, at))
  BY ByteRead
<1>2. at \in DOMAIN body /\ DOMAIN body = 1..Len(body)
  BY <1>1, DocumentAssumption
<1>3. \A i \in 1..Len(body) : Len(Written(body, i)) \in Nat \ {0}
  BY <1>1, <1>2, WrittenFacts
<1>4. /\ IF byte < Len(Written(body, at)) THEN at' = at /\ byte' = byte + 1
         ELSE at' = at + 1 /\ byte' = 1
      /\ byte = Len(Written(body, at)) \/ byte < Len(Written(body, at))
  BY <1>1, <1>3 DEF NextByte
<1>5. Placed'
  <2>1. body' \in Document /\ at' \in 1..(Len(body') + 1)
    BY <1>1, <1>3, <1>4
  <2>2. CASE byte < Len(Written(body, at))
    <3>1. at' \in 1..Len(body') /\ byte' \in 1..Len(Written(body', at'))
      BY <1>1, <1>3, <1>4, <2>2
    <3> QED
      BY <2>1, <3>1 DEF Placed, AtEnd
  <2>3. CASE ~(byte < Len(Written(body, at)))
    <3>1. /\ at' = at + 1 /\ byte' = 1
          /\ at + 1 \in 1..Len(body) => Len(Written(body, at + 1)) \in Nat \ {0}
      BY <1>3, <1>4, <2>3
    <3>2. IF at' > Len(body') THEN byte' = 1 ELSE byte' \in 1..Len(Written(body', at'))
      BY <1>1, <3>1
    <3> QED
      BY <2>1, <3>2 DEF Placed, AtEnd
  <2> QED
    BY <2>2, <2>3
<1> QED
  BY <1>4, <1>5

\* Every name has places at which its characters begin.
LEMMA Places ==
  ASSUME NEW name \in Name
  PROVE  \E places : Spelled(name.bytes, places)
  BY NameAssumption

\* What a step of the scan keeps.
Scanned == Placed /\ InStrings /\ OutsideStrings /\ CheckedBehind

LEMMA StringByteStep ==
  ASSUME Scanned, StringByte
  PROVE  Scanned'
<1>1. /\ verdict = "scan" /\ token = NoToken /\ ~AtEnd /\ inString
      /\ escaped' = (~escaped /\ Byte = "backslash")
      /\ inString' = (escaped \/ Byte # "quote")
      /\ NextByte /\ UNCHANGED <<body, token, checked, objects, verdict>>
  BY DEF StringByte, Scanning
<1>2. /\ body[at].is \in {"key", "string"} /\ byte > Begins(at)
      /\ at \in 1..Len(body) /\ Len(body) \in Nat /\ body[at] \in Lexeme
      /\ Begins(at) \in {1, 2} /\ byte \in Int
  BY <1>1, ByteRead DEF Scanned, InStrings
<1>3. PICK name \in Name : name = body[at].name
  BY <1>2, LexemeFacts
<1>4. PICK k \in Int : k = byte - Begins(at)
  BY <1>2
<1>5. /\ name.bytes \in Seq(Class) /\ Len(name.bytes) \in Nat
      /\ k \in 1..(Len(name.bytes) + 1)
      /\ k = Len(name.bytes) + 1 => Byte = "quote" /\ byte = Len(Written(body, at))
      /\ k # Len(name.bytes) + 1 => /\ Byte = name.bytes[k] /\ k \in DOMAIN name.bytes
                                    /\ byte < Len(Written(body, at))
  BY <1>1, <1>2, <1>3, <1>4, StringByteRead DEF Scanned
<1>6. \A places : Spelled(name.bytes, places) =>
        IF escaped THEN k \notin places /\ k + 1 \in places ELSE k \in places
  BY <1>1, <1>3, <1>4 DEF Scanned, InStrings
<1>7. /\ Placed'
      /\ byte < Len(Written(body, at)) => at' = at /\ byte' = byte + 1
      /\ byte = Len(Written(body, at)) => at' = at + 1 /\ byte' = 1
  BY <1>1, <1>2, NextByteStep DEF Scanned, Placed
<1>8. PICK some : Spelled(name.bytes, some)
  BY Places
<1>9. CASE inString'
  <2>1. k # Len(name.bytes) + 1
    BY <1>1, <1>5, <1>6, <1>8, <1>9 DEF Spelled
  <2>2. at' = at /\ byte' = byte + 1 /\ byte' - Begins(at') = k + 1
    BY <1>2, <1>4, <1>5, <1>7, <2>1
  <2>3. ASSUME NEW places, Spelled(name.bytes, places)
        PROVE  IF escaped' THEN k + 1 \notin places /\ k + 2 \in places
               ELSE k + 1 \in places
    <3>1. k \in places => IF name.bytes[k] = "backslash"
                          THEN k + 1 \notin places /\ k + 2 \in places
                          ELSE k + 1 \in places
      BY <1>5, <2>1, <2>3 DEF Spelled
    <3> QED
      BY <1>1, <1>5, <1>6, <2>1, <2>3, <3>1
  <2>4. InStrings'
    <3>1. ~AtEnd' /\ byte' > Begins(at') /\ byte' - Begins(at') + 1 = k + 2
      BY <1>1, <1>2, <1>4, <2>2 DEF AtEnd
    <3>2. body'[at'].name.bytes = name.bytes /\ body'[at'].is \in {"key", "string"}
      BY <1>1, <1>2, <1>3, <2>2
    <3> QED
      BY <1>1, <2>2, <2>3, <3>1, <3>2 DEF InStrings
  <2>5. Behind' = Behind
    BY <1>1, <2>2 DEF Behind, NumbersOf
  <2> QED
    BY <1>1, <1>7, <1>9, <2>4, <2>5 DEF Scanned, OutsideStrings, CheckedBehind
<1>10. CASE ~inString'
  <2>1. ~escaped /\ Byte = "quote"
    BY <1>1, <1>10
  <2>2. k = Len(name.bytes) + 1
    BY <1>5, <1>6, <1>8, <2>1 DEF Spelled
  <2>3. at' = at + 1 /\ byte' = 1 /\ escaped' = FALSE
    BY <1>1, <1>5, <1>7, <2>1, <2>2
  <2>4. Begins(at') \in {1, 2}
    BY DEF Begins
  <2>5. Behind' = Behind
    BY <1>1, <1>2, <2>3 DEF Behind, NumbersOf
  <2>6. OutsideStrings'
    BY <1>1, <2>3, <2>4 DEF OutsideStrings
  <2> QED
    BY <1>1, <1>7, <1>10, <2>5, <2>6 DEF Scanned, InStrings, CheckedBehind
<1> QED
  BY <1>9, <1>10

LEMMA OtherByteStep ==
  ASSUME Scanned, OtherByte
  PROVE  Scanned'
<1>1. /\ Byte \notin {"digit", "minus"} /\ inString' = (Byte = "quote")
      /\ NextByte /\ UNCHANGED <<body, escaped, token, checked, objects, verdict>>
  BY DEF OtherByte, Scanning
<1>2. verdict = "scan" /\ token = NoToken /\ ~AtEnd /\ ~inString /\ escaped = FALSE
  BY DEF OtherByte, Scanning, Scanned, OutsideStrings
<1>3. byte <= Begins(at)
  BY <1>2 DEF Scanned, OutsideStrings
<1>4. /\ at \in 1..Len(body) /\ Len(body) \in Nat /\ body[at] \in Lexeme
      /\ byte \in 1..Len(Written(body, at)) /\ Begins(at) \in {1, 2}
      /\ byte < Begins(at) => Byte = "other" /\ byte < Len(Written(body, at))
  BY <1>2, ByteRead DEF Scanned
<1>5. byte = Begins(at) =>
        /\ body[at].is # "number"
        /\ Byte = "quote" <=> body[at].is \in {"key", "string"}
        /\ body[at].is \in {"open", "close"} => byte = Len(Written(body, at))
        /\ body[at].is \in {"key", "string"} => byte < Len(Written(body, at))
  BY <1>1, <1>2, ByteRead DEF Scanned
<1>6. /\ Placed'
      /\ byte < Len(Written(body, at)) => at' = at /\ byte' = byte + 1
      /\ byte = Len(Written(body, at)) => at' = at + 1 /\ byte' = 1
  BY <1>1, <1>2, <1>4, NextByteStep DEF Scanned
<1>7. \A i : Begins(i) \in {1, 2}
  BY DEF Begins
<1>8. CASE byte < Begins(at)
  <2>1. /\ at' = at /\ byte' = byte + 1 /\ ~inString'
    BY <1>1, <1>4, <1>6, <1>8
  <2>2. byte' <= Begins(at')
    BY <1>4, <1>8, <2>1
  <2>3. Behind' = Behind
    BY <1>1, <2>1 DEF Behind, NumbersOf
  <2> QED
    BY <1>1, <1>2, <1>6, <2>1, <2>2, <2>3
       DEF Scanned, InStrings, OutsideStrings, CheckedBehind
<1>9. CASE byte = Begins(at) /\ body[at].is \in {"key", "string"}
  <2>1. /\ at' = at /\ byte' = Begins(at') + 1 /\ inString' = TRUE
    BY <1>1, <1>4, <1>5, <1>6, <1>9
  <2>2. byte' - Begins(at') = 1 /\ byte' > Begins(at')
    BY <1>7, <2>1
  <2>3. InStrings'
    <3>1. \A places : Spelled(body[at].name.bytes, places) => 1 \in places
      BY DEF Spelled
    <3>2. ~AtEnd' /\ escaped' = FALSE /\ token' = NoToken
      BY <1>1, <1>2, <2>1 DEF AtEnd
    <3> QED
      BY <1>1, <1>9, <2>1, <2>2, <3>1, <3>2 DEF InStrings
  <2>4. Behind' = Behind
    BY <1>1, <2>1 DEF Behind, NumbersOf
  <2> QED
    BY <1>1, <1>2, <1>6, <2>1, <2>3, <2>4 DEF Scanned, OutsideStrings, CheckedBehind
<1>10. CASE byte = Begins(at) /\ body[at].is \in {"open", "close"}
  <2>1. /\ at' = at + 1 /\ byte' = 1 /\ ~inString'
    BY <1>1, <1>4, <1>5, <1>6, <1>10
  <2>2. byte' <= Begins(at')
    BY <1>7, <2>1
  <2>3. Behind' = Behind
    BY <1>1, <1>2, <1>4, <1>10, <2>1 DEF Behind, NumbersOf
  <2> QED
    BY <1>1, <1>2, <1>6, <2>1, <2>2, <2>3
       DEF Scanned, InStrings, OutsideStrings, CheckedBehind
<1> QED
  BY <1>3, <1>4, <1>5, <1>8, <1>9, <1>10, LexemeFacts

LEMMA TokenBeginsStep ==
  ASSUME Scanned, TokenBegins
  PROVE  Scanned'
<1>1. /\ verdict = "scan" /\ token = NoToken /\ ~AtEnd /\ ~inString
      /\ Byte \in {"digit", "minus"} /\ token' = <<at, byte>>
      /\ NextByte /\ UNCHANGED <<body, inString, escaped, checked, objects, verdict>>
  BY DEF TokenBegins, Scanning
<1>2. escaped = FALSE /\ byte <= Begins(at)
  BY <1>1 DEF Scanned, OutsideStrings
<1>3. /\ at \in 1..Len(body) /\ Len(body) \in Nat /\ byte \in 1..Len(Written(body, at))
      /\ Begins(at) \in {1, 2}
      /\ byte = Begins(at) /\ body[at].is = "number"
  BY <1>1, <1>2, ByteRead DEF Scanned
<1>4. /\ Placed'
      /\ byte < Len(Written(body, at)) => at' = at /\ byte' = byte + 1
      /\ byte = Len(Written(body, at)) => at' = at + 1 /\ byte' = 1
      /\ byte = Len(Written(body, at)) \/ byte < Len(Written(body, at))
  BY <1>1, <1>3, NextByteStep DEF Scanned
<1>5. at \in NumbersOf(body) /\ NumbersOf(body)' = NumbersOf(body)
  BY <1>1, <1>3, DocumentAssumption DEF NumbersOf, Scanned, Placed
<1>6. (at' = at /\ byte' > Begins(at)) \/ (at' = at + 1 /\ byte' = 1)
  BY <1>3, <1>4
<1>7. token' = <<at, Begins(at)>> /\ token' # NoToken /\ token'[1] = at
  BY <1>1, <1>3 DEF NoToken
<1>8. OutsideStrings'
  BY <1>1, <1>2, <1>5, <1>6, <1>7 DEF OutsideStrings
<1>9. Behind' = Behind
  BY <1>1, <1>5, <1>7 DEF Behind
<1> QED
  BY <1>1, <1>4, <1>8, <1>9 DEF Scanned, InStrings, CheckedBehind

\* The number that is read is one of the document, from its first byte on.
LEMMA InToken ==
  ASSUME Scanned, verdict = "scan", token # NoToken
  PROVE  /\ ~inString /\ escaped = FALSE
         /\ \E i \in NumbersOf(body) :
              /\ token = <<i, Begins(i)>> /\ token[1] = i
              /\ IF InNumber THEN at = i /\ byte > Begins(i) ELSE at = i + 1 /\ byte = 1
<1>1. ~inString /\ escaped = FALSE
  BY DEF Scanned, InStrings, OutsideStrings
<1>2. PICK i \in NumbersOf(body) :
        /\ token = <<i, Begins(i)>>
        /\ (at = i /\ byte > Begins(i)) \/ (at = i + 1 /\ byte = 1)
  BY <1>1 DEF Scanned, OutsideStrings
<1>3. i \in 1..Len(body) /\ body[i].is = "number" /\ Len(body) \in Nat
  BY <1>2, DocumentAssumption DEF NumbersOf, Scanned, Placed
<1>4. CASE at = i /\ byte > Begins(i)
  <2>1. ~AtEnd
    BY <1>3, <1>4 DEF AtEnd
  <2>2. Byte \in Numeric
    BY <1>3, <1>4, <2>1, ByteRead DEF Scanned
  <2> QED
    BY <1>1, <1>2, <1>4, <2>1, <2>2 DEF InNumber
<1>5. CASE at = i + 1 /\ byte = 1
  <2>1. ~AtEnd => Byte = "other"
    BY <1>3, <1>5, ByteRead DEF Scanned
  <2>2. ~InNumber
    BY <2>1 DEF InNumber, Numeric
  <2> QED
    BY <1>1, <1>2, <1>5, <2>2
<1> QED
  BY <1>2, <1>4, <1>5

LEMMA TokenGoesOnStep ==
  ASSUME Scanned, TokenGoesOn
  PROVE  Scanned'
<1>1. /\ verdict = "scan" /\ token # NoToken /\ InNumber /\ NextByte
      /\ UNCHANGED <<body, inString, escaped, token, checked, objects, verdict>>
  BY DEF TokenGoesOn, scanned
<1>2. PICK i \in NumbersOf(body) :
        token = <<i, Begins(i)>> /\ token[1] = i /\ at = i /\ byte > Begins(i)
  BY <1>1, InToken
<1>3. ~AtEnd /\ ~inString /\ escaped = FALSE
  BY <1>1, InToken DEF InNumber
<1>4. /\ byte \in 1..Len(Written(body, at)) /\ Begins(at) \in {1, 2}
  BY <1>1, <1>3, ByteRead DEF Scanned
<1>5. /\ Placed'
      /\ byte < Len(Written(body, at)) => at' = at /\ byte' = byte + 1
      /\ byte = Len(Written(body, at)) => at' = at + 1 /\ byte' = 1
      /\ byte = Len(Written(body, at)) \/ byte < Len(Written(body, at))
  BY <1>1, <1>3, <1>4, NextByteStep DEF Scanned
<1>6. (at' = i /\ byte' > Begins(i)) \/ (at' = i + 1 /\ byte' = 1)
  BY <1>2, <1>4, <1>5
<1>7. NumbersOf(body)' = NumbersOf(body)
  BY <1>1 DEF NumbersOf
<1>8. OutsideStrings'
  BY <1>1, <1>2, <1>3, <1>6, <1>7 DEF OutsideStrings
<1>9. Behind' = Behind
  BY <1>1, <1>7 DEF Behind
<1> QED
  BY <1>1, <1>3, <1>5, <1>8, <1>9 DEF Scanned, InStrings, CheckedBehind

LEMMA TokenEndsStep ==
  ASSUME Scanned, NumbersFine, TokenEnds
  PROVE  Scanned' /\ NumbersFine' /\ verdict' \in {"scan", "refused"}
<1>1. /\ verdict = "scan" /\ token # NoToken /\ ~InNumber
      /\ checked' = checked \cup {<<token, <<at, byte>>>>} /\ token' = NoToken
      /\ verdict' = IF \A i \in NumbersOf(body) :
                         Slice(i) = <<token, <<at, byte>>>> =>
                           ParseJsonNumber(body[i].number)
                    THEN "scan" ELSE "refused"
      /\ UNCHANGED <<body, at, byte, inString, escaped, objects>>
  BY DEF TokenEnds
<1>2. PICK i \in NumbersOf(body) :
        token = <<i, Begins(i)>> /\ token[1] = i /\ at = i + 1 /\ byte = 1
  BY <1>1, InToken
<1>3. ~inString /\ escaped = FALSE
  BY <1>1, InToken
<1>4. <<token, <<at, byte>>>> = Slice(i)
  BY <1>2 DEF Slice
<1>5. NumbersOf(body)' = NumbersOf(body)
  BY <1>1 DEF NumbersOf
<1>6. i \in Int /\ NumbersOf(body) \subseteq Int
  BY <1>2, DocumentAssumption DEF NumbersOf, Scanned, Placed
<1>7. Behind' = Behind \cup {i}
  BY <1>1, <1>2, <1>5, <1>6 DEF Behind
<1>8. checked' = {Slice(j) : j \in Behind'}
  BY <1>1, <1>4, <1>7 DEF Scanned, CheckedBehind
<1>9. byte <= Begins(at)
  BY <1>2 DEF Begins
<1>10. OutsideStrings'
  BY <1>1, <1>3, <1>9 DEF OutsideStrings
<1>11. NumbersFine'
  <2>1. ASSUME verdict' # "refused", NEW j \in NumbersOf(body), Slice(j) \in checked'
        PROVE  ParseJsonNumber(body[j].number)
    BY <1>1, <2>1 DEF NumbersFine
  <2> QED
    BY <1>1, <1>5, <2>1 DEF NumbersFine
<1>12. Placed' /\ verdict' \in {"scan", "refused"}
  BY <1>1 DEF Scanned, Placed, AtEnd
<1> QED
  BY <1>1, <1>3, <1>8, <1>10, <1>11, <1>12 DEF Scanned, InStrings, CheckedBehind

-----------------------------------------------------------------------------
(* The visit.                                                              *)

\* An object is opened or closed by the n-th lexeme, or it is not.
LEMMA DepthStep ==
  ASSUME NEW d \in Document, NEW n \in 1..Len(d)
  PROVE  /\ Depth(d, n - 1) \in Int /\ Depth(d, n) \in Int
         /\ d[n].is = "open" => Depth(d, n) = Depth(d, n - 1) + 1
         /\ d[n].is = "close" => Depth(d, n) = Depth(d, n - 1) - 1
         /\ d[n].is \notin {"open", "close"} => Depth(d, n) = Depth(d, n - 1)
<1> DEFINE Of(m, is) == {j \in 1..m : d[j].is = is}
<1> HIDE DEF Of
<1>1. n \in Nat /\ n - 1 \in Nat /\ Len(d) \in Nat
  BY DocumentAssumption
<1>2. ASSUME NEW is
      PROVE  /\ IsFiniteSet(Of(n - 1, is)) /\ Cardinality(Of(n - 1, is)) \in Nat
             /\ Cardinality(Of(n, is)) =
                  Cardinality(Of(n - 1, is)) + (IF d[n].is = is THEN 1 ELSE 0)
  <2>1. IsFiniteSet(1..(n - 1))
    BY <1>1, FS_Interval
  <2>2. IsFiniteSet(Of(n - 1, is))
    BY <1>1, <2>1, FS_Subset DEF Of
  <2>3. Cardinality(Of(n - 1, is)) \in Nat
    BY <2>2, FS_CardinalityType
  <2>4. CASE d[n].is = is
    <3>1. Of(n, is) = Of(n - 1, is) \cup {n} /\ n \notin Of(n - 1, is)
      BY <1>1, <2>4 DEF Of
    <3>2. Cardinality(Of(n - 1, is) \cup {n}) = Cardinality(Of(n - 1, is)) + 1
      BY <2>2, <3>1, FS_AddElement
    <3> QED
      BY <2>2, <2>3, <2>4, <3>1, <3>2
  <2>5. CASE d[n].is # is
    <3>1. Of(n, is) = Of(n - 1, is)
      BY <1>1, <2>5 DEF Of
    <3> QED
      BY <2>2, <2>3, <2>5, <3>1
  <2> QED
    BY <2>4, <2>5
<1>3. /\ Depth(d, n) = Cardinality(Of(n, "open")) - Cardinality(Of(n, "close"))
      /\ Depth(d, n - 1) = Cardinality(Of(n - 1, "open")) - Cardinality(Of(n - 1, "close"))
  BY DEF Depth, Of
<1> QED
  BY <1>2, <1>3

LEMMA NothingOpen ==
  ASSUME NEW d
  PROVE  Depth(d, 0) = 0
<1>1. {j \in 1..0 : d[j].is = "open"} = {} /\ {j \in 1..0 : d[j].is = "close"} = {}
  OBVIOUS
<1> QED
  BY <1>1, FS_EmptySet DEF Depth

\* A key stands in an object, and an object that is closed was open.
LEMMA InObject ==
  ASSUME NEW d \in Document, NEW n \in 1..Len(d), d[n].is \in {"key", "close"}
  PROVE  Depth(d, n - 1) > 0
  BY DocumentAssumption

LEMMA KeyDepth ==
  ASSUME NEW d \in Document, NEW n \in 1..Len(d), d[n].is = "key"
  PROVE  Depth(d, n) \in Int /\ Depth(d, n) > 0
<1>1. Depth(d, n) \in Int /\ Depth(d, n) = Depth(d, n - 1)
  BY DepthStep
<1>2. Depth(d, n - 1) > 0
  BY InObject
<1> QED
  BY <1>1, <1>2

\* The invariants of the visit but for its keys.
Steady ==
  /\ Placed /\ NumbersChecked /\ NumbersFine /\ VisitedFine
  /\ InStrings /\ OutsideStrings /\ CheckedBehind

\* One lexeme was visited, in order or not.
Visited(fine) ==
  /\ verdict = "visit" /\ ~AtEnd
  /\ verdict' = (IF fine THEN "visit" ELSE "refused") /\ at' = at + 1
  /\ UNCHANGED <<body, checked>>

LEMMA VisitSteady ==
  ASSUME Steady, NEW fine \in BOOLEAN, Visited(fine),
         fine /\ body[at].is = "number" => VisitNumber(body[at].number)
  PROVE  Steady'
<1>1. /\ verdict = "visit" /\ verdict' = (IF fine THEN "visit" ELSE "refused")
      /\ at' = at + 1 /\ body' = body /\ checked' = checked
  BY DEF Visited
<1>2. at \in 1..Len(body) /\ Len(body) \in Nat
  BY DocumentAssumption DEF Steady, Placed, AtEnd, Visited
<1>3. Placed'
  BY <1>1, <1>2 DEF Steady, Placed
<1>4. InStrings' /\ OutsideStrings' /\ CheckedBehind'
  BY <1>1 DEF InStrings, OutsideStrings, CheckedBehind
<1>5. NumbersChecked' /\ NumbersFine'
  BY <1>1 DEF Steady, NumbersChecked, NumbersFine, NumbersOf
<1>6. VisitedFine'
  <2>1. ASSUME fine, NEW i \in NumbersOf(body), i < at + 1
        PROVE  VisitNumber(body[i].number)
    <3>1. i = at \/ i < at
      BY <1>2, <2>1, DocumentAssumption DEF NumbersOf, Steady, Placed
    <3>2. CASE i < at
      BY <1>1, <3>2 DEF Steady, VisitedFine
    <3>3. CASE i = at
      BY <2>1, <3>3 DEF NumbersOf
    <3> QED
      BY <3>1, <3>2, <3>3
  <2> QED
    BY <1>1, <2>1 DEF VisitedFine, NumbersOf
<1> QED
  BY <1>3, <1>4, <1>5, <1>6 DEF Steady

\* The key of an object that is still open is in hand.
LEMMA StillInHand ==
  ASSUME IInv, Visited(TRUE), NEW i \in 1..(at - 1), body[i].is = "key",
         \A k \in i..at : Depth(body, k) >= Depth(body, i)
  PROVE  /\ body[i].name.text \in objects[Depth(body, i)]
         /\ Depth(body, i) \in 1..Len(objects) /\ Depth(body, i) <= Depth(body, at)
<1>1. /\ verdict = "visit" /\ body \in Document
      /\ at \in 1..Len(body) /\ Len(body) \in Nat
  BY DocumentAssumption DEF IInv, Placed, AtEnd, Visited
<1>2. /\ i \in 1..Len(body) /\ i..(at - 1) \subseteq i..at
      /\ at - 1 \in i..at /\ at \in i..at
  BY <1>1
<1>3. body[i].name.text \in objects[Depth(body, i)]
  BY <1>1, <1>2 DEF IInv, KeysInHand
<1>4. Depth(body, i) \in Int /\ Depth(body, i) > 0
  BY <1>1, <1>2, KeyDepth
<1>5. Len(objects) = Depth(body, at - 1) /\ Depth(body, at - 1) \in Int
  BY <1>1, DepthStep DEF IInv, ObjectsOpen
<1> QED
  BY <1>2, <1>3, <1>4, <1>5

\* Where an object begins or ends, or a value stands, no key is compared.
LEMMA NoNewKey ==
  ASSUME IInv, Visited(TRUE), body[at].is # "key"
  PROVE  KeysDiffer'
<1>1. /\ verdict = "visit" /\ at' = at + 1 /\ body' = body
      /\ at \in 1..Len(body) /\ Len(body) \in Nat
  BY DocumentAssumption DEF IInv, Placed, AtEnd, Visited
<1>2. at' - 1 = at
  BY <1>1
<1>3. \A i, j \in 1..at :
        body[j].is = "key" /\ i < j => i \in 1..(at - 1) /\ j \in 1..(at - 1)
  BY <1>1
<1>4. \A i, j : SameObject(body, i, j)' = SameObject(body, i, j)
  BY <1>1 DEF SameObject
<1> QED
  BY <1>1, <1>2, <1>3, <1>4 DEF KeysDiffer, IInv

LEMMA VisitOpenStep ==
  ASSUME IInv, Visited(TRUE), body[at].is = "open", objects' = Append(objects, {})
  PROVE  ObjectsOpen' /\ KeysInHand' /\ KeysDiffer'
<1>1. /\ verdict = "visit" /\ verdict' = "visit" /\ at' = at + 1 /\ body' = body
      /\ body \in Document /\ at \in 1..Len(body) /\ at' - 1 = at
  BY DocumentAssumption DEF IInv, Placed, AtEnd, Visited
<1>2. objects \in Seq(SUBSET Text) /\ Len(objects) = Depth(body, at - 1)
  BY <1>1 DEF IInv, ObjectsOpen
<1>3. Depth(body, at) = Depth(body, at - 1) + 1
  BY <1>1, DepthStep
<1>4. /\ objects' \in Seq(SUBSET Text) /\ Len(objects') = Len(objects) + 1
      /\ \A k \in 1..Len(objects) : objects'[k] = objects[k]
  BY <1>2
<1>5. ObjectsOpen'
  BY <1>1, <1>2, <1>3, <1>4 DEF ObjectsOpen
<1>6. ASSUME NEW i \in 1..at, body[i].is = "key",
             \A k \in i..at : Depth(body, k) >= Depth(body, i)
      PROVE  body[i].name.text \in objects'[Depth(body, i)]
  <2>1. i \in 1..(at - 1)
    BY <1>1, <1>6
  <2> QED
    BY <1>4, <1>6, <2>1, StillInHand
<1>7. KeysInHand'
  BY <1>1, <1>6 DEF KeysInHand
<1> QED
  BY <1>5, <1>7, NoNewKey

LEMMA VisitCloseStep ==
  ASSUME IInv, Visited(TRUE), body[at].is = "close", objects' = Front(objects)
  PROVE  ObjectsOpen' /\ KeysInHand' /\ KeysDiffer'
<1>1. /\ verdict = "visit" /\ verdict' = "visit" /\ at' = at + 1 /\ body' = body
      /\ body \in Document /\ at \in 1..Len(body) /\ at' - 1 = at
  BY DocumentAssumption DEF IInv, Placed, AtEnd, Visited
<1>2. objects \in Seq(SUBSET Text) /\ Len(objects) = Depth(body, at - 1)
  BY <1>1 DEF IInv, ObjectsOpen
<1>3. Depth(body, at) = Depth(body, at - 1) - 1 /\ Depth(body, at - 1) > 0
  BY <1>1, DepthStep, InObject
<1>4. /\ objects' \in Seq(SUBSET Text) /\ Len(objects') = Len(objects) - 1
      /\ \A k \in 1..(Len(objects) - 1) : objects'[k] = objects[k]
  BY <1>2, <1>3 DEF Front
<1>5. ObjectsOpen'
  BY <1>1, <1>2, <1>3, <1>4 DEF ObjectsOpen
<1>6. ASSUME NEW i \in 1..at, body[i].is = "key",
             \A k \in i..at : Depth(body, k) >= Depth(body, i)
      PROVE  body[i].name.text \in objects'[Depth(body, i)]
  <2>1. i \in 1..(at - 1)
    BY <1>1, <1>6
  <2>2. /\ body[i].name.text \in objects[Depth(body, i)]
        /\ Depth(body, i) \in 1..Len(objects) /\ Depth(body, i) <= Depth(body, at)
    BY <1>6, <2>1, StillInHand
  <2>3. Depth(body, i) \in 1..(Len(objects) - 1)
    BY <1>2, <1>3, <2>2
  <2> QED
    BY <1>4, <2>2, <2>3
<1>7. KeysInHand'
  BY <1>1, <1>6 DEF KeysInHand
<1> QED
  BY <1>5, <1>7, NoNewKey

LEMMA VisitLeafStep ==
  ASSUME IInv, Visited(TRUE), body[at].is \in {"string", "number"}, objects' = objects
  PROVE  ObjectsOpen' /\ KeysInHand' /\ KeysDiffer'
<1>1. /\ verdict = "visit" /\ verdict' = "visit" /\ at' = at + 1 /\ body' = body
      /\ body \in Document /\ at \in 1..Len(body) /\ at' - 1 = at
  BY DocumentAssumption DEF IInv, Placed, AtEnd, Visited
<1>2. Depth(body, at) = Depth(body, at - 1)
  BY <1>1, DepthStep
<1>3. ObjectsOpen'
  BY <1>1, <1>2 DEF IInv, ObjectsOpen
<1>4. ASSUME NEW i \in 1..at, body[i].is = "key",
             \A k \in i..at : Depth(body, k) >= Depth(body, i)
      PROVE  body[i].name.text \in objects[Depth(body, i)]
  <2>1. i \in 1..(at - 1)
    BY <1>1, <1>4
  <2> QED
    BY <1>4, <2>1, StillInHand
<1>5. KeysInHand'
  BY <1>1, <1>4 DEF KeysInHand
<1> QED
  BY <1>3, <1>5, NoNewKey

\* A key is compared with the keys of its object, and joins them.
LEMMA VisitKeyStep ==
  ASSUME IInv, Visited(TRUE), body[at].is = "key", body[at].name.text \notin Last(objects),
         objects' = [objects EXCEPT ![Len(objects)] = @ \cup {body[at].name.text}]
  PROVE  ObjectsOpen' /\ KeysInHand' /\ KeysDiffer'
<1>1. /\ verdict = "visit" /\ verdict' = "visit" /\ at' = at + 1 /\ body' = body
      /\ body \in Document /\ at \in 1..Len(body) /\ Len(body) \in Nat /\ at' - 1 = at
  BY DocumentAssumption DEF IInv, Placed, AtEnd, Visited
<1>2. objects \in Seq(SUBSET Text) /\ Len(objects) = Depth(body, at - 1)
  BY <1>1 DEF IInv, ObjectsOpen
<1>3. Depth(body, at) = Len(objects) /\ Len(objects) > 0 /\ Len(objects) \in Nat
  BY <1>1, <1>2, DepthStep, InObject
<1>4. body[at].name.text \in Text
  <2>1. body[at] \in Lexeme
    BY <1>1, DocumentAssumption
  <2>2. body[at].name \in Name
    BY <2>1, LexemeFacts
  <2> QED
    BY <2>2, NameAssumption
<1>5. /\ objects' \in Seq(SUBSET Text) /\ Len(objects') = Len(objects)
      /\ body[at].name.text \in objects'[Len(objects)]
      /\ \A k \in 1..Len(objects) : objects[k] \subseteq objects'[k]
  BY <1>2, <1>3, <1>4
<1>6. ObjectsOpen'
  BY <1>1, <1>2, <1>3, <1>5 DEF ObjectsOpen
<1>7. ASSUME NEW i \in 1..at, body[i].is = "key",
             \A k \in i..at : Depth(body, k) >= Depth(body, i)
      PROVE  body[i].name.text \in objects'[Depth(body, i)]
  <2>1. CASE i = at
    BY <1>3, <1>5, <2>1
  <2>2. CASE i # at
    <3>1. i \in 1..(at - 1)
      BY <1>1, <2>2
    <3> QED
      BY <1>5, <1>7, <3>1, StillInHand
  <2> QED
    BY <2>1, <2>2
<1>8. KeysInHand'
  BY <1>1, <1>7 DEF KeysInHand
<1>9. ASSUME NEW i \in 1..(at - 1), body[i].is = "key", SameObject(body, i, at)
      PROVE  body[i].name.text # body[at].name.text
  <2>1. \A k \in i..at : Depth(body, k) >= Depth(body, i)
    BY <1>9 DEF SameObject
  <2>2. body[i].name.text \in objects[Depth(body, i)]
    BY <1>9, <2>1, StillInHand
  <2>3. Depth(body, i) = Len(objects)
    BY <1>3, <1>9 DEF SameObject
  <2> QED
    BY <2>2, <2>3 DEF Last
<1>10. KeysDiffer'
  <2>1. ASSUME NEW i \in 1..at, NEW j \in 1..at, body[i].is = "key", body[j].is = "key",
               i < j, SameObject(body, i, j)
        PROVE  body[i].name.text # body[j].name.text
    <3>1. CASE j = at
      <4>1. i \in 1..(at - 1)
        BY <1>1, <2>1, <3>1
      <4> QED
        BY <1>9, <2>1, <3>1, <4>1
    <3>2. CASE j # at
      <4>1. i \in 1..(at - 1) /\ j \in 1..(at - 1)
        BY <1>1, <2>1, <3>2
      <4> QED
        BY <1>1, <2>1, <4>1 DEF IInv, KeysDiffer
    <3> QED
      BY <3>1, <3>2
  <2>2. \A i, j : SameObject(body, i, j)' = SameObject(body, i, j)
    BY <1>1 DEF SameObject
  <2> QED
    BY <1>1, <2>1, <2>2 DEF KeysDiffer
<1> QED
  BY <1>6, <1>8, <1>10

-----------------------------------------------------------------------------
(* Steps.                                                                  *)

LEMMA ScanStep ==
  ASSUME IInv, \/ StringByte \/ OtherByte \/ TokenBegins \/ TokenGoesOn \/ TokenEnds
  PROVE  IInv'
<1>1. Scanned /\ NumbersFine /\ verdict = "scan" /\ objects = <<>>
  BY DEF IInv, Scanned, ObjectsOpen, StringByte, OtherByte, TokenBegins, TokenGoesOn,
         TokenEnds, Scanning
<1>2. UNCHANGED <<body, objects>>
  BY DEF StringByte, OtherByte, TokenBegins, TokenGoesOn, TokenEnds
<1>3. Scanned' /\ NumbersFine' /\ verdict' \in {"scan", "refused"}
  <2>1. CASE TokenEnds
    BY <1>1, <2>1, TokenEndsStep
  <2>2. CASE StringByte \/ OtherByte \/ TokenBegins \/ TokenGoesOn
    <3>1. UNCHANGED <<body, checked, verdict>>
      BY <2>2 DEF StringByte, OtherByte, TokenBegins, TokenGoesOn, scanned
    <3>2. Scanned'
      BY <1>1, <2>2, StringByteStep, OtherByteStep, TokenBeginsStep, TokenGoesOnStep
    <3>3. NumbersFine'
      BY <1>1, <3>1 DEF NumbersFine, NumbersOf
    <3> QED
      BY <1>1, <3>1, <3>2, <3>3
  <2> QED
    BY <2>1, <2>2
<1>4. NumbersChecked' /\ VisitedFine' /\ ObjectsOpen' /\ KeysInHand' /\ KeysDiffer'
  BY <1>1, <1>2, <1>3
     DEF NumbersChecked, VisitedFine, ObjectsOpen, KeysInHand, KeysDiffer
<1> QED
  BY <1>3, <1>4 DEF IInv, Scanned

LEMMA ScanEndsStep ==
  ASSUME IInv, ScanEnds
  PROVE  IInv'
<1>1. /\ verdict = "scan" /\ token = NoToken /\ AtEnd
      /\ verdict' = "visit" /\ at' = 1 /\ UNCHANGED <<body, checked, objects>>
  BY DEF ScanEnds, scanned
<1>2. body \in Document /\ Len(body) \in Nat \ {0} /\ at = Len(body) + 1
  BY <1>1, DocumentAssumption DEF IInv, Placed, AtEnd
<1>3. Placed'
  BY <1>1, <1>2 DEF Placed
<1>4. Behind = NumbersOf(body)
  BY <1>1, <1>2, DocumentAssumption DEF Behind, NumbersOf
<1>5. NumbersChecked' /\ NumbersFine'
  BY <1>1, <1>4 DEF IInv, CheckedBehind, NumbersChecked, NumbersFine, NumbersOf
<1>6. InStrings' /\ OutsideStrings' /\ CheckedBehind'
  BY <1>1 DEF InStrings, OutsideStrings, CheckedBehind
<1>7. VisitedFine' /\ KeysInHand' /\ KeysDiffer'
  <2>1. \A i \in NumbersOf(body) : ~(i < 1)
    BY <1>2, DocumentAssumption DEF NumbersOf
  <2>2. 1..(at' - 1) = {}
    BY <1>1
  <2> QED
    BY <1>1, <2>1, <2>2 DEF VisitedFine, KeysInHand, KeysDiffer, NumbersOf
<1>8. ObjectsOpen'
  <2>1. objects = <<>> /\ objects' = <<>> /\ at' - 1 = 0
    BY <1>1 DEF IInv, ObjectsOpen
  <2>2. Depth(body, 0) = 0
    BY NothingOpen
  <2>3. <<>> \in Seq(SUBSET Text) /\ Len(<<>>) = 0
    OBVIOUS
  <2>4. Len(objects') = Depth(body', at' - 1) /\ objects' \in Seq(SUBSET Text)
    BY <1>1, <2>1, <2>2, <2>3
  <2> QED
    BY <1>1, <2>4 DEF ObjectsOpen
<1> QED
  BY <1>3, <1>5, <1>6, <1>7, <1>8 DEF IInv

LEMMA VisitStep ==
  ASSUME IInv, VisitOpen \/ VisitClose \/ VisitKey \/ VisitLeaf
  PROVE  IInv'
<1>1. Steady
  BY DEF IInv, Steady
<1>2. PICK fine \in BOOLEAN :
        /\ Visited(fine)
        /\ fine /\ body[at].is = "number" => VisitNumber(body[at].number)
        /\ fine => \/ body[at].is = "open" /\ objects' = Append(objects, {})
                   \/ body[at].is = "close" /\ objects' = Front(objects)
                   \/ /\ body[at].is = "key" /\ body[at].name.text \notin Last(objects)
                      /\ objects' = [objects EXCEPT ![Len(objects)] = @ \cup {body[at].name.text}]
                   \/ body[at].is \in {"string", "number"} /\ objects' = objects
  <2>1. CASE VisitOpen
    <3>1. /\ Visited(TRUE) /\ body[at].is = "open" /\ objects' = Append(objects, {})
      BY <2>1 DEF VisitOpen, Visiting, Goes, Visited, scanned
    <3> QED
      BY <3>1
  <2>2. CASE VisitClose
    <3>1. /\ Visited(TRUE) /\ body[at].is = "close" /\ objects' = Front(objects)
      BY <2>2 DEF VisitClose, Visiting, Goes, Visited, scanned
    <3> QED
      BY <3>1
  <2>3. CASE VisitKey
    <3>1. PICK ok \in BOOLEAN :
            ok = (body[at].name.text \notin NulText \cup Last(objects))
      OBVIOUS
    <3>2. /\ Visited(ok) /\ body[at].is = "key"
          /\ objects' = [objects EXCEPT ![Len(objects)] = @ \cup {body[at].name.text}]
      BY <2>3, <3>1 DEF VisitKey, Visiting, Goes, Visited, scanned
    <3> QED
      BY <3>1, <3>2
  <2>4. CASE VisitLeaf
    <3>1. PICK ok \in BOOLEAN :
            ok <=> IF body[at].is = "string" THEN body[at].name.text \notin NulText
                   ELSE VisitNumber(body[at].number)
      OBVIOUS
    <3>2. /\ Visited(ok) /\ body[at].is \in {"string", "number"} /\ objects' = objects
      BY <2>4, <3>1 DEF VisitLeaf, Visiting, Goes, Visited, scanned
    <3> QED
      BY <3>1, <3>2
  <2> QED
    BY <2>1, <2>2, <2>3, <2>4
<1>3. Steady'
  BY <1>1, <1>2, VisitSteady
<1>4. ObjectsOpen' /\ KeysInHand' /\ KeysDiffer'
  <2>1. CASE fine
    <3>1. Visited(TRUE)
      BY <1>2, <2>1
    <3> QED
      BY <1>2, <2>1, <3>1, VisitOpenStep, VisitCloseStep, VisitKeyStep, VisitLeafStep
  <2>2. CASE ~fine
    <3>1. verdict' = "refused"
      BY <1>2, <2>2 DEF Visited
    <3> QED
      BY <3>1 DEF ObjectsOpen, KeysInHand, KeysDiffer
  <2> QED
    BY <2>1, <2>2
<1> QED
  BY <1>3, <1>4 DEF IInv, Steady

LEMMA VisitEndsStep ==
  ASSUME IInv, VisitEnds
  PROVE  IInv'
<1>1. /\ verdict = "visit" /\ AtEnd /\ verdict' = "accepted"
      /\ UNCHANGED <<body, at, checked, objects>>
  BY DEF VisitEnds, scanned
<1>2. Placed' /\ InStrings' /\ OutsideStrings' /\ CheckedBehind'
  BY <1>1 DEF IInv, Placed, AtEnd, InStrings, OutsideStrings, CheckedBehind
<1>3. NumbersChecked' /\ NumbersFine' /\ VisitedFine'
  BY <1>1 DEF IInv, NumbersChecked, NumbersFine, VisitedFine, NumbersOf
<1>4. ObjectsOpen' /\ KeysInHand'
  BY <1>1 DEF IInv, ObjectsOpen, KeysInHand
<1>5. KeysDiffer'
  BY <1>1 DEF IInv, KeysDiffer, SameObject
<1> QED
  BY <1>2, <1>3, <1>4, <1>5 DEF IInv

LEMMA InitIInv == Init => IInv
<1> SUFFICES ASSUME Init
             PROVE  IInv
  OBVIOUS
<1>1. /\ body \in Document /\ at = 1 /\ byte = 1 /\ ~inString /\ escaped = FALSE
      /\ token = NoToken /\ checked = {} /\ objects = <<>> /\ verdict = "scan"
  BY DEF Init
<1>2. Len(body) \in Nat \ {0} /\ 1 \in DOMAIN body /\ DOMAIN body = 1..Len(body)
  BY <1>1, DocumentAssumption
<1>3. Placed
  <2>1. 1 \in 1..Len(Written(body, 1))
    BY <1>1, <1>2, WrittenFacts
  <2> QED
    BY <1>1, <1>2, <2>1 DEF Placed, AtEnd
<1>4. InStrings /\ OutsideStrings
  BY <1>1 DEF InStrings, OutsideStrings, Begins
<1>5. CheckedBehind
  BY <1>1, <1>2 DEF CheckedBehind, Behind, NumbersOf
<1> QED
  BY <1>1, <1>3, <1>4, <1>5
     DEF IInv, NumbersChecked, NumbersFine, VisitedFine, ObjectsOpen, KeysInHand, KeysDiffer

LEMMA NextIInv ==
  ASSUME IInv, [Next]_vars
  PROVE  IInv'
<1>1. CASE UNCHANGED vars
  <2>1. UNCHANGED <<body, at, byte, inString, escaped, token, checked, objects, verdict>>
    BY <1>1 DEF vars, scanned
  <2>2. Placed' /\ InStrings' /\ OutsideStrings'
    BY <2>1 DEF IInv, Placed, AtEnd, InStrings, OutsideStrings, NumbersOf
  <2>3. CheckedBehind' /\ NumbersChecked' /\ NumbersFine' /\ VisitedFine'
    BY <2>1 DEF IInv, CheckedBehind, Behind, NumbersChecked, NumbersFine, VisitedFine,
                NumbersOf
  <2>4. ObjectsOpen' /\ KeysInHand' /\ KeysDiffer'
    BY <2>1 DEF IInv, ObjectsOpen, KeysInHand, KeysDiffer, SameObject
  <2> QED
    BY <2>2, <2>3, <2>4 DEF IInv
<1>2. CASE Next
  BY <1>2, ScanStep, ScanEndsStep, VisitStep, VisitEndsStep DEF Next
<1> QED
  BY <1>1, <1>2

\* An accepted number was checked and visited.
LEMMA Accepted ==
  ASSUME IInv, verdict = "accepted", NEW i \in NumbersOf(body)
  PROVE  ParseJsonNumber(body[i].number) /\ VisitNumber(body[i].number)
<1>1. i \in 1..Len(body) /\ at = Len(body) + 1 /\ Len(body) \in Nat
  BY DocumentAssumption DEF IInv, Placed, AtEnd, NumbersOf
<1>2. Slice(i) \in checked
  BY DEF IInv, NumbersChecked
<1> QED
  BY <1>1, <1>2 DEF IInv, NumbersFine, VisitedFine

-----------------------------------------------------------------------------
(* Theorems.                                                               *)

\* While it scans, the reader is where its state says: inside a string, in a
\* number, or between lexemes; while it visits, it has the keys of every open
\* object in hand.
THEOREM Inductive == Spec => []IInv
<1>1. IInv /\ [Next]_vars => IInv'
  BY NextIInv
<1> QED
  BY <1>1, InitIInv, PTL DEF Spec

\* validate_json_number_tokens checks the numbers of every document and nothing
\* else, whatever escapes, quotes and digits stand in its strings.
THEOREM ScanFindsNumbers == Spec => []NumbersChecked
<1>1. IInv => NumbersChecked
  BY DEF IInv
<1> QED
  BY <1>1, Inductive, PTL

\* parse_json_number lets through only what RFC 8785 writes, and an integer, or
\* a float that serde_json reads as str::parse does, is hashed as the number that
\* was sent.
THEOREM HashedAsSent == Spec => []NumbersLossless
<1>1. IInv => NumbersLossless
  <2> SUFFICES ASSUME IInv, verdict = "accepted", NEW i \in NumbersOf(body)
               PROVE  LET n == body[i].number IN
                      /\ Canonical[Round(n.tenths)] = n.tenths
                      /\ AsInteger(n) \/ SerdeFloat[n] = Parsed(n)
                           => Hashed(n) = n.tenths
                      /\ ~ (n.neg /\ Effective(n) = 0)
    BY DEF NumbersLossless
  <2>1. PICK n : n = body[i].number
    OBVIOUS
  <2>2. ParseJsonNumber(n) /\ VisitNumber(n)
    BY <2>1, Accepted
  <2>3. /\ Parsed(n) # Infinity /\ Canonical[Parsed(n)] = n.tenths
        /\ ~ (n.neg /\ Parsed(n) = 0)
    BY <2>2 DEF ParseJsonNumber
  <2>4. Parsed(n) = Round(n.tenths)
    BY <2>3 DEF Parsed
  <2>5. Canonical[Round(n.tenths)] = n.tenths
    BY <2>3, <2>4
  <2>6. CASE AsInteger(n)
    <3>1. Effective(n) = n.tenths /\ Hashed(n) = Canonical[Round(n.tenths)]
      BY <2>6 DEF Effective, Hashed
    <3>2. Parsed(n) = n.tenths
      BY <2>2, <2>4, <2>6 DEF VisitNumber
    <3> QED
      BY <2>1, <2>3, <2>4, <2>5, <3>1, <3>2
  <2>7. CASE ~AsInteger(n)
    <3>1. Effective(n) = SerdeFloat[n] /\ Hashed(n) = Canonical[SerdeFloat[n]]
      BY <2>7 DEF Effective, Hashed
    <3>2. ~ (n.neg /\ SerdeFloat[n] = 0)
      BY <2>2, <2>7 DEF VisitNumber
    <3> QED
      BY <2>1, <2>3, <2>5, <2>7, <3>1, <3>2
  <2> QED
    BY <2>6, <2>7
<1> QED
  BY <1>1, Inductive, PTL

\* An accepted integer is one that binary64 has.
THEOREM IntegersKept == Spec => []IntegersExact
<1>1. IInv => IntegersExact
  <2> SUFFICES ASSUME IInv, verdict = "accepted", NEW i \in NumbersOf(body),
                      AsInteger(body[i].number)
               PROVE  Round(Effective(body[i].number)) = body[i].number.tenths
    BY DEF IntegersExact
  <2>1. PICK n : n = body[i].number
    OBVIOUS
  <2>2. VisitNumber(n) /\ AsInteger(n)
    BY <2>1, Accepted
  <2>3. Round(n.tenths) = n.tenths
    BY <2>2 DEF VisitNumber
  <2>4. Effective(n) = n.tenths
    BY <2>2 DEF Effective
  <2> QED
    BY <2>1, <2>3, <2>4
<1> QED
  BY <1>1, Inductive, PTL

\* visit_map refuses a key given twice in one object, at any depth, also after
\* other objects within it.
THEOREM KeysGivenOnce == Spec => []KeysUnique
<1>1. IInv => KeysUnique
  <2> SUFFICES ASSUME IInv, verdict = "accepted"
               PROVE  KeysUnique
    BY DEF KeysUnique
  <2>1. DOMAIN body = 1..(at - 1)
    BY DocumentAssumption DEF IInv, Placed, AtEnd
  <2> QED
    BY <2>1 DEF IInv, KeysDiffer, KeysUnique
<1> QED
  BY <1>1, Inductive, PTL
=============================================================================
