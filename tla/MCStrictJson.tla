---------------------------- MODULE MCStrictJson ----------------------------
(* Bodies for StrictJson: every two numbers, and keys and strings that look *)
(* like the end of a string or like a number.                               *)
EXTENDS StrictJson

LOCAL Says(bytes, text) == [bytes |-> bytes, text |-> text]
LOCAL Plain == Says(<<"other">>, "plain")
LOCAL Escape == Says(<<"backslash", "quote", "digit">>, "escape")
LOCAL Slash == Says(<<"minus", "backslash", "backslash">>, "slash")
LOCAL Nul == Says(<<"backslash", "other", "digit">>, "nul")
\* Plain once more, by its code.
LOCAL Coded == Says(<<"backslash", "other", "digit", "digit">>, "plain")
MCName == {Plain, Escape, Slash, Nul, Coded}
MCText == {"plain", "escape", "slash", "nul"}
MCNulText == {"nul"}

MCNumber ==
  {n \in [neg: BOOLEAN,
          tenths: {0, 2, 5, 70, 90, 300, 320, 400, 560, 600, 1000, 2000},
          spelling: {"integer", "fraction", "exponent"}] :
     n.spelling = "integer" => n.tenths % 10 = 0}

\* serde_json is off by one float at a few numbers, down to zero and up to the
\* infinite.
MCSerdeFloat ==
  [n \in Number |->
     IF n.spelling # "exponent" THEN Parsed(n)
     ELSE CASE n.tenths = 5 -> 0
            [] n.tenths = 560 -> 640
            [] n.tenths = 1000 -> IF n.neg THEN Infinity ELSE 1120
            [] OTHER -> Parsed(n)]

LOCAL O == [is |-> "open"]
LOCAL C == [is |-> "close"]
LOCAL K(name) == [is |-> "key", name |-> name]
LOCAL S(name) == [is |-> "string", name |-> name]
LOCAL N(n) == [is |-> "number", number |-> n]
LOCAL Seven == [neg |-> FALSE, tenths |-> 70, spelling |-> "integer"]

MCDocument ==
  {<<N(n)>> : n \in MCNumber} \cup
  {<<O, K(Plain), N(m), K(Escape), N(n), C>> : m, n \in MCNumber} \cup
  {<<O, K(a), S(b), K(c), N(Seven), C>> : a, b, c \in MCName} \cup
  {<<O, K(a), O, K(b), N(Seven), K(c), S(Slash), C, K(d), O, C, C>> :
     a, b, c, d \in MCName}
=============================================================================
