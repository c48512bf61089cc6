---------------------------- MODULE MCEvidencePack ----------------------------
(***************************************************************************)
(* TLC instance of EvidencePack.                                           *)
(***************************************************************************)
EXTENDS EvidencePack

Num(kind, neg, digits, n) ==
  [kind |-> kind, neg |-> neg, digits |-> digits, n |-> n]

(* On both sides of each boundary: -6 and 21 of ECMAScript, -4 and 16 of   *)
(* Python, 0 and the number of digits; exponents of one digit and of two.  *)
Floats ==
  {Num("float", FALSE, d, n) :
     d \in {<<1>>, <<1, 5>>}, n \in {-9, -6, -5, -4, -3, 0, 1, 2, 16, 17, 21, 22}}
  \cup {Num("float", b, <<0>>, 1) : b \in BOOLEAN}
  \cup {Num("float", TRUE, <<1>>, 1)}

(* Ints up to the largest safe one, and the one after it. *)
Ints ==
  {Num("int", FALSE, <<0>>, 1), Num("int", TRUE, <<1>>, 1),
   Num("int", FALSE, <<1>>, 1), Num("int", FALSE, <<1, 5>>, 2),
   Num("int", FALSE, MaxSafeInteger, 16),
   Num("int", FALSE, [MaxSafeInteger EXCEPT ![16] = 2], 16)}

(* The text "1", true and NaN. *)
Others == {Num(kind, FALSE, <<1>>, 1) : kind \in {"text", "bool", "nan"}}

MCValues == Floats \cup Ints \cup Others

(* A letter, a ligature of the Basic Multilingual Plane, and a character   *)
(* of two surrogates.                                                      *)
MCKeys == {65, 128512}

(* Two fields; the key of the second is the ligature, its value a float or *)
(* an int of the same number, or a text.                                   *)
MCPacks ==
  {<<[key |-> k, value |-> v], [key |-> 64256, value |-> w]>> :
     k \in MCKeys, v \in MCValues,
     w \in {Num(kind, FALSE, <<1>>, 1) : kind \in {"float", "int", "text"}}}
=============================================================================
