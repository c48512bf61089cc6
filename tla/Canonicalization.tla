--------------------------- MODULE Canonicalization ---------------------------
(***************************************************************************)
(* The two canonical forms of a flat JSON object: RFC 8785 as jcs.py       *)
(* writes it, and the legacy form of mtcp.canonical_json.                  *)
(*                                                                         *)
(* A value is [kind, neg, digits, n].  The number it stands for is         *)
(* 0.d1d2... * 10^n, with no zero at either end of its digits except for   *)
(* the number zero, <<0>> with n = 1; an int and a float may stand for the *)
(* same number.  Of the other values (texts, booleans, NaN) the digits are *)
(* an identity.  What is written keeps everything that tells two           *)
(* serializations apart: [kind, neg, whole, fraction, exp], where exp is   *)
(* empty or an exponent and the zeros it is padded with.  The escapes      *)
(* inside a string are left out: they are injective.                       *)
(*                                                                         *)
(* The keys of an object are distinct, so a key has the place in sorted    *)
(* order that is the number of keys before it.  A canonical form is the    *)
(* set of its members, each with its place.                                *)
(***************************************************************************)
EXTENDS Integers, Sequences, SequencesExt, FiniteSets

Number(value) == value.kind \in {"int", "float"}

JsonValues ==
  {v \in [kind : {"int", "float", "text", "bool", "nan"}, neg : BOOLEAN,
          digits : Seq(0..9), n : Int] :
     /\ IF Number(v)
        THEN \/ v.digits = <<0>> /\ v.n = 1
             \/ /\ v.digits # <<>>
                /\ v.digits[1] # 0 /\ v.digits[Len(v.digits)] # 0
        ELSE ~v.neg /\ v.n = 1
     /\ v.kind = "int" => Len(v.digits) <= v.n /\ (v.digits = <<0>> => ~v.neg)}

(* "a" comes before "b" where they differ first, or is its beginning. *)
Before(a, b) ==
  \E i \in 1..Len(b) :
    /\ \A j \in 1..(i - 1) : j <= Len(a) /\ a[j] = b[j]
    /\ i > Len(a) \/ a[i] < b[i]

Zeros(count) == [i \in 1..count |-> 0]

Written(value, whole, fraction, exp) ==
  [kind |-> IF Number(value) THEN "number" ELSE value.kind,
   neg |-> value.neg, whole |-> whole, fraction |-> fraction, exp |-> exp]

-----------------------------------------------------------------------------
(* Python's str of an int and repr of a float.                             *)
Digit(value, i) == IF i \in DOMAIN value.digits THEN value.digits[i] ELSE 0

Whole(value) ==
  IF value.n >= 1 THEN [i \in 1..value.n |-> Digit(value, i)] ELSE <<0>>

Fraction(value) ==
  IF value.n >= Len(value.digits) THEN <<>>
  ELSE [i \in 1..(Len(value.digits) - value.n) |-> Digit(value, value.n + i)]

PythonInt(value) == Written(value, Whole(value), <<>>, <<>>)

PythonFloat(value) ==
  IF -4 < value.n /\ value.n <= 16
  THEN Written(value, Whole(value),
               IF Fraction(value) = <<>> THEN <<0>> ELSE Fraction(value), <<>>)
  ELSE Written(value, <<Head(value.digits)>>, Tail(value.digits),
               <<value.n - 1, IF value.n - 1 \in -9..9 THEN 1 ELSE 0>>)

-----------------------------------------------------------------------------
(* _es_number_to_string: the digits of the Decimal of the repr, leading    *)
(* zeros dropped as Decimal does, ...                                      *)
Significant(written) ==
  LET all == written.whole \o written.fraction
      from == CHOOSE i \in DOMAIN all :
                all[i] # 0 /\ \A j \in 1..(i - 1) : all[j] = 0
  IN  SubSeq(all, from, Len(all))

Exponent(written) ==
  (IF written.exp = <<>> THEN 0 ELSE written.exp[1]) - Len(written.fraction)

(* Mutant: the trailing zeros of the repr count as digits. *)
TrailingKept(digits) == 0

(* ... and how many trailing ones are folded into the exponent.            *)
Trailing(digits) ==
  CHOOSE t \in 0..(Len(digits) - 1) :
    /\ digits[Len(digits) - t] # 0
    /\ \A j \in (Len(digits) - t + 1)..Len(digits) : digits[j] = 0

(* Mutant: small numbers lose the zeros after the point. *)
LayoutUnpadded(value, s, n) ==
  CASE Len(s) <= n /\ n <= 21 ->
         Written(value, s \o Zeros(n - Len(s)), <<>>, <<>>)
    [] n < Len(s) /\ 0 < n /\ n <= 21 ->
         Written(value, SubSeq(s, 1, n), SubSeq(s, n + 1, Len(s)), <<>>)
    [] -6 < n /\ n <= 0 -> Written(value, <<0>>, s, <<>>)
    [] OTHER -> Written(value, <<s[1]>>, Tail(s), <<n - 1, 0>>)

(* The layout of the digits s with the decimal point after the n-th.       *)
Layout(value, s, n) ==
  CASE Len(s) <= n /\ n <= 21 ->
         Written(value, s \o Zeros(n - Len(s)), <<>>, <<>>)
    [] n < Len(s) /\ 0 < n /\ n <= 21 ->
         Written(value, SubSeq(s, 1, n), SubSeq(s, n + 1, Len(s)), <<>>)
    [] -6 < n /\ n <= 0 -> Written(value, <<0>>, Zeros(-n) \o s, <<>>)
    [] OTHER -> Written(value, <<s[1]>>, Tail(s), <<n - 1, 0>>)

EsNumberToString(value) ==
  LET digits == Significant(PythonFloat(value))
      t == Trailing(digits)
      s == SubSeq(digits, 1, Len(digits) - t)
  IN  Layout(value, s, Exponent(PythonFloat(value)) + t + Len(s))

-----------------------------------------------------------------------------
(* 2^53 - 1 *)
MaxSafeInteger == <<9, 0, 0, 7, 1, 9, 9, 2, 5, 4, 7, 4, 0, 9, 9, 1>>

(* canonicalize raises JCSError. *)
Raises(value) ==
  \/ value.kind = "nan"
  \/ /\ value.kind = "int"
     /\ value.n > 16 \/ (value.n = 16 /\ Before(MaxSafeInteger, value.digits))

(* _serialize *)
Serialize(value) ==
  CASE value.kind = "int" -> PythonInt(value)
    [] value.kind = "float" /\ value.digits = <<0>> ->
         [PythonInt(value) EXCEPT !.neg = FALSE]
    [] value.kind = "float" /\ value.digits # <<0>> -> EsNumberToString(value)
    [] OTHER -> Written(value, value.digits, <<>>, <<>>)

(* json.dumps, which also writes NaN. *)
Dumps(value) ==
  CASE value.kind = "int" -> PythonInt(value)
    [] value.kind = "float" -> PythonFloat(value)
    [] OTHER -> Written(value, value.digits, <<>>, <<>>)

-----------------------------------------------------------------------------
(* A key of one character is its code point; the surrogates are none.      *)
(* UTF-16 has one code unit for it, or two surrogates.                     *)
CodePoints == {c \in Nat : c <= 1114111}
Surrogates == 55296..57343

CodeUnits(key) ==
  IF key < 65536 THEN <<key>>
  ELSE <<55296 + ((key - 65536) \div 1024), 56320 + ((key - 65536) % 1024)>>

(* Mutant: the low byte of each code unit first. *)
BytesLittleEndian(key) ==
  LET units == CodeUnits(key)
  IN  [i \in 1..(2 * Len(units)) |->
         IF i % 2 = 1 THEN units[(i + 1) \div 2] % 256
         ELSE units[i \div 2] \div 256]

(* encode("utf-16-be") *)
Bytes(key) ==
  LET units == CodeUnits(key)
  IN  [i \in 1..(2 * Len(units)) |->
         IF i % 2 = 1 THEN units[(i + 1) \div 2] \div 256
         ELSE units[i \div 2] % 256]

Keys(fields) == {fields[i].key : i \in DOMAIN fields}

(* canonicalize, of an object without a value that raises *)
Canonicalize(fields) ==
  LET Place(key) ==
        Cardinality({k \in Keys(fields) : Before(Bytes(k), Bytes(key))})
  IN  {<<Place(f.key), f.key, Serialize(f.value)>> : f \in ToSet(fields)}

(* canonical_json *)
CanonicalJson(fields) ==
  LET Place(key) == Cardinality({k \in Keys(fields) : k < key})
  IN  {<<Place(f.key), f.key, Dumps(f.value)>> : f \in ToSet(fields)}
=============================================================================
