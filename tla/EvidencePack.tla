----------------------------- MODULE EvidencePack -----------------------------
(***************************************************************************)
(* Evidence packs on their way from MTCP, which has migrated to RFC 8785   *)
(* or has not, to mtcp.verify_evidence_pack.  On the way a pack passes     *)
(* programs that read it and write it again: they may reorder its fields,  *)
(* and spell a number as an int or as a float.  A value may also be        *)
(* altered, and the hash lost.                                             *)
(*                                                                         *)
(* The issuer that has migrated is no program of this repository: it is an *)
(* ECMAScript implementation, defined here apart from jcs.py.  The hash of *)
(* a form is a term, so two forms never have the same SHA-256.             *)
(***************************************************************************)
EXTENDS Canonicalization

CONSTANTS
  Packs,      \* the packs MTCP may issue, sequences of fields [key, value]
  Values,     \* the values a field may be altered to
  MaxChanges  \* bound on the changes to a pack under way

ASSUME PackBounds == MaxChanges \in Nat

WellFormed(fs) == fs \in Seq([key : CodePoints, value : JsonValues])

(* A pack is a JSON object: no key occurs twice. *)
ASSUME PacksAssumption ==
  /\ Values \subseteq JsonValues
  /\ \A p \in Packs :
       /\ WellFormed(p)
       /\ Keys(p) \cap Surrogates = {}
       /\ \A i, j \in DOMAIN p : p[i].key = p[j].key => i = j

VARIABLES
  pack,     \* the fields and the scheme of the pack MTCP issued
  fields,   \* the fields as they have arrived
  hash,     \* the hash it carries, or NoPackHash
  changes   \* how often the pack was changed

packVars == <<pack, fields, hash, changes>>

-----------------------------------------------------------------------------
(* ECMAScript's Number::toString and order of keys. *)
EcmaText(value) ==
  CASE Number(value) /\ value.digits = <<0>> ->
         [PythonInt(value) EXCEPT !.neg = FALSE]
    [] Number(value) /\ value.digits # <<0>> /\ value.n \in -5..21 ->
         Written(value, Whole(value), Fraction(value), <<>>)
    [] Number(value) /\ value.digits # <<0>> /\ value.n \notin -5..21 ->
         Written(value, <<Head(value.digits)>>, Tail(value.digits),
                 <<value.n - 1, 0>>)
    [] OTHER -> Written(value, value.digits, <<>>, <<>>)

EcmaForm(fs) ==
  LET Place(key) ==
        Cardinality({k \in Keys(fs) : Before(CodeUnits(k), CodeUnits(key))})
  IN  {<<Place(f.key), f.key, EcmaText(f.value)>> : f \in ToSet(fs)}

-----------------------------------------------------------------------------
(* The hex digest of the form, and the empty text. *)
PackHash(form) == <<form>>
NoPackHash == <<>>

(* Mutant: the legacy convention is tried first. *)
VerifyLegacyFirst ==
  CASE \E i \in DOMAIN fields : Raises(fields[i].value) -> "JCSError"
    [] OTHER ->
         IF hash = PackHash(CanonicalJson(fields)) THEN "mtcp-legacy"
         ELSE IF hash = PackHash(Canonicalize(fields)) THEN "rfc8785" ELSE ""

(* verify_evidence_pack: the canonicalization reported, empty where the    *)
(* pack is not valid.  The conformant hash is computed first, and raises.  *)
Verify ==
  CASE \E i \in DOMAIN fields : Raises(fields[i].value) -> "JCSError"
    [] OTHER ->
         IF hash = PackHash(Canonicalize(fields)) THEN "rfc8785"
         ELSE IF hash = PackHash(CanonicalJson(fields)) THEN "mtcp-legacy" ELSE ""

-----------------------------------------------------------------------------
(* MTCP issues a pack.  No ECMAScript program holds an int beyond the      *)
(* doubles, or writes NaN into a pack.                                     *)
PackInit ==
  /\ pack \in [fields : Packs, scheme : {"rfc8785", "mtcp-legacy"}]
  /\ pack.scheme = "rfc8785" =>
       \A i \in DOMAIN pack.fields : ~Raises(pack.fields[i].value)
  /\ fields = pack.fields
  /\ hash = PackHash(IF pack.scheme = "rfc8785" THEN EcmaForm(fields)
                     ELSE CanonicalJson(fields))
  /\ changes = 0

Change ==
  /\ changes < MaxChanges
  /\ changes' = changes + 1
  /\ UNCHANGED pack

Reorder ==
  /\ Change
  /\ fields' = Reverse(fields)
  /\ UNCHANGED hash

(* The float of an int, or the int of a float that has no fraction. *)
Respell(i) ==
  LET value == fields[i].value
  IN  /\ Change
      /\ Number(value) /\ Fraction(value) = <<>>
      /\ \E kind \in {"int", "float"} \ {value.kind} :
           fields' = [fields EXCEPT
             ![i].value = [value EXCEPT !.kind = kind,
                                        !.neg = @ /\ value.digits # <<0>>]]
      /\ UNCHANGED hash

Alter(i, value) ==
  /\ Change
  /\ fields' = [fields EXCEPT ![i].value = value]
  /\ UNCHANGED hash

LoseHash ==
  /\ Change
  /\ hash' = NoPackHash
  /\ UNCHANGED fields

PackNext ==
  \/ Reorder
  \/ \E i \in DOMAIN fields : Respell(i)
  \/ \E i \in DOMAIN fields, value \in Values : Alter(i, value)
  \/ LoseHash

PackSpec == PackInit /\ [][PackNext]_packVars

-----------------------------------------------------------------------------
(* The number a value stands for, however spelled; minus zero is zero.     *)
Meaning(value) ==
  <<IF Number(value) THEN "number" ELSE value.kind,
    value.neg /\ value.digits # <<0>>, value.digits, value.n>>

Meanings(fs) == {<<fs[i].key, Meaning(fs[i].value)>> : i \in DOMAIN fs}

(* A pack that verifies, under either canonicalization, has the values     *)
(* that were issued: trying both loses no integrity, and no two numbers    *)
(* share a spelling (verify_evidence_pack, _es_number_to_string).          *)
ValidPackHasTheIssuedValues ==
  Verify \in {"rfc8785", "mtcp-legacy"} => Meanings(fields) = Meanings(pack.fields)

(* A pack of an issuer that has migrated verifies, under the scheme it was *)
(* issued under, in whatever order and spelling its values arrive, as long *)
(* as jcs.py accepts each: an independent implementation derives the same  *)
(* bytes from the same data (jcs.py, verify_evidence_pack).                *)
RelayedPackVerifies ==
  /\ pack.scheme = "rfc8785" /\ hash # NoPackHash
  /\ Meanings(fields) = Meanings(pack.fields)
  /\ \A i \in DOMAIN fields : ~Raises(fields[i].value)
  => Verify = "rfc8785"

(* The legacy convention is reported only of packs issued under it, whose  *)
(* every value is still spelled as issued; and a pack issued under it      *)
(* verifies as long as that holds and jcs.py accepts its values            *)
(* (verify_evidence_pack: which one matched is reported).                  *)
LegacyIsReportedOfLegacy ==
  LET asIssued == /\ pack.scheme = "mtcp-legacy" /\ hash # NoPackHash
                  /\ ToSet(fields) = ToSet(pack.fields)
  IN  /\ Verify = "mtcp-legacy" => asIssued
      /\ asIssued => Verify # ""
=============================================================================
