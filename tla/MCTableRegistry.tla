--------------------------- MODULE MCTableRegistry ---------------------------
(***************************************************************************)
(* TLC instances of TableRegistry.                                         *)
(***************************************************************************)
EXTENDS TableRegistry, TLC

Key(id, version) == [id |-> id, version |-> version]

(* The id "t--u" with two versions that order differently as numbers and   *)
(* as texts, and the id "t" with a version "u--1.9", which is no number    *)
(* and shares its file with "t--u" and "1.9".                              *)
V19 == << <<"1", "9">> >>
V110 == << <<"1", "10">> >>
U19 == << <<"u">>, <<"1", "9">> >>

OneKey == {Key(<< <<"t">>, <<"u">> >>, V19)}

MCKeys ==
  {Key(<< <<"t">>, <<"u">> >>, V19), Key(<< <<"t">>, <<"u">> >>, V110),
   Key(<< <<"t">> >>, U19)}

MCParts == {"t", "u", "1", "9", "10"}

MCNumber(part) ==
  CASE part = "1" -> 1
    [] part = "9" -> 9
    [] part = "10" -> 10
    [] OTHER -> NotDigits

(* "1.10" < "1.9" < "u--1.9" *)
MCTextRank(version) == CHOOSE i \in 1..3 : <<V110, V19, U19>>[i] = version

(* The names of files, in sorted order. *)
Names ==
  << << <<"t">>, <<"u">>, <<"1", "10">> >>,
     << <<"t">>, <<"u">>, <<"1", "9">> >> >>

MCFileRank(file) == CHOOSE i \in DOMAIN Names : Names[i] = file

TableSymmetry == Permutations(Tables) \cup Permutations(Processes)
=============================================================================
