---------------------------- MODULE PrefixNames -----------------------------
(***************************************************************************)
(* The names XmlWriter::PrefixMapper::GenerateNextPrefix of                *)
(* webutil/xml/xml_writer.cc makes of its counter, as sequences of letters *)
(* 0 (a) to AlphabetSize - 1 (z): a, b, ..., z, aa, ab, ..., az, ba, ...   *)
(***************************************************************************)
EXTENDS Naturals, Sequences

CONSTANT AlphabetSize       \* kAlphabetSize

ASSUME AlphabetAssumption == AlphabetSize \in Nat \ {0, 1}

(* The first loop: how many letters a number takes. *)
NumChars[n \in Nat] ==
    IF n < AlphabetSize THEN 1 ELSE 1 + NumChars[(n \div AlphabetSize) - 1]

(* The second loop: fills the letters from the last one on; having filled  *)
(* the first, it stops whatever is left of the number.                     *)
LettersKept(n, k) ==                                          \* mutant
    LET left[i \in 1..k] == IF i = k THEN n ELSE left[i + 1] \div AlphabetSize
    IN  [i \in 1..k |-> left[i] % AlphabetSize]
Letters(n, k) ==
    LET left[i \in 1..k] == IF i = k THEN n ELSE (left[i + 1] \div AlphabetSize) - 1
    IN  [i \in 1..k |-> left[i] % AlphabetSize]

GenerateNextPrefix(n) == Letters(n, NumChars[n])
=============================================================================
