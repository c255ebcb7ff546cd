----------------------------- MODULE Selections -----------------------------
(* Loops over a list that keep some of its elements, in their order, and   *)
(* loops that put lists one after the other.                               *)
EXTENDS Naturals, Sequences

Elements(s) == {s[i] : i \in DOMAIN s}

Only(s, T) ==
    LET Upto[n \in 0..Len(s)] ==
            IF n = 0 THEN << >>
            ELSE IF s[n] \in T THEN Append(Upto[n - 1], s[n]) ELSE Upto[n - 1]
    IN  Upto[Len(s)]

Together(lists) ==
    LET Upto[n \in 0..Len(lists)] ==
            IF n = 0 THEN << >> ELSE Upto[n - 1] \o lists[n]
    IN  Upto[Len(lists)]
=============================================================================
