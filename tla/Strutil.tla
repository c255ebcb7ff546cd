------------------------------ MODULE Strutil -------------------------------
(***************************************************************************)
(* The string functions of strings/strutil.cc as operators on sequences of *)
(* bytes.  C strings end at a byte 0, std::string does not.  Positions     *)
(* count from 1, and 0 stands for string::npos.                            *)
(***************************************************************************)
EXTENDS Integers, Sequences, SequencesExt, FiniteSetsExt

Backslash == 92
QuestionMark == 63
Zero == 48

IsPrint(c) == c \in 32..126
IsSpace(c) == c = 32 \/ c \in 9..13
OctalDigits == Zero..(Zero + 7)
HexDigits == (48..57) \cup (65..70) \cup (97..102)

FirstIn(S) == IF S = {} THEN 0 ELSE Min(S)
Find(s, sub, from) == FirstIn({i \in from..(Len(s) - Len(sub) + 1) :
                                  SubSeq(s, i, i + Len(sub) - 1) = sub})
FindFirstOf(s, chars, from) == FirstIn({i \in from..Len(s) : s[i] \in chars})
FindFirstNotOf(s, chars, from) == FirstIn({i \in from..Len(s) : s[i] \notin chars})

-----------------------------------------------------------------------------
(* The text with the first, or every, occurrence of old replaced by new.   *)
StringReplaceRescan(s, old, new, all) ==                      \* mutant
    LET Rest[start \in 1..(Len(s) + 1)] ==
            LET pos == IF start = 1 \/ all THEN Find(s, old, start) ELSE 0
            IN  IF pos = 0 THEN SubSeq(s, start, Len(s))
                ELSE SubSeq(s, start, pos - 1) \o new \o Rest[pos + 1]
    IN  IF old = << >> THEN s ELSE Rest[1]
StringReplace(s, old, new, all) ==
    LET Rest[start \in 1..(Len(s) + 1)] ==
            LET pos == IF start = 1 \/ all THEN Find(s, old, start) ELSE 0
            IN  IF pos = 0 THEN SubSeq(s, start, Len(s))
                ELSE SubSeq(s, start, pos - 1) \o new \o Rest[pos + Len(old)]
    IN  IF old = << >> THEN s ELSE Rest[1]

(* The loop for a single delimiter: from every byte that is not the        *)
(* delimiter, on to the next one that is, or to the end.                   *)
SplitAt(full, c) ==
    LET Pieces[p \in 1..(Len(full) + 1)] ==
            IF p > Len(full) THEN << >>
            ELSE IF full[p] = c THEN Pieces[p + 1]
            ELSE LET end == Min({q \in (p + 1)..(Len(full) + 1) :
                                     q > Len(full) \/ full[q] = c})
                 IN  << SubSeq(full, p, end - 1) >> \o Pieces[end]
    IN  Pieces[1]

(* The loop for any other set of delimiters.                               *)
SplitAtAny(full, chars) ==
    LET Pieces[begin \in 0..Len(full)] ==
            LET end == FindFirstOf(full, chars, begin)
            IN  IF begin = 0 THEN << >>
                ELSE IF end = 0 THEN << SubSeq(full, begin, Len(full)) >>
                ELSE << SubSeq(full, begin, end - 1) >>
                     \o Pieces[FindFirstNotOf(full, chars, end)]
    IN  Pieces[FindFirstNotOf(full, chars, 1)]

SplitStringUsing(full, delim) ==
    IF Len(delim) = 1 THEN SplitAt(full, delim[1]) ELSE SplitAtAny(full, ToSet(delim))

JoinStrings(components, delim) ==
    FlattenSeq([i \in DOMAIN components |->
                   IF i = 1 THEN components[i] ELSE delim \o components[i]])

(* Both indices of the code: first after the leading white space, last     *)
(* before the trailing white space of what that leaves.                    *)
StripWhitespace(str) ==
    LET first == FirstIn({i \in 1..Len(str) : ~IsSpace(str[i])})
        last  == Max({i \in first..Len(str) : ~IsSpace(str[i])})
    IN  IF first = 0 THEN << >> ELSE SubSeq(str, first, last)

-----------------------------------------------------------------------------
(* What a byte is written as after a backslash, and what the reader makes  *)
(* of a letter there: it knows more letters than the writer uses.  Quotes, *)
(* the backslash and the question mark stand for themselves.               *)
EscapeLetter == [c \in {10, 13, 9, 34, 39, 92} |->
    CASE c = 10 -> 110 [] c = 13 -> 114 [] c = 9 -> 116 [] OTHER -> c]
Unescaped == [c \in {97, 98, 102, 110, 114, 116, 118, 92, QuestionMark, 39, 34} |->
    CASE c = 97 -> 7 [] c = 98 -> 8 [] c = 102 -> 12 [] c = 110 -> 10 [] c = 114 -> 13
      [] c = 116 -> 9 [] c = 118 -> 11 [] OTHER -> c]

(* The formats \x%02x and \%03o. *)
HexDigit(d) == IF d < 10 THEN Zero + d ELSE 87 + d
NumericEscape(c, useHex) ==
    IF useHex THEN << Backslash, 120, HexDigit(c \div 16), HexDigit(c % 16) >>
    ELSE << Backslash, Zero + c \div 64, Zero + ((c \div 8) % 8), Zero + (c % 8) >>

(* A hex digit after a hex escape would be read as part of it, so that it  *)
(* is escaped as well.                                                     *)
MustEscapeByItself(c, afterHexEscape, utf8Safe) ==            \* mutant
    (~utf8Safe \/ c < 128) /\ ~IsPrint(c)
MustEscape(c, afterHexEscape, utf8Safe) ==
    (~utf8Safe \/ c < 128) /\ (~IsPrint(c) \/ (afterHexEscape /\ c \in HexDigits))

HasRoom(room, used) == room - used >= 2

(* What is written so far, whether a hex escape was last, and whether all  *)
(* of it fitted, after one more byte.                                      *)
EscapeByte(before, c, room, useHex, utf8Safe) ==
    IF ~before.fits \/ ~HasRoom(room, Len(before.dest))
    THEN [before EXCEPT !.fits = FALSE]
    ELSE IF c \in DOMAIN EscapeLetter
    THEN [dest |-> before.dest \o << Backslash, EscapeLetter[c] >>,
          hex |-> FALSE, fits |-> TRUE]
    ELSE IF ~MustEscape(c, before.hex, utf8Safe)
    THEN [dest |-> Append(before.dest, c), hex |-> FALSE, fits |-> TRUE]
    ELSE IF room - Len(before.dest) < 4
    THEN [before EXCEPT !.fits = FALSE]
    ELSE [dest |-> before.dest \o NumericEscape(c, useHex),
          hex |-> useHex, fits |-> TRUE]

(* What is written into a buffer of room bytes, and whether all of it and  *)
(* the closing 0 fitted.                                                   *)
CEscapeInternal(src, room, useHex, utf8Safe) ==
    LET After[i \in 0..Len(src)] ==
            IF i = 0 THEN [dest |-> << >>, hex |-> FALSE, fits |-> TRUE]
            ELSE EscapeByte(After[i - 1], src[i], room, useHex, utf8Safe)
        done == After[Len(src)]
    IN  [dest |-> done.dest, fits |-> done.fits /\ room > Len(done.dest)]

MaximumExpansion(src) == 4 * Len(src) + 1
CEscape(src) == CEscapeInternal(src, MaximumExpansion(src), FALSE, FALSE)
Utf8SafeCEscape(src) == CEscapeInternal(src, MaximumExpansion(src), FALSE, TRUE)
CHexEscape(src) == CEscapeInternal(src, MaximumExpansion(src), TRUE, FALSE)

hex_digit_to_int(c) == (IF c > 57 THEN c + 9 ELSE c) % 16
ByteOf(digits, base) ==
    LET Read[i \in 0..Len(digits)] ==
            IF i = 0 THEN 0 ELSE (base * Read[i - 1] + hex_digit_to_int(digits[i])) % 256
    IN  Read[Len(digits)]

(* The byte at a position, 0 from the end on, and the last byte of the     *)
(* longest run from a position on that is of some bytes and of a length.   *)
At(s, p) == IF p > Len(s) THEN 0 ELSE s[p]
LastOfRun(s, from, bytes, most) ==
    Max({q \in (from - 1)..(from + most - 1) : \A i \in from..q : At(s, i) \in bytes})

(* Wrong escapes are dropped, with a message in the log; a backslash at    *)
(* the end, of the text or before a 0 in it, ends the reading.             *)
UnescapeCEscapeSequences(source) ==
    LET Rest[p \in 1..(Len(source) + 2)] ==
        LET escape == At(source, p + 1)
            octal  == LastOfRun(source, p + 1, OctalDigits, 3)
            hex    == LastOfRun(source, p + 2, HexDigits, Len(source))
        IN  IF At(source, p) = 0 THEN << >>
            ELSE IF source[p] # Backslash THEN << source[p] >> \o Rest[p + 1]
            ELSE IF escape \in DOMAIN Unescaped THEN << Unescaped[escape] >> \o Rest[p + 2]
            ELSE IF escape \in OctalDigits
            THEN << ByteOf(SubSeq(source, p + 1, octal), 8) >> \o Rest[octal + 1]
            ELSE IF escape \in {88, 120}
            THEN (IF hex = p + 1 THEN << >> ELSE << ByteOf(SubSeq(source, p + 2, hex), 16) >>)
                 \o Rest[hex + 1]
            ELSE IF escape = 0 THEN << >>
            ELSE Rest[p + 2]
    IN  Rest[1]
=============================================================================
