------------------------------ MODULE Numerals ------------------------------
(***************************************************************************)
(* The conversions of numbers to text of strings/strutil.cc, and the       *)
(* buffer of base/stringprintf.cc that grows until a text fits.  A text of *)
(* a number is a sequence of digits 0 to 9 and of other marks.  Integers   *)
(* are those of TLC, of 32 bits with a sign, which are the code's int32.   *)
(***************************************************************************)
EXTENDS Integers, Sequences, SequencesExt, FiniteSetsExt

Minus == 45
Point == 46
Exponent == 101

-----------------------------------------------------------------------------
(* The do-while loops that write digits backwards. *)
Digits[n \in Nat] == IF n < 10 THEN << n >> ELSE Append(Digits[n \div 10], n % 10)

(* The smallest integer has no opposite of its width: the last digit of a  *)
(* negative one is taken after ten is added, and given back to the rest.   *)
FastInt32ToBuffer(i) ==
    IF i >= 0 THEN Digits[i]
    ELSE IF i > -10 THEN << Minus, -i >>
    ELSE LET opposite == -(i + 10)
         IN  << Minus >> \o Digits[(opposite \div 10) + 1] \o << opposite % 10 >>

(* The labels lt100, lt10_000, ... from the k-th on: two digits at a time, *)
(* then the remainder to the label below; and the jumps to them.           *)
Unit == << 1, 100, 10000, 1000000, 100000000 >>
LessThan[k \in 0..Len(Unit)] ==
    [u \in Nat |->
        IF k = 0 THEN << >>
        ELSE LET digits == u \div Unit[k]
             IN  << digits \div 10, digits % 10 >> \o LessThan[k - 1][u - digits * Unit[k]]]
JumpsToPair(u, k) == u > 10 * Unit[k]                         \* mutant
JumpsTo(u, k) == u >= 10 * Unit[k]
FastUInt32ToBufferLeft(u) ==
    LET k == Max({1} \cup {j \in 1..Len(Unit) : Unit[j] <= u})
        digits == u \div Unit[k]
    IN  IF JumpsTo(u, k) THEN LessThan[k][u]
        ELSE << digits >> \o LessThan[k - 1][u - digits * Unit[k]]

Hex[n \in Nat] == IF n < 16 THEN << n >> ELSE Append(Hex[n \div 16], n % 16)
FastHexToBuffer(i) == Hex[i]

(* Padded to num_byte digits; what is above them is cut off. *)
InternalFastHexToBuffer(value, num_byte) ==
    LET left[i \in 1..num_byte] == IF i = num_byte THEN value ELSE left[i + 1] \div 16
    IN  [i \in 1..num_byte |-> left[i] % 16]

-----------------------------------------------------------------------------
(* A number of the C library in a locale: digits, the locale's radix mark  *)
(* of one or more bytes, and digits; an exponent and a sign are of the     *)
(* characters of a number too.                                             *)
IsValidFloatChar(c) == c \in (0..9) \cup {Minus, Exponent}

(* The first byte that is of no number becomes the point, and the rest of  *)
(* its kind are dropped.                                                   *)
DelocalizeOneByte(buffer) ==                                  \* mutant
    LET marks == {i \in 1..Len(buffer) : ~IsValidFloatChar(buffer[i])}
    IN  IF marks = {} THEN buffer ELSE [buffer EXCEPT ![Min(marks)] = Point]
DelocalizeRadix(buffer) ==
    LET marks == {i \in 1..Len(buffer) : ~IsValidFloatChar(buffer[i])}
        after == {i \in (Min(marks) + 1)..Len(buffer) : IsValidFloatChar(buffer[i])}
    IN  IF marks = {} \/ Point \in ToSet(buffer) THEN buffer
        ELSE SubSeq(buffer, 1, Min(marks) - 1) \o << Point >>
             \o SubSeq(buffer, Min(after \cup {Len(buffer) + 1}), Len(buffer))

(* How many bytes of a text strtod of a locale with this radix reads.      *)
Strtod(text, radix) ==
    LET Number(t) == \E i \in 0..Len(t) :
            /\ ToSet(SubSeq(t, 1, i)) \subseteq 0..9
            /\ \/ i = Len(t)
               \/ /\ IsPrefix(radix, SubSeq(t, i + 1, Len(t)))
                  /\ ToSet(SubSeq(t, i + Len(radix) + 1, Len(t))) \subseteq 0..9
                  /\ Len(t) > Len(radix)
    IN  Max({n \in 0..Len(text) : Number(SubSeq(text, 1, n))})

(* The text read at last and the number of bytes of the original that the  *)
(* caller is told were read.                                               *)
NoLocaleStrtod(text, radix) ==
    LET end == Strtod(text, radix)
        localized == SubSeq(text, 1, end) \o radix \o SubSeq(text, end + 2, Len(text))
        again == Strtod(localized, radix)
        sizeDiff == Len(localized) - Len(text)
    IN  IF end = Len(text) \/ text[end + 1] # Point
        THEN [read |-> SubSeq(text, 1, end), end |-> end]
        ELSE [read |-> SubSeq(localized, 1, again),
              end |-> IF again > end THEN again - sizeDiff ELSE end]

-----------------------------------------------------------------------------
(* strtol of the number a text denotes, where long has this maximum; errno *)
(* is "ERANGE" or what it was before.                                      *)
Strtol(value, longMax, errno) ==
    IF value \in (-longMax - 1)..longMax THEN [result |-> value, errno |-> errno]
    ELSE [result |-> IF value < 0 THEN -longMax - 1 ELSE longMax, errno |-> "ERANGE"]

(* Cut down to int32, whether long is wider than that or of its width.     *)
strto32_adaptor(value, longMax, intMax, saved) ==
    LET got == Strtol(value, longMax, "0")
        below == \/ got = [result |-> -longMax - 1, errno |-> "ERANGE"]
                 \/ got.errno = "0" /\ got.result < -intMax - 1
        above == \/ got = [result |-> longMax, errno |-> "ERANGE"]
                 \/ got.errno = "0" /\ got.result > intMax
    IN  IF below THEN [result |-> -intMax - 1, errno |-> "ERANGE"]
        ELSE IF above THEN [result |-> intMax, errno |-> "ERANGE"]
        ELSE [got EXCEPT !.errno = IF @ = "0" THEN saved ELSE @]

-----------------------------------------------------------------------------
(* vsnprintf of a text of some length into a buffer of some size: the      *)
(* length, or, of old libraries when it does not fit, a negative number.   *)
(* An error that persists, which is a negative number as well, is what an  *)
(* old library says of a text that fits no buffer: StringAppendV cannot    *)
(* tell them apart and doubles its buffer until there is no memory left.   *)
Vsnprintf(length, size, old) == IF old /\ length >= size THEN -1 ELSE length

Fits(result, size) == result >= 0 /\ result < size

(* The size of the buffer the text was formatted into at last: space, or   *)
(* one of those made after it.  It doubles up to MaxSize.                  *)
StringAppendV(length, space, MaxSize, old) ==
    LET Retry[size \in 1..MaxSize] ==
            LET result == Vsnprintf(length, size, old)
                larger == IF result < 0 THEN 2 * size ELSE result + 1
            IN  IF Fits(result, size) \/ larger > MaxSize THEN size ELSE Retry[larger]
    IN  Retry[space]
=============================================================================
