----------------------------- MODULE MCLibrary ------------------------------
(***************************************************************************)
(* The algorithms the program is built on, run over every short text of a  *)
(* few telling bytes, every small number and some at the edges, and every  *)
(* heap of a few objects.                                                  *)
(***************************************************************************)
EXTENDS Strutil, Numerals, PrefixNames, ObjectGraphs, ArraySlice

CONSTANTS Alphabet, MaxLength, MaxNumber, EdgeNumbers, Root,
    References      \* object -> the objects its properties may hold

MaxInt32 == 2147483647
ASSUME NumbersAssumption == MaxNumber \in 0..MaxInt32 /\ EdgeNumbers \subseteq 0..MaxInt32
ASSUME BytesAssumption == Alphabet \subseteq 0..255
ASSUME ObjectsAssumption == IsFiniteSet(Objects) /\ IsPlain(Root)
ASSUME ReferencesAssumption == References \in [Objects -> SUBSET Objects]
ASSUME KeysAssumption == KeyOrder \in Seq(Keys)

VARIABLES text, number, heap
vars == << text, number, heap >>

NoReferences == [o \in Objects |-> [k \in Keys |-> Absent]]
Init == text = << >> /\ number = 0 /\ heap = NoReferences

Type ==
    /\ number = 0 /\ heap = NoReferences /\ Len(text) < MaxLength
    /\ \E c \in Alphabet : text' = Append(text, c)
    /\ UNCHANGED << number, heap >>

Count ==
    /\ text = << >> /\ heap = NoReferences
    /\ \/ number < MaxNumber /\ number' = number + 1
       \/ number = MaxNumber /\ number' \in EdgeNumbers
    /\ UNCHANGED << text, heap >>

(* An object of the test's author gets its properties; the objects before  *)
(* it have theirs.                                                         *)
Build ==
    /\ text = << >> /\ number = 0
    /\ \E o \in {p \in Objects : IsPlain(p) /\ heap[p] = NoReferences[p]} :
           \E properties \in [Keys -> References[o] \cup {Absent}] :
               heap' = [heap EXCEPT ![o] = properties]
    /\ UNCHANGED << text, number >>

Next == Type \/ Count \/ Build
Spec == Init /\ [][Next]_vars

(* A new line, a backslash, a quote, a control character, a digit, the x   *)
(* of hex escapes, white space, and a byte of UTF-8.                       *)
TellingBytes == {10, 92, 34, 1, 48, 120, 32, 200}
Edges == {9999, 10000, 99999, 100000, 1000000, 9999999, 10000000, 12345678,
          99999999, 100000000, 999999999, 1000000000, 1999999999, 2147483647}

(* Two plain objects, an array, two objects of a kind of which one has a   *)
(* gjstestEquals that takes the other, and a matcher that takes the array  *)
(* and one of those.  The first is the root.                               *)
CONSTANTS o1, o2, o3, o4, o5, o6
SixObjects == {o1, o2, o3, o4, o5, o6}
KindsOfSix == o1 :> "Object" @@ o2 :> "Object" @@ o3 :> "Array"
              @@ o4 :> "other" @@ o5 :> "other" @@ o6 :> "matcher"
TakesOfSix == [o \in SixObjects |-> CASE o = o4 -> {o5} [] o = o6 -> {o3, o5} [] OTHER -> {}]
ReferencesOfSix == [o \in SixObjects |->
    CASE o = o1 -> SixObjects \ {o5} [] o = o2 -> SixObjects \ {o6} [] o = o3 -> {o2, o3, o5}
      [] OTHER -> {}]
TwoKeys == << "x", "y" >>
-----------------------------------------------------------------------------
Texts(n) == UNION {[1..k -> Alphabet] : k \in 0..n}

(* What CEscape, CHexEscape and Utf8SafeCEscape write, the reader of C     *)
(* escapes reads as the text it was written for.                           *)
EscapesReadBack ==
    \A escaped \in {CEscape(text), CHexEscape(text), Utf8SafeCEscape(text)} :
        escaped.fits /\ UnescapeCEscapeSequences(escaped.dest) = text

(* CEscapeInternal never writes behind the end of the buffer, whatever its *)
(* size, and gives up only when the text and its closing 0 do not fit.     *)
EscapesFit ==
    \A useHex \in BOOLEAN :
        LET whole == CEscapeInternal(text, MaximumExpansion(text), useHex, FALSE)
            Into(room) == CEscapeInternal(text, room, useHex, FALSE)
        IN  \A room \in 0..(Len(whole.dest) + 1) :
                /\ Len(Into(room).dest) <= room
                /\ Into(room).fits <=> room > Len(whole.dest)

(* An escaped text is read back as what it was, and never overruns the     *)
(* buffer it is written into.                                              *)
EscapesExact == EscapesReadBack /\ EscapesFit

(* Splitting gives the maximal runs of bytes that are no delimiters, in    *)
(* their order and none empty; the loop for one delimiter gives what the   *)
(* loop for several does.                                                  *)
SplitsIntoRuns ==
    \A delim \in Texts(2) :
        LET chars == ToSet(delim)
            starts == {i \in 1..Len(text) : text[i] \notin chars
                                            /\ (i = 1 \/ text[i - 1] \in chars)}
            RunFrom(i) == SubSeq(text, i, Max({j \in i..Len(text) :
                                    \A k \in i..j : text[k] \notin chars}))
            pieces == SplitStringUsing(text, delim)
        IN  /\ Len(pieces) = Cardinality(starts)
            /\ \A i \in starts : pieces[Cardinality({j \in starts : j <= i})] = RunFrom(i)

(* Pieces that are joined with a delimiter and split at it are the pieces  *)
(* again.                                                                  *)
JoinsBack ==
    \A delim \in Texts(2) \ {<< >>} :
        LET pieces == SplitStringUsing(text, delim)
        IN  SplitStringUsing(JoinStrings(pieces, delim), delim) = pieces

(* StringReplace puts a mark of its own in the place of what it replaces:  *)
(* it can be put back; what is left between the marks was searched to the  *)
(* end; and one mark at most is made when only the first is wanted.        *)
ReplacesLeftmost ==
    \A old \in Texts(2) \ {<< >>}, all \in BOOLEAN, mark \in {0} \ ToSet(text) :
        LET new == StringReplace(text, old, << mark >>, all)
            stretches == SplitAtAny(new, {mark})
            marks == {i \in 1..Len(new) : new[i] = mark}
        IN  /\ StringReplace(new, << mark >>, old, TRUE) = text
            /\ all => \A i \in DOMAIN stretches : Find(stretches[i], old, 1) = 0
            /\ \A i \in marks : Find(SubSeq(new, 1, i - 1), old, 1) = 0
            /\ ~all => Cardinality(marks) = IF Find(text, old, 1) = 0 THEN 0 ELSE 1

(* StripWhitespace takes white space from both sides, all of it and        *)
(* nothing else.                                                           *)
StripsBothSides ==
    LET stripped == StripWhitespace(text)
        Blank(s) == \A i \in DOMAIN s : IsSpace(s[i])
    IN  /\ \E i \in 0..Len(text), j \in 0..Len(text) :
               /\ i <= j /\ stripped = SubSeq(text, i + 1, j)
               /\ Blank(SubSeq(text, 1, i)) /\ Blank(SubSeq(text, j + 1, Len(text)))
        /\ stripped # << >> => ~IsSpace(Head(stripped)) /\ ~IsSpace(Last(stripped))

(* The bytes copied are those of the specification of typed arrays: both   *)
(* indices are moved into the buffer first, a missing end is its length,   *)
(* and then nothing is copied if they have crossed.                        *)
SliceExact(start, end, length) ==
    LET Bytes(s) == s.start..(s.end - 1)
        Within(i) == Max({0, Min({length, IF i < 0 THEN i + length ELSE i})})
        last == IF end = Undefined THEN length ELSE Within(end)
        got == Slice(start, end, length)
    IN  /\ 0 <= got.start /\ got.start <= got.end /\ got.end <= length
        /\ Bytes(got) = Within(start)..(last - 1)
Indices == -(number + 2)..(number + 2)

(* slice() copies these bytes for every start and for every end but 0,     *)
(* which is the subject of EndIsExclusive.                                 *)
SlicesLikeTheSpecification ==
    number <= 6 =>
    \A start \in Indices, end \in (Indices \ {0}) \cup {Undefined} : SliceExact(start, end, number)

(* An end that is given is exclusive, and one that is missing is the       *)
(* length, as the comment of slice() says: an end of 0 then leaves nothing *)
(* to copy.                                                                *)
EndIsExclusive ==
    number <= 6 =>
    \A start \in Indices, end \in Indices \cup {Undefined} : SliceExact(start, end, number)

(* Pieces of texts and buffers hold exactly what they should: what is      *)
(* split, replaced, stripped or, up to an end that is not 0, sliced off,   *)
(* nothing lost, nothing twice.                                            *)
PiecesExact ==
    /\ SplitsIntoRuns /\ JoinsBack /\ ReplacesLeftmost /\ StripsBothSides
    /\ SlicesLikeTheSpecification

-----------------------------------------------------------------------------
ValueOf(digits, base) ==
    LET Upto[i \in 0..Len(digits)] == IF i = 0 THEN 0 ELSE base * Upto[i - 1] - digits[i]
    IN  Upto[Len(digits)]
Denotes(digits, n, base) ==     \* compared below 0, where no integer lacks an opposite
    /\ digits # << >> /\ ToSet(digits) \subseteq 0..(base - 1)
    /\ ValueOf(digits, base) = -n
    /\ Len(digits) > 1 => digits[1] # 0

(* The decimal and the hexadecimal texts of a number denote it and have no *)
(* zero in front, negative numbers down to the smallest included.          *)
DigitsDenote ==
    /\ Denotes(FastInt32ToBuffer(number), number, 10)
    /\ \A negative \in {-number, -number - 1} \ {0} :
           LET digits == FastInt32ToBuffer(negative)
           IN  /\ Head(digits) = Minus /\ Len(digits) > 1
               /\ ToSet(Tail(digits)) \subseteq 0..9 /\ digits[2] # 0
               /\ ValueOf(Tail(digits), 10) = negative
    /\ Denotes(FastHexToBuffer(number), number, 16)
    /\ InternalFastHexToBuffer(number, 8)
           = [i \in 1..(8 - Len(FastHexToBuffer(number))) |-> 0] \o FastHexToBuffer(number)

(* FastUInt32ToBufferLeft, two digits at a time, writes what the loop of   *)
(* one digit at a time does.                                               *)
BothWaysAgree == FastUInt32ToBufferLeft(number) = Digits[number]

(* Numbers at any edge of magnitude are written digit for digit.           *)
NumbersReadBack == DigitsDenote /\ BothWaysAgree

(* Radix marks of a locale: another byte, or two. *)
Radixes == { << Point >>, << 44 >>, << 194, 183 >> }

(* A number printed in any locale gets a point for its radix mark, and     *)
(* loses nothing else; of a text with a point, or with no radix mark at    *)
(* all, NoLocaleStrtod then reads in any locale what it reads in that of   *)
(* C, and tells its caller the same end.  Nothing is said of texts with    *)
(* the locale's own mark: 1,5 is read as 1.5 where the comma is the mark,  *)
(* and as 1 in the locale of C.                                            *)
LocaleDoesNotShow ==
    LET digits == FastInt32ToBuffer(number)
        With(i, radix) == SubSeq(digits, 1, i) \o radix \o SubSeq(digits, i + 1, Len(digits))
    IN  \A radix \in Radixes :
            /\ DelocalizeRadix(digits) = digits
            /\ \A i \in 1..Len(digits) :
                   DelocalizeRadix(With(i, radix) \o << Exponent, Minus, 7 >>)
                       = With(i, << Point >>) \o << Exponent, Minus, 7 >>
            /\ \A i \in 0..Len(digits), end \in { << >>, << Point, 5 >>, << Exponent >> } :
                   LET given == With(i, << Point >>) \o end
                       here  == NoLocaleStrtod(given, radix)
                   IN  [here EXCEPT !.read = DelocalizeRadix(@)]
                           = NoLocaleStrtod(given, << Point >>)

(* Whatever the width of long, strto32_adaptor gives the number when it is *)
(* one of int32 and leaves errno alone, and otherwise the nearest int32    *)
(* and says so.                                                            *)
CutToInt32(value, longMax, intMax, errno) ==
    strto32_adaptor(value, longMax, intMax, errno)
        = IF value \in (-intMax - 1)..intMax THEN [result |-> value, errno |-> errno]
          ELSE [result |-> IF value < 0 THEN -intMax - 1 ELSE intMax, errno |-> "ERANGE"]
SameOnEveryPlatform ==
    \A value \in {number, -number}, longMax \in {300, 600}, errno \in {"0", "ERANGE", "EINTR"} :
        CutToInt32(value, longMax, 300, errno)

(* StringAppendV stops with a buffer that the whole text and its closing 0 *)
(* fit in, with libraries that tell the length and with those that do not; *)
(* that vsnprintf fails for another reason than the size is left out.      *)
WholeTextAppended ==
    number <= MaxNumber =>
        \A old \in BOOLEAN : StringAppendV(number, 8, 2 * MaxNumber + 8, old) > number

(* What the C library of a platform does differently does not show: its    *)
(* locale's radix mark, in texts that are written with a point, the width  *)
(* of its long, errno, and what it says of a text that does not fit.       *)
PlatformDoesNotShow == LocaleDoesNotShow /\ SameOnEveryPlatform /\ WholeTextAppended

(* The name after w in the order of length first, and then the alphabet:   *)
(* trailing last letters start over, the letter before them steps on, and  *)
(* a name of last letters only is followed by a longer one.                *)
Following(w) ==
    LET last == AlphabetSize - 1
        full == {i \in 1..Len(w) : \A j \in i..Len(w) : w[j] = last}
        k    == Len(w) - Cardinality(full)
    IN  IF k = 0 THEN [i \in 1..(Len(w) + 1) |-> 0]
        ELSE [i \in 1..Len(w) |-> IF i < k THEN w[i] ELSE IF i = k THEN w[i] + 1 ELSE 0]

(* Each made-up prefix of GenerateNextPrefix follows the one before it:    *)
(* none is left out, and none is made twice, so that two namespaces never  *)
(* get one.                                                                *)
InOrder == number > 0 => GenerateNextPrefix(number) = Following(GenerateNextPrefix(number - 1))

-----------------------------------------------------------------------------
PlainObjects == {o \in Objects : IsPlain(o)}
Successors(S) == {c \in PlainObjects : \E o \in S, k \in Keys : heap[o][k] = c}
Reachable(o) ==     \* in one step or more
    {c \in PlainObjects :
        \A S \in SUBSET PlainObjects : Successors(S \cup {o}) \subseteq S => c \in S}

(* recursivelyEquals refuses exactly the expected objects from which a     *)
(* cycle can be reached; for all others, whatever the actual one looks     *)
(* like, it comes to an end and tells whether the two unfold to the same   *)
(* tree: whether there is a relation between objects under which both have *)
(* the same keys, and for each of them either values that the expected     *)
(* one's own code or their identity makes equal, or related objects.       *)
Matches(x, y) ==
    \/ x = y /\ (x = Absent \/ KindOf[x] = "other")
    \/ x \in Objects /\ KindOf[x] = "matcher" /\ y \in Takes[x]
    \/ x \in Objects /\ y \in Objects /\ KindOf[x] = "other" /\ KindOf[y] = "other" /\ y \in Takes[x]
SameUnder(a, b, R) ==
    /\ KindOf[a] = KindOf[b]
    /\ \A k \in Keys :
           Matches(heap[a][k], heap[b][k]) \/ << heap[a][k], heap[b][k] >> \in R
SameTree(a, b) ==
    \E R \in SUBSET (PlainObjects \X PlainObjects) :
        << a, b >> \in R /\ \A p \in R : SameUnder(p[1], p[2], R)
Cyclic(o) == \E p \in Reachable(o) \cup {o} : p \in Reachable(p)
EqualIfSameTree ==
    LET refused == Cyclic(Root)
    IN  \A actual \in PlainObjects :
            RecursivelyEquals(heap, Root, actual) =
                IF refused THEN "given a non-tree"
                ELSE IF SameTree(Root, actual) THEN "equal" ELSE "different"

(* stringify leaves no mark on the author's objects, however they refer to *)
(* each other, and writes the contents of each object once and, unless an  *)
(* object has too many parts or lies too deep, of every one that can be    *)
(* reached.                                                                *)
EachObjectOnce ==
    \A most \in {1, 25} :
        LET got == StringifyToDepth(heap, Root, 5, most)
        IN  /\ \A o \in Objects : got.marks[o] = Unmarked
            /\ IsInjective(got.expanded)
            /\ (most >= Len(KeyOrder) /\ Cardinality(PlainObjects) <= 5) =>
                   ToSet(got.expanded) = {Root} \cup Reachable(Root)
=============================================================================
