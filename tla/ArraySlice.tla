----------------------------- MODULE ArraySlice -----------------------------
(* ArrayBuffer.prototype.slice of internal/js/slice.js: the bounds of the  *)
(* copy, of a buffer of byteLength bytes that count from 0.                *)
EXTENDS Integers

CONSTANT Undefined

FromEnd(index, byteLength) == IF index < 0 THEN byteLength + index ELSE index
Clamp(index, byteLength) ==
    IF index < 0 THEN 0 ELSE IF index > byteLength THEN byteLength ELSE index

(* An end that is missing, and one of 0, is the length. *)
EndOf(opt_end, byteLength) ==
    IF opt_end \in {Undefined, 0} THEN byteLength ELSE opt_end

Slice(start, opt_end, byteLength) ==
    LET first == FromEnd(start, byteLength)
        end   == FromEnd(EndOf(opt_end, byteLength), byteLength)
    IN  IF end < first THEN [start |-> 0, end |-> 0]
        ELSE [start |-> Clamp(first, byteLength), end |-> Clamp(end, byteLength)]
=============================================================================
