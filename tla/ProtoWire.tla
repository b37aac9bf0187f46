----------------------------- MODULE ProtoWire -----------------------------
(***************************************************************************)
(* The wire format as the generated codecs of x/globalfee, x/poe and       *)
(* x/twasm read and write it: varints, tags, lengths and the skipping of   *)
(* fields a reader does not know.  The same statements are repeated for    *)
(* every message of the *.pb.go files; here they are written once.         *)
(*                                                                         *)
(* Data is a sequence of bytes, positions start at 1 (iNdEx + 1).  Bits is *)
(* the width of uint64 and int, HalfBits that of uint32 and int32: 64 and  *)
(* 32 in the code, less in a model, where TLC has 32-bit integers.         *)
(***************************************************************************)
EXTENDS Integers, Sequences, SequencesExt

CONSTANTS Bits, HalfBits

\* A whole number of 7-bit groups does not fill a word, so the last group of
\* the longest varint is only partly used, as with 64 bits.
ASSUME WidthAssumption ==
    /\ Bits \in Nat /\ HalfBits \in Nat
    /\ 7 < HalfBits /\ HalfBits < Bits /\ Bits % 7 # 0

Byte == 0..255

\* The outcome of reading: a value and the position after it, or an error.
Read(v, p) == [val |-> v, pos |-> p, err |-> "none"]
Fail(e) == [val |-> 0, pos |-> 0, err |-> e]

-----------------------------------------------------------------------------
(***************************************************************************)
(* Writing                                                                 *)
(***************************************************************************)
RECURSIVE encodeVarint(_)
encodeVarint(v) ==
    IF v < 128 THEN <<v>> ELSE <<(v % 128) + 128>> \o encodeVarint(v \div 128)

\* bits.Len64 and the number of bytes a varint takes.
BitLen(v) == CHOOSE n \in 0..Bits : v < 2^n /\ (n > 0 => v >= 2^(n - 1))

sov(v) == (BitLen(IF v = 0 THEN 1 ELSE v) + 6) \div 7
-----------------------------------------------------------------------------
(***************************************************************************)
(* Reading                                                                 *)
(***************************************************************************)
\* The groups of a varint: shift runs 0, 7, 14, ... while shift < 64.
Groups == (Bits + 6) \div 7

ReadVarint(data, pos) ==
    LET last == pos + Groups - 1
        ends == {k \in pos..last : k <= Len(data) /\ data[k] < 128}
        shifted(k) == LET shift == 7 * (k - pos)
                      IN  ((data[k] % 128) % 2^(Bits - shift)) * 2^shift
    IN  IF ends = {}
        THEN Fail(IF last <= Len(data) THEN "overflow" ELSE "eof")
        ELSE Read(MapThenSumSet(shifted, pos..Min(ends)), Min(ends) + 1)

\* int(x) < 0: the top bit of the word is set.
Negative(x) == x >= 2^(Bits - 1)

\* int32(x) of a word, a signed half word.
Int32(x) ==
    LET low == x % 2^HalfBits
    IN  IF low >= 2^(HalfBits - 1) THEN low - 2^HalfBits ELSE low

\* Mutant: what is left of the data is taken for the content.
ReadLengthClamped(data, pos) ==
    LET r == ReadVarint(data, pos) IN
    IF r.err # "none" THEN r
    ELSE Read(Min({r.val, Len(data) + 1 - r.pos}), r.pos)

\* A length must not be negative and its bytes must lie in the data.
CheckedLength(data, r) ==
    CASE r.err # "none"                                    -> r
      [] Negative(r.val) \/ Negative(r.pos - 1 + r.val)    -> Fail("length")
      [] OTHER -> IF r.pos - 1 + r.val > Len(data) THEN Fail("eof") ELSE r

\* The length of a length-delimited field and the position of its first byte.
ReadLength(data, pos) == CheckedLength(data, ReadVarint(data, pos))

\* Mutant: the number is not looked at.
ReadTagAnyNumber(data, pos) ==
    LET r == ReadVarint(data, pos)
        tag == [num |-> Int32(r.val \div 8), wire |-> r.val % 8]
    IN  IF r.err # "none" THEN r
        ELSE IF tag.wire = 4 THEN Fail("end group") ELSE Read(tag, r.pos)

\* The number and the wire type in a tag.
CheckedTag(r) ==
    LET tag == [num |-> Int32(r.val \div 8), wire |-> r.val % 8]
    IN  CASE r.err # "none" -> r
          [] tag.wire = 4   -> Fail("end group")
          [] OTHER -> IF tag.num <= 0 THEN Fail("tag") ELSE Read(tag, r.pos)

ReadTag(data, pos) == CheckedTag(ReadVarint(data, pos))
-----------------------------------------------------------------------------
\* skipX looks at no number, only at the wire types; groups nest.  One turn of
\* its loop moves from the position of a tag to the position and the depth
\* after its value.
SkipTo(p, depth) == IF Negative(p - 1) THEN Fail("length") ELSE Read(depth, p)

SkipLength(r, depth) ==
    IF r.err # "none" THEN r
    ELSE IF Negative(r.val) THEN Fail("length") ELSE SkipTo(r.pos + r.val, depth)

SkipVarint(r, depth) == IF r.err # "none" THEN r ELSE SkipTo(r.pos, depth)

SkipValue(data, tag, depth) ==
    LET wire == tag.val % 8 IN
    IF tag.err # "none" THEN tag
    ELSE CASE wire = 0 -> SkipVarint(ReadVarint(data, tag.pos), depth)
           [] wire = 1 -> SkipTo(tag.pos + 8, depth)
           [] wire = 2 -> SkipLength(ReadVarint(data, tag.pos), depth)
           [] wire = 3 -> SkipTo(tag.pos, depth + 1)
           [] wire = 4 -> IF depth = 0 THEN Fail("end group")
                          ELSE SkipTo(tag.pos, depth - 1)
           [] wire = 5 -> SkipTo(tag.pos + 4, depth)
           [] OTHER    -> Fail("wire type")

\* The loop ends outside of all groups.
RECURSIVE SkipFrom(_, _, _)
SkipRest(data, r) ==
    IF r.err # "none" \/ r.val = 0 THEN r ELSE SkipFrom(data, r.pos, r.val)

SkipFrom(data, pos, depth) ==
    IF pos > Len(data) THEN Fail("eof")
    ELSE SkipRest(data, SkipValue(data, ReadVarint(data, pos), depth))

skip(data) == SkipFrom(data, 1, 0)

\* Mutant: the position stays at the tag.
SkipUnknownInPlace(data, pos) ==
    LET r == skip(SubSeq(data, pos, Len(data)))
    IN  IF r.err # "none" THEN r ELSE Read(0, pos)

\* The default case of every Unmarshal: pos is where the tag started.
SkippedFrom(data, pos, r) ==
    LET next == pos + r.pos - 1
    IN  CASE r.err # "none"       -> r
          [] Negative(next - 1)   -> Fail("length")
          [] OTHER -> IF next - 1 > Len(data) THEN Fail("eof")
                      ELSE Read(0, next)

SkipUnknown(data, pos) ==
    SkippedFrom(data, pos, skip(SubSeq(data, pos, Len(data))))
=============================================================================
