----------------------------- MODULE ProtoCodec -----------------------------
(***************************************************************************)
(* Marshal, Size and Unmarshal of the messages of x/globalfee, x/poe and   *)
(* x/twasm, and a message on its way from a writer to a reader.            *)
(*                                                                         *)
(* The genesis state, the transactions, the queries and the contract       *)
(* details in the store travel through these functions.  The writer may be *)
(* this code or another implementation of the format, which may split a    *)
(* message, and may know fields this code does not; what was stored or     *)
(* sent may be cut off or damaged.  The reader is Unmarshal, one turn of   *)
(* its loop at a time.                                                     *)
(***************************************************************************)
EXTENDS ProtoWire, ProtoMessage, FiniteSets

CONSTANTS
    Reads,          \* of every message, what Unmarshal does with each field
    Writes,         \* of every message, the fields Marshal writes, in order
    Sizes,          \* of every message, the fields Size counts
    Messages,       \* the names of the messages that travel
    MaxParts,       \* of how many parts, an added field included, data may be
    UnknownFields,  \* encoded fields with a number no message has
    DamagedFields   \* encoded fields that are not well formed

IsMessage(sort) == sort \in DOMAIN Reads

\* The Go zero value of a sort and of a message.  An sdk.Dec or sdk.Int that
\* was never set counts as 0 (<<48>>); the zero time has an encoding as well.
RECURSIVE ZeroOf(_)
ZeroOf(sort) ==
    CASE sort = "bool" -> FALSE
      [] sort \in {"uint64", "uint32", "enum", "packed"} -> 0
      [] sort = "Dec" -> <<48>>
      [] sort = "Time" -> <<90>>
      [] IsMessage(sort) ->
            [n \in DOMAIN Reads[sort] |->
                IF Reads[sort][n].card = "one" THEN ZeroOf(Reads[sort][n].sort)
                ELSE <<>>]
      [] OTHER -> <<>>
-----------------------------------------------------------------------------
(***************************************************************************)
(* Writing                                                                 *)
(***************************************************************************)
\* The values one row writes or counts: each with a tag of its own, a packed
\* list as one.
Occurrences(row, kind, content) ==
    IF kind.sort = "packed" THEN IF content = <<>> THEN <<>> ELSE <<content>>
    ELSE IF kind.card # "one" THEN content
    ELSE IF ~row.always /\ content = ZeroOf(kind.sort) THEN <<>>
    ELSE <<content>>

\* uint64(x) of a scalar.
Word(sort, x) ==
    IF sort = "bool" THEN IF x THEN 1 ELSE 0 ELSE x % 2^Bits

Number(row) == row.tag \div 8

\* Both functions go through the rows, here up to row k, and for each row
\* through its values.
RECURSIVE SizeOfRows(_, _, _)
Size(type, m) == SizeOfRows(type, m, Len(Sizes[type]))

SizeOfValue(sort, x) ==
    LET delimited(l) == l + sov(l)
    IN  CASE sort = "packed" ->
                delimited(FoldSeq(LAMBDA v, n : n + sov(v), 0, x))
          [] sort = "bool" -> 1
          [] sort \in VarintSorts \ {"packed", "bool"} -> sov(Word(sort, x))
          [] IsMessage(sort) -> delimited(Size(sort, x))
          [] OTHER -> delimited(Len(x))

SizeOfRows(type, m, k) ==
    IF k = 0 THEN 0
    ELSE LET row == Sizes[type][k]
             kind == Reads[type][row.num]
             xs == Occurrences(row, kind, m[row.num])
         IN  SizeOfRows(type, m, k - 1)
                + FoldSeq(LAMBDA x, n : n + 1 + SizeOfValue(kind.sort, x), 0, xs)

RECURSIVE WriteRows(_, _, _)
MarshalToSizedBuffer(type, m) == WriteRows(type, m, Len(Writes[type]))

WriteValue(sort, x) ==
    LET delimited(bytes) == encodeVarint(Len(bytes)) \o bytes
    IN  CASE sort = "packed" ->
                delimited(FlattenSeq([k \in DOMAIN x |-> encodeVarint(x[k])]))
          [] sort \in VarintSorts \ {"packed"} -> encodeVarint(Word(sort, x))
          [] IsMessage(sort) -> delimited(MarshalToSizedBuffer(sort, x))
          [] OTHER -> delimited(x)

WriteRows(type, m, k) ==
    IF k = 0 THEN <<>>
    ELSE LET row == Writes[type][k]
             kind == Reads[type][Number(row)]
             xs == Occurrences(row, kind, m[Number(row)])
         IN  WriteRows(type, m, k - 1)
                \o FlattenSeq([i \in DOMAIN xs |->
                     encodeVarint(row.tag) \o WriteValue(kind.sort, xs[i])])

\* Marshal makes a buffer of Size bytes, fills it from the end and returns its
\* first n bytes, n being what was written.  A buffer that is too small is a
\* panic, there is nothing to send then.
Marshal(type, m) ==
    LET size == Size(type, m)
        bytes == MarshalToSizedBuffer(type, m)
        n == Len(bytes)
        buffer == [k \in 1..(size - n) |-> 0] \o bytes
    IN  IF size < n THEN <<>> ELSE SubSeq(buffer, 1, n)
-----------------------------------------------------------------------------
(***************************************************************************)
(* Reading                                                                 *)
(***************************************************************************)
\* The outcome of one turn of the loop of Unmarshal.
Turn(m, p) == [m |-> m, pos |-> p, err |-> "none"]
Stop(m, e) == [m |-> m, pos |-> 0, err |-> e]

Scalar(sort, word) ==
    CASE sort = "bool"   -> word # 0
      [] sort = "uint32" -> word % 2^HalfBits
      [] sort = "enum"   -> Int32(word)
      [] OTHER           -> word

\* sdk.Dec and sdk.Int take no bytes for no value.
ReadText(sort, bytes) ==
    IF sort = "Dec" /\ bytes = <<>> THEN ZeroOf(sort) ELSE bytes

\* Mutant: the variants of a oneof are kept side by side.
PutBeside(type, m, n, x) ==
    LET kind == Reads[type][n]
    IN  CASE kind.card = "one"      -> [m EXCEPT ![n] = x]
          [] kind.card = "repeated" -> [m EXCEPT ![n] = Append(@, x)]
          [] OTHER                  -> [m EXCEPT ![n] = <<x>>]

\* What a value read does to the message.
Put(type, m, n, x) ==
    LET kind == Reads[type][n]
        variant(k) == Reads[type][k].card = "choice"
    IN  CASE kind.card = "one"      -> [m EXCEPT ![n] = x]
          [] kind.card = "repeated" -> [m EXCEPT ![n] = Append(@, x)]
          [] kind.card = "optional" -> [m EXCEPT ![n] = <<x>>]
          [] kind.card = "choice"   ->
                [k \in DOMAIN m |-> IF k = n THEN <<x>>
                                    ELSE IF variant(k) THEN <<>> ELSE m[k]]

\* Mutant: every embedded message starts from nothing.
BaseFresh(type, m, n) == ZeroOf(Reads[type][n].sort)

\* Unmarshal of an embedded message goes on with what the field holds, unless
\* it is a new element of a list or a new variant of a oneof.
Base(type, m, n) ==
    LET kind == Reads[type][n]
    IN  CASE kind.card = "one" -> m[n]
          [] kind.card = "optional" /\ m[n] # <<>> -> m[n][1]
          [] OTHER -> ZeroOf(kind.sort)

\* The values of a packed list; each may be read to the end of the data, the
\* end of the list is only looked at between two of them.
RECURSIVE ReadPacked(_, _, _, _, _)
AppendPacked(data, r, post, m, n) ==
    IF r.err # "none" THEN Stop(m, r.err)
    ELSE ReadPacked(data, r.pos, post, [m EXCEPT ![n] = Append(@, r.val)], n)

ReadPacked(data, pos, post, m, n) ==
    IF pos >= post THEN Turn(m, pos)
    ELSE AppendPacked(data, ReadVarint(data, pos), post, m, n)

RECURSIVE UnmarshalFrom(_, _, _, _)

\* What Unmarshal of an embedded message left.
Embed(type, m, n, post, inner) ==
    IF inner.err = "none" THEN Turn(Put(type, m, n, inner.m), post)
    ELSE Stop(IF Reads[type][n].card = "choice" THEN m
              ELSE Put(type, m, n, inner.m), inner.err)

\* The case of a length-delimited field, r is its length.
Delimited(type, m, n, data, r) ==
    LET sort == Reads[type][n].sort
        post == r.pos + r.val
        bytes == SubSeq(data, r.pos, post - 1)
    IN  IF r.err # "none" THEN Stop(m, r.err)
        ELSE IF sort = "packed" THEN ReadPacked(data, r.pos, post, m, n)
        ELSE IF sort = "External"
        THEN Turn(Put(type, m, n, Base(type, m, n) \o bytes), post)
        ELSE IF IsMessage(sort)
        THEN Embed(type, m, n, post,
                   UnmarshalFrom(sort, Base(type, m, n), bytes, 1))
        ELSE Turn(Put(type, m, n, ReadText(sort, bytes)), post)

ReadDelimited(type, m, n, data, pos) ==
    Delimited(type, m, n, data, ReadLength(data, pos))

\* The case of a varint field.
ReadScalar(type, m, n, data, pos) ==
    LET r == ReadVarint(data, pos)
    IN  IF r.err # "none" THEN Stop(m, r.err)
        ELSE Turn(Put(type, m, n, Scalar(Reads[type][n].sort, r.val)), r.pos)

\* The switch over the number and the wire type of a tag.
FieldOf(type, m, data, pos, tag) ==
    LET n == tag.val.num
        wire == tag.val.wire
        sort == Reads[type][n].sort
        passed(r) == IF r.err # "none" THEN Stop(m, r.err) ELSE Turn(m, r.pos)
    IN  IF tag.err # "none" THEN Stop(m, tag.err)
        ELSE IF n \notin DOMAIN Reads[type] THEN passed(SkipUnknown(data, pos))
        ELSE IF wire = 0 /\ sort \in VarintSorts
        THEN ReadScalar(type, m, n, data, tag.pos)
        ELSE IF wire = 2 /\ sort \notin VarintSorts \ {"packed"}
        THEN ReadDelimited(type, m, n, data, tag.pos)
        ELSE Stop(m, "wire type")

\* One turn of the loop of Unmarshal.
NextField(type, m, data, pos) ==
    FieldOf(type, m, data, pos, ReadTag(data, pos))

GoOn(type, data, t) ==
    IF t.err # "none" THEN t ELSE UnmarshalFrom(type, t.m, data, t.pos)

UnmarshalFrom(type, m, data, pos) ==
    IF pos > Len(data) + 1 THEN Stop(m, "eof")
    ELSE IF pos > Len(data) THEN Turn(m, pos)
    ELSE GoOn(type, data, NextField(type, m, data, pos))
-----------------------------------------------------------------------------
(***************************************************************************)
(* The messages that are sent: the zero value, one with every field set,   *)
(* and those with one field set.                                           *)
(***************************************************************************)
RECURSIVE FullOf(_)
FullOf(sort) ==
    CASE sort \in {"uint64", "packed"} -> 300
      [] sort = "uint32" -> 2^HalfBits - 1
      [] sort = "enum" -> 1
      [] sort = "bool" -> TRUE
      [] sort = "External" -> <<8, 1>>
      [] sort \in TextSorts -> <<10, 49>>
      [] IsMessage(sort) ->
            LET variants == {n \in DOMAIN Reads[sort] :
                                Reads[sort][n].card = "choice"}
                field(n) == FullOf(Reads[sort][n].sort)
            IN  [n \in DOMAIN Reads[sort] |->
                    CASE Reads[sort][n].card = "one" -> field(n)
                      [] Reads[sort][n].card = "optional" -> <<field(n)>>
                      [] Reads[sort][n].card = "choice" ->
                            IF n = Min(variants) THEN <<field(n)>> ELSE <<>>
                      [] Reads[sort][n].card = "repeated" ->
                            <<field(n), ZeroOf(Reads[sort][n].sort)>>]

Contents(kind) ==
    LET full == FullOf(kind.sort)
        zero == ZeroOf(kind.sort)
    IN  CASE kind.card = "one" ->
                {full} \cup (IF kind.sort = "uint64" THEN {1, 2^Bits - 1} ELSE {})
          [] kind.card = "repeated" -> {<<zero>>, <<full, zero, full>>}
          [] OTHER -> {<<zero>>, <<full>>}

Samples(type) ==
    {ZeroOf(type), FullOf(type)}
        \cup UNION {{[ZeroOf(type) EXCEPT ![n] = x] :
                        x \in Contents(Reads[type][n])} : n \in DOMAIN Reads[type]}
-----------------------------------------------------------------------------
VARIABLES
    type,    \* the name of the message
    sent,    \* the parts written, in order
    extra,   \* "none", or a field was added that is "unknown" or "damaged"
    data,    \* the bytes
    cut,     \* bytes are missing at the end
    status,  \* "writing", "reading" or "done"
    m,       \* the message the reader fills
    pos,     \* where the reader is
    turns,   \* how often its loop has run
    err      \* why it gave up, or "none"

vars == <<type, sent, extra, data, cut, status, m, pos, turns, err>>

Init ==
    /\ type \in Messages
    /\ sent = <<>> /\ extra = "none" /\ data = <<>> /\ cut = FALSE
    /\ status = "writing"
    /\ m = ZeroOf(type) /\ pos = 1 /\ turns = 0 /\ err = "none"

\* There is room for another part.
Open == /\ status = "writing"
        /\ Len(sent) + (IF extra = "none" THEN 0 ELSE 1) < MaxParts

Write ==
    /\ Open
    /\ \E v \in Samples(type) :
        /\ sent' = Append(sent, v)
        /\ data' = data \o Marshal(type, v)
    /\ UNCHANGED <<type, extra, cut, status, m, pos, turns, err>>

AddField(fields, what) ==
    /\ Open /\ extra = "none"
    /\ \E f \in fields : data' = data \o f
    /\ extra' = what
    /\ UNCHANGED <<type, sent, cut, status, m, pos, turns, err>>

AddUnknown == AddField(UnknownFields, "unknown")

\* Damage is at the end: what follows an incomplete field would be taken for
\* the rest of it.
Damage == sent # <<>> /\ AddField(DamagedFields, "damaged")

Deliver ==
    /\ status = "writing" /\ sent # <<>>
    /\ status' = "reading"
    /\ UNCHANGED <<type, sent, extra, data, cut, m, pos, turns, err>>

Truncate ==
    /\ status = "writing" /\ Len(sent) = 1 /\ extra = "none"
    /\ \E n \in 0..(Len(data) - 1) : data' = SubSeq(data, 1, n)
    /\ cut' = TRUE
    /\ status' = "reading"
    /\ UNCHANGED <<type, sent, extra, m, pos, turns, err>>

\* A turn of the loop of Unmarshal.
ReadField ==
    /\ status = "reading" /\ pos <= Len(data)
    /\ \E t \in {NextField(type, m, data, pos)} :
           /\ m' = t.m /\ err' = t.err
           /\ pos' = IF t.err = "none" THEN t.pos ELSE pos
           /\ status' = IF t.err = "none" THEN "reading" ELSE "done"
    /\ turns' = turns + 1
    /\ UNCHANGED <<type, sent, extra, data, cut>>

\* The end of the loop.
ReadEnd ==
    /\ status = "reading" /\ pos > Len(data)
    /\ status' = "done"
    /\ err' = IF pos > Len(data) + 1 THEN "eof" ELSE "none"
    /\ UNCHANGED <<type, sent, extra, data, cut, m, pos, turns>>

Next == Write \/ AddUnknown \/ Damage \/ Deliver \/ Truncate
        \/ ReadField \/ ReadEnd

Spec == Init /\ [][Next]_vars
-----------------------------------------------------------------------------
(***************************************************************************)
(* Properties                                                              *)
(***************************************************************************)
RECURSIVE IsValue(_, _)
IsContent(kind, x) ==
    IF kind.card = "one" THEN IsValue(kind.sort, x)
    ELSE /\ \A k \in DOMAIN x : IsValue(kind.sort, x[k])
         /\ kind.card \in {"optional", "choice"} => Len(x) <= 1

IsValue(sort, x) ==
    CASE sort \in {"uint64", "packed"} -> x \in 0..(2^Bits - 1)
      [] sort = "uint32" -> x \in 0..(2^HalfBits - 1)
      [] sort = "enum" -> x \in -(2^(HalfBits - 1))..(2^(HalfBits - 1) - 1)
      [] sort = "bool" -> x \in BOOLEAN
      [] IsMessage(sort) ->
            LET set == {n \in DOMAIN x : /\ Reads[sort][n].card = "choice"
                                         /\ x[n] # <<>>}
            IN  /\ DOMAIN x = DOMAIN Reads[sort]
                /\ \A n \in DOMAIN x : IsContent(Reads[sort][n], x[n])
                /\ Cardinality(set) <= 1
      [] OTHER -> \A k \in DOMAIN x : x[k] \in Byte

\* What Unmarshal fills is a value of the Go type at every moment: numbers fit
\* their fields, and of a oneof at most one variant is set, however many of
\* them the data holds.
TypeOK ==
    /\ type \in Messages /\ status \in {"writing", "reading", "done"}
    /\ \A k \in DOMAIN data : data[k] \in Byte
    /\ IsValue(type, m)
    /\ pos \in 1..(Len(data) + 1)

\* The meaning of two parts read one after the other, field by field.
RECURSIVE Merge(_, _, _)
MergeField(t, n, a, b) ==
    LET kind == Reads[t][n]
        always == \E k \in DOMAIN Writes[t] :
                    Number(Writes[t][k]) = n /\ Writes[t][k].always
        join(x, y) == IF kind.sort = "External" THEN x \o y
                      ELSE Merge(kind.sort, x, y)
        nested == IsMessage(kind.sort) \/ kind.sort = "External"
        chosen == \E k \in DOMAIN b : Reads[t][k].card = "choice" /\ b[k] # <<>>
    IN  CASE kind.card = "repeated" -> a[n] \o b[n]
          [] kind.card = "choice" -> IF chosen THEN b[n] ELSE a[n]
          [] kind.card = "optional" ->
                IF a[n] = <<>> THEN b[n] ELSE IF b[n] = <<>> THEN a[n]
                ELSE <<join(a[n][1], b[n][1])>>
          [] kind.card = "one" ->
                IF nested THEN join(a[n], b[n])
                ELSE IF always \/ b[n] # ZeroOf(kind.sort) THEN b[n] ELSE a[n]

Merge(t, a, b) == [n \in DOMAIN Reads[t] |-> MergeField(t, n, a, b)]

\* What Marshal wrote is what Unmarshal reads, for every message of the three
\* modules: no tag, wire type, length, order or omitted zero on which writer
\* and reader disagree, and no field that Size counts and Marshal leaves out or
\* the other way round.  Fields a newer peer added are passed over, and a
\* message that comes in two parts is read as their merge.
RoundTrip ==
    status = "done" /\ ~cut /\ extra # "damaged" =>
        /\ err = "none"
        /\ m = FoldLeft(LAMBDA a, b : Merge(type, a, b), ZeroOf(type), sent)

\* The reader of a message that was cut off either gives up or holds the
\* fields written before the cut, complete and in order (of a list perhaps
\* its first elements), and no other: never half a field.
CutKeepsWholeFields ==
    status = "done" /\ cut /\ err = "none" =>
        LET rows == Writes[type]
            num(k) == Number(rows[k])
            at(k) == m[num(k)]
            was(k) == sent[1][num(k)]
        IN  \E last \in 0..Len(rows) : \A k \in 1..Len(rows) :
                /\ k < last => at(k) = was(k)
                /\ k > last => at(k) = ZeroOf(type)[num(k)]
                /\ k = last => \/ at(k) = was(k)
                               \/ /\ Reads[type][num(k)].card = "repeated"
                                  /\ IsPrefix(at(k), was(k))

\* A field that is not well formed is refused, be it the tag, the length, the
\* group or the value that is wrong, also in a field the reader passes over.
DamageIsNoticed ==
    status = "done" /\ extra = "damaged" => err # "none"

\* Unmarshal comes to an end on every input: a turn of its loop uses at least
\* one byte, also for a field that is passed over.
EveryTurnAdvances == err = "none" => turns < pos
=============================================================================
