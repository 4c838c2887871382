------------------------------ MODULE RlpCodec ------------------------------
(***************************************************************************)
(* The operations of package common/rlp: the encode buffer and its writers *)
(* (encode.go), the raw splitters (raw.go), the Stream with its operations *)
(* and the decoders of the Go types (decode.go, typecache.go).             *)
(*                                                                         *)
(* A byte is a number below 256 and a []byte a sequence of them.  A Go     *)
(* type is a record: its field k names the decoder that makeDecoder picks. *)
(* A pointer is an optional value, <<>> for nil.  An operation of a Stream *)
(* takes the Stream and returns it with a value and an error, "" for nil.  *)
(* A size of more than three bytes is out of the bounds of the model.      *)
(***************************************************************************)
EXTENDS Integers, Sequences, SequencesExt

RECURSIVE putint(_), intsize(_)

\* The big endian bytes of i, without leading zeros.
putint(i) == IF i < 256 THEN <<i>> ELSE Append(putint(i \div 256), i % 256)

intsize(i) == IF i < 256 THEN 1 ELSE 1 + intsize(i \div 256)

BigEndian(b) == FoldLeft(LAMBDA n, x : 256 * n + x, 0, b)

headsize(size) == IF size < 56 THEN 1 ELSE 1 + intsize(size)

puthead(smalltag, largetag, size) ==
    IF size < 56 THEN <<smalltag + size>>
    ELSE <<largetag + Len(putint(size))>> \o putint(size)

ListSize(contentSize) == headsize(contentSize) + contentSize

-----------------------------------------------------------------------------
(* The encode buffer: string data in str, the headers of the lists apart   *)
(* from it in lheads until toBytes, toWriter or encReader merge them.      *)

encbuf == [str |-> <<>>, lheads |-> <<>>, lhsize |-> 0, err |-> ""]

encsize(w) == Len(w.str) + w.lhsize

write(w, b) == [w EXCEPT !.str = @ \o b]

encodeStringHeader(w, size) == write(w, puthead(128, 183, size))

encodeString(w, b) ==
    IF Len(b) = 1 /\ b[1] <= 127 THEN write(w, b)
    ELSE write(encodeStringHeader(w, Len(b)), b)

list(w) ==
    [w EXCEPT !.lheads = Append(@, [offset |-> Len(w.str), size |-> w.lhsize])]

\* A nested list's header is counted by the enclosing one.
listEnd(w, lh) ==
    LET sz == encsize(w) - w.lheads[lh].offset - w.lheads[lh].size
    IN [w EXCEPT !.lheads[lh].size = sz,
                 !.lhsize = @ + (IF sz < 56 THEN 1 ELSE 1 + intsize(sz))]

listhead_encode(head) == puthead(192, 247, head.size)

toBytes(w) ==
    LET step(acc, head) ==
            [out |-> acc.out \o SubSeq(w.str, acc.strpos + 1, head.offset)
                             \o listhead_encode(head),
             strpos |-> head.offset]
        end == FoldLeft(step, [out |-> <<>>, strpos |-> 0], w.lheads)
    IN end.out \o SubSeq(w.str, end.strpos + 1, Len(w.str))

\* toWriter's writes, in order: an empty run of string data is not written.
toWriter(w) ==
    LET run(b) == IF b = <<>> THEN <<>> ELSE <<b>>
        step(acc, head) ==
            [out |-> acc.out \o run(SubSeq(w.str, acc.strpos + 1, head.offset))
                             \o <<listhead_encode(head)>>,
             strpos |-> head.offset]
        end == FoldLeft(step, [out |-> <<>>, strpos |-> 0], w.lheads)
    IN end.out \o run(SubSeq(w.str, end.strpos + 1, Len(w.str)))

-----------------------------------------------------------------------------
(* encReader, the io.Reader of EncodeToReader.  open is FALSE once the     *)
(* buffer went back to the pool.                                           *)

encReader(w) == [buf |-> w, open |-> TRUE, lhpos |-> 0, strpos |-> 0, piece |-> <<>>]

next(r) ==
    LET heads == r.buf.lheads
        head  == heads[r.lhpos + 1]
    IN CASE ~r.open -> r
         [] r.piece # <<>> -> r
         [] r.piece = <<>> /\ r.open /\ r.lhpos < Len(heads) ->
              IF head.offset > r.strpos
              THEN [r EXCEPT !.piece = SubSeq(r.buf.str, r.strpos + 1, head.offset),
                             !.strpos = head.offset]
              ELSE [r EXCEPT !.piece = listhead_encode(head), !.lhpos = @ + 1]
         [] OTHER -> [r EXCEPT !.piece = SubSeq(r.buf.str, r.strpos + 1, Len(r.buf.str)),
                               !.strpos = Len(r.buf.str)]

\* Mutant: the part of a piece that did not fit is lost.
remainderLost(piece, nn) == <<>>

\* What stays of a piece when its first nn bytes were copied.
remainder(piece, nn) == SubSeq(piece, nn + 1, Len(piece))

RECURSIVE Read(_, _)

\* Read into a buffer of n bytes.
Read(r, n) ==
    LET nx == next(r)
        nn == IF Len(nx.piece) < n THEN Len(nx.piece) ELSE n
        more == Read([nx EXCEPT !.piece = <<>>], n - nn)
    IN IF nx.piece = <<>> THEN [r |-> [nx EXCEPT !.open = FALSE], b |-> <<>>, err |-> "EOF"]
       ELSE IF nn < Len(nx.piece)
            THEN [r |-> [nx EXCEPT !.piece = remainder(@, nn)],
                  b |-> SubSeq(nx.piece, 1, nn), err |-> ""]
            ELSE [more EXCEPT !.b = nx.piece \o @]

-----------------------------------------------------------------------------
(* Go types.  A uint has its number of bits, an array its length n, a      *)
(* slice, list array or pointer its element type e, a struct the sequence  *)
(* f of the types of its exported fields without "-".  nil is the kind of  *)
(* a nil pointer's encoding, ok tells a pointer with one of the nil tags.  *)

defaultNilKind(e) ==
    IF e.k \in {"uint", "string", "bool", "bytes", "array"} THEN "String" ELSE "List"

TUint(bits)    == [k |-> "uint", bits |-> bits]
TBool          == [k |-> "bool"]
TString        == [k |-> "string"]
TBigInt        == [k |-> "big"]
TRawValue      == [k |-> "raw"]
TInterface     == [k |-> "iface"]
TBytes         == [k |-> "bytes"]
TByteArray(n)  == [k |-> "array", n |-> n]
TSlice(e)      == [k |-> "list", e |-> e]
TTail(e)       == [k |-> "tail", e |-> e]
TArray(n, e)   == [k |-> "listarray", n |-> n, e |-> e]
TStruct(f)     == [k |-> "struct", f |-> f]
TPtr(e)        == [k |-> "ptr", e |-> e, ok |-> FALSE, nil |-> defaultNilKind(e)]
TNilPtr(e, nk) == [k |-> "ptr", e |-> e, ok |-> TRUE, nil |-> nk]

writeUint(v, w) ==
    IF v = 0 THEN write(w, <<128>>)
    ELSE IF v < 128 THEN write(w, <<v>>)
    ELSE write(w, <<128 + Len(putint(v))>> \o putint(v))

writeBool(v, w) == write(w, IF v THEN <<1>> ELSE <<128>>)

writeBigInt(v, w) ==
    IF v < 0 THEN [w EXCEPT !.err = "negative"]
    ELSE IF v = 0 THEN write(w, <<128>>)
    ELSE encodeString(w, putint(v))

RECURSIVE writer(_, _, _)

\* The writers of the elements, until the first error.
writeElems(es, vs, w) ==
    FoldLeft(LAMBDA b, i : IF b.err # "" THEN b ELSE writer(es[i], vs[i], b),
             w, [i \in 1..Len(vs) |-> i])

SameType(e, vs) == [i \in 1..Len(vs) |-> e]

makeSliceWriter(t, v, w) ==
    IF t.k = "tail" THEN writeElems(SameType(t.e, v), v, w)
    ELSE listEnd(writeElems(SameType(t.e, v), v, list(w)), Len(w.lheads) + 1)

makeStructWriter(t, v, w) ==
    LET in == writeElems(t.f, v, list(w))
    IN IF in.err # "" THEN in ELSE listEnd(in, Len(w.lheads) + 1)

makePtrWriter(t, v, w) ==
    IF v # <<>> THEN writer(t.e, v[1], w)
    ELSE IF t.nil = "String" THEN write(w, <<128>>)
    ELSE listEnd(list(w), Len(w.lheads) + 1)

\* The dynamic value of an interface is a []byte or an []interface{}.
writeInterface(v, w) ==
    IF v.k = "nil" THEN write(w, <<192>>)
    ELSE IF v.k = "String" THEN encodeString(w, v.v)
    ELSE makeSliceWriter(TSlice(TInterface), v.v, w)

\* makeWriter's choice.
writer(t, v, w) ==
    CASE t.k = "raw"    -> write(w, v)
      [] t.k = "big"    -> writeBigInt(v, w)
      [] t.k = "ptr"    -> makePtrWriter(t, v, w)
      [] t.k = "uint"   -> writeUint(v, w)
      [] t.k = "bool"   -> writeBool(v, w)
      [] t.k \in {"string", "bytes", "array"} -> encodeString(w, v)
      [] t.k \in {"list", "tail", "listarray"} -> makeSliceWriter(t, v, w)
      [] t.k = "struct" -> makeStructWriter(t, v, w)
      [] t.k = "iface"  -> writeInterface(v, w)

encode(t, v) == writer(t, v, encbuf)

EncodeToBytes(t, v) ==
    LET w == encode(t, v)
    IN IF w.err # "" THEN [b |-> <<>>, err |-> w.err] ELSE [b |-> toBytes(w), err |-> ""]

-----------------------------------------------------------------------------
(* raw.go, on a byte slice.                                                *)

RawFail(e) == [k |-> "Byte", tagsize |-> 0, size |-> 0, err |-> e]

readSize(b, slen) ==
    LET s == BigEndian(SubSeq(b, 1, slen))
    IN CASE slen > Len(b) -> [size |-> 0, err |-> "UnexpectedEOF"]
         [] slen <= Len(b) /\ (s < 56 \/ b[1] = 0) -> [size |-> 0, err |-> "CanonSize"]
         [] OTHER -> [size |-> s, err |-> ""]

\* A header that a slice of n bytes has room for.
headFits(h, n) ==
    IF h.err # "" THEN RawFail(h.err)
    ELSE IF h.size > n - h.tagsize THEN RawFail("ValueTooLarge")
    ELSE h

rawReadKind(buf) ==
    LET long(k, slen, r) == [k |-> k, tagsize |-> slen + 1, size |-> r.size, err |-> r.err]
        head(b) ==
            CASE b < 128 -> [k |-> "Byte", tagsize |-> 0, size |-> 1, err |-> ""]
              [] b \in 128..183 ->
                   [k |-> "String", tagsize |-> 1, size |-> b - 128,
                    err |-> IF b = 129 /\ Len(buf) > 1 /\ buf[2] < 128
                            THEN "CanonSize" ELSE ""]
              [] b \in 184..191 -> long("String", b - 183, readSize(Tail(buf), b - 183))
              [] b \in 192..247 -> [k |-> "List", tagsize |-> 1, size |-> b - 192, err |-> ""]
              [] OTHER -> long("List", b - 247, readSize(Tail(buf), b - 247))
    IN IF buf = <<>> THEN RawFail("UnexpectedEOF") ELSE headFits(head(buf[1]), Len(buf))

Split(b) ==
    LET cut(h) ==
            IF h.err # "" THEN [k |-> "Byte", content |-> <<>>, rest |-> b, err |-> h.err]
            ELSE [k |-> h.k, content |-> SubSeq(b, h.tagsize + 1, h.tagsize + h.size),
                  rest |-> SubSeq(b, h.tagsize + h.size + 1, Len(b)), err |-> ""]
    IN cut(rawReadKind(b))

SplitExpected(b, kinds, e) ==
    LET expected(h) ==
            IF h.err = "" /\ h.k \notin kinds
            THEN [h EXCEPT !.content = <<>>, !.rest = b, !.err = e] ELSE h
    IN expected(Split(b))

SplitString(b) == SplitExpected(b, {"Byte", "String"}, "ExpectedString")

SplitList(b) == SplitExpected(b, {"List"}, "ExpectedList")

RECURSIVE CountValues(_)

\* -1 stands for an error.
CountValues(b) ==
    LET more(n) == IF n = -1 THEN -1 ELSE 1 + n
        count(h) == IF h.err # "" THEN -1 ELSE more(CountValues(h.rest))
    IN IF b = <<>> THEN 0 ELSE count(Split(b))

-----------------------------------------------------------------------------
(* The Stream.  in and at are the reader: its bytes and how many were      *)
(* read.  tag, which no operation reads, is where the type tag of the      *)
(* value ahead begins; the list of NewListStream has none.                 *)

OK(s, v)   == [s |-> s, v |-> v, err |-> ""]
Fail(s, e) == [s |-> s, v |-> <<>>, err |-> e]

\* What follows an operation, unless it failed.
then(r, Rest(_)) == IF r.err # "" THEN r ELSE Rest(r)

\* sized is the type switch of Reset: a reader that knows its length.
Reset(in, sized, inputLimit) ==
    [in |-> in, at |-> 0, tag |-> 0,
     limited |-> inputLimit > 0 \/ sized,
     remaining |-> IF inputLimit > 0 THEN inputLimit ELSE IF sized THEN Len(in) ELSE 0,
     kind |-> "none", size |-> 0, byteval |-> 0, kinderr |-> "", stack |-> <<>>]

NewListStream(in, sized, len) ==
    [Reset(in, sized, len) EXCEPT !.kind = "List", !.size = len, !.tag = -1]

\* A read of n bytes stays in the innermost list.
fits(s, n) ==
    LET top == Len(s.stack)
    IN top = 0 \/ n <= s.stack[top].size - s.stack[top].pos

willRead(s, n) ==
    LET top == Len(s.stack)
        s1  == [s EXCEPT !.kind = "none"]
        s2  == IF top = 0 THEN s1 ELSE [s1 EXCEPT !.stack[top].pos = @ + n]
    IN IF ~fits(s, n) THEN Fail(s1, "ElemTooLarge")
       ELSE IF s.limited /\ n > s.remaining THEN Fail(s2, "ValueTooLarge")
       ELSE OK([s2 EXCEPT !.remaining = IF s.limited THEN @ - n ELSE @], <<>>)

readFull(s, n) ==
    LET read(s1, got) ==
            IF Len(got) < n THEN Fail([s1 EXCEPT !.at = @ + Len(got)], "UnexpectedEOF")
            ELSE OK([s1 EXCEPT !.at = @ + n], got)
    IN then(willRead(s, n),
            LAMBDA w : read(w.s, SubSeq(s.in, s.at + 1, Min({s.at + n, Len(s.in)}))))

readByte(s) == then(readFull(s, 1), LAMBDA r : OK(r.s, r.v[1]))

readUint(s, size) ==
    CASE size = 0 -> OK([s EXCEPT !.kind = "none"], 0)
      [] size = 1 -> readByte(s)
      [] OTHER -> then(readFull(s, size), LAMBDA r :
                       IF r.v[1] = 0 THEN Fail(r.s, "CanonSize") ELSE OK(r.s, BigEndian(r.v)))

\* The kind and the size are returned in the Stream, where Kind puts them.
readKind(s) ==
    LET is(s1, k, size, e) == [s |-> [s1 EXCEPT !.kind = k, !.size = size], err |-> e]
        long(k, u) ==
            IF u.err # "" THEN is(u.s, k, 0, u.err)
            ELSE is(u.s, k, u.v, IF u.v < 56 THEN "CanonSize" ELSE "")
        tagged(s0, b) ==
            CASE b < 128 -> is([s0 EXCEPT !.byteval = b], "Byte", 0, "")
              [] b \in 128..183 -> is(s0, "String", b - 128, "")
              [] b \in 184..191 -> long("String", readUint(s0, b - 183))
              [] b \in 192..247 -> is(s0, "List", b - 192, "")
              [] OTHER -> long("List", readUint(s0, b - 247))
        eof(e) == Len(s.stack) = 0 /\ e \in {"UnexpectedEOF", "ValueTooLarge"}
        read(r) ==
            IF r.err # "" THEN is(r.s, "Byte", 0, IF eof(r.err) THEN "EOF" ELSE r.err)
            ELSE tagged([r.s EXCEPT !.byteval = 0], r.v)
    IN read(readByte(s))

\* The value ahead is larger than the input or than the innermost list.
sizeError(s) ==
    LET top == Len(s.stack)
    IN IF top = 0
       THEN IF s.limited /\ s.size > s.remaining THEN "ValueTooLarge" ELSE ""
       ELSE IF s.size > s.stack[top].size - s.stack[top].pos THEN "ElemTooLarge" ELSE ""

Kind(s) ==
    LET top == Len(s.stack)
        known(s1, err) == [s |-> [s1 EXCEPT !.kinderr = err, !.tag = s.at], v |-> <<>>, err |-> err]
        sized(r) == known(r.s, IF r.err # "" THEN r.err ELSE sizeError(r.s))
    IN IF s.kind # "none" THEN [s |-> s, v |-> <<>>, err |-> s.kinderr]
       ELSE IF top > 0 /\ s.stack[top].pos = s.stack[top].size
            THEN Fail([s EXCEPT !.kinderr = ""], "EOL")
       ELSE sized(readKind(s))

\* Mutant: Kind stays armed.
notRearmed(s) == s

\* Rearm Kind after a value that is all in its type tag.
rearm(s) == [s EXCEPT !.kind = "none"]

\* Mutant: a byte below 128 may also have a string header.
anyHeader(size, b) == FALSE

\* A string header on a byte that is its own encoding.
overlong(size, b) == size = 1 /\ b[1] < 128

\* The content of a string of n bytes.
readString(s, n) ==
    then(readFull(s, n), LAMBDA r : IF overlong(n, r.v) THEN Fail(r.s, "CanonSize") ELSE r)

Bytes(s) ==
    then(Kind(s), LAMBDA k :
         CASE k.s.kind = "Byte"   -> OK(rearm(k.s), <<k.s.byteval>>)
           [] k.s.kind = "String" -> readString(k.s, k.s.size)
           [] OTHER -> Fail(k.s, "ExpectedString"))

Raw(s) ==
    LET head(k, size) == IF k = "String" THEN puthead(128, 183, size) ELSE puthead(192, 247, size)
    IN then(Kind(s), LAMBDA k :
            IF k.s.kind = "Byte" THEN OK(rearm(k.s), <<k.s.byteval>>)
            ELSE then(readFull(k.s, k.s.size),
                      LAMBDA r : OK(r.s, head(k.s.kind, k.s.size) \o r.v)))

uint(s, maxbits) ==
    LET canonical(size, r) ==
            IF r.err = "CanonSize" THEN Fail(r.s, "CanonInt")
            ELSE IF r.err # "" THEN r
            ELSE IF size > 0 /\ r.v < 128 THEN Fail(r.s, "CanonSize")
            ELSE r
    IN then(Kind(s), LAMBDA k :
            CASE k.s.kind = "Byte" ->
                   IF k.s.byteval = 0 THEN [Fail(k.s, "CanonInt") EXCEPT !.v = 0]
                   ELSE OK(rearm(k.s), k.s.byteval)
              [] k.s.kind = "String" ->
                   IF k.s.size > maxbits \div 8 THEN Fail(k.s, "UintOverflow")
                   ELSE canonical(k.s.size, readUint(k.s, k.s.size))
              [] OTHER -> Fail(k.s, "ExpectedString"))

Bool(s) ==
    then(uint(s, 8), LAMBDA r :
         IF r.v > 1 THEN Fail(r.s, "invalid boolean") ELSE OK(r.s, r.v = 1))

List(s) ==
    LET push(s1) == [s1 EXCEPT !.stack = Append(@, [pos |-> 0, size |-> s1.size]),
                               !.kind = "none", !.size = 0]
    IN then(Kind(s), LAMBDA k :
            IF k.s.kind # "List" THEN Fail(k.s, "ExpectedList") ELSE OK(push(k.s), k.s.size))

\* Mutant: the enclosing list is not told of the bytes of the inner one.
leaveUncounted(s) == [s EXCEPT !.stack = Front(@), !.kind = "none", !.size = 0]

\* Back to the enclosing list, which counts the bytes of the inner one.
leave(s) ==
    LET top == Len(s.stack)
        out == IF top = 1 THEN s
               ELSE [s EXCEPT !.stack[top - 1].pos = @ + s.stack[top].size]
    IN [out EXCEPT !.stack = Front(@), !.kind = "none", !.size = 0]

ListEnd(s) ==
    LET top == Len(s.stack)
    IN IF top = 0 THEN Fail(s, "NotInList")
       ELSE IF s.stack[top].pos # s.stack[top].size THEN Fail(s, "NotAtEOL")
       ELSE OK(leave(s), <<>>)

-----------------------------------------------------------------------------
(* The decoders.  wrapStreamError only adds the type to an error.          *)

RECURSIVE decoder(_, _), decodeSliceElems(_, _, _)

decodeBigInt(s) ==
    then(Bytes(s), LAMBDA r :
         IF Len(r.v) > 0 /\ r.v[1] = 0 THEN Fail(r.s, "CanonInt") ELSE OK(r.s, BigEndian(r.v)))

\* acc holds the elements decoded so far; the end of the list ends the loop.
decodeSliceElems(e, s, acc) ==
    LET more(r) == IF r.err = "EOL" THEN OK(r.s, acc)
                   ELSE IF r.err # "" THEN r
                   ELSE decodeSliceElems(e, r.s, Append(acc, r.v))
    IN more(decoder(e, s))

\* Mutant: ListEnd is not called.
endSkipped(r) == r

\* ListEnd after the elements, which become the value.
ended(r) == then(r, LAMBDA q : then(ListEnd(q.s), LAMBDA end : OK(end.s, q.v)))

decodeListSlice(e, s) ==
    then(List(s), LAMBDA l :
         ended(IF l.v = 0 THEN OK(l.s, <<>>) ELSE decodeSliceElems(e, l.s, <<>>)))

\* One decoder for each of the types es, and too few when the list ends early.
decodeFields(es, s) ==
    LET add(v, d) == IF d.err = "EOL" THEN Fail(d.s, "too few elements")
                     ELSE IF d.err # "" THEN d
                     ELSE OK(d.s, Append(v, d.v))
        step(r, e) == IF r.err # "" THEN r ELSE add(r.v, decoder(e, r.s))
    IN then(List(s), LAMBDA l : ended(FoldLeft(step, OK(l.s, <<>>), es)))

decodeListArray(n, e, s) == decodeFields([i \in 1..n |-> e], s)

makeStructDecoder(f, s) == decodeFields(f, s)

\* The error of Uint for a zero byte is dropped, and Kind stays armed.
decodeByteArray(n, s) ==
    LET length(s1, size) == Fail(s1, IF n < size THEN "too long" ELSE "too short")
        one(b) == OK(b.s, <<b.v>>)
    IN then(Kind(s), LAMBDA k :
            CASE k.s.kind = "Byte"   -> IF n # 1 THEN length(k.s, 1) ELSE one(uint(k.s, 64))
              [] k.s.kind = "String" ->
                   IF n # k.s.size THEN length(k.s, k.s.size) ELSE readString(k.s, n)
              [] OTHER -> Fail(k.s, "ExpectedString"))

makeSimplePtrDecoder(t, s) == then(decoder(t.e, s), LAMBDA r : OK(r.s, <<r.v>>))

makeNilPtrDecoder(t, s) ==
    then(Kind(s), LAMBDA k :
         IF k.s.kind # "Byte" /\ k.s.size = 0
         THEN IF k.s.kind # t.nil THEN Fail(k.s, "wrong kind of empty value")
              ELSE OK(rearm(k.s), <<>>)
         ELSE makeSimplePtrDecoder(t, k.s))

decodeInterface(s) ==
    LET as(kind, r) == then(r, LAMBDA q : OK(q.s, [k |-> kind, v |-> q.v]))
    IN then(Kind(s), LAMBDA k :
            IF k.s.kind = "List" THEN as("List", decodeListSlice(TInterface, k.s))
            ELSE as("String", Bytes(k.s)))

\* makeDecoder's choice.
decoder(t, s) ==
    CASE t.k = "raw"       -> Raw(s)
      [] t.k = "big"       -> decodeBigInt(s)
      [] t.k = "ptr"       -> IF t.ok THEN makeNilPtrDecoder(t, s)
                                      ELSE makeSimplePtrDecoder(t, s)
      [] t.k = "uint"      -> uint(s, t.bits)
      [] t.k = "bool"      -> Bool(s)
      [] t.k \in {"string", "bytes"} -> Bytes(s)
      [] t.k = "array"     -> decodeByteArray(t.n, s)
      [] t.k = "list"      -> decodeListSlice(t.e, s)
      [] t.k = "tail"      -> decodeSliceElems(t.e, s, <<>>)
      [] t.k = "listarray" -> decodeListArray(t.n, t.e, s)
      [] t.k = "struct"    -> makeStructDecoder(t.f, s)
      [] t.k = "iface"     -> decodeInterface(s)

DecodeBytes(b, t) ==
    then(decoder(t, Reset(b, TRUE, Len(b))), LAMBDA r :
         IF r.s.at < Len(b) THEN Fail(r.s, "MoreThanOneValue") ELSE r)
=============================================================================
