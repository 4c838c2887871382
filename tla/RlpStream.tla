----------------------------- MODULE RlpStream ------------------------------
(***************************************************************************)
(* A Stream of package common/rlp in the hands of its user, who may call   *)
(* any of its operations in any order, whatever the last one returned.     *)
(* The input is any of Inputs, or the encoding of a value of Jobs that the *)
(* user reads from EncodeToReader in pieces of any of the sizes in Chunks. *)
(***************************************************************************)
EXTENDS ClaimPayload

CONSTANTS
    Inputs,     \* byte sequences a Stream is opened on
    Jobs,       \* sequence of [t |-> Go type, v |-> value of it]
    Claims,     \* sequence of claims, sequences of packages
    Chunks      \* sizes of the buffers given to encReader.Read

VARIABLES
    job,        \* 0, the index of the value of Jobs, or that of a claim negated
    rd,         \* the encReader
    got,        \* what was read from it
    s,          \* the Stream
    ends,       \* where in the input the lists entered and not left end
    seen        \* where the values returned so far begin

vars == <<job, rd, got, s, ends, seen>>

\* A claim's payload as a relayer builds it.
PackageOf(p) ==
    <<p.channel, p.sequence,
      <<p.ptype>> \o [i \in 1..(CrossChainFeeLength - 1) |-> 0] \o <<p.fee>>
        \o EncodeToBytes(protoMetrics(p.channel)[p.ptype + 1], p.content).b>>

JobOf(j) ==
    IF j > 0 THEN Jobs[j]
    ELSE [t |-> TPackages, v |-> [i \in DOMAIN Claims[-j] |-> PackageOf(Claims[-j][i])]]

NoReader == [encReader(encbuf) EXCEPT !.open = FALSE]

\* A Stream opened on in, by a reader that knows its length or one that does not.
Open(in, sized) == s' = Reset(in, sized, 0) /\ ends' = <<>> /\ seen' = <<>>

Init ==
    /\ got = <<>> /\ ends = <<>> /\ seen = <<>>
    /\ \/ \E b \in Inputs, sized \in BOOLEAN :
             /\ job = 0 /\ rd = NoReader
             /\ s \in {Reset(b, sized, 0), NewListStream(b, sized, Len(b))}
       \/ \E j \in (-Len(Claims))..Len(Jobs) :
             LET w == encode(JobOf(j).t, JobOf(j).v)
             IN /\ j # 0 /\ job = j /\ s = Reset(<<>>, TRUE, 0)
                /\ rd = IF w.err = "" THEN encReader(w) ELSE NoReader

\* At EOF the bytes read are decoded.
ReadChunk(n) ==
    LET r == Read(rd, n)
    IN /\ rd.open
       /\ rd' = r.r /\ got' = got \o r.b
       /\ IF r.err = "EOF" THEN Open(got', TRUE) ELSE UNCHANGED <<s, ends, seen>>
       /\ UNCHANGED job

\* The outcome r of an operation that returns the value ahead when it succeeds.
Returns(r) ==
    /\ ~rd.open
    /\ s' = r.s
    /\ seen' = IF r.err = "" THEN Append(seen, r.s.tag) ELSE seen
    /\ UNCHANGED <<job, rd, got>>

CallKind == ~rd.open /\ s' = Kind(s).s /\ UNCHANGED <<job, rd, got, ends, seen>>

CallBytes == Returns(Bytes(s)) /\ UNCHANGED ends

CallRaw == Returns(Raw(s)) /\ UNCHANGED ends

CallUint == \E bits \in {8, 64} : Returns(uint(s, bits)) /\ UNCHANGED ends

CallBool == Returns(Bool(s)) /\ UNCHANGED ends

CallList ==
    LET entered(r) == Returns(r) /\ ends' = IF r.err = "" THEN Append(ends, r.s.at + r.v) ELSE ends
    IN entered(List(s))

CallListEnd ==
    LET r == ListEnd(s)
    IN /\ ~rd.open
       /\ s' = r.s
       /\ ends' = IF r.err = "" THEN Front(ends) ELSE ends
       /\ UNCHANGED <<job, rd, got, seen>>

\* The Stream is used again on the same bytes, wherever it stood.
CallReset == ~rd.open /\ Open(s.in, s.limited) /\ UNCHANGED <<job, rd, got>>

Next ==
    \/ \E n \in Chunks : ReadChunk(n)
    \/ CallKind \/ CallBytes \/ CallRaw \/ CallUint \/ CallBool
    \/ CallList \/ CallListEnd \/ CallReset

Spec == Init /\ [][Next]_vars

-----------------------------------------------------------------------------
(* The encoding rules of doc.go, on nested byte strings.                   *)

RECURSIVE Rule(_, _)

RuleHead(small, n) ==
    IF n < 56 THEN <<small + n>> ELSE <<small + 55 + Len(putint(n))>> \o putint(n)

RuleString(b) ==
    IF Len(b) = 1 /\ b[1] < 128 THEN b ELSE RuleHead(128, Len(b)) \o b

RuleList(items) ==
    LET body == FlattenSeq(items) IN RuleHead(192, Len(body)) \o body

RuleElems(e, v) == [i \in DOMAIN v |-> Rule(e, v[i])]

Rule(t, v) ==
    CASE t.k \in {"uint", "big"} -> RuleString(IF v = 0 THEN <<>> ELSE putint(v))
      [] t.k = "bool"   -> RuleString(IF v THEN <<1>> ELSE <<>>)
      [] t.k \in {"string", "bytes", "array"} -> RuleString(v)
      [] t.k = "raw"    -> v
      [] t.k \in {"list", "listarray"} -> RuleList(RuleElems(t.e, v))
      [] t.k = "tail"   -> FlattenSeq(RuleElems(t.e, v))
      [] t.k = "struct" -> RuleList([i \in DOMAIN v |-> Rule(t.f[i], v[i])])
      [] t.k = "ptr"    -> IF v # <<>> THEN Rule(t.e, v[1])
                           ELSE IF t.nil = "String" THEN <<128>> ELSE <<192>>
      [] t.k = "iface"  -> IF v.k = "List" THEN RuleList(RuleElems(t, v.v))
                           ELSE IF v.k = "nil" THEN <<192>> ELSE RuleString(v.v)

-----------------------------------------------------------------------------
\* A job whose encoding was read to its end.
Received == job # 0 /\ encode(JobOf(job).t, JobOf(job).v).err = "" /\ ~rd.open

\* The Stream as Reset left it.
Fresh == ~rd.open /\ s.at = 0 /\ s.stack = <<>> /\ s.kind = "none"

\* The listpos of a Stream stay in their lists, and the innermost list ends
\* where its type tag said: at every level, the bytes that pos leaves are
\* the bytes between the reader and the end of the list.  A reader without
\* a length may be short, never ahead (Stream.List, willRead and ListEnd).
ListAccounting ==
    /\ Len(ends) = Len(s.stack)
    /\ \A i \in DOMAIN ends :
          LET top  == i = Len(ends)
              left == s.stack[i].size - s.stack[i].pos - (IF top THEN 0 ELSE s.stack[i + 1].size)
              from == IF top THEN s.at ELSE ends[i + 1]
          IN /\ left >= 0
             /\ from + left <= ends[i]
             /\ s.limited => from + left = ends[i]

\* The values a Stream returns come in the order of the input and none comes
\* twice, whatever operations failed in between: each begins after the one
\* before it (the rearming of Kind in Bytes, Raw, uint, List and willRead).
NoValueTwice == \A i \in 2..Len(seen) : seen[i - 1] < seen[i]

\* The Stream and the functions on slices read the same RLP: where the Stream
\* stands before a value, Bytes and SplitString, and List and SplitList,
\* accept the same bytes, return the same content and leave the same rest.
StreamAgreesWithSplit ==
    LET rest == SubSeq(s.in, s.at + 1, IF ends = <<>> THEN Len(s.in) ELSE Last(ends))
        strings(r, str) ==
            /\ (r.err = "") <=> (str.err = "")
            /\ r.err = "" => r.v = str.content /\ r.s.at - s.at = Len(rest) - Len(str.rest)
        lists(r, lst) ==
            /\ (r.err = "") <=> (lst.err = "")
            /\ r.err = "" => r.v = Len(lst.content)
    IN ~rd.open /\ s.limited /\ s.kind = "none" =>
         strings(Bytes(s), SplitString(rest)) /\ lists(List(s), SplitList(rest))

\* A byte string that decodes into an interface{} is the encoding of what it
\* decodes to, so that no value has two encodings, and CountValues counts
\* its elements (ErrCanonSize, ErrMoreThanOneValue, ErrElemTooLarge).
OneEncoding ==
    LET r == DecodeBytes(s.in, TInterface)
    IN Fresh /\ r.err = "" =>
         /\ EncodeToBytes(TInterface, r.v).b = s.in
         /\ r.v.k = "List" => CountValues(SplitList(s.in).content) = Len(r.v.v)

\* toBytes, toWriter and an encReader read in pieces of any size produce the
\* bytes of the encoding rules, and as many as EncodeToReader announces.
EncodedByTheRules ==
    Received =>
      LET w == encode(JobOf(job).t, JobOf(job).v)
      IN /\ got = Rule(JobOf(job).t, JobOf(job).v)
         /\ got = toBytes(w)
         /\ got = FlattenSeq(toWriter(w))
         /\ Len(got) = encsize(w)

\* The job holds a byte array of length one that is zero, in a list.
RECURSIVE HasZeroByteArray(_, _)
HasZeroByteArray(t, v) ==
    \/ t.k = "array" /\ v = <<0>>
    \/ t.k = "struct" /\ \E i \in DOMAIN v : HasZeroByteArray(t.f[i], v[i])

\* A value comes back from DecodeBytes as it went into EncodeToBytes, for
\* every Go type but the byte array of length one that holds a zero.
RoundTrip ==
    Received /\ ~HasZeroByteArray(JobOf(job).t, JobOf(job).v) =>
      LET r == DecodeBytes(got, JobOf(job).t)
      IN r.err = "" /\ r.v = JobOf(job).v

\* ParseClaimPayload returns the packages of a claim, in order, each with
\* its type, fee and content.
ClaimsParsed ==
    Received /\ job < 0 =>
      ParseClaimPayload(got) =
        [v |-> [i \in DOMAIN Claims[-job] |->
                  [ptype |-> Claims[-job][i].ptype, fee |-> Claims[-job][i].fee,
                   content |-> Claims[-job][i].content]],
         err |-> ""]
=============================================================================
