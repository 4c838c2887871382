--------------------------- MODULE UuidGenerator ----------------------------
(* The generator of common/uuid/generator.go, shared by the goroutines that *)
(* call NewV1 to NewV5.  Between two of their steps any other goroutine    *)
(* may run, the wall clock may stand still or step back, and the source of  *)
(* random bytes may fail.  sync.Once lets every caller wait until the first *)
(* one's function has returned, and keeps its error to that first caller.   *)
(* A time is a natural number; EpochBytes gives the 8 bytes of its value.   *)
EXTENDS Uuid

CONSTANTS
    Callers,      \* the goroutines
    Times,        \* what getEpoch may return
    EpochBytes,   \* the big-endian bytes of each of these times
    Seeds,        \* clock sequences that the random source may produce
    Domains,      \* the domains that NewV2 is called with
    Addresses,    \* hardware addresses: of an interface, or random
    Randoms,      \* 16 bytes of the random source, or of a hash
    UID,          \* the 4 bytes of posixUID
    GID,          \* and of posixGID
    MaxCalls,     \* bound on the number of calls
    None

Word == {n \in Nat : n < 65536}      \* uint16

ASSUME TimesAssumption == \A t \in Times : t \in Nat /\ t > 0
ASSUME EpochAssumption ==
    /\ \A t \in Times : EpochBytes[t] \in [1 .. 8 -> Byte]
    /\ \A t \in Times : EpochBytes[t][1] < 16        \* before the year 5236
    /\ \A t1, t2 \in Times : EpochBytes[t1] = EpochBytes[t2] => t1 = t2
ASSUME SeedsAssumption == \A s \in Seeds : s \in Word
ASSUME DomainsAssumption == Domains \subseteq Byte
ASSUME AddressesAssumption == \A a \in Addresses : a \in [1 .. 6 -> Byte]
ASSUME CallersAssumption == None \notin Callers
ASSUME BytesAssumption ==
    /\ Randoms \subseteq [1 .. Size -> Byte]
    /\ UID \in [1 .. 4 -> Byte] /\ GID \in [1 .. 4 -> Byte]
    /\ MaxCalls \in Nat

VARIABLES
    clockSequenceOnce, hardwareAddrOnce,   \* "new", "running", "done"
    storageMutex,                          \* its holder, or None
    lastTime, clockSequence, hardwareAddr,
    pc,        \* where each caller is
    job,       \* the version it asked for, and its domain
    stamp,     \* the time and the clock sequence it got; the call's number
               \* and the number of increments are history
    out,       \* what its last call returned
    seed,      \* history: what the clock sequence began at
    bumps,     \* history: how often it was incremented
    calls,     \* history: the number of calls so far
    issued     \* history: the V1 values returned, with their stamps

generator == <<clockSequenceOnce, hardwareAddrOnce, storageMutex, lastTime,
               clockSequence, hardwareAddr>>
vars == <<generator, pc, job, stamp, out, seed, bumps, calls, issued>>

Job(v, domain) == [v |-> v, domain |-> domain]
Stamp(k, t, n, seq) == [k |-> k, t |-> t, n |-> n, seq |-> seq]
Jobs == {Job(V1, DomainPerson)} \cup {Job(V2, d) : d \in Domains}

Init ==
    /\ clockSequenceOnce = "new" /\ hardwareAddrOnce = "new"
    /\ storageMutex = None
    /\ lastTime = 0 /\ clockSequence = 0
    /\ hardwareAddr = [i \in 1 .. 6 |-> 0]
    /\ pc = [c \in Callers |-> "idle"]
    /\ job = [c \in Callers |-> Job(V1, DomainPerson)]
    /\ stamp = [c \in Callers |-> Stamp(0, 0, 0, 0)]
    /\ out = [c \in Callers |-> Parsed(Nil)]
    /\ seed = 0 /\ bumps = 0 /\ calls = 0 /\ issued = {}
-----------------------------------------------------------------------------
goto(c, l) == pc' = [pc EXCEPT ![c] = l]
return(c, r) == out' = [out EXCEPT ![c] = r] /\ goto(c, "idle")

Begin(c) ==
    /\ pc[c] = "idle" /\ calls < MaxCalls
    /\ \E j \in Jobs : job' = [job EXCEPT ![c] = j]
    /\ calls' = calls + 1
    /\ stamp' = [stamp EXCEPT ![c] = Stamp(calls + 1, 0, 0, 0)]
    /\ goto(c, "seqOnce")
    /\ UNCHANGED <<generator, out, seed, bumps, issued>>

(* sync.Once.Do: the first caller runs the function, the others wait.      *)
entered(once) == once = "new"
passed(once) == once = "done"
\* Mutant: an error leaves the once undone, and its waiters waiting.
doneUnlessFailed(failed) == IF failed THEN "running" ELSE "done"
done(failed) == "done"

seqOnceEnter(c) ==
    /\ pc[c] = "seqOnce" /\ entered(clockSequenceOnce)
    /\ clockSequenceOnce' = "running"
    /\ goto(c, "seqInit")
    /\ UNCHANGED <<hardwareAddrOnce, storageMutex, lastTime, clockSequence, hardwareAddr,
                   job, stamp, out, seed, bumps, calls, issued>>

seqOncePass(c) ==
    /\ pc[c] = "seqOnce" /\ passed(clockSequenceOnce)
    /\ goto(c, "lock")
    /\ UNCHANGED <<generator, job, stamp, out, seed, bumps, calls, issued>>

seqInit(c) ==
    /\ pc[c] = "seqInit"
    /\ \/ /\ \E s \in Seeds : clockSequence' = s /\ seed' = s
          /\ clockSequenceOnce' = done(FALSE)
          /\ goto(c, "lock")
          /\ UNCHANGED out
       \/ /\ clockSequenceOnce' = done(TRUE)
          /\ return(c, BadText)             \* rand failed
          /\ UNCHANGED <<clockSequence, seed>>
    /\ UNCHANGED <<hardwareAddrOnce, storageMutex, lastTime, hardwareAddr,
                   job, stamp, bumps, calls, issued>>

(* The rest of getClockSequence, under storageMutex.                       *)
\* Mutant: the mutex is not taken.
always(m) == TRUE
free(m) == m = None

lock(c) ==
    /\ pc[c] = "lock" /\ free(storageMutex)
    /\ storageMutex' = c
    /\ goto(c, "epoch")
    /\ UNCHANGED <<clockSequenceOnce, hardwareAddrOnce, lastTime, clockSequence,
                   hardwareAddr, job, stamp, out, seed, bumps, calls, issued>>

stale(t) == t <= lastTime

incremented(s) == (s + 1) % 65536

readEpoch(c) ==
    /\ pc[c] = "epoch"
    /\ \E t \in Times :
         /\ stamp' = [stamp EXCEPT ![c] = Stamp(stamp[c].k, t, 0, 0)]
         /\ IF stale(t)
            THEN clockSequence' = incremented(clockSequence) /\ bumps' = bumps + 1
            ELSE UNCHANGED <<clockSequence, bumps>>
    /\ goto(c, "unlock")
    /\ UNCHANGED <<clockSequenceOnce, hardwareAddrOnce, storageMutex, lastTime,
                   hardwareAddr, job, out, seed, calls, issued>>

unlock(c) ==
    /\ pc[c] = "unlock"
    /\ lastTime' = stamp[c].t
    /\ stamp' = [stamp EXCEPT ![c] = Stamp(stamp[c].k, stamp[c].t, bumps, clockSequence)]
    /\ storageMutex' = None
    /\ goto(c, "hwOnce")
    /\ UNCHANGED <<clockSequenceOnce, hardwareAddrOnce, clockSequence, hardwareAddr,
                   job, out, seed, bumps, calls, issued>>

(* getHardwareAddr, then the bytes of the value.                           *)
hwOnceEnter(c) ==
    /\ pc[c] = "hwOnce" /\ entered(hardwareAddrOnce)
    /\ hardwareAddrOnce' = "running"
    /\ goto(c, "hwInit")
    /\ UNCHANGED <<clockSequenceOnce, storageMutex, lastTime, clockSequence, hardwareAddr,
                   job, stamp, out, seed, bumps, calls, issued>>

hwOncePass(c) ==
    /\ pc[c] = "hwOnce" /\ passed(hardwareAddrOnce)
    /\ goto(c, "build")
    /\ UNCHANGED <<generator, job, stamp, out, seed, bumps, calls, issued>>

multicast(a) == [a EXCEPT ![1] = IF @ % 2 = 0 THEN @ + 1 ELSE @]

hwInit(c) ==
    /\ pc[c] = "hwInit"
    /\ \/ /\ hardwareAddrOnce' = done(FALSE)
          /\ \E a \in Addresses :               \* an interface's, or random
               hardwareAddr' \in {a, multicast(a)}
          /\ goto(c, "build")
          /\ UNCHANGED out
       \/ /\ hardwareAddrOnce' = done(TRUE)
          /\ hardwareAddr' \in Addresses \cup {hardwareAddr}
          /\ return(c, BadText)                 \* rand failed, at once or midway
    /\ UNCHANGED <<clockSequenceOnce, storageMutex, lastTime, clockSequence,
                   job, stamp, seed, bumps, calls, issued>>

\* The bytes of NewV1: the time's low, middle and high parts, the clock
\* sequence, the address; the version and the variant overwrite six bits.
NewV1(s, addr) ==
    LET e == EpochBytes[s.t] IN
    SetVariant(SetVersion(
        <<e[5], e[6], e[7], e[8], e[3], e[4], e[1], e[2], s.seq \div 256, s.seq % 256,
          addr[1], addr[2], addr[3], addr[4], addr[5], addr[6]>>, V1), VariantRFC4122)

NewV2(u, domain) ==
    LET id == CASE domain = DomainPerson -> UID
                [] domain = DomainGroup  -> GID
                [] OTHER                 -> SubSeq(u, 1, 4)
    IN  SetVariant(SetVersion([i \in 1 .. Size |->
            IF i <= 4 THEN id[i] ELSE IF i = 10 THEN domain ELSE u[i]], V2), VariantRFC4122)

build(c) ==
    LET u == NewV1(stamp[c], hardwareAddr) IN
    /\ pc[c] = "build"
    /\ IF job[c].v = V1
       THEN /\ return(c, Parsed(u))
            /\ issued' = issued \cup {[s |-> stamp[c], u |-> u]}
       ELSE /\ return(c, Parsed(NewV2(u, job[c].domain)))
            /\ UNCHANGED issued
    /\ UNCHANGED <<generator, job, stamp, seed, bumps, calls>>

\* NewV3, NewV4 and NewV5 touch nothing shared: random bytes, which NewV4 may
\* fail to get, or the first bytes of a hash.
newFromHash(h, v) == SetVariant(SetVersion(h, v), VariantRFC4122)

NewV345(c) ==
    /\ pc[c] = "idle" /\ calls < MaxCalls
    /\ calls' = calls + 1
    /\ \/ \E h \in Randoms, v \in {V3, V4, V5} :
            job' = [job EXCEPT ![c] = Job(v, 0)] /\ return(c, Parsed(newFromHash(h, v)))
       \/ job' = [job EXCEPT ![c] = Job(V4, 0)] /\ return(c, BadText)
    /\ UNCHANGED <<generator, stamp, seed, bumps, issued>>

Step(c) == \/ seqOnceEnter(c) \/ seqOncePass(c) \/ seqInit(c) \/ lock(c) \/ readEpoch(c)
           \/ unlock(c) \/ hwOnceEnter(c) \/ hwOncePass(c) \/ hwInit(c) \/ build(c)

Next == \E c \in Callers : Begin(c) \/ NewV345(c) \/ Step(c)
Spec == Init /\ [][Next]_vars
\* A goroutine that can run does run.  (sync.Mutex is starvation-free.)
FairSpec == Spec /\ \A c \in Callers : WF_vars(Step(c) /\ pc[c] # "lock") /\ SF_vars(lock(c))
-----------------------------------------------------------------------------
StampType == [k : Nat, t : Nat, n : Nat, seq : Word]
JobType   == [v : V1 .. V5, domain : Byte]

TypeOK ==
    /\ clockSequenceOnce \in {"new", "running", "done"}
    /\ hardwareAddrOnce \in {"new", "running", "done"}
    /\ storageMutex \in Callers \cup {None}
    /\ lastTime \in Nat
    /\ clockSequence \in Word
    /\ hardwareAddr \in [1 .. 6 -> Byte]
    /\ pc \in [Callers -> {"idle", "seqOnce", "seqInit", "lock", "epoch", "unlock",
                           "hwOnce", "hwInit", "build"}]
    /\ job \in [Callers -> JobType]
    /\ stamp \in [Callers -> StampType]
    /\ seed \in Word /\ bumps \in Nat /\ calls \in Nat

(* The inductive invariant behind NoRepeat: the stamps given out so far.    *)
Stamped == {stamp[c] : c \in {d \in Callers : pc[d] \in {"hwOnce", "hwInit", "build"}}}
               \cup {a.s : a \in issued}

LocksHeld ==
    /\ \A c \in Callers : pc[c] \in {"epoch", "unlock"} <=> storageMutex = c
    /\ \A c \in Callers : pc[c] = "seqInit" => clockSequenceOnce = "running"
    /\ \A c, d \in Callers : pc[c] = "seqInit" /\ pc[d] = "seqInit" => c = d
    /\ clockSequenceOnce # "done" =>
         /\ bumps = 0 /\ issued = {}
         /\ \A c \in Callers : pc[c] \in {"idle", "seqOnce", "seqInit"}

StampsOrdered ==
    /\ clockSequence = (seed + bumps) % 65536
    /\ \A s \in Stamped :
         /\ s.t \in Times /\ s.n \in 0 .. bumps
         /\ s.seq = (seed + s.n) % 65536
         /\ s.n = bumps => s.t <= lastTime
    /\ \A c \in Callers : pc[c] = "unlock" =>
         /\ stamp[c].t \in Times
         /\ \A s \in Stamped : s.n = bumps => s.t < stamp[c].t
    /\ \A s1, s2 \in Stamped : s1.k # s2.k /\ s1.n = s2.n => s1.t # s2.t

\* The inductive invariant: stamps with one clock sequence have increasing times,
\* and lastTime is the last of them (generator.go:166-191).
IInv ==
    /\ LocksHeld
    /\ StampsOrdered
    /\ \A a \in issued : a.u = NewV1(a.s, [i \in 1 .. 6 |-> a.u[i + 10]])

(* The inductive invariant behind ReadsBack.                               *)
Value == [1 .. Size -> Byte]

Returned(r, v) ==
    \/ r \in {Parsed(Nil), BadText}
    \/ r = Parsed(r.u) /\ Version(r.u) = v /\ Variant(r.u) = VariantRFC4122

\* A caller with a clock sequence asked for version 1 or 2, and what a call returned
\* has the version asked for and the variant of RFC 4122 (generator.go:89-165).
OutInv ==
    /\ out \in [Callers -> [u : Value, err : BOOLEAN]]
    /\ \A c \in Callers : IF pc[c] = "idle" THEN Returned(out[c], job[c].v)
                                            ELSE job[c].v \in {V1, V2}

\* No two calls of NewV1 on one generator return the same value, whatever the
\* clock and the other callers do, as long as the clock repeated itself fewer
\* than 2^14 times between them: the two top bits of the clock sequence are lost
\* to the variant (generator.go:89-111, :166-191).
NoRepeat ==
    \A a, b \in issued :
        a.s.k # b.s.k /\ a.s.n <= b.s.n /\ b.s.n - a.s.n < 16384 => a.u # b.u

\* The forms of a UUID in the comment of UnmarshalText (codec.go:50-72), but for
\* the braced hash-like one, which has no case there.
Forms(u) ==
    {String(u), HexEncode(u), <<OpenBrace>> \o String(u) \o <<CloseBrace>>,
     urnPrefix \o String(u), urnPrefix \o HexEncode(u)}

\* Every value returned reads back as itself from each form, with the version that
\* its caller asked for and the variant of RFC 4122 (uuid.go:64-126), and its
\* canonical form is refused when one digit is a dash or one dash a digit
\* (codec.go:73-167).
ReadsBack ==
    \A c \in Callers : pc[c] = "idle" /\ out[c] \notin {Parsed(Nil), BadText} =>
        LET t == String(out[c].u) IN
        /\ \A f \in Forms(out[c].u) : UnmarshalText(f) = out[c]
        /\ Version(out[c].u) = job[c].v /\ Variant(out[c].u) = VariantRFC4122
        /\ \A i \in 1 .. Len(t) :
             FromStringOrNil([t EXCEPT ![i] = IF @ \in Digit THEN Dash ELSE 0]) = Nil
        /\ UnmarshalBinary(out[c].u) = out[c]

\* Every call returns: neither Once nor the mutex is left locked by a caller that
\* failed (generator.go:166-214).
CallsReturn == \A c \in Callers : pc[c] = "seqOnce" ~> pc[c] = "idle"
=============================================================================
