----------------------------- MODULE UuidProofs -----------------------------
(* TLAPS proofs about UuidGenerator: the types, the inductive invariants,  *)
(* that NewV1 does not repeat a value, and that every value reads back from *)
(* its text, for any number of callers, any clock and any number of calls. *)
EXTENDS UuidGenerator, TLAPS

\* The steps, one by one.
LEMMA Steps ==
    ASSUME Next
    PROVE  \E c \in Callers :
              \/ Begin(c) \/ NewV345(c) \/ seqOnceEnter(c) \/ seqOncePass(c) \/ seqInit(c)
              \/ lock(c) \/ readEpoch(c) \/ unlock(c) \/ hwOnceEnter(c) \/ hwOncePass(c)
              \/ hwInit(c) \/ build(c)
  BY Zenon DEF Next, Step

\* An address with the multicast bit is an address.
LEMMA Multicast ==
    ASSUME NEW a \in [1 .. 6 -> Byte] PROVE multicast(a) \in [1 .. 6 -> Byte]
  <1>1. a[1] \in {n \in Nat : n < 256} BY DEF Byte
  <1>2. (IF a[1] % 2 = 0 THEN a[1] + 1 ELSE a[1]) \in Byte BY <1>1 DEF Byte
  <1> QED BY <1>2, Zenon DEF multicast

\* Stamps and jobs have their types.
LEMMA StampIn ==
    ASSUME NEW k \in Nat, NEW t \in Nat, NEW n \in Nat, NEW q \in Word
    PROVE  /\ Stamp(k, t, n, q) \in StampType
           /\ Stamp(k, t, n, q).k = k /\ Stamp(k, t, n, q).t = t
           /\ Stamp(k, t, n, q).n = n /\ Stamp(k, t, n, q).seq = q
  BY Zenon DEF Stamp, StampType

LEMMA StampParts ==
    ASSUME NEW s \in StampType
    PROVE  s.k \in Nat /\ s.t \in Nat /\ s.n \in Nat /\ s.seq \in Word
  BY Zenon DEF StampType

LEMMA JobIn == ASSUME NEW v \in V1 .. V5, NEW d \in Byte PROVE Job(v, d) \in JobType
  BY Zenon DEF Job, JobType

LEMMA JobsIn == Jobs \subseteq JobType
  <1>1. V1 \in V1 .. V5 /\ V2 \in V1 .. V5 /\ DomainPerson \in Byte
    BY DEF V1, V2, V5, DomainPerson, Byte
  <1>2. Domains \subseteq Byte
    BY DomainsAssumption, Zenon
  <1> QED BY <1>1, <1>2, JobIn, Zenon DEF Jobs

LEMMA ZeroAddress == [i \in 1 .. 6 |-> 0] \in [1 .. 6 -> Byte]
  BY DEF Byte

(* Every variable keeps its type.                                          *)
THEOREM TypeCorrect == Spec => []TypeOK
  <1>1. Init => TypeOK
    <2> SUFFICES ASSUME Init PROVE TypeOK
      OBVIOUS
    <2>1. job \in [Callers -> JobType]
      <3>1. Job(V1, DomainPerson) \in JobType
        BY JobsIn, Zenon DEF Jobs
      <3> QED BY <3>1, Zenon DEF Init
    <2>2. stamp \in [Callers -> StampType]
      <3>1. Stamp(0, 0, 0, 0) \in StampType
        BY StampIn DEF Word
      <3> QED BY <3>1 DEF Init
    <2>3. hardwareAddr \in [1 .. 6 -> Byte]
      BY ZeroAddress, Zenon DEF Init
    <2> QED BY <2>1, <2>2, <2>3 DEF Init, TypeOK, Word
  <1>2. TypeOK /\ [Next]_vars => TypeOK'
    <2> SUFFICES ASSUME TypeOK, [Next]_vars PROVE TypeOK'
      OBVIOUS
    <2>1. CASE UNCHANGED vars
      BY <2>1, Zenon DEF TypeOK, vars, generator
    <2>2. CASE Next
      <3>1. PICK c \in Callers :
              \/ Begin(c) \/ NewV345(c) \/ seqOnceEnter(c) \/ seqOncePass(c) \/ seqInit(c)
              \/ lock(c) \/ readEpoch(c) \/ unlock(c) \/ hwOnceEnter(c) \/ hwOncePass(c)
              \/ hwInit(c) \/ build(c)
        BY <2>2, Steps, Zenon
      <3>2. CASE Begin(c)
        <4>1. job' \in [Callers -> JobType]
          BY <3>2, JobsIn, Zenon DEF Begin, TypeOK
        <4>2. Stamp(calls + 1, 0, 0, 0) \in StampType
          BY StampIn DEF TypeOK, Word
        <4>3. stamp' \in [Callers -> StampType]
          BY <3>2, <4>2, Zenon DEF Begin, TypeOK
        <4> QED BY <3>2, <4>1, <4>3 DEF Begin, TypeOK, goto, generator
      <3>3. CASE NewV345(c)
        <4>1. \A v \in V3 .. V5 : Job(v, 0) \in JobType
          BY JobIn DEF V1, V3, V5, Byte
        <4>2. PICK v \in V3 .. V5 : job' = [job EXCEPT ![c] = Job(v, 0)]
          BY <3>3 DEF NewV345, V3, V4, V5
        <4>3. job' \in [Callers -> JobType]
          BY <4>1, <4>2, Zenon DEF TypeOK
        <4> QED BY <3>3, <4>3 DEF NewV345, TypeOK, goto, return, generator
      <3>4. CASE seqOnceEnter(c)
        BY <3>4, Zenon DEF seqOnceEnter, TypeOK, goto
      <3>5. CASE seqOncePass(c)
        BY <3>5, Zenon DEF seqOncePass, TypeOK, goto, generator
      <3>6. CASE seqInit(c)
        BY <3>6, SeedsAssumption, Zenon DEF seqInit, TypeOK, goto, return, done
      <3>7. CASE lock(c)
        BY <3>7, Zenon DEF lock, TypeOK, goto
      <3>8. CASE readEpoch(c)
        <4>1. clockSequence' \in Word /\ bumps' \in Nat
          BY <3>8 DEF readEpoch, TypeOK, incremented, Word
        <4>2. PICK t \in Times : stamp' = [stamp EXCEPT ![c] = Stamp(stamp[c].k, t, 0, 0)]
          BY <3>8, Zenon DEF readEpoch
        <4>3. Stamp(stamp[c].k, t, 0, 0) \in StampType
          <5>1. stamp[c].k \in Nat
            BY StampParts DEF TypeOK
          <5>2. t \in Nat /\ 0 \in Nat /\ 0 \in Word
            BY TimesAssumption DEF Word
          <5> QED BY StampIn, <5>1, <5>2, Zenon
        <4>4. stamp' \in [Callers -> StampType]
          BY <4>2, <4>3, Zenon DEF TypeOK
        <4> QED BY <3>8, <4>1, <4>4 DEF readEpoch, TypeOK, goto
      <3>9. CASE unlock(c)
        <4>1. stamp[c].k \in Nat /\ stamp[c].t \in Nat
          BY StampParts, Zenon DEF TypeOK
        <4>2. Stamp(stamp[c].k, stamp[c].t, bumps, clockSequence) \in StampType
          BY StampIn, <4>1, Zenon DEF TypeOK
        <4>3. stamp' \in [Callers -> StampType]
          BY <3>9, <4>2, Zenon DEF unlock, TypeOK
        <4> QED BY <3>9, <4>1, <4>3, Zenon DEF unlock, TypeOK, goto
      <3>10. CASE hwOnceEnter(c)
        BY <3>10, Zenon DEF hwOnceEnter, TypeOK, goto
      <3>11. CASE hwOncePass(c)
        BY <3>11, Zenon DEF hwOncePass, TypeOK, goto, generator
      <3>12. CASE hwInit(c)
        <4>1. hardwareAddr' \in [1 .. 6 -> Byte]
          <5>1. \A a \in Addresses : a \in [1 .. 6 -> Byte] /\ multicast(a) \in [1 .. 6 -> Byte]
            BY AddressesAssumption, Multicast, Zenon
          <5> QED BY <3>12, <5>1, Zenon DEF hwInit, TypeOK
        <4> QED BY <3>12, <4>1, Zenon DEF hwInit, TypeOK, goto, return, done
      <3>13. CASE build(c)
        BY <3>13, ZenonT(30) DEF build, TypeOK, goto, return, generator
      <3> QED BY <3>1, <3>2, <3>3, <3>4, <3>5, <3>6, <3>7, <3>8, <3>9, <3>10, <3>11, <3>12, <3>13, Zenon
    <2> QED BY <2>1, <2>2, Zenon
  <1> QED BY <1>1, <1>2, PTL DEF Spec
-----------------------------------------------------------------------------
(* What NewV1 keeps of a stamp: its time and 14 bits of its clock sequence. *)
LEMMA BytesOfV1 ==
    ASSUME NEW s, NEW addr
    PROVE  LET e == EpochBytes[s.t]
               u == NewV1(s, addr)
           IN  u = <<e[5], e[6], e[7], e[8], e[3], e[4], (e[1] % 16) + 16 * 1, e[2],
                     ((s.seq \div 256) % 64) + 128, s.seq % 256,
                     addr[1], addr[2], addr[3], addr[4], addr[5], addr[6]>>
  BY SMTT(30) DEF NewV1, SetVersion, SetVariant, V1, VariantNCS, VariantRFC4122, VariantMicrosoft

\* The last six bytes of NewV1 are the address.
LEMMA AddressOfV1 ==
    ASSUME NEW s, NEW addr
    PROVE  NewV1(s, addr) = NewV1(s, [i \in 1 .. 6 |-> NewV1(s, addr)[i + 10]])
  <1> DEFINE b == [i \in 1 .. 6 |-> NewV1(s, addr)[i + 10]]
  <1>1. /\ b[1] = addr[1] /\ b[2] = addr[2] /\ b[3] = addr[3]
        /\ b[4] = addr[4] /\ b[5] = addr[5] /\ b[6] = addr[6]
    BY BytesOfV1
  <1> QED BY <1>1, BytesOfV1

\* Two clock sequences that NewV1 writes alike agree in 14 bits.
LEMMA Fourteen ==
    ASSUME NEW p \in Word, NEW q \in Word,
           ((p \div 256) % 64) + 128 = ((q \div 256) % 64) + 128, p % 256 = q % 256
    PROVE  p % 16384 = q % 16384
  BY DEF Word

\* Equal values come from equal times and equal low bits of the clock sequence.
LEMMA StampOfV1 ==
    ASSUME NEW s1, NEW s2, NEW a1, NEW a2,
           s1.t \in Times, s2.t \in Times, s1.seq \in Word, s2.seq \in Word,
           NewV1(s1, a1) = NewV1(s2, a2)
    PROVE  s1.t = s2.t /\ s1.seq % 16384 = s2.seq % 16384
  <1> DEFINE e1 == EpochBytes[s1.t]
             e2 == EpochBytes[s2.t]
  <1>1. /\ e1[5] = e2[5] /\ e1[6] = e2[6] /\ e1[7] = e2[7] /\ e1[8] = e2[8]
        /\ e1[3] = e2[3] /\ e1[4] = e2[4] /\ e1[2] = e2[2]
        /\ (e1[1] % 16) + 16 * 1 = (e2[1] % 16) + 16 * 1
        /\ ((s1.seq \div 256) % 64) + 128 = ((s2.seq \div 256) % 64) + 128
        /\ s1.seq % 256 = s2.seq % 256
    BY BytesOfV1, ZenonT(30)
  <1>2. e1 \in [1 .. 8 -> Byte] /\ e2 \in [1 .. 8 -> Byte] /\ e1[1] < 16 /\ e2[1] < 16
    BY EpochAssumption, Zenon
  <1>3. e1[1] = e2[1]
    <2>1. e1[1] \in Nat /\ e2[1] \in Nat
      BY <1>2 DEF Byte
    <2>2. \A x, y \in Nat : x < 16 /\ y < 16 /\ (x % 16) + 16 * 1 = (y % 16) + 16 * 1 => x = y
      OBVIOUS
    <2> QED BY <1>1, <1>2, <2>1, <2>2, Zenon
  <1>4. e1 = e2
    BY <1>1, <1>2, <1>3
  <1>5. s1.t = s2.t
    BY <1>4, EpochAssumption, Zenon
  <1>6. s1.seq % 16384 = s2.seq % 16384
    BY <1>1, Fourteen
  <1> QED BY <1>5, <1>6

(* Counting from a seed keeps distances. *)
LEMMA Shift ==
    ASSUME NEW x \in Nat, NEW m \in Nat, NEW n \in Nat, NEW k \in Nat, m <= n, n - m < k
    PROVE  /\ x + m \in Nat /\ x + n \in Nat
           /\ x + m <= x + n /\ (x + n) - (x + m) < k
           /\ x + m = x + n => m = n
  OBVIOUS

(* Sixteen bits keep the fourteen that NewV1 writes. *)
LEMMA ModOfMod ==
    \A a \in Nat : (a % 65536) % 16384 = a % 16384
  OBVIOUS

(* Two numbers less than 2^14 apart differ modulo 2^14. *)
LEMMA ModWindow ==
    \A a, b \in Nat : a <= b /\ b - a < 16384 /\ a % 16384 = b % 16384 => a = b
  OBVIOUS

(* The argument for any two moduli with these two facts. *)
LEMMA WrapAny ==
    ASSUME NEW A \in Nat, NEW B \in Nat,
           \A a \in Nat : (a % B) % A = a % A,
           \A a, b \in Nat : a <= b /\ b - a < A /\ a % A = b % A => a = b,
           NEW x \in Nat, NEW m \in Nat, NEW n \in Nat, m <= n, n - m < A,
           NEW p, NEW q, p = (x + m) % B, q = (x + n) % B, p % A = q % A
    PROVE  m = n
  <1>1. p % A = (x + m) % A
    BY Shift, Zenon
  <1>2. q % A = (x + n) % A
    BY Shift, Zenon
  <1>3. (x + m) % A = (x + n) % A
    BY <1>1, <1>2, Zenon
  <1>4. x + m \in Nat /\ x + n \in Nat /\ x + m <= x + n /\ (x + n) - (x + m) < A
    BY Shift
  <1>5. x + m = x + n
    BY <1>3, <1>4, Zenon
  <1> QED BY <1>5

(* The same, for the clock sequences of the storage and NewV1. *)
LEMMA Wrap ==
    ASSUME NEW x \in Nat, NEW m \in Nat, NEW n \in Nat, m <= n, n - m < 16384,
           NEW p, NEW q, p = (x + m) % 65536, q = (x + n) % 65536, p % 16384 = q % 16384
    PROVE  m = n
  BY WrapAny, ModOfMod, ModWindow
-----------------------------------------------------------------------------
(* One fact for the steps that give out no stamp.                          *)
LEMMA NoNewStamp ==
    ASSUME StampsOrdered, Stamped' \subseteq Stamped,
           UNCHANGED <<clockSequence, seed, bumps, lastTime>>,
           \A c \in Callers : pc'[c] = "unlock" => pc[c] = "unlock" /\ stamp'[c] = stamp[c]
    PROVE  StampsOrdered'
  BY DEF StampsOrdered

\* The other steps of a caller that is not giving out a stamp.
LEMMA SameStamps ==
    ASSUME TypeOK, NEW c \in Callers, NEW l,
           pc' = [pc EXCEPT ![c] = l], UNCHANGED <<stamp, issued>>,
           l \in {"hwOnce", "hwInit", "build"} => pc[c] \in {"hwOnce", "hwInit", "build"}
    PROVE  Stamped' \subseteq Stamped
  <1> SUFFICES ASSUME NEW s \in Stamped' PROVE s \in Stamped
    OBVIOUS
  <1>1. CASE s \in {a.s : a \in issued'}
    BY <1>1, Zenon DEF Stamped
  <1>2. CASE \E d \in Callers : pc'[d] \in {"hwOnce", "hwInit", "build"} /\ s = stamp'[d]
    <2>1. PICK d \in Callers : pc'[d] \in {"hwOnce", "hwInit", "build"} /\ s = stamp'[d]
      BY <1>2, Zenon
    <2>2. pc[d] \in {"hwOnce", "hwInit", "build"}
      BY <2>1, Zenon DEF TypeOK
    <2> QED BY <2>1, <2>2, Zenon DEF Stamped
  <1> QED BY <1>1, <1>2, Zenon DEF Stamped

\* The generator starts with nobody holding a lock, and no stamp.
LEMMA InitIInv == Init => IInv
  <1> SUFFICES ASSUME Init PROVE IInv
    OBVIOUS
  <1>1. LocksHeld
    BY CallersAssumption, Zenon DEF Init, LocksHeld
  <1>2. Stamped = {}
    BY DEF Init, Stamped
  <1>3. StampsOrdered
    BY <1>2 DEF Init, StampsOrdered
  <1> QED BY <1>1, <1>3, Zenon DEF Init, IInv

\* A caller that starts has no stamp yet; NewV3, NewV4 and NewV5 take none.
LEMMA BeginIInv ==
    ASSUME TypeOK, IInv, NEW c \in Callers, Begin(c) \/ NewV345(c) PROVE IInv'
  <1>1. /\ pc[c] = "idle" /\ UNCHANGED <<generator, seed, bumps, issued>>
        /\ \A d \in Callers \ {c} : pc'[d] = pc[d] /\ stamp'[d] = stamp[d]
        /\ pc'[c] \in {"idle", "seqOnce"}
    BY Zenon DEF Begin, NewV345, TypeOK, goto, return
  <1>2. LocksHeld'
    BY <1>1, Zenon DEF IInv, LocksHeld, generator
  <1>3. Stamped' \subseteq Stamped
    <2> SUFFICES ASSUME NEW s \in Stamped' PROVE s \in Stamped
      OBVIOUS
    <2>1. CASE s \in {a.s : a \in issued'}
      BY <1>1, <2>1, Zenon DEF Stamped
    <2>2. CASE \E d \in Callers : pc'[d] \in {"hwOnce", "hwInit", "build"} /\ s = stamp'[d]
      BY <1>1, <2>2, Zenon DEF Stamped
    <2> QED BY <2>1, <2>2, Zenon DEF Stamped
  <1>4. StampsOrdered'
    BY <1>1, <1>3, NoNewStamp, Zenon DEF IInv, generator
  <1> QED BY <1>1, <1>2, <1>4, Zenon DEF IInv

\* Waiting for a once or for the mutex gives out no stamp.
LEMMA OnceIInv ==
    ASSUME TypeOK, IInv, NEW c \in Callers,
           seqOnceEnter(c) \/ seqOncePass(c) \/ hwOnceEnter(c) \/ hwOncePass(c) \/ lock(c)
    PROVE  IInv'
  <1>1. PICK l \in {"seqInit", "lock", "hwInit", "build", "epoch"} :
           /\ pc' = [pc EXCEPT ![c] = l]
           /\ l \in {"hwInit", "build"} => pc[c] = "hwOnce"
    BY Zenon DEF seqOnceEnter, seqOncePass, hwOnceEnter, hwOncePass, lock, goto
  <1>2. UNCHANGED <<stamp, issued, clockSequence, seed, bumps, lastTime>>
    BY Zenon DEF seqOnceEnter, seqOncePass, hwOnceEnter, hwOncePass, lock, generator
  <1>3. LocksHeld'
    <2>1. CASE seqOnceEnter(c)
      BY <2>1, Zenon DEF seqOnceEnter, goto, entered, IInv, LocksHeld, TypeOK
    <2>2. CASE seqOncePass(c)
      BY <2>2, Zenon DEF seqOncePass, goto, passed, IInv, LocksHeld, TypeOK, generator
    <2>3. CASE hwOnceEnter(c) \/ hwOncePass(c)
      BY <2>3, ZenonT(30) DEF hwOnceEnter, hwOncePass, goto, IInv, LocksHeld, TypeOK, generator
    <2>4. CASE lock(c)
      BY <2>4, CallersAssumption, Zenon DEF lock, free, goto, IInv, LocksHeld, TypeOK
    <2> QED BY <2>1, <2>2, <2>3, <2>4, Zenon
  <1>4. Stamped' \subseteq Stamped
    <2>1. l \in {"hwOnce", "hwInit", "build"} => pc[c] \in {"hwOnce", "hwInit", "build"}
      BY <1>1, Zenon
    <2>2. pc' = [pc EXCEPT ![c] = l] /\ UNCHANGED <<stamp, issued>>
      BY <1>1, <1>2, Zenon
    <2> QED BY <2>1, <2>2, SameStamps, Zenon
  <1>5. \A d \in Callers : pc'[d] = "unlock" => pc[d] = "unlock" /\ stamp'[d] = stamp[d]
    BY <1>1, <1>2, Zenon DEF TypeOK
  <1>6. StampsOrdered'
    BY <1>2, <1>4, <1>5, NoNewStamp, Zenon DEF IInv
  <1> QED BY <1>2, <1>3, <1>6, Zenon DEF IInv

\* Before the once is done nobody has a stamp, so the seed may still change.
LEMMA SeqInitIInv == ASSUME TypeOK, IInv, NEW c \in Callers, seqInit(c) PROVE IInv'
  <1>1. /\ pc[c] = "seqInit" /\ clockSequenceOnce = "running"
        /\ bumps = 0 /\ issued = {}
        /\ \A d \in Callers : pc[d] \in {"idle", "seqOnce", "seqInit"}
    BY Zenon DEF seqInit, IInv, LocksHeld
  <1>2. PICK l \in {"lock", "idle"} : pc' = [pc EXCEPT ![c] = l]
    <2>1. goto(c, "lock") \/ goto(c, "idle")
      BY Zenon DEF seqInit, return
    <2> QED BY <2>1, Zenon DEF goto
  <1>3. UNCHANGED <<storageMutex, stamp, bumps, lastTime, issued>> /\ clockSequenceOnce' = "done"
    BY Zenon DEF seqInit, done
  <1>4. LocksHeld'
    BY <1>1, <1>2, <1>3 DEF IInv, LocksHeld, TypeOK
  <1>5. \A d \in Callers : pc'[d] \in {"idle", "seqOnce", "seqInit", "lock"}
    BY <1>1, <1>2, Zenon DEF TypeOK
  <1>6. Stamped' = {}
    BY <1>1, <1>3, <1>5, Zenon DEF Stamped
  <1>7. clockSequence' = (seed' + bumps') % 65536
    <2>1. CASE \E s \in Seeds : clockSequence' = s /\ seed' = s
      BY <1>1, <1>3, <2>1, SeedsAssumption DEF Word
    <2>2. CASE UNCHANGED <<clockSequence, seed>>
      BY <1>1, <1>3, <2>2 DEF IInv, StampsOrdered
    <2>3. (\E s \in Seeds : clockSequence' = s /\ seed' = s) \/ UNCHANGED <<clockSequence, seed>>
      BY Zenon DEF seqInit
    <2> QED BY <2>1, <2>2, <2>3
  <1>8. StampsOrdered'
    BY <1>5, <1>6, <1>7 DEF StampsOrdered
  <1> QED BY <1>1, <1>3, <1>4, <1>8, Zenon DEF IInv

\* Neither does getting the hardware address.
LEMMA HwInitIInv == ASSUME TypeOK, IInv, NEW c \in Callers, hwInit(c) PROVE IInv'
  <1>1. PICK l \in {"build", "idle"} : pc' = [pc EXCEPT ![c] = l] /\ pc[c] = "hwInit"
    <2>1. pc[c] = "hwInit" /\ (goto(c, "build") \/ goto(c, "idle"))
      BY Zenon DEF hwInit, return
    <2> QED BY <2>1, Zenon DEF goto
  <1>2. UNCHANGED <<clockSequenceOnce, storageMutex, stamp, issued, clockSequence, seed,
                    bumps, lastTime>>
    BY Zenon DEF hwInit
  <1>3. LocksHeld'
    BY <1>1, <1>2, Zenon DEF IInv, LocksHeld, TypeOK
  <1>4. Stamped' \subseteq Stamped
    <2>1. l \in {"hwOnce", "hwInit", "build"} => pc[c] \in {"hwOnce", "hwInit", "build"}
      BY <1>1, Zenon
    <2>2. pc' = [pc EXCEPT ![c] = l] /\ UNCHANGED <<stamp, issued>>
      BY <1>1, <1>2, Zenon
    <2> QED BY <2>1, <2>2, SameStamps, Zenon
  <1>5. \A d \in Callers : pc'[d] = "unlock" => pc[d] = "unlock" /\ stamp'[d] = stamp[d]
    BY <1>1, <1>2, Zenon DEF TypeOK
  <1>6. StampsOrdered'
    BY <1>2, <1>4, <1>5, NoNewStamp, Zenon DEF IInv
  <1> QED BY <1>2, <1>3, <1>6, Zenon DEF IInv

\* The clock sequence moves on when the time does not: no stamp has the new pair.
LEMMA ReadEpochIInv == ASSUME TypeOK, IInv, NEW c \in Callers, readEpoch(c) PROVE IInv'
  <1>1. pc[c] = "epoch" /\ pc' = [pc EXCEPT ![c] = "unlock"]
    BY Zenon DEF readEpoch, goto
  <1>2. UNCHANGED <<clockSequenceOnce, storageMutex, issued, seed, lastTime>>
    BY Zenon DEF readEpoch
  <1>3. PICK t \in Times :
          /\ stamp' = [stamp EXCEPT ![c] = Stamp(stamp[c].k, t, 0, 0)]
          /\ IF stale(t)
             THEN clockSequence' = incremented(clockSequence) /\ bumps' = bumps + 1
             ELSE UNCHANGED <<clockSequence, bumps>>
    BY Zenon DEF readEpoch
  <1>4. clockSequenceOnce = "done" /\ storageMutex = c
    BY <1>1, Zenon DEF IInv, LocksHeld, TypeOK
  <1>5. LocksHeld'
    BY <1>1, <1>2, <1>4, Zenon DEF IInv, LocksHeld, TypeOK
  <1>6. Stamped' \subseteq Stamped
    <2> SUFFICES ASSUME NEW s \in Stamped' PROVE s \in Stamped
      OBVIOUS
    <2>1. CASE s \in {a.s : a \in issued'}
      BY <1>2, <2>1, Zenon DEF Stamped
    <2>2. CASE \E d \in Callers : pc'[d] \in {"hwOnce", "hwInit", "build"} /\ s = stamp'[d]
      <3>1. PICK d \in Callers : pc'[d] \in {"hwOnce", "hwInit", "build"} /\ s = stamp'[d]
        BY <2>2, Zenon
      <3>2. d # c /\ pc'[d] = pc[d] /\ stamp'[d] = stamp[d]
        BY <1>1, <1>3, <3>1 DEF TypeOK
      <3> QED BY <3>1, <3>2, Zenon DEF Stamped
    <2> QED BY <2>1, <2>2, Zenon DEF Stamped
  <1>7. bumps \in Nat /\ seed \in Nat /\ lastTime \in Nat /\ t \in Nat
    BY TimesAssumption DEF TypeOK, Word
  <1>8. stamp'[c].t = t
    BY <1>3, Zenon DEF TypeOK, Stamp
  <1>9. \A d \in Callers : pc'[d] = "unlock" => d = c
    BY <1>1, <1>4 DEF IInv, LocksHeld, TypeOK
  <1>10. ASSUME stale(t) PROVE StampsOrdered'
    <2>1. bumps' = bumps + 1 /\ clockSequence' = (clockSequence + 1) % 65536
      BY <1>3, <1>10 DEF incremented
    <2>2. clockSequence = (seed + bumps) % 65536
      BY DEF IInv, StampsOrdered
    <2>3. clockSequence' = (seed' + bumps') % 65536
      BY <1>2, <1>7, <2>1, <2>2
    <2>4. \A s \in Stamped' : s.t \in Times /\ s.n \in 0 .. bumps /\ s.seq = (seed + s.n) % 65536
      BY <1>6 DEF IInv, StampsOrdered
    <2>5. \A s \in Stamped' : s.n \in 0 .. bumps' /\ s.n # bumps'
      BY <1>7, <2>1, <2>4
    <2>6. \A s1, s2 \in Stamped' : s1.k # s2.k /\ s1.n = s2.n => s1.t # s2.t
      BY <1>6 DEF IInv, StampsOrdered
    <2> QED BY <1>2, <1>8, <1>9, <2>3, <2>4, <2>5, <2>6 DEF StampsOrdered
  <1>11. ASSUME ~stale(t) PROVE StampsOrdered'
    <2>1. UNCHANGED <<bumps, clockSequence>> /\ lastTime < t
      BY <1>3, <1>7, <1>11 DEF stale
    <2>2. \A s \in Stamped' :
            /\ s.t \in Times /\ s.n \in 0 .. bumps /\ s.seq = (seed + s.n) % 65536
            /\ s.n = bumps => s.t <= lastTime
      BY <1>6 DEF IInv, StampsOrdered
    <2>3. \A s \in Stamped' : s.n = bumps => s.t < t
      <3> SUFFICES ASSUME NEW s \in Stamped', s.n = bumps PROVE s.t < t
        OBVIOUS
      <3>1. s.t \in Nat /\ s.t <= lastTime
        BY <2>2, TimesAssumption
      <3> QED BY <1>7, <2>1, <3>1
    <2>4. \A s1, s2 \in Stamped' : s1.k # s2.k /\ s1.n = s2.n => s1.t # s2.t
      BY <1>6 DEF IInv, StampsOrdered
    <2>5. clockSequence = (seed + bumps) % 65536
      BY DEF IInv, StampsOrdered
    <2> QED BY <1>2, <1>8, <1>9, <2>1, <2>2, <2>3, <2>4, <2>5 DEF StampsOrdered
  <1>12. StampsOrdered'
    BY <1>10, <1>11, Zenon
  <1> QED BY <1>2, <1>5, <1>12, Zenon DEF IInv

\* The stamp given out at the unlock is later than all with its clock sequence.
LEMMA UnlockIInv == ASSUME TypeOK, IInv, NEW c \in Callers, unlock(c) PROVE IInv'
  <1> DEFINE new == Stamp(stamp[c].k, stamp[c].t, bumps, clockSequence)
  <1>1. /\ pc[c] = "unlock" /\ pc' = [pc EXCEPT ![c] = "hwOnce"]
        /\ stamp' = [stamp EXCEPT ![c] = new] /\ lastTime' = stamp[c].t
        /\ storageMutex' = None
        /\ UNCHANGED <<clockSequenceOnce, clockSequence, seed, bumps, issued>>
    BY Zenon DEF unlock, goto
  <1>2. storageMutex = c /\ clockSequenceOnce = "done"
    BY <1>1, Zenon DEF IInv, LocksHeld, TypeOK
  <1>3. LocksHeld'
    BY <1>1, <1>2, CallersAssumption, Zenon DEF IInv, LocksHeld, TypeOK
  <1>4. Stamped' \subseteq Stamped \cup {new}
    <2> SUFFICES ASSUME NEW s \in Stamped' PROVE s \in Stamped \cup {new}
      OBVIOUS
    <2>1. CASE s \in {a.s : a \in issued'}
      BY <1>1, <2>1, Zenon DEF Stamped
    <2>2. CASE \E d \in Callers : pc'[d] \in {"hwOnce", "hwInit", "build"} /\ s = stamp'[d]
      <3>1. PICK d \in Callers : pc'[d] \in {"hwOnce", "hwInit", "build"} /\ s = stamp'[d]
        BY <2>2, Zenon
      <3>2. CASE d = c
        BY <1>1, <3>1, <3>2, Zenon DEF TypeOK
      <3>3. CASE d # c
        BY <1>1, <3>1, <3>3 DEF TypeOK, Stamped
      <3> QED BY <3>2, <3>3, Zenon
    <2> QED BY <2>1, <2>2, Zenon DEF Stamped
  <1>5. new.t = stamp[c].t /\ new.n = bumps /\ new.seq = clockSequence
    BY Zenon DEF Stamp
  <1>6. /\ bumps \in Nat /\ stamp[c].t \in Times /\ stamp[c].t \in Nat
        /\ clockSequence = (seed + bumps) % 65536
    BY <1>1, TimesAssumption DEF TypeOK, IInv, StampsOrdered
  <1>7. \A s \in Stamped :
          /\ s.t \in Times /\ s.n \in 0 .. bumps /\ s.seq = (seed + s.n) % 65536
          /\ s.n = bumps => s.t < stamp[c].t
    BY <1>1 DEF IInv, StampsOrdered
  <1>8. \A s \in Stamped' :
          /\ s.t \in Times /\ s.n \in 0 .. bumps /\ s.seq = (seed + s.n) % 65536
          /\ s.n = bumps => s.t <= stamp[c].t
    <2> SUFFICES ASSUME NEW s \in Stamped'
                 PROVE  /\ s.t \in Times /\ s.n \in 0 .. bumps /\ s.seq = (seed + s.n) % 65536
                        /\ s.n = bumps => s.t <= stamp[c].t
      OBVIOUS
    <2>1. CASE s = new
      <3> HIDE DEF new
      <3> QED BY <2>1, <1>5, <1>6
    <2>2. CASE s \in Stamped
      BY <2>2, <1>6, <1>7, TimesAssumption
    <2> QED BY <2>1, <2>2, <1>4
  <1>9. \A s1, s2 \in Stamped' : s1.k # s2.k /\ s1.n = s2.n => s1.t # s2.t
    <2> SUFFICES ASSUME NEW s1 \in Stamped', NEW s2 \in Stamped', s1.k # s2.k, s1.n = s2.n
                 PROVE  s1.t # s2.t
      OBVIOUS
    <2>1. CASE s1 \in Stamped /\ s2 \in Stamped
      BY <2>1 DEF IInv, StampsOrdered
    <2>2. CASE s1 = new /\ s2 \in Stamped
      <3> HIDE DEF new
      <3> QED BY <2>2, <1>5, <1>6, <1>7, TimesAssumption
    <2>3. CASE s2 = new /\ s1 \in Stamped
      <3> HIDE DEF new
      <3> QED BY <2>3, <1>5, <1>6, <1>7, TimesAssumption
    <2> QED BY <2>1, <2>2, <2>3, <1>4, Zenon
  <1>10. \A d \in Callers : pc'[d] # "unlock"
    BY <1>1, <1>2 DEF IInv, LocksHeld, TypeOK
  <1>11. StampsOrdered'
    BY <1>1, <1>6, <1>8, <1>9, <1>10 DEF StampsOrdered
  <1> QED BY <1>1, <1>3, <1>11, Zenon DEF IInv

\* The value is built from the caller's own stamp.
LEMMA BuildIInv == ASSUME TypeOK, IInv, NEW c \in Callers, build(c) PROVE IInv'
  <1> DEFINE u == NewV1(stamp[c], hardwareAddr)
             issue == [s |-> stamp[c], u |-> u]
  <1>1. pc[c] = "build" /\ pc' = [pc EXCEPT ![c] = "idle"]
    <2>1. pc[c] = "build" /\ goto(c, "idle")
      BY Zenon DEF build, return
    <2> QED BY <2>1, Zenon DEF goto
  <1>2. UNCHANGED <<clockSequenceOnce, storageMutex, stamp, clockSequence, seed, bumps, lastTime>>
    BY Zenon DEF build, generator
  <1>3. issued' = issued \/ issued' = issued \cup {issue}
    BY Zenon DEF build
  <1>4. clockSequenceOnce = "done"
    BY <1>1, Zenon DEF IInv, LocksHeld, TypeOK
  <1>5. LocksHeld'
    BY <1>1, <1>2, <1>4, Zenon DEF IInv, LocksHeld, TypeOK
  <1>6. issue.s = stamp[c] /\ issue.u = u
    OBVIOUS
  <1>7. stamp[c] \in Stamped
    BY <1>1, Zenon DEF Stamped
  <1> HIDE DEF issue
  <1>8. Stamped' \subseteq Stamped
    <2> SUFFICES ASSUME NEW s \in Stamped' PROVE s \in Stamped
      OBVIOUS
    <2>1. CASE s \in {a.s : a \in issued'}
      <3>1. PICK a \in issued' : s = a.s
        BY <2>1, Zenon
      <3>2. CASE a \in issued
        BY <3>1, <3>2, Zenon DEF Stamped
      <3>3. CASE a = issue
        BY <3>1, <3>3, <1>6, <1>7, Zenon
      <3> QED BY <3>2, <3>3, <1>3, Zenon
    <2>2. CASE \E d \in Callers : pc'[d] \in {"hwOnce", "hwInit", "build"} /\ s = stamp'[d]
      <3>1. PICK d \in Callers : pc'[d] \in {"hwOnce", "hwInit", "build"} /\ s = stamp'[d]
        BY <2>2
      <3>2. pc[d] \in {"hwOnce", "hwInit", "build"} /\ s = stamp[d]
        BY <1>1, <1>2, <3>1, Zenon DEF TypeOK
      <3> QED BY <3>2, Zenon DEF Stamped
    <2> QED BY <2>1, <2>2, Zenon DEF Stamped
  <1>9. \A d \in Callers : pc'[d] = "unlock" => pc[d] = "unlock" /\ stamp'[d] = stamp[d]
    BY <1>1, <1>2, Zenon DEF TypeOK
  <1>10. StampsOrdered'
    BY <1>2, <1>8, <1>9, NoNewStamp, Zenon DEF IInv
  <1>11. \A a \in issued' : a.u = NewV1(a.s, [i \in 1 .. 6 |-> a.u[i + 10]])
    <2> SUFFICES ASSUME NEW a \in issued'
                 PROVE  a.u = NewV1(a.s, [i \in 1 .. 6 |-> a.u[i + 10]])
      OBVIOUS
    <2>1. CASE a \in issued
      BY <2>1, Zenon DEF IInv
    <2>2. CASE a = issue
      <3>1. NewV1(stamp[c], hardwareAddr)
              = NewV1(stamp[c], [i \in 1 .. 6 |-> NewV1(stamp[c], hardwareAddr)[i + 10]])
        BY AddressOfV1, Zenon
      <3> QED BY <2>2, <1>6, <3>1, Zenon
    <2> QED BY <2>1, <2>2, <1>3, Zenon
  <1>12. (\A a \in issued : a.u = NewV1(a.s, [i \in 1 .. 6 |-> a.u[i + 10]]))'
    BY <1>11, Zenon DEF NewV1
  <1> QED BY <1>5, <1>10, <1>12, Zenon DEF IInv

(* IInv is inductive: whatever the callers do, stamps with one clock       *)
(* sequence have increasing times (generator.go:166-191).                  *)
THEOREM Inductive == Spec => []IInv
  <1>1. TypeOK /\ IInv /\ [Next]_vars => IInv'
    <2> SUFFICES ASSUME TypeOK, IInv, [Next]_vars PROVE IInv'
      OBVIOUS
    <2>1. CASE UNCHANGED vars
      <3>1. UNCHANGED <<pc, stamp, issued, clockSequenceOnce, storageMutex, clockSequence, seed, bumps,
                        lastTime>>
        BY <2>1, Zenon DEF vars, generator
      <3>2. LocksHeld /\ StampsOrdered
        BY Zenon DEF IInv
      <3>3. LocksHeld'
        BY <3>1, <3>2, Zenon DEF LocksHeld
      <3>4. Stamped' \subseteq Stamped
        BY <3>1, Zenon DEF Stamped
      <3>5. StampsOrdered'
        BY <3>1, <3>2, <3>4, NoNewStamp, Zenon
      <3>6. \A a \in issued' : a.u = NewV1(a.s, [i \in 1 .. 6 |-> a.u[i + 10]])
        BY <3>1, ZenonT(30) DEF IInv
      <3>7. (\A a \in issued : a.u = NewV1(a.s, [i \in 1 .. 6 |-> a.u[i + 10]]))'
        BY <3>6, Zenon DEF NewV1
      <3> QED BY <3>3, <3>5, <3>7, Zenon DEF IInv
    <2>2. CASE Next
      BY <2>2, Steps, BeginIInv, OnceIInv, SeqInitIInv, HwInitIInv, ReadEpochIInv, UnlockIInv,
         BuildIInv, Zenon
    <2> QED BY <2>1, <2>2, Zenon
  <1> QED BY <1>1, InitIInv, TypeCorrect, PTL DEF Spec

(* NewV1 never returns one value twice within 2^14 increments of the clock *)
(* sequence, for any number of goroutines and any behaviour of the clock   *)
(* (generator.go:89-111).                                                  *)
THEOREM NeverRepeats == Spec => []NoRepeat
  <1>1. TypeOK /\ IInv => NoRepeat
    <2> SUFFICES ASSUME TypeOK, IInv, NEW a \in issued, NEW b \in issued,
                        a.s.k # b.s.k, a.s.n <= b.s.n, b.s.n - a.s.n < 16384, a.u = b.u
                 PROVE  FALSE
      BY DEF NoRepeat
    <2>1. a.s \in Stamped /\ b.s \in Stamped
      BY DEF Stamped
    <2>2. /\ a.s.t \in Times /\ a.s.n \in Nat /\ a.s.seq = (seed + a.s.n) % 65536
          /\ b.s.t \in Times /\ b.s.n \in Nat /\ b.s.seq = (seed + b.s.n) % 65536
      BY <2>1 DEF IInv, StampsOrdered
    <2>3. seed \in Nat
      BY DEF TypeOK, Word
    <2>4. a.s.seq \in Word /\ b.s.seq \in Word
      BY <2>2, <2>3 DEF Word
    <2>5. NewV1(a.s, [i \in 1 .. 6 |-> a.u[i + 10]]) = NewV1(b.s, [i \in 1 .. 6 |-> b.u[i + 10]])
      BY DEF IInv
    <2>6. a.s.t = b.s.t /\ a.s.seq % 16384 = b.s.seq % 16384
      BY <2>2, <2>4, <2>5, StampOfV1
    <2>7. a.s.n = b.s.n
      <3> DEFINE m == a.s.n  n == b.s.n  p == a.s.seq  q == b.s.seq
      <3>1. /\ m \in Nat /\ n \in Nat /\ m <= n /\ n - m < 16384
            /\ p = (seed + m) % 65536 /\ q = (seed + n) % 65536 /\ p % 16384 = q % 16384
        BY <2>2, <2>6
      <3> HIDE DEF m, n, p, q
      <3>2. m = n
        BY <2>3, <3>1, Wrap
      <3> QED BY <3>2 DEF m, n
    <2> QED BY <2>1, <2>6, <2>7 DEF IInv, StampsOrdered
  <1> QED BY <1>1, TypeCorrect, Inductive, PTL
-----------------------------------------------------------------------------
(* Reading back (codec.go).  A text is described by what stands at each of *)
(* its places; Begins, GoesOn, Altered and Joined are the facts about       *)
(* sequences that the lemmas pass on to one another.                        *)
Char == 0 .. 23      \* the characters of Uuid

\* Functions on 1 .. n are the sequences of length n.
LEMMA FunctionSeq ==
    ASSUME NEW S, NEW n \in Nat, NEW f \in [1 .. n -> S] PROVE f \in Seq(S) /\ Len(f) = n
  OBVIOUS

LEMMA Elements == ASSUME NEW S, NEW s \in Seq(S) PROVE \A i \in 1 .. Len(s) : s[i] \in S
  OBVIOUS

\* A value is a sequence of 16 bytes.
LEMMA ValueSeq ==
    ASSUME NEW u \in Value
    PROVE  u \in Seq(Byte) /\ Len(u) = 16 /\ u \in [1 .. 16 -> Byte]
  <1>1. 16 \in Nat /\ u \in [1 .. 16 -> Byte]
    BY DEF Value, Size
  <1> QED BY <1>1, FunctionSeq, ZenonT(30)

\* hex.Encode writes two digits for a byte.
LEMMA HexDigits ==
    ASSUME NEW b \in Seq(Byte)
    PROVE  /\ HexEncode(b) \in Seq(Digit) /\ Len(HexEncode(b)) = 2 * Len(b)
           /\ \A i \in 1 .. 2 * Len(b) : HexEncode(b)[i] =
                IF i % 2 = 1 THEN b[(i + 1) \div 2] \div 16 ELSE b[i \div 2] % 16
  <1> DEFINE h == HexEncode(b)
             d(i) == IF i % 2 = 1 THEN b[(i + 1) \div 2] \div 16 ELSE b[i \div 2] % 16
  <1>1. Len(b) \in Nat /\ \A i \in 1 .. Len(b) : b[i] \in Byte
    OBVIOUS
  <1>2. \A n \in Byte : n \div 16 \in Digit /\ n % 16 \in Digit
    BY DEF Byte, Digit
  <1>3. ASSUME NEW i \in 1 .. 2 * Len(b) PROVE d(i) \in Digit
    <2>1. i % 2 = 1 => (i + 1) \div 2 \in 1 .. Len(b)
      BY <1>1
    <2>2. i % 2 # 1 => i \div 2 \in 1 .. Len(b)
      BY <1>1
    <2> QED BY <1>1, <1>2, <2>1, <2>2
  <1>4. h = [i \in 1 .. 2 * Len(b) |-> d(i)]
    BY DEF HexEncode
  <1> HIDE DEF h, d
  <1>5. h \in [1 .. 2 * Len(b) -> Digit]
    BY <1>3, <1>4
  <1>6. h \in Seq(Digit) /\ Len(h) = 2 * Len(b)
    BY <1>1, <1>5
  <1>7. \A i \in 1 .. 2 * Len(b) : h[i] = d(i)
    BY <1>4
  <1> QED BY <1>6, <1>7 DEF h, d

\* Two digits are a byte, and where they stand.
LEMMA TwoDigits ==
    /\ \A n \in Byte : 16 * (n \div 16) + (n % 16) = n
    /\ \A i \in 1 .. 16 : /\ 2 * i - 1 \in 1 .. 32 /\ (2 * i - 1) % 2 = 1 /\ ((2 * i - 1) + 1) \div 2 = i
                         /\ 2 * i \in 1 .. 32 /\ (2 * i) % 2 # 1 /\ (2 * i) \div 2 = i
  BY DEF Byte

\* hex.Decode reads back what hex.Encode wrote.
LEMMA HexBack ==
    ASSUME NEW u \in Value
    PROVE  IsHex(HexEncode(u)) /\ HexDecode(HexEncode(u)) = u /\ Len(HexEncode(u)) = 32
           /\ HexEncode(u) \in Seq(Digit)
  <1> DEFINE h == HexEncode(u)
  <1>1. u \in Seq(Byte) /\ Len(u) = 16 /\ u \in [1 .. 16 -> Byte]
    BY ValueSeq, Zenon
  <1>0. 2 * 16 = 32
    OBVIOUS
  <1>2. h \in Seq(Digit) /\ Len(h) = 32
    BY <1>0, <1>1, HexDigits, Zenon
  <1>7. \A i \in 1 .. 32 : h[i] = IF i % 2 = 1 THEN u[(i + 1) \div 2] \div 16 ELSE u[i \div 2] % 16
    BY <1>0, <1>1, HexDigits, ZenonT(30)
  <1>3. ASSUME NEW i \in 1 .. 16 PROVE 16 * h[2 * i - 1] + h[2 * i] = u[i]
    <2>1. /\ 2 * i - 1 \in 1 .. 32 /\ (2 * i - 1) % 2 = 1 /\ ((2 * i - 1) + 1) \div 2 = i
          /\ 2 * i \in 1 .. 32 /\ (2 * i) % 2 # 1 /\ (2 * i) \div 2 = i
      BY TwoDigits, Zenon
    <2>2. h[2 * i - 1] = u[i] \div 16
      BY <1>7, <2>1, Zenon
    <2>3. h[2 * i] = u[i] % 16
      BY <1>7, <2>1, Zenon
    <2>4. u[i] \in Byte
      BY <1>1, Zenon
    <2> QED BY <2>2, <2>3, <2>4, TwoDigits, Zenon
  <1>4. HexDecode(h) = [i \in 1 .. 16 |-> 16 * h[2 * i - 1] + h[2 * i]]
    BY <1>2 DEF HexDecode
  <1> HIDE DEF h
  <1>5. HexDecode(h) = u
    BY <1>1, <1>3, <1>4
  <1>6. IsHex(h)
    BY <1>2, Elements, Zenon DEF IsHex
  <1> QED BY <1>2, <1>5, <1>6 DEF h

\* The text k begins w, and f goes on with it.
Begins(S, k, n, w)   == k \in Seq(S) /\ Len(k) = n /\ \A i \in 1 .. n : k[i] = w[i]
GoesOn(S, f, m, n, w) == f \in Seq(S) /\ Len(f) = m /\ \A i \in 1 .. m : f[i] = w[n + i]

\* Appending what goes on where a beginning ends.
LEMMA Extend ==
    ASSUME NEW S, NEW w, NEW k, NEW f, NEW n \in Nat, NEW m \in Nat, NEW l, l = n + m,
           Begins(S, k, n, w), GoesOn(S, f, m, n, w)
    PROVE  Begins(S, k \o f, l, w)
  <1>0. k \in Seq(S) /\ f \in Seq(S) /\ Len(k) = n /\ Len(f) = m
    BY Zenon DEF Begins, GoesOn
  <1>1. k \o f \in Seq(S) /\ Len(k \o f) = n + m
    BY <1>0
  <1>2. \A i \in 1 .. n + m : (k \o f)[i] = IF i <= n THEN k[i] ELSE f[i - n]
    BY <1>0
  <1>3. ASSUME NEW i \in 1 .. n + m PROVE (k \o f)[i] = w[i]
    <2>1. CASE i <= n
      <3>1. i \in 1 .. n
        BY <2>1
      <3> QED BY <1>2, <2>1, <3>1, Zenon DEF Begins
    <2>2. CASE ~(i <= n)
      <3>1. i - n \in 1 .. m /\ n + (i - n) = i
        BY <2>2
      <3> QED BY <1>2, <2>2, <3>1, Zenon DEF GoesOn
    <2> QED BY <2>1, <2>2, Zenon
  <1> QED BY <1>1, <1>3, Zenon DEF Begins

\* A piece of a text goes on where the digits before it end.
LEMMA PieceGoesOn ==
    ASSUME NEW S, NEW w, NEW t \in Seq(S), NEW a \in 1 .. Len(t), NEW b \in 1 .. Len(t), a <= b,
           NEW m, m = (b - a) + 1, NEW n, \A i \in 1 .. m : w[n + i] = t[(a + i) - 1]
    PROVE  GoesOn(S, SubSeq(t, a, b), m, n, w)
  <1>1. SubSeq(t, a, b) \in Seq(S) /\ Len(SubSeq(t, a, b)) = m
    OBVIOUS
  <1>2. \A i \in 1 .. m : SubSeq(t, a, b)[i] = t[(a + i) - 1]
    OBVIOUS
  <1> QED BY <1>1, <1>2, Zenon DEF GoesOn

\* The length and the characters of a piece of a text.
LEMMA Piece ==
    ASSUME NEW S, NEW t \in Seq(S), NEW a \in 1 .. Len(t), NEW b \in 1 .. Len(t), a <= b
    PROVE  /\ SubSeq(t, a, b) \in Seq(S) /\ Len(SubSeq(t, a, b)) = (b - a) + 1
           /\ \A i \in 1 .. (b - a) + 1 : SubSeq(t, a, b)[i] = t[(a + i) - 1]
  OBVIOUS

\* Where the j-th digit of a canonical text stands.
at(j) == IF j <= 8 THEN j ELSE IF j <= 12 THEN j + 1 ELSE IF j <= 16 THEN j + 2
         ELSE IF j <= 20 THEN j + 3 ELSE j + 4

\* Where the digits of each group stand.
LEMMA AtGroups ==
    /\ \A i \in 1 .. 8 :  0 + i \in 1 .. 32 /\ at(0 + i) = (1 + i) - 1
    /\ \A i \in 1 .. 4 :  8 + i \in 1 .. 32 /\ at(8 + i) = (10 + i) - 1
    /\ \A i \in 1 .. 4 :  12 + i \in 1 .. 32 /\ at(12 + i) = (15 + i) - 1
    /\ \A i \in 1 .. 4 :  16 + i \in 1 .. 32 /\ at(16 + i) = (20 + i) - 1
    /\ \A i \in 1 .. 12 : 20 + i \in 1 .. 32 /\ at(20 + i) = (25 + i) - 1
  BY DEF at

\* The lengths of the groups, summed up.
LEMMA Lengths ==
    /\ 12 = 8 + 4 /\ 16 = 12 + 4 /\ 20 = 16 + 4 /\ 32 = 20 + 12
    /\ 4 \in Nat /\ 8 \in Nat /\ 12 \in Nat /\ 16 \in Nat /\ 20 \in Nat
  OBVIOUS

\* The groups of a canonical text, one after the other, are its digits.
LEMMA GroupsOf ==
    ASSUME NEW S, NEW t \in Seq(S), Len(t) = 36
    PROVE  Begins(S, groups(t), 32, [j \in 1 .. 32 |-> t[at(j)]])
  <1> DEFINE w  == [j \in 1 .. 32 |-> t[at(j)]]
             g1 == SubSeq(t, 1, 8)
             g2 == SubSeq(t, 10, 13)
             g3 == SubSeq(t, 15, 18)
             g4 == SubSeq(t, 20, 23)
             g5 == SubSeq(t, 25, 36)
  <1>0. \A j \in 1 .. 32 : w[j] = t[at(j)]
    BY Zenon
  <1> HIDE DEF w
  <1>1. GoesOn(S, g1, 8, 0, w)
    <2>1. \A i \in 1 .. 8 : w[0 + i] = t[(1 + i) - 1]
      BY <1>0, AtGroups, ZenonT(30)
    <2>2. 1 \in 1 .. Len(t) /\ 8 \in 1 .. Len(t) /\ 1 <= 8 /\ 8 = (8 - 1) + 1
      OBVIOUS
    <2> QED BY <2>1, <2>2, PieceGoesOn, Zenon
  <1>2. GoesOn(S, g2, 4, 8, w)
    <2>1. \A i \in 1 .. 4 : w[8 + i] = t[(10 + i) - 1]
      BY <1>0, AtGroups, ZenonT(30)
    <2>2. 10 \in 1 .. Len(t) /\ 13 \in 1 .. Len(t) /\ 10 <= 13 /\ 4 = (13 - 10) + 1
      OBVIOUS
    <2> QED BY <2>1, <2>2, PieceGoesOn, Zenon
  <1>3. GoesOn(S, g3, 4, 12, w)
    <2>1. \A i \in 1 .. 4 : w[12 + i] = t[(15 + i) - 1]
      BY <1>0, AtGroups, ZenonT(30)
    <2>2. 15 \in 1 .. Len(t) /\ 18 \in 1 .. Len(t) /\ 15 <= 18 /\ 4 = (18 - 15) + 1
      OBVIOUS
    <2> QED BY <2>1, <2>2, PieceGoesOn, Zenon
  <1>4. GoesOn(S, g4, 4, 16, w)
    <2>1. \A i \in 1 .. 4 : w[16 + i] = t[(20 + i) - 1]
      BY <1>0, AtGroups, ZenonT(30)
    <2>2. 20 \in 1 .. Len(t) /\ 23 \in 1 .. Len(t) /\ 20 <= 23 /\ 4 = (23 - 20) + 1
      OBVIOUS
    <2> QED BY <2>1, <2>2, PieceGoesOn, Zenon
  <1>5. GoesOn(S, g5, 12, 20, w)
    <2>1. \A i \in 1 .. 12 : w[20 + i] = t[(25 + i) - 1]
      BY <1>0, AtGroups, ZenonT(30)
    <2>2. 25 \in 1 .. Len(t) /\ 36 \in 1 .. Len(t) /\ 25 <= 36 /\ 12 = (36 - 25) + 1
      OBVIOUS
    <2> QED BY <2>1, <2>2, PieceGoesOn, Zenon
  <1>6. Begins(S, g1, 8, w)
    BY <1>1 DEF GoesOn, Begins
  <1> HIDE DEF g1, g2, g3, g4, g5
  <1>7. Begins(S, g1 \o g2, 12, w)
    BY <1>2, <1>6, Lengths, Extend, Zenon
  <1>8. Begins(S, g1 \o g2 \o g3, 16, w)
    BY <1>3, <1>7, Lengths, Extend, Zenon
  <1>9. Begins(S, g1 \o g2 \o g3 \o g4, 20, w)
    BY <1>4, <1>8, Lengths, Extend, Zenon
  <1>10. Begins(S, g1 \o g2 \o g3 \o g4 \o g5, 32, w)
    BY <1>5, <1>9, Lengths, Extend, Zenon
  <1> QED BY <1>10, Zenon DEF groups, g1, g2, g3, g4, g5, w

\* Encoding some bytes of a value gives their part of its digits.
LEMMA GroupHex ==
    ASSUME NEW u \in Value, NEW a \in 1 .. 16, NEW b \in 1 .. 16, a <= b,
           NEW n, 2 * ((b - a) + 1) = n
    PROVE  GoesOn(Digit, HexEncode(SubSeq(u, a, b)), n, 2 * (a - 1), HexEncode(u))
  <1> DEFINE s == SubSeq(u, a, b)
             h == HexEncode(s)
             m == (b - a) + 1
  <1>1. u \in Seq(Byte) /\ Len(u) = 16
    BY ValueSeq, Zenon
  <1>0. a \in 1 .. Len(u) /\ b \in 1 .. Len(u)
    BY <1>1, Zenon
  <1>2. s \in Seq(Byte) /\ Len(s) = m /\ \A i \in 1 .. m : s[i] = u[(a + i) - 1]
    BY <1>0, <1>1, Piece, ZenonT(30)
  <1>3. m \in Nat /\ 2 * m \in Nat
    OBVIOUS
  <1> HIDE DEF s
  <1>4. /\ h \in Seq(Digit) /\ Len(h) = 2 * m
        /\ \A i \in 1 .. 2 * m : h[i] = IF i % 2 = 1 THEN s[(i + 1) \div 2] \div 16 ELSE s[i \div 2] % 16
    BY <1>2, HexDigits, Zenon
  <1>5. \A i \in 1 .. 2 * 16 : HexEncode(u)[i] =
                IF i % 2 = 1 THEN u[(i + 1) \div 2] \div 16 ELSE u[i \div 2] % 16
    BY <1>1, HexDigits, Zenon
  <1> HIDE DEF h
  <1>6. ASSUME NEW i \in 1 .. 2 * m PROVE h[i] = HexEncode(u)[2 * (a - 1) + i]
    <2> DEFINE j == 2 * (a - 1) + i
    <2>1. j \in 1 .. 2 * 16 /\ (i % 2 = 1 <=> j % 2 = 1)
      OBVIOUS
    <2>2. CASE i % 2 = 1
      <3>1. (i + 1) \div 2 \in 1 .. m /\ (j + 1) \div 2 = (a + ((i + 1) \div 2)) - 1
        BY <2>2
      <3>2. h[i] = s[(i + 1) \div 2] \div 16 /\ HexEncode(u)[j] = u[(j + 1) \div 2] \div 16
        BY <1>4, <1>5, <2>1, <2>2, Zenon
      <3> QED BY <1>2, <3>1, <3>2, Zenon
    <2>3. CASE i % 2 # 1
      <3>1. i \div 2 \in 1 .. m /\ j \div 2 = (a + (i \div 2)) - 1
        BY <2>3
      <3>2. h[i] = s[i \div 2] % 16 /\ HexEncode(u)[j] = u[j \div 2] % 16
        BY <1>4, <1>5, <2>1, <2>3, Zenon
      <3> QED BY <1>2, <3>1, <3>2, Zenon
    <2> QED BY <2>2, <2>3, Zenon
  <1> QED BY <1>4, <1>6, Zenon DEF h, s, GoesOn

\* The digit at a place of a canonical text, and the text.
pos(i) == IF i < 9 THEN i ELSE IF i < 14 THEN i - 1 ELSE IF i < 19 THEN i - 2
          ELSE IF i < 24 THEN i - 3 ELSE i - 4
Canonical(h) == [i \in 1 .. 36 |-> IF i \in {9, 14, 19, 24} THEN Dash ELSE h[pos(i)]]

\* Which digits each group holds.
LEMMA PosGroups ==
    /\ \A i \in 1 .. 8 :  0 + i \in (1 .. 36) \ {9, 14, 19, 24} /\ pos(0 + i) = 2 * (1 - 1) + i
    /\ \A i \in 1 .. 4 :  9 + i \in (1 .. 36) \ {9, 14, 19, 24} /\ pos(9 + i) = 2 * (5 - 1) + i
    /\ \A i \in 1 .. 4 :  14 + i \in (1 .. 36) \ {9, 14, 19, 24} /\ pos(14 + i) = 2 * (7 - 1) + i
    /\ \A i \in 1 .. 4 :  19 + i \in (1 .. 36) \ {9, 14, 19, 24} /\ pos(19 + i) = 2 * (9 - 1) + i
    /\ \A i \in 1 .. 12 : 24 + i \in (1 .. 36) \ {9, 14, 19, 24} /\ pos(24 + i) = 2 * (11 - 1) + i
  BY DEF pos

\* The lengths of the groups and the dashes, summed up.
LEMMA MoreLengths ==
    /\ 9 = 8 + 1 /\ 13 = 9 + 4 /\ 14 = 13 + 1 /\ 18 = 14 + 4 /\ 19 = 18 + 1 /\ 23 = 19 + 4
    /\ 24 = 23 + 1 /\ 36 = 24 + 12 /\ 1 \in Nat /\ 9 \in Nat /\ 13 \in Nat /\ 14 \in Nat
    /\ 18 \in Nat /\ 19 \in Nat /\ 23 \in Nat /\ 24 \in Nat
  OBVIOUS

\* Digits are characters.
LEMMA DigitChars == ASSUME NEW s \in Seq(Digit) PROVE s \in Seq(Char)
  <1>1. Digit \subseteq Char
    BY DEF Digit, Char
  <1> QED BY <1>1

\* A dash goes on where a group ends.
LEMMA DashGoesOn ==
    ASSUME NEW n, NEW w, w[n + 1] = Dash PROVE GoesOn(Char, <<Dash>>, 1, n, w)
  <1>1. Dash \in Char
    BY DEF Dash, Char
  <1>2. <<Dash>> \in Seq(Char) /\ Len(<<Dash>>) = 1 /\ \A i \in 1 .. 1 : <<Dash>>[i] = Dash /\ i = 1
    BY <1>1
  <1> QED BY <1>2, Zenon DEF GoesOn

\* String writes the digits of the value, with the dashes at their places.
LEMMA StringIs ==
    ASSUME NEW u \in Value
    PROVE  Begins(Char, String(u), 36, Canonical(HexEncode(u)))
  <1> DEFINE h  == HexEncode(u)
             w  == Canonical(h)
             h1 == HexEncode(SubSeq(u, 1, 4))
             h2 == HexEncode(SubSeq(u, 5, 6))
             h3 == HexEncode(SubSeq(u, 7, 8))
             h4 == HexEncode(SubSeq(u, 9, 10))
             h5 == HexEncode(SubSeq(u, 11, 16))
             d  == <<Dash>>
  <1>1. \A i \in (1 .. 36) \ {9, 14, 19, 24} : w[i] = h[pos(i)]
    BY Zenon DEF Canonical
  <1>2. w[8 + 1] = Dash /\ w[13 + 1] = Dash /\ w[18 + 1] = Dash /\ w[23 + 1] = Dash
    <2>1. 8 + 1 = 9 /\ 13 + 1 = 14 /\ 18 + 1 = 19 /\ 23 + 1 = 24
      OBVIOUS
    <2>2. 9 \in 1 .. 36 /\ 14 \in 1 .. 36 /\ 19 \in 1 .. 36 /\ 24 \in 1 .. 36
      OBVIOUS
    <2> QED BY <2>1, <2>2, Zenon DEF Canonical
  <1> HIDE DEF w
  <1>3. GoesOn(Char, h1, 8, 0, w)
    <2>1. 1 \in 1 .. 16 /\ 4 \in 1 .. 16 /\ 1 <= 4 /\ 2 * ((4 - 1) + 1) = 8
      OBVIOUS
    <2>2. GoesOn(Digit, h1, 8, 2 * (1 - 1), h)
      BY <2>1, GroupHex, Zenon
    <2>3. \A i \in 1 .. 8 : w[0 + i] = h[2 * (1 - 1) + i]
      BY <1>1, PosGroups, ZenonT(30)
    <2> QED BY <2>2, <2>3, DigitChars, ZenonT(30) DEF GoesOn
  <1>4. GoesOn(Char, h2, 4, 9, w)
    <2>1. 5 \in 1 .. 16 /\ 6 \in 1 .. 16 /\ 5 <= 6 /\ 2 * ((6 - 5) + 1) = 4
      OBVIOUS
    <2>2. GoesOn(Digit, h2, 4, 2 * (5 - 1), h)
      BY <2>1, GroupHex, Zenon
    <2>3. \A i \in 1 .. 4 : w[9 + i] = h[2 * (5 - 1) + i]
      BY <1>1, PosGroups, ZenonT(30)
    <2> QED BY <2>2, <2>3, DigitChars, ZenonT(30) DEF GoesOn
  <1>5. GoesOn(Char, h3, 4, 14, w)
    <2>1. 7 \in 1 .. 16 /\ 8 \in 1 .. 16 /\ 7 <= 8 /\ 2 * ((8 - 7) + 1) = 4
      OBVIOUS
    <2>2. GoesOn(Digit, h3, 4, 2 * (7 - 1), h)
      BY <2>1, GroupHex, Zenon
    <2>3. \A i \in 1 .. 4 : w[14 + i] = h[2 * (7 - 1) + i]
      BY <1>1, PosGroups, ZenonT(30)
    <2> QED BY <2>2, <2>3, DigitChars, ZenonT(30) DEF GoesOn
  <1>6. GoesOn(Char, h4, 4, 19, w)
    <2>1. 9 \in 1 .. 16 /\ 10 \in 1 .. 16 /\ 9 <= 10 /\ 2 * ((10 - 9) + 1) = 4
      OBVIOUS
    <2>2. GoesOn(Digit, h4, 4, 2 * (9 - 1), h)
      BY <2>1, GroupHex, Zenon
    <2>3. \A i \in 1 .. 4 : w[19 + i] = h[2 * (9 - 1) + i]
      BY <1>1, PosGroups, ZenonT(30)
    <2> QED BY <2>2, <2>3, DigitChars, ZenonT(30) DEF GoesOn
  <1>7. GoesOn(Char, h5, 12, 24, w)
    <2>1. 11 \in 1 .. 16 /\ 16 \in 1 .. 16 /\ 11 <= 16 /\ 2 * ((16 - 11) + 1) = 12
      OBVIOUS
    <2>2. GoesOn(Digit, h5, 12, 2 * (11 - 1), h)
      BY <2>1, GroupHex, Zenon
    <2>3. \A i \in 1 .. 12 : w[24 + i] = h[2 * (11 - 1) + i]
      BY <1>1, PosGroups, ZenonT(30)
    <2> QED BY <2>2, <2>3, DigitChars, ZenonT(30) DEF GoesOn
  <1> HIDE DEF h1, h2, h3, h4, h5
  <1>8. Begins(Char, h1, 8, w)
    BY <1>3 DEF GoesOn, Begins
  <1>9. /\ GoesOn(Char, d, 1, 8, w) /\ GoesOn(Char, d, 1, 13, w)
        /\ GoesOn(Char, d, 1, 18, w) /\ GoesOn(Char, d, 1, 23, w)
    BY <1>2, DashGoesOn, Zenon
  <1> HIDE DEF d
  <1>10. Begins(Char, h1 \o d, 9, w)
    BY <1>9, <1>8, Lengths, MoreLengths, Extend, ZenonT(30)
  <1>11. Begins(Char, h1 \o d \o h2, 13, w)
    BY <1>4, <1>10, Lengths, MoreLengths, Extend, ZenonT(30)
  <1>12. Begins(Char, h1 \o d \o h2 \o d, 14, w)
    BY <1>9, <1>11, Lengths, MoreLengths, Extend, ZenonT(30)
  <1>13. Begins(Char, h1 \o d \o h2 \o d \o h3, 18, w)
    BY <1>5, <1>12, Lengths, MoreLengths, Extend, ZenonT(30)
  <1>14. Begins(Char, h1 \o d \o h2 \o d \o h3 \o d, 19, w)
    BY <1>9, <1>13, Lengths, MoreLengths, Extend, ZenonT(30)
  <1>15. Begins(Char, h1 \o d \o h2 \o d \o h3 \o d \o h4, 23, w)
    BY <1>6, <1>14, Lengths, MoreLengths, Extend, ZenonT(30)
  <1>16. Begins(Char, h1 \o d \o h2 \o d \o h3 \o d \o h4 \o d, 24, w)
    BY <1>9, <1>15, Lengths, MoreLengths, Extend, ZenonT(30)
  <1>17. Begins(Char, h1 \o d \o h2 \o d \o h3 \o d \o h4 \o d \o h5, 36, w)
    BY <1>7, <1>16, Lengths, MoreLengths, Extend, ZenonT(30)
  <1> QED BY <1>17, Zenon DEF String, h1, h2, h3, h4, h5, d, w, h

\* Two sequences with the same elements are the same.
LEMMA Same ==
    ASSUME NEW S, NEW s \in Seq(S), NEW t \in Seq(S), Len(s) = Len(t),
           \A i \in 1 .. Len(t) : s[i] = t[i]
    PROVE  s = t
  OBVIOUS

\* at and pos are inverse.
LEMMA AtPos ==
    /\ \A j \in 1 .. 32 : at(j) \in (1 .. 36) \ {9, 14, 19, 24} /\ pos(at(j)) = j
    /\ \A i \in (1 .. 36) \ {9, 14, 19, 24} : pos(i) \in 1 .. 32 /\ at(pos(i)) = i
  BY DEF at, pos

\* What stands at each place of String(u).
LEMMA StringParts ==
    ASSUME NEW u \in Value
    PROVE  /\ String(u) \in Seq(Char) /\ Len(String(u)) = 36
           /\ \A i \in {9, 14, 19, 24} : String(u)[i] = Dash
           /\ \A i \in (1 .. 36) \ {9, 14, 19, 24} : String(u)[i] = HexEncode(u)[pos(i)]
  <1>1. Begins(Char, String(u), 36, Canonical(HexEncode(u)))
    BY StringIs, Zenon
  <1>2. \A i \in {9, 14, 19, 24} : i \in 1 .. 36
    OBVIOUS
  <1>3. \A i \in {9, 14, 19, 24} : Canonical(HexEncode(u))[i] = Dash
    BY <1>2, Zenon DEF Canonical
  <1>4. \A i \in (1 .. 36) \ {9, 14, 19, 24} : Canonical(HexEncode(u))[i] = HexEncode(u)[pos(i)]
    BY Zenon DEF Canonical
  <1> QED BY <1>1, <1>2, <1>3, <1>4, ZenonT(30) DEF Begins

\* The digits that decodeCanonical passes on, for any text of its length.
LEMMA GroupsAt ==
    ASSUME NEW t \in Seq(Char), Len(t) = 36
    PROVE  /\ groups(t) \in Seq(Char) /\ Len(groups(t)) = 32
           /\ \A j \in 1 .. 32 : groups(t)[j] = t[at(j)]
  <1>1. Begins(Char, groups(t), 32, [j \in 1 .. 32 |-> t[at(j)]])
    BY GroupsOf, Zenon
  <1> QED BY <1>1, Zenon DEF Begins

\* decodeCanonical reads back what String wrote.
LEMMA CanonicalReads ==
    ASSUME NEW u \in Value
    PROVE  decodeCanonical(String(u)) = Parsed(u)
  <1> DEFINE t == String(u)
             h == HexEncode(u)
  <1>1. t \in Seq(Char) /\ Len(t) = 36
    BY StringParts, Zenon
  <1>2. dashed(t)
    BY StringParts, Zenon DEF dashed
  <1>3. h \in Seq(Char) /\ Len(h) = 32 /\ decodeHashLike(h) = Parsed(u)
    BY HexBack, DigitChars, Zenon DEF decodeHashLike
  <1>4. groups(t) \in Seq(Char) /\ Len(groups(t)) = 32 /\ \A j \in 1 .. 32 : groups(t)[j] = h[j]
    <2>1. groups(t) \in Seq(Char) /\ Len(groups(t)) = 32 /\ \A j \in 1 .. 32 : groups(t)[j] = t[at(j)]
      BY <1>1, GroupsAt, Zenon
    <2>2. ASSUME NEW j \in 1 .. 32 PROVE t[at(j)] = h[j]
      <3>1. at(j) \in (1 .. 36) \ {9, 14, 19, 24} /\ pos(at(j)) = j
        BY AtPos, Zenon
      <3>2. t[at(j)] = h[pos(at(j))]
        BY <3>1, StringParts, Zenon
      <3> QED BY <3>1, <3>2, Zenon
    <2> QED BY <2>1, <2>2, Zenon
  <1>5. groups(t) = h
    BY <1>3, <1>4, Same, ZenonT(30)
  <1> QED BY <1>2, <1>3, <1>5, Zenon DEF decodeCanonical

\* The text v is s with x at place i.
Altered(S, s, i, x, v) == v \in Seq(S) /\ Len(v) = Len(s) /\ v[i] = x

\* A text with one character changed.
LEMMA Changed ==
    ASSUME NEW S, NEW s \in Seq(S), NEW i \in 1 .. Len(s), NEW x \in S
    PROVE  Altered(S, s, i, x, [s EXCEPT ![i] = x])
  <1>1. s \in [1 .. Len(s) -> S] /\ Len(s) \in Nat
    OBVIOUS
  <1> DEFINE v == [s EXCEPT ![i] = x]
  <1>2. v \in [1 .. Len(s) -> S] /\ v[i] = x
    BY <1>1, Zenon
  <1> QED BY <1>1, <1>2, FunctionSeq, Zenon DEF Altered

\* The decoder is chosen by the length.
LEMMA ByLength ==
    ASSUME NEW t
    PROVE  /\ Len(t) = 32 => UnmarshalText(t) = decodeHashLike(t) /\ decodePlain(t) = decodeHashLike(t)
           /\ Len(t) = 36 => UnmarshalText(t) = decodeCanonical(t) /\ decodePlain(t) = decodeCanonical(t)
           /\ Len(t) = 38 => UnmarshalText(t) = decodeBraced(t)
           /\ Len(t) \in {41, 45} => UnmarshalText(t) = decodeURN(t)
  BY DEF UnmarshalText, decodePlain

\* A canonical text with a digit for a dash, or a dash for a digit, is refused.
LEMMA OneWrong ==
    ASSUME NEW u \in Value, NEW i \in 1 .. 36
    PROVE  FromStringOrNil([String(u) EXCEPT ![i] = IF @ \in Digit THEN Dash ELSE 0]) = Nil
  <1> DEFINE t == String(u)
             x == IF t[i] \in Digit THEN Dash ELSE 0
             v == [t EXCEPT ![i] = x]
  <1>1. t \in Seq(Char) /\ Len(t) = 36
    BY StringParts, Zenon
  <1>2. Dash \in Char /\ 0 \in Char /\ Dash \notin Digit /\ Dash # 0
    BY DEF Dash, Char, Digit
  <1>3. x \in Char
    BY <1>2, Zenon
  <1> HIDE DEF t, x
  <1>4. v \in Seq(Char) /\ Len(v) = 36 /\ v[i] = x
    <2>1. i \in 1 .. Len(t) /\ t \in Seq(Char)
      BY <1>1, Zenon
    <2>2. Altered(Char, t, i, x, v)
      BY <1>3, <2>1, Changed, Zenon
    <2> HIDE DEF v
    <2> QED BY <1>1, <2>2, Zenon DEF Altered
  <1> HIDE DEF v
  <1>5. ASSUME i \in {9, 14, 19, 24} PROVE decodeCanonical(v) = BadText
    <2>1. v[i] # Dash
      BY <1>2, <1>4, <1>5, StringParts, Zenon DEF x, t
    <2>2. ~dashed(v)
      BY <1>5, <2>1, Zenon DEF dashed
    <2> QED BY <2>2, Zenon DEF decodeCanonical
  <1>6. ASSUME i \notin {9, 14, 19, 24} PROVE decodeCanonical(v) = BadText
    <2>1. pos(i) \in 1 .. 32 /\ at(pos(i)) = i
      BY <1>6, AtPos, Zenon
    <2>2. t[i] \in Digit
      <3>1. t[i] = HexEncode(u)[pos(i)]
        BY <1>6, StringParts, Zenon DEF t
      <3>2. HexEncode(u) \in Seq(Digit) /\ Len(HexEncode(u)) = 32
        BY HexBack, Zenon
      <3> QED BY <2>1, <3>1, <3>2, Elements, Zenon
    <2>3. groups(v)[pos(i)] = Dash /\ Len(groups(v)) = 32
      <3>1. v[i] = Dash
        BY <1>4, <2>2, Zenon DEF x
      <3>2. groups(v)[pos(i)] = v[at(pos(i))] /\ Len(groups(v)) = 32
        BY <1>4, <2>1, GroupsAt, Zenon
      <3> QED BY <2>1, <3>1, <3>2, Zenon
    <2>4. ~IsHex(groups(v))
      BY <1>2, <2>1, <2>3, Zenon DEF IsHex
    <2> QED BY <2>4, Zenon DEF decodeCanonical, decodeHashLike
  <1>7. UnmarshalText(v) = BadText
    BY <1>4, <1>5, <1>6, ByLength, Zenon
  <1>8. FromStringOrNil(v) = Nil
    <2>1. BadText.u = Nil
      BY Zenon DEF BadText
    <2> QED BY <1>7, <2>1, Zenon DEF FromStringOrNil
  <1> QED BY <1>8, Zenon DEF v, x, t

\* The text e is p with t behind it.
Joined(S, p, t, e) ==
    /\ e \in Seq(S) /\ Len(e) = Len(p) + Len(t)
    /\ SubSeq(e, 1, Len(p)) = p /\ SubSeq(e, Len(p) + 1, Len(p) + Len(t)) = t
    /\ \A i \in 1 .. Len(p) : e[i] = p[i]
    /\ \A i \in 1 .. Len(t) : e[Len(p) + i] = t[i]

\* The length, the two parts and the characters of a concatenation.
LEMMA Join ==
    ASSUME NEW S, NEW p \in Seq(S), NEW t \in Seq(S)
    PROVE  Joined(S, p, t, p \o t)
  <1> DEFINE e == p \o t
             n == Len(p)
             m == Len(t)
             b == SubSeq(e, 1, n)
             c == SubSeq(e, n + 1, n + m)
  <1>1. e \in Seq(S) /\ Len(e) = n + m /\ n \in Nat /\ m \in Nat
    OBVIOUS
  <1>2. (\A i \in 1 .. n : e[i] = p[i]) /\ \A i \in 1 .. m : e[n + i] = t[i]
    OBVIOUS
  <1> HIDE DEF e
  <1>3. b \in Seq(S) /\ Len(b) = n /\ \A i \in 1 .. n : b[i] = e[i]
    BY <1>1
  <1>4. c \in Seq(S) /\ Len(c) = m /\ \A i \in 1 .. m : c[i] = e[n + i]
    BY <1>1
  <1> HIDE DEF b, c
  <1>5. b = p /\ c = t
    BY <1>2, <1>3, <1>4, Same, Zenon
  <1> QED BY <1>1, <1>2, <1>5, Zenon DEF e, b, c, Joined

\* The middle of three texts.
LEMMA Middle ==
    ASSUME NEW S, NEW e \in Seq(S), NEW q \in Seq(S), NEW a \in 1 .. Len(e)
    PROVE  SubSeq(e \o q, a, Len(e)) = SubSeq(e, a, Len(e))
  <1> DEFINE g == e \o q
             n == Len(e)
             b == SubSeq(g, a, n)
             c == SubSeq(e, a, n)
  <1>1. g \in Seq(S) /\ n \in Nat /\ n <= Len(g) /\ \A i \in 1 .. n : g[i] = e[i]
    OBVIOUS
  <1> HIDE DEF g
  <1>2. b \in Seq(S) /\ Len(b) = (n - a) + 1 /\ \A i \in 1 .. (n - a) + 1 : b[i] = g[(a + i) - 1]
    BY <1>1
  <1>3. c \in Seq(S) /\ Len(c) = (n - a) + 1 /\ \A i \in 1 .. (n - a) + 1 : c[i] = e[(a + i) - 1]
    BY <1>1
  <1>4. \A i \in 1 .. (n - a) + 1 : (a + i) - 1 \in 1 .. n
    BY <1>1
  <1> HIDE DEF b, c
  <1>5. \A i \in 1 .. (n - a) + 1 : b[i] = c[i]
    BY <1>1, <1>2, <1>3, <1>4, Zenon
  <1>6. b = c
    BY <1>2, <1>3, <1>5, Same, Zenon
  <1> QED BY <1>6, Zenon DEF b, c, g

\* The canonical and the hash-like form read back.
LEMMA PlainReads ==
    ASSUME NEW u \in Value, NEW t \in {String(u), HexEncode(u)}
    PROVE  /\ t \in Seq(Char) /\ Len(t) \in {32, 36}
           /\ decodePlain(t) = Parsed(u) /\ UnmarshalText(t) = Parsed(u)
  <1>1. CASE t = String(u)
    BY <1>1, StringParts, CanonicalReads, ByLength, Zenon
  <1>2. CASE t = HexEncode(u)
    BY <1>2, HexBack, DigitChars, ByLength, Zenon DEF decodeHashLike
  <1> QED BY <1>1, <1>2, Zenon

\* So do both behind the prefix of a URN,
LEMMA UrnReads ==
    ASSUME NEW u \in Value, NEW t \in {String(u), HexEncode(u)}
    PROVE  UnmarshalText(urnPrefix \o t) = Parsed(u)
  <1> DEFINE f == urnPrefix \o t
  <1>1. t \in Seq(Char) /\ Len(t) \in {32, 36} /\ decodePlain(t) = Parsed(u)
    BY PlainReads, Zenon
  <1>2. urnPrefix \in Seq(Char) /\ Len(urnPrefix) = 9
    BY DEF urnPrefix, Char
  <1>3. /\ Len(f) = Len(urnPrefix) + Len(t) /\ SubSeq(f, 1, Len(urnPrefix)) = urnPrefix
        /\ SubSeq(f, Len(urnPrefix) + 1, Len(urnPrefix) + Len(t)) = t
    <2>1. t \in Seq(Char) /\ urnPrefix \in Seq(Char)
      BY <1>1, <1>2, Zenon
    <2>2. Joined(Char, urnPrefix, t, f)
      BY <2>1, Join, Zenon
    <2> QED BY <2>2, Zenon DEF Joined
  <1> HIDE DEF f
  <1>4. 9 + 32 = 41 /\ 9 + 36 = 45 /\ 9 + 1 = 10
    OBVIOUS
  <1>5. Len(f) \in {41, 45} /\ SubSeq(f, 1, 9) = urnPrefix /\ SubSeq(f, 10, Len(f)) = t
    BY <1>1, <1>2, <1>3, <1>4, ZenonT(30)
  <1>6. UnmarshalText(f) = Parsed(u)
    BY <1>1, <1>5, ByLength, Zenon DEF decodeURN
  <1> QED BY <1>6, Zenon DEF f

\* and the canonical one between braces:
LEMMA BracesRead ==
    ASSUME NEW u \in Value
    PROVE  UnmarshalText(<<OpenBrace>> \o String(u) \o <<CloseBrace>>) = Parsed(u)
  <1> DEFINE t == String(u)
             p == <<OpenBrace>>
             q == <<CloseBrace>>
             e == p \o t
             f == e \o q
  <1>1. t \in Seq(Char) /\ Len(t) = 36 /\ decodePlain(t) = Parsed(u)
    BY PlainReads, StringParts, Zenon
  <1>2. /\ p \in Seq(Char) /\ Len(p) = 1 /\ p[1] = OpenBrace
        /\ q \in Seq(Char) /\ Len(q) = 1 /\ q[1] = CloseBrace
    BY DEF OpenBrace, CloseBrace, Char
  <1> HIDE DEF t, p, q
  <1>3. /\ e \in Seq(Char) /\ Len(e) = Len(p) + Len(t) /\ SubSeq(e, Len(p) + 1, Len(p) + Len(t)) = t
        /\ \A i \in 1 .. Len(p) : e[i] = p[i]
    <2>1. t \in Seq(Char) /\ p \in Seq(Char)
      BY <1>1, <1>2, Zenon
    <2>2. Joined(Char, p, t, e)
      BY <2>1, Join, Zenon
    <2> QED BY <2>2, Zenon DEF Joined
  <1> HIDE DEF e
  <1>4. /\ Len(f) = Len(e) + Len(q)
        /\ \A i \in 1 .. Len(e) : f[i] = e[i]
        /\ \A i \in 1 .. Len(q) : f[Len(e) + i] = q[i]
    <2>1. e \in Seq(Char) /\ q \in Seq(Char)
      BY <1>2, <1>3, Zenon
    <2>2. Joined(Char, e, q, f)
      BY <2>1, Join, Zenon
    <2> QED BY <2>2, Zenon DEF Joined
  <1>5. /\ 1 + 36 = 37 /\ 37 + 1 = 38 /\ 1 + 1 = 2 /\ 38 - 1 = 37
        /\ 1 \in 1 .. 1 /\ 1 \in 1 .. 37 /\ 2 \in 1 .. 37
    OBVIOUS
  <1>6. Len(e) = 37 /\ SubSeq(e, 2, 37) = t /\ e[1] = OpenBrace
    BY <1>1, <1>2, <1>3, <1>5, ZenonT(30)
  <1>7. Len(f) = 38 /\ f[1] = OpenBrace /\ f[38] = CloseBrace
    <2>1. Len(f) = 37 + 1 /\ f[1] = e[1]
      BY <1>2, <1>4, <1>5, <1>6, Zenon
    <2>2. f[37 + 1] = q[1]
      BY <1>2, <1>4, <1>5, <1>6, Zenon
    <2> QED BY <1>2, <1>5, <1>6, <2>1, <2>2, Zenon
  <1>8. SubSeq(f, 2, Len(f) - 1) = t
    <2>1. e \in Seq(Char) /\ q \in Seq(Char) /\ 2 \in 1 .. Len(e)
      BY <1>2, <1>3, <1>5, <1>6, Zenon
    <2>2. SubSeq(f, 2, Len(e)) = SubSeq(e, 2, Len(e))
      BY <2>1, Middle, Zenon
    <2> QED BY <1>5, <1>6, <1>7, <2>2, Zenon
  <1> HIDE DEF f
  <1>9. UnmarshalText(f) = Parsed(u)
    BY <1>1, <1>7, <1>8, ByLength, Zenon DEF decodeBraced
  <1> QED BY <1>9, Zenon DEF f, e, p, q, t

\* every form reads back.
LEMMA FormsRead ==
    ASSUME NEW u \in Value
    PROVE  \A f \in Forms(u) : UnmarshalText(f) = Parsed(u)
  BY PlainReads, UrnReads, BracesRead, Zenon DEF Forms
-----------------------------------------------------------------------------
\* SetVariant writes the two bits of RFC 4122.
LEMMA VariantBits ==
    ASSUME NEW z PROVE SetVariant(z, VariantRFC4122) = [z EXCEPT ![9] = (z[9] % 64) + 128]
  <1> DEFINE n == CASE VariantRFC4122 = VariantNCS       -> z[9] % 128
                    [] VariantRFC4122 = VariantRFC4122   -> (z[9] % 64) + 128
                    [] VariantRFC4122 = VariantMicrosoft -> (z[9] % 32) + 192
                    [] OTHER                             -> (z[9] % 32) + 224
  <1>1. SetVariant(z, VariantRFC4122) = [z EXCEPT ![9] = n]
    BY Zenon DEF SetVariant
  <1>2. n = (z[9] % 64) + 128
    BY DEF VariantNCS, VariantRFC4122, VariantMicrosoft
  <1> HIDE DEF n
  <1> QED BY <1>1, <1>2, Zenon

\* The elements of a prefix.
LEMMA FirstOnes ==
    ASSUME NEW S, NEW t \in Seq(S), NEW n \in 1 .. Len(t)
    PROVE  \A i \in 1 .. n : SubSeq(t, 1, n)[i] \in S
  OBVIOUS

\* Setting the version and the variant of 16 bytes.
LEMMA SetBits ==
    ASSUME NEW w \in Value, NEW v \in V1 .. V5
    PROVE  LET u == SetVariant(SetVersion(w, v), VariantRFC4122) IN
           u \in Value /\ Version(u) = v /\ Variant(u) = VariantRFC4122
  <1> DEFINE x == (w[7] % 16) + 16 * v
             y == (w[9] % 64) + 128
             u == SetVariant(SetVersion(w, v), VariantRFC4122)
  <1>1. w \in [1 .. 16 -> Byte] /\ w[7] \in Byte /\ w[9] \in Byte
    BY DEF Value, Size
  <1>2. x \in Byte /\ x \div 16 = v
    BY <1>1 DEF Byte, V1, V5
  <1>3. y \in Byte /\ y >= 128 /\ y < 192
    BY <1>1 DEF Byte
  <1>4. SetVersion(w, v) \in [1 .. 16 -> Byte] /\ SetVersion(w, v)[7] = x /\ SetVersion(w, v)[9] = w[9]
    <2>1. SetVersion(w, v) = [w EXCEPT ![7] = x]
      BY Zenon DEF SetVersion
    <2> HIDE DEF x
    <2> QED BY <1>1, <1>2, <2>1
  <1>5. u \in [1 .. 16 -> Byte] /\ u[7] = x /\ u[9] = y
    <2> DEFINE z == SetVersion(w, v)
    <2>1. u = [z EXCEPT ![9] = (z[9] % 64) + 128]
      BY VariantBits, Zenon
    <2>2. u = [z EXCEPT ![9] = y]
      BY <1>4, <2>1, Zenon
    <2> HIDE DEF x, y, z, u
    <2> QED BY <1>3, <1>4, <2>2 DEF z
  <1> HIDE DEF x, y, u
  <1>6. Variant(u) = VariantRFC4122
    BY <1>3, <1>5 DEF Variant, Byte
  <1> QED BY <1>2, <1>5, <1>6, Zenon DEF Value, Size, Version, u

\* What NewV1 returns,
LEMMA FromV1 ==
    ASSUME NEW s \in StampType, s.t \in Times, NEW addr \in [1 .. 6 -> Byte]
    PROVE  LET u == NewV1(s, addr) IN
           u \in Value /\ Version(u) = V1 /\ Variant(u) = VariantRFC4122
  <1> DEFINE e == EpochBytes[s.t]
             w == <<e[5], e[6], e[7], e[8], e[3], e[4], e[1], e[2], s.seq \div 256, s.seq % 256,
                    addr[1], addr[2], addr[3], addr[4], addr[5], addr[6]>>
  <1>1. e \in [1 .. 8 -> Byte]
    BY EpochAssumption, Zenon
  <1>2. s.seq \div 256 \in Byte /\ s.seq % 256 \in Byte
    <2>1. s.seq \in Word
      BY StampParts, Zenon
    <2> QED BY <2>1 DEF Word, Byte
  <1> HIDE DEF e
  <1>3. w \in Value
    BY <1>1, <1>2 DEF Value, Size
  <1>4. V1 \in V1 .. V5
    BY DEF V1, V5
  <1>5. NewV1(s, addr) = SetVariant(SetVersion(w, V1), VariantRFC4122)
    BY Zenon DEF NewV1, e
  <1> HIDE DEF w
  <1> QED BY <1>3, <1>4, <1>5, SetBits, Zenon

\* and NewV2, for any domain.
LEMMA FromV2 ==
    ASSUME NEW u \in Value, NEW d \in Byte
    PROVE  LET r == NewV2(u, d) IN
           r \in Value /\ Version(r) = V2 /\ Variant(r) = VariantRFC4122
  <1> DEFINE id == CASE d = DomainPerson -> UID
                     [] d = DomainGroup  -> GID
                     [] OTHER            -> SubSeq(u, 1, 4)
             w == [i \in 1 .. Size |-> IF i <= 4 THEN id[i] ELSE IF i = 10 THEN d ELSE u[i]]
  <1>1. \A i \in 1 .. 4 : SubSeq(u, 1, 4)[i] \in Byte
    <2>1. u \in Seq(Byte) /\ Len(u) = 16
      BY ValueSeq, Zenon
    <2>2. 4 \in 1 .. 16
      OBVIOUS
    <2>3. 4 \in 1 .. Len(u)
      BY <2>1, <2>2, Zenon
    <2> QED BY <2>1, <2>3, FirstOnes, Zenon
  <1>2. \A i \in 1 .. 4 : id[i] \in Byte
    <2>1. UID \in [1 .. 4 -> Byte] /\ GID \in [1 .. 4 -> Byte]
      BY BytesAssumption, Zenon
    <2> QED BY <1>1, <2>1
  <1> HIDE DEF id
  <1>3. w \in Value
    <2>1. \A i \in 1 .. 16 : i <= 4 => i \in 1 .. 4
      OBVIOUS
    <2>2. \A i \in 1 .. 16 : u[i] \in Byte
      BY DEF Value, Size
    <2> QED BY <1>2, <2>1, <2>2, Zenon DEF Value, Size
  <1>4. V2 \in V1 .. V5
    BY DEF V1, V2, V5
  <1>5. NewV2(u, d) = SetVariant(SetVersion(w, V2), VariantRFC4122)
    BY Zenon DEF NewV2, id
  <1> HIDE DEF w
  <1> QED BY <1>3, <1>4, <1>5, SetBits, Zenon

\* A value with the right version may be returned, and so may an error.
LEMMA ReturnedIs ==
    ASSUME NEW u \in Value, NEW v, Version(u) = v, Variant(u) = VariantRFC4122
    PROVE  Returned(Parsed(u), v) /\ Parsed(u) \in [u : Value, err : BOOLEAN]
  <1>1. Parsed(u).u = u /\ Parsed(u) \in [u : Value, err : BOOLEAN]
    BY Zenon DEF Parsed
  <1> QED BY <1>1, Zenon DEF Returned

LEMMA BadIs == ASSUME NEW v PROVE Returned(BadText, v) /\ BadText \in [u : Value, err : BOOLEAN]
  <1>1. Nil \in Value
    BY DEF Nil, Value, Size, Byte
  <1> QED BY <1>1, Zenon DEF Returned, BadText

\* A step of one caller that goes on.
LEMMA OutGoesOn ==
    ASSUME TypeOK, OutInv, NEW c \in Callers, NEW l, l # "idle", pc' = [pc EXCEPT ![c] = l],
           UNCHANGED out, \A d \in Callers \ {c} : job'[d] = job[d], job'[c].v \in {V1, V2}
    PROVE  OutInv'
  <1> SUFFICES ASSUME NEW d \in Callers
               PROVE  IF pc'[d] = "idle" THEN Returned(out'[d], job'[d].v)
                                         ELSE job'[d].v \in {V1, V2}
    BY Zenon DEF OutInv
  <1>1. CASE d = c
    BY <1>1, Zenon DEF TypeOK
  <1>2. CASE d # c
    <2>1. pc'[d] = pc[d] /\ job'[d] = job[d] /\ out'[d] = out[d]
      BY <1>2, Zenon DEF TypeOK
    <2> QED BY <2>1, Zenon DEF OutInv
  <1> QED BY <1>1, <1>2, Zenon

\* A step of one caller that returns.
LEMMA OutReturns ==
    ASSUME TypeOK, OutInv, NEW c \in Callers, NEW r \in [u : Value, err : BOOLEAN], return(c, r),
           \A d \in Callers \ {c} : job'[d] = job[d], Returned(r, job'[c].v)
    PROVE  OutInv'
  <1>1. pc' = [pc EXCEPT ![c] = "idle"] /\ out' = [out EXCEPT ![c] = r]
    BY Zenon DEF return, goto
  <1>2. out' \in [Callers -> [u : Value, err : BOOLEAN]] /\ out'[c] = r
    BY <1>1, Zenon DEF OutInv
  <1> SUFFICES ASSUME NEW d \in Callers
               PROVE  IF pc'[d] = "idle" THEN Returned(out'[d], job'[d].v)
                                         ELSE job'[d].v \in {V1, V2}
    BY <1>2, Zenon DEF OutInv
  <1>3. CASE d = c
    BY <1>1, <1>2, <1>3, Zenon DEF TypeOK
  <1>4. CASE d # c
    <2>1. pc'[d] = pc[d] /\ job'[d] = job[d] /\ out'[d] = out[d]
      BY <1>1, <1>4, Zenon DEF TypeOK, OutInv
    <2> QED BY <2>1, Zenon DEF OutInv
  <1> QED BY <1>3, <1>4, Zenon

\* One lemma for each kind of step.
LEMMA BeginOut == ASSUME TypeOK, OutInv, NEW c \in Callers, Begin(c) PROVE OutInv'
  <1>1. PICK j \in Jobs : job' = [job EXCEPT ![c] = j]
    BY Zenon DEF Begin
  <1>2. j.v \in {V1, V2}
    <2>1. CASE j = Job(V1, DomainPerson)
      BY <2>1, Zenon DEF Job
    <2>2. CASE \E d \in Domains : j = Job(V2, d)
      <3>1. PICK d \in Domains : j = Job(V2, d)
        BY <2>2, Zenon
      <3> QED BY <3>1, Zenon DEF Job
    <2> QED BY <2>1, <2>2, Zenon DEF Jobs
  <1>3. job'[c].v \in {V1, V2} /\ \A d \in Callers \ {c} : job'[d] = job[d]
    BY <1>1, <1>2, Zenon DEF TypeOK
  <1>4. pc' = [pc EXCEPT ![c] = "seqOnce"] /\ UNCHANGED out /\ "seqOnce" # "idle"
    BY Zenon DEF Begin, goto
  <1> QED BY <1>3, <1>4, OutGoesOn, Zenon

LEMMA NewV345Out == ASSUME TypeOK, OutInv, NEW c \in Callers, NewV345(c) PROVE OutInv'
  <1>1. V3 \in V1 .. V5 /\ V4 \in V1 .. V5 /\ V5 \in V1 .. V5
    BY DEF V1, V3, V4, V5
  <1>2. CASE \E h \in Randoms, v \in {V3, V4, V5} :
                job' = [job EXCEPT ![c] = Job(v, 0)] /\ return(c, Parsed(newFromHash(h, v)))
    <2>1. PICK h \in Randoms, v \in {V3, V4, V5} :
                job' = [job EXCEPT ![c] = Job(v, 0)] /\ return(c, Parsed(newFromHash(h, v)))
      BY <1>2, Zenon
    <2>2. h \in Value /\ v \in V1 .. V5
      BY <1>1, BytesAssumption, Zenon DEF Value
    <2>3. /\ newFromHash(h, v) \in Value /\ Version(newFromHash(h, v)) = v
          /\ Variant(newFromHash(h, v)) = VariantRFC4122
      BY <2>2, SetBits, Zenon DEF newFromHash
    <2>4. Returned(Parsed(newFromHash(h, v)), v) /\ Parsed(newFromHash(h, v)) \in [u : Value, err : BOOLEAN]
      BY <2>3, ReturnedIs, Zenon
    <2>5. job'[c].v = v /\ \A d \in Callers \ {c} : job'[d] = job[d]
      BY <2>1, Zenon DEF TypeOK, Job
    <2> QED BY <2>1, <2>4, <2>5, OutReturns, Zenon
  <1>3. CASE job' = [job EXCEPT ![c] = Job(V4, 0)] /\ return(c, BadText)
    <2>1. \A d \in Callers \ {c} : job'[d] = job[d]
      BY <1>3, Zenon DEF TypeOK
    <2> QED BY <1>3, <2>1, BadIs, OutReturns, Zenon
  <1> QED BY <1>2, <1>3, Zenon DEF NewV345

\* A caller about to build its value has a time of the clock.
LEMMA StampTime ==
    ASSUME IInv, NEW c \in Callers, pc[c] = "build" PROVE stamp[c].t \in Times
  <1>1. stamp[c] \in Stamped
    BY Zenon DEF Stamped
  <1>2. StampsOrdered
    BY Zenon DEF IInv
  <1> QED BY <1>1, <1>2 DEF StampsOrdered

LEMMA BuildOut == ASSUME TypeOK, IInv, OutInv, NEW c \in Callers, build(c) PROVE OutInv'
  <1> DEFINE u == NewV1(stamp[c], hardwareAddr)
             w == NewV2(u, job[c].domain)
  <1>1. pc[c] = "build" /\ UNCHANGED job
    BY Zenon DEF build
  <1>2. job[c].v \in {V1, V2} /\ job[c].domain \in Byte
    BY <1>1, Zenon DEF OutInv, TypeOK, JobType
  <1>3. stamp[c] \in StampType /\ stamp[c].t \in Times /\ hardwareAddr \in [1 .. 6 -> Byte]
    BY <1>1, StampTime, Zenon DEF TypeOK
  <1>4. u \in Value /\ Version(u) = V1 /\ Variant(u) = VariantRFC4122
    BY <1>3, FromV1, Zenon
  <1>5. w \in Value /\ Version(w) = V2 /\ Variant(w) = VariantRFC4122
    BY <1>2, <1>4, FromV2, Zenon
  <1>6. CASE job[c].v = V1
    <2>1. return(c, Parsed(u))
      BY <1>6, Zenon DEF build
    <2>2. Returned(Parsed(u), V1) /\ Parsed(u) \in [u : Value, err : BOOLEAN]
      BY <1>4, ReturnedIs, Zenon
    <2> HIDE DEF u
    <2> QED BY <1>1, <1>6, <2>1, <2>2, OutReturns, Zenon
  <1>7. CASE job[c].v # V1
    <2>1. return(c, Parsed(w))
      BY <1>7, Zenon DEF build
    <2>2. Returned(Parsed(w), V2) /\ Parsed(w) \in [u : Value, err : BOOLEAN]
      BY <1>5, ReturnedIs, Zenon
    <2> HIDE DEF w
    <2> QED BY <1>1, <1>2, <1>7, <2>1, <2>2, OutReturns, Zenon
  <1> QED BY <1>6, <1>7, Zenon

LEMMA OtherOut ==
    ASSUME TypeOK, OutInv, NEW c \in Callers,
           \/ seqOnceEnter(c) \/ seqOncePass(c) \/ seqInit(c) \/ lock(c) \/ readEpoch(c)
           \/ unlock(c) \/ hwOnceEnter(c) \/ hwOncePass(c) \/ hwInit(c)
    PROVE  OutInv'
  <1>1. pc[c] # "idle" /\ UNCHANGED job
    BY Zenon DEF seqOnceEnter, seqOncePass, seqInit, lock, readEpoch, unlock, hwOnceEnter, hwOncePass,
                 hwInit
  <1>2. job'[c].v \in {V1, V2}
    BY <1>1, Zenon DEF OutInv
  <1>3. CASE return(c, BadText)
    BY <1>1, <1>3, BadIs, OutReturns, Zenon
  <1>4. CASE ~return(c, BadText)
    <2>1. PICK l \in {"seqInit", "lock", "epoch", "unlock", "hwOnce", "hwInit", "build"} :
             goto(c, l) /\ UNCHANGED out
      BY <1>4, Zenon DEF seqOnceEnter, seqOncePass, seqInit, lock, readEpoch, unlock, hwOnceEnter,
                         hwOncePass, hwInit
    <2>2. l # "idle" /\ pc' = [pc EXCEPT ![c] = l]
      BY <2>1, Zenon DEF goto
    <2> QED BY <1>1, <1>2, <2>1, <2>2, OutGoesOn, Zenon
  <1> QED BY <1>3, <1>4, Zenon

(* What the calls of the generator return, for any number of goroutines:   *)
(* values of the version asked for, with the variant of RFC 4122           *)
(* (generator.go:89-165).                                                  *)
THEOREM ReturnsInvariant == Spec => []OutInv
  <1>1. Init => OutInv
    <2> SUFFICES ASSUME Init PROVE OutInv
      OBVIOUS
    <2>1. Parsed(Nil) \in [u : Value, err : BOOLEAN]
      <3>1. Nil \in Value
        BY DEF Nil, Value, Size, Byte
      <3> QED BY <3>1, Zenon DEF Parsed
    <2> QED BY <2>1, Zenon DEF Init, OutInv, Returned
  <1>2. TypeOK /\ IInv /\ OutInv /\ [Next]_vars => OutInv'
    <2> SUFFICES ASSUME TypeOK, IInv, OutInv, [Next]_vars PROVE OutInv'
      OBVIOUS
    <2>1. CASE UNCHANGED vars
      <3>1. UNCHANGED <<pc, job, out>>
        BY <2>1, Zenon DEF vars
      <3> QED BY <3>1, Zenon DEF OutInv
    <2>2. CASE Next
      BY <2>2, Steps, BeginOut, NewV345Out, BuildOut, OtherOut, Zenon
    <2> QED BY <2>1, <2>2, Zenon
  <1> QED BY <1>1, <1>2, TypeCorrect, Inductive, PTL DEF Spec

(* Every value that a call returns reads back as itself from each of its   *)
(* forms, with its version and variant, and a canonical form with one      *)
(* wrong character is refused, for all 2^128 values (codec.go:50-167).     *)
THEOREM ValuesReadBack == Spec => []ReadsBack
  <1>1. OutInv => ReadsBack
    <2> SUFFICES ASSUME OutInv, NEW c \in Callers, pc[c] = "idle", out[c] \notin {Parsed(Nil), BadText}
                 PROVE  LET t == String(out[c].u) IN
                        /\ \A f \in Forms(out[c].u) : UnmarshalText(f) = out[c]
                        /\ Version(out[c].u) = job[c].v /\ Variant(out[c].u) = VariantRFC4122
                        /\ \A i \in 1 .. Len(t) :
                             FromStringOrNil([t EXCEPT ![i] = IF @ \in Digit THEN Dash ELSE 0]) = Nil
                        /\ UnmarshalBinary(out[c].u) = out[c]
      BY Zenon DEF ReadsBack
    <2> DEFINE u == out[c].u
    <2>1. /\ u \in Value /\ out[c] = Parsed(u)
          /\ Version(u) = job[c].v /\ Variant(u) = VariantRFC4122
      BY Zenon DEF OutInv, Returned
    <2> HIDE DEF u
    <2>2. \A f \in Forms(u) : UnmarshalText(f) = Parsed(u)
      BY <2>1, FormsRead, Zenon
    <2>3. Len(String(u)) = 36
      BY <2>1, StringParts, Zenon
    <2>4. \A i \in 1 .. 36 :
             FromStringOrNil([String(u) EXCEPT ![i] = IF @ \in Digit THEN Dash ELSE 0]) = Nil
      BY <2>1, OneWrong, Zenon
    <2>5. UnmarshalBinary(u) = Parsed(u)
      <3>1. Len(u) = Size
        BY <2>1, ValueSeq, Zenon DEF Size
      <3> QED BY <3>1, Zenon DEF UnmarshalBinary
    <2> QED BY <2>1, <2>2, <2>3, <2>4, <2>5, Zenon DEF u
  <1> QED BY <1>1, ReturnsInvariant, PTL
=============================================================================
