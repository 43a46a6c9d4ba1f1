---------------------- MODULE VideoResendServiceProofs -----------------------
(***************************************************************************)
(* Proofs about VideoResendService, for every size of the cache and of the *)
(* sequence numbers.  RecentKept rests on one fact of arithmetic: as the   *)
(* numbers wrap around at a multiple of the cache size, packet n sits in   *)
(* the slot n % CacheSize, so that two packets of one slot are at least a  *)
(* cache size apart.  What handle has sent again is related to the loop    *)
(* variable by SentSoFar (nothing is left out) and by WithinRange (nothing *)
(* else is sent).                                                          *)
(***************************************************************************)
EXTENDS VideoResendService, TLAPS

\* The loop has sent every recent packet of the numbers it has passed.
SentSoFar ==
  pc = "resend" =>
    \A n \in cached : Recent(n) /\ startSeq <= sequence(n) /\ sequence(n) < seq => n \in resent

\* Below the largest number, the loop variable does not leave the range by more than one.
WithinRange ==
  /\ pc = "resend" /\ endSeq # SeqMod - 1 => startSeq <= seq /\ seq <= endSeq + 1
  /\ pc = "idle" => resent = {}

IInv == TypeOK /\ RecentKept /\ SentSoFar /\ WithinRange /\ OnlyRequested

-------------------------------------------------------------------------------
(* Arithmetic *)

\* Division with remainder.
LEMMA ModDef ==
  ASSUME NEW a \in Nat, NEW b \in Nat \ {0}
  PROVE  /\ a % b \in 0 .. b - 1 /\ a \div b \in Nat
         /\ a = b * (a \div b) + (a % b)
OBVIOUS

\* Quotient and remainder are unique.
LEMMA DivisionUnique ==
  ASSUME NEW b \in Nat \ {0}, NEW q \in Nat, NEW p \in Nat,
         NEW r \in 0 .. b - 1, NEW s \in 0 .. b - 1, b * q + r = b * p + s
  PROVE  q = p /\ r = s
OBVIOUS

LEMMA ModOfSum ==
  ASSUME NEW b \in Nat \ {0}, NEW q \in Nat, NEW r \in 0 .. b - 1
  PROVE  (b * q + r) % b = r
<1> DEFINE a == b * q + r
<1>1. a \in Nat
  OBVIOUS
<1> HIDE DEF a
<1>2. a = b * (a \div b) + (a % b) /\ a % b \in 0 .. b - 1 /\ a \div b \in Nat
  BY <1>1, ModDef
<1>3. b * q + r = b * (a \div b) + (a % b)
  BY <1>2 DEF a
<1>4. r = a % b
  BY <1>2, <1>3, DivisionUnique
<1> QED BY <1>4 DEF a

\* Two numbers with the same remainder, less than b apart, are equal.
LEMMA Apart ==
  ASSUME NEW b \in Nat \ {0}, NEW q \in Nat, NEW p \in Nat, NEW r \in 0 .. b - 1,
         b * q + r < b * p + r + b, b * p + r < b * q + r + b
  PROVE  q = p
OBVIOUS

\* The slot of a packet does not depend on the wrap of the sequence numbers.
LEMMA SlotOf ==
  ASSUME NEW n \in Nat
  PROVE  slot(sequence(n)) = n % CacheSize
<1> DEFINE k == SeqMod \div CacheSize
           q == n \div SeqMod
           m == n % SeqMod
           r == m % CacheSize
           u == m \div CacheSize
<1>1. k \in Nat /\ SeqMod = CacheSize * k
  BY ModDef, SizesAssumption
<1>2. q \in Nat /\ m \in Nat /\ n = SeqMod * q + m
  BY ModDef, SizesAssumption
<1>3. r \in 0 .. CacheSize - 1 /\ u \in Nat /\ m = CacheSize * u + r
  BY <1>2, ModDef, SizesAssumption
<1> HIDE DEF k, q, m, r, u
<1>4. n = CacheSize * (k * q + u) + r /\ k * q + u \in Nat
  BY <1>1, <1>2, <1>3, SizesAssumption
<1>5. n % CacheSize = r
  BY <1>4, <1>3, ModOfSum, SizesAssumption
<1> QED BY <1>5 DEF slot, sequence, r, m

\* Two packets in one slot, less than a cache size apart, are the same packet.
LEMMA OnePerSlot ==
  ASSUME NEW n \in Nat, NEW m \in Nat, slot(sequence(n)) = slot(sequence(m)),
         n < m + CacheSize, m < n + CacheSize
  PROVE  n = m
<1> DEFINE q == n \div CacheSize
           p == m \div CacheSize
           r == n % CacheSize
<1>1. r = m % CacheSize
  BY SlotOf
<1>2. q \in Nat /\ r \in 0 .. CacheSize - 1 /\ n = CacheSize * q + r
  BY ModDef, SizesAssumption
<1>3. p \in Nat /\ m = CacheSize * p + r
  BY <1>1, ModDef, SizesAssumption
<1> HIDE DEF q, p, r
<1>4. q = p
  BY <1>2, <1>3, Apart, SizesAssumption
<1> QED BY <1>2, <1>3, <1>4

\* Slots and sequence numbers are in range.
LEMMA Ranges ==
  /\ \A n \in Nat : sequence(n) \in SeqNos
  /\ \A s \in Nat : slot(s) \in Slots
<1>1. ASSUME NEW n \in Nat PROVE sequence(n) \in SeqNos
  BY ModDef, SizesAssumption DEF sequence, SeqNos
<1>2. ASSUME NEW s \in Nat PROVE slot(s) \in Slots
  BY ModDef, SizesAssumption DEF slot, Slots
<1> QED BY <1>1, <1>2

\* seq++ of a uint16_t.
LEMMA Increment ==
  ASSUME NEW s \in SeqNos
  PROVE  /\ (s + 1) % SeqMod \in SeqNos
         /\ s # SeqMod - 1 => (s + 1) % SeqMod = s + 1
         /\ s = SeqMod - 1 => (s + 1) % SeqMod = 0
<1>1. SeqMod \in Nat \ {0} /\ s \in Nat /\ s < SeqMod
  BY SizesAssumption DEF SeqNos
<1>2. (s + 1) % SeqMod \in SeqNos
  BY <1>1, ModDef DEF SeqNos
<1>3. ASSUME s # SeqMod - 1 PROVE (s + 1) % SeqMod = s + 1
  <2>1. s + 1 \in 0 .. SeqMod - 1 /\ SeqMod * 0 + (s + 1) = s + 1
    BY <1>1, <1>3
  <2> QED BY <2>1, <1>1, ModOfSum
<1>4. ASSUME s = SeqMod - 1 PROVE (s + 1) % SeqMod = 0
  <2>1. 0 \in 0 .. SeqMod - 1 /\ SeqMod * 1 + 0 = s + 1
    BY <1>1, <1>4
  <2> QED BY <2>1, <1>1, ModOfSum
<1> QED BY <1>2, <1>3, <1>4

-------------------------------------------------------------------------------
(* The steps *)

LEMMA InitOK == Init => IInv
<1> SUFFICES ASSUME Init PROVE IInv
  OBVIOUS
<1>1. 0 \in SeqNos
  BY SizesAssumption DEF SeqNos
<1>2. TypeOK
  BY <1>1 DEF Init, TypeOK
<1> QED
  BY <1>2 DEF Init, IInv, RecentKept, SentSoFar, WithinRange, OnlyRequested

LEMMA WebrtcPacketOK ==
  ASSUME IInv, NEW n \in Packets, WebrtcPacket(n)
  PROVE  IInv'
<1> USE DEF IInv
<1>1. /\ n \in Nat /\ cached \subseteq Nat /\ cached' = cached \cup {n}
      /\ slot(sequence(n)) \in Slots
      /\ rtpPackages' = [rtpPackages EXCEPT ![slot(sequence(n))] = n]
      /\ pc = "idle" /\ pc' = "idle"
      /\ seq' = seq /\ startSeq' = startSeq /\ endSeq' = endSeq /\ resent' = resent
      /\ \A m \in cached : m < n + CacheSize
  BY Ranges, SizesAssumption DEF WebrtcPacket, cacheData, Packets, TypeOK, SeqNos
<1>2. TypeOK'
  BY <1>1 DEF TypeOK
<1>3. RecentKept'
  <2> SUFFICES ASSUME NEW m \in cached', Recent(m)'
               PROVE  rtpPackages'[slot(sequence(m))] = m
    BY DEF RecentKept
  <2>1. rtpPackages'[slot(sequence(n))] = n
    BY <1>1 DEF TypeOK
  <2>2. CASE m = n
    BY <2>1, <2>2
  <2>3. CASE m # n
    <3>1. m \in cached /\ m \in Nat /\ m < n + CacheSize /\ n < m + CacheSize
      BY <1>1, <2>3 DEF Recent
    <3>2. Recent(m)
      BY <1>1 DEF Recent
    <3>3. slot(sequence(m)) # slot(sequence(n))
      BY <3>1, <1>1, <2>3, OnePerSlot
    <3>4. rtpPackages[slot(sequence(m))] = m
      BY <3>1, <3>2 DEF RecentKept
    <3>5. slot(sequence(m)) \in Slots
      BY <3>1, Ranges DEF SeqNos
    <3> QED BY <1>1, <3>3, <3>4, <3>5 DEF TypeOK
  <2> QED BY <2>2, <2>3
<1>4. SentSoFar' /\ WithinRange' /\ OnlyRequested'
  BY <1>1 DEF SentSoFar, WithinRange, OnlyRequested
<1> QED BY <1>2, <1>3, <1>4

\* What the loop of handle leaves alone.
LEMMA CacheUnchanged ==
  ASSUME RecentKept, UNCHANGED <<rtpPackages, cached>>
  PROVE  RecentKept' /\ \A n : Recent(n)' = Recent(n)
BY DEF RecentKept, Recent

LEMMA HandleBeginsOK ==
  ASSUME IInv, NEW s \in SeqNos, NEW e \in SeqNos, HandleBegins(s, e)
  PROVE  IInv'
<1> USE DEF IInv
<1>1. TypeOK'
  BY DEF TypeOK, HandleBegins
<1>2. RecentKept'
  BY CacheUnchanged DEF HandleBegins
<1>3. s \in Nat /\ e \in Nat /\ s <= e
  BY SizesAssumption DEF SeqNos, HandleBegins
<1>4. SentSoFar'
  <2> SUFFICES ASSUME NEW n \in cached', (startSeq <= sequence(n) /\ sequence(n) < seq)'
               PROVE  FALSE
    BY DEF SentSoFar
  <2>1. sequence(n) \in Nat
    BY <1>1, Ranges, SizesAssumption DEF TypeOK, Packets, SeqNos
  <2>2. s <= sequence(n) /\ sequence(n) < s
    BY DEF HandleBegins, sequence
  <2> QED BY <2>1, <2>2, <1>3
<1>5. WithinRange' /\ OnlyRequested'
  BY <1>3 DEF HandleBegins, WithinRange, OnlyRequested
<1> QED BY <1>1, <1>2, <1>4, <1>5

LEMMA ResendStepOK ==
  ASSUME IInv, ResendStep
  PROVE  IInv'
<1> USE DEF IInv
<1> DEFINE x == rtpPackages[slot(seq)]
<1>1. /\ seq \in SeqNos /\ startSeq \in SeqNos /\ endSeq \in SeqNos
      /\ seq \in Nat /\ startSeq \in Nat /\ endSeq \in Nat /\ SeqMod \in Nat
      /\ seq < SeqMod /\ endSeq < SeqMod
  BY SizesAssumption DEF TypeOK, SeqNos
<1>2. /\ pc = "resend" /\ pc' = "resend" /\ seq <= endSeq
      /\ seq' = (seq + 1) % SeqMod /\ resent' = resent \cup ToSend(x)
      /\ startSeq' = startSeq /\ endSeq' = endSeq
      /\ rtpPackages' = rtpPackages /\ cached' = cached /\ x # None
  BY DEF ResendStep, LoopGoesOn
<1>3. x \in Packets
  BY <1>1, <1>2, Ranges DEF TypeOK
<1> HIDE DEF x
<1>4. ToSend(x) \subseteq Packets /\ \A n \in ToSend(x) : sequence(n) = seq
  BY <1>3 DEF ToSend
<1>5. TypeOK'
  BY <1>1, <1>2, <1>4, Increment DEF TypeOK
<1>6. RecentKept' /\ \A n : Recent(n)' = Recent(n)
  BY <1>2, CacheUnchanged
<1>7. SentSoFar'
  <2> SUFFICES ASSUME NEW n \in cached, Recent(n), startSeq <= sequence(n), sequence(n) < seq'
               PROVE  n \in resent'
    BY <1>2, <1>6 DEF SentSoFar
  <2>1. sequence(n) \in Nat
    BY Ranges, SizesAssumption DEF TypeOK, Packets, SeqNos
  <2>2. seq' = seq + 1
    BY <1>1, <1>2, <2>1, Increment
  <2>3. CASE sequence(n) < seq
    BY <2>3, <1>2 DEF SentSoFar
  <2>4. CASE sequence(n) = seq
    <3>1. x = n
      BY <2>4 DEF RecentKept, x
    <3> QED BY <3>1, <2>4, <1>2 DEF ToSend
  <2> QED BY <1>1, <2>1, <2>2, <2>3, <2>4
<1>8. WithinRange'
  <2>1. ASSUME endSeq # SeqMod - 1 PROVE startSeq <= seq' /\ seq' <= endSeq + 1
    <3>1. startSeq <= seq /\ seq # SeqMod - 1
      BY <1>1, <1>2, <2>1 DEF WithinRange
    <3>2. seq' = seq + 1
      BY <1>1, <1>2, <3>1, Increment
    <3> QED BY <1>1, <1>2, <3>1, <3>2
  <2> QED BY <1>2, <2>1 DEF WithinRange
<1>9. OnlyRequested'
  <2> SUFFICES ASSUME endSeq # SeqMod - 1, NEW n \in resent'
               PROVE  sequence(n) \in startSeq .. endSeq
    BY <1>2 DEF OnlyRequested, sequence
  <2>1. seq \in startSeq .. endSeq
    BY <1>1, <1>2 DEF WithinRange
  <2> QED BY <1>2, <1>4, <2>1 DEF OnlyRequested
<1> QED BY <1>5, <1>6, <1>7, <1>8, <1>9

LEMMA HandleEndsOK ==
  ASSUME IInv, ResendAborts \/ HandleReturns
  PROVE  IInv'
<1> USE DEF IInv
<1>1. 0 \in SeqNos
  BY SizesAssumption DEF SeqNos
<1>2. TypeOK'
  BY <1>1 DEF TypeOK, ResendAborts, HandleReturns
<1>3. RecentKept'
  BY CacheUnchanged DEF ResendAborts, HandleReturns
<1>4. SentSoFar' /\ WithinRange'
  BY DEF SentSoFar, WithinRange, ResendAborts, HandleReturns
<1>5. OnlyRequested'
  BY DEF OnlyRequested, ResendAborts, HandleReturns, sequence
<1> QED BY <1>2, <1>3, <1>4, <1>5

LEMMA StutterOK == ASSUME IInv, UNCHANGED vars PROVE IInv'
<1>1. RecentKept'
  BY CacheUnchanged DEF IInv, vars
<1> QED
  BY <1>1 DEF IInv, vars, TypeOK, SentSoFar, Recent, WithinRange, OnlyRequested, sequence

LEMMA NextOK == IInv /\ [Next]_vars => IInv'
<1> SUFFICES ASSUME IInv, [Next]_vars PROVE IInv'
  OBVIOUS
<1>1. CASE \E n \in Packets : WebrtcPacket(n)
  BY <1>1, WebrtcPacketOK
<1>2. CASE \E s, e \in SeqNos : HandleBegins(s, e)
  BY <1>2, HandleBeginsOK
<1>3. CASE ResendStep
  BY <1>3, ResendStepOK
<1>4. CASE ResendAborts \/ HandleReturns
  BY <1>4, HandleEndsOK
<1>5. CASE UNCHANGED vars
  BY <1>5, StutterOK
<1> QED BY <1>1, <1>2, <1>3, <1>4, <1>5 DEF Next, Handle

-------------------------------------------------------------------------------
(* Theorems *)

LEMMA IInvAlways == Spec => []IInv
BY InitOK, NextOK, PTL DEF Spec

(***************************************************************************)
(* The slots hold packets, and the loop variable of handle stays a 16-bit  *)
(* number, for every size of the cache.                                    *)
(***************************************************************************)
THEOREM TypeCorrect == Spec => []TypeOK
<1>1. IInv => TypeOK
  BY DEF IInv
<1> QED BY <1>1, IInvAlways, PTL

(***************************************************************************)
(* cacheData never drops a packet that is less than a cache size behind    *)
(* the newest one, whatever is lost, duplicated, late or wrapped around.   *)
(***************************************************************************)
THEOREM RecentKeptAlways == Spec => []RecentKept
<1>1. IInv => RecentKept
  BY DEF IInv
<1> QED BY <1>1, IInvAlways, PTL

(***************************************************************************)
(* handle sends nothing outside of the range it was asked for, if that     *)
(* does not end at the largest sequence number.                            *)
(***************************************************************************)
THEOREM OnlyRequestedAlways == Spec => []OnlyRequested
<1>1. IInv => OnlyRequested
  BY DEF IInv
<1> QED BY <1>1, IInvAlways, PTL

(***************************************************************************)
(* When handle returns it has sent every recent packet of the range.  The  *)
(* loop ends with seq beyond endSeq, where SentSoFar covers the range.     *)
(***************************************************************************)
THEOREM RecentResentAlways == Spec => RecentResent
<1>1. ASSUME IInv, [Next]_vars, pc = "resend", pc' = "idle",
             NEW n \in cached, Recent(n), sequence(n) \in startSeq .. endSeq
      PROVE  n \in resent
  <2>1. HandleReturns
    BY <1>1 DEF Next, Handle, WebrtcPacket, HandleBegins, ResendStep, ResendAborts, LoopGoesOn,
                vars
  <2>2. seq \in Nat /\ startSeq \in Nat /\ endSeq \in Nat /\ endSeq < seq
    BY <1>1, <2>1, SizesAssumption DEF IInv, TypeOK, SeqNos, HandleReturns, LoopGoesOn
  <2>3. startSeq <= sequence(n) /\ sequence(n) < seq
    BY <1>1, <2>2
  <2> QED BY <1>1, <2>3 DEF IInv, SentSoFar
<1>2. IInv /\ [Next]_vars =>
        [pc = "resend" /\ pc' = "idle" =>
           \A n \in cached : Recent(n) /\ sequence(n) \in startSeq .. endSeq => n \in resent]_vars
  BY <1>1
<1> QED BY <1>2, IInvAlways, PTL DEF Spec, RecentResent

-------------------------------------------------------------------------------
(* The loop of handle *)

(***************************************************************************)
(* Below the largest number every round of the loop brings seq closer to   *)
(* the end of the range, which stays where it is, and the distance stays a *)
(* natural number: handle takes at most as many rounds as the range has    *)
(* numbers.  With the fairness of FairSpec this is why ReturnsBelowTop     *)
(* holds.                                                                  *)
(***************************************************************************)
RoundsLeft == endSeq + 1 - seq

LoopAdvances ==
  [][pc = "resend" /\ pc' = "resend" /\ endSeq # SeqMod - 1 =>
       /\ endSeq' = endSeq
       /\ RoundsLeft \in Nat /\ RoundsLeft' \in Nat
       /\ RoundsLeft' < RoundsLeft]_vars

\* The loop of handle advances, for every size of the sequence numbers.
THEOREM LoopAdvancesAlways == Spec => LoopAdvances
<1>1. ASSUME IInv, [Next]_vars
      PROVE  [pc = "resend" /\ pc' = "resend" /\ endSeq # SeqMod - 1 =>
                /\ endSeq' = endSeq
                /\ RoundsLeft \in Nat /\ RoundsLeft' \in Nat
                /\ RoundsLeft' < RoundsLeft]_vars
  <2> SUFFICES ASSUME Next, pc = "resend", pc' = "resend", endSeq # SeqMod - 1
               PROVE  /\ endSeq' = endSeq
                      /\ RoundsLeft \in Nat /\ RoundsLeft' \in Nat
                      /\ RoundsLeft' < RoundsLeft
    BY <1>1
  <2>1. ResendStep
    BY DEF Next, Handle, WebrtcPacket, HandleBegins, ResendAborts, HandleReturns
  <2>2. /\ seq \in SeqNos /\ endSeq \in SeqNos /\ seq <= endSeq /\ endSeq' = endSeq
        /\ seq' = (seq + 1) % SeqMod
    BY <1>1, <2>1 DEF IInv, TypeOK, ResendStep, LoopGoesOn
  <2>3. seq # SeqMod - 1
    BY <2>2, SizesAssumption DEF SeqNos
  <2>4. seq' = seq + 1
    BY <2>2, <2>3, Increment
  <2> QED BY <2>2, <2>4, SizesAssumption DEF SeqNos, RoundsLeft
<1> QED BY <1>1, IInvAlways, PTL DEF Spec, LoopAdvances

\* A request whose range ends at the largest number never leaves the loop but
\* by the assertion: the condition cannot become false for a uint16_t.
THEOREM TopIsNeverPassed ==
  Spec => [][pc = "resend" /\ pc' = "idle" => endSeq # SeqMod - 1]_vars
<1>1. ASSUME IInv, [Next]_vars
      PROVE  [pc = "resend" /\ pc' = "idle" => endSeq # SeqMod - 1]_vars
  <2> SUFFICES ASSUME Next, pc = "resend", pc' = "idle" PROVE endSeq # SeqMod - 1
    BY <1>1
  <2>1. HandleReturns
    BY DEF Next, Handle, WebrtcPacket, HandleBegins, ResendAborts, ResendStep
  <2>2. seq \in SeqNos /\ ~(seq <= endSeq)
    BY <1>1, <2>1 DEF IInv, TypeOK, HandleReturns, LoopGoesOn
  <2> QED BY <2>2, SizesAssumption DEF SeqNos
<1> QED BY <1>1, IInvAlways, PTL DEF Spec
==============================================================================
