---------------------------- MODULE TimersProofs ----------------------------
(***************************************************************************)
(* Theorems about the kernel's timers, for any tick rates, timeouts and    *)
(* numbers of timers: how many ticks a timer misses, that none expires     *)
(* early, and which system timer is active.                                *)
(***************************************************************************)
EXTENDS Timers, SequenceTheorems, FiniteSetTheorems, TLAPS

---------------------------------------------------------------------------
(* Least and greatest elements                                              *)

(* A set of naturals that is not empty has a first element, so the loop of  *)
(* TimersTick ends early if any single-shot timer expires.                  *)
LEMMA FirstExists ==
    ASSUME NEW S \in SUBSET Nat, S # {}
    PROVE  \E i \in S : First(S) = {i}
<1>1. IsWellFoundedOn(OpToRel(<, Nat), Nat)
  BY NatLessThanWellFounded
<1>2. PICK i \in S : \A j \in S : <<j, i>> \notin OpToRel(<, Nat)
  BY <1>1, WFMin, Zenon
<1>3. \A j \in S : i <= j
  <2>1. \A m, n \in Nat : m < n => <<m, n>> \in OpToRel(<, Nat)
    BY DEF OpToRel
  <2>2. \A j \in S : ~(j < i)
    BY <1>2, <2>1
  <2> QED BY <2>2
<1>4. \A j \in First(S) : j = i
  BY <1>3 DEF First
<1>5. i \in First(S)
  BY <1>3 DEF First
<1> QED BY <1>4, <1>5

(* A finite set of naturals that is not empty has a greatest element. *)
LEMMA GreatestExists ==
    ASSUME NEW S \in SUBSET Nat, IsFiniteSet(S), S # {}
    PROVE  \E i \in S : \A j \in S : j <= i
<1> DEFINE Above(i) == {j \in S : i < j}
           U == {Above(i) : i \in S}
<1>1. IsWellFoundedOn(StrictSubsetOrdering(S), FiniteSubsetsOf(S))
  BY FS_StrictSubsetOrderingWellFounded
<1>2. U \subseteq FiniteSubsetsOf(S) /\ U # {}
  <2>1. \A i \in S : Above(i) \in SUBSET S
    OBVIOUS
  <2>2. \A i \in S : Above(i) \in FiniteSubsetsOf(S)
    BY <2>1, FS_Subset DEF FiniteSubsetsOf
  <2> QED BY <2>2
<1> HIDE DEF U
<1>3. PICK A \in U : \A B \in U : <<B, A>> \notin StrictSubsetOrdering(S)
  BY <1>1, <1>2, WFMin, Zenon
<1>4. PICK i \in S : A = Above(i)
  BY <1>3 DEF U
<1>5. ASSUME NEW j \in S, i < j
      PROVE  FALSE
  <2>1. Above(j) \in U
    BY DEF U
  <2>2. j \in A /\ j \notin Above(j)
    BY <1>4, <1>5
  <2>4. Above(j) \subseteq A
    <3>1. \A k \in S : j < k => i < k
      BY <1>5
    <3> QED BY <3>1, <1>4
  <2>3. A \in SUBSET S /\ Above(j) \in SUBSET S
    BY <1>4
  <2> HIDE DEF Above
  <2> QED BY <1>3, <2>1, <2>2, <2>3, <2>4 DEF StrictSubsetOrdering
<1>6. \A j \in S : j <= i
  BY <1>5
<1> QED BY <1>6

(* Unlinking the timer at position i moves the later ones one down. *)
LEMMA RemoveAtFacts ==
    ASSUME NEW S, NEW s \in Seq(S), NEW i \in 1..Len(s)
    PROVE  /\ RemoveAt(s, i) \in Seq(S)
           /\ Len(RemoveAt(s, i)) = Len(s) - 1
           /\ \A j \in 1..Len(s)-1 : RemoveAt(s, i)[j] = IF j < i THEN s[j] ELSE s[j+1]
<1> DEFINE a == SubSeq(s, 1, i-1)
           b == SubSeq(s, i+1, Len(s))
<1>0. Len(s) \in Nat
  BY LenProperties
<1>1. a \in Seq(S) /\ Len(a) = i-1 /\ \A j \in 1..i-1 : a[j] = s[j]
  BY ElementOfSeq, SubSeqProperties, <1>0
<1>2. b \in Seq(S) /\ Len(b) = Len(s)-i /\ \A j \in 1..Len(s)-i : b[j] = s[i+j]
  BY ElementOfSeq, SubSeqProperties, <1>0
<1>3. RemoveAt(s, i) = a \o b
  BY DEF RemoveAt
<1> HIDE DEF a, b
<1>4. /\ a \o b \in Seq(S) /\ Len(a \o b) = Len(a) + Len(b)
      /\ \A j \in 1..Len(a)+Len(b) : (a \o b)[j] = IF j <= Len(a) THEN a[j] ELSE b[j-Len(a)]
  BY <1>1, <1>2, ConcatProperties
<1>5. Len(a) + Len(b) = Len(s) - 1
  BY <1>0, <1>1, <1>2
<1>6. ASSUME NEW j \in 1..Len(s)-1
      PROVE  (a \o b)[j] = IF j < i THEN s[j] ELSE s[j+1]
  <2>0. j \in 1..Len(a)+Len(b) /\ Len(a) = i-1
    BY <1>1, <1>5
  <2>1. CASE j < i
    <3>1. (a \o b)[j] = a[j]
      BY <2>0, <2>1, <1>0, <1>4
    <3> QED BY <2>1, <3>1, <1>0, <1>1
  <2>2. CASE j >= i
    <3>1. (a \o b)[j] = b[j-Len(a)]
      BY <2>0, <2>2, <1>0, <1>4
    <3>2. b[j-Len(a)] = s[i+(j-Len(a))]
      BY <2>0, <2>2, <1>0, <1>2
    <3>3. i+(j-Len(a)) = j+1
      BY <2>0, <1>0
    <3> QED BY <2>2, <3>1, <3>2, <3>3, <1>0
  <2>3. j < i \/ j >= i
    BY <1>0
  <2> QED BY <2>1, <2>2, <2>3, Zenon
<1> QED
  BY <1>3, <1>4, <1>5, <1>6
---------------------------------------------------------------------------
(* Ticks                                                                    *)

(* DIVUP of a tick is at least one millisecond. *)
LEMMA MilliTicksPositive ==
    ASSUME NEW r \in TickRates
    PROVE  MilliTicks(r) \in Nat /\ MilliTicks(r) > 0
<1>1. r \in Nat /\ r > 0 /\ NSEC_PER_MSEC \in Nat /\ NSEC_PER_MSEC > 0
  BY TimerConstants
<1>2. r \div NSEC_PER_MSEC \in Nat /\ r % NSEC_PER_MSEC \in Nat
  BY <1>1
<1>3. r = NSEC_PER_MSEC * (r \div NSEC_PER_MSEC) + (r % NSEC_PER_MSEC)
  BY <1>1
<1>4. r % NSEC_PER_MSEC = 0 => r \div NSEC_PER_MSEC # 0
  BY <1>1, <1>2, <1>3
<1> QED BY <1>2, <1>4 DEF MilliTicks

LEMMA LongestTickFacts ==
    /\ LongestTick \in Nat
    /\ \A r \in TickRates : MilliTicks(r) <= LongestTick
<1> DEFINE S == {MilliTicks(r) : r \in TickRates}
<1>1. S \in SUBSET Nat
  BY MilliTicksPositive
<1>2. S # {}
  BY TimerConstants
<1>3. IsFiniteSet(S)
  <2> DEFINE f == [r \in TickRates |-> MilliTicks(r)]
  <2>1. f \in Surjection(TickRates, S)
    BY DEF Surjection
  <2> HIDE DEF f, S
  <2> QED BY <2>1, FS_Surjection, TimerConstants
<1>4. \E i \in S : \A j \in S : j <= i
  <2> HIDE DEF S
  <2> QED BY <1>1, <1>2, <1>3, GreatestExists
<1>5. \E ms \in S : \A r \in TickRates : MilliTicks(r) <= ms
  BY <1>4
<1>6. LongestTick \in S /\ \A r \in TickRates : MilliTicks(r) <= LongestTick
  BY <1>5 DEF LongestTick
<1> QED BY <1>1, <1>6

---------------------------------------------------------------------------
(* The inductive invariant                                                  *)

(* The timers are in the order of their creation: what goes before a timer  *)
(* is older, so each early end of the loop that costs a timer a tick also   *)
(* takes one of the finitely many older timers away.                        *)
CreationOrder ==
    /\ \A i, j \in DOMAIN GlbTimers : i < j => GlbTimers[i].id < GlbTimers[j].id
    /\ \A i \in DOMAIN GlbTimers : GlbTimers[i].id < GlbTimerIds

NeverNegative == \A i \in DOMAIN GlbTimers : GlbTimers[i].MsLeft >= 0

TimersInv == MissedBounded /\ CreationOrder /\ NeverNegative

Gone(id) == {j \in 0..id-1 : j \notin Ids}

LEMMA GoneFinite ==
    ASSUME NEW id \in Nat, NEW S
    PROVE  /\ IsFiniteSet({j \in 0..id-1 : j \notin S})
           /\ Cardinality({j \in 0..id-1 : j \notin S}) \in Nat
<1>1. IsFiniteSet(0..id-1)
  BY FS_Interval
<1> QED BY <1>1, FS_Subset, FS_CardinalityType

(* Timers only go. *)
LEMMA GoneGrows ==
    ASSUME NEW id \in Nat, NEW S, NEW T, T \cap (0..id-1) \subseteq S
    PROVE  /\ Cardinality({j \in 0..id-1 : j \notin S}) <= Cardinality({j \in 0..id-1 : j \notin T})
           /\ \A k \in (0..id-1) \cap (S \ T) :
                 Cardinality({j \in 0..id-1 : j \notin S}) + 1
                     <= Cardinality({j \in 0..id-1 : j \notin T})
<1> DEFINE A == {j \in 0..id-1 : j \notin S}
           B == {j \in 0..id-1 : j \notin T}
<1>1. A \in SUBSET B
  OBVIOUS
<1>2. IsFiniteSet(B) /\ Cardinality(B) \in Nat /\ Cardinality(A) \in Nat
  BY GoneFinite
<1>3. ASSUME NEW k \in (0..id-1) \cap (S \ T)
      PROVE  A # B
  OBVIOUS
<1> HIDE DEF A, B
<1>4. Cardinality(A) <= Cardinality(B) /\ (Cardinality(B) = Cardinality(A) => A = B)
  BY <1>1, <1>2, FS_Subset
<1>5. ASSUME NEW k \in (0..id-1) \cap (S \ T)
      PROVE  Cardinality(A) + 1 <= Cardinality(B)
  BY <1>2, <1>3, <1>4
<1> QED BY <1>4, <1>5 DEF A, B

(* What one more timer that has gone pays for is one tick. *)
LEMMA OneTickMore ==
    ASSUME NEW L \in Nat, NEW m \in Nat, NEW n \in Nat
    PROVE  /\ L * n \in Nat
           /\ m <= n => L * m <= L * n
           /\ m + 1 <= n => L * m + L <= L * n
<1>1. L * (m + 1) = L * m + L
  OBVIOUS
<1>2. ASSUME NEW a \in Nat, NEW b \in Nat, a <= b
      PROVE  L * a <= L * b
  BY <1>2
<1> QED BY <1>1, <1>2

---------------------------------------------------------------------------
(* What a tick does to the list, timer by timer                             *)

(* k is the position of the first single-shot timer that expires, or behind *)
(* the end of the list: what is before it is counted down, it goes, and     *)
(* what is behind it moves down untouched.                                  *)
TickedUpTo(k, ms) ==
    /\ k \in 1..Len(GlbTimers)+1
    /\ \A i \in 1..k-1 : GlbTimers[i].periodic \/ ~Expires(GlbTimers[i], ms)
    /\ k <= Len(GlbTimers) => ~GlbTimers[k].periodic /\ Expires(GlbTimers[k], ms)
    /\ LastTicked(ms) = IF k <= Len(GlbTimers) THEN {k} ELSE {}
    /\ GlbTimers' \in Seq(TimerType)
    /\ k <= Len(GlbTimers) =>
          Len(GlbTimers') = Len(GlbTimers) - 1 /\ DOMAIN GlbTimers' = 1..Len(GlbTimers)-1
    /\ k = Len(GlbTimers) + 1 =>
          Len(GlbTimers') = Len(GlbTimers) /\ DOMAIN GlbTimers' = 1..Len(GlbTimers)
    /\ \A j \in DOMAIN GlbTimers' :
          GlbTimers'[j] = IF j < k THEN Ticked(GlbTimers[j], ms) ELSE GlbTimers[j+1]

LEMMA TickedType ==
    ASSUME NEW t \in TimerType, NEW ms \in Nat
    PROVE  /\ Ticked(t, ms) \in TimerType
           /\ Ticked(t, ms).id = t.id /\ Ticked(t, ms).periodic = t.periodic
           /\ Ticked(t, ms).PeriodicMs = t.PeriodicMs
           /\ Ticked(t, ms).MsLeft = IF t.periodic /\ Expires(t, ms)
                                     THEN t.PeriodicMs ELSE t.MsLeft - ms
BY TimerConstants DEF Ticked, TimerType

LEMMA CountedFacts ==
    ASSUME GlbTimers \in Seq(TimerType), NEW k \in 0..Len(GlbTimers), NEW ms \in Nat
    PROVE  /\ Counted(k, ms) \in Seq(TimerType)
           /\ Len(Counted(k, ms)) = Len(GlbTimers)
           /\ \A j \in 1..Len(GlbTimers) : Counted(k, ms)[j] =
                 IF j <= k THEN Ticked(GlbTimers[j], ms) ELSE GlbTimers[j]
<1>1. DOMAIN GlbTimers = 1..Len(GlbTimers) /\ Len(GlbTimers) \in Nat
  OBVIOUS
<1>2. \A j \in 1..Len(GlbTimers) : GlbTimers[j] \in TimerType
  OBVIOUS
<1>3. Counted(k, ms) = [j \in 1..Len(GlbTimers) |->
                           IF j <= k THEN Ticked(GlbTimers[j], ms) ELSE GlbTimers[j]]
  BY <1>1 DEF Counted
<1>4. \A j \in 1..Len(GlbTimers) : Ticked(GlbTimers[j], ms) \in TimerType
  BY <1>2, TickedType
<1>5. Counted(k, ms) \in [1..Len(GlbTimers) -> TimerType]
  BY <1>2, <1>3, <1>4
<1>6. Counted(k, ms) \in Seq(TimerType) /\ Len(Counted(k, ms)) = Len(GlbTimers)
  BY <1>1, <1>5, IsASeq, LenProperties
<1> QED BY <1>3, <1>6

LEMMA TickFacts ==
    ASSUME GlbTimers \in Seq(TimerType), NEW ms \in Nat, TimersTick(ms)
    PROVE  \E k \in 1..Len(GlbTimers)+1 : TickedUpTo(k, ms)
<1> DEFINE n == Len(GlbTimers)
           S == {i \in DOMAIN GlbTimers : ~GlbTimers[i].periodic /\ Expires(GlbTimers[i], ms)}
<1>1. n \in Nat /\ DOMAIN GlbTimers = 1..n /\ S \in SUBSET Nat
  OBVIOUS
<1>2. LastTicked(ms) = First(S)
  BY DEF LastTicked
<1>3. CASE S = {}
  <2>1. LastTicked(ms) = {}
    BY <1>2, <1>3 DEF First
  <2>2. GlbTimers' = Counted(n, ms)
    BY <2>1 DEF TimersTick
  <2>3. GlbTimers' \in Seq(TimerType) /\ Len(GlbTimers') = n
        /\ \A j \in 1..n : GlbTimers'[j] = Ticked(GlbTimers[j], ms)
    <3>1. n \in 0..Len(GlbTimers)
      BY <1>1
    <3>2. /\ Counted(n, ms) \in Seq(TimerType) /\ Len(Counted(n, ms)) = n
          /\ \A j \in 1..n : Counted(n, ms)[j] =
                 IF j <= n THEN Ticked(GlbTimers[j], ms) ELSE GlbTimers[j]
      BY ONLY GlbTimers \in Seq(TimerType), ms \in Nat, <3>1, CountedFacts, Zenon
    <3> QED BY <1>1, <2>2, <3>2
  <2>4. DOMAIN GlbTimers' = 1..n
    BY <2>3
  <2>5. TickedUpTo(n+1, ms)
    <3>1. \A i \in 1..n : GlbTimers[i].periodic \/ ~Expires(GlbTimers[i], ms)
      BY <1>1, <1>3
    <3>2. (n+1) \in 1..n+1 /\ ~(n+1 <= n) /\ (n+1)-1 = n
      BY <1>1
    <3>3. \A j \in DOMAIN GlbTimers' : j < n+1 /\ GlbTimers'[j] = Ticked(GlbTimers[j], ms)
      BY <1>1, <2>3, <2>4
    <3> HIDE DEF n, S
    <3> QED BY <2>1, <2>3, <3>1, <3>2, <3>3 DEF TickedUpTo, n
  <2> QED BY <1>1, <2>5
<1>4. CASE S # {}
  <2>1. PICK k \in S : First(S) = {k}
    BY <1>1, <1>4, FirstExists
  <2>2. k \in 1..n /\ ~GlbTimers[k].periodic /\ Expires(GlbTimers[k], ms)
    BY <1>1
  <2>3. \A i \in 1..k-1 : i \notin S
    BY <1>1, <2>1, <2>2 DEF First
  <2>4. GlbTimers' = RemoveAt(Counted(k, ms), k)
    BY <1>2, <2>1 DEF TimersTick
  <2>5. /\ Counted(k, ms) \in Seq(TimerType) /\ Len(Counted(k, ms)) = n
        /\ \A j \in 1..n : Counted(k, ms)[j] =
                 IF j <= k THEN Ticked(GlbTimers[j], ms) ELSE GlbTimers[j]
    <3>1. k \in 0..Len(GlbTimers)
      BY <1>1, <2>2
    <3> QED BY ONLY GlbTimers \in Seq(TimerType), ms \in Nat, <3>1, CountedFacts, Zenon
  <2> HIDE DEF S
  <2>6. /\ GlbTimers' \in Seq(TimerType) /\ Len(GlbTimers') = n - 1
        /\ \A j \in 1..n-1 : GlbTimers'[j] =
              IF j < k THEN Counted(k, ms)[j] ELSE Counted(k, ms)[j+1]
    BY <2>2, <2>4, <2>5, RemoveAtFacts
  <2>7. DOMAIN GlbTimers' = 1..n-1
    BY <1>1, <2>6
  <2>8. ASSUME NEW j \in 1..n-1
        PROVE  GlbTimers'[j] = IF j < k THEN Ticked(GlbTimers[j], ms) ELSE GlbTimers[j+1]
    BY <1>1, <2>2, <2>5, <2>6
  <2>9. \A i \in 1..k-1 : GlbTimers[i].periodic \/ ~Expires(GlbTimers[i], ms)
    BY <1>1, <2>2, <2>3 DEF S
  <2>10. TickedUpTo(k, ms)
    <3>1. k \in 1..n+1 /\ k <= n /\ k # n+1
      BY <1>1, <2>2
    <3>2. LastTicked(ms) = {k}
      BY <1>2, <2>1
    <3> HIDE DEF n
    <3> QED BY <2>2, <2>6, <2>7, <2>8, <2>9, <3>1, <3>2 DEF TickedUpTo, n
  <2> QED BY <1>1, <2>2, <2>10
<1> QED BY <1>3, <1>4

LEMMA RemovedIds ==
    ASSUME GlbTimers \in Seq(TimerType), CreationOrder,
           NEW k \in 1..Len(GlbTimers), NEW T \in Seq(TimerType), Len(T) = Len(GlbTimers) - 1,
           \A j \in 1..Len(GlbTimers)-1 :
              T[j].id = IF j < k THEN GlbTimers[j].id ELSE GlbTimers[j+1].id
    PROVE  {T[j].id : j \in DOMAIN T} = Ids \ {GlbTimers[k].id}
<1> DEFINE n == Len(GlbTimers)
<1>1. n \in Nat /\ DOMAIN GlbTimers = 1..n /\ DOMAIN T = 1..n-1
  OBVIOUS
<1>2. \A i \in 1..n : GlbTimers[i].id \in Nat
  <2>1. \A i \in 1..n : GlbTimers[i] \in TimerType
    OBVIOUS
  <2> QED BY <2>1 DEF TimerType
<1>5. \A i \in 1..n : GlbTimers[i].id \in Ids
  BY <1>1 DEF Ids
<1>3. ASSUME NEW j \in 1..n-1
      PROVE  T[j].id \in Ids \ {GlbTimers[k].id}
  <2>1. CASE j < k
    <3>1. j \in 1..n /\ k \in 1..n /\ T[j].id = GlbTimers[j].id
      BY <1>1, <2>1
    <3>2. GlbTimers[j].id < GlbTimers[k].id
      BY <1>1, <2>1, <3>1 DEF CreationOrder
    <3> HIDE DEF n
    <3> QED BY <1>2, <1>5, <3>1, <3>2
  <2>2. CASE j >= k
    <3>1. j + 1 \in 1..n /\ k < j + 1 /\ T[j].id = GlbTimers[j+1].id
      BY <1>1, <2>2
    <3>2. GlbTimers[k].id < GlbTimers[j+1].id
      BY <1>1, <3>1 DEF CreationOrder
    <3> HIDE DEF n
    <3> QED BY <1>2, <1>5, <3>1, <3>2
  <2> QED BY <1>1, <2>1, <2>2
<1>4. ASSUME NEW i \in 1..n, i # k
      PROVE  \E j \in 1..n-1 : T[j].id = GlbTimers[i].id
  <2>1. CASE i < k
    BY <1>1, <2>1
  <2>2. CASE i > k
    <3>1. i-1 \in 1..n-1 /\ ~(i-1 < k) /\ (i-1)+1 = i
      BY <1>1, <2>2
    <3>2. T[i-1].id = GlbTimers[(i-1)+1].id
      BY <3>1
    <3> QED BY <3>1, <3>2
  <2> QED BY <1>1, <1>4, <2>1, <2>2
<1>6. \A id \in Ids : \E i \in 1..n : id = GlbTimers[i].id
  BY <1>1 DEF Ids
<1>7. \A i \in 1..n : GlbTimers[i].id # GlbTimers[k].id => i # k
  OBVIOUS
<1>8. {T[j].id : j \in DOMAIN T} \subseteq Ids \ {GlbTimers[k].id}
  BY <1>1, <1>3
<1>9. ASSUME NEW id \in Ids \ {GlbTimers[k].id}
      PROVE  \E j \in DOMAIN T : T[j].id = id
  <2>1. PICK i \in 1..n : id = GlbTimers[i].id
    BY <1>6
  <2>2. PICK j \in 1..n-1 : T[j].id = GlbTimers[i].id
    BY <1>4, <1>7, <2>1
  <2> QED BY <1>1, <2>1, <2>2
<1> QED BY <1>8, <1>9

---------------------------------------------------------------------------
(* The invariant, one action at a time                                      *)

LEMMA InvFacts ==
    ASSUME TimersInv
    PROVE  /\ TypeOK /\ CreationOrder /\ NeverNegative
           /\ DOMAIN GlbTimers = 1..Len(GlbTimers) /\ Len(GlbTimers) \in Nat
           /\ \A i \in DOMAIN GlbTimers :
                 /\ GlbTimers[i] \in TimerType
                 /\ GlbTimers[i].id \in Nat /\ GlbTimers[i].periodic \in BOOLEAN
                 /\ GlbTimers[i].PeriodicMs \in Nat /\ GlbTimers[i].PeriodicMs <= MaxSince
                 /\ GlbTimers[i].MsLeft \in Int
                 /\ GlbTimers[i].id \in Ids /\ since[GlbTimers[i].id] \in Nat
<1>1. TypeOK /\ CreationOrder /\ NeverNegative
  BY DEF TimersInv, MissedBounded
<1>2. GlbTimers \in Seq(TimerType) /\ since \in [Ids -> Nat]
  BY <1>1 DEF TypeOK
<1>3. DOMAIN GlbTimers = 1..Len(GlbTimers) /\ Len(GlbTimers) \in Nat
  BY <1>2
<1>4. \A i \in DOMAIN GlbTimers : GlbTimers[i] \in TimerType
  BY <1>2
<1>5. \A i \in DOMAIN GlbTimers : GlbTimers[i].id \in Ids
  BY DEF Ids
<1>6. \A t \in TimerType : /\ t.id \in Nat /\ t.periodic \in BOOLEAN /\ t.MsLeft \in Int
                           /\ t.PeriodicMs \in Nat /\ t.PeriodicMs <= MaxSince
  BY TimerConstants DEF TimerType
<1> QED BY <1>1, <1>2, <1>3, <1>4, <1>5, <1>6

(* What the properties say of one timer: at most L milliseconds are lost    *)
(* with each older timer that is no longer in the list ids.                 *)
TimerOK(t, s, ids) ==
    /\ t.MsLeft >= 0 /\ (t.MsLeft > 0 \/ t.PeriodicMs = 0)
    /\ 0 <= s - (t.PeriodicMs - t.MsLeft)
    /\ s - (t.PeriodicMs - t.MsLeft) <=
          LongestTick * Cardinality({j \in 0..t.id-1 : j \notin ids})

LEMMA InvTimerOK ==
    ASSUME TimersInv
    PROVE  \A i \in DOMAIN GlbTimers : TimerOK(GlbTimers[i], since[GlbTimers[i].id], Ids)
<1> SUFFICES ASSUME NEW i \in DOMAIN GlbTimers
             PROVE  TimerOK(GlbTimers[i], since[GlbTimers[i].id], Ids)
  OBVIOUS
<1>1. /\ Missed(GlbTimers[i]) >= 0
      /\ Missed(GlbTimers[i]) <=
            LongestTick * Cardinality({j \in 0..GlbTimers[i].id-1 : j \notin Ids})
  BY DEF TimersInv, MissedBounded
<1>2. GlbTimers[i].MsLeft >= 0 /\ (GlbTimers[i].MsLeft > 0 \/ GlbTimers[i].PeriodicMs = 0)
  BY InvFacts DEF TypeOK, NeverNegative
<1>3. Missed(GlbTimers[i]) \in Int
  BY InvFacts DEF Missed
<1> QED BY <1>1, <1>2, <1>3 DEF TimerOK, Missed

(* The converse, for the state after a step. *)
LEMMA InvFromTimers ==
    ASSUME TypeOK', CreationOrder',
           \A i \in DOMAIN GlbTimers' :
              TimerOK(GlbTimers'[i], since'[GlbTimers'[i].id], Ids')
    PROVE  TimersInv'
<1>1. NeverNegative'
  BY DEF NeverNegative, TimerOK
<1>2. MissedBounded'
  <2> SUFFICES ASSUME NEW i \in DOMAIN GlbTimers'
               PROVE  /\ Missed(GlbTimers[i])' >= 0
                      /\ Missed(GlbTimers[i])' <=
                            LongestTick * Cardinality({j \in 0..GlbTimers'[i].id-1 : j \notin Ids'})
    BY DEF MissedBounded
  <2>1. GlbTimers'[i] \in TimerType /\ GlbTimers'[i].id \in Ids' /\ since' \in [Ids' -> Nat]
    BY DEF TypeOK, Ids
  <2>2. /\ GlbTimers'[i].PeriodicMs \in Nat /\ GlbTimers'[i].MsLeft \in Int
        /\ since'[GlbTimers'[i].id] \in Nat
    BY <2>1, TimerConstants DEF TimerType
  <2>3. Missed(GlbTimers[i])' =
           since'[GlbTimers'[i].id] - (GlbTimers'[i].PeriodicMs - GlbTimers'[i].MsLeft)
    BY DEF Missed
  <2> QED BY <2>2, <2>3 DEF TimerOK
<1> QED BY <1>1, <1>2 DEF TimersInv

LEMMA InvInit == TimersInitialize => TimersInv
<1> SUFFICES ASSUME TimersInitialize PROVE TimersInv
  OBVIOUS
<1>1. GlbTimers = <<>> /\ DOMAIN GlbTimers = {} /\ Ids = {}
  BY DEF TimersInitialize, Ids
<1>2. since \in [{} -> Nat]
  BY DEF TimersInitialize
<1>3. TypeOK
  BY <1>1, <1>2, TimerConstants DEF TypeOK, TimersInitialize
<1> QED BY <1>1, <1>3 DEF TimersInv, MissedBounded, CreationOrder, NeverNegative

(* A new timer goes behind all others and has missed nothing. *)
LEMMA InvCreate ==
    ASSUME TimersInv, NEW p \in BOOLEAN, NEW ms \in Timeouts, TimersCreateTimer(p, ms)
    PROVE  TimersInv'
<1> DEFINE n == Len(GlbTimers)
           new == [id |-> GlbTimerIds, periodic |-> p, PeriodicMs |-> ms, MsLeft |-> ms]
<1>1. /\ n \in Nat /\ DOMAIN GlbTimers = 1..n /\ GlbTimers \in Seq(TimerType)
      /\ GlbTimerIds \in Nat /\ GlbTimerIds < MaxTimers /\ ms \in Nat
  BY InvFacts, TimerConstants DEF TypeOK, TimersCreateTimer
<1>2. new \in TimerType
  BY <1>1 DEF TimerType
<1>3. /\ GlbTimers' \in Seq(TimerType) /\ Len(GlbTimers') = n+1 /\ DOMAIN GlbTimers' = 1..n+1
      /\ GlbTimers'[n+1] = new /\ \A i \in 1..n : GlbTimers'[i] = GlbTimers[i]
  <2> HIDE DEF new
  <2>1. GlbTimers' = Append(GlbTimers, new)
    BY DEF TimersCreateTimer, new
  <2> QED BY <1>1, <1>2, <2>1, AppendProperties
<1>4. Ids' = Ids \cup {GlbTimerIds} /\ GlbTimerIds \notin Ids
  <2>1. \A i \in 1..n : GlbTimers[i].id < GlbTimerIds /\ GlbTimers[i].id \in Nat
    BY <1>1, InvFacts DEF CreationOrder
  <2>2. GlbTimerIds \notin Ids
    BY <1>1, <2>1 DEF Ids
  <2>3. \A i \in 1..n+1 : GlbTimers'[i].id = IF i = n+1 THEN GlbTimerIds ELSE GlbTimers[i].id
    BY <1>1, <1>3
  <2>4. \A i \in 1..n : i \in 1..n+1 /\ i # n+1
    BY <1>1
  <2>5. n+1 \in 1..n+1 /\ \A i \in 1..n+1 : i = n+1 \/ i \in 1..n
    BY <1>1
  <2> QED BY <1>1, <1>3, <2>2, <2>3, <2>4, <2>5 DEF Ids
<1>5. since' = [t \in Ids \cup {GlbTimerIds} |-> IF t \in Ids THEN since[t] ELSE 0]
  BY DEF TimersCreateTimer
<1>6. since' \in [Ids' -> Nat]
  BY <1>4, <1>5, InvFacts DEF TypeOK
<1>7. ASSUME NEW i \in DOMAIN GlbTimers'
      PROVE  TimerOK(GlbTimers'[i], since'[GlbTimers'[i].id], Ids')
  <2>1. CASE i \in 1..n
    <3>1. TimerOK(GlbTimers[i], since[GlbTimers[i].id], Ids)
      BY <1>1, <2>1, InvTimerOK
    <3>2. GlbTimers[i].id \in Ids /\ GlbTimers[i].id \in Nat /\ GlbTimers[i].id < GlbTimerIds
      BY <1>1, <2>1, InvFacts DEF CreationOrder
    <3>3. since'[GlbTimers[i].id] = since[GlbTimers[i].id]
      BY <1>5, <3>2
    <3>4. {j \in 0..GlbTimers[i].id-1 : j \notin Ids'} = {j \in 0..GlbTimers[i].id-1 : j \notin Ids}
      BY <1>1, <1>4, <3>2
    <3> QED BY <1>3, <2>1, <3>1, <3>3, <3>4 DEF TimerOK
  <2>2. CASE i = n+1
    <3>1. /\ GlbTimers'[i].id = GlbTimerIds /\ GlbTimers'[i].MsLeft = ms
          /\ GlbTimers'[i].PeriodicMs = ms
      BY <1>3, <2>2
    <3>2. since'[GlbTimers'[i].id] = 0
      BY <1>4, <1>5, <3>1
    <3>3. LongestTick * Cardinality({j \in 0..GlbTimerIds-1 : j \notin Ids'}) \in Nat
      <4>1. Cardinality({j \in 0..GlbTimerIds-1 : j \notin Ids'}) \in Nat
        BY <1>1, GoneFinite
      <4> QED BY <4>1, LongestTickFacts, OneTickMore
    <3> QED BY <1>1, <3>1, <3>2, <3>3 DEF TimerOK
  <2> QED BY <1>1, <1>3, <2>1, <2>2
<1>8. CreationOrder'
  <2>1. GlbTimerIds' = GlbTimerIds + 1
    BY DEF TimersCreateTimer
  <2>2. \A i \in 1..n : GlbTimers[i].id \in Nat /\ GlbTimers[i].id < GlbTimerIds
    BY <1>1, InvFacts DEF CreationOrder
  <2>3. \A i, j \in 1..n : i < j => GlbTimers[i].id < GlbTimers[j].id
    BY <1>1, InvFacts DEF CreationOrder
  <2>4. GlbTimers'[n+1].id = GlbTimerIds
    BY <1>3
  <2>5. \A i \in 1..n+1 : i = n+1 \/ i \in 1..n
    BY <1>1
  <2>6. ASSUME NEW i \in 1..n+1, NEW j \in 1..n+1, i < j
        PROVE  GlbTimers'[i].id < GlbTimers'[j].id
    <3>1. i \in 1..n
      BY <1>1, <2>6
    <3> QED BY <1>3, <2>2, <2>3, <2>4, <2>5, <2>6, <3>1
  <2>7. ASSUME NEW i \in 1..n+1
        PROVE  GlbTimers'[i].id < GlbTimerIds'
    BY <1>1, <1>3, <2>1, <2>2, <2>4, <2>5
  <2> QED BY <1>3, <2>6, <2>7 DEF CreationOrder
<1>9. TypeOK'
  <2>1. \A i \in DOMAIN GlbTimers' : GlbTimers'[i].MsLeft > 0 \/ GlbTimers'[i].PeriodicMs = 0
    BY <1>7 DEF TimerOK
  <2>2. GlbTimerIds' \in 0..MaxTimers
    BY <1>1, TimerConstants DEF TimersCreateTimer
  <2>3. UNCHANGED <<GlbSystemTimers, GlbActiveSystemTimer, destroying, stopped>>
    BY DEF TimersCreateTimer
  <2> QED BY <1>3, <1>6, <2>1, <2>2, <2>3, InvFacts DEF TypeOK
<1> QED BY <1>7, <1>8, <1>9, InvFromTimers

(* A timer keeps what it has missed when others go. *)
LEMMA OthersGo ==
    ASSUME NEW t \in TimerType, NEW s \in Nat, NEW S, NEW T, T \subseteq S, TimerOK(t, s, S)
    PROVE  TimerOK(t, s, T)
<1> DEFINE a == Cardinality({j \in 0..t.id-1 : j \notin S})
           b == Cardinality({j \in 0..t.id-1 : j \notin T})
<1>1. t.id \in Nat /\ t.PeriodicMs \in Nat /\ t.MsLeft \in Int
  BY TimerConstants DEF TimerType
<1>2. a \in Nat /\ b \in Nat /\ a <= b
  BY <1>1, GoneFinite, GoneGrows
<1>3. LongestTick * a \in Nat /\ LongestTick * b \in Nat /\ LongestTick * a <= LongestTick * b
  <2> HIDE DEF a, b
  <2> QED BY <1>2, LongestTickFacts, OneTickMore
<1> QED BY <1>1, <1>3 DEF TimerOK

(* Removing a timer keeps the others in order. *)
LEMMA OrderKept ==
    ASSUME TimersInv, GlbTimerIds' = GlbTimerIds, NEW k \in 1..Len(GlbTimers),
           GlbTimers' \in Seq(TimerType), Len(GlbTimers') = Len(GlbTimers) - 1,
           \A j \in 1..Len(GlbTimers)-1 :
              GlbTimers'[j].id = IF j < k THEN GlbTimers[j].id ELSE GlbTimers[j+1].id
    PROVE  CreationOrder'
<1> DEFINE n == Len(GlbTimers)
           Was(j) == IF j < k THEN j ELSE j+1
<1>1. n \in Nat /\ DOMAIN GlbTimers = 1..n /\ DOMAIN GlbTimers' = 1..n-1 /\ k \in 1..n
  BY InvFacts
<1>2. \A j \in 1..n-1 : Was(j) \in 1..n /\ GlbTimers'[j].id = GlbTimers[Was(j)].id
  BY <1>1
<1>3. \A i, j \in 1..n-1 : i < j => Was(i) < Was(j)
  BY <1>1
<1>4. /\ \A i, j \in 1..n : i < j => GlbTimers[i].id < GlbTimers[j].id
      /\ \A i \in 1..n : GlbTimers[i].id < GlbTimerIds
  BY <1>1, InvFacts DEF CreationOrder
<1> HIDE DEF n, Was
<1> QED BY <1>1, <1>2, <1>3, <1>4 DEF CreationOrder

LEMMA InvDestroyBegins ==
    ASSUME TimersInv, NEW t \in Ids, DestroyBegins(t)
    PROVE  TimersInv'
<1>1. UNCHANGED <<GlbTimers, GlbTimerIds, GlbSystemTimers, GlbActiveSystemTimer, stopped, since>>
      /\ Ids' = Ids
  BY DEF DestroyBegins, Ids
<1>2. t \in 0..MaxTimers-1
  <2>1. PICK i \in DOMAIN GlbTimers : t = GlbTimers[i].id
    BY DEF Ids
  <2>2. GlbTimers[i].id \in Nat /\ GlbTimers[i].id < GlbTimerIds /\ GlbTimerIds \in 0..MaxTimers
    BY InvFacts DEF CreationOrder, TypeOK
  <2> QED BY <2>1, <2>2, TimerConstants
<1>3. TypeOK'
  BY <1>1, <1>2, InvFacts DEF TypeOK, DestroyBegins
<1>4. CreationOrder'
  BY <1>1, InvFacts DEF CreationOrder
<1> QED BY <1>1, <1>3, <1>4, InvTimerOK, InvFromTimers

LEMMA InvDestroyEnds ==
    ASSUME TimersInv, DestroyEnds
    PROVE  TimersInv'
<1> DEFINE n == Len(GlbTimers)
<1>1. /\ n \in Nat /\ DOMAIN GlbTimers = 1..n /\ GlbTimers \in Seq(TimerType)
      /\ since \in [Ids -> Nat]
  BY InvFacts DEF TypeOK
<1>2. since' = [t \in Ids \ {destroying} |-> since[t]]
  BY DEF DestroyEnds
<1>3. UNCHANGED <<GlbTimerIds, GlbSystemTimers, GlbActiveSystemTimer>>
      /\ destroying' = None /\ stopped' \in BOOLEAN
  BY DEF DestroyEnds
<1>4. CASE \E i \in DOMAIN GlbTimers :
             GlbTimers[i].id = destroying /\ GlbTimers' = RemoveAt(GlbTimers, i)
  <2>1. PICK k \in 1..n : GlbTimers[k].id = destroying /\ GlbTimers' = RemoveAt(GlbTimers, k)
    BY <1>1, <1>4
  <2>2. /\ GlbTimers' \in Seq(TimerType) /\ Len(GlbTimers') = n - 1
        /\ \A j \in 1..n-1 : GlbTimers'[j] = IF j < k THEN GlbTimers[j] ELSE GlbTimers[j+1]
    BY <1>1, <2>1, RemoveAtFacts
  <2>3. DOMAIN GlbTimers' = 1..n-1
    BY <1>1, <2>2
  <2>4. \A j \in 1..n-1 : GlbTimers'[j].id = IF j < k THEN GlbTimers[j].id ELSE GlbTimers[j+1].id
    BY <2>2
  <2>5. Ids' = Ids \ {destroying}
    BY <1>1, <2>1, <2>2, <2>4, RemovedIds, InvFacts DEF Ids
  <2>6. since' \in [Ids' -> Nat]
    BY <1>1, <1>2, <2>5
  <2>7. ASSUME NEW j \in DOMAIN GlbTimers'
        PROVE  TimerOK(GlbTimers'[j], since'[GlbTimers'[j].id], Ids')
    <3>1. PICK i \in 1..n : GlbTimers'[j] = GlbTimers[i]
      BY <1>1, <2>2, <2>3
    <3>2. GlbTimers[i].id \in Ids'
      BY <2>7, <3>1 DEF Ids
    <3>3. since'[GlbTimers[i].id] = since[GlbTimers[i].id]
      BY <1>2, <2>5, <3>2
    <3>4. TimerOK(GlbTimers[i], since[GlbTimers[i].id], Ids)
      BY <1>1, InvTimerOK
    <3>5. GlbTimers[i] \in TimerType /\ since[GlbTimers[i].id] \in Nat
      BY <1>1, InvFacts
    <3> QED BY <2>5, <3>1, <3>3, <3>4, <3>5, OthersGo
  <2>8. CreationOrder'
    BY <1>3, <2>2, <2>4, OrderKept
  <2>9. \A i \in DOMAIN GlbTimers' : GlbTimers'[i].MsLeft > 0 \/ GlbTimers'[i].PeriodicMs = 0
    BY <2>7 DEF TimerOK
  <2>10. TypeOK'
    BY <1>3, <2>2, <2>6, <2>9, InvFacts DEF TypeOK
  <2> QED BY <2>7, <2>8, <2>10, InvFromTimers
<1>5. CASE destroying \notin Ids /\ GlbTimers' = GlbTimers
  <2>1. Ids' = Ids
    BY <1>5 DEF Ids
  <2>2. since' = since
    BY <1>1, <1>2, <1>5
  <2>3. TypeOK'
    BY <1>3, <1>5, <2>1, <2>2, InvFacts DEF TypeOK
  <2>4. CreationOrder'
    BY <1>3, <1>5, InvFacts DEF CreationOrder
  <2> QED BY <1>5, <2>1, <2>2, <2>3, <2>4, InvTimerOK, InvFromTimers
<1> QED BY <1>4, <1>5 DEF DestroyEnds

LEMMA InvRegister ==
    ASSUME TimersInv, NEW source \in Sources, NEW tick \in TickRates,
           TimersRegister(source, tick)
    PROVE  TimersInv'
<1>1. UNCHANGED <<GlbTimers, GlbTimerIds, destroying, since>> /\ Ids' = Ids
  BY DEF TimersRegister, Ids
<1>2. GlbSystemTimers \in Seq(SystemTimerType)
      /\ GlbActiveSystemTimer \in SystemTimerType \cup {None} /\ stopped \in BOOLEAN
  BY InvFacts DEF TypeOK
<1>3. [Source |-> source, Tick |-> tick] \in SystemTimerType
  BY DEF SystemTimerType
<1>4. GlbSystemTimers' \in Seq(SystemTimerType)
      /\ GlbActiveSystemTimer' \in SystemTimerType \cup {None} /\ stopped' \in BOOLEAN
  <2> HIDE DEF SystemTimerType
  <2> DEFINE s == [Source |-> source, Tick |-> tick]
  <2>1. CASE stopped' = TRUE /\ UNCHANGED <<GlbSystemTimers, GlbActiveSystemTimer>>
    BY <1>2, <2>1
  <2>2. CASE /\ GlbSystemTimers' = Append(GlbSystemTimers, s) /\ UNCHANGED stopped
             /\ GlbActiveSystemTimer' \in {s, GlbActiveSystemTimer}
    <3>1. s \in SystemTimerType
      BY <1>3
    <3> HIDE DEF s
    <3> QED BY <1>2, <2>2, <3>1, AppendProperties
  <2> QED BY <2>1, <2>2 DEF TimersRegister
<1>5. TypeOK'
  BY <1>1, <1>4, InvFacts DEF TypeOK
<1>6. CreationOrder'
  BY <1>1, InvFacts DEF CreationOrder
<1> QED BY <1>1, <1>5, <1>6, InvTimerOK, InvFromTimers

(* A tick, timer by timer, with the time since the last start.               *)
LEMMA TickTimers ==
    ASSUME TimersInv, NEW source \in Nat, TimersInterrupt(source)
    PROVE  \E ms \in Nat, k \in 1..Len(GlbTimers)+1 :
              /\ ms = MilliTicks(GlbActiveSystemTimer.Tick) /\ ms > 0 /\ ms <= LongestTick
              /\ TickedUpTo(k, ms)
              /\ Ids' = Ids \ {GlbTimers[i].id : i \in (1..Len(GlbTimers)) \cap {k}}
              /\ DOMAIN since' = Ids'
              /\ \A i \in DOMAIN GlbTimers : GlbTimers[i].id \in Ids' =>
                    since'[GlbTimers[i].id] =
                       IF i < k /\ GlbTimers[i].periodic /\ Expires(GlbTimers[i], ms)
                       THEN 0 ELSE AtMost(since[GlbTimers[i].id] + ms, MaxSince)
<1> DEFINE n == Len(GlbTimers)
           ms == MilliTicks(GlbActiveSystemTimer.Tick)
<1>1. /\ n \in Nat /\ DOMAIN GlbTimers = 1..n /\ GlbTimers \in Seq(TimerType)
  BY InvFacts DEF TypeOK
<1>2. GlbActiveSystemTimer.Tick \in TickRates
  BY InvFacts DEF TypeOK, TimersInterrupt, SystemTimerType
<1>3. ms \in Nat /\ ms > 0 /\ ms <= LongestTick
  BY <1>2, MilliTicksPositive, LongestTickFacts
<1>4. TimersTick(ms)
      /\ since' = [t \in {GlbTimers'[i].id : i \in DOMAIN GlbTimers'} |->
                      IF \E i \in DOMAIN GlbTimers : GlbTimers[i].id = t /\ Restarted(i, ms)
                      THEN 0 ELSE AtMost(since[t] + ms, MaxSince)]
  BY DEF TimersInterrupt
<1> HIDE DEF ms
<1>5. PICK k \in 1..n+1 : TickedUpTo(k, ms)
  BY <1>1, <1>3, <1>4, TickFacts
<1>11. \/ DOMAIN GlbTimers' = 1..n-1
       \/ k = n+1 /\ DOMAIN GlbTimers' = 1..n
  <2>1. k <= n \/ k = n+1
    BY <1>1
  <2> QED BY <1>5, <2>1 DEF TickedUpTo
<1>6. \A j \in DOMAIN GlbTimers' :
         GlbTimers'[j].id = IF j < k THEN GlbTimers[j].id ELSE GlbTimers[j+1].id
  <2> SUFFICES ASSUME NEW j \in DOMAIN GlbTimers'
               PROVE  GlbTimers'[j].id = IF j < k THEN GlbTimers[j].id ELSE GlbTimers[j+1].id
    OBVIOUS
  <2>1. GlbTimers'[j] = IF j < k THEN Ticked(GlbTimers[j], ms) ELSE GlbTimers[j+1]
    BY <1>5 DEF TickedUpTo
  <2>2. j < k => j \in 1..n
    BY <1>1, <1>11
  <2>3. j < k => Ticked(GlbTimers[j], ms).id = GlbTimers[j].id
    BY <1>1, <1>3, <2>2, TickedType, InvFacts
  <2> QED BY <2>1, <2>3
<1>7. Ids' = Ids \ {GlbTimers[i].id : i \in (1..n) \cap {k}}
  <2>1. CASE k <= n
    <3>1. Len(GlbTimers') = n - 1 /\ DOMAIN GlbTimers' = 1..n-1
          /\ GlbTimers' \in Seq(TimerType)
      BY <1>5, <2>1 DEF TickedUpTo
    <3>4. k \in 1..n
      BY <1>1, <2>1
    <3>2. {GlbTimers'[j].id : j \in DOMAIN GlbTimers'} = Ids \ {GlbTimers[k].id}
      BY <1>1, <1>6, <3>1, <3>4, RemovedIds, InvFacts
    <3>3. (1..n) \cap {k} = {k}
      BY <3>4
    <3> QED BY <3>2, <3>3 DEF Ids
  <2>2. CASE k = n + 1
    <3>1. DOMAIN GlbTimers' = 1..n
      BY <1>5, <2>2 DEF TickedUpTo
    <3>4. \A j \in 1..n : j < k
      BY <1>1, <2>2
    <3>2. (1..n) \cap {k} = {}
      BY <1>1, <2>2
    <3>3. \A j \in 1..n : GlbTimers'[j].id = GlbTimers[j].id
      BY <1>6, <3>1, <3>4
    <3> QED BY <1>1, <3>1, <3>2, <3>3 DEF Ids
  <2> QED BY <1>1, <2>1, <2>2
<1>8. ASSUME NEW i \in DOMAIN GlbTimers
      PROVE  Restarted(i, ms) <=>
                i < k /\ GlbTimers[i].periodic /\ Expires(GlbTimers[i], ms)
  <2>1. LastTicked(ms) = IF k <= n THEN {k} ELSE {}
    BY <1>5 DEF TickedUpTo
  <2>2. CASE k <= n
    BY <2>1, <2>2 DEF Restarted
  <2>3. CASE ~(k <= n)
    BY <1>1, <1>5, <2>1, <2>3 DEF Restarted
  <2> QED BY <2>2, <2>3
<1>9. ASSUME NEW i \in DOMAIN GlbTimers, GlbTimers[i].id \in Ids'
      PROVE  since'[GlbTimers[i].id] =
                IF i < k /\ GlbTimers[i].periodic /\ Expires(GlbTimers[i], ms)
                THEN 0 ELSE AtMost(since[GlbTimers[i].id] + ms, MaxSince)
  <2>1. \A j \in DOMAIN GlbTimers : GlbTimers[j].id = GlbTimers[i].id => j = i
    <3>1. \A a, b \in DOMAIN GlbTimers : a < b => GlbTimers[a].id < GlbTimers[b].id
      BY InvFacts DEF CreationOrder
    <3>2. \A a \in DOMAIN GlbTimers : GlbTimers[a].id \in Nat
      BY InvFacts
    <3> QED BY <1>1, <3>1, <3>2
  <2>2. (\E j \in DOMAIN GlbTimers : GlbTimers[j].id = GlbTimers[i].id /\ Restarted(j, ms))
           <=> Restarted(i, ms)
    BY <2>1
  <2>3. since'[GlbTimers[i].id] = IF Restarted(i, ms)
                                  THEN 0 ELSE AtMost(since[GlbTimers[i].id] + ms, MaxSince)
    BY <1>4, <1>9, <2>2 DEF Ids
  <2> QED BY <1>8, <2>3
<1>10. DOMAIN since' = Ids'
  BY <1>4 DEF Ids
<1> QED BY <1>3, <1>5, <1>7, <1>9, <1>10 DEF ms

(* A timer that is counted down: it has missed no more than before, or it    *)
(* starts again and has missed nothing.                                      *)
LEMMA CountedTimer ==
    ASSUME NEW t \in TimerType, NEW s \in Nat, NEW S, NEW T, T \subseteq S, TimerOK(t, s, S),
           NEW ms \in Nat, t.periodic \/ ~Expires(t, ms)
    PROVE  TimerOK(Ticked(t, ms),
                   IF t.periodic /\ Expires(t, ms) THEN 0 ELSE AtMost(s + ms, MaxSince), T)
<1> DEFINE c == Ticked(t, ms)
           B == LongestTick * Cardinality({j \in 0..t.id-1 : j \notin T})
<1>1. /\ t.id \in Nat /\ t.PeriodicMs \in Nat /\ t.PeriodicMs <= MaxSince /\ MaxSince \in Nat
      /\ t.MsLeft \in Int
  BY TimerConstants DEF TimerType
<1>2. c.id = t.id /\ c.PeriodicMs = t.PeriodicMs
      /\ c.MsLeft = IF t.periodic /\ Expires(t, ms) THEN t.PeriodicMs ELSE t.MsLeft - ms
  BY TickedType
<1>3. TimerOK(t, s, T)
  BY OthersGo
<1>4. B \in Nat
  BY <1>1, GoneFinite, LongestTickFacts, OneTickMore
<1>5. /\ 0 <= s - (t.PeriodicMs - t.MsLeft) /\ s - (t.PeriodicMs - t.MsLeft) <= B
      /\ t.MsLeft >= 0
  BY <1>3 DEF TimerOK
<1> HIDE DEF B, c
<1>6. CASE t.periodic /\ Expires(t, ms)
  <2>1. /\ c.MsLeft >= 0 /\ (c.MsLeft > 0 \/ c.PeriodicMs = 0)
        /\ 0 <= 0 - (c.PeriodicMs - c.MsLeft) /\ 0 - (c.PeriodicMs - c.MsLeft) <= B
    BY <1>1, <1>2, <1>4, <1>6
  <2> QED BY <1>2, <1>6, <2>1 DEF TimerOK, B, c
<1>7. CASE ~Expires(t, ms)
  <2> DEFINE u == AtMost(s + ms, MaxSince)
  <2>1. u = IF s + ms <= MaxSince THEN s + ms ELSE MaxSince
    BY DEF AtMost
  <2>2. c.MsLeft = t.MsLeft - ms /\ c.MsLeft > 0
    BY <1>1, <1>2, <1>7 DEF Expires
  <2> HIDE DEF u
  <2>3. 0 <= u - (c.PeriodicMs - c.MsLeft) /\ u - (c.PeriodicMs - c.MsLeft) <= B
    BY <1>1, <1>2, <1>4, <1>5, <2>1, <2>2
  <2> QED BY <1>1, <1>2, <1>7, <2>2, <2>3 DEF TimerOK, B, c, u
<1> QED BY <1>6, <1>7

(* A timer behind one that has expired misses the tick, and the one that has *)
(* expired is older and gone.                                                *)
LEMMA MissedTimer ==
    ASSUME NEW t \in TimerType, NEW s \in Nat, NEW S, NEW T, T \subseteq S, TimerOK(t, s, S),
           NEW ms \in Nat, ms <= LongestTick,
           NEW older \in Nat, older < t.id, older \in S, older \notin T
    PROVE  TimerOK(t, AtMost(s + ms, MaxSince), T)
<1> DEFINE u == AtMost(s + ms, MaxSince)
           a == Cardinality({j \in 0..t.id-1 : j \notin S})
           b == Cardinality({j \in 0..t.id-1 : j \notin T})
<1>1. /\ t.id \in Nat /\ t.PeriodicMs \in Nat /\ t.PeriodicMs <= MaxSince /\ MaxSince \in Nat
      /\ t.MsLeft \in Int
  BY TimerConstants DEF TimerType
<1>2. a \in Nat /\ b \in Nat /\ a + 1 <= b
  <2>1. older \in (0..t.id-1) \cap (S \ T)
    BY <1>1
  <2> QED BY <1>1, <2>1, GoneFinite, GoneGrows
<1>3. /\ 0 <= s - (t.PeriodicMs - t.MsLeft) /\ s - (t.PeriodicMs - t.MsLeft) <= LongestTick * a
      /\ t.MsLeft >= 0 /\ (t.MsLeft > 0 \/ t.PeriodicMs = 0)
  BY DEF TimerOK
<1> HIDE DEF a, b
<1>4. /\ LongestTick \in Nat /\ LongestTick * a \in Nat /\ LongestTick * b \in Nat
      /\ LongestTick * a + LongestTick <= LongestTick * b
  BY <1>2, LongestTickFacts, OneTickMore
<1>5. u = IF s + ms <= MaxSince THEN s + ms ELSE MaxSince
  BY DEF AtMost
<1> HIDE DEF u
<1>6. 0 <= u - (t.PeriodicMs - t.MsLeft) /\ u - (t.PeriodicMs - t.MsLeft) <= LongestTick * b
  BY <1>1, <1>3, <1>4, <1>5
<1> QED BY <1>3, <1>6 DEF TimerOK, b, u

LEMMA InvTick ==
    ASSUME TimersInv, NEW source \in Nat, TimersInterrupt(source)
    PROVE  TimersInv'
<1> DEFINE n == Len(GlbTimers)
<1>1. /\ n \in Nat /\ DOMAIN GlbTimers = 1..n
  BY InvFacts
<1>2. PICK ms \in Nat, k \in 1..n+1 :
         /\ ms <= LongestTick /\ TickedUpTo(k, ms)
         /\ Ids' = Ids \ {GlbTimers[i].id : i \in (1..n) \cap {k}}
         /\ DOMAIN since' = Ids'
         /\ \A i \in DOMAIN GlbTimers : GlbTimers[i].id \in Ids' =>
               since'[GlbTimers[i].id] =
                  IF i < k /\ GlbTimers[i].periodic /\ Expires(GlbTimers[i], ms)
                  THEN 0 ELSE AtMost(since[GlbTimers[i].id] + ms, MaxSince)
  BY TickTimers
<1>3. UNCHANGED <<GlbTimerIds, GlbSystemTimers, GlbActiveSystemTimer, destroying, stopped>>
  BY DEF TimersInterrupt
<1>4. /\ GlbTimers' \in Seq(TimerType)
      /\ k <= n => Len(GlbTimers') = n-1 /\ DOMAIN GlbTimers' = 1..n-1
      /\ k = n+1 => Len(GlbTimers') = n /\ DOMAIN GlbTimers' = 1..n
  BY <1>2 DEF TickedUpTo
<1>13. \/ k \in 1..n /\ Len(GlbTimers') = n-1 /\ DOMAIN GlbTimers' = 1..n-1
       \/ k = n+1 /\ Len(GlbTimers') = n /\ DOMAIN GlbTimers' = 1..n
  <2>1. k \in 1..n \/ k = n+1
    BY <1>1
  <2>2. k \in 1..n => k <= n
    BY <1>1
  <2> QED BY <1>4, <2>1, <2>2
<1>5. ASSUME NEW j \in DOMAIN GlbTimers', j < k
      PROVE  /\ j \in 1..n /\ GlbTimers'[j] = Ticked(GlbTimers[j], ms)
             /\ GlbTimers'[j].id = GlbTimers[j].id
  <2>1. j \in 1..n
    <3>1. CASE DOMAIN GlbTimers' = 1..n-1
      <4>1. j \in 1..n-1
        BY <3>1
      <4> QED BY <1>1, <4>1
    <3>2. CASE DOMAIN GlbTimers' = 1..n
      BY <3>2
    <3> QED BY <1>13, <3>1, <3>2
  <2>2. GlbTimers'[j] = Ticked(GlbTimers[j], ms)
    BY <1>2, <1>5 DEF TickedUpTo
  <2>3. GlbTimers[j] \in TimerType
    BY <1>1, <2>1, InvFacts
  <2>4. Ticked(GlbTimers[j], ms).id = GlbTimers[j].id
    BY <2>3, TickedType
  <2> QED BY <2>1, <2>2, <2>4
<1>6. ASSUME NEW j \in DOMAIN GlbTimers', ~(j < k)
      PROVE  j+1 \in 1..n /\ k \in 1..n /\ k < j+1 /\ GlbTimers'[j] = GlbTimers[j+1]
  <2>1. GlbTimers'[j] = GlbTimers[j+1]
    BY <1>2, <1>6 DEF TickedUpTo
  <2>2. j \in 1..n-1 /\ k \in 1..n
    <3>1. CASE k \in 1..n /\ DOMAIN GlbTimers' = 1..n-1
      BY <3>1
    <3>2. CASE k = n+1 /\ DOMAIN GlbTimers' = 1..n
      <4>1. j \in 1..n
        BY <3>2
      <4> QED BY <1>1, <1>6, <3>2, <4>1
    <3> QED BY <1>13, <3>1, <3>2
  <2> QED BY <1>1, <1>6, <2>1, <2>2
<1>7. Ids' \subseteq Ids /\ \A j \in DOMAIN GlbTimers' : GlbTimers'[j].id \in Ids'
  BY <1>2 DEF Ids
<1>8. ASSUME NEW j \in DOMAIN GlbTimers'
      PROVE  TimerOK(GlbTimers'[j], since'[GlbTimers'[j].id], Ids')
  <2>1. CASE j < k
    <3>1. j \in DOMAIN GlbTimers /\ GlbTimers[j].id \in Ids'
      BY <1>1, <1>5, <1>7, <2>1
    <3>2. GlbTimers[j].periodic \/ ~Expires(GlbTimers[j], ms)
      <4>1. j \in 1..k-1
        BY <1>1, <2>1, <3>1
      <4> QED BY <1>2, <4>1 DEF TickedUpTo
    <3>3. /\ GlbTimers[j] \in TimerType /\ since[GlbTimers[j].id] \in Nat
          /\ TimerOK(GlbTimers[j], since[GlbTimers[j].id], Ids)
      BY <3>1, InvFacts, InvTimerOK
    <3>4. since'[GlbTimers'[j].id] =
             IF GlbTimers[j].periodic /\ Expires(GlbTimers[j], ms)
             THEN 0 ELSE AtMost(since[GlbTimers[j].id] + ms, MaxSince)
      BY <1>2, <1>5, <2>1, <3>1
    <3> QED BY <1>5, <1>7, <2>1, <3>2, <3>3, <3>4, CountedTimer
  <2>2. CASE ~(j < k)
    <3> DEFINE t == GlbTimers[j+1]
    <3>1. j+1 \in DOMAIN GlbTimers /\ k \in DOMAIN GlbTimers /\ k < j+1
          /\ GlbTimers'[j] = t /\ t.id \in Ids'
      BY <1>1, <1>6, <1>7, <2>2
    <3>2. t \in TimerType /\ since[t.id] \in Nat /\ TimerOK(t, since[t.id], Ids)
      BY <3>1, InvFacts, InvTimerOK
    <3>3. GlbTimers[k].id \in Nat /\ GlbTimers[k].id < t.id /\ GlbTimers[k].id \in Ids
      BY <3>1, InvFacts DEF CreationOrder
    <3>4. GlbTimers[k].id \notin Ids'
      BY <1>1, <1>2, <3>1
    <3>5. since'[t.id] = AtMost(since[t.id] + ms, MaxSince)
      BY <1>1, <1>2, <3>1
    <3> HIDE DEF t
    <3>6. TimerOK(t, AtMost(since[t.id] + ms, MaxSince), Ids')
      BY <1>2, <1>7, <3>2, <3>3, <3>4, MissedTimer
    <3> QED BY <3>1, <3>5, <3>6
  <2> QED BY <2>1, <2>2
<1>9. CreationOrder'
  <2>1. CASE k <= n
    <3>1. \A j \in 1..n-1 :
             GlbTimers'[j].id = IF j < k THEN GlbTimers[j].id ELSE GlbTimers[j+1].id
      BY <1>1, <1>4, <1>5, <1>6, <2>1
    <3>2. k \in 1..n
      BY <1>1, <2>1
    <3> QED BY <1>3, <1>4, <2>1, <3>1, <3>2, OrderKept
  <2>2. CASE k = n + 1
    <3>1. DOMAIN GlbTimers' = DOMAIN GlbTimers
          /\ \A j \in DOMAIN GlbTimers : GlbTimers'[j].id = GlbTimers[j].id
      <4>1. DOMAIN GlbTimers' = 1..n
        BY <1>4, <2>2
      <4>2. \A j \in 1..n : j < k
        BY <1>1, <2>2
      <4> QED BY <1>1, <1>5, <4>1, <4>2
    <3> QED BY <1>3, <3>1, InvFacts DEF CreationOrder
  <2> QED BY <1>1, <2>1, <2>2
<1>10. since' \in [Ids' -> Nat]
  <2>1. since' = [t \in {GlbTimers'[i].id : i \in DOMAIN GlbTimers'} |-> since'[t]]
    BY <1>2 DEF TimersInterrupt, Ids
  <2>2. ASSUME NEW t \in Ids'
        PROVE  since'[t] \in Nat
    <3>1. PICK i \in DOMAIN GlbTimers : GlbTimers[i].id = t
      BY <1>7 DEF Ids
    <3>2. since[t] \in Nat /\ MaxSince \in Nat
      BY <3>1, InvFacts, TimerConstants
    <3> QED BY <1>2, <3>1, <3>2 DEF AtMost
  <2> QED BY <2>1, <2>2 DEF Ids
<1>11. \A i \in DOMAIN GlbTimers' : GlbTimers'[i].MsLeft > 0 \/ GlbTimers'[i].PeriodicMs = 0
  BY <1>8 DEF TimerOK
<1>12. TypeOK'
  BY <1>3, <1>4, <1>10, <1>11, InvFacts DEF TypeOK
<1> QED BY <1>8, <1>9, <1>12, InvFromTimers

LEMMA InvNext == TimersInv /\ [Next]_vars => TimersInv'
<1> SUFFICES ASSUME TimersInv, [Next]_vars
             PROVE  TimersInv'
  OBVIOUS
<1>1. ASSUME NEW p \in BOOLEAN, NEW ms \in Timeouts, TimersCreateTimer(p, ms)
      PROVE  TimersInv'
  BY <1>1, InvCreate
<1>2. ASSUME NEW t \in Ids, DestroyBegins(t)
      PROVE  TimersInv'
  BY <1>2, InvDestroyBegins
<1>3. CASE DestroyEnds
  BY <1>3, InvDestroyEnds
<1>4. ASSUME NEW s \in Sources, NEW tick \in TickRates, TimersRegister(s, tick)
      PROVE  TimersInv'
  BY <1>4, InvRegister
<1>5. ASSUME NEW s \in Sources, TimersInterrupt(s)
      PROVE  TimersInv'
  BY <1>5, InvTick, TimerConstants
<1>6. CASE UNCHANGED vars
  <2>1. TypeOK' /\ CreationOrder' /\ Ids' = Ids
    BY <1>6, InvFacts DEF vars, TypeOK, CreationOrder, Ids
  <2>2. GlbTimers' = GlbTimers /\ since' = since
    BY <1>6 DEF vars
  <2> QED BY <2>1, <2>2, InvTimerOK, InvFromTimers
<1> QED BY <1>1, <1>2, <1>3, <1>4, <1>5, <1>6 DEF Next, Tick

---------------------------------------------------------------------------
(* Theorems                                                                 *)

(* For any tick rates, timeouts and numbers of timers, a timer loses at most *)
(* one tick with each older timer that has gone: timers.c:145-150 ends the   *)
(* loop early, but only when it takes a timer out of the list.               *)
THEOREM TicksMissed == Spec => []MissedBounded
<1>1. TimersInv => MissedBounded
  BY DEF TimersInv
<1> QED BY InvInit, InvNext, <1>1, PTL DEF Spec

(* No timer expires before its time, whatever ticks it has missed: TimersTick *)
(* takes no more from MsLeft than has passed.                                 *)
THEOREM ExpiresInTime == Spec => NotEarly
<1> DEFINE InTime ==
       \A i \in DOMAIN GlbTimers :
          LET t == GlbTimers[i]
              goes == t.id \notin Ids' \/ (since'[t.id] = 0 /\ t.periodic)
          IN  Tick /\ goes =>
                 since[t.id] + MilliTicks(GlbActiveSystemTimer.Tick) >= t.PeriodicMs
<1>1. TimersInv /\ [Next]_vars => [InTime]_vars
  <2> SUFFICES ASSUME TimersInv, Tick, NEW i \in DOMAIN GlbTimers,
                      \/ GlbTimers[i].id \notin Ids'
                      \/ since'[GlbTimers[i].id] = 0 /\ GlbTimers[i].periodic
               PROVE  since[GlbTimers[i].id] + MilliTicks(GlbActiveSystemTimer.Tick)
                         >= GlbTimers[i].PeriodicMs
    OBVIOUS
  <2> DEFINE n == Len(GlbTimers)
             t == GlbTimers[i]
  <2>1. PICK source \in Nat : TimersInterrupt(source)
    BY TimerConstants DEF Tick
  <2>2. PICK ms \in Nat, k \in 1..n+1 :
         /\ ms = MilliTicks(GlbActiveSystemTimer.Tick) /\ ms > 0
         /\ TickedUpTo(k, ms)
         /\ Ids' = Ids \ {GlbTimers[j].id : j \in (1..n) \cap {k}}
         /\ \A j \in DOMAIN GlbTimers : GlbTimers[j].id \in Ids' =>
               since'[GlbTimers[j].id] =
                  IF j < k /\ GlbTimers[j].periodic /\ Expires(GlbTimers[j], ms)
                  THEN 0 ELSE AtMost(since[GlbTimers[j].id] + ms, MaxSince)
    BY <2>1, TickTimers
  <2>3. /\ t.PeriodicMs \in Nat /\ t.PeriodicMs <= MaxSince /\ t.MsLeft \in Int
        /\ since[t.id] \in Nat /\ t.id \in Ids /\ MaxSince \in Nat
        /\ 0 <= since[t.id] - (t.PeriodicMs - t.MsLeft)
    BY InvFacts, InvTimerOK, TimerConstants DEF TimerOK
  <2>4. CASE Expires(t, ms)
    BY <2>2, <2>3, <2>4 DEF Expires
  <2>5. CASE ~Expires(t, ms)
    <3>1. t.id \in Ids'
      <4>1. n \in Nat /\ \A j \in (1..n) \cap {k} : Expires(GlbTimers[j], ms) /\ j \in DOMAIN GlbTimers
        <5>1. n \in Nat /\ DOMAIN GlbTimers = 1..n
          BY InvFacts
        <5>2. k \in 1..n => k <= n
          BY <5>1
        <5> QED BY <2>2, <5>1, <5>2 DEF TickedUpTo
      <4>2. \A j \in DOMAIN GlbTimers : GlbTimers[j].id = t.id => j = i
        <5>1. \A a, b \in DOMAIN GlbTimers : a < b => GlbTimers[a].id < GlbTimers[b].id
          BY InvFacts DEF CreationOrder
        <5>2. /\ \A a \in DOMAIN GlbTimers : GlbTimers[a].id \in Nat
              /\ DOMAIN GlbTimers = 1..n
          BY InvFacts
        <5> QED BY <4>1, <5>1, <5>2
      <4> QED BY <2>2, <2>3, <2>5, <4>1, <4>2
    <3>2. since'[t.id] = AtMost(since[t.id] + ms, MaxSince)
      BY <2>2, <2>5, <3>1
    <3>3. since'[t.id] = 0
      BY <3>1
    <3> QED BY <2>2, <2>3, <3>2, <3>3 DEF AtMost
  <2> QED BY <2>4, <2>5
<1>2. NotEarly <=> [][InTime]_vars
  BY DEF NotEarly
<1> HIDE DEF InTime
<1> QED BY InvInit, InvNext, <1>1, <1>2, PTL DEF Spec

(* The active system timer is the registered one closest to the target of    *)
(* TimersRegister, and the first of these, after any registrations.          *)
THEOREM ClosestActive == Spec => []ActiveIsClosest
<1> DEFINE d(k) == Abs(1000 - GlbSystemTimers[k].Tick)
<1>1. TimersInitialize => ActiveIsClosest
  BY DEF TimersInitialize, ActiveIsClosest
<1>2. TimersInv /\ ActiveIsClosest /\ [Next]_vars => ActiveIsClosest'
  <2> SUFFICES ASSUME TimersInv, ActiveIsClosest, [Next]_vars
               PROVE  ActiveIsClosest'
    OBVIOUS
  <2>1. CASE UNCHANGED <<GlbSystemTimers, GlbActiveSystemTimer>>
    BY <2>1 DEF ActiveIsClosest
  <2>2. ASSUME NEW source \in Sources, NEW tick \in TickRates, TimersRegister(source, tick),
               GlbSystemTimers' = Append(GlbSystemTimers, [Source |-> source, Tick |-> tick])
        PROVE  ActiveIsClosest'
    <3> DEFINE s == [Source |-> source, Tick |-> tick]
               n == Len(GlbSystemTimers)
               e(k) == Abs(1000 - GlbSystemTimers'[k].Tick)
    <3>1. GlbSystemTimers \in Seq(SystemTimerType) /\ s \in SystemTimerType
      BY InvFacts DEF TypeOK, SystemTimerType
    <3>2. n \in Nat /\ DOMAIN GlbSystemTimers = 1..n
      BY <3>1
    <3>3. /\ DOMAIN GlbSystemTimers' = 1..n+1 /\ GlbSystemTimers'[n+1] = s
          /\ \A i \in 1..n : GlbSystemTimers'[i] = GlbSystemTimers[i]
          /\ GlbSystemTimers' # <<>>
      <4> HIDE DEF s
      <4>1. GlbSystemTimers' = Append(GlbSystemTimers, s)
        BY <2>2 DEF s
      <4> QED BY <3>1, <4>1, AppendProperties
    <3>4. /\ \A i \in 1..n : e(i) = d(i) /\ d(i) \in Nat
          /\ e(n+1) = Abs(1000 - tick) /\ Abs(1000 - tick) \in Nat
      <4>1. \A i \in 1..n : GlbSystemTimers[i] \in SystemTimerType
        BY <3>1
      <4>2. \A r \in SystemTimerType : Abs(1000 - r.Tick) \in Nat
        <5>1. \A r \in SystemTimerType : r.Tick \in Nat
          BY TimerConstants DEF SystemTimerType
        <5>2. \A m \in Int : Abs(m) \in Nat
          BY DEF Abs
        <5> QED BY <5>1, <5>2
      <4>3. Abs(1000 - tick) \in Nat
        BY TimerConstants DEF Abs
      <4> QED BY <3>3, <4>1, <4>2, <4>3
    <3>5. SUFFICES \E i \in 1..n+1 : /\ GlbActiveSystemTimer' = GlbSystemTimers'[i]
                                     /\ \A j \in 1..n+1 : e(i) <= e(j) /\ (e(i) = e(j) => i <= j)
      BY <3>3 DEF ActiveIsClosest
    <3>6. GlbActiveSystemTimer' =
             IF GlbActiveSystemTimer = None \/ Closer(tick, GlbActiveSystemTimer.Tick)
             THEN s ELSE GlbActiveSystemTimer
      <4>1. GlbSystemTimers' # GlbSystemTimers
        BY <3>2, <3>3
      <4> QED BY <2>2, <4>1 DEF TimersRegister
    <3>7. CASE n = 0
      <4>1. GlbActiveSystemTimer = None
        BY <3>1, <3>7 DEF ActiveIsClosest
      <4>2. GlbActiveSystemTimer' = GlbSystemTimers'[1]
        BY <3>3, <3>6, <3>7, <4>1
      <4>3. \A j \in 1..n+1 : j = 1 /\ e(j) \in Nat
        BY <3>4, <3>7
      <4> HIDE DEF e
      <4> QED BY <3>7, <4>2, <4>3
    <3>8. CASE n > 0
      <4>1. PICK i \in 1..n : /\ GlbActiveSystemTimer = GlbSystemTimers[i]
                              /\ \A j \in 1..n : d(i) <= d(j) /\ (d(i) = d(j) => i <= j)
        BY <3>2, <3>8 DEF ActiveIsClosest
      <4>2. GlbActiveSystemTimer # None
        <5>1. GlbSystemTimers[i] \in SystemTimerType
          BY <3>1
        <5> QED BY <4>1, <5>1, TimerConstants DEF SystemTimerType
      <4>3. Closer(tick, GlbActiveSystemTimer.Tick) <=> e(n+1) < d(i)
        BY <3>4, <4>1 DEF Closer
      <4>4. \A j \in 1..n+1 : j = n+1 \/ j \in 1..n
        BY <3>2
      <4>5. CASE e(n+1) < d(i)
        <5>1. GlbActiveSystemTimer' = GlbSystemTimers'[n+1]
          BY <3>3, <3>6, <4>3, <4>5
        <5>2. n+1 \in 1..n+1
          BY <3>2
        <5>3. \A j \in 1..n+1 : e(n+1) <= e(j) /\ (e(n+1) = e(j) => n+1 <= j)
          <6> HIDE DEF e, d, n
          <6> QED BY <3>2, <3>4, <4>1, <4>4, <4>5
        <5> HIDE DEF e
        <5> QED BY <5>1, <5>2, <5>3
      <4>6. CASE ~(e(n+1) < d(i))
        <5>1. GlbActiveSystemTimer' = GlbSystemTimers'[i] /\ i \in 1..n+1
          BY <3>2, <3>3, <3>6, <4>1, <4>2, <4>3, <4>6
        <5>2. \A j \in 1..n+1 : e(i) <= e(j) /\ (e(i) = e(j) => i <= j)
          <6> HIDE DEF e, d, n
          <6> QED BY <3>2, <3>4, <4>1, <4>4, <4>6
        <5> HIDE DEF e
        <5> QED BY <5>1, <5>2
      <4> QED BY <4>5, <4>6
    <3> QED BY <3>2, <3>7, <3>8
  <2>3. \/ UNCHANGED <<GlbSystemTimers, GlbActiveSystemTimer>>
        \/ \E source \in Sources, tick \in TickRates :
              /\ TimersRegister(source, tick)
              /\ GlbSystemTimers' = Append(GlbSystemTimers, [Source |-> source, Tick |-> tick])
    BY DEF Next, vars, Tick, TimersCreateTimer, DestroyBegins, DestroyEnds, TimersRegister,
           TimersInterrupt
  <2> QED BY <2>1, <2>2, <2>3
<1> QED BY InvInit, InvNext, <1>1, <1>2, PTL DEF Spec

=============================================================================
