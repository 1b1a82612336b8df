----------------------------- MODULE ListProofs -----------------------------
(***************************************************************************)
(* Theorems about the list of libds on any number of CPUs, of which at     *)
(* most one removes: it stays linked, no operation uses a NULL pointer or  *)
(* freed memory, and to its users it is a sequence.  And about the         *)
(* spinlock its operations take: it excludes, and is a mutex.              *)
(***************************************************************************)
EXTENDS List, FiniteSetTheorems, SequenceTheorems, TLAPS

---------------------------------------------------------------------------
(* Numbers, and what the list operations do to a sequence                  *)

(* A set of numbers has a least one: of the intervals 0..n-1 one is minimal. *)
LEMMA LeastNumber ==
    ASSUME NEW T \in SUBSET Nat, T # {}
    PROVE  \E n \in T : \A m \in T : n <= m
<1> DEFINE R == StrictSubsetOrdering(Nat)
           F == FiniteSubsetsOf(Nat)
           Below(n) == 0..n-1
           G == {Below(n) : n \in T}
<1>1. G \subseteq F /\ G # {}
  <2>1. \A n \in T : IsFiniteSet(Below(n))
    BY FS_Interval
  <2>2. \A n \in T : Below(n) \in SUBSET Nat
    OBVIOUS
  <2> QED BY <2>1, <2>2 DEF FiniteSubsetsOf
<1>2. IsWellFoundedOn(R, F)
  BY FS_StrictSubsetOrderingWellFounded
<1>3. PICK U \in G : \A V \in G : ~(<<V, U>> \in R)
  <2> HIDE DEF R, F, G
  <2> QED BY <1>1, <1>2, WFMin
<1>4. PICK n \in T : U = Below(n)
  OBVIOUS
<1>5. ASSUME NEW m \in T, m < n PROVE FALSE
  <2>1. Below(m) \subseteq Below(n) /\ Below(m) # Below(n)
    <3>1. m \in Below(n) /\ m \notin Below(m)
      BY <1>5
    <3> QED BY <1>5, <3>1
  <2>2. <<Below(m), Below(n)>> \in R
    BY <2>1 DEF StrictSubsetOrdering
  <2> QED BY <1>3, <1>4, <2>2
<1> QED BY <1>5

LEMMA LeastIsMin ==
    ASSUME NEW T \in SUBSET Nat, T # {}
    PROVE  Min(T) \in T /\ \A m \in T : Min(T) <= m
  BY LeastNumber, Zenon DEF Min

(* What holds at no first position holds at none. *)
LEMMA NoFirst ==
    ASSUME NEW k \in Nat, NEW T \in SUBSET (1..k),
           \A i \in T : \E j \in T : j < i
    PROVE  T = {}
<1> SUFFICES ASSUME T # {} PROVE FALSE
  OBVIOUS
<1>1. PICK n \in T : \A m \in T : n <= m
  BY LeastNumber
<1> QED BY <1>1

(* A new element at position i moves the later ones one up. *)
LEMMA InsertAtFacts ==
    ASSUME NEW A, NEW s \in Seq(A), NEW i \in 1..Len(s)+1, NEW e \in A
    PROVE  /\ InsertAt(s, i, e) \in Seq(A)
           /\ Len(InsertAt(s, i, e)) = Len(s) + 1
           /\ \A j \in 1..Len(s)+1 : InsertAt(s, i, e)[j] =
                  IF j < i THEN s[j] ELSE IF j = i THEN e ELSE s[j-1]
<1> DEFINE a == SubSeq(s, 1, i-1)
           c == a \o <<e>>
           b == SubSeq(s, i, Len(s))
<1>0. Len(s) \in Nat
  BY LenProperties
<1>1. a \in Seq(A) /\ Len(a) = i-1 /\ \A j \in 1..i-1 : a[j] = s[j]
  BY ElementOfSeq, SubSeqProperties, <1>0
<1>2. b \in Seq(A) /\ Len(b) = Len(s)-i+1 /\ \A j \in 1..Len(s)-i+1 : b[j] = s[i+j-1]
  BY ElementOfSeq, SubSeqProperties, <1>0
<1>3. c \in Seq(A) /\ Len(c) = i /\ \A j \in 1..i : c[j] = IF j < i THEN s[j] ELSE e
  <2> HIDE DEF a
  <2>1. <<e>> \in Seq(A) /\ Len(<<e>>) = 1 /\ <<e>>[1] = e
    OBVIOUS
  <2> QED BY <1>0, <1>1, <2>1, ConcatProperties
<1>4. InsertAt(s, i, e) = c \o b
  BY DEF InsertAt
<1> HIDE DEF a, b, c
<1>5. /\ c \o b \in Seq(A) /\ Len(c \o b) = Len(c) + Len(b)
      /\ \A j \in 1..Len(c)+Len(b) : (c \o b)[j] = IF j <= Len(c) THEN c[j] ELSE b[j-Len(c)]
  BY <1>2, <1>3, ConcatProperties
<1>6. ASSUME NEW j \in 1..Len(s)+1
      PROVE  (c \o b)[j] = IF j < i THEN s[j] ELSE IF j = i THEN e ELSE s[j-1]
  <2>0. j \in 1..Len(c)+Len(b) /\ Len(c) = i
    BY <1>0, <1>2, <1>3
  <2>1. CASE j <= i
    BY <2>0, <2>1, <1>0, <1>3, <1>5
  <2>2. CASE j > i
    <3>1. (c \o b)[j] = b[j-Len(c)]
      BY <2>0, <2>2, <1>0, <1>5
    <3>2. b[j-Len(c)] = s[i+(j-Len(c))-1]
      BY <2>0, <2>2, <1>0, <1>2
    <3>3. i+(j-Len(c))-1 = j-1
      BY <2>0, <1>0
    <3> QED BY <2>2, <3>1, <3>2, <3>3, <1>0
  <2>3. j <= i \/ j > i
    BY <1>0
  <2> QED BY <2>1, <2>2, <2>3, Zenon
<1> QED
  BY <1>0, <1>2, <1>3, <1>4, <1>5, <1>6

(* The element at position i gone, the later ones move one down. *)
LEMMA RemoveAtFacts ==
    ASSUME NEW A, NEW s \in Seq(A), NEW i \in 1..Len(s)
    PROVE  /\ RemoveAt(s, i) \in Seq(A)
           /\ Len(RemoveAt(s, i)) = Len(s) - 1
           /\ \A j \in 1..Len(s)-1 : RemoveAt(s, i)[j] = IF j < i THEN s[j] ELSE s[j+1]
<1> DEFINE a == SubSeq(s, 1, i-1)
           b == SubSeq(s, i+1, Len(s))
<1>0. Len(s) \in Nat
  BY LenProperties
<1>1. a \in Seq(A) /\ Len(a) = i-1 /\ \A j \in 1..i-1 : a[j] = s[j]
  BY ElementOfSeq, SubSeqProperties, <1>0
<1>2. b \in Seq(A) /\ Len(b) = Len(s)-i /\ \A j \in 1..Len(s)-i : b[j] = s[i+j]
  BY ElementOfSeq, SubSeqProperties, <1>0
<1>3. RemoveAt(s, i) = a \o b
  BY DEF RemoveAt
<1> HIDE DEF a, b
<1>4. /\ a \o b \in Seq(A) /\ Len(a \o b) = Len(a) + Len(b)
      /\ \A j \in 1..Len(a)+Len(b) : (a \o b)[j] = IF j <= Len(a) THEN a[j] ELSE b[j-Len(a)]
  BY <1>1, <1>2, ConcatProperties
<1>5. Len(a) + Len(b) = Len(s) - 1
  BY <1>0, <1>1, <1>2
<1>6. ASSUME NEW j \in 1..Len(s)-1
      PROVE  (a \o b)[j] = IF j < i THEN s[j] ELSE s[j+1]
  <2>0. j \in 1..Len(a)+Len(b) /\ Len(a) = i-1
    BY <1>1, <1>5
  <2>1. CASE j < i
    <3>1. (a \o b)[j] = a[j]
      BY <2>0, <2>1, <1>0, <1>4
    <3> QED BY <2>1, <3>1, <1>0, <1>1
  <2>2. CASE j >= i
    <3>1. (a \o b)[j] = b[j-Len(a)]
      BY <2>0, <2>2, <1>0, <1>4
    <3>2. b[j-Len(a)] = s[i+(j-Len(a))]
      BY <2>0, <2>2, <1>0, <1>2
    <3>3. i+(j-Len(a)) = j+1
      BY <2>0, <1>0
    <3> QED BY <2>2, <3>1, <3>2, <3>3, <1>0
  <2>3. j < i \/ j >= i
    BY <1>0
  <2> QED BY <2>1, <2>2, <2>3, Zenon
<1> QED
  BY <1>3, <1>4, <1>5, <1>6
---------------------------------------------------------------------------
(* The nodes of a linked list                                              *)

ListType == [Headp: Nodes \cup {None}, Tailp: Nodes \cup {None}, Length: Nat,
             Link: [Nodes -> Nodes \cup {None}], Prev: [Nodes -> Nodes \cup {None}]]

(* A sequence of nodes no node is in twice is no longer than there are nodes. *)
LEMMA LengthBound ==
    ASSUME NEW s \in Seq(Nodes), IsInjective(s)
    PROVE  Len(s) \in 0..Cardinality(Nodes)
<1>0. Len(s) \in Nat /\ s \in [1..Len(s) -> Nodes] /\ DOMAIN s = 1..Len(s)
  BY LenProperties
<1>1. s \in Injection(1..Len(s), Nodes)
  BY <1>0 DEF Injection, IsInjective
<1>2. Cardinality(1..Len(s)) <= Cardinality(Nodes)
  BY <1>1, FS_Injection, NodesAndKeys
<1>3. Cardinality(1..Len(s)) = Len(s)
  BY <1>0, FS_Interval
<1>4. Cardinality(Nodes) \in Nat
  BY NodesAndKeys, FS_CardinalityType
<1> QED BY <1>0, <1>2, <1>3, <1>4

(* The walk along a list that is linked as s finds s: it leaves s at no first *)
(* position, and ends with it.                                                *)
LEMMA WalkAsLinked ==
    ASSUME NEW L \in ListType, NEW s \in Seq(Nodes), LinkedAs(L, s)
    PROVE  Walk(L) = s
<1> DEFINE N == Cardinality(Nodes)
           Follows(t) == /\ \A i \in DOMAIN t : t[i] = Pointer(L, t, i)
                         /\ Len(t) = N \/ Pointer(L, t, Len(t) + 1) = None
<1>0. /\ Len(s) \in 0..N /\ N \in Nat /\ DOMAIN s = 1..Len(s)
      /\ \A i \in 1..Len(s) : s[i] \in Nodes /\ s[i] # None
  BY LengthBound, NodesAndKeys, LenProperties, ElementOfSeq, FS_CardinalityType DEF LinkedAs
<1>n. Len(s) \in Nat
  BY LenProperties
<1>m. Len(s) = 0 \/ Len(s) > 0
  BY <1>n
<1>1. s \in BoundedSeq(Nodes, N)
  <2>1. s \in [1..Len(s) -> Nodes]
    BY <1>0, LenProperties
  <2> QED BY <1>0, <2>1 DEF BoundedSeq, SeqOf
<1>2. /\ Len(s) = 0 => L.Headp = None
      /\ Len(s) > 0 => L.Headp = s[1]
      /\ \A i \in 1..Len(s) : i = Len(s) => L.Link[s[i]] = None
      /\ \A i \in 1..Len(s) : i < Len(s) => L.Link[s[i]] = s[i+1]
  <2>1. s = <<>> <=> Len(s) = 0
    BY EmptySeq
  <2>2. Len(s) > 0 => Len(s) # 0
    BY <1>0
  <2>3. \A i \in 1..Len(s) : i < Len(s) => i # Len(s)
    BY <1>n
  <2> QED BY <1>0, <2>1, <2>2, <2>3, Zenon DEF LinkedAs
<1>3. Follows(s)
  <2>1. ASSUME NEW i \in 1..Len(s) PROVE s[i] = Pointer(L, s, i)
    <3>1. CASE i = 1
      <4>1. Len(s) > 0
        BY <1>0
      <4> QED BY <1>2, <3>1, <4>1, Zenon DEF Pointer
    <3>2. CASE i > 1
      <4>1. i-1 \in 1..Len(s) /\ i-1 < Len(s) /\ (i-1)+1 = i /\ i # 1
        BY <1>0, <3>2
      <4>2. L.Link[s[i-1]] = s[i]
        BY <1>2, <4>1
      <4> QED BY <4>1, <4>2, Zenon DEF Pointer
    <3>3. i = 1 \/ i > 1
      BY <1>0
    <3> QED BY <3>1, <3>2, <3>3, Zenon
  <2>2. Pointer(L, s, Len(s) + 1) = None
    <3>1. CASE Len(s) = 0
      <4>1. Len(s) + 1 = 1
        BY <3>1
      <4> QED BY <1>2, <3>1, <4>1, Zenon DEF Pointer
    <3>2. CASE Len(s) # 0
      <4>1. Len(s) \in 1..Len(s) /\ (Len(s)+1)-1 = Len(s) /\ Len(s)+1 # 1
        BY <1>0, <3>2
      <4>2. L.Link[s[Len(s)]] = None
        BY <1>2, <4>1
      <4> QED BY <4>1, <4>2, Zenon DEF Pointer
    <3> QED BY <3>1, <3>2
  <2> QED BY <1>0, <2>1, <2>2
<1>4. ASSUME NEW t \in BoundedSeq(Nodes, N), Follows(t) PROVE t = s
  <2>0. PICK k \in 0..N : t \in [1..k -> Nodes]
    BY <1>4 DEF BoundedSeq, SeqOf
  <2>1. Len(t) = k /\ DOMAIN t = 1..k /\ t \in Seq(Nodes)
    BY <1>0, <2>0, LenProperties
  <2>2. \A i \in 1..k : t[i] = Pointer(L, t, i) /\ t[i] # None
    BY <1>4, <2>0, <2>1, NodesAndKeys
  <2> DEFINE Off == {i \in 1..k : ~(i <= Len(s) /\ t[i] = s[i])}
  <2>3. ASSUME NEW i \in Off PROVE \E j \in Off : j < i
    <3>0. i \in 1..k /\ t[i] = Pointer(L, t, i) /\ t[i] # None
      BY <2>2
    <3>1. CASE i = 1
      <4>1. t[i] = L.Headp
        BY <3>0, <3>1 DEF Pointer
      <4>2. Len(s) > 0
        BY <1>m, <1>2, <3>0, <4>1, Zenon
      <4>3. t[i] = s[i]
        BY <1>2, <3>1, <4>1, <4>2, Zenon
      <4> QED BY <1>0, <3>1, <4>2, <4>3
    <3>2. CASE i > 1
      <4>1. i-1 \in 1..k /\ i-1 < i /\ (i-1)+1 = i
        BY <3>0, <3>2
      <4>2. t[i] = L.Link[t[i-1]]
        BY <3>0, <3>2 DEF Pointer
      <4>3. CASE i-1 \in Off
        BY <4>1, <4>3
      <4>4. CASE i-1 \notin Off
        <5>1. i-1 \in 1..Len(s) /\ t[i-1] = s[i-1]
          BY <4>1, <4>4
        <5>2. i-1 # Len(s)
          BY <1>2, <3>0, <4>2, <5>1, Zenon
        <5>n. i-1 < Len(s)
          BY <1>n, <5>1, <5>2
        <5>3. t[i] = s[i]
          BY <1>2, <4>1, <4>2, <5>1, <5>n
        <5> QED BY <1>n, <3>0, <5>n, <5>3
      <4> QED BY <4>3, <4>4
    <3>3. i = 1 \/ i > 1
      BY <1>0, <3>0
    <3> HIDE DEF Off
    <3> QED BY <3>1, <3>2, <3>3, Zenon
  <2>4. Off = {}
    <3>1. k \in Nat /\ Off \in SUBSET (1..k)
      BY <1>0
    <3> HIDE DEF Off
    <3> QED BY <2>3, <3>1, NoFirst
  <2>5. k <= Len(s) /\ \A i \in 1..k : t[i] = s[i]
    <3>1. \A i \in 1..k : i <= Len(s) /\ t[i] = s[i]
      BY <2>4
    <3> HIDE DEF Off
    <3> QED BY <1>0, <3>1
  <2> HIDE DEF Off
  <2>6. k = Len(s)
    <3>1. CASE k = N
      BY <1>0, <2>5, <3>1
    <3>2. CASE Pointer(L, t, k + 1) = None
      <4>1. CASE k = 0
        <5>1. L.Headp = None
          BY <3>2, <4>1 DEF Pointer
        <5>2. Len(s) > 0 => s[1] # None
          BY <1>0, <1>n
        <5>3. ~(Len(s) > 0)
          BY <1>2, <5>1, <5>2, Zenon
        <5> QED BY <1>n, <4>1, <5>3
      <4>2. CASE k # 0
        <5>1. k \in 1..Len(s) /\ k \in 1..k /\ (k+1)-1 = k /\ k+1 # 1
          BY <1>0, <2>5, <4>2
        <5>2. L.Link[s[k]] = None
          BY <2>5, <3>2, <5>1 DEF Pointer
        <5>3. k < Len(s) => s[k+1] # None
          BY <1>0, <5>1
        <5>4. ~(k < Len(s))
          BY <1>2, <5>1, <5>2, <5>3
        <5> QED BY <1>n, <5>1, <5>4
      <4> QED BY <4>1, <4>2
    <3> QED BY <1>4, <2>1, <3>1, <3>2, Zenon
  <2> QED BY <1>0, <2>0, <2>5, <2>6, SeqEqual, <2>1
<1> HIDE DEF Follows
<1> QED
  <2>1. Walk(L) = CHOOSE t \in BoundedSeq(Nodes, N) : Follows(t)
    BY DEF Walk, Follows
  <2> HIDE DEF N
  <2> QED BY <1>1, <1>3, <1>4, <2>1

(* LinkedAs without its cases: the ends, and each pair of neighbours. *)
Ties(L, s) ==
    /\ \A i, j \in 1..Len(s) : s[i] = s[j] => i = j
    /\ L.Length = Len(s)
    /\ Len(s) = 0 => L.Headp = None /\ L.Tailp = None
    /\ Len(s) > 0 => /\ L.Headp = s[1] /\ L.Tailp = s[Len(s)]
                     /\ L.Prev[s[1]] = None /\ L.Link[s[Len(s)]] = None
    /\ \A i \in 1..Len(s)-1 : L.Link[s[i]] = s[i+1] /\ L.Prev[s[i+1]] = s[i]

LEMMA LinksAreTies ==
    ASSUME NEW L, NEW s \in Seq(Nodes)
    PROVE  LinkedAs(L, s) <=> Ties(L, s)
<1>0. Len(s) \in Nat /\ DOMAIN s = 1..Len(s) /\ (s = <<>> <=> Len(s) = 0)
  BY LenProperties, EmptySeq
<1>n. Len(s) \in Nat
  BY <1>0
<1>1. IsInjective(s) <=> \A i, j \in 1..Len(s) : s[i] = s[j] => i = j
  BY <1>0, Zenon DEF IsInjective
<1>2. Len(s) > 0 <=> Len(s) # 0
  BY <1>n
<1>3. /\ (L.Headp = IF s = <<>> THEN None ELSE s[1])
         <=> /\ Len(s) = 0 => L.Headp = None
             /\ Len(s) > 0 => L.Headp = s[1]
      /\ (L.Tailp = IF s = <<>> THEN None ELSE s[Len(s)])
         <=> /\ Len(s) = 0 => L.Tailp = None
             /\ Len(s) > 0 => L.Tailp = s[Len(s)]
  BY <1>0, <1>2, Zenon
<1> DEFINE Back == \A i \in 1..Len(s) : L.Prev[s[i]] = IF i = 1 THEN None ELSE s[i-1]
           Forth == \A i \in 1..Len(s) : L.Link[s[i]] = IF i = Len(s) THEN None ELSE s[i+1]
           BackTied == /\ Len(s) > 0 => L.Prev[s[1]] = None
                       /\ \A i \in 1..Len(s)-1 : L.Prev[s[i+1]] = s[i]
           ForthTied == /\ Len(s) > 0 => L.Link[s[Len(s)]] = None
                        /\ \A i \in 1..Len(s)-1 : L.Link[s[i]] = s[i+1]
<1>4. Back => BackTied
  <2> SUFFICES ASSUME Back PROVE BackTied
    OBVIOUS
  <2>1. Len(s) > 0 => 1 \in 1..Len(s)
    BY <1>n
  <2>2. ASSUME NEW i \in 1..Len(s)-1 PROVE L.Prev[s[i+1]] = s[i]
    <3>1. i+1 \in 1..Len(s) /\ i+1 # 1 /\ (i+1)-1 = i
      BY <1>n
    <3>2. L.Prev[s[i+1]] = s[(i+1)-1]
      BY <3>1, Zenon
    <3> QED BY <3>1, <3>2
  <2> QED BY <2>1, <2>2, Zenon
<1>5. BackTied => Back
  <2> SUFFICES ASSUME BackTied, NEW i \in 1..Len(s)
               PROVE  L.Prev[s[i]] = IF i = 1 THEN None ELSE s[i-1]
    OBVIOUS
  <2>1. CASE i = 1
    <3>1. Len(s) > 0
      BY <1>n
    <3> QED BY <2>1, <3>1, Zenon
  <2>2. CASE i # 1
    <3>1. i-1 \in 1..Len(s)-1 /\ (i-1)+1 = i
      BY <1>n, <2>2
    <3>2. L.Prev[s[(i-1)+1]] = s[i-1]
      BY <3>1, Zenon
    <3>3. L.Prev[s[i]] = s[i-1]
      BY <3>1, <3>2
    <3> QED BY <2>2, <3>3, Zenon
  <2> QED BY <2>1, <2>2, Zenon
<1>6. Forth => ForthTied
  <2> SUFFICES ASSUME Forth PROVE ForthTied
    OBVIOUS
  <2>1. Len(s) > 0 => Len(s) \in 1..Len(s)
    BY <1>n
  <2>2. ASSUME NEW i \in 1..Len(s)-1 PROVE L.Link[s[i]] = s[i+1]
    <3>1. i \in 1..Len(s) /\ i # Len(s)
      BY <1>n
    <3> QED BY <3>1, Zenon
  <2> QED BY <2>1, <2>2, Zenon
<1>7. ForthTied => Forth
  <2> SUFFICES ASSUME ForthTied, NEW i \in 1..Len(s)
               PROVE  L.Link[s[i]] = IF i = Len(s) THEN None ELSE s[i+1]
    OBVIOUS
  <2>1. CASE i = Len(s)
    <3>1. Len(s) > 0
      BY <1>n, <2>1
    <3> QED BY <2>1, <3>1, Zenon
  <2>2. CASE i # Len(s)
    <3>1. i \in 1..Len(s)-1
      BY <1>n, <2>2
    <3>2. L.Link[s[i]] = s[i+1]
      BY <3>1, Zenon
    <3> QED BY <2>2, <3>2, Zenon
  <2> QED BY <2>1, <2>2, Zenon
<1>8. LinkedAs(L, s) <=> /\ IsInjective(s) /\ Len(s) = L.Length
                         /\ L.Headp = IF s = <<>> THEN None ELSE s[1]
                         /\ L.Tailp = IF s = <<>> THEN None ELSE s[Len(s)]
                         /\ Back /\ Forth
  BY <1>0, Zenon DEF LinkedAs
<1>9. Ties(L, s) <=> /\ \A i, j \in 1..Len(s) : s[i] = s[j] => i = j
                     /\ Len(s) = L.Length
                     /\ Len(s) = 0 => L.Headp = None
                     /\ Len(s) = 0 => L.Tailp = None
                     /\ Len(s) > 0 => L.Headp = s[1]
                     /\ Len(s) > 0 => L.Tailp = s[Len(s)]
                     /\ BackTied /\ ForthTied
  BY Zenon DEF Ties
<1> HIDE DEF Back, Forth, BackTied, ForthTied
<1> QED BY <1>1, <1>3, <1>4, <1>5, <1>6, <1>7, <1>8, <1>9, Zenon

(* The pointers of R are those of L but around a new node n at position i. *)
Spliced(L, R, s, i, n) ==
    /\ R.Length = L.Length + 1
    /\ i = 1 => R.Headp = n /\ R.Prev[n] = None
    /\ i # 1 => R.Headp = L.Headp /\ R.Prev[n] = s[i-1] /\ R.Link[s[i-1]] = n
    /\ i = Len(s)+1 => R.Tailp = n /\ R.Link[n] = None
    /\ i # Len(s)+1 => R.Tailp = L.Tailp /\ R.Link[n] = s[i] /\ R.Prev[s[i]] = n
    /\ \A j \in 1..Len(s) : /\ j # i-1 => R.Link[s[j]] = L.Link[s[j]]
                            /\ j # i => R.Prev[s[j]] = L.Prev[s[j]]

(* Then R is linked as s with n at position i. *)
LEMMA InsertLinks ==
    ASSUME NEW L, NEW R, NEW s \in Seq(Nodes), Ties(L, s), NEW n \in Nodes, n \notin Range(s),
           NEW i \in 1..Len(s)+1, Spliced(L, R, s, i, n)
    PROVE  Ties(R, InsertAt(s, i, n))
<1> USE DEF Spliced
<1> DEFINE t == InsertAt(s, i, n)
<1>n. Len(s) \in Nat
  BY LenProperties
<1>1. /\ t \in Seq(Nodes) /\ Len(t) = Len(s) + 1
      /\ \A j \in 1..Len(s)+1 : t[j] = IF j < i THEN s[j] ELSE IF j = i THEN n ELSE s[j-1]
  BY InsertAtFacts
<1> HIDE DEF t
<1>2. /\ \A j \in 1..Len(s) : j < i => t[j] = s[j]
      /\ t[i] = n
      /\ \A j \in 1..Len(s) : j >= i => t[j+1] = s[j]
  BY <1>n, <1>1
<1>3. \A j \in 1..Len(s) : s[j] # n
  BY LenProperties DEF Range
<1>4. \A j, k \in 1..Len(t) : t[j] = t[k] => j = k
  <2>1. ASSUME NEW j \in 1..Len(t), j # i
        PROVE  \E h \in 1..Len(s) : /\ t[j] = s[h] 
                                    /\ h = IF j < i THEN j ELSE j-1
    <3>1. CASE j < i
      BY <1>n, <1>1, <1>2, <2>1, <3>1
    <3>2. CASE j > i
      BY <1>n, <1>1, <2>1, <3>2
    <3> QED BY <1>n, <1>1, <2>1, <3>1, <3>2
  <2>2. ASSUME NEW j \in 1..Len(t), NEW k \in 1..Len(t), t[j] = t[k] PROVE j = k
    <3>1. CASE j = i \/ k = i
      BY <1>2, <1>3, <2>1, <2>2, <3>1
    <3>2. CASE j # i /\ k # i
      <4>1. PICK h \in 1..Len(s) : t[j] = s[h] /\ h = IF j < i THEN j ELSE j-1
        BY <2>1, <3>2
      <4>2. PICK g \in 1..Len(s) : t[k] = s[g] /\ g = IF k < i THEN k ELSE k-1
        BY <2>1, <3>2
      <4>3. s[h] = s[g]
        BY <2>2, <4>1, <4>2, Zenon
      <4>4. h = g
        BY <4>3, Zenon DEF Ties
      <4> QED BY <1>n, <1>1, <3>2, <4>1, <4>2, <4>4
    <3> QED BY <3>1, <3>2
  <2> QED BY <2>2
<1>5. R.Length = Len(t)
  BY <1>1 DEF Ties
<1>6. /\ R.Headp = t[1] /\ R.Prev[t[1]] = None
  <2>1. CASE i = 1
    BY <1>2, <2>1
  <2>2. CASE i # 1
    <3>1. 1 \in 1..Len(s) /\ Len(s) > 0 /\ 1 < i
      BY <1>n, <2>2
    <3> QED BY <1>2, <2>2, <3>1 DEF Ties
  <2> QED BY <2>1, <2>2
<1>7. /\ R.Tailp = t[Len(t)] /\ R.Link[t[Len(t)]] = None
  <2>1. CASE i = Len(s)+1
    BY <1>1, <1>2, <2>1
  <2>2. CASE i # Len(s)+1
    <3>1. Len(s) \in 1..Len(s) /\ Len(s) > 0 /\ Len(s) >= i /\ Len(s) # i-1
      BY <1>n, <2>2
    <3>2. t[Len(t)] = s[Len(s)]
      BY <1>1, <1>2, <3>1
    <3> QED BY <2>2, <3>1, <3>2 DEF Ties
  <2> QED BY <2>1, <2>2
<1>8. ASSUME NEW j \in 1..Len(t)-1
      PROVE  R.Link[t[j]] = t[j+1] /\ R.Prev[t[j+1]] = t[j]
  <2>0. j \in 1..Len(s)
    BY <1>n, <1>1
  <2>1. CASE j < i-1
    <3>1. j \in 1..Len(s)-1 /\ j+1 \in 1..Len(s) /\ j < i /\ j+1 < i /\ j # i-1 /\ j+1 # i
      BY <1>n, <2>0, <2>1
    <3>2. t[j] = s[j] /\ t[j+1] = s[j+1]
      BY <1>2, <2>0, <3>1
    <3>3. L.Link[s[j]] = s[j+1] /\ L.Prev[s[j+1]] = s[j]
      BY <3>1 DEF Ties
    <3>4. R.Link[s[j]] = L.Link[s[j]] /\ R.Prev[s[j+1]] = L.Prev[s[j+1]]
      BY <2>0, <3>1
    <3> QED BY <3>2, <3>3, <3>4
  <2>2. CASE j = i-1
    <3>1. i # 1 /\ j < i /\ j+1 = i
      BY <1>n, <2>0, <2>2
    <3>2. t[j] = s[i-1] /\ t[j+1] = n
      BY <1>2, <2>0, <2>2, <3>1
    <3> QED BY <3>1, <3>2
  <2>3. CASE j = i
    <3>1. i # Len(s)+1 /\ j >= i
      BY <1>n, <2>0, <2>3
    <3>2. t[j] = n /\ t[j+1] = s[i]
      BY <1>2, <2>0, <2>3, <3>1
    <3> QED BY <3>1, <3>2
  <2>4. CASE j > i
    <3>1. j-1 \in 1..Len(s)-1 /\ j-1 \in 1..Len(s) /\ j-1 >= i /\ j >= i
          /\ j-1 # i-1 /\ j # i /\ (j-1)+1 = j
      BY <1>n, <2>0, <2>4
    <3>2. t[j] = s[j-1] /\ t[j+1] = s[j]
      <4>1. t[(j-1)+1] = s[j-1]
        BY <1>2, <3>1
      <4> QED BY <1>2, <2>0, <3>1, <4>1
    <3>3. L.Link[s[j-1]] = s[j] /\ L.Prev[s[j]] = s[j-1]
      <4>1. L.Link[s[j-1]] = s[(j-1)+1] /\ L.Prev[s[(j-1)+1]] = s[j-1]
        BY <3>1 DEF Ties
      <4> QED BY <3>1, <4>1
    <3>4. R.Link[s[j-1]] = L.Link[s[j-1]] /\ R.Prev[s[j]] = L.Prev[s[j]]
      BY <2>0, <3>1
    <3> QED BY <3>2, <3>3, <3>4
  <2>5. j < i-1 \/ j = i-1 \/ j = i \/ j > i
    BY <1>n, <2>0
  <2> QED BY <2>1, <2>2, <2>3, <2>4, <2>5, Zenon
<1>9. Len(t) # 0
  BY <1>n, <1>1
<1> QED BY <1>4, <1>5, <1>6, <1>7, <1>8, <1>9, Zenon DEF Ties, t

(* The pointers of R are those of L but around the node at position i, which  *)
(* is gone.                                                                   *)
Cut(L, R, s, i) ==
    /\ R.Length = L.Length - 1
    /\ Len(s) = 1 => R.Headp = None /\ R.Tailp = None
    /\ i = 1 /\ Len(s) > 1 => R.Headp = s[2] /\ R.Prev[s[2]] = None
    /\ i # 1 => R.Headp = L.Headp
    /\ i = Len(s) /\ Len(s) > 1 => R.Tailp = s[i-1] /\ R.Link[s[i-1]] = None
    /\ i # Len(s) => R.Tailp = L.Tailp
    /\ i # 1 /\ i # Len(s) => R.Link[s[i-1]] = s[i+1] /\ R.Prev[s[i+1]] = s[i-1]
    /\ \A j \in 1..Len(s) : /\ j # i /\ j # i-1 => R.Link[s[j]] = L.Link[s[j]]
                            /\ j # i /\ j # i+1 => R.Prev[s[j]] = L.Prev[s[j]]

LEMMA RemoveLinks ==
    ASSUME NEW L, NEW R, NEW s \in Seq(Nodes), Ties(L, s), NEW i \in 1..Len(s), Cut(L, R, s, i)
    PROVE  Ties(R, RemoveAt(s, i))
<1> USE DEF Cut
<1> DEFINE t == RemoveAt(s, i)
<1>n. Len(s) \in Nat
  BY LenProperties
<1>1. /\ t \in Seq(Nodes) /\ Len(t) = Len(s) - 1
      /\ \A j \in 1..Len(s)-1 : t[j] = IF j < i THEN s[j] ELSE s[j+1]
  BY RemoveAtFacts
<1> HIDE DEF t
<1>2. /\ \A j \in 1..Len(t) : j < i => t[j] = s[j]
      /\ \A j \in 1..Len(t) : j >= i => t[j] = s[j+1]
  BY <1>n, <1>1
<1>3. \A j, k \in 1..Len(t) : t[j] = t[k] => j = k
  <2>1. ASSUME NEW j \in 1..Len(t)
        PROVE  \E h \in 1..Len(s) : t[j] = s[h] /\ h = IF j < i THEN j ELSE j+1
    <3>1. CASE j < i
      BY <1>n, <1>1, <1>2, <3>1
    <3>2. CASE j >= i
      BY <1>n, <1>1, <1>2, <3>2
    <3> QED BY <1>n, <1>1, <3>1, <3>2
  <2>2. ASSUME NEW j \in 1..Len(t), NEW k \in 1..Len(t), t[j] = t[k] PROVE j = k
    <3>1. PICK h \in 1..Len(s) : t[j] = s[h] /\ h = IF j < i THEN j ELSE j+1
      BY <2>1
    <3>2. PICK g \in 1..Len(s) : t[k] = s[g] /\ g = IF k < i THEN k ELSE k+1
      BY <2>1
    <3>3. s[h] = s[g]
      BY <2>2, <3>1, <3>2, Zenon
    <3>4. h = g
      BY <3>3, Zenon DEF Ties
    <3> QED BY <1>n, <1>1, <3>1, <3>2, <3>4
  <2> QED BY <2>2
<1>4. R.Length = Len(t)
  BY <1>1 DEF Ties
<1>5. Len(t) = 0 => R.Headp = None /\ R.Tailp = None
  <2>1. Len(t) = 0 => Len(s) = 1
    BY <1>n, <1>1
  <2> QED BY <2>1
<1>6. Len(t) > 0 => R.Headp = t[1] /\ R.Prev[t[1]] = None
  <2> SUFFICES ASSUME Len(t) > 0 PROVE R.Headp = t[1] /\ R.Prev[t[1]] = None
    OBVIOUS
  <2>0. Len(s) > 1 /\ 1 \in 1..Len(t) /\ 1 \in 1..Len(s) /\ Len(s) > 0
    BY <1>n, <1>1
  <2>1. CASE i = 1
    <3>1. t[1] = s[1+1]
      BY <1>2, <2>0, <2>1
    <3> QED BY <2>0, <2>1, <3>1
  <2>2. CASE i # 1
    <3>1. 1 < i /\ 1 # i /\ 1 # i+1
      BY <1>n, <2>2
    <3>2. t[1] = s[1]
      BY <1>2, <2>0, <3>1
    <3>3. R.Prev[s[1]] = L.Prev[s[1]]
      BY <2>0, <3>1
    <3>4. L.Headp = s[1] /\ L.Prev[s[1]] = None
      BY <2>0 DEF Ties
    <3> QED BY <2>2, <3>2, <3>3, <3>4
  <2> QED BY <2>1, <2>2
<1>7. Len(t) > 0 => R.Tailp = t[Len(t)] /\ R.Link[t[Len(t)]] = None
  <2> SUFFICES ASSUME Len(t) > 0 PROVE R.Tailp = t[Len(t)] /\ R.Link[t[Len(t)]] = None
    OBVIOUS
  <2>0. Len(s) > 1 /\ Len(t) \in 1..Len(t) /\ Len(s) \in 1..Len(s) /\ Len(s) > 0
    BY <1>n, <1>1
  <2>1. CASE i = Len(s)
    <3>1. Len(t) = i-1 /\ Len(t) < i
      BY <1>n, <1>1, <2>1
    <3>2. t[Len(t)] = s[i-1]
      BY <1>2, <2>0, <3>1
    <3> QED BY <2>0, <2>1, <3>2
  <2>2. CASE i # Len(s)
    <3>1. Len(t) >= i /\ Len(t)+1 = Len(s) /\ Len(s) # i /\ Len(s) # i-1
      BY <1>n, <1>1, <2>2
    <3>2. t[Len(t)] = s[Len(s)]
      BY <1>2, <2>0, <3>1
    <3>3. R.Link[s[Len(s)]] = L.Link[s[Len(s)]]
      BY <2>0, <3>1
    <3>4. L.Tailp = s[Len(s)] /\ L.Link[s[Len(s)]] = None
      BY <2>0 DEF Ties
    <3> QED BY <2>2, <3>2, <3>3, <3>4
  <2> QED BY <2>1, <2>2
<1>8. ASSUME NEW j \in 1..Len(t)-1
      PROVE  R.Link[t[j]] = t[j+1] /\ R.Prev[t[j+1]] = t[j]
  <2>0. j \in 1..Len(t) /\ j+1 \in 1..Len(t) /\ j \in 1..Len(s)-1 /\ j+1 \in 1..Len(s)-1
        /\ j \in 1..Len(s) /\ j+1 \in 1..Len(s) /\ (j+1)+1 \in 1..Len(s)
    BY <1>n, <1>1
  <2>1. CASE j < i-1
    <3>1. j < i /\ j+1 < i /\ j # i /\ j # i-1 /\ j+1 # i /\ j+1 # i+1
      BY <1>n, <2>0, <2>1
    <3>2. t[j] = s[j] /\ t[j+1] = s[j+1]
      BY <1>2, <2>0, <3>1
    <3>3. L.Link[s[j]] = s[j+1] /\ L.Prev[s[j+1]] = s[j]
      BY <2>0 DEF Ties
    <3>4. R.Link[s[j]] = L.Link[s[j]] /\ R.Prev[s[j+1]] = L.Prev[s[j+1]]
      BY <2>0, <3>1
    <3> QED BY <3>2, <3>3, <3>4
  <2>2. CASE j = i-1
    <3>1. i # 1 /\ i # Len(s) /\ j < i /\ j+1 >= i /\ (j+1)+1 = i+1
      BY <1>n, <2>0, <2>2
    <3>2. t[j] = s[i-1] /\ t[j+1] = s[i+1]
      <4>1. t[j] = s[j]
        BY <1>2, <2>0, <3>1
      <4>2. t[j+1] = s[(j+1)+1]
        BY <1>2, <2>0, <3>1
      <4> QED BY <2>2, <3>1, <4>1, <4>2
    <3> QED BY <3>1, <3>2
  <2>3. CASE j >= i
    <3>1. j+1 >= i /\ j+1 # i /\ j+1 # i-1 /\ (j+1)+1 # i /\ (j+1)+1 # i+1
      BY <1>n, <2>0, <2>3
    <3>2. t[j] = s[j+1] /\ t[j+1] = s[(j+1)+1]
      BY <1>2, <2>0, <2>3, <3>1
    <3>3. L.Link[s[j+1]] = s[(j+1)+1] /\ L.Prev[s[(j+1)+1]] = s[j+1]
      BY <2>0 DEF Ties
    <3>4. R.Link[s[j+1]] = L.Link[s[j+1]] /\ R.Prev[s[(j+1)+1]] = L.Prev[s[(j+1)+1]]
      BY <2>0, <3>1
    <3> QED BY <3>2, <3>3, <3>4
  <2>4. j < i-1 \/ j = i-1 \/ j >= i
    BY <1>n, <2>0
  <2> QED BY <2>1, <2>2, <2>3, <2>4, Zenon
<1> QED BY <1>3, <1>4, <1>5, <1>6, <1>7, <1>8, Zenon DEF Ties, t
---------------------------------------------------------------------------
(* What the locked sections do                                             *)

Elsewhere(L, R, X) ==
    \A m \in Nodes \ X : R.Link[m] = L.Link[m] /\ R.Prev[m] = L.Prev[m]

(* R is L with the node n at position i. *)
Inserted(L, s, R, i, n) ==
    /\ R \in ListType /\ Ties(R, InsertAt(s, i, n))
    /\ Elsewhere(L, R, Range(s) \cup {n})

Removed(L, s, R, i) ==
    /\ R \in ListType /\ Ties(R, RemoveAt(s, i))
    /\ Elsewhere(L, R, Range(s))

LEMMA NodesOfTied ==
    ASSUME NEW L \in ListType, NEW s \in Seq(Nodes), Ties(L, s)
    PROVE  /\ Len(s) \in Nat
           /\ \A i \in 1..Len(s) : s[i] \in Nodes /\ s[i] # None /\ s[i] \in Range(s)
           /\ \A i, j \in 1..Len(s) : s[i] = s[j] => i = j
           /\ Empty(L) <=> Len(s) = 0
<1>1. /\ Len(s) \in Nat
      /\ \A i \in 1..Len(s) : s[i] \in Nodes /\ s[i] # None /\ s[i] \in Range(s)
  BY LenProperties, ElementOfSeq, NodesAndKeys DEF Range
<1>2. Len(s) > 0 => 1 \in 1..Len(s) /\ Len(s) \in 1..Len(s)
  BY <1>1
<1>3. Len(s) = 0 \/ Len(s) > 0
  BY <1>1
<1>4. Len(s) > 0 => L.Headp # None /\ L.Tailp # None /\ Len(s) # 0
  BY <1>1, <1>2 DEF Ties
<1>5. Empty(L) <=> Len(s) = 0
  BY <1>3, <1>4, Zenon DEF Ties, Empty
<1> QED BY <1>1, <1>5, Zenon DEF Ties

LEMMA LongerType ==
    ASSUME NEW L \in ListType PROVE Longer(L) \in ListType
  BY DEF ListType, Longer


(* A node is put into an empty list. *)
LEMMA AddOnly ==
    ASSUME NEW L \in ListType, NEW s \in Seq(Nodes), Ties(L, s), Len(s) = 0,
           NEW n \in Nodes, n \notin Range(s), L.Prev[n] = None,
           NEW R, R = Longer(Only(L, n)) \/ R = Longer([Only(L, n) EXCEPT !.Prev[n] = None])
    PROVE  Inserted(L, s, R, 1, n)
<1>0. /\ Only(L, n) \in ListType
      /\ [Only(L, n) EXCEPT !.Prev[n] = None] \in ListType
  <2>1. Only(L, n) \in ListType
    BY DEF ListType, Only
  <2>2. ASSUME NEW Q \in ListType PROVE [Q EXCEPT !.Prev[n] = None] \in ListType
    BY DEF ListType
  <2> QED BY <2>1, <2>2
<1>1. /\ R \in ListType /\ R.Length = L.Length + 1 /\ R.Headp = n /\ R.Tailp = n
      /\ R.Link = [L.Link EXCEPT ![n] = None]
      /\ R.Prev = L.Prev \/ R.Prev = [L.Prev EXCEPT ![n] = None]
  <2>1. CASE R = Longer(Only(L, n))
    <3>1. /\ R.Length = L.Length + 1 /\ R.Headp = n /\ R.Tailp = n
          /\ R.Link = [L.Link EXCEPT ![n] = None] /\ R.Prev = L.Prev
      BY <2>1 DEF ListType, Longer, Only
    <3> QED BY <1>0, <2>1, <3>1, LongerType
  <2>2. CASE R = Longer([Only(L, n) EXCEPT !.Prev[n] = None])
    <3>1. /\ R.Length = L.Length + 1 /\ R.Headp = n /\ R.Tailp = n
          /\ R.Link = [L.Link EXCEPT ![n] = None] /\ R.Prev = [L.Prev EXCEPT ![n] = None]
      BY <2>2 DEF ListType, Longer, Only
    <3> QED BY <1>0, <2>2, <3>1, LongerType
  <2> QED BY <2>1, <2>2
<1>2. R.Link[n] = None /\ R.Prev[n] = None
  BY <1>1 DEF ListType
<1>3. Elsewhere(L, R, Range(s) \cup {n})
  BY <1>1 DEF ListType, Elsewhere
<1>4. 1 \in 1..Len(s)+1 /\ 1 = Len(s)+1 /\ \A j \in 1..Len(s) : FALSE
  OBVIOUS
<1>5. Spliced(L, R, s, 1, n)
  BY <1>1, <1>2, <1>4 DEF Spliced
<1>6. Ties(R, InsertAt(s, 1, n))
  BY <1>4, <1>5, InsertLinks
<1> QED BY <1>1, <1>3, <1>6, Zenon DEF Inserted

(* A node is linked behind the last one. *)
LEMMA AddLast ==
    ASSUME NEW L \in ListType, NEW s \in Seq(Nodes), Ties(L, s), Len(s) > 0,
           NEW n \in Nodes, n \notin Range(s)
    PROVE  Inserted(L, s, Longer(LinkLast(L, n)), Len(s)+1, n)
<1> DEFINE R == Longer(LinkLast(L, n))
           last == s[Len(s)]
<1>1. /\ Len(s) \in Nat /\ Len(s) \in 1..Len(s) /\ last \in Nodes /\ last \in Range(s)
      /\ \A i \in 1..Len(s) : s[i] \in Nodes /\ s[i] \in Range(s)
      /\ \A i, j \in 1..Len(s) : s[i] = s[j] => i = j
      /\ L.Tailp = last
  BY NodesOfTied DEF Ties
<1>2. /\ R \in ListType /\ R.Length = L.Length + 1 /\ R.Headp = L.Headp /\ R.Tailp = n
      /\ R.Link = [L.Link EXCEPT ![last] = n, ![n] = None]
      /\ R.Prev = [L.Prev EXCEPT ![n] = last]
  <2>1. LinkLast(L, n) \in ListType
    BY <1>1 DEF ListType, LinkLast
  <2>2. /\ R.Length = L.Length + 1 /\ R.Headp = L.Headp /\ R.Tailp = n
        /\ R.Link = [L.Link EXCEPT ![last] = n, ![n] = None]
        /\ R.Prev = [L.Prev EXCEPT ![n] = last]
    BY <1>1 DEF ListType, Longer, LinkLast
  <2> QED BY <2>1, <2>2, LongerType
<1> HIDE DEF R
<1>3. /\ \A m \in Nodes : R.Link[m] = IF m = n THEN None ELSE IF m = last THEN n ELSE L.Link[m]
      /\ \A m \in Nodes : R.Prev[m] = IF m = n THEN last ELSE L.Prev[m]
  BY <1>1, <1>2 DEF ListType
<1>4. Elsewhere(L, R, Range(s) \cup {n})
  BY <1>1, <1>3 DEF Elsewhere
<1>5. Len(s)+1 \in 1..Len(s)+1 /\ Len(s)+1 # 1 /\ (Len(s)+1)-1 = Len(s)
  BY <1>1
<1>6. /\ R.Prev[n] = s[(Len(s)+1)-1] /\ R.Link[s[(Len(s)+1)-1]] = n /\ R.Link[n] = None
  BY <1>1, <1>3, <1>5
<1>7. ASSUME NEW j \in 1..Len(s)
      PROVE  /\ j # (Len(s)+1)-1 => R.Link[s[j]] = L.Link[s[j]]
             /\ j # Len(s)+1 => R.Prev[s[j]] = L.Prev[s[j]]
  <2>1. s[j] # n /\ (j # Len(s) => s[j] # last)
    BY <1>1
  <2> QED BY <1>1, <1>3, <1>5, <2>1
<1> HIDE DEF last
<1>8. Spliced(L, R, s, Len(s)+1, n)
  BY <1>2, <1>5, <1>6, <1>7, Zenon DEF Spliced
<1>9. Ties(R, InsertAt(s, Len(s)+1, n))
  BY <1>5, <1>8, InsertLinks
<1> QED BY <1>2, <1>4, <1>9, Zenon DEF Inserted, R

(* A node is linked before the one at position i of a sorted list. *)
LEMMA AddBefore ==
    ASSUME NEW L \in ListType, NEW s \in Seq(Nodes), Ties(L, s), NEW i \in 1..Len(s),
           NEW n \in Nodes, n \notin Range(s), L.Prev[n] = None
    PROVE  Inserted(L, s, Longer(LinkBefore(L, s[i], n)), i, n)
<1> DEFINE R == Longer(LinkBefore(L, s[i], n))
<1>1. /\ Len(s) \in Nat /\ Len(s) > 0 /\ i # Len(s)+1 /\ i \in 1..Len(s)+1
      /\ \A j \in 1..Len(s) : s[j] \in Nodes /\ s[j] \in Range(s) /\ s[j] # None /\ s[j] # n
      /\ \A j, k \in 1..Len(s) : s[j] = s[k] => j = k
  BY NodesOfTied
<1>2. CASE i = 1
  <2>1. L.Prev[s[i]] = None /\ s[i] \in Nodes /\ s[i] # n
    BY <1>1, <1>2 DEF Ties
  <2>2. /\ R \in ListType /\ R.Length = L.Length + 1 /\ R.Headp = n /\ R.Tailp = L.Tailp
        /\ R.Link = [L.Link EXCEPT ![n] = s[i]] /\ R.Prev = [L.Prev EXCEPT ![s[i]] = n]
    <3> DEFINE f == [L.Link EXCEPT ![n] = s[i]]
               p == [L.Prev EXCEPT ![s[i]] = n]
    <3>1. LinkBefore(L, s[i], n) = [L EXCEPT !.Headp = n, !.Link = f, !.Prev = p]
      BY <2>1 DEF LinkBefore
    <3>2. LinkBefore(L, s[i], n) \in ListType
      <4>1. f \in [Nodes -> Nodes \cup {None}] /\ p \in [Nodes -> Nodes \cup {None}]
        BY <2>1 DEF ListType
      <4> HIDE DEF f, p
      <4>2. [L EXCEPT !.Headp = n, !.Link = f, !.Prev = p] \in ListType
        BY <4>1 DEF ListType
      <4> QED BY <3>1, <4>2
    <3>3. /\ R.Length = L.Length + 1 /\ R.Headp = n /\ R.Tailp = L.Tailp
          /\ R.Link = [L.Link EXCEPT ![n] = s[i]] /\ R.Prev = [L.Prev EXCEPT ![s[i]] = n]
      BY <2>1, <3>1 DEF ListType, Longer
    <3> QED BY <3>2, <3>3, LongerType
  <2> HIDE DEF R
  <2>3. /\ \A m \in Nodes : R.Link[m] = IF m = n THEN s[i] ELSE L.Link[m]
        /\ \A m \in Nodes : R.Prev[m] = IF m = s[i] THEN n ELSE L.Prev[m]
    BY <2>1, <2>2 DEF ListType
  <2>4. Elsewhere(L, R, Range(s) \cup {n})
    BY <1>1, <2>3 DEF Elsewhere
  <2>5. R.Link[n] = s[i] /\ R.Prev[s[i]] = n /\ R.Prev[n] = None
    BY <2>1, <2>3
  <2>6. ASSUME NEW j \in 1..Len(s)
        PROVE  /\ j # i-1 => R.Link[s[j]] = L.Link[s[j]]
               /\ j # i => R.Prev[s[j]] = L.Prev[s[j]]
    <3>1. s[j] \in Nodes /\ s[j] # n /\ (j # i => s[j] # s[i])
      BY <1>1
    <3> QED BY <2>3, <3>1
  <2>7. Spliced(L, R, s, i, n)
    BY <1>1, <1>2, <2>2, <2>5, <2>6, Zenon DEF Spliced
  <2>8. Ties(R, InsertAt(s, i, n))
    BY <1>1, <2>7, InsertLinks
  <2> QED BY <2>2, <2>4, <2>8, Zenon DEF Inserted, R
<1>3. CASE i # 1
  <2> DEFINE p == s[i-1]
  <2>0. i-1 \in 1..Len(s)-1 /\ i-1 \in 1..Len(s) /\ (i-1)+1 = i /\ i-1 # i
    BY <1>1, <1>3
  <2>1. L.Prev[s[i]] = p /\ p \in Nodes /\ p # None /\ p # n /\ s[i] \in Nodes /\ s[i] # n
    <3>1. L.Prev[s[(i-1)+1]] = s[i-1]
      BY <2>0 DEF Ties
    <3> QED BY <1>1, <2>0, <3>1
  <2>p. p # s[i] /\ p \in Range(s)
    BY <1>1, <2>0
  <2> HIDE DEF p
  <2>2. /\ R \in ListType /\ R.Length = L.Length + 1 /\ R.Headp = L.Headp /\ R.Tailp = L.Tailp
        /\ R.Link = [L.Link EXCEPT ![p] = n, ![n] = s[i]]
        /\ R.Prev = [L.Prev EXCEPT ![n] = p, ![s[i]] = n]
    <3> DEFINE f == [L.Link EXCEPT ![p] = n, ![n] = s[i]]
               g == [L.Prev EXCEPT ![n] = p, ![s[i]] = n]
    <3>1. LinkBefore(L, s[i], n) = [L EXCEPT !.Link = f, !.Prev = g]
      BY <2>1 DEF LinkBefore, ListType
    <3>2. LinkBefore(L, s[i], n) \in ListType
      <4>1. f \in [Nodes -> Nodes \cup {None}] /\ g \in [Nodes -> Nodes \cup {None}]
        BY <2>1 DEF ListType
      <4> HIDE DEF f, g
      <4>2. [L EXCEPT !.Link = f, !.Prev = g] \in ListType
        BY <4>1 DEF ListType
      <4> QED BY <3>1, <4>2
    <3>3. /\ R.Length = L.Length + 1 /\ R.Headp = L.Headp /\ R.Tailp = L.Tailp
          /\ R.Link = [L.Link EXCEPT ![p] = n, ![n] = s[i]]
          /\ R.Prev = [L.Prev EXCEPT ![n] = p, ![s[i]] = n]
      BY <2>1, <3>1 DEF ListType, Longer
    <3> QED BY <3>2, <3>3, LongerType
  <2> HIDE DEF R
  <2>3. /\ \A m \in Nodes : R.Link[m] = IF m = n THEN s[i] ELSE IF m = p THEN n ELSE L.Link[m]
        /\ \A m \in Nodes : R.Prev[m] = IF m = s[i] THEN n ELSE IF m = n THEN p ELSE L.Prev[m]
    BY <2>1, <2>2 DEF ListType
  <2>4. Elsewhere(L, R, Range(s) \cup {n})
    BY <1>1, <2>p, <2>3 DEF Elsewhere
  <2>5. R.Link[n] = s[i] /\ R.Prev[s[i]] = n /\ R.Prev[n] = s[i-1] /\ R.Link[s[i-1]] = n
    BY <2>1, <2>3 DEF p
  <2>6. ASSUME NEW j \in 1..Len(s)
        PROVE  /\ j # i-1 => R.Link[s[j]] = L.Link[s[j]]
               /\ j # i => R.Prev[s[j]] = L.Prev[s[j]]
    <3>1. s[j] \in Nodes /\ s[j] # n /\ (j # i => s[j] # s[i]) /\ (j # i-1 => s[j] # p)
      BY <1>1, <2>0 DEF p
    <3> QED BY <2>3, <3>1
  <2>7. Spliced(L, R, s, i, n)
    BY <1>1, <1>3, <2>2, <2>5, <2>6, Zenon DEF Spliced
  <2>8. Ties(R, InsertAt(s, i, n))
    BY <1>1, <2>7, InsertLinks
  <2> QED BY <2>2, <2>4, <2>8, Zenon DEF Inserted, R
<1> QED BY <1>2, <1>3

(* A node is linked before the first one of an unsorted list. *)
LEMMA AddFirst ==
    ASSUME NEW L \in ListType, NEW s \in Seq(Nodes), Ties(L, s), Len(s) > 0,
           NEW n \in Nodes, n \notin Range(s)
    PROVE  Inserted(L, s, Longer([L EXCEPT !.Headp = n, !.Link[n] = L.Headp,
                                     !.Prev = [@ EXCEPT ![L.Headp] = n, ![n] = None]]), 1, n)
<1> DEFINE R == Longer([L EXCEPT !.Headp = n, !.Link[n] = L.Headp,
                                 !.Prev = [@ EXCEPT ![L.Headp] = n, ![n] = None]])
<1>1. /\ Len(s) \in Nat /\ 1 # Len(s)+1 /\ 1 \in 1..Len(s)+1 /\ 1 \in 1..Len(s)
      /\ \A j \in 1..Len(s) : s[j] \in Nodes /\ s[j] \in Range(s) /\ s[j] # None /\ s[j] # n
      /\ \A j, k \in 1..Len(s) : s[j] = s[k] => j = k
      /\ L.Headp = s[1]
  BY NodesOfTied DEF Ties
<1>2. /\ R \in ListType /\ R.Length = L.Length + 1 /\ R.Headp = n /\ R.Tailp = L.Tailp
      /\ R.Link = [L.Link EXCEPT ![n] = s[1]] /\ R.Prev = [L.Prev EXCEPT ![s[1]] = n, ![n] = None]
  <2> DEFINE Q == [L EXCEPT !.Headp = n, !.Link[n] = L.Headp,
                            !.Prev = [@ EXCEPT ![L.Headp] = n, ![n] = None]]
  <2>1. Q \in ListType
    BY <1>1 DEF ListType
  <2>2. /\ R.Length = L.Length + 1 /\ R.Headp = n /\ R.Tailp = L.Tailp
        /\ R.Link = [L.Link EXCEPT ![n] = s[1]] /\ R.Prev = [L.Prev EXCEPT ![s[1]] = n, ![n] = None]
    BY <1>1 DEF ListType, Longer
  <2>3. R = Longer(Q)
    OBVIOUS
  <2> HIDE DEF Q, R
  <2> QED BY <2>1, <2>2, <2>3, LongerType
<1> HIDE DEF R
<1>3. /\ \A m \in Nodes : R.Link[m] = IF m = n THEN s[1] ELSE L.Link[m]
      /\ \A m \in Nodes : R.Prev[m] = IF m = n THEN None ELSE IF m = s[1] THEN n ELSE L.Prev[m]
  BY <1>1, <1>2 DEF ListType
<1>4. Elsewhere(L, R, Range(s) \cup {n})
  BY <1>1, <1>3 DEF Elsewhere
<1>5. R.Link[n] = s[1] /\ R.Prev[s[1]] = n /\ R.Prev[n] = None
  BY <1>1, <1>3
<1>6. ASSUME NEW j \in 1..Len(s)
      PROVE  /\ j # 1-1 => R.Link[s[j]] = L.Link[s[j]]
             /\ j # 1 => R.Prev[s[j]] = L.Prev[s[j]]
  <2>1. s[j] \in Nodes /\ s[j] # n /\ (j # 1 => s[j] # s[1])
    BY <1>1
  <2> QED BY <1>3, <2>1
<1>7. Spliced(L, R, s, 1, n)
  BY <1>1, <1>2, <1>5, <1>6, Zenon DEF Spliced
<1>8. Ties(R, InsertAt(s, 1, n))
  BY <1>1, <1>7, InsertLinks
<1> QED BY <1>2, <1>4, <1>8, Zenon DEF Inserted, R

KeysInOrder(s) == \A i, j \in DOMAIN s : i < j => Key[s[i]] <= Key[s[j]]

(* Where Sequence lets a new node be put. *)
Place(s, i, n) ==
    IF sorted THEN /\ \A j \in 1..i-1 : Key[s[j]] < Key[n]
                   /\ \A j \in i..Len(s) : Key[n] <= Key[s[j]]
              ELSE i \in {1, Len(s) + 1}

LEMMA WalkAsTied ==
    ASSUME NEW L \in ListType, NEW s \in Seq(Nodes), Ties(L, s)
    PROVE  Walk(L) = s
  BY LinksAreTies, WalkAsLinked

(* Where an insertion into a sorted list stops. *)
Stop(s, n, m) ==
    \/ m = None /\ \A j \in 1..Len(s) : Key[s[j]] < Key[n]
    \/ \E i \in 1..Len(s) : /\ m = s[i] /\ Key[n] <= Key[s[i]]
                            /\ \A j \in 1..i-1 : Key[s[j]] < Key[n]

LEMMA StopsAt ==
    ASSUME NEW L \in ListType, NEW s \in Seq(Nodes), Ties(L, s), NEW n \in Nodes,
           NEW m, m = FirstNode(L, LAMBDA x : NotAfter(n, x))
    PROVE  Stop(s, n, m)
<1> USE DEF Stop
<1> DEFINE found == {i \in 1..Len(s) : Key[n] <= Key[s[i]]}
<1>0. /\ Len(s) \in Nat /\ DOMAIN s = 1..Len(s) /\ \A i \in 1..Len(s) : s[i] \in Nodes
      /\ \A x \in Nodes : Key[x] \in Int
  BY LenProperties, ElementOfSeq, NodesAndKeys
<1>1. Walk(L) = s
  BY WalkAsTied
<1>2. m = IF found = {} THEN None ELSE s[Min(found)]
  BY <1>0, <1>1, Zenon DEF FirstNode, NotAfter
<1>3. CASE found = {}
  <2>1. \A j \in 1..Len(s) : Key[s[j]] < Key[n]
    BY <1>0, <1>3
  <2> QED BY <1>2, <1>3, <2>1, Zenon
<1>4. CASE found # {}
  <2> DEFINE i == Min(found)
  <2>1. i \in found /\ \A j \in found : i <= j
    <3>1. found \in SUBSET Nat
      BY <1>0
    <3> HIDE DEF found
    <3> QED BY <1>4, <3>1, LeastIsMin
  <2> HIDE DEF i
  <2>2. ASSUME NEW j \in 1..i-1 PROVE Key[s[j]] < Key[n]
    <3>1. j \in 1..Len(s) /\ ~(i <= j)
      BY <1>0, <2>1
    <3> QED BY <1>0, <2>1, <3>1
  <2>3. m = s[i]
    BY <1>2, <1>4, Zenon DEF i
  <2> QED BY <2>1, <2>2, <2>3
<1> QED BY <1>3, <1>4

(* ListInsert and ListAppend put the node where Sequence allows it. *)
LEMMA InsertOp ==
    ASSUME NEW L \in ListType, NEW s \in Seq(Nodes), Ties(L, s),
           NEW n \in Nodes, n \notin Range(s), L.Prev[n] = None,
           sorted \in BOOLEAN, sorted => KeysInOrder(s)
    PROVE  \E i \in 1..Len(s)+1 : Inserted(L, s, ListInsert(L, n), i, n) /\ Place(s, i, n)
<1> DEFINE m == IF sorted THEN FirstNode(L, LAMBDA x : NotAfter(n, x)) ELSE L.Headp
           R == ListInsert(L, n)
<1>0. /\ Len(s) \in Nat /\ Len(s) \in Int /\ (Empty(L) <=> Len(s) = 0)
      /\ \A i \in 1..Len(s) : s[i] \in Nodes /\ s[i] # None
      /\ \A x \in Nodes : Key[x] \in Int
      /\ DOMAIN s = 1..Len(s)
  BY NodesOfTied, NodesAndKeys, LenProperties
<1>1. R = Longer(CASE Empty(L) -> IF sorted THEN Only(L, n) ELSE [Only(L, n) EXCEPT !.Prev[n] = None]
             [] ~Empty(L) /\ m = None -> LinkLast(L, n)
             [] ~Empty(L) /\ m # None /\ sorted -> LinkBefore(L, m, n)
             [] ~Empty(L) /\ m # None /\ ~sorted ->
                    [L EXCEPT !.Headp = n, !.Link[n] = m,
                              !.Prev = [@ EXCEPT ![m] = n, ![n] = None]])
  BY DEF ListInsert
<1> HIDE DEF m, R
<1>2. CASE Len(s) = 0
  <2>1. R = Longer(Only(L, n)) \/ R = Longer([Only(L, n) EXCEPT !.Prev[n] = None])
    BY <1>0, <1>1, <1>2
  <2>2. Inserted(L, s, R, 1, n)
    BY <1>2, <2>1, AddOnly
  <2>3. 1 \in 1..Len(s)+1 /\ Place(s, 1, n)
    BY <1>2 DEF Place
  <2> QED BY <2>2, <2>3 DEF R
<1>3. CASE Len(s) # 0 /\ sorted
  <2>0. Len(s) > 0 /\ ~Empty(L) /\ m = FirstNode(L, LAMBDA x : NotAfter(n, x))
    BY <1>0, <1>3 DEF m
  <2>1. CASE m = None /\ \A j \in 1..Len(s) : Key[s[j]] < Key[n]
    <3>1. R = Longer(LinkLast(L, n))
      BY <1>1, <2>0, <2>1
    <3>2. Inserted(L, s, R, Len(s)+1, n)
      BY <2>0, <3>1, AddLast
    <3>3. Len(s)+1 \in 1..Len(s)+1 /\ Place(s, Len(s)+1, n)
      BY <1>0, <1>3, <2>1 DEF Place
    <3> QED BY <3>2, <3>3 DEF R
  <2>2. ASSUME NEW i \in 1..Len(s), m = s[i], Key[n] <= Key[s[i]],
               \A j \in 1..i-1 : Key[s[j]] < Key[n]
        PROVE  Inserted(L, s, R, i, n) /\ Place(s, i, n)
    <3>1. R = Longer(LinkBefore(L, s[i], n))
      BY <1>0, <1>1, <1>3, <2>0, <2>2
    <3>2. Inserted(L, s, R, i, n)
      BY <3>1, AddBefore
    <3>3. ASSUME NEW j \in i..Len(s) PROVE Key[n] <= Key[s[j]]
      <4>1. j \in 1..Len(s) /\ (i < j \/ i = j)
        BY <1>0
      <4>2. Key[s[i]] <= Key[s[j]]
        BY <1>0, <1>3, <4>1 DEF KeysInOrder
      <4>3. Key[n] \in Int /\ Key[s[i]] \in Int /\ Key[s[j]] \in Int
        BY <1>0, <4>1
      <4> QED BY <2>2, <4>2, <4>3
    <3> QED BY <1>3, <2>2, <3>2, <3>3 DEF Place
  <2> QED
    <3>1. CASE \E i \in 1..Len(s) : /\ m = s[i] /\ Key[n] <= Key[s[i]]
                                   /\ \A j \in 1..i-1 : Key[s[j]] < Key[n]
      <4>1. PICK i \in 1..Len(s) : /\ m = s[i] /\ Key[n] <= Key[s[i]]
                                   /\ \A j \in 1..i-1 : Key[s[j]] < Key[n]
        BY <3>1
      <4>2. Inserted(L, s, R, i, n) /\ Place(s, i, n)
        BY <2>2, <4>1
      <4>3. i \in 1..Len(s)+1
        BY <1>0
      <4> QED BY <4>2, <4>3 DEF R
    <3>2. Stop(s, n, m)
      BY <2>0, StopsAt
    <3> QED BY <2>1, <3>1, <3>2, Zenon DEF Stop
<1>4. CASE Len(s) # 0 /\ ~sorted
  <2>0. Len(s) > 0 /\ ~Empty(L) /\ m = L.Headp
    BY <1>0, <1>4 DEF m
  <2>1. L.Headp # None
    BY <2>0 DEF Empty
  <2>2. R = Longer([L EXCEPT !.Headp = n, !.Link[n] = L.Headp,
                             !.Prev = [@ EXCEPT ![L.Headp] = n, ![n] = None]])
    BY <1>1, <1>4, <2>0, <2>1
  <2>3. Inserted(L, s, R, 1, n)
    BY <2>0, <2>2, AddFirst
  <2>4. 1 \in 1..Len(s)+1 /\ Place(s, 1, n)
    BY <1>0, <1>4 DEF Place
  <2> QED BY <2>3, <2>4 DEF R
<1> QED BY <1>2, <1>3, <1>4

LEMMA AppendOp ==
    ASSUME NEW L \in ListType, NEW s \in Seq(Nodes), Ties(L, s),
           NEW n \in Nodes, n \notin Range(s), L.Prev[n] = None,
           sorted \in BOOLEAN, sorted => KeysInOrder(s)
    PROVE  \E i \in 1..Len(s)+1 : Inserted(L, s, ListAppend(L, n), i, n) /\ Place(s, i, n)
<1>0. Len(s) \in Nat /\ (Empty(L) <=> Len(s) = 0)
  BY NodesOfTied
<1>1. CASE sorted
  BY <1>1, InsertOp DEF ListAppend
<1>2. CASE ~sorted /\ Len(s) = 0
  <2>1. ListAppend(L, n) = Longer([Only(L, n) EXCEPT !.Prev[n] = None])
    BY <1>0, <1>2 DEF ListAppend
  <2>2. Inserted(L, s, ListAppend(L, n), 1, n)
    BY <1>2, <2>1, AddOnly
  <2>3. 1 \in 1..Len(s)+1 /\ Place(s, 1, n)
    BY <1>2 DEF Place
  <2> QED BY <2>2, <2>3
<1>3. CASE ~sorted /\ Len(s) # 0
  <2>1. ListAppend(L, n) = Longer(LinkLast(L, n))
    BY <1>0, <1>3 DEF ListAppend
  <2>2. Inserted(L, s, ListAppend(L, n), Len(s)+1, n)
    BY <1>0, <1>3, <2>1, AddLast
  <2>3. Len(s)+1 \in 1..Len(s)+1 /\ Place(s, Len(s)+1, n)
    BY <1>0, <1>3 DEF Place
  <2> QED BY <2>2, <2>3
<1> QED BY <1>1, <1>2, <1>3

(* ListPopFront takes the first node. *)
LEMMA PopOp ==
    ASSUME NEW L \in ListType, NEW s \in Seq(Nodes), Ties(L, s), Len(s) > 0
    PROVE  Removed(L, s, ListPopFront(L), 1)
<1> DEFINE R == ListPopFront(L)
           cur == s[1]
           next == L.Link[cur]
           prev == IF next = None THEN L.Prev ELSE [L.Prev EXCEPT ![next] = None]
<1>0. /\ Len(s) \in Nat /\ 1 \in 1..Len(s) /\ Len(s) \in 1..Len(s)
      /\ \A i \in 1..Len(s) : s[i] \in Nodes /\ s[i] # None /\ s[i] \in Range(s)
      /\ \A i, j \in 1..Len(s) : s[i] = s[j] => i = j
      /\ L.Headp = cur /\ L.Tailp = s[Len(s)] /\ cur \in Nodes
  BY NodesOfTied DEF Ties
<1>n. Len(s) = 1 \/ Len(s) > 1
  <2>1. \A k \in Nat : k > 0 => k = 1 \/ k > 1
    OBVIOUS
  <2> QED BY <1>0, <2>1, Zenon
<1>1. /\ Len(s) = 1 => next = None /\ L.Tailp = cur
      /\ Len(s) > 1 => next = s[2] /\ L.Tailp # cur /\ next # None /\ next \in Nodes
      /\ next \in Nodes \cup {None}
  <2>1. Len(s) = 1 => next = None /\ L.Tailp = cur
    BY <1>0 DEF Ties
  <2>2. ASSUME Len(s) > 1 PROVE next = s[2] /\ L.Tailp # cur /\ s[2] # None /\ s[2] \in Nodes
    <3>1. 1 \in 1..Len(s)-1 /\ 2 \in 1..Len(s) /\ 1+1 = 2 /\ Len(s) # 1
      BY <1>0, <2>2
    <3>2. L.Link[s[1]] = s[1+1]
      BY <3>1 DEF Ties
    <3> QED BY <1>0, <3>1, <3>2
  <2> HIDE DEF cur, next
  <2> QED BY <1>n, <2>1, <2>2
<1>2. prev \in [Nodes -> Nodes \cup {None}]
  BY <1>1 DEF ListType
<1> DEFINE head == IF L.Tailp = cur THEN None ELSE next
           tail == IF L.Tailp = cur THEN None ELSE L.Tailp
           back == [prev EXCEPT ![cur] = None]
           forth == [L.Link EXCEPT ![cur] = None]
<1>3. R = [L EXCEPT !.Headp = head, !.Tailp = tail, !.Link = forth, !.Prev = back, !.Length = @ - 1]
  BY <1>0 DEF ListPopFront, ListType
<1>4. /\ head \in Nodes \cup {None} /\ tail \in Nodes \cup {None}
      /\ back \in [Nodes -> Nodes \cup {None}] /\ forth \in [Nodes -> Nodes \cup {None}]
  BY <1>0, <1>1, <1>2 DEF ListType
<1>5. L.Length - 1 \in Nat
  BY <1>0 DEF Ties
<1>6. /\ \A m \in Nodes : forth[m] = IF m = cur THEN None ELSE L.Link[m]
      /\ \A m \in Nodes : back[m] = IF m = cur \/ m = next THEN None ELSE L.Prev[m]
  BY <1>0, <1>1, NodesAndKeys DEF ListType
<1>7. /\ Len(s) = 1 => head = None /\ tail = None
      /\ Len(s) > 1 => head = s[2] /\ tail = L.Tailp /\ back[s[2]] = None
  BY <1>1, <1>6
<1> HIDE DEF R, head, tail, back, forth
<1>8. R \in ListType
  BY <1>3, <1>4, <1>5 DEF ListType
<1>9. R.Headp = head /\ R.Tailp = tail /\ R.Link = forth /\ R.Prev = back /\ R.Length = L.Length - 1
  BY <1>3 DEF ListType
<1>10. Elsewhere(L, R, Range(s))
  <2>0. cur \in Range(s)
    BY <1>0
  <2>1. next \in Range(s) \cup {None}
    <3>1. CASE Len(s) > 1
      <4>1. 2 \in 1..Len(s)
        BY <1>0, <3>1
      <4>2. s[2] \in Range(s)
        BY <1>0, <4>1
      <4> QED BY <1>1, <3>1, <4>2
    <3>2. CASE Len(s) = 1
      BY <1>1, <3>2
    <3> QED BY <1>n, <3>1, <3>2
  <2> HIDE DEF next, cur
  <2> QED BY <1>6, <1>9, <2>0, <2>1, NodesAndKeys DEF Elsewhere
<1>11. ASSUME NEW j \in 1..Len(s)
       PROVE  /\ j # 1 /\ j # 1-1 => R.Link[s[j]] = L.Link[s[j]]
              /\ j # 1 /\ j # 1+1 => R.Prev[s[j]] = L.Prev[s[j]]
  <2>1. s[j] \in Nodes /\ s[j] # None /\ (j # 1 => s[j] # cur)
    BY <1>0
  <2>2. j # 1 /\ j # 1+1 => s[j] # next
    <3>1. CASE Len(s) > 1
      <4>1. 2 \in 1..Len(s)
        BY <1>0, <3>1
      <4> QED BY <1>0, <1>1, <3>1, <4>1
    <3>2. CASE Len(s) = 1
      BY <1>1, <2>1, <3>2
    <3> QED BY <1>0, <3>1, <3>2
  <2> HIDE DEF next, cur
  <2> QED BY <1>6, <1>9, <2>1, <2>2
<1> HIDE DEF next, cur, prev
<1>12. Cut(L, R, s, 1)
  <2>1. Len(s) = 1 => ~(Len(s) > 1)
    OBVIOUS
  <2>2. 1 # Len(s) => Len(s) > 1
    BY <1>n
  <2> QED BY <1>7, <1>9, <1>11, <2>1, <2>2, Zenon DEF Cut
<1>13. Ties(R, RemoveAt(s, 1))
  BY <1>0, <1>12, RemoveLinks
<1> QED BY <1>8, <1>10, <1>13, Zenon DEF Removed, R

(* ListUnlinkNode takes the node it is given. *)
LEMMA UnlinkOp ==
    ASSUME NEW L \in ListType, NEW s \in Seq(Nodes), Ties(L, s), NEW i \in 1..Len(s)
    PROVE  Removed(L, s, ListUnlinkNode(L, s[i]), i)
<1> DEFINE R == ListUnlinkNode(L, s[i])
           p == L.Prev[s[i]]
           q == L.Link[s[i]]
<1>0. /\ Len(s) \in Nat
      /\ \A j \in 1..Len(s) : s[j] \in Nodes /\ s[j] # None /\ s[j] \in Range(s)
      /\ \A j, k \in 1..Len(s) : s[j] = s[k] => j = k
      /\ L.Headp = s[1] /\ L.Tailp = s[Len(s)]
      /\ 1 \in 1..Len(s) /\ Len(s) \in 1..Len(s) /\ s[i] \in Nodes
  BY NodesOfTied DEF Ties
<1>1. /\ i = 1 => p = None /\ L.Headp = s[i]
      /\ i # 1 => p = s[i-1] /\ i-1 \in 1..Len(s)
      /\ i = Len(s) => q = None /\ L.Tailp = s[i]
      /\ i # Len(s) => q = s[i+1] /\ i+1 \in 1..Len(s)
  <2>0. Len(s) > 0
    BY <1>0
  <2>1. i = 1 => p = None /\ L.Headp = s[i]
    BY <1>0, <2>0 DEF Ties
  <2>2. ASSUME i # 1 PROVE p = s[i-1] /\ i-1 \in 1..Len(s)
    <3>1. i-1 \in 1..Len(s)-1 /\ (i-1)+1 = i /\ i-1 \in 1..Len(s)
      BY <1>0, <2>2
    <3>2. L.Prev[s[(i-1)+1]] = s[i-1]
      BY <3>1 DEF Ties
    <3> QED BY <3>1, <3>2
  <2>3. i = Len(s) => q = None /\ L.Tailp = s[i]
    BY <1>0, <2>0 DEF Ties
  <2>4. ASSUME i # Len(s) PROVE q = s[i+1] /\ i+1 \in 1..Len(s)
    <3>1. i \in 1..Len(s)-1 /\ i+1 \in 1..Len(s)
      BY <1>0, <2>4
    <3> QED BY <3>1 DEF Ties
  <2> QED BY <2>1, <2>2, <2>3, <2>4
<1>2. L.Length - 1 \in Nat
  BY <1>0 DEF Ties
<1>l. [L EXCEPT !.Length = @ - 1] \in ListType
  BY <1>2 DEF ListType
<1>3. CASE i = 1 /\ i = Len(s)
  <2>1. p = None /\ q = None /\ L.Headp = s[i]
    BY <1>1, <1>3
  <2>2. R = [[L EXCEPT !.Length = @ - 1] EXCEPT !.Headp = None, !.Tailp = None]
    BY <2>1 DEF ListUnlinkNode
  <2>3. R \in ListType
    BY <1>l, <2>2 DEF ListType
  <2>4. /\ R.Headp = None /\ R.Tailp = None /\ R.Link = L.Link /\ R.Prev = L.Prev
        /\ R.Length = L.Length - 1
    BY <2>2 DEF ListType
  <2> HIDE DEF R
  <2>5. Elsewhere(L, R, Range(s))
    BY <2>4 DEF Elsewhere
  <2>6. Cut(L, R, s, i)
    <3>1. Len(s) = 1
      BY <1>3
    <3>2. ~(Len(s) > 1)
      BY <3>1
    <3> QED BY <1>3, <2>4, <3>1, <3>2, Zenon DEF Cut
  <2>7. Ties(R, RemoveAt(s, i))
    BY <2>6, RemoveLinks
  <2> QED BY <2>3, <2>5, <2>7, Zenon DEF Removed, R
<1>4. CASE i = 1 /\ i # Len(s)
  <2>0. i+1 \in 1..Len(s) /\ s[i+1] \in Nodes /\ s[i+1] # None /\ i+1 = 2 /\ Len(s) > 1
    BY <1>0, <1>1, <1>4
  <2>1. p = None /\ q = s[i+1] /\ L.Headp = s[i] /\ q # None
    BY <1>1, <1>4, <2>0
  <2>2. R = [[L EXCEPT !.Length = @ - 1] EXCEPT !.Headp = q, !.Prev[q] = None]
    BY <2>1 DEF ListUnlinkNode
  <2> HIDE DEF q
  <2>3. R \in ListType
    <3>1. ASSUME NEW Q \in ListType PROVE [Q EXCEPT !.Headp = q, !.Prev[q] = None] \in ListType
      BY <2>0, <2>1 DEF ListType
    <3> HIDE DEF R
    <3> QED BY <1>l, <2>2, <3>1
  <2>4. /\ R.Headp = q /\ R.Tailp = L.Tailp /\ R.Link = L.Link
        /\ R.Prev = [L.Prev EXCEPT ![q] = None] /\ R.Length = L.Length - 1
    BY <2>2 DEF ListType
  <2> HIDE DEF R
  <2>5. \A m \in Nodes : R.Prev[m] = IF m = q THEN None ELSE L.Prev[m]
    BY <2>4 DEF ListType
  <2>6. Elsewhere(L, R, Range(s))
    BY <1>0, <2>0, <2>1, <2>4, <2>5 DEF Elsewhere
  <2>7. ASSUME NEW j \in 1..Len(s), j # i+1 PROVE R.Prev[s[j]] = L.Prev[s[j]]
    BY <1>0, <2>0, <2>1, <2>5, <2>7
  <2>8. R.Prev[s[2]] = None /\ R.Headp = s[2]
    BY <2>0, <2>1, <2>4, <2>5
  <2>9. Cut(L, R, s, i)
    BY <1>4, <2>0, <2>4, <2>7, <2>8 DEF Cut
  <2>10. Ties(R, RemoveAt(s, i))
    BY <2>9, RemoveLinks
  <2> QED BY <2>3, <2>6, <2>10, Zenon DEF Removed, R
<1>5. CASE i # 1 /\ i = Len(s)
  <2>0. i-1 \in 1..Len(s) /\ s[i-1] \in Nodes /\ s[i-1] # None /\ Len(s) > 1 /\ Len(s) # 1
    BY <1>0, <1>1, <1>5
  <2>1. p = s[i-1] /\ q = None /\ L.Tailp = s[i] /\ p # None
    BY <1>1, <1>5, <2>0
  <2>2. R = [[L EXCEPT !.Length = @ - 1] EXCEPT !.Tailp = p, !.Link[p] = None]
    BY <2>1 DEF ListUnlinkNode
  <2> HIDE DEF p
  <2>3. R \in ListType
    <3>1. ASSUME NEW Q \in ListType PROVE [Q EXCEPT !.Tailp = p, !.Link[p] = None] \in ListType
      BY <2>0, <2>1 DEF ListType
    <3> HIDE DEF R
    <3> QED BY <1>l, <2>2, <3>1
  <2>4. /\ R.Headp = L.Headp /\ R.Tailp = p /\ R.Prev = L.Prev
        /\ R.Link = [L.Link EXCEPT ![p] = None] /\ R.Length = L.Length - 1
    BY <2>2 DEF ListType
  <2> HIDE DEF R
  <2>5. \A m \in Nodes : R.Link[m] = IF m = p THEN None ELSE L.Link[m]
    BY <2>4 DEF ListType
  <2>6. Elsewhere(L, R, Range(s))
    BY <1>0, <2>0, <2>1, <2>4, <2>5 DEF Elsewhere
  <2>7. ASSUME NEW j \in 1..Len(s), j # i-1 PROVE R.Link[s[j]] = L.Link[s[j]]
    BY <1>0, <2>0, <2>1, <2>5, <2>7
  <2>8. R.Link[s[i-1]] = None /\ R.Tailp = s[i-1]
    BY <2>0, <2>1, <2>4, <2>5
  <2>9. Cut(L, R, s, i)
    BY <1>5, <2>0, <2>4, <2>7, <2>8 DEF Cut
  <2>10. Ties(R, RemoveAt(s, i))
    BY <2>9, RemoveLinks
  <2> QED BY <2>3, <2>6, <2>10, Zenon DEF Removed, R
<1>6. CASE i # 1 /\ i # Len(s)
  <2>0. /\ i-1 \in 1..Len(s) /\ s[i-1] \in Nodes /\ s[i-1] # None /\ Len(s) # 1
        /\ i+1 \in 1..Len(s) /\ s[i+1] \in Nodes /\ s[i+1] # None
    BY <1>0, <1>1, <1>6
  <2>1. p = s[i-1] /\ q = s[i+1] /\ p # None /\ q # None
    BY <1>1, <1>6, <2>0
  <2>2. R = [[L EXCEPT !.Length = @ - 1] EXCEPT !.Link[p] = q, !.Prev[q] = p]
    BY <2>1 DEF ListUnlinkNode
  <2> HIDE DEF p, q
  <2>3. R \in ListType
    <3>1. ASSUME NEW Q \in ListType PROVE [Q EXCEPT !.Link[p] = q, !.Prev[q] = p] \in ListType
      BY <2>0, <2>1 DEF ListType
    <3> HIDE DEF R
    <3> QED BY <1>l, <2>2, <3>1
  <2>4. /\ R.Headp = L.Headp /\ R.Tailp = L.Tailp /\ R.Prev = [L.Prev EXCEPT ![q] = p]
        /\ R.Link = [L.Link EXCEPT ![p] = q] /\ R.Length = L.Length - 1
    BY <2>2 DEF ListType
  <2> HIDE DEF R
  <2>5. /\ \A m \in Nodes : R.Link[m] = IF m = p THEN q ELSE L.Link[m]
        /\ \A m \in Nodes : R.Prev[m] = IF m = q THEN p ELSE L.Prev[m]
    BY <2>4 DEF ListType
  <2>6. Elsewhere(L, R, Range(s))
    BY <1>0, <2>0, <2>1, <2>5 DEF Elsewhere
  <2>7. ASSUME NEW j \in 1..Len(s)
        PROVE  /\ j # i-1 => R.Link[s[j]] = L.Link[s[j]]
               /\ j # i+1 => R.Prev[s[j]] = L.Prev[s[j]]
    BY <1>0, <2>0, <2>1, <2>5
  <2>8. R.Link[s[i-1]] = s[i+1] /\ R.Prev[s[i+1]] = s[i-1]
    BY <2>0, <2>1, <2>5
  <2>9. Cut(L, R, s, i)
    BY <1>6, <2>0, <2>4, <2>7, <2>8, Zenon DEF Cut
  <2>10. Ties(R, RemoveAt(s, i))
    BY <2>9, RemoveLinks
  <2> QED BY <2>3, <2>6, <2>10, Zenon DEF Removed, R
<1> QED BY <1>3, <1>4, <1>5, <1>6


---------------------------------------------------------------------------
(* The nodes, and the order of the keys, after a step of the sequence      *)

LEMMA InsertedNodes ==
    ASSUME NEW s \in Seq(Nodes), NEW i \in 1..Len(s)+1, NEW n \in Nodes
    PROVE  Range(InsertAt(s, i, n)) = Range(s) \cup {n}
<1> DEFINE t == InsertAt(s, i, n)
<1>0. /\ t \in Seq(Nodes) /\ Len(t) = Len(s) + 1
      /\ \A j \in 1..Len(s)+1 : t[j] = IF j < i THEN s[j] ELSE IF j = i THEN n ELSE s[j-1]
  BY InsertAtFacts
<1> HIDE DEF t
<1>n. Len(s) \in Nat
  BY LenProperties
<1>1. DOMAIN s = 1..Len(s) /\ DOMAIN t = 1..Len(s)+1
  BY <1>0, LenProperties
<1>2. ASSUME NEW j \in 1..Len(s)+1 PROVE t[j] \in Range(s) \cup {n}
  <2>1. CASE j < i
    <3>1. j \in DOMAIN s /\ t[j] = s[j]
      BY <1>0, <1>1, <1>n, <2>1
    <3> QED BY <3>1 DEF Range
  <2>2. CASE j = i
    BY <1>0, <2>2
  <2>3. CASE j > i
    <3>1. j-1 \in DOMAIN s /\ t[j] = s[j-1]
      BY <1>0, <1>1, <1>n, <2>3
    <3> QED BY <3>1 DEF Range
  <2>4. j < i \/ j = i \/ j > i
    BY <1>n
  <2> QED BY <2>1, <2>2, <2>3, <2>4, Zenon
<1>3. ASSUME NEW j \in 1..Len(s) PROVE s[j] \in Range(t)
  <2>1. CASE j < i
    <3>1. j \in DOMAIN t /\ t[j] = s[j]
      BY <1>0, <1>1, <1>n, <2>1
    <3> QED BY <3>1 DEF Range
  <2>2. CASE j >= i
    <3>1. j+1 \in DOMAIN t /\ ~(j+1 < i) /\ j+1 # i /\ (j+1)-1 = j
      BY <1>1, <1>n, <2>2
    <3>2. t[j+1] = s[(j+1)-1]
      BY <1>0, <1>1, <3>1
    <3> QED BY <3>1, <3>2 DEF Range
  <2>3. j < i \/ j >= i
    BY <1>n
  <2> QED BY <2>1, <2>2, <2>3, Zenon
<1>4. n \in Range(t)
  <2>1. i \in DOMAIN t /\ t[i] = n
    BY <1>0, <1>1
  <2> QED BY <2>1 DEF Range
<1>5. Range(t) \subseteq Range(s) \cup {n}
  BY <1>1, <1>2 DEF Range
<1>6. Range(s) \subseteq Range(t)
  BY <1>1, <1>3 DEF Range
<1> QED BY <1>4, <1>5, <1>6 DEF t

LEMMA RemovedNodes ==
    ASSUME NEW s \in Seq(Nodes), NEW i \in 1..Len(s),
           \A j, k \in 1..Len(s) : s[j] = s[k] => j = k
    PROVE  /\ Range(RemoveAt(s, i)) \subseteq Range(s)
           /\ s[i] \notin Range(RemoveAt(s, i))
<1> DEFINE t == RemoveAt(s, i)
<1>0. /\ t \in Seq(Nodes) /\ Len(t) = Len(s) - 1
      /\ \A j \in 1..Len(s)-1 : t[j] = IF j < i THEN s[j] ELSE s[j+1]
  BY RemoveAtFacts
<1> HIDE DEF t
<1>n. Len(s) \in Nat
  BY LenProperties
<1>1. DOMAIN s = 1..Len(s) /\ DOMAIN t = 1..Len(s)-1
  BY <1>0, LenProperties
<1>2. ASSUME NEW j \in 1..Len(s)-1 PROVE t[j] \in Range(s) /\ t[j] # s[i]
  <2>1. CASE j < i
    <3>1. j \in 1..Len(s) /\ t[j] = s[j] /\ j # i
      BY <1>0, <1>n, <2>1
    <3> QED BY <1>1, <3>1 DEF Range
  <2>2. CASE j >= i
    <3>1. j+1 \in 1..Len(s) /\ t[j] = s[j+1] /\ j+1 # i
      BY <1>0, <1>n, <2>2
    <3> QED BY <1>1, <3>1 DEF Range
  <2>3. j < i \/ j >= i
    BY <1>n
  <2> QED BY <2>1, <2>2, <2>3, Zenon
<1> QED BY <1>1, <1>2 DEF Range, t

LEMMA InsertedOrder ==
    ASSUME NEW s \in Seq(Nodes), NEW i \in 1..Len(s)+1, NEW n \in Nodes, KeysInOrder(s),
           \A j \in 1..i-1 : Key[s[j]] < Key[n],
           \A j \in i..Len(s) : Key[n] <= Key[s[j]]
    PROVE  KeysInOrder(InsertAt(s, i, n))
<1> DEFINE t == InsertAt(s, i, n)
           K(j) == Key[s[j]]
           v == Key[n]
<1>0. /\ t \in Seq(Nodes) /\ Len(t) = Len(s) + 1
      /\ \A j \in 1..Len(s)+1 : t[j] = IF j < i THEN s[j] ELSE IF j = i THEN n ELSE s[j-1]
  BY InsertAtFacts
<1> HIDE DEF t
<1>n. Len(s) \in Nat
  BY LenProperties
<1>1. DOMAIN s = 1..Len(s) /\ DOMAIN t = 1..Len(s)+1
  BY <1>0, LenProperties
<1>2. v \in Int /\ \A j \in 1..Len(s) : K(j) \in Int
  BY ElementOfSeq, NodesAndKeys
<1>3. \A j \in 1..Len(s)+1 : /\ j < i => Key[t[j]] = K(j)
                             /\ j = i => Key[t[j]] = v
                             /\ j > i => Key[t[j]] = K(j-1)
  BY <1>0
<1>4. /\ \A j, k \in 1..Len(s) : j < k => K(j) <= K(k)
      /\ \A j \in 1..i-1 : K(j) < v
      /\ \A j \in i..Len(s) : v <= K(j)
  BY <1>1 DEF KeysInOrder
<1> HIDE DEF K, v
<1>5. ASSUME NEW j \in 1..Len(s)+1, NEW k \in 1..Len(s)+1, j < k
      PROVE  Key[t[j]] <= Key[t[k]]
  <2>1. CASE k < i
    <3>1. j < i /\ j \in 1..Len(s) /\ k \in 1..Len(s)
      BY <1>n, <1>5, <2>1
    <3> QED BY <1>3, <1>4, <1>5, <2>1, <3>1
  <2>2. CASE k = i
    <3>1. j < i /\ j \in 1..i-1 /\ j \in 1..Len(s)
      BY <1>n, <1>5, <2>2
    <3>2. K(j) < v /\ K(j) \in Int /\ v \in Int
      BY <1>2, <1>4, <3>1
    <3>3. Key[t[j]] = K(j) /\ Key[t[k]] = v
      BY <1>3, <2>2, <3>1
    <3> QED BY <3>2, <3>3
  <2>3. CASE k > i
    <3>0. k-1 \in 1..Len(s) /\ Key[t[k]] = K(k-1) /\ k-1 \in i..Len(s)
      BY <1>n, <1>3, <2>3
    <3>1. CASE j < i
      <4>1. j \in 1..Len(s) /\ j < k-1 /\ Key[t[j]] = K(j)
        BY <1>n, <1>3, <2>3, <3>1
      <4> QED BY <1>4, <3>0, <4>1
    <3>2. CASE j = i
      BY <1>3, <1>4, <3>0, <3>2
    <3>3. CASE j > i
      <4>1. j-1 \in 1..Len(s) /\ j-1 < k-1 /\ Key[t[j]] = K(j-1)
        BY <1>n, <1>3, <1>5, <3>3
      <4> QED BY <1>4, <3>0, <4>1
    <3>4. j < i \/ j = i \/ j > i
      BY <1>n
    <3> QED BY <3>1, <3>2, <3>3, <3>4, Zenon
  <2>4. k < i \/ k = i \/ k > i
    BY <1>n
  <2> QED BY <2>1, <2>2, <2>3, <2>4, Zenon
<1> QED BY <1>1, <1>5 DEF KeysInOrder, t

LEMMA RemovedOrder ==
    ASSUME NEW s \in Seq(Nodes), NEW i \in 1..Len(s), KeysInOrder(s)
    PROVE  KeysInOrder(RemoveAt(s, i))
<1> DEFINE t == RemoveAt(s, i)
<1>0. /\ t \in Seq(Nodes) /\ Len(t) = Len(s) - 1
      /\ \A j \in 1..Len(s)-1 : t[j] = IF j < i THEN s[j] ELSE s[j+1]
  BY RemoveAtFacts
<1> HIDE DEF t
<1>n. Len(s) \in Nat
  BY LenProperties
<1>1. DOMAIN s = 1..Len(s) /\ DOMAIN t = 1..Len(s)-1
  BY <1>0, LenProperties
<1>2. ASSUME NEW j \in 1..Len(s)-1
      PROVE  \E x \in 1..Len(s) : t[j] = s[x] /\ IF j < i THEN x = j ELSE x = j+1
  <2>1. j \in 1..Len(s) /\ j+1 \in 1..Len(s)
    BY <1>n
  <2> QED BY <1>0, <2>1
<1>3. ASSUME NEW j \in 1..Len(s)-1, NEW k \in 1..Len(s)-1, j < k
      PROVE  Key[t[j]] <= Key[t[k]]
  <2>1. PICK x \in 1..Len(s) : t[j] = s[x] /\ IF j < i THEN x = j ELSE x = j+1
    BY <1>2
  <2>2. PICK y \in 1..Len(s) : t[k] = s[y] /\ IF k < i THEN y = k ELSE y = k+1
    BY <1>2
  <2>3. x < y
    BY <1>n, <1>3, <2>1, <2>2
  <2> QED BY <1>1, <2>1, <2>2, <2>3 DEF KeysInOrder
<1> QED BY <1>1, <1>3 DEF KeysInOrder, t

(* Only the pointers of its nodes tie a list. *)
Untouched(L, R, s) ==
    /\ R.Headp = L.Headp /\ R.Tailp = L.Tailp /\ R.Length = L.Length
    /\ \A m \in Range(s) : R.Link[m] = L.Link[m] /\ R.Prev[m] = L.Prev[m]

LEMMA StaysTied ==
    ASSUME NEW L, NEW R, NEW s \in Seq(Nodes), Ties(L, s), Untouched(L, R, s)
    PROVE  Ties(R, s)
<1> USE DEF Untouched
<1>1. Len(s) \in Nat /\ \A j \in 1..Len(s) : s[j] \in Range(s)
  BY LenProperties DEF Range
<1>2. \A j \in 1..Len(s) : R.Link[s[j]] = L.Link[s[j]] /\ R.Prev[s[j]] = L.Prev[s[j]]
  BY <1>1
<1>3. Len(s) > 0 => 1 \in 1..Len(s) /\ Len(s) \in 1..Len(s)
  BY <1>1
<1>4. \A j \in 1..Len(s)-1 : j \in 1..Len(s) /\ j+1 \in 1..Len(s)
  BY <1>1
<1> QED BY <1>2, <1>3, <1>4, Zenon DEF Ties

---------------------------------------------------------------------------
(* The spinlock                                                            *)

SpinInv == LockTypeOK /\ LockInv

LEMMA LockStart == LockInit => SpinInv
  BY DEF LockInit, SpinInv, LockTypeOK, LockInv, Inside

(* The step of one CPU: it enters only when the exchange has read a 0, so    *)
(* when nobody was inside.                                                   *)
LEMMA LockStep == SpinInv /\ [LockNext]_lockvars => SpinInv'
<1> SUFFICES ASSUME SpinInv, [LockNext]_lockvars PROVE SpinInv'
  OBVIOUS
<1> USE DEF SpinInv, LockTypeOK, LockInv, Inside
<1>1. ASSUME NEW c \in CPUs, Acquire(c) PROVE SpinInv'
  BY <1>1 DEF Acquire
<1>2. ASSUME NEW c \in CPUs, Xchg(c) PROVE SpinInv'
  <2>1. CASE lock = 0
    BY <1>2, <2>1 DEF Xchg
  <2>2. CASE lock = 1
    BY <1>2, <2>2 DEF Xchg
  <2> QED BY <2>1, <2>2
<1>3. ASSUME NEW c \in CPUs, Loop(c) PROVE SpinInv'
  BY <1>3 DEF Loop
<1>4. ASSUME NEW c \in CPUs, TryAcquire(c) PROVE SpinInv'
  <2>1. CASE lock = 0
    BY <1>4, <2>1 DEF TryAcquire
  <2>2. CASE lock = 1
    BY <1>4, <2>2 DEF TryAcquire
  <2> QED BY <2>1, <2>2
<1>5. ASSUME NEW c \in CPUs, Release(c) PROVE SpinInv'
  BY <1>5 DEF Release
<1>6. CASE UNCHANGED lockvars
  BY <1>6 DEF lockvars
<1> QED
  BY <1>1, <1>2, <1>3, <1>4, <1>5, <1>6 DEF LockNext

(* No two CPUs are between acquire and release at the same time, and the     *)
(* lock word says whether one is.                                            *)
THEOREM SpinlockExcludes == LockSpec => [](LockInv /\ MutualExclusion)
<1>1. SpinInv => LockInv /\ MutualExclusion
  BY DEF SpinInv, LockInv, MutualExclusion, Inside
<1> QED
  BY <1>1, LockStart, LockStep, PTL DEF LockSpec

(* Every step of the spinlock takes the mutex, drops it or is invisible.     *)
THEOREM SpinlockIsMutex == LockSpec => ImplementsMutex
<1> DEFINE own == IF Inside = {} THEN Nobody ELSE CHOOSE c \in Inside : TRUE
<1>1. LockInit => M!Init
  BY DEF LockInit, M!Init, Inside
<1>2. ASSUME SpinInv, NEW c \in CPUs, at[c] = "in" PROVE own = c
  <2>1. Inside = {c}
    BY <1>2 DEF SpinInv, LockInv, Inside
  <2> QED BY <2>1
<1>3. ASSUME SpinInv, SpinInv', [LockNext]_lockvars PROVE [M!Next]_own
  <2>1. ASSUME NEW c \in CPUs, at[c] # "in", at' = [at EXCEPT ![c] = "in"], lock = 0
        PROVE  M!Next
    <3>1. own = Nobody
      BY <1>3, <2>1 DEF SpinInv, LockInv
    <3>2. Inside' = {c}
      BY <1>3, <2>1 DEF SpinInv, LockTypeOK, LockInv, Inside
    <3>3. own' = c
      BY <3>2
    <3> HIDE DEF own
    <3> QED BY <3>1, <3>3 DEF M!Next, M!Take, own
  <2>2. ASSUME NEW c \in CPUs, Release(c) PROVE M!Next
    <3>1. own = c
      BY <1>2, <1>3, <2>2 DEF Release
    <3>2. Inside' = {}
      BY <1>3, <2>2 DEF SpinInv, LockTypeOK, LockInv, Inside, Release
    <3>3. own' = Nobody
      BY <3>2
    <3> HIDE DEF own
    <3> QED BY <3>1, <3>3 DEF M!Next, M!Drop, own
  <2>3. ASSUME NEW c \in CPUs, at[c] # "in", NEW p \in {"out", "xchg", "loop"},
               at' = [at EXCEPT ![c] = p]
        PROVE  UNCHANGED own
    <3>1. Inside' = Inside
      BY <1>3, <2>3 DEF SpinInv, LockTypeOK, Inside
    <3> QED BY <3>1
  <2>4. CASE UNCHANGED lockvars
    BY <2>4 DEF lockvars, Inside
  <2>5. ASSUME NEW c \in CPUs, Acquire(c) \/ Loop(c) PROVE UNCHANGED own
    BY <2>3, <2>5 DEF Acquire, Loop
  <2>6. ASSUME NEW c \in CPUs, Xchg(c) \/ TryAcquire(c) PROVE [M!Next]_own
    <3>1. CASE lock = 0
      BY <2>1, <2>6, <3>1 DEF Xchg, TryAcquire
    <3>2. CASE lock = 1
      BY <2>3, <2>6, <3>2 DEF Xchg, TryAcquire
    <3> QED BY <1>3, <3>1, <3>2 DEF SpinInv, LockTypeOK
  <2> QED BY <1>3, <2>2, <2>4, <2>5, <2>6 DEF LockNext
<1> QED
  BY <1>1, <1>3, LockStart, LockStep, PTL DEF LockSpec, ImplementsMutex, M!Spec
---------------------------------------------------------------------------
(* The invariant                                                           *)

Adding == {"append", "insert"}
Apart  == Adding \cup {"clear", "destroy"}
Around == {"walk", "found", "unlink", "read"}

(* What the operation o of the CPU c, which is at p of the spinlock, relies  *)
(* on while others go on with the list L, linked as s, and with the memory A:*)
(* a node that is being added or has been taken out is c's own and not in    *)
(* the list, a node that is looked at is in it.                              *)
Fits(o, p, L, A, s, c) ==
    /\ p # "out" <=> o.f \in Locked
    /\ o.f \in Apart => o.n \in A /\ o.n \notin Range(s)
    /\ o.f \in Adding => L.Link[o.n] = None /\ L.Prev[o.n] = None
    /\ o.f \in Around => o.n \in Range(s)
    /\ o.f = "pop" => s # <<>>
    /\ o.f \notin Adding \cup {"idle"} => c \in Consumers

OpsInv(s) ==
    /\ \A c \in CPUs : Fits(op[c], at[c], list, alive, s, c)
    /\ \A c, d \in CPUs :
          op[c].f \in Apart /\ op[d].f \in Apart /\ op[c].n = op[d].n => c = d

Shape(s) ==
    /\ s \in Seq(Nodes) /\ list \in ListType /\ Ties(list, s)
    /\ Range(s) \subseteq alive
    /\ sorted => KeysInOrder(s)

Types ==
    /\ sorted \in BOOLEAN /\ fault = FALSE /\ alive \subseteq Nodes
    /\ op \in [CPUs -> [f: Ops, n: Nodes \cup {None}, k: Keys \cup {None}]]

ListInv ==
    /\ Types /\ SpinInv
    /\ \E s \in Seq(Nodes) : Shape(s) /\ OpsInv(s)

OpType == [f: Ops, n: Nodes \cup {None}, k: Keys \cup {None}]

(* What a step of c does to the operations of the others and to its own.     *)
OthersFit(c, s, t, L, R, B) ==
    \A d \in CPUs \ {c} :
        /\ op[d].f \in Apart => op[d].n \in B /\ op[d].n \notin Range(t)
        /\ op[d].f \in Adding => /\ R.Link[op[d].n] = L.Link[op[d].n]
                                 /\ R.Prev[op[d].n] = L.Prev[op[d].n]
        /\ op[d].f \in Around => Range(s) \subseteq Range(t)
        /\ op[d].f = "pop" /\ s # <<>> => t # <<>>

LEMMA OpsStep ==
    ASSUME op \in [CPUs -> OpType], NEW s, NEW t, OpsInv(s), NEW c \in CPUs, NEW o,
           op' = [op EXCEPT ![c] = o],
           \A d \in CPUs \ {c} : at'[d] = at[d],
           Fits(o, at'[c], list', alive', t, c),
           \/ o.f \notin Apart
           \/ op[c].f \in Apart /\ op[c].n = o.n
           \/ o.n \notin alive \/ o.n \in Range(s),
           OthersFit(c, s, t, list, list', alive')
    PROVE  OpsInv(t)'
<1>1. op'[c] = o /\ \A d \in CPUs \ {c} : op'[d] = op[d]
  OBVIOUS
<1>2. ASSUME NEW d \in CPUs PROVE Fits(op'[d], at'[d], list', alive', t, d)
  <2>1. CASE d = c
    BY <1>1, <2>1
  <2>2. CASE d # c
    <3>1. op'[d] = op[d] /\ at'[d] = at[d] /\ d \in CPUs \ {c}
      BY <1>1, <2>2
    <3>2. Fits(op[d], at[d], list, alive, s, d)
      BY DEF OpsInv
    <3>3. /\ op[d].f \in Apart => op[d].n \in alive' /\ op[d].n \notin Range(t)
          /\ op[d].f \in Adding => /\ list'.Link[op[d].n] = list.Link[op[d].n]
                                   /\ list'.Prev[op[d].n] = list.Prev[op[d].n]
          /\ op[d].f \in Around => Range(s) \subseteq Range(t)
          /\ op[d].f = "pop" /\ s # <<>> => t # <<>>
      BY <3>1 DEF OthersFit
    <3>4. Fits(op[d], at[d], list', alive', t, d)
      BY <3>2, <3>3 DEF Fits
    <3> QED BY <3>1, <3>4
  <2> QED BY <2>1, <2>2
<1>3. ASSUME NEW d \in CPUs, NEW e \in CPUs,
             op'[d].f \in Apart, op'[e].f \in Apart, op'[d].n = op'[e].n, d # e
      PROVE  FALSE
  <2>1. ASSUME NEW x \in CPUs \ {c}, op[x].f \in Apart, o.f \in Apart, op[x].n = o.n PROVE FALSE
    <3>1. op[x].n \in alive /\ op[x].n \notin Range(s)
      BY <2>1 DEF OpsInv, Fits
    <3>2. op[c].f \in Apart /\ op[c].n = op[x].n
      BY <2>1, <3>1
    <3> QED BY <2>1, <3>2 DEF OpsInv
  <2>2. CASE d = c
    BY <1>1, <1>3, <2>1, <2>2
  <2>3. CASE e = c
    BY <1>1, <1>3, <2>1, <2>3
  <2>4. CASE d # c /\ e # c
    <3>1. op'[d] = op[d] /\ op'[e] = op[e]
      BY <1>1, <2>4
    <3> QED BY <1>3, <3>1 DEF OpsInv
  <2> QED BY <2>2, <2>3, <2>4
<1> QED BY <1>2, <1>3, Zenon DEF OpsInv


---------------------------------------------------------------------------
(* One step                                                                *)

(* One CPU removes. *)
OneConsumer == \A c, d \in Consumers : c = d

(* What Sequence allows. *)
Evolves(s, t) ==
    \/ t = s
    \/ \E n \in Nodes \ Range(s), i \in 1..Len(s)+1 : t = InsertAt(s, i, n) /\ Place(s, i, n)
    \/ \E i \in 1..Len(s) : t = RemoveAt(s, i)

(* A step from a list that is linked as s. *)
StepTo(s) ==
    /\ Types' /\ [LockNext]_lockvars /\ sorted' = sorted
    /\ \E t \in Seq(Nodes) : Shape(t)' /\ OpsInv(t)' /\ Evolves(s, t)

(* A step of c that leaves the list linked as t. *)
LEMMA MoveStep ==
    ASSUME Types, NEW s, OpsInv(s), NEW c \in CPUs, NEW t \in Seq(Nodes), NEW o \in OpType,
           op' = [op EXCEPT ![c] = o], UNCHANGED <<sorted, fault>>, alive' \subseteq Nodes,
           [LockNext]_lockvars, \A d \in CPUs \ {c} : at'[d] = at[d],
           list' \in ListType, Ties(list', t), Range(t) \subseteq alive',
           sorted => KeysInOrder(t), Evolves(s, t),
           Fits(o, at'[c], list', alive', t, c),
           \/ o.f \notin Apart
           \/ op[c].f \in Apart /\ op[c].n = o.n
           \/ o.n \notin alive \/ o.n \in Range(s),
           OthersFit(c, s, t, list, list', alive')
    PROVE  StepTo(s)
<1>1. op \in [CPUs -> OpType]
  BY Zenon DEF Types, OpType
<1>2. OpsInv(t)'
  BY <1>1, OpsStep
<1>3. op' \in [CPUs -> OpType]
  BY <1>1
<1>4. Types'
  BY <1>3, Zenon DEF Types, OpType
<1>5. Shape(t)'
  BY Zenon DEF Shape
<1> QED BY <1>2, <1>4, <1>5, Zenon DEF StepTo

(* A step of c that leaves the list alone. *)
LEMMA OpStep ==
    ASSUME Types, NEW s \in Seq(Nodes), Shape(s), OpsInv(s), NEW c \in CPUs, NEW o \in OpType,
           op' = [op EXCEPT ![c] = o], UNCHANGED <<sorted, list, alive, fault>>,
           [LockNext]_lockvars, \A d \in CPUs \ {c} : at'[d] = at[d],
           Fits(o, at'[c], list, alive, s, c),
           o.f \notin Apart \/ (op[c].f \in Apart /\ op[c].n = o.n)
    PROVE  StepTo(s)
<1>1. OthersFit(c, s, s, list, list', alive')
  BY DEF OpsInv, Fits, OthersFit
<1>2. Evolves(s, s)
  BY DEF Evolves
<1>3. list' \in ListType /\ Ties(list', s) /\ Range(s) \subseteq alive' /\ (sorted => KeysInOrder(s))
  BY Zenon DEF Shape
<1>4. alive' \subseteq Nodes /\ Fits(o, at'[c], list', alive', s, c)
  BY Zenon DEF Types
<1> QED BY <1>1, <1>2, <1>3, <1>4, MoveStep

(* The steps of the spinlock. *)
LEMMA LockMoves ==
    ASSUME LockTypeOK, NEW c \in CPUs
    PROVE  /\ Acquire(c) => /\ at[c] = "out" /\ at'[c] = "xchg" /\ LockNext
                            /\ \A d \in CPUs \ {c} : at'[d] = at[d]
           /\ Release(c) => /\ at[c] = "in" /\ at'[c] = "out" /\ LockNext
                            /\ \A d \in CPUs \ {c} : at'[d] = at[d]
           /\ Xchg(c) \/ Loop(c) => /\ at[c] # "out" /\ at'[c] # "out" /\ LockNext
                                    /\ \A d \in CPUs \ {c} : at'[d] = at[d]
           /\ UNCHANGED lockvars => /\ at' = at /\ [LockNext]_lockvars
<1>1. Acquire(c) \/ Release(c) \/ Xchg(c) \/ Loop(c) => LockNext
  BY DEF LockNext
<1>2. UNCHANGED lockvars => /\ at' = at /\ [LockNext]_lockvars
  BY DEF lockvars
<1>3. Acquire(c) => at[c] = "out" /\ at'[c] = "xchg" /\ \A d \in CPUs \ {c} : at'[d] = at[d]
  BY DEF LockTypeOK, Acquire
<1>4. Release(c) => at[c] = "in" /\ at'[c] = "out" /\ \A d \in CPUs \ {c} : at'[d] = at[d]
  BY DEF LockTypeOK, Release
<1>5. Xchg(c) \/ Loop(c) =>
         at[c] # "out" /\ at'[c] # "out" /\ \A d \in CPUs \ {c} : at'[d] = at[d]
  BY DEF LockTypeOK, Xchg, Loop
<1> QED BY <1>1, <1>2, <1>3, <1>4, <1>5

(* The nodes and the pointers of the list. *)
LEMMA ShapeFacts ==
    ASSUME NEW s \in Seq(Nodes), Shape(s)
    PROVE  /\ list.Headp = None <=> s = <<>>
           /\ list.Headp # None => list.Headp \in Range(s)
           /\ \A n \in Range(s) : list.Link[n] = None \/ list.Link[n] \in Range(s)
           /\ Range(s) \subseteq Nodes /\ Range(s) \subseteq alive
<1>1. /\ Len(s) \in Nat /\ DOMAIN s = 1..Len(s) /\ (s = <<>> <=> Len(s) = 0)
      /\ \A i \in 1..Len(s) : s[i] \in Nodes /\ s[i] # None /\ s[i] \in Range(s)
  BY LenProperties, EmptySeq, ElementOfSeq, NodesAndKeys DEF Range
<1>2. Len(s) = 0 => list.Headp = None
  BY DEF Shape, Ties
<1>3. Len(s) # 0 => list.Headp # None /\ list.Headp \in Range(s)
  BY <1>1 DEF Shape, Ties
<1>4. ASSUME NEW n \in Range(s) PROVE list.Link[n] = None \/ list.Link[n] \in Range(s)
  <2>1. PICK i \in 1..Len(s) : n = s[i]
    BY <1>1 DEF Range
  <2>2. CASE i = Len(s)
    BY <1>1, <2>1, <2>2 DEF Shape, Ties
  <2>3. CASE i # Len(s)
    <3>1. i \in 1..Len(s)-1 /\ i+1 \in 1..Len(s)
      <4>1. Len(s) \in Nat
        BY LenProperties
      <4> QED BY <2>3, <4>1
    <3> QED BY <1>1, <2>1, <3>1 DEF Shape, Ties
  <2> QED BY <2>2, <2>3
<1>5. Range(s) \subseteq Nodes
  BY <1>1 DEF Range
<1> QED BY <1>1, <1>2, <1>3, <1>4, <1>5, Zenon DEF Shape


(* Where every step starts. *)
Start(s, c) ==
    /\ OneConsumer /\ Types /\ SpinInv /\ s \in Seq(Nodes) /\ Shape(s) /\ OpsInv(s)
    /\ c \in CPUs

LEMMA StartFacts ==
    ASSUME NEW s, NEW c, Start(s, c)
    PROVE  /\ Types /\ s \in Seq(Nodes) /\ Shape(s) /\ OpsInv(s) /\ c \in CPUs
           /\ Fits(op[c], at[c], list, alive, s, c) /\ LockTypeOK
           /\ op[c] \in OpType
  BY DEF Start, OpsInv, Types, OpType, SpinInv

LEMMA CallPopStep ==
    ASSUME NEW s, NEW c, Start(s, c), c \in Consumers, CallPop(c)
    PROVE  StepTo(s)
<1> DEFINE o == [f |-> "pop", n |-> None, k |-> None]
<1>1. op' = [op EXCEPT ![c] = o] /\ UNCHANGED <<sorted, list, alive, fault>> /\ Acquire(c)
  BY DEF CallPop, Goes
<1>2. o \in OpType /\ s # <<>>
  BY StartFacts, ShapeFacts DEF OpType, Ops, Locked, CallPop
<1>3. Fits(o, at'[c], list, alive, s, c)
  BY <1>1, <1>2, StartFacts, LockMoves DEF Fits, Apart, Adding, Around, Locked
<1>4. o.f \notin Apart
  BY DEF Apart, Adding
<1> HIDE DEF o
<1> QED BY <1>1, <1>2, <1>3, <1>4, StartFacts, LockMoves, OpStep

LEMMA CallByKeyStep ==
    ASSUME NEW s, NEW c, Start(s, c), c \in Consumers,
           NEW f \in {"find", "lookup"}, NEW k \in Keys, CallByKey(c, f, k)
    PROVE  StepTo(s)
<1> DEFINE o == [f |-> f, n |-> None, k |-> k]
<1>1. op' = [op EXCEPT ![c] = o] /\ UNCHANGED <<sorted, list, alive, fault>> /\ Acquire(c)
  BY DEF CallByKey, Goes
<1>2. o \in OpType
  BY DEF OpType, Ops, Locked
<1>3. Fits(o, at'[c], list, alive, s, c)
  BY <1>1, <1>2, StartFacts, LockMoves DEF Fits, Apart, Adding, Around, Locked
<1>4. o.f \notin Apart
  BY DEF Apart, Adding
<1> HIDE DEF o
<1> QED BY <1>1, <1>2, <1>3, <1>4, StartFacts, LockMoves, OpStep

LEMMA ListBeginStep ==
    ASSUME NEW s, NEW c, Start(s, c), c \in Consumers, ListBegin(c)
    PROVE  StepTo(s)
<1> DEFINE o == [f |-> "walk", n |-> list.Headp, k |-> None]
<1>1. op' = [op EXCEPT ![c] = o] /\ UNCHANGED <<sorted, list, alive, fault>> /\ UNCHANGED lockvars
  BY DEF ListBegin, Goes
<1>2. list.Headp \in Range(s) /\ list.Headp \in Nodes
  BY StartFacts, ShapeFacts DEF ListBegin
<1>3. o \in OpType
  BY <1>2 DEF OpType, Ops, Locked
<1>4. op[c].f = "idle"
  BY DEF ListBegin, Idle
<1>5. Fits(o, at'[c], list, alive, s, c)
  BY <1>1, <1>2, <1>4, StartFacts, LockMoves DEF Fits, Apart, Adding, Around, Locked
<1>6. o.f \notin Apart
  BY DEF Apart, Adding
<1> HIDE DEF o
<1> QED BY <1>1, <1>3, <1>5, <1>6, StartFacts, LockMoves, OpStep

(* The loop stays inside the list. *)
LEMMA ListNextStep ==
    ASSUME NEW s, NEW c, Start(s, c), ListNext(c)
    PROVE  StepTo(s)
<1> DEFINE n == op[c].n
           next == list.Link[n]
           o == IF next = None THEN Idle ELSE [f |-> "walk", n |-> next, k |-> None]
<1>1. op[c].f = "walk" /\ n \in Range(s) /\ n \in alive
  BY StartFacts, ShapeFacts DEF ListNext, Fits, Around
<1>2. /\ op' = [op EXCEPT ![c] = o] /\ UNCHANGED <<sorted, list, alive, fault>>
      /\ UNCHANGED lockvars
  BY <1>1 DEF ListNext, Goes
<1>3. next = None \/ (next \in Range(s) /\ next \in Nodes)
  BY <1>1, StartFacts, ShapeFacts
<1> HIDE DEF next, n
<1>4. o \in OpType
  BY <1>3 DEF OpType, Ops, Locked, Idle
<1>5. Fits(o, at'[c], list, alive, s, c)
  BY <1>1, <1>2, <1>3, StartFacts, LockMoves DEF Fits, Apart, Adding, Around, Locked, Idle
<1>6. o.f \notin Apart
  BY DEF Apart, Adding, Idle
<1> HIDE DEF o
<1> QED BY <1>2, <1>4, <1>5, <1>6, StartFacts, LockMoves, OpStep

LEMMA CallUnlinkStep ==
    ASSUME NEW s, NEW c, Start(s, c), CallUnlink(c)
    PROVE  StepTo(s)
<1> DEFINE o == [f |-> "unlink", n |-> op[c].n, k |-> op[c].k]
<1>1. op[c].f \in {"walk", "found"} /\ op[c].n \in Range(s) /\ c \in Consumers
  BY StartFacts DEF CallUnlink, Fits, Around, Adding
<1>2. list.Headp # None
  <2>1. s # <<>>
    BY <1>1, EmptySeq DEF Range
  <2> QED BY <2>1, StartFacts, ShapeFacts
<1>3. op' = [op EXCEPT ![c] = o] /\ UNCHANGED <<sorted, list, alive, fault>> /\ Acquire(c)
  BY <1>2 DEF CallUnlink, Goes
<1>4. o \in OpType
  BY StartFacts DEF OpType, Ops, Locked
<1>5. Fits(o, at'[c], list, alive, s, c)
  BY <1>1, <1>3, StartFacts, LockMoves DEF Fits, Apart, Adding, Around, Locked
<1>6. o.f \notin Apart
  BY DEF Apart, Adding
<1> HIDE DEF o
<1> QED BY <1>3, <1>4, <1>5, <1>6, StartFacts, LockMoves, OpStep

LEMMA SpinStep ==
    ASSUME NEW s, NEW c, Start(s, c), Spin(c)
    PROVE  StepTo(s)
<1> DEFINE o == op[c]
<1>1. op' = [op EXCEPT ![c] = o] /\ UNCHANGED <<sorted, list, alive, fault>>
  BY StartFacts DEF Spin, Types
<1>2. o \in OpType
  BY StartFacts
<1>3. Fits(o, at'[c], list, alive, s, c)
  BY StartFacts, LockMoves DEF Spin, Fits
<1>4. \A d \in CPUs \ {c} : at'[d] = at[d]
  BY StartFacts, LockMoves DEF Spin
<1>5. LockNext
  BY StartFacts, LockMoves DEF Spin
<1>6. o.f \notin Apart \/ (op[c].f \in Apart /\ op[c].n = o.n)
  BY Zenon
<1> HIDE DEF o
<1> QED BY <1>1, <1>2, <1>3, <1>4, <1>5, <1>6, StartFacts, OpStep

(* A lookup finds nothing, or a node of the list. *)
LEMMA LookupStep ==
    ASSUME NEW s, NEW c, Start(s, c), Lookup(c)
    PROVE  StepTo(s)
<1> DEFINE n == FirstNode(list, LAMBDA x : Matches(x, op[c].k))
           o == IF n = None THEN Idle
                ELSE [f |-> IF op[c].f = "find" THEN "found" ELSE "read", n |-> n, k |-> op[c].k]
<1>1. n = None \/ n \in Range(s)
  <2> DEFINE found == {i \in 1..Len(s) : Key[s[i]] = op[c].k}
  <2>0. /\ s \in Seq(Nodes) /\ list \in ListType /\ Ties(list, s)
        /\ Len(s) \in Nat /\ DOMAIN s = 1..Len(s)
    BY StartFacts, LenProperties DEF Shape
  <2>1. Walk(list) = s
    BY <2>0, WalkAsTied
  <2>2. n = IF found = {} THEN None ELSE s[Min(found)]
    BY <2>0, <2>1, Zenon DEF FirstNode, Matches
  <2>3. found # {} => Min(found) \in found
    <3>1. found \in SUBSET Nat
      BY <2>0
    <3> HIDE DEF found
    <3> QED BY <3>1, LeastIsMin
  <2>4. \A i \in found : s[i] \in Range(s)
    BY <2>0 DEF Range
  <2> HIDE DEF found, n
  <2> QED BY <2>2, <2>3, <2>4, Zenon
<1>2. /\ op' = [op EXCEPT ![c] = o] /\ UNCHANGED <<sorted, list, alive, fault>> /\ Release(c)
      /\ op[c].f \in {"find", "lookup"}
  <2>1. /\ UNCHANGED <<sorted, list, alive, fault>> /\ Release(c)
        /\ op[c].f \in {"find", "lookup"}
    BY Zenon DEF Lookup
  <2>2. \E m \in {n} : IF m = None THEN op' = [op EXCEPT ![c] = Idle]
                       ELSE Goes(c, IF op[c].f = "find" THEN "found" ELSE "read", m, op[c].k)
    BY Zenon DEF Lookup
  <2> HIDE DEF n
  <2>3. op' = [op EXCEPT ![c] = o]
    BY <2>2 DEF Goes
  <2> QED BY <2>1, <2>3
<1> HIDE DEF n
<1>3. n = None \/ n \in Nodes
  BY <1>1, StartFacts, ShapeFacts
<1>4. c \in Consumers
  BY <1>2, StartFacts DEF Fits, Adding
<1>5. o \in OpType
  BY <1>3, StartFacts DEF OpType, Ops, Locked, Idle
<1>6. Fits(o, at'[c], list, alive, s, c)
  BY <1>1, <1>2, <1>4, StartFacts, LockMoves DEF Fits, Apart, Adding, Around, Locked, Idle
<1>7. o.f \notin Apart
  BY DEF Apart, Adding, Idle
<1> HIDE DEF o
<1> QED BY <1>2, <1>5, <1>6, <1>7, StartFacts, LockMoves, OpStep

LEMMA ReadStep ==
    ASSUME NEW s, NEW c, Start(s, c), Read(c)
    PROVE  StepTo(s)
<1>1. op[c].f = "read" /\ op[c].n \in Range(s) /\ op[c].n \in alive
  BY StartFacts, ShapeFacts DEF Read, Fits, Around
<1>2. /\ op' = [op EXCEPT ![c] = Idle] /\ UNCHANGED <<sorted, list, alive, fault>>
      /\ UNCHANGED lockvars
  BY <1>1 DEF Read
<1>3. Idle \in OpType /\ Idle.f = "idle"
  BY DEF OpType, Ops, Idle
<1>4. Fits(Idle, at'[c], list, alive, s, c)
  BY <1>1, <1>2, <1>3, StartFacts, LockMoves DEF Fits, Apart, Adding, Around, Locked
<1>5. Idle.f \notin Apart
  BY <1>3 DEF Apart, Adding
<1> QED BY <1>2, <1>3, <1>4, <1>5, StartFacts, LockMoves, OpStep


(* The pointers of a node that is not in the list can be cleared. *)
Cleared(L, n) == [L EXCEPT !.Link[n] = None, !.Prev[n] = None]

LEMMA ClearedNode ==
    ASSUME NEW L \in ListType, NEW s \in Seq(Nodes), Ties(L, s), NEW n \in Nodes, n \notin Range(s),
           NEW R, R = Cleared(L, n)
    PROVE  /\ R \in ListType /\ Ties(R, s) /\ R.Link[n] = None /\ R.Prev[n] = None
           /\ \A m \in Nodes \ {n} : R.Link[m] = L.Link[m] /\ R.Prev[m] = L.Prev[m]
<1>1. R \in ListType
  BY DEF ListType, Cleared
<1>2. /\ R.Headp = L.Headp /\ R.Tailp = L.Tailp /\ R.Length = L.Length
      /\ R.Link = [L.Link EXCEPT ![n] = None] /\ R.Prev = [L.Prev EXCEPT ![n] = None]
  BY DEF ListType, Cleared
<1>3. /\ R.Link[n] = None /\ R.Prev[n] = None
      /\ \A m \in Nodes \ {n} : R.Link[m] = L.Link[m] /\ R.Prev[m] = L.Prev[m]
  BY <1>2 DEF ListType
<1>4. Range(s) \subseteq Nodes \ {n}
  BY LenProperties, ElementOfSeq DEF Range
<1>5. Ties(R, s)
  <2>1. Untouched(L, R, s)
    BY <1>2, <1>3, <1>4, Zenon DEF Untouched
  <2> HIDE DEF Cleared
  <2> QED BY <2>1, StaysTied
<1> QED BY <1>1, <1>3, <1>5

LEMMA CallAddStep ==
    ASSUME NEW s, NEW c, Start(s, c), NEW f \in Adding, NEW n \in Nodes, CallAdd(c, f, n)
    PROVE  StepTo(s)
<1> DEFINE o == [f |-> f, n |-> n, k |-> None]
<1>1. /\ op' = [op EXCEPT ![c] = o] /\ UNCHANGED <<sorted, fault>> /\ Acquire(c)
      /\ n \notin alive /\ alive' = alive \cup {n}
      /\ list' = Cleared(list, n)
  BY DEF CallAdd, Goes, Cleared
<1>2. n \notin Range(s) /\ Range(s) \subseteq alive' /\ alive' \subseteq Nodes
  BY <1>1, StartFacts, ShapeFacts DEF Types
<1>3. /\ list' \in ListType /\ Ties(list', s) /\ list'.Link[n] = None /\ list'.Prev[n] = None
      /\ \A m \in Nodes \ {n} : list'.Link[m] = list.Link[m] /\ list'.Prev[m] = list.Prev[m]
  BY <1>1, <1>2, StartFacts, ClearedNode DEF Shape
<1>4. o \in OpType
  BY DEF OpType, Ops, Locked, Adding
<1>5. Fits(o, at'[c], list', alive', s, c)
  BY <1>1, <1>2, <1>3, StartFacts, LockMoves DEF Fits, Apart, Adding, Around, Locked
<1>6. OthersFit(c, s, s, list, list', alive')
  <2> SUFFICES ASSUME NEW d \in CPUs \ {c}
               PROVE  /\ op[d].f \in Apart => op[d].n \in alive' /\ op[d].n \notin Range(s)
                      /\ op[d].f \in Adding => /\ list'.Link[op[d].n] = list.Link[op[d].n]
                                               /\ list'.Prev[op[d].n] = list.Prev[op[d].n]
    BY Zenon DEF OthersFit
  <2>1. Fits(op[d], at[d], list, alive, s, d) /\ alive \subseteq Nodes
    BY StartFacts DEF OpsInv, Types
  <2> QED BY <1>1, <1>3, <2>1 DEF Fits, Apart
<1>7. Evolves(s, s) /\ (sorted => KeysInOrder(s))
  BY StartFacts DEF Evolves, Shape
<1>8. o.n \notin alive
  BY <1>1
<1> HIDE DEF o
<1> QED BY <1>1, <1>2, <1>3, <1>4, <1>5, <1>6, <1>7, <1>8, StartFacts, LockMoves, MoveStep

LEMMA ClearStep ==
    ASSUME NEW s, NEW c, Start(s, c), Clear(c)
    PROVE  StepTo(s)
<1>0. PICK n : n = op[c].n
  OBVIOUS
<1> DEFINE o == IF op[c].k = None THEN Idle ELSE [f |-> "destroy", n |-> n, k |-> op[c].k]
<1>1. op[c].f = "clear" /\ n \in alive /\ n \notin Range(s) /\ n \in Nodes /\ c \in Consumers
  BY <1>0, StartFacts DEF Clear, Fits, Apart, Adding, Types
<1>2. /\ op' = [op EXCEPT ![c] = o] /\ UNCHANGED <<sorted, alive, fault>> /\ UNCHANGED lockvars
      /\ list' = Cleared(list, n)
  BY <1>0, <1>1 DEF Clear, Goes, Cleared
<1>3. /\ list' \in ListType /\ Ties(list', s)
      /\ \A m \in Nodes \ {n} : list'.Link[m] = list.Link[m] /\ list'.Prev[m] = list.Prev[m]
  BY <1>1, <1>2, StartFacts, ClearedNode DEF Shape
<1>4. o \in OpType
  BY <1>1, StartFacts DEF OpType, Ops, Locked, Idle
<1>5. Fits(o, at'[c], list', alive', s, c)
  BY <1>1, <1>2, StartFacts, LockMoves DEF Fits, Apart, Adding, Around, Locked, Idle
<1>6. OthersFit(c, s, s, list, list', alive')
  <2> SUFFICES ASSUME NEW d \in CPUs \ {c}
               PROVE  /\ op[d].f \in Apart => op[d].n \in alive' /\ op[d].n \notin Range(s)
                      /\ op[d].f \in Adding => /\ list'.Link[op[d].n] = list.Link[op[d].n]
                                               /\ list'.Prev[op[d].n] = list.Prev[op[d].n]
    BY Zenon DEF OthersFit
  <2>1. Fits(op[d], at[d], list, alive, s, d) /\ alive \subseteq Nodes
    BY StartFacts DEF OpsInv, Types
  <2>2. op[d].f \in Apart => op[d].n # n
    BY <1>0, <1>1, StartFacts DEF OpsInv, Apart
  <2> QED BY <1>2, <1>3, <2>1, <2>2 DEF Fits, Apart
<1>7. Evolves(s, s) /\ (sorted => KeysInOrder(s)) /\ Range(s) \subseteq alive' /\ alive' \subseteq Nodes
  BY <1>2, StartFacts DEF Evolves, Shape, Types
<1>8. o.f \notin Apart \/ (op[c].f \in Apart /\ op[c].n = o.n)
  BY <1>0, <1>1 DEF Apart, Adding, Idle
<1> HIDE DEF o
<1> QED BY <1>2, <1>3, <1>4, <1>5, <1>6, <1>7, <1>8, StartFacts, LockMoves, MoveStep

LEMMA DestroyStep ==
    ASSUME NEW s, NEW c, Start(s, c), ListDestroyNode(c)
    PROVE  StepTo(s)
<1>0. PICK n : n = op[c].n
  OBVIOUS
<1>1. op[c].f = "destroy" /\ n \in alive /\ n \notin Range(s)
  BY <1>0, StartFacts DEF ListDestroyNode, Fits, Apart, Adding
<1>2. /\ op' = [op EXCEPT ![c] = Idle] /\ UNCHANGED <<sorted, list, fault>> /\ UNCHANGED lockvars
      /\ alive' = alive \ {n}
  BY <1>0, <1>1 DEF ListDestroyNode
<1>3. Idle \in OpType /\ Idle.f = "idle"
  BY DEF OpType, Ops, Idle
<1>4. Fits(Idle, at'[c], list', alive', s, c)
  BY <1>1, <1>2, <1>3, StartFacts, LockMoves DEF Fits, Apart, Adding, Around, Locked
<1>5. OthersFit(c, s, s, list, list', alive')
  <2> SUFFICES ASSUME NEW d \in CPUs \ {c}, op[d].f \in Apart
               PROVE  op[d].n \in alive' /\ op[d].n \notin Range(s)
    BY <1>2, Zenon DEF OthersFit
  <2>1. Fits(op[d], at[d], list, alive, s, d)
    BY StartFacts DEF OpsInv
  <2>2. op[d].n # n
    BY <1>0, <1>1, StartFacts DEF OpsInv, Apart
  <2> QED BY <1>2, <2>1, <2>2 DEF Fits
<1>6. /\ Evolves(s, s) /\ (sorted => KeysInOrder(s)) /\ Range(s) \subseteq alive' /\ alive' \subseteq Nodes
      /\ list' \in ListType /\ Ties(list', s)
  BY <1>1, <1>2, StartFacts DEF Evolves, Shape, Types
<1>7. Idle.f \notin Apart
  BY <1>3 DEF Apart, Adding
<1> QED BY <1>2, <1>3, <1>4, <1>5, <1>6, <1>7, StartFacts, LockMoves, MoveStep


(* The locked section of an addition. *)
LEMMA AddStep ==
    ASSUME NEW s, NEW c, Start(s, c), Add(c)
    PROVE  StepTo(s)
<1>0. PICK n : n = op[c].n
  OBVIOUS
<1>1. /\ op[c].f \in Adding /\ Release(c) /\ op' = [op EXCEPT ![c] = Idle]
      /\ UNCHANGED <<sorted, alive, fault>>
      /\ list' = ListAppend(list, n) \/ list' = ListInsert(list, n)
  BY <1>0, Zenon DEF Add, Adding
<1>2. /\ n \in alive /\ n \notin Range(s) /\ list.Prev[n] = None /\ n \in Nodes
  BY <1>0, <1>1, StartFacts DEF Fits, Apart, Types
<1>3. /\ s \in Seq(Nodes) /\ list \in ListType /\ Ties(list, s) /\ sorted \in BOOLEAN
      /\ sorted => KeysInOrder(s)
  BY StartFacts, Zenon DEF Shape, Types
<1>4. PICK i \in 1..Len(s)+1 : Inserted(list, s, list', i, n) /\ Place(s, i, n)
  <2>1. CASE list' = ListAppend(list, n)
    <3>1. \E i \in 1..Len(s)+1 : Inserted(list, s, ListAppend(list, n), i, n) /\ Place(s, i, n)
      BY <1>2, <1>3, AppendOp
    <3> QED BY <2>1, <3>1
  <2>2. CASE list' = ListInsert(list, n)
    <3>1. \E i \in 1..Len(s)+1 : Inserted(list, s, ListInsert(list, n), i, n) /\ Place(s, i, n)
      BY <1>2, <1>3, InsertOp
    <3> QED BY <2>2, <3>1
  <2> QED BY <1>1, <2>1, <2>2
<1>5. PICK t : t = InsertAt(s, i, n)
  OBVIOUS
<1>6. t \in Seq(Nodes) /\ Range(t) = Range(s) \cup {n}
  BY <1>2, <1>3, <1>5, InsertAtFacts, InsertedNodes
<1>7. /\ list' \in ListType /\ Ties(list', t)
      /\ \A m \in Nodes \ Range(t) : list'.Link[m] = list.Link[m] /\ list'.Prev[m] = list.Prev[m]
  BY <1>4, <1>5, <1>6 DEF Inserted, Elsewhere
<1>8. Range(t) \subseteq alive' /\ alive' \subseteq Nodes
  BY <1>1, <1>2, <1>6, StartFacts, ShapeFacts DEF Types
<1>9. sorted => KeysInOrder(t)
  BY <1>2, <1>3, <1>4, <1>5, InsertedOrder DEF Place
<1>10. Evolves(s, t)
  BY <1>2, <1>4, <1>5 DEF Evolves
<1>11. Idle \in OpType /\ Idle.f = "idle"
  BY DEF OpType, Ops, Idle
<1>12. Fits(Idle, at'[c], list', alive', t, c)
  BY <1>1, <1>11, StartFacts, LockMoves DEF Fits, Apart, Adding, Around, Locked
<1>13. OthersFit(c, s, t, list, list', alive')
  <2>1. t # <<>>
    <3>0. Len(s) \in Nat
      BY <1>3, LenProperties
    <3>1. Len(t) = Len(s)+1
      BY <1>2, <1>3, <1>5, InsertAtFacts
    <3>2. Len(t) # 0
      BY <3>0, <3>1
    <3> QED BY <3>2, EmptySeq
  <2> SUFFICES ASSUME NEW d \in CPUs \ {c}
               PROVE  /\ op[d].f \in Apart => op[d].n \in alive' /\ op[d].n \notin Range(t)
                      /\ op[d].f \in Adding => /\ list'.Link[op[d].n] = list.Link[op[d].n]
                                               /\ list'.Prev[op[d].n] = list.Prev[op[d].n]
    BY <1>6, <2>1, Zenon DEF OthersFit
  <2>2. Fits(op[d], at[d], list, alive, s, d) /\ alive \subseteq Nodes
    BY StartFacts DEF OpsInv, Types
  <2>3. op[d].f \in Apart => op[d].n # n
    BY <1>0, <1>1, StartFacts DEF OpsInv, Apart
  <2>4. op[d].f \in Apart => op[d].n \in alive /\ op[d].n \notin Range(t)
    BY <1>6, <2>2, <2>3 DEF Fits
  <2> QED BY <1>1, <1>7, <2>2, <2>4 DEF Apart
<1>14. Idle.f \notin Apart
  BY <1>11 DEF Apart, Adding
<1> QED BY <1>1, <1>6, <1>7, <1>8, <1>9, <1>10, <1>11, <1>12, <1>13, <1>14,
           StartFacts, LockMoves, MoveStep

(* While the consumer is removing, the others can only be adding. *)
LEMMA OthersAdd ==
    ASSUME NEW s, NEW c, Start(s, c), c \in Consumers, NEW d \in CPUs \ {c}
    PROVE  op[d].f \in Adding \cup {"idle"}
<1>1. Fits(op[d], at[d], list, alive, s, d) /\ OneConsumer
  BY DEF Start, OpsInv
<1> QED BY <1>1 DEF Fits, OneConsumer

(* The consumer takes out the node at position i, and goes on to f with it. *)
LEMMA TakeStep ==
    ASSUME NEW s, NEW c, Start(s, c), c \in Consumers, Release(c),
           NEW i \in 1..Len(s), NEW f \in {"clear", "destroy"}, NEW k \in Keys \cup {None},
           op' = [op EXCEPT ![c] = [f |-> f, n |-> s[i], k |-> k]],
           Removed(list, s, list', i), UNCHANGED <<sorted, alive, fault>>
    PROVE  StepTo(s)
<1> DEFINE o == [f |-> f, n |-> s[i], k |-> k]
<1>1. /\ s \in Seq(Nodes) /\ Ties(list, s) /\ Range(s) \subseteq alive /\ alive \subseteq Nodes
      /\ sorted => KeysInOrder(s)
      /\ \A x, y \in 1..Len(s) : s[x] = s[y] => x = y
  BY StartFacts, Zenon DEF Shape, Types, Ties
<1>2. PICK t : t = RemoveAt(s, i)
  OBVIOUS
<1>3. /\ t \in Seq(Nodes) /\ Range(t) \subseteq Range(s) /\ s[i] \notin Range(t)
  BY <1>1, <1>2, RemoveAtFacts, RemovedNodes
<1>4. s[i] \in Range(s) /\ s[i] \in Nodes /\ s[i] \in alive
  BY <1>1, LenProperties DEF Range
<1>5. /\ list' \in ListType /\ Ties(list', t)
      /\ \A m \in Nodes \ Range(s) : list'.Link[m] = list.Link[m] /\ list'.Prev[m] = list.Prev[m]
  BY <1>2 DEF Removed, Elsewhere
<1>6. Range(t) \subseteq alive' /\ alive' \subseteq Nodes
  BY <1>1, <1>3
<1>7. sorted => KeysInOrder(t)
  BY <1>1, <1>2, RemovedOrder
<1>8. Evolves(s, t)
  BY <1>2 DEF Evolves
<1>9. o \in OpType
  BY <1>4 DEF OpType, Ops, Locked
<1>10. Fits(o, at'[c], list', alive', t, c)
  BY <1>3, <1>4, StartFacts, LockMoves DEF Fits, Apart, Adding, Around, Locked
<1>11. OthersFit(c, s, t, list, list', alive')
  <2> SUFFICES ASSUME NEW d \in CPUs \ {c}
               PROVE  /\ op[d].f \in Apart => op[d].n \in alive' /\ op[d].n \notin Range(t)
                      /\ op[d].f \in Adding => /\ list'.Link[op[d].n] = list.Link[op[d].n]
                                               /\ list'.Prev[op[d].n] = list.Prev[op[d].n]
                      /\ op[d].f \notin Around /\ op[d].f # "pop"
    BY Zenon DEF OthersFit
  <2>1. Fits(op[d], at[d], list, alive, s, d)
    BY StartFacts DEF OpsInv
  <2>2. op[d].f \in Adding \cup {"idle"}
    BY OthersAdd
  <2>3. op[d].f \in Apart => op[d].n \in alive /\ op[d].n \notin Range(s)
    BY <2>1 DEF Fits
  <2>4. op[d].f \notin Around /\ op[d].f # "pop"
    BY <2>2 DEF Adding, Around
  <2> QED BY <1>1, <1>3, <1>5, <2>3, <2>4 DEF Apart
<1>12. o.n \in Range(s)
  BY <1>4
<1> HIDE DEF o
<1> QED
  <2>1. op' = [op EXCEPT ![c] = o]
    BY Zenon DEF o
  <2> QED BY <1>3, <1>5, <1>6, <1>7, <1>8, <1>9, <1>10, <1>11, <1>12, <2>1,
             StartFacts, LockMoves, MoveStep

LEMMA PopStep ==
    ASSUME NEW s, NEW c, Start(s, c), Pop(c)
    PROVE  StepTo(s)
<1>1. op[c].f = "pop" /\ c \in Consumers /\ s # <<>>
  BY StartFacts DEF Pop, Fits, Adding
<1>2. list.Headp # None
  BY <1>1, StartFacts, ShapeFacts
<1>3. /\ Release(c) /\ list' = ListPopFront(list) /\ UNCHANGED <<sorted, alive, fault>>
      /\ op' = [op EXCEPT ![c] = [f |-> "destroy", n |-> list.Headp, k |-> None]]
  BY <1>2, Zenon DEF Pop, Goes
<1>4. Len(s) > 0 /\ 1 \in 1..Len(s)
  <2>1. Len(s) \in Nat /\ Len(s) # 0
    BY <1>1, StartFacts, LenProperties, EmptySeq
  <2> QED BY <2>1
<1>5. s \in Seq(Nodes) /\ list \in ListType /\ Ties(list, s)
  BY StartFacts, Zenon DEF Shape
<1>6. Removed(list, s, list', 1) /\ list.Headp = s[1]
  BY <1>3, <1>4, <1>5, PopOp DEF Ties
<1> QED BY <1>1, <1>3, <1>4, <1>6, TakeStep

LEMMA UnlinkStep ==
    ASSUME NEW s, NEW c, Start(s, c), Unlink(c)
    PROVE  StepTo(s)
<1>1. op[c].f = "unlink" /\ c \in Consumers /\ op[c].n \in Range(s) /\ op[c].n \in alive
  BY StartFacts, ShapeFacts DEF Unlink, Fits, Around, Adding
<1>2. /\ Release(c) /\ list' = ListUnlinkNode(list, op[c].n) /\ UNCHANGED <<sorted, alive, fault>>
      /\ op' = [op EXCEPT ![c] = [f |-> "clear", n |-> op[c].n, k |-> op[c].k]]
  BY <1>1, Zenon DEF Unlink, Goes
<1>3. s \in Seq(Nodes) /\ list \in ListType /\ Ties(list, s) /\ op[c].k \in Keys \cup {None}
  BY StartFacts DEF Shape, OpType
<1>4. PICK i \in 1..Len(s) : op[c].n = s[i]
  BY <1>1, <1>3, LenProperties DEF Range
<1>5. Removed(list, s, list', i)
  BY <1>2, <1>3, <1>4, UnlinkOp
<1> QED BY <1>1, <1>2, <1>3, <1>4, <1>5, TakeStep


---------------------------------------------------------------------------
(* Every step                                                              *)

LEMMA ListStart == Init => ListInv
<1> SUFFICES ASSUME Init PROVE ListInv
  OBVIOUS
<1> DEFINE s == <<>>
<1>1. Len(s) = 0 /\ s \in Seq(Nodes) /\ Range(s) = {} /\ \A i \in DOMAIN s : FALSE
  BY EmptySeq, LenProperties DEF Range
<1> HIDE DEF s
<1>2. list \in ListType /\ list.Headp = None /\ list.Tailp = None /\ list.Length = 0
  BY DEF Init, ListType
<1>3. Ties(list, s)
  <2>1. \A i \in 1..Len(s) : FALSE
    BY <1>1
  <2>2. \A i \in 1..Len(s)-1 : FALSE
    BY <1>1
  <2>3. ~(Len(s) > 0)
    BY <1>1
  <2> QED BY <1>1, <1>2, <2>1, <2>2, <2>3, Zenon DEF Ties
<1>4. Shape(s)
  BY <1>1, <1>2, <1>3 DEF Shape, KeysInOrder
<1>5. \A c \in CPUs : op[c].f = "idle" /\ at[c] = "out"
  <2>1. \A c \in CPUs : op[c] = Idle /\ at[c] = "out"
    BY Zenon DEF Init, LockInit
  <2>2. Idle.f = "idle"
    BY DEF Idle
  <2> QED BY <2>1, <2>2, Zenon
<1>6. OpsInv(s)
  BY <1>5 DEF OpsInv, Fits, Apart, Adding, Around, Locked
<1>7. Types
  <2>1. Idle \in OpType
    BY DEF Idle, OpType, Ops
  <2> QED BY <2>1 DEF Init, Types, OpType
<1> QED BY <1>1, <1>4, <1>6, <1>7, LockStart DEF ListInv, Init

LEMMA StepFrom ==
    ASSUME OneConsumer, Types, SpinInv, NEW s \in Seq(Nodes), Shape(s), OpsInv(s), [Next]_vars
    PROVE  StepTo(s)
<1>1. ASSUME NEW c \in CPUs PROVE Start(s, c)
  BY DEF Start
<1>2. ASSUME NEW c \in CPUs, Call(c) PROVE StepTo(s)
  <2>1. ASSUME NEW f \in {"append", "insert"}, NEW n \in Nodes, CallAdd(c, f, n) PROVE StepTo(s)
    <3>1. f \in Adding
      BY DEF Adding
    <3> QED BY <1>1, <2>1, <3>1, CallAddStep
  <2>2. ASSUME c \in Consumers, CallPop(c) PROVE StepTo(s)
    BY <1>1, <2>2, CallPopStep
  <2>3. ASSUME c \in Consumers, ListBegin(c) PROVE StepTo(s)
    BY <1>1, <2>3, ListBeginStep
  <2>4. ASSUME c \in Consumers, NEW f \in {"find", "lookup"}, NEW k \in Keys, CallByKey(c, f, k)
        PROVE  StepTo(s)
    BY <1>1, <2>4, CallByKeyStep
  <2> QED BY <1>2, <2>1, <2>2, <2>3, <2>4, Zenon DEF Call
<1>3. ASSUME NEW c \in CPUs, Step(c) PROVE StepTo(s)
  BY <1>1, <1>3, ListNextStep, CallUnlinkStep, SpinStep, AddStep, PopStep, LookupStep,
     UnlinkStep, ClearStep, DestroyStep, ReadStep DEF Step
<1>4. CASE UNCHANGED vars
  <2>1. UNCHANGED <<lockvars, sorted, list, alive, op, fault>>
    BY <1>4 DEF vars
  <2>2. Types'
    BY <2>1, Zenon DEF Types
  <2>3. Shape(s)'
    BY <2>1, Zenon DEF Shape
  <2>4. OpsInv(s)'
    BY <2>1 DEF OpsInv, lockvars
  <2>5. Evolves(s, s)
    BY DEF Evolves
  <2> QED BY <2>1, <2>2, <2>3, <2>4, <2>5, Zenon DEF StepTo
<1> QED BY <1>2, <1>3, <1>4, Zenon DEF Next

LEMMA ListStep == ASSUME OneConsumer PROVE ListInv /\ [Next]_vars => ListInv'
<1> SUFFICES ASSUME ListInv, [Next]_vars PROVE ListInv'
  OBVIOUS
<1>1. PICK s \in Seq(Nodes) : Shape(s) /\ OpsInv(s)
  BY DEF ListInv
<1>2. StepTo(s)
  BY <1>1, StepFrom DEF ListInv
<1>3. SpinInv'
  BY <1>2, LockStep DEF ListInv, StepTo
<1> QED BY <1>2, <1>3, Zenon DEF ListInv, StepTo

LEMMA ListInvHolds == ASSUME OneConsumer PROVE Spec => []ListInv
BY ListStart, ListStep, PTL DEF Spec

(* Every step takes or passes the lock, or leaves it alone. *)
LEMMA LocksLikeSpinlock == [Next]_vars => [LockNext]_lockvars
<1> SUFFICES ASSUME [Next]_vars PROVE [LockNext]_lockvars
  OBVIOUS
<1>1. ASSUME NEW c \in CPUs, Acquire(c) \/ Release(c) \/ Xchg(c) \/ Loop(c) PROVE LockNext
  BY <1>1 DEF LockNext
<1>2. CASE UNCHANGED vars
  BY <1>2 DEF vars
<1>3. ASSUME NEW c \in CPUs, Call(c) PROVE [LockNext]_lockvars
  <2>1. ASSUME NEW f, NEW n, CallAdd(c, f, n) PROVE LockNext
    BY <1>1, <2>1, Zenon DEF CallAdd
  <2>2. ASSUME NEW f, NEW k, CallByKey(c, f, k) PROVE LockNext
    BY <1>1, <2>2, Zenon DEF CallByKey
  <2>3. CASE CallPop(c)
    BY <1>1, <2>3, Zenon DEF CallPop
  <2>4. CASE ListBegin(c)
    BY <2>4, Zenon DEF ListBegin
  <2> QED BY <1>3, <2>1, <2>2, <2>3, <2>4, Zenon DEF Call
<1>4. ASSUME NEW c \in CPUs, Step(c) PROVE [LockNext]_lockvars
  <2>1. CASE ListNext(c) \/ Clear(c) \/ ListDestroyNode(c) \/ Read(c)
    BY <2>1, Zenon DEF ListNext, Clear, ListDestroyNode, Read, Fault
  <2>2. CASE CallUnlink(c)
    BY <1>1, <2>2, Zenon DEF CallUnlink
  <2>3. CASE Spin(c)
    BY <1>1, <2>3, Zenon DEF Spin
  <2>4. CASE Add(c) \/ Lookup(c)
    BY <1>1, <2>4, Zenon DEF Add, Lookup
  <2>5. CASE Pop(c) \/ Unlink(c)
    BY <1>1, <2>5, Zenon DEF Pop, Unlink, Fault
  <2> QED BY <1>4, <2>1, <2>2, <2>3, <2>4, <2>5, Zenon DEF Step
<1> QED BY <1>2, <1>3, <1>4, Zenon DEF Next

---------------------------------------------------------------------------
(* The list on any number of CPUs                                          *)

(* However CPUs append, insert, look up and walk while at most one of them    *)
(* removes, the list is linked forwards and backwards as one sequence of      *)
(* allocated nodes, and Tailp and Length agree with it.                       *)
THEOREM ListStaysLinked == ASSUME OneConsumer PROVE Spec => []WellLinked
<1>1. ListInv => WellLinked
  <2> SUFFICES ASSUME ListInv PROVE WellLinked
    OBVIOUS
  <2>1. PICK s \in Seq(Nodes) : Shape(s)
    BY DEF ListInv
  <2>2. list \in ListType /\ Ties(list, s) /\ Range(s) \subseteq alive
    BY <2>1, Zenon DEF Shape
  <2>3. Walk(list) = s /\ LinkedAs(list, s)
    BY <2>2, WalkAsTied, LinksAreTies
  <2>4. list.Length \in 0..Cardinality(Nodes)
    BY <2>3, LengthBound DEF LinkedAs
  <2>5. TypeOK
    BY <2>2, <2>4 DEF ListInv, Types, TypeOK, ListType
  <2> QED BY <2>2, <2>3, <2>5 DEF WellLinked
<1> QED BY <1>1, ListInvHolds, PTL

(* Then no operation uses a NULL pointer or freed memory either, although     *)
(* the loops take no lock and the others look at the list before they do.     *)
THEOREM ListUsesNoFreedNode == ASSUME OneConsumer PROVE Spec => []NoFault
<1>1. ListInv => NoFault
  BY DEF ListInv, Types, NoFault
<1> QED BY <1>1, ListInvHolds, PTL

(* And every locked section is one step of the sequence: a node comes in      *)
(* where Sequence lets it, or one goes out.                                   *)
THEOREM ListIsSequence == ASSUME OneConsumer PROVE Spec => ImplementsSequence
<1>1. ListInv => \E s \in Seq(Nodes) : Walk(list) = s
  BY WalkAsTied, Zenon DEF ListInv, Shape
<1>2. Init => S!Init
  <2> SUFFICES ASSUME Init PROVE S!Init
    OBVIOUS
  <2>1. <<>> \in Seq(Nodes) /\ Len(<<>>) = 0
    BY EmptySeq
  <2>2. list \in ListType /\ list.Headp = None /\ list.Tailp = None /\ list.Length = 0
    BY DEF Init, ListType
  <2>3. Ties(list, <<>>)
    BY <2>1, <2>2 DEF Ties
  <2>4. Walk(list) = <<>>
    BY <2>1, <2>2, <2>3, WalkAsTied
  <2> QED BY <2>4 DEF Init, S!Init
<1>3. ListInv /\ [Next]_vars => [S!Next]_<<Walk(list), sorted>>
  <2> SUFFICES ASSUME ListInv, [Next]_vars PROVE [S!Next]_<<Walk(list), sorted>>
    OBVIOUS
  <2>1. PICK s \in Seq(Nodes) : Shape(s) /\ OpsInv(s)
    BY DEF ListInv
  <2>2. StepTo(s)
    BY <2>1, StepFrom DEF ListInv
  <2>3. PICK t \in Seq(Nodes) : Shape(t)' /\ Evolves(s, t)
    BY <2>2 DEF StepTo
  <2>4. Walk(list) = s
    BY <2>1, WalkAsTied DEF Shape
  <2>5. Walk(list') = t
    BY <2>3, WalkAsTied DEF Shape
  <2>6. sorted' = sorted
    BY <2>2 DEF StepTo
  <2>7. CASE t = s
    BY <2>4, <2>5, <2>6, <2>7
  <2>8. ASSUME NEW n \in Nodes \ Range(s), NEW i \in 1..Len(s)+1,
               t = InsertAt(s, i, n), Place(s, i, n)
        PROVE  S!Next
    <3>1. S!InsertAt(s, i, n) = InsertAt(s, i, n) /\ S!Range(s) = Range(s)
      BY DEF S!InsertAt, InsertAt, S!Range, Range
    <3>2. S!Add(n, i)
      BY <2>4, <2>5, <2>8, <3>1, Zenon DEF S!Add, Place
    <3> QED BY <2>4, <2>6, <3>2, Zenon DEF S!Next
  <2>9. ASSUME NEW i \in 1..Len(s), t = RemoveAt(s, i) PROVE S!Next
    <3>1. i \in DOMAIN s
      BY LenProperties
    <3>2. S!RemoveAt(s, i) = RemoveAt(s, i)
      BY DEF S!RemoveAt, RemoveAt
    <3>3. S!Take(i)
      BY <2>4, <2>5, <2>9, <3>2, Zenon DEF S!Take
    <3> QED BY <2>4, <2>6, <3>1, <3>3, Zenon DEF S!Next
  <2> QED BY <2>3, <2>7, <2>8, <2>9 DEF Evolves
<1> QED BY <1>2, <1>3, ListInvHolds, PTL DEF Spec, ImplementsSequence, S!Spec

(* Whatever the operations of the list do, their lock stays a mutex. *)
THEOREM ListLocksProperly == Spec => ImplementsMutex
<1>1. Spec => LockSpec
  <2>1. Init => LockInit
    BY DEF Init
  <2> QED BY <2>1, LocksLikeSpinlock, PTL DEF Spec, LockSpec
<1> QED BY <1>1, SpinlockIsMutex
=============================================================================
