------------------------ MODULE ToolScheduler_proofs ------------------------
(***************************************************************************)
(* The tool scheduler, for any calls and any cap: its counters, the order of *)
(* admission, the isolation of exclusive calls and what a step may never do. *)
(*                                                                         *)
(* IInv relates counters, queue and statuses; every caller of drain hands it *)
(* a queue and statuses that are Ready and Follow the current ones, and what *)
(* one drain does is proved of those.  Family is the tree of nested calls: a *)
(* call in progress has its parent in progress.                            *)
(***************************************************************************)
EXTENDS ToolScheduler, FiniteSetTheorems, SequenceTheorems, TLAPS

-----------------------------------------------------------------------------
(* Facts about finite sets of naturals and about Without.                  *)

\* A nonempty set of naturals has a least element.
LEMMA LeastElement ==
  ASSUME NEW S \in SUBSET Nat, S # {}
  PROVE  \E n \in S : \A m \in S : n <= m
<1> DEFINE R == OpToRel(<, Nat)
<1>1. \A a, b \in Nat : a < b => <<a, b>> \in R
  BY DEF OpToRel
<1>2. IsWellFoundedOn(R, Nat)
  BY NatLessThanWellFounded
<1> HIDE DEF R
<1>3. \E x \in S : \A y \in S : ~ (<<y, x>> \in R)
  BY <1>2, WFMin
<1>4. PICK x \in S : \A y \in S : ~ (<<y, x>> \in R)
  BY <1>3
<1>5. ASSUME NEW m \in S PROVE x <= m
  <2>1. ~ (m < x)
    BY <1>1, <1>4
  <2>2. QED  BY <2>1
<1>6. QED  BY <1>5

\* A finite set with at most one member has no two.
LEMMA AtMostOne ==
  ASSUME NEW S, IsFiniteSet(S), Cardinality(S) <= 1, NEW x \in S, NEW y \in S
  PROVE  x = y
<1>1. IsFiniteSet(S \ {x}) /\ Cardinality(S \ {x}) = Cardinality(S) - 1
  BY FS_RemoveElement
<1>2. Cardinality(S \ {x}) = 0
  BY <1>1, FS_CardinalityType
<1>3. S \ {x} = {}
  BY <1>1, <1>2, FS_EmptySet
<1>4. QED  BY <1>3

\* A downward closed set of positions is an initial segment.
LEMMA InitialSegment ==
  ASSUME NEW L \in Nat, NEW T \in SUBSET (1..L),
         \A i \in T : \A j \in 1..L : j < i => j \in T
  PROVE  /\ Cardinality(T) \in 0..L
         /\ T = 1..Cardinality(T)
<1> DEFINE Out == (1..(L+1)) \ T
<1>1. Out \in SUBSET Nat /\ L + 1 \in Out
  OBVIOUS
<1>2. PICK k \in Out : \A m \in Out : k <= m
  BY <1>1, LeastElement, Zenon
<1>3. k \in 1..(L+1) /\ k \notin T
  BY <1>2
<1>4. T = 1..(k-1)
  <2>1. ASSUME NEW i \in T PROVE i \in 1..(k-1)
    BY <2>1, <1>3
  <2>2. ASSUME NEW i \in 1..(k-1) PROVE i \in T
    BY <2>2, <1>2, <1>3
  <2>3. QED  BY <2>1, <2>2
<1>5. Cardinality(1..(k-1)) = k - 1
  BY <1>3, FS_Interval
<1>6. QED  BY <1>3, <1>4, <1>5

\* The ranks of the members of a finite set of naturals are all the numbers
\* up to its size, each once.
LEMMA RankOnto ==
  ASSUME NEW L \in Nat, NEW K \in SUBSET (1..L)
  PROVE  /\ Cardinality(K) \in Nat
         /\ \A i \in K : Rank(K, i) \in 1..Cardinality(K)
         /\ \A i, j \in K : i < j => Rank(K, i) < Rank(K, j)
         /\ \A i, j \in K : i # j => Rank(K, i) # Rank(K, j)
         /\ \A n \in 1..Cardinality(K) : \E i \in K : Rank(K, i) = n
<1> DEFINE Upto(i) == {j \in K : j <= i}
<1>1. IsFiniteSet(K) /\ Cardinality(K) \in Nat
  <2>1. IsFiniteSet(1..L)
    BY FS_Interval
  <2>2. IsFiniteSet(K)
    BY <2>1, FS_Subset
  <2>3. QED  BY <2>2, FS_CardinalityType
<1>2. ASSUME NEW i \in K
      PROVE  Rank(K, i) \in 1..Cardinality(K)
  <2>1. Upto(i) \in SUBSET K /\ i \in Upto(i)
    OBVIOUS
  <2>2. IsFiniteSet(Upto(i)) /\ Cardinality(Upto(i)) <= Cardinality(K)
    BY <1>1, <2>1, FS_Subset
  <2>3. Cardinality(Upto(i)) # 0 /\ Cardinality(Upto(i)) \in Nat
    BY <2>1, <2>2, FS_EmptySet, FS_CardinalityType
  <2>4. QED  BY <1>1, <2>2, <2>3 DEF Rank
<1>3. ASSUME NEW i \in K, NEW j \in K, i < j
      PROVE  Rank(K, i) < Rank(K, j)
  <2>1. i \in Nat /\ j \in Nat /\ K \in SUBSET Nat
    OBVIOUS
  <2>0. Upto(i) \in SUBSET Upto(j) /\ j \in Upto(j) /\ j \notin Upto(i) /\ Upto(j) \in SUBSET K
    <3>1. ASSUME NEW k \in Upto(i) PROVE k \in Upto(j)
      BY <3>1, <1>3, <2>1
    <3>2. j \in Upto(j) /\ j \notin Upto(i) /\ Upto(j) \in SUBSET K
      BY <1>3, <2>1
    <3>3. QED  BY <3>1, <3>2
  <2>2. IsFiniteSet(Upto(j))
    BY <1>1, <2>0, FS_Subset
  <2>3. Cardinality(Upto(i)) <= Cardinality(Upto(j)) /\ Cardinality(Upto(i)) # Cardinality(Upto(j))
    BY <2>0, <2>2, FS_Subset
  <2>4. QED  BY <2>3, <1>2 DEF Rank
<1>4. \A i, j \in K : i # j => Rank(K, i) # Rank(K, j)
  <2>1. ASSUME NEW i \in K, NEW j \in K, i # j PROVE Rank(K, i) # Rank(K, j)
    <3>1. i < j \/ j < i
      BY <2>1
    <3>2. QED  BY <3>1, <1>2, <1>3
  <2>2. QED  BY <2>1
<1>5. ASSUME NEW n \in 1..Cardinality(K), \A i \in K : Rank(K, i) # n
      PROVE  FALSE
  <2> DEFINE T == (1..Cardinality(K)) \ {n}
             f == [i \in K |-> Rank(K, i)]
  <2>1. IsFiniteSet(T) /\ Cardinality(T) < Cardinality(K)
    <3>1. IsFiniteSet(1..Cardinality(K)) /\ Cardinality(1..Cardinality(K)) = Cardinality(K)
      BY <1>1, FS_Interval
    <3>2. /\ IsFiniteSet(T)
          /\ Cardinality(T) = IF n \in 1..Cardinality(K) THEN Cardinality(K) - 1 ELSE Cardinality(K)
      BY <3>1, FS_RemoveElement
    <3>3. QED  BY <1>1, <3>2
  <2>2. f \in [K -> T]
    BY <1>2, <1>5
  <2>3. \E x, y \in K : x # y /\ f[x] = f[y]
    <3> HIDE DEF T, f
    <3> QED  BY <1>1, <2>1, <2>2, FS_PigeonHole
  <2>4. QED  BY <2>3, <1>4
<1>6. QED  BY <1>1, <1>2, <1>3, <1>4, <1>5

NoRepeats(q) == \A i, j \in 1..Len(q) : i # j => q[i] # q[j]

\* Without keeps entries of q that are not in S, each once, and every entry
\* that stood in front of them.
LEMMA WithoutFacts ==
  ASSUME NEW q \in Seq(Calls), NEW S
  PROVE  /\ Without(q, S) \in Seq(Calls)
         /\ \A n \in 1..Len(Without(q, S)) :
              \E i \in 1..Len(q) : Without(q, S)[n] = q[i] /\ q[i] \notin S
         /\ NoRepeats(q) => NoRepeats(Without(q, S))
         /\ \A n \in 1..Len(Without(q, S)) : \A j \in 1..Len(q) :
              (q[j] \notin S /\ \A i \in 1..Len(q) : q[i] = Without(q, S)[n] => j < i) =>
                \E m \in 1..(n-1) : Without(q, S)[m] = q[j]
<1> DEFINE K == Kept(q, S)
           at(n) == CHOOSE i \in K : Rank(K, i) = n
           s == Without(q, S)
<1>1. Len(q) \in Nat /\ K \in SUBSET (1..Len(q))
  BY LenProperties DEF Kept
<1>2. /\ Cardinality(K) \in Nat
      /\ \A n \in 1..Cardinality(K) : \E i \in K : Rank(K, i) = n
      /\ \A i \in K : Rank(K, i) \in 1..Cardinality(K)
      /\ \A i, j \in K : i < j => Rank(K, i) < Rank(K, j)
      /\ \A i, j \in K : i # j => Rank(K, i) # Rank(K, j)
  <2> HIDE DEF K
  <2> QED  BY <1>1, RankOnto
<1>3. \A n \in 1..Cardinality(K) : at(n) \in K /\ Rank(K, at(n)) = n
  BY <1>2
<1>4. \A n \in 1..Cardinality(K) : q[at(n)] \in Calls /\ q[at(n)] \notin S
  BY <1>3, <1>1, ElementOfSeq DEF Kept
<1>5. s = [n \in 1..Cardinality(K) |-> q[at(n)]]
  BY DEF Without
<1>6. s \in Seq(Calls) /\ Len(s) = Cardinality(K)
  <2> HIDE DEF K, at, s
  <2>1. s \in [1..Cardinality(K) -> Calls]
    BY <1>4, <1>5
  <2> QED  BY <2>1, <1>2, LenProperties, SeqDef
<1>7. \A n \in 1..Len(s) : \E i \in 1..Len(q) : s[n] = q[i] /\ q[i] \notin S
  <2> HIDE DEF at, s
  <2> QED  BY <1>1, <1>3, <1>4, <1>5, <1>6
<1>8. ASSUME NoRepeats(q) PROVE NoRepeats(s)
  <2>1. ASSUME NEW i \in 1..Len(s), NEW j \in 1..Len(s), i # j
        PROVE  s[i] # s[j]
    <3>1. at(i) \in 1..Len(q) /\ at(j) \in 1..Len(q) /\ at(i) # at(j)
      <4> HIDE DEF at, s
      <4> QED  BY <1>1, <1>3, <1>6, <2>1
    <3>2. s[i] = q[at(i)] /\ s[j] = q[at(j)]
      <4> HIDE DEF at, s, K
      <4> QED  BY <1>5, <1>6
    <3>3. QED
      <4> HIDE DEF at, s, K
      <4> QED  BY <3>1, <3>2, <1>8 DEF NoRepeats
  <2>2. QED  BY <2>1 DEF NoRepeats
<1>9. ASSUME NEW n \in 1..Len(s), NEW j \in 1..Len(q), q[j] \notin S,
             \A i \in 1..Len(q) : q[i] = s[n] => j < i
      PROVE  \E m \in 1..(n-1) : s[m] = q[j]
  <2>1. n \in 1..Cardinality(K) /\ at(n) \in K /\ Rank(K, at(n)) = n /\ s[n] = q[at(n)]
    <3> HIDE DEF at, s, K
    <3> QED  BY <1>3, <1>5, <1>6
  <2>2. j \in K /\ j < at(n)
    <3> HIDE DEF at, s
    <3> QED  BY <1>1, <1>9, <2>1 DEF Kept
  <2>3. Rank(K, j) \in 1..(n-1)
    <3> HIDE DEF at, s, K
    <3>1. j \in K /\ at(n) \in K /\ j < at(n) /\ Rank(K, at(n)) = n
      BY <2>1, <2>2
    <3>2. Rank(K, j) < n
      BY <3>1, <1>2
    <3>3. Rank(K, j) \in 1..Cardinality(K)
      BY <3>1, <1>2
    <3>4. QED  BY <3>2, <3>3, <2>1
  <2>4. at(Rank(K, j)) = j
    <3>1. Rank(K, j) \in 1..Cardinality(K)
      BY <1>2, <2>2
    <3> HIDE DEF at, K
    <3> QED  BY <3>1, <1>2, <1>3, <2>2
  <2>5. s[Rank(K, j)] = q[j]
    <3>1. Rank(K, j) \in 1..Cardinality(K)
      BY <1>2, <2>2
    <3> HIDE DEF at, K, s
    <3> QED  BY <3>1, <1>5, <2>4
  <2>6. QED  BY <2>3, <2>5
<1>10. QED  BY <1>6, <1>7, <1>8, <1>9

-----------------------------------------------------------------------------
(* What one drain starts.                                                  *)

LiveReader(q, i, off) == ~Stopped(q[i], off) /\ mode[q[i]] = "parallel-safe"
Started(q, w, r, off) == {c \in {q[i] : i \in Taken(q, w, r, off)} : ~Stopped(c, off)}
StartedIn(q, w, r, off, m) == {c \in Started(q, w, r, off) : mode[c] = m}

\* The count the loop sees only grows, and each live reader adds to it.
LEMMA ReadersAtGrows ==
  ASSUME NEW q \in Seq(Calls), NEW r \in Nat, NEW off,
         NEW i \in 1..Len(q), NEW j \in 1..Len(q)
  PROVE  /\ ReadersAt(q, r, i, off) \in Nat
         /\ ReadersAt(q, r, i, off) >= r
         /\ i < j /\ LiveReader(q, i, off) =>
              ReadersAt(q, r, i, off) < ReadersAt(q, r, j, off)
<1> DEFINE LR(k) == {n \in 1..(k-1) : ~Stopped(q[n], off) /\ mode[q[n]] = "parallel-safe"}
<1>1. Len(q) \in Nat /\ i \in Nat /\ j \in Nat
  BY LenProperties
<1>2. IsFiniteSet(LR(i)) /\ IsFiniteSet(LR(j))
  <2>0. 1 \in Int /\ i - 1 \in Int /\ j - 1 \in Int
    BY <1>1
  <2>1. IsFiniteSet(1..(i-1)) /\ IsFiniteSet(1..(j-1))
    BY <2>0, FS_Interval
  <2>2. LR(i) \in SUBSET (1..(i-1)) /\ LR(j) \in SUBSET (1..(j-1))
    OBVIOUS
  <2>3. QED  BY <2>1, <2>2, FS_Subset
<1>3. Cardinality(LR(i)) \in Nat /\ Cardinality(LR(j)) \in Nat
  BY <1>2, FS_CardinalityType
<1>4. /\ ReadersAt(q, r, i, off) = r + Cardinality(LR(i))
      /\ ReadersAt(q, r, j, off) = r + Cardinality(LR(j))
  BY DEF ReadersAt
<1>5. ASSUME i < j, LiveReader(q, i, off)
      PROVE  Cardinality(LR(i)) < Cardinality(LR(j))
  <2>1. LR(i) \in SUBSET LR(j)
    <3>1. ASSUME NEW n \in LR(i) PROVE n \in LR(j)
      BY <3>1, <1>1, <1>5
    <3>2. QED  BY <3>1
  <2>2. i \in LR(j) /\ i \notin LR(i)
    BY <1>1, <1>5 DEF LiveReader
  <2>3. Cardinality(LR(i)) <= Cardinality(LR(j)) /\ Cardinality(LR(i)) # Cardinality(LR(j))
    BY <1>2, <2>1, <2>2, FS_Subset
  <2>4. QED  BY <1>3, <2>3
<1>6. QED  BY <1>3, <1>4, <1>5

\* What a drain takes is a prefix of the queue; the readers it starts fit
\* under the cap, and a writer is started alone, with no reader out.
LEMMA StartedFits ==
  ASSUME NEW q \in Seq(Calls), NEW w \in BOOLEAN, NEW r \in Nat, NEW off,
         mode \in [Calls -> Modes], r <= MaxParallel
  PROVE  /\ Cardinality(Taken(q, w, r, off)) \in 0..Len(q)
         /\ Taken(q, w, r, off) = 1..Cardinality(Taken(q, w, r, off))
         /\ Started(q, w, r, off) \in SUBSET Calls
         /\ w => Started(q, w, r, off) = {}
         /\ r + Cardinality(StartedIn(q, w, r, off, "parallel-safe")) <= MaxParallel
         /\ StartedIn(q, w, r, off, "exclusive") # {} =>
              /\ r = 0 /\ StartedIn(q, w, r, off, "parallel-safe") = {}
              /\ Cardinality(StartedIn(q, w, r, off, "exclusive")) = 1
<1> DEFINE T  == Taken(q, w, r, off)
           RA(i) == ReadersAt(q, r, i, off)
           SR == StartedIn(q, w, r, off, "parallel-safe")
           SX == StartedIn(q, w, r, off, "exclusive")
<1>1. Len(q) \in Nat /\ T \in SUBSET (1..Len(q))
  BY LenProperties DEF Taken
<1>2. \A i \in T : /\ ~w /\ ~Blocked(q, r, i, off)
                    /\ \A j \in 1..(i-1) : ~Blocked(q, r, j, off) /\ ~EndsAfter(q, r, j, off)
  BY DEF Taken
<1>3. \A i \in T : \A j \in 1..Len(q) : j < i => j \in T
  BY <1>1, <1>2 DEF Taken
<1>4. Cardinality(T) \in 0..Len(q) /\ T = 1..Cardinality(T)
  <2> HIDE DEF T
  <2> QED  BY <1>1, <1>3, InitialSegment
<1>5. /\ Started(q, w, r, off) \in SUBSET Calls
      /\ \A c \in Started(q, w, r, off) : \E i \in T : c = q[i] /\ ~Stopped(q[i], off)
      /\ w => Started(q, w, r, off) = {}
  BY <1>1, <1>2, ElementOfSeq DEF Started
<1>6. \A c \in Calls : mode[c] = "exclusive" \/ mode[c] = "parallel-safe"
  BY DEF Modes
<1>7. \A i \in 1..Len(q) : q[i] \in Calls
  BY ElementOfSeq
<1>8. \A i \in 1..Len(q) : RA(i) \in Nat /\ RA(i) >= r
  BY ReadersAtGrows
<1>9. \A i, j \in 1..Len(q) : i < j /\ LiveReader(q, i, off) => RA(i) < RA(j)
  BY ReadersAtGrows
<1>10. r + Cardinality(SR) <= MaxParallel
  <2> DEFINE pos(c) == CHOOSE i \in T : c = q[i] /\ ~Stopped(q[i], off)
             B == (r + 1)..MaxParallel
             f == [c \in SR |-> RA(pos(c)) + 1]
  <2>1. IsFiniteSet(SR) /\ Cardinality(SR) \in Nat
    <3>1. SR \in SUBSET Calls
      BY <1>5 DEF StartedIn
    <3>2. IsFiniteSet(SR)
      BY <3>1, FS_Subset, SchedulerAssumption
    <3>3. QED  BY <3>2, FS_CardinalityType
  <2>2. \A c \in SR : pos(c) \in T /\ c = q[pos(c)] /\ LiveReader(q, pos(c), off)
    BY <1>5 DEF StartedIn, LiveReader
  <2>3. \A c \in SR : RA(pos(c)) \in Nat /\ r <= RA(pos(c)) /\ RA(pos(c)) < MaxParallel
    <3>1. ASSUME NEW c \in SR PROVE RA(pos(c)) \in Nat /\ r <= RA(pos(c)) /\ RA(pos(c)) < MaxParallel
      <4> DEFINE i == pos(c)
      <4>1. i \in T /\ LiveReader(q, i, off)
        BY <2>2
      <4> HIDE DEF pos, i
      <4>2. ~Blocked(q, r, i, off) /\ i \in 1..Len(q)
        BY <4>1, <1>1, <1>2
      <4>3. ~(RA(i) >= MaxParallel)
        BY <4>1, <4>2 DEF Blocked, LiveReader
      <4>4. QED
        <5> HIDE DEF RA
        <5> QED  BY <4>2, <4>3, <1>8, SchedulerAssumption DEF i
    <3>2. QED  BY <3>1
  <2>4. \A c, d \in SR : c # d => RA(pos(c)) # RA(pos(d))
    <3>1. ASSUME NEW c \in SR, NEW d \in SR, c # d PROVE RA(pos(c)) # RA(pos(d))
      <4>1. pos(c) \in 1..Len(q) /\ pos(d) \in 1..Len(q) /\ pos(c) # pos(d)
        <5> HIDE DEF pos
        <5> QED  BY <2>2, <3>1, <1>1
      <4>2. LiveReader(q, pos(c), off) /\ LiveReader(q, pos(d), off)
        BY <2>2
      <4>3. QED
        <5> HIDE DEF pos, RA
        <5> QED  BY <4>1, <4>2, <1>8, <1>9
    <3>2. QED  BY <3>1
  <2>5. f \in [SR -> B]
    <3> HIDE DEF SR, RA, pos
    <3> QED  BY <2>3, SchedulerAssumption
  <2>6. IsFiniteSet(B) /\ Cardinality(B) = MaxParallel - r
    BY FS_Interval, SchedulerAssumption
  <2>7. \A c, d \in SR : c # d => f[c] # f[d]
    <3> HIDE DEF SR, RA, pos
    <3> QED  BY <2>3, <2>4
  <2>8. ~(Cardinality(B) < Cardinality(SR))
    <3> HIDE DEF f, B, SR
    <3> QED  BY <2>1, <2>5, <2>6, <2>7, FS_PigeonHole
  <2>9. QED
    <3> HIDE DEF B, SR
    <3> QED  BY <2>1, <2>6, <2>8, SchedulerAssumption
<1>11. ASSUME SX # {}
       PROVE  r = 0 /\ SR = {} /\ Cardinality(SX) = 1
  <2>1. PICK i \in T : q[i] \in SX /\ ~Stopped(q[i], off) /\ mode[q[i]] = "exclusive"
    BY <1>11, <1>5 DEF StartedIn
  <2>2. i \in 1..Len(q) /\ RA(i) = 0
    <3> HIDE DEF RA
    <3>1. ~(RA(i) > 0)
      BY <2>1, <1>2 DEF Blocked, RA
    <3>2. QED  BY <1>1, <1>8, <2>1, <3>1
  <2>3. r = 0
    <3> HIDE DEF RA
    <3> QED  BY <2>2, <1>8
  <2>4. EndsAfter(q, r, i, off)
    BY <2>1, <2>2 DEF EndsAfter
  <2>5. \A j \in T : j <= i
    <3>1. ASSUME NEW j \in T, ~(j <= i) PROVE FALSE
      <4>1. i \in 1..(j-1)
        BY <3>1, <2>2, <1>1
      <4>2. QED  BY <4>1, <1>2, <2>4
    <3>2. QED  BY <3>1
  <2>6. \A j \in T : j # i => Stopped(q[j], off)
    <3>1. ASSUME NEW j \in T, j # i, ~Stopped(q[j], off) PROVE FALSE
      <4>1. j \in 1..Len(q) /\ j \in 1..(i-1) /\ j < i
        BY <1>1, <2>2, <2>5, <3>1
      <4>2. mode[q[j]] = "exclusive" \/ mode[q[j]] = "parallel-safe"
        BY <4>1, <1>6, <1>7
      <4>3. CASE mode[q[j]] = "parallel-safe"
        <5>1. RA(j) < RA(i) /\ RA(j) \in Nat
          BY <4>1, <4>3, <2>2, <3>1, <1>8, <1>9 DEF LiveReader
        <5>2. QED
          <6> HIDE DEF RA
          <6> QED  BY <5>1, <2>2
      <4>4. CASE mode[q[j]] = "exclusive"
        <5>1. ~Blocked(q, r, j, off) /\ ~EndsAfter(q, r, j, off)
          BY <4>1, <2>1, <1>2
        <5>2. RA(j) \in Nat /\ ~(RA(j) > 0) /\ RA(j) # 0
          BY <5>1, <4>1, <4>4, <3>1, <1>8 DEF Blocked, EndsAfter
        <5>3. QED
          <6> HIDE DEF RA
          <6> QED  BY <5>2
      <4>5. QED  BY <4>2, <4>3, <4>4
    <3>2. QED  BY <3>1
  <2>7. \A c \in Started(q, w, r, off) : c = q[i]
    BY <1>5, <2>6
  <2>8. SX = {q[i]} /\ SR = {}
    BY <2>1, <2>7 DEF StartedIn
  <2>9. QED  BY <2>3, <2>8, FS_Singleton
<1>12. QED  BY <1>4, <1>5, <1>10, <1>11

-----------------------------------------------------------------------------
(* The inductive invariant.                                                *)

HoldingStates == {"running", "draining", "settled"}
Slots(st, m)  == {c \in Calls : parent[c] = NoParent /\ st[c] \in HoldingStates /\ mode[c] = m}

\* The counters agree with the reservations that st says are out.
Balanced(w, r, st) ==
  /\ r = Cardinality(Slots(st, "parallel-safe"))
  /\ r <= MaxParallel
  /\ w <=> Slots(st, "exclusive") # {}
  /\ Cardinality(Slots(st, "exclusive")) <= 1
  /\ w => r = 0

\* The queue holds waiting root calls, each once.
Waiting(q, st) ==
  /\ NoRepeats(q)
  /\ \A i \in 1..Len(q) : st[q[i]] = "queued" /\ parent[q[i]] = NoParent

\* A child that has started is the first of its parent's chain; a call not
\* made yet has no parent, and a chained one has.
Chained ==
  /\ \A c \in Calls : status[c] = "idle" => parent[c] = NoParent
  /\ \A c \in Calls : status[c] = "chained" => parent[c] # NoParent
  /\ \A c \in Calls : parent[c] # NoParent /\ status[c] \in {"running", "draining"} =>
       chain[parent[c]] # <<>> /\ Head(chain[parent[c]]) = c

IInv ==
  /\ TypeOK
  /\ Balanced(writer, readers, status)
  /\ Waiting(queue, status)
  /\ Chained

\* A drain from a balanced state ends in one, whoever calls it.
LEMMA DrainBalanced ==
  ASSUME NEW q \in Seq(Calls), NEW w \in BOOLEAN, NEW r \in Nat, NEW off,
         NEW st \in [Calls -> Statuses],
         mode \in [Calls -> Modes], UNCHANGED <<mode, parent>>,
         Balanced(w, r, st), Waiting(q, st), Drain(q, w, r, off, st)
  PROVE  /\ queue' \in Seq(Calls) /\ writer' \in BOOLEAN /\ readers' \in Nat
         /\ status' \in [Calls -> Statuses]
         /\ Balanced(writer, readers, status)' /\ Waiting(queue, status)'
         /\ \A c \in Calls : \/ status'[c] = st[c]
                             \/ /\ st[c] = "queued" /\ parent[c] = NoParent
                                /\ status'[c] \in {"running", "rejected"}
<1> DEFINE T  == Taken(q, w, r, off)
           n  == Cardinality(T)
           G  == {q[i] : i \in T}
           S  == Started(q, w, r, off)
           SR == StartedIn(q, w, r, off, "parallel-safe")
           SX == StartedIn(q, w, r, off, "exclusive")
           R0 == Slots(st, "parallel-safe")
           X0 == Slots(st, "exclusive")
           R1 == Slots(status, "parallel-safe")'
           X1 == Slots(status, "exclusive")'
<1>1. r <= MaxParallel /\ r = Cardinality(R0) /\ (w <=> X0 # {}) /\ Cardinality(X0) <= 1 /\ (w => r = 0)
  BY DEF Balanced
<1>2. /\ n \in 0..Len(q) /\ T = 1..n
      /\ S \in SUBSET Calls
      /\ w => S = {}
      /\ r + Cardinality(SR) <= MaxParallel
      /\ SX # {} => r = 0 /\ SR = {} /\ Cardinality(SX) = 1
  BY <1>1, StartedFits
<1>3. /\ queue' = SubSeq(q, n + 1, Len(q))
      /\ writer' = (w \/ \E c \in S : mode[c] = "exclusive")
      /\ readers' = r + Cardinality(SR)
      /\ status' = [c \in Calls |-> IF c \in S THEN "running" ELSE IF c \in G THEN "rejected" ELSE st[c]]
  BY DEF Drain, Started, StartedIn
<1>4. Len(q) \in Nat /\ \A i \in 1..Len(q) : q[i] \in Calls
  BY LenProperties, ElementOfSeq
<1>5. G \in SUBSET Calls /\ S \in SUBSET G
  BY <1>2, <1>4 DEF Started
<1>6. \A c \in G : st[c] = "queued" /\ parent[c] = NoParent
  BY <1>2, <1>4 DEF Waiting
<1>7. status' \in [Calls -> Statuses]
  BY <1>3 DEF Statuses
<1>8. \A c \in Calls : \/ status'[c] = st[c]
                       \/ /\ st[c] = "queued" /\ parent[c] = NoParent
                          /\ status'[c] \in {"running", "rejected"}
  BY <1>3, <1>5, <1>6
<1>9. /\ queue' \in Seq(Calls) /\ Len(queue') = Len(q) - n
      /\ \A i \in 1..Len(queue') : queue'[i] = q[n + i]
  <2>1. n \in Nat /\ n <= Len(q) /\ n + 1 \in Int /\ Len(q) \in Int
    BY <1>2, <1>4
  <2>2. \A i \in (n+1)..Len(q) : q[i] \in Calls
    BY <2>1, <1>4
  <2> HIDE DEF n
  <2>3. /\ queue' \in Seq(Calls)
        /\ Len(queue') = IF n + 1 <= Len(q) THEN Len(q) - (n + 1) + 1 ELSE 0
        /\ \A i \in 1..(Len(q) - (n+1) + 1) : queue'[i] = q[(n + 1) + i - 1]
    BY <2>1, <2>2, <1>3, SubSeqProperties
  <2>4. QED  BY <2>1, <2>3
<1>10. Waiting(queue, status)'
  <2>1. \A i \in 1..Len(queue') : n + i \in 1..Len(q) /\ n + i \notin T
    BY <1>2, <1>4, <1>9
  <2>2. \A i \in 1..Len(queue') : queue'[i] \notin G
    <3> HIDE DEF n, T
    <3> QED  BY <2>1, <1>2, <1>4, <1>9 DEF Waiting, NoRepeats
  <2>3. \A i \in 1..Len(queue') : status'[queue'[i]] = "queued" /\ parent'[queue'[i]] = NoParent
    <3>1. ASSUME NEW i \in 1..Len(queue')
          PROVE  status'[queue'[i]] = "queued" /\ parent'[queue'[i]] = NoParent
      <4>1. queue'[i] = q[n + i] /\ n + i \in 1..Len(q) /\ queue'[i] \in Calls
        BY <2>1, <1>4, <1>9
      <4>2. status'[queue'[i]] = st[queue'[i]]
        <5> HIDE DEF n, T, G, S
        <5> QED  BY <4>1, <2>2, <1>3, <1>5
      <4>3. st[queue'[i]] = "queued" /\ parent[queue'[i]] = NoParent
        <5> HIDE DEF n
        <5> QED  BY <4>1 DEF Waiting
      <4>4. QED  BY <4>2, <4>3
    <3>2. QED  BY <3>1
  <2>4. \A i, j \in 1..Len(queue') : i # j => queue'[i] # queue'[j]
    <3>1. \A i, j \in 1..Len(queue') : i # j => n + i # n + j
      BY <1>2, <1>4, <1>9
    <3> HIDE DEF n, T
    <3> QED  BY <2>1, <3>1, <1>9 DEF Waiting, NoRepeats
  <2>5. QED  BY <2>3, <2>4 DEF Waiting, NoRepeats
<1>11. R1 = R0 \cup SR /\ X1 = X0 \cup SX /\ R0 \cap SR = {}
  BY <1>3, <1>5, <1>6 DEF Slots, HoldingStates, StartedIn
<1>12. IsFiniteSet(R0) /\ IsFiniteSet(SR) /\ IsFiniteSet(X0) /\ IsFiniteSet(SX)
  <2>1. R0 \in SUBSET Calls /\ SR \in SUBSET Calls /\ X0 \in SUBSET Calls /\ SX \in SUBSET Calls
    BY <1>2 DEF Slots, StartedIn
  <2>2. QED  BY <2>1, FS_Subset, SchedulerAssumption
<1>13. Cardinality(SR) \in Nat
  BY <1>12, FS_CardinalityType
<1>14. Cardinality(R1) = r + Cardinality(SR)
  <2>1. Cardinality(R0 \cup SR) = Cardinality(R0) + Cardinality(SR) - Cardinality(R0 \cap SR)
    BY <1>12, FS_Union
  <2>2. Cardinality(R0 \cap SR) = 0
    BY <1>11, FS_EmptySet
  <2> HIDE DEF R0, R1, SR
  <2>3. QED  BY <2>1, <2>2, <1>1, <1>11, <1>13
<1>15. writer' <=> X1 # {}
  BY <1>1, <1>3, <1>11 DEF StartedIn
<1>16. Cardinality(X1) <= 1 /\ (writer' => readers' = 0)
  <2>1. CASE w
    <3>1. SX = {} /\ SR = {}
      BY <2>1, <1>2 DEF StartedIn
    <3>2. Cardinality(SR) = 0 /\ X1 = X0
      BY <3>1, <1>11, FS_EmptySet
    <3>3. r = 0
      BY <2>1, <1>1
    <3>4. readers' = 0 /\ Cardinality(X1) <= 1
      BY <3>2, <3>3, <1>1, <1>3
    <3>5. QED  BY <3>4
  <2>2. CASE ~w /\ SX = {}
    <3>1. X1 = {} /\ Cardinality(X1) = 0
      BY <2>2, <1>1, <1>11, FS_EmptySet
    <3>2. ~writer'
      BY <3>1, <1>15
    <3>3. Cardinality(X1) <= 1
      BY <3>1
    <3>4. QED  BY <3>2, <3>3
  <2>3. CASE ~w /\ SX # {}
    <3>1. X1 = SX /\ r = 0 /\ Cardinality(SR) = 0 /\ Cardinality(SX) = 1
      BY <2>3, <1>1, <1>2, <1>11, FS_EmptySet
    <3>2. readers' = 0 /\ Cardinality(X1) <= 1
      BY <3>1, <1>3
    <3>3. QED  BY <3>2
  <2> HIDE DEF X1, SX
  <2>4. QED  BY <2>1, <2>2, <2>3, Zenon
<1>17. readers' \in Nat /\ writer' \in BOOLEAN
  BY <1>3, <1>13
<1>18. Balanced(writer, readers, status)'
  BY <1>2, <1>3, <1>14, <1>15, <1>16 DEF Balanced
<1>19. QED  BY <1>7, <1>8, <1>9, <1>10, <1>17, <1>18

-----------------------------------------------------------------------------
LEMMA InitIInv == Init => IInv
<1> SUFFICES ASSUME Init PROVE IInv
  OBVIOUS
<1>1. TypeOK
  <2>1. queue \in Seq(Calls) /\ chain \in [Calls -> Seq(Calls)]
    BY EmptySeq DEF Init
  <2>2. QED  BY <2>1 DEF Init, TypeOK, Statuses
<1>2. Balanced(writer, readers, status)
  <2>1. Slots(status, "parallel-safe") = {} /\ Slots(status, "exclusive") = {}
    BY DEF Init, Slots, HoldingStates
  <2>2. Cardinality({}) = 0
    BY FS_EmptySet
  <2>3. ~writer /\ readers = 0
    BY DEF Init
  <2>4. readers = Cardinality({}) /\ readers <= MaxParallel /\ Cardinality({}) <= 1
    BY <2>2, <2>3, SchedulerAssumption
  <2>5. QED  BY <2>1, <2>3, <2>4 DEF Balanced
<1>3. Waiting(queue, status)
  <2>1. Len(queue) = 0
    BY EmptySeq DEF Init
  <2>2. QED  BY <2>1 DEF Waiting, NoRepeats
<1>4. Chained
  BY DEF Init, Chained
<1>5. QED  BY <1>1, <1>2, <1>3, <1>4 DEF IInv

\* What drain is called on: a queue, counters and statuses that agree.
Ready(q, w, r, st) ==
  /\ q \in Seq(Calls) /\ w \in BOOLEAN /\ r \in Nat /\ st \in [Calls -> Statuses]
  /\ Balanced(w, r, st) /\ Waiting(q, st)

\* st is where the calls stand once a root call was queued, cancelled or
\* released, and who was ahead of an entry of q still is, or waits no more.
Follows(q, st) ==
  /\ \A c \in Calls :
       \/ st[c] = status[c]
       \/ /\ parent[c] = NoParent
          /\ \/ status[c] = "idle" /\ st[c] = "queued"
             \/ status[c] = "queued" /\ st[c] = "rejected"
             \/ status[c] = "settled" /\ st[c] = "released"
  /\ \A i \in 1..Len(q) : \A d \in Ahead(q[i]) :
       st[d] = "queued" => \E j \in 1..(i-1) : q[j] = d

\* Chained survives every step that drains: no child moves in one.
LEMMA DrainChained ==
  ASSUME IInv, UNCHANGED <<parent, chain>>,
         \A c \in Calls : \/ status'[c] = status[c]
                          \/ status'[c] \notin {"idle", "chained"} /\ parent[c] = NoParent
  PROVE  Chained'
BY DEF IInv, Chained

\* Balanced only depends on which root calls hold a slot.
LEMMA SameSlots ==
  ASSUME Balanced(writer, readers, status), UNCHANGED <<writer, readers, mode>>,
         \A c \in Calls : (parent'[c] = NoParent /\ status'[c] \in HoldingStates) <=>
                         (parent[c] = NoParent /\ status[c] \in HoldingStates)
  PROVE  Balanced(writer, readers, status)'
<1>1. \A m : Slots(status, m)' = Slots(status, m)
  BY DEF Slots
<1>2. QED  BY <1>1 DEF Balanced

\* Waiting is kept when no queued call moves.
LEMMA SameWaiting ==
  ASSUME Waiting(queue, status), queue \in Seq(Calls), UNCHANGED queue,
         \A c \in Calls : status[c] = "queued" /\ parent[c] = NoParent =>
                         status'[c] = "queued" /\ parent'[c] = NoParent
  PROVE  Waiting(queue, status)'
<1>1. \A i \in 1..Len(queue) : queue[i] \in Calls
  BY ElementOfSeq
<1>2. QED  BY <1>1 DEF Waiting, NoRepeats

-----------------------------------------------------------------------------
\* A root call is queued behind all the others.
LEMMA RunReady ==
  ASSUME IInv, NEW c \in Calls, status[c] = "idle"
  PROVE  LET q  == Append(queue, c)
             st == [status EXCEPT ![c] = "queued"]
         IN Ready(q, writer, readers, st) /\ Follows(q, st)
<1> DEFINE q  == Append(queue, c)
           st == [status EXCEPT ![c] = "queued"]
<1> USE DEF Statuses
<1>0. TypeOK /\ Balanced(writer, readers, status) /\ Waiting(queue, status) /\ Chained
  BY DEF IInv
<1>2. parent[c] = NoParent
  BY <1>0 DEF Chained
<1>3. st \in [Calls -> Statuses] /\ q \in Seq(Calls) /\ Len(q) = Len(queue) + 1
      /\ (\A i \in 1..Len(queue) : q[i] = queue[i]) /\ q[Len(queue) + 1] = c
      /\ Len(queue) \in Nat /\ (\A i \in 1..Len(queue) : queue[i] \in Calls)
  BY <1>0, AppendProperties, LenProperties, ElementOfSeq DEF TypeOK
<1>4. \A i \in 1..Len(q) : i \in 1..Len(queue) \/ i = Len(queue) + 1
  BY <1>3
<1>5. \A i \in 1..Len(queue) : queue[i] # c
  BY <1>0, <1>0 DEF Waiting
<1>6. Waiting(q, st)
  <2>1. NoRepeats(q)
    <3> HIDE DEF q
    <3> QED  BY <1>0, <1>3, <1>4, <1>5 DEF Waiting, NoRepeats
  <2>2. \A i \in 1..Len(q) : st[q[i]] = "queued" /\ parent[q[i]] = NoParent
    <3>1. st[c] = "queued" /\ \A d \in Calls : d # c => st[d] = status[d]
      BY <1>0 DEF TypeOK
    <3> HIDE DEF q, st
    <3> QED  BY <3>1, <1>0, <1>2, <1>3, <1>4, <1>5 DEF Waiting
  <2>3. QED  BY <2>1, <2>2 DEF Waiting
<1>7. Balanced(writer, readers, st)
  <2>1. \A m : Slots(st, m) = Slots(status, m)
    BY <1>0, <1>0 DEF Slots, HoldingStates, TypeOK
  <2> HIDE DEF st
  <2> QED  BY <2>1, <1>0 DEF Balanced
<1>8. Follows(q, st)
  <2>1. \A d \in Calls : st[d] = status[d] \/ (d = c /\ st[d] = "queued")
    BY <1>0 DEF TypeOK
  <2>2. ASSUME NEW i \in 1..Len(q), NEW d \in Ahead(q[i])
        PROVE  \E j \in 1..(i-1) : q[j] = d
    <3>1. PICK j \in 1..Len(queue) : d = queue[j] /\ \A k \in 1..Len(queue) : queue[k] = q[i] => j < k
      BY <2>2 DEF Ahead
    <3> HIDE DEF q, st
    <3> QED  BY <3>1, <1>3, <1>4
  <2> HIDE DEF q, st
  <2> QED  BY <2>1, <2>2, <1>2 DEF Follows
<1>9. QED
  <2>1. q \in Seq(Calls) /\ st \in [Calls -> Statuses]
    BY <1>3
  <2>2. Ready(q, writer, readers, st)
    <3> HIDE DEF q, st
    <3> QED  BY <1>0, <1>6, <1>7, <2>1 DEF Ready, TypeOK
  <2>3. QED  BY <1>8, <2>2

\* A settled root call gives its slot back.
LEMMA ReleaseReady ==
  ASSUME IInv, NEW c \in Calls, status[c] = "settled", parent[c] = NoParent
  PROVE  LET w  == (writer /\ mode[c] # "exclusive")
             r  == IF mode[c] = "exclusive" THEN readers ELSE readers - 1
             st == [status EXCEPT ![c] = "released"]
         IN Ready(queue, w, r, st) /\ Follows(queue, st)
<1> DEFINE w  == (writer /\ mode[c] # "exclusive")
           r  == IF mode[c] = "exclusive" THEN readers ELSE readers - 1
           st == [status EXCEPT ![c] = "released"]
<1> USE DEF Statuses
<1>0. TypeOK /\ Balanced(writer, readers, status) /\ Waiting(queue, status) /\ Chained
  BY DEF IInv
<1>2. st \in [Calls -> Statuses] /\ w \in BOOLEAN
  BY <1>0 DEF TypeOK
<1>3. Waiting(queue, st)
  <2>1. \A i \in 1..Len(queue) : queue[i] \in Calls
    BY <1>0, ElementOfSeq DEF TypeOK
  <2>2. \A d \in Calls : d # c => st[d] = status[d]
    BY <1>0 DEF TypeOK
  <2>3. \A i \in 1..Len(queue) : queue[i] # c
    BY <1>0, <1>0 DEF Waiting
  <2> HIDE DEF st
  <2> QED  BY <2>1, <2>2, <2>3, <1>0 DEF Waiting
<1>4. r \in Nat /\ Balanced(w, r, st)
  <2> DEFINE R0 == Slots(status, "parallel-safe")
             X0 == Slots(status, "exclusive")
             R1 == Slots(st, "parallel-safe")
             X1 == Slots(st, "exclusive")
  <2>1. IsFiniteSet(R0) /\ IsFiniteSet(X0)
    <3>1. R0 \in SUBSET Calls /\ X0 \in SUBSET Calls
      BY DEF Slots
    <3>2. QED  BY <3>1, FS_Subset, SchedulerAssumption
  <2>2. readers \in Nat /\ readers = Cardinality(R0) /\ readers <= MaxParallel
        /\ (writer <=> X0 # {}) /\ Cardinality(X0) <= 1 /\ (writer => readers = 0)
    BY <1>0 DEF Balanced, TypeOK
  <2>3. CASE mode[c] = "exclusive"
    <3>1. R1 = R0 /\ X1 = X0 \ {c} /\ c \in X0
      BY <2>3, <1>0, <1>0 DEF Slots, HoldingStates, TypeOK
    <3>2. Cardinality(X0 \ {c}) = Cardinality(X0) - 1 /\ IsFiniteSet(X0 \ {c})
      BY <3>1, <2>1, FS_RemoveElement
    <3>3. Cardinality(X0 \ {c}) \in Nat /\ Cardinality(X0) \in Nat
      BY <3>2, <2>1, FS_CardinalityType
    <3>4. Cardinality(X1) = 0
      <4> HIDE DEF X0, X1
      <4> QED  BY <3>1, <3>2, <3>3, <2>2
    <3>5. X1 = {} /\ w = FALSE /\ r = readers
      <4>1. IsFiniteSet(X1)
        BY <3>1, <3>2
      <4>2. X1 = {}
        <5> HIDE DEF X1
        <5> QED  BY <4>1, <3>4, FS_EmptySet
      <4>3. QED  BY <4>2, <2>3
    <3>6. r \in Nat /\ r = Cardinality(R1) /\ r <= MaxParallel /\ Cardinality(X1) <= 1
      BY <2>2, <3>1, <3>4, <3>5
    <3>7. (w <=> X1 # {}) /\ (w => r = 0)
      BY <3>5
    <3>8. QED
      <4> HIDE DEF st, w, r
      <4> QED  BY <3>6, <3>7 DEF Balanced
  <2>4. CASE mode[c] = "parallel-safe"
    <3>1. X1 = X0 /\ R1 = R0 \ {c} /\ c \in R0
      BY <2>4, <1>0, <1>0 DEF Slots, HoldingStates, TypeOK
    <3>2. Cardinality(R0 \ {c}) = Cardinality(R0) - 1 /\ IsFiniteSet(R0 \ {c})
      BY <3>1, <2>1, FS_RemoveElement
    <3>3. Cardinality(R0 \ {c}) \in Nat
      BY <3>2, FS_CardinalityType
    <3>4. r = readers - 1 /\ w = writer
      BY <2>4, <1>0 DEF TypeOK
    <3>5. r \in Nat /\ r = Cardinality(R1) /\ r <= MaxParallel /\ readers # 0 /\ Cardinality(X1) <= 1
      <4> HIDE DEF R0, R1, X0, X1, r
      <4> QED  BY <2>2, <3>1, <3>2, <3>3, <3>4, SchedulerAssumption
    <3>6. (w <=> X1 # {}) /\ ~w
      <4>1. ~writer
        BY <2>2, <3>5
      <4>2. QED  BY <4>1, <2>2, <3>1, <3>4
    <3>7. QED
      <4> HIDE DEF st, w, r
      <4> QED  BY <3>5, <3>6 DEF Balanced
  <2>5. mode[c] = "exclusive" \/ mode[c] = "parallel-safe"
    BY <1>0 DEF TypeOK, Modes
  <2>6. QED  BY <2>3, <2>4, <2>5
<1>5. Follows(queue, st)
  <2>1. \A d \in Calls : st[d] = status[d] \/ (d = c /\ st[d] = "released")
    BY <1>0 DEF TypeOK
  <2>2. ASSUME NEW i \in 1..Len(queue), NEW d \in Ahead(queue[i])
        PROVE  \E j \in 1..(i-1) : queue[j] = d
    <3>1. Len(queue) \in Nat
      BY <1>0, LenProperties DEF TypeOK
    <3>2. QED  BY <2>2, <3>1 DEF Ahead
  <2> HIDE DEF st
  <2> QED  BY <2>1, <2>2 DEF Follows
<1>6. QED  BY <1>0, <1>2, <1>3, <1>4, <1>5 DEF Ready, TypeOK

\* cancel drains what it leaves.
LEMMA CancelReady ==
  ASSUME IInv, NEW S \in SUBSET Calls
  PROVE  LET gone == {c \in S : \E i \in 1..Len(queue) : queue[i] = c}
             q    == Without(queue, gone)
             st   == [c \in Calls |-> IF c \in gone THEN "rejected" ELSE status[c]]
         IN Ready(q, writer, readers, st) /\ Follows(q, st)
<1> DEFINE gone == {c \in S : \E i \in 1..Len(queue) : queue[i] = c}
           q    == Without(queue, gone)
           st   == [c \in Calls |-> IF c \in gone THEN "rejected" ELSE status[c]]
<1>0. TypeOK /\ Balanced(writer, readers, status) /\ Waiting(queue, status) /\ Chained
  BY DEF IInv
<1>2. \A c \in gone : c \in Calls /\ status[c] = "queued" /\ parent[c] = NoParent
  BY <1>0 DEF Waiting
<1>3. st \in [Calls -> Statuses]
  BY <1>0 DEF TypeOK, Statuses
<1>4. /\ q \in Seq(Calls)
      /\ \A n \in 1..Len(q) : \E i \in 1..Len(queue) : q[n] = queue[i] /\ queue[i] \notin gone
      /\ NoRepeats(q)
      /\ \A n \in 1..Len(q) : \A j \in 1..Len(queue) :
           (queue[j] \notin gone /\ \A i \in 1..Len(queue) : queue[i] = q[n] => j < i) =>
             \E m \in 1..(n-1) : q[m] = queue[j]
  <2>1. queue \in Seq(Calls) /\ NoRepeats(queue)
    BY <1>0 DEF TypeOK, Waiting
  <2> HIDE DEF gone
  <2>2. QED  BY <2>1, WithoutFacts
<1>5. Waiting(q, st)
  <2>1. \A n \in 1..Len(q) : st[q[n]] = "queued" /\ parent[q[n]] = NoParent
    <3>1. \A i \in 1..Len(queue) : queue[i] \in Calls
      BY <1>0, ElementOfSeq DEF TypeOK
    <3> HIDE DEF gone, q
    <3> QED  BY <3>1, <1>4, <1>0 DEF Waiting
  <2> HIDE DEF gone, q, st
  <2> QED  BY <2>1, <1>4 DEF Waiting
<1>6. Balanced(writer, readers, st)
  <2>1. \A m : Slots(st, m) = Slots(status, m)
    BY <1>2 DEF Slots, HoldingStates
  <2> HIDE DEF st
  <2> QED  BY <2>1, <1>0 DEF Balanced
<1>7. Follows(q, st)
  <2>1. \A c \in Calls : st[c] = status[c] \/ (parent[c] = NoParent /\ status[c] = "queued" /\ st[c] = "rejected")
    BY <1>2
  <2>2. ASSUME NEW n \in 1..Len(q), NEW d \in Ahead(q[n]), st[d] = "queued"
        PROVE  \E m \in 1..(n-1) : q[m] = d
    <3>1. PICK j \in 1..Len(queue) : d = queue[j] /\ \A i \in 1..Len(queue) : queue[i] = q[n] => j < i
      BY <2>2 DEF Ahead
    <3>2. d \notin gone
      <4>1. d \in gone => st[d] = "rejected"
        BY <1>2
      <4> HIDE DEF st, gone
      <4> QED  BY <2>2, <4>1
    <3> HIDE DEF q, gone, st
    <3> QED  BY <3>1, <3>2, <1>4
  <2> HIDE DEF st, q
  <2> QED  BY <2>1, <2>2 DEF Follows
<1>8. QED  BY <1>0, <1>3, <1>4, <1>5, <1>6, <1>7 DEF Ready, TypeOK

\* cancel, as called by a signal or by a timer, keeps the counters balanced.
LEMMA CancelBalanced ==
  ASSUME IInv, NEW S \in SUBSET Calls, NEW off, UNCHANGED <<mode, parent, chain>>, Cancel(S, off)
  PROVE  /\ queue' \in Seq(Calls) /\ writer' \in BOOLEAN /\ readers' \in Nat
         /\ status' \in [Calls -> Statuses]
         /\ Balanced(writer, readers, status)' /\ Waiting(queue, status)'
         /\ \A c \in Calls : \/ status'[c] = status[c]
                             \/ /\ status[c] = "queued" /\ parent[c] = NoParent
                                /\ status'[c] \in {"running", "rejected"}
<1> DEFINE gone == {c \in S : \E i \in 1..Len(queue) : queue[i] = c}
           q    == Without(queue, gone)
           st   == [c \in Calls |-> IF c \in gone THEN "rejected" ELSE status[c]]
<1>0. TypeOK /\ Balanced(writer, readers, status) /\ Waiting(queue, status) /\ Chained
  BY DEF IInv
<1>1. CASE gone = {}
  <2>1. UNCHANGED <<queue, readers, writer, status>>
    BY <1>1 DEF Cancel
  <2>2. QED  BY <2>1, <1>0, SameSlots, SameWaiting DEF TypeOK
<1>2. CASE gone # {}
  <2>1. Drain(q, writer, readers, off, st)
    BY <1>2 DEF Cancel
  <2>2. \A c \in gone : c \in Calls /\ status[c] = "queued" /\ parent[c] = NoParent
    BY <1>0 DEF Waiting
  <2>3. Ready(q, writer, readers, st)
    BY CancelReady
  <2>4. mode \in [Calls -> Modes]
    BY <1>0 DEF TypeOK
  <2>5. /\ queue' \in Seq(Calls) /\ writer' \in BOOLEAN /\ readers' \in Nat
        /\ status' \in [Calls -> Statuses]
        /\ Balanced(writer, readers, status)' /\ Waiting(queue, status)'
        /\ \A c \in Calls : \/ status'[c] = st[c]
                            \/ /\ st[c] = "queued" /\ parent[c] = NoParent
                               /\ status'[c] \in {"running", "rejected"}
    <3> HIDE DEF gone, q, st
    <3> QED  BY <2>1, <2>3, <2>4, DrainBalanced DEF Ready
  <2>6. QED  BY <2>2, <2>5
<1>3. QED  BY <1>1, <1>2

-----------------------------------------------------------------------------
\* Every step keeps the inductive invariant.
LEMMA StepIInv == IInv /\ [Next]_vars => IInv'
<1> SUFFICES ASSUME IInv, [Next]_vars PROVE IInv'
  OBVIOUS
<1>0. TypeOK /\ Balanced(writer, readers, status) /\ Waiting(queue, status) /\ Chained
  BY DEF IInv
<1> USE DEF Statuses
<1>1. ASSUME NEW c \in Calls, Run(c) PROVE IInv'
  <2>1. CASE Stopped(c, aborted \cup expired)
    <3>1. /\ status[c] = "idle" /\ status' = [status EXCEPT ![c] = "rejected"]
          /\ UNCHANGED <<queue, readers, writer, mode, parent, inherits, chain, awaited, aborted, expired>>
      BY <1>1, <2>1 DEF Run
    <3>2. TypeOK'
      BY <3>1, <1>0 DEF TypeOK
    <3>3. Balanced(writer, readers, status)'
      BY <3>1, <1>0, SameSlots DEF TypeOK, HoldingStates
    <3>4. Waiting(queue, status)'
      BY <3>1, <1>0, SameWaiting DEF TypeOK
    <3>5. Chained'
      BY <3>1, <1>0 DEF Chained, TypeOK
    <3>6. QED  BY <3>2, <3>3, <3>4, <3>5 DEF IInv
  <2>2. CASE ~Stopped(c, aborted \cup expired)
    <3> DEFINE q  == Append(queue, c)
               st == [status EXCEPT ![c] = "queued"]
    <3>1. /\ status[c] = "idle" /\ Drain(q, writer, readers, aborted \cup expired, st)
          /\ UNCHANGED <<mode, parent, inherits, chain, awaited, aborted, expired>>
      BY <1>1, <2>2 DEF Run
    <3>2. parent[c] = NoParent
      BY <3>1, <1>0 DEF Chained
    <3>3. Ready(q, writer, readers, st)
      BY <3>1, RunReady
    <3>8. /\ queue' \in Seq(Calls) /\ writer' \in BOOLEAN /\ readers' \in Nat
          /\ status' \in [Calls -> Statuses]
          /\ Balanced(writer, readers, status)' /\ Waiting(queue, status)'
          /\ \A d \in Calls : \/ status'[d] = st[d]
                              \/ /\ st[d] = "queued" /\ parent[d] = NoParent
                                 /\ status'[d] \in {"running", "rejected"}
      <4>1. writer \in BOOLEAN /\ readers \in Nat /\ mode \in [Calls -> Modes]
        BY <1>0 DEF TypeOK
      <4> HIDE DEF q, st
      <4> QED  BY <4>1, <3>1, <3>3, DrainBalanced DEF Ready
    <3>9. Chained'
      <4>1. \A d \in Calls : \/ status'[d] = status[d]
                             \/ status'[d] \notin {"idle", "chained"} /\ parent[d] = NoParent
        BY <3>1, <3>2, <3>8, <1>0 DEF TypeOK
      <4>2. QED  BY <4>1, <3>1, DrainChained
    <3>10. QED  BY <3>1, <3>8, <3>9, <1>0 DEF IInv, TypeOK
  <2>3. QED  BY <2>1, <2>2
<1>2. ASSUME NEW S \in SUBSET Calls, NEW off, Cancel(S, off), UNCHANGED <<mode, parent, inherits, chain, awaited>>,
             aborted' \in SUBSET Calls, expired' \in SUBSET Calls
      PROVE IInv'
  <2>1. /\ queue' \in Seq(Calls) /\ writer' \in BOOLEAN /\ readers' \in Nat
        /\ status' \in [Calls -> Statuses]
        /\ Balanced(writer, readers, status)' /\ Waiting(queue, status)'
        /\ \A c \in Calls : \/ status'[c] = status[c]
                            \/ /\ status[c] = "queued" /\ parent[c] = NoParent
                               /\ status'[c] \in {"running", "rejected"}
    BY <1>2, CancelBalanced
  <2>2. Chained'
    BY <2>1, <1>2, DrainChained
  <2>3. QED  BY <2>1, <2>2, <1>2, <1>0 DEF IInv, TypeOK
<1>3. ASSUME NEW S \in SUBSET Calls, Abort(S) PROVE IInv'
  BY <1>3, <1>2, <1>0 DEF Abort, TypeOK
<1>4. ASSUME NEW c \in Calls, DeadlinePasses(c) PROVE IInv'
  <2>1. TypeOK'
    BY <1>4, <1>0 DEF TypeOK, DeadlinePasses
  <2>2. Balanced(writer, readers, status)' /\ Waiting(queue, status)'
    BY <1>4, <1>0, SameSlots, SameWaiting DEF DeadlinePasses, TypeOK
  <2>3. Chained'
    BY <1>4, <1>0 DEF Chained, DeadlinePasses
  <2>4. QED  BY <2>1, <2>2, <2>3 DEF IInv
<1>5. ASSUME NEW c \in Calls, TimerFires(c) PROVE IInv'
  BY <1>5, <1>2, <1>0 DEF TimerFires, TypeOK
<1>6. ASSUME NEW c \in Calls, Release(c) PROVE IInv'
  <2> DEFINE w  == (writer /\ mode[c] # "exclusive")
             r  == IF mode[c] = "exclusive" THEN readers ELSE readers - 1
             st == [status EXCEPT ![c] = "released"]
  <2>1. /\ status[c] = "settled" /\ parent[c] = NoParent
        /\ Drain(queue, w, r, aborted \cup expired, st)
        /\ UNCHANGED <<mode, parent, inherits, chain, awaited, aborted, expired>>
    BY <1>6 DEF Release
  <2>2. Ready(queue, w, r, st)
    BY <2>1, ReleaseReady
  <2>5. /\ queue' \in Seq(Calls) /\ writer' \in BOOLEAN /\ readers' \in Nat
        /\ status' \in [Calls -> Statuses]
        /\ Balanced(writer, readers, status)' /\ Waiting(queue, status)'
        /\ \A d \in Calls : \/ status'[d] = st[d]
                            \/ /\ st[d] = "queued" /\ parent[d] = NoParent
                               /\ status'[d] \in {"running", "rejected"}
    <3> HIDE DEF w, r, st
    <3> QED  BY <1>0, <2>1, <2>2, DrainBalanced DEF TypeOK, Ready
  <2>6. Chained'
    <3>1. \A d \in Calls : \/ status'[d] = status[d]
                           \/ status'[d] \notin {"idle", "chained"} /\ parent[d] = NoParent
      BY <2>1, <2>5, <1>0 DEF TypeOK
    <3>2. QED  BY <3>1, <2>1, DrainChained
  <2>7. QED  BY <2>1, <2>5, <2>6, <1>0 DEF IInv, TypeOK
<1>7. ASSUME NEW c \in Calls, OperationEnds(c) PROVE IInv'
  <2>1. /\ status[c] = "running" /\ status' = [status EXCEPT ![c] = "draining"]
        /\ UNCHANGED <<queue, readers, writer, mode, parent, inherits, chain, awaited, aborted, expired>>
    BY <1>7 DEF OperationEnds, Running
  <2>2. TypeOK'
    BY <2>1, <1>0 DEF TypeOK
  <2>3. Balanced(writer, readers, status)' /\ Waiting(queue, status)'
    BY <2>1, <1>0, SameSlots, SameWaiting DEF TypeOK, HoldingStates
  <2>4. Chained'
    BY <2>1, <1>0 DEF Chained, TypeOK
  <2>5. QED  BY <2>2, <2>3, <2>4 DEF IInv
<1>8. ASSUME NEW c \in Calls, Settle(c) PROVE IInv'
  <2>1. /\ status[c] = "draining" /\ status' = [status EXCEPT ![c] = "settled"]
        /\ chain' = IF parent[c] = NoParent THEN chain ELSE [chain EXCEPT ![parent[c]] = Tail(@)]
        /\ UNCHANGED <<queue, readers, writer, mode, parent, inherits, awaited, aborted, expired>>
    BY <1>8 DEF Settle
  <2>2. chain' \in [Calls -> Seq(Calls)]
    <3>1. CASE parent[c] = NoParent
      BY <3>1, <2>1, <1>0 DEF TypeOK
    <3>2. CASE parent[c] # NoParent
      <4>1. parent[c] \in Calls /\ chain[parent[c]] # <<>> /\ chain[parent[c]] \in Seq(Calls)
        BY <3>2, <2>1, <1>0 DEF TypeOK, Chained
      <4>2. Tail(chain[parent[c]]) \in Seq(Calls)
        BY <4>1, HeadTailProperties
      <4>3. QED  BY <3>2, <4>2, <2>1, <1>0 DEF TypeOK
    <3>3. QED  BY <3>1, <3>2
  <2>3. TypeOK'
    BY <2>1, <2>2, <1>0 DEF TypeOK
  <2>4. Balanced(writer, readers, status)' /\ Waiting(queue, status)'
    BY <2>1, <1>0, SameSlots, SameWaiting DEF TypeOK, HoldingStates
  <2>5. Chained'
    <3>1. ASSUME NEW d \in Calls, parent[d] # NoParent, status'[d] \in {"running", "draining"}
          PROVE  chain'[parent[d]] = chain[parent[d]] /\ status'[d] = status[d]
      <4>1. d # c /\ status'[d] = status[d]
        BY <3>1, <2>1, <1>0 DEF TypeOK
      <4>2. parent[d] # parent[c]
        BY <3>1, <4>1, <2>1, <1>0 DEF Chained
      <4>3. QED  BY <4>1, <4>2, <2>1, <1>0, <3>1 DEF TypeOK
    <3>2. /\ \A d \in Calls : status'[d] = status[d] \/ status'[d] = "settled"
          /\ parent' = parent
      BY <2>1, <1>0 DEF TypeOK
    <3>3. \A d \in Calls :
            /\ status[d] = "idle" => parent[d] = NoParent
            /\ status[d] = "chained" => parent[d] # NoParent
            /\ parent[d] # NoParent /\ status[d] \in {"running", "draining"} =>
                 chain[parent[d]] # <<>> /\ Head(chain[parent[d]]) = d
      BY <1>0 DEF Chained
    <3>4. ASSUME NEW d \in Calls, parent[d] # NoParent, status'[d] \in {"running", "draining"}
          PROVE  chain'[parent[d]] # <<>> /\ Head(chain'[parent[d]]) = d
      BY <3>1, <3>3, <3>4
    <3>5. \A d \in Calls : /\ status'[d] = "idle" => parent[d] = NoParent
                           /\ status'[d] = "chained" => parent[d] # NoParent
      BY <3>2, <3>3
    <3>6. QED  BY <3>2, <3>4, <3>5 DEF Chained
  <2>6. QED  BY <2>3, <2>4, <2>5 DEF IInv
<1>9. ASSUME NEW c \in Calls, NEW p \in Calls, NEW await \in BOOLEAN, RunChild(c, p, await) PROVE IInv'
  <2>1. /\ status[c] = "idle" /\ p # c /\ parent' = [parent EXCEPT ![c] = p]
        /\ status' \in {[status EXCEPT ![c] = "rejected"], [status EXCEPT ![c] = "chained"]}
        /\ chain' \in {chain, [chain EXCEPT ![p] = Append(@, c)]}
        /\ inherits' \in {inherits, [inherits EXCEPT ![c] = ChildOptions(c, p)]}
        /\ awaited' \in {awaited, awaited \cup {c}}
        /\ UNCHANGED <<queue, readers, writer, mode, aborted, expired>>
    BY <1>9 DEF RunChild
  <2>2. chain[p] \in Seq(Calls) /\ Append(chain[p], c) \in Seq(Calls) /\ Append(chain[p], c) # <<>>
        /\ (chain[p] # <<>> => Head(Append(chain[p], c)) = Head(chain[p]))
    <3>1. chain[p] \in Seq(Calls)
      BY <1>0 DEF TypeOK
    <3>2. Append(chain[p], c) \in Seq(Calls) /\ Append(chain[p], c) # <<>>
      BY <3>1, AppendProperties
    <3>3. Head(Append(chain[p], c)) = IF chain[p] = <<>> THEN c ELSE Head(chain[p])
      BY <3>1, HeadTailAppend
    <3>4. QED  BY <3>1, <3>2, <3>3
  <2>3. ChildOptions(c, p) \in SUBSET Calls
    BY <1>0 DEF TypeOK, ChildOptions
  <2>4. TypeOK'
    <3>1. /\ parent' \in [Calls -> Calls \cup {NoParent}]
          /\ status' \in [Calls -> Statuses]
      <4>1. parent \in [Calls -> Calls \cup {NoParent}] /\ status \in [Calls -> Statuses]
        BY <1>0 DEF TypeOK
      <4>2. parent' \in [Calls -> Calls \cup {NoParent}]
        BY <4>1, <2>1
      <4>3. status' \in [Calls -> Statuses]
        BY <4>1, <2>1
      <4>4. QED  BY <4>2, <4>3
    <3>2. chain' \in [Calls -> Seq(Calls)]
      BY <2>1, <2>2, <1>0 DEF TypeOK
    <3>3. inherits' \in [Calls -> SUBSET Calls] /\ awaited' \in SUBSET Calls
      <4>1. inherits \in [Calls -> SUBSET Calls] /\ awaited \in SUBSET Calls
        BY <1>0 DEF TypeOK
      <4>2. inherits' \in [Calls -> SUBSET Calls]
        BY <4>1, <2>1, <2>3
      <4>3. awaited' \in SUBSET Calls
        BY <4>1, <2>1
      <4>4. QED  BY <4>2, <4>3
    <3>4. QED  BY <3>1, <3>2, <3>3, <2>1, <1>0 DEF TypeOK
  <2>5. Balanced(writer, readers, status)' /\ Waiting(queue, status)'
    BY <2>1, <1>0, SameSlots, SameWaiting DEF TypeOK, HoldingStates
  <2>6. Chained'
    <3>1. status'[c] \notin {"idle", "running", "draining"} /\ parent'[c] = p /\ p # NoParent
      BY <2>1, <1>0, SchedulerAssumption DEF TypeOK
    <3>2. \A d \in Calls : d # c => status'[d] = status[d] /\ parent'[d] = parent[d]
      BY <2>1, <1>0 DEF TypeOK
    <3>3. \A d \in Calls : \/ chain'[d] = chain[d]
                           \/ d = p /\ chain'[d] = Append(chain[p], c)
      BY <2>1, <1>0 DEF TypeOK
    <3>4. \A d \in Calls : chain[d] # <<>> => chain'[d] # <<>> /\ Head(chain'[d]) = Head(chain[d])
      BY <3>3, <2>2
    <3>5. \A d \in Calls : parent[d] # NoParent => parent[d] \in Calls
      BY <1>0 DEF TypeOK
    <3>6. QED  BY <3>1, <3>2, <3>4, <3>5, <1>0 DEF Chained
  <2>7. QED  BY <2>4, <2>5, <2>6 DEF IInv
<1>10. ASSUME NEW c \in Calls, StartChild(c) PROVE IInv'
  <2>1. /\ status[c] = "chained" /\ chain[parent[c]] # <<>> /\ Head(chain[parent[c]]) = c
        /\ \/ status' = [status EXCEPT ![c] = "rejected"] /\ chain' = [chain EXCEPT ![parent[c]] = Tail(@)]
           \/ status' = [status EXCEPT ![c] = "running"] /\ chain' = chain
        /\ UNCHANGED <<queue, readers, writer, mode, parent, inherits, awaited, aborted, expired>>
    BY <1>10 DEF StartChild, FirstChained
  <2>2. parent[c] \in Calls /\ parent[c] # NoParent
    BY <2>1, <1>0 DEF Chained, TypeOK
  <2>3. Tail(chain[parent[c]]) \in Seq(Calls)
    BY <2>1, <2>2, <1>0, HeadTailProperties DEF TypeOK
  <2>4. TypeOK'
    <3>1. status' \in [Calls -> Statuses]
      BY <2>1, <1>0 DEF TypeOK
    <3>2. chain' \in [Calls -> Seq(Calls)]
      BY <2>1, <2>2, <2>3, <1>0 DEF TypeOK
    <3>3. QED  BY <3>1, <3>2, <2>1, <1>0 DEF TypeOK
  <2>5. Balanced(writer, readers, status)' /\ Waiting(queue, status)'
    BY <2>1, <2>2, <1>0, SameSlots, SameWaiting DEF TypeOK, HoldingStates
  <2>6. Chained'
    <3>1. \A d \in Calls : parent[d] # NoParent /\ status[d] \in {"running", "draining"} =>
                            parent[d] # parent[c] /\ d # c
      BY <2>1, <1>0 DEF Chained
    <3>2. \A d \in Calls : d # c => status'[d] = status[d]
      BY <2>1, <1>0 DEF TypeOK
    <3>3. \A d \in Calls : d # parent[c] => chain'[d] = chain[d]
      BY <2>1, <1>0 DEF TypeOK
    <3>4. status'[c] = "rejected" \/ (status'[c] = "running" /\ chain' = chain)
      BY <2>1, <1>0 DEF TypeOK
    <3>5. \A d \in Calls : parent[d] # NoParent => parent[d] \in Calls
      BY <1>0 DEF TypeOK
    <3>6. QED  BY <2>1, <2>2, <3>1, <3>2, <3>3, <3>4, <3>5, <1>0 DEF Chained
  <2>7. QED  BY <2>4, <2>5, <2>6 DEF IInv
<1>11. ASSUME UNCHANGED vars PROVE IInv'
  BY <1>11, <1>0 DEF vars, IInv, TypeOK, Balanced, Waiting, Chained, Slots, NoRepeats
<1>12. QED
  BY <1>1, <1>3, <1>4, <1>5, <1>6, <1>7, <1>8, <1>9, <1>10, <1>11 DEF Next

\* The inductive invariant holds in every reachable state.
THEOREM Invariance == Spec => []IInv
<1>1. QED  BY InitIInv, StepIInv, PTL DEF Spec

\* Type correctness, for any set of calls: in particular the reader count
\* never goes below zero and no child settles off the front of its chain.
THEOREM TypeCorrect == Spec => []TypeOK
<1>1. IInv => TypeOK
  BY DEF IInv
<1>2. QED  BY <1>1, Invariance, PTL

\* The counters of the scheduler equal the reservations that are out, the
\* cap holds, and a writer is alone.
THEOREM SlotsAccounted == Spec => []SlotAccounting
<1>1. IInv => SlotAccounting
  BY DEF IInv, Balanced, SlotAccounting, HoldersOf, Holds, Slots, HoldingStates
<1>2. QED  BY <1>1, Invariance, PTL

-----------------------------------------------------------------------------
(* What one drain does to the calls that wait.                             *)

\* The steps that drain, and what they leave alone.
LEMMA DrainSteps ==
  ASSUME IInv,
         \/ \E c \in Calls : Run(c) \/ TimerFires(c) \/ Release(c)
         \/ \E S \in SUBSET Calls : Abort(S)
  PROVE  /\ UNCHANGED <<mode, parent, inherits, chain, expired>>
         /\ \/ /\ UNCHANGED <<queue, readers, writer>>
               /\ \A c \in Calls : \/ status'[c] = status[c]
                                   \/ status[c] = "idle" /\ status'[c] = "rejected"
            \/ \E q, w, r, st : /\ Ready(q, w, r, st) /\ Follows(q, st)
                                /\ Drain(q, w, r, aborted' \cup expired', st)
<1>1. ASSUME NEW S \in SUBSET Calls, Cancel(S, aborted' \cup expired')
      PROVE  \/ UNCHANGED <<queue, readers, writer, status>>
             \/ \E q, w, r, st : /\ Ready(q, w, r, st) /\ Follows(q, st)
                                 /\ Drain(q, w, r, aborted' \cup expired', st)
  <2> DEFINE gone == {c \in S : \E i \in 1..Len(queue) : queue[i] = c}
             q    == Without(queue, gone)
             st   == [c \in Calls |-> IF c \in gone THEN "rejected" ELSE status[c]]
  <2>1. Ready(q, writer, readers, st) /\ Follows(q, st)
    BY CancelReady
  <2>2. \/ UNCHANGED <<queue, readers, writer, status>>
        \/ Drain(q, writer, readers, aborted' \cup expired', st)
    BY <1>1 DEF Cancel
  <2> HIDE DEF q, st
  <2>3. QED  BY <2>1, <2>2
<1>2. CASE \E c \in Calls : Run(c)
  <2>1. PICK c \in Calls : Run(c)
    BY <1>2
  <2>2. CASE Stopped(c, aborted \cup expired)
    BY <2>1, <2>2 DEF Run, IInv, TypeOK
  <2>3. CASE ~Stopped(c, aborted \cup expired)
    <3> DEFINE q  == Append(queue, c)
               st == [status EXCEPT ![c] = "queued"]
    <3>1. Ready(q, writer, readers, st) /\ Follows(q, st)
      BY <2>1, RunReady DEF Run
    <3>2. /\ Drain(q, writer, readers, aborted' \cup expired', st)
          /\ UNCHANGED <<mode, parent, inherits, chain, expired>>
      BY <2>1, <2>3 DEF Run
    <3> HIDE DEF q, st
    <3>3. QED  BY <3>1, <3>2
  <2>4. QED  BY <2>2, <2>3
<1>3. CASE \E c \in Calls : TimerFires(c)
  BY <1>1, <1>3 DEF TimerFires
<1>4. CASE \E S \in SUBSET Calls : Abort(S)
  BY <1>1, <1>4 DEF Abort
<1>5. CASE \E c \in Calls : Release(c)
  <2>1. PICK c \in Calls : Release(c)
    BY <1>5
  <2> DEFINE w  == (writer /\ mode[c] # "exclusive")
             r  == IF mode[c] = "exclusive" THEN readers ELSE readers - 1
             st == [status EXCEPT ![c] = "released"]
  <2>2. Ready(queue, w, r, st) /\ Follows(queue, st)
    BY <2>1, ReleaseReady DEF Release
  <2>3. /\ Drain(queue, w, r, aborted' \cup expired', st)
        /\ UNCHANGED <<mode, parent, inherits, chain, expired>>
    BY <2>1 DEF Release
  <2> HIDE DEF w, r, st
  <2>4. QED  BY <2>2, <2>3
<1>6. QED  BY <1>2, <1>3, <1>4, <1>5

\* The other steps leave the queue and the counters alone.
LEMMA QuietSteps ==
  ASSUME IInv, [Next]_vars,
         ~ \/ \E c \in Calls : Run(c) \/ TimerFires(c) \/ Release(c)
           \/ \E S \in SUBSET Calls : Abort(S)
  PROVE  UNCHANGED <<queue, readers, writer, mode, aborted>> /\ expired \subseteq expired'
BY DEF Next, vars, DeadlinePasses, OperationEnds, Settle, RunChild, StartChild

\* What a drain leaves at the head of the queue cannot start.
LEMMA DrainBlocks ==
  ASSUME NEW q, NEW w, NEW r, NEW off, NEW st, mode \in [Calls -> Modes], UNCHANGED <<mode, parent>>,
         Ready(q, w, r, st), Drain(q, w, r, off, st)
  PROVE  NoLostWakeup'
<1> DEFINE T  == Taken(q, w, r, off)
           n  == Cardinality(T)
           S  == Started(q, w, r, off)
           SR == StartedIn(q, w, r, off, "parallel-safe")
           LR == {j \in 1..n : LiveReader(q, j, off)}
<1>0. /\ q \in Seq(Calls) /\ w \in BOOLEAN /\ r \in Nat /\ r <= MaxParallel
      /\ Len(q) \in Nat /\ \A i \in 1..Len(q) : q[i] \in Calls
  BY LenProperties, ElementOfSeq DEF Ready, Balanced
<1>1. n \in 0..Len(q) /\ T = 1..n /\ S \in SUBSET Calls
  BY <1>0, StartedFits
<1>2. /\ queue' = SubSeq(q, n + 1, Len(q))
      /\ writer' = (w \/ \E c \in S : mode[c] = "exclusive")
      /\ readers' = r + Cardinality(SR)
  BY DEF Drain, Started, StartedIn
<1>3. SUFFICES ASSUME queue' # <<>>, ~writer'
               PROVE  \/ mode[Head(queue')] = "exclusive" /\ readers' > 0
                      \/ mode[Head(queue')] = "parallel-safe" /\ readers' >= MaxParallel
  BY DEF NoLostWakeup
<1>4. n + 1 \in 1..Len(q) /\ Head(queue') = q[n + 1]
  <2>1. n \in Nat /\ n <= Len(q) /\ n + 1 \in Int /\ Len(q) \in Int
    BY <1>0, <1>1
  <2>2. \A i \in (n+1)..Len(q) : q[i] \in Calls
    BY <2>1, <1>0
  <2> HIDE DEF n
  <2>3. /\ queue' \in Seq(Calls)
        /\ Len(queue') = IF n + 1 <= Len(q) THEN Len(q) - (n + 1) + 1 ELSE 0
        /\ \A i \in 1..(Len(q) - (n+1) + 1) : queue'[i] = q[(n + 1) + i - 1]
    BY <2>1, <2>2, <1>2, SubSeqProperties
  <2>4. Len(queue') # 0 /\ Head(queue') = queue'[1]
    BY <2>3, <1>3, EmptySeq, HeadTailProperties
  <2>5. n + 1 <= Len(q) /\ 1 \in 1..(Len(q) - (n+1) + 1) /\ (n + 1) + 1 - 1 = n + 1
    BY <2>1, <2>3, <2>4
  <2>6. queue'[1] = q[n + 1]
    BY <2>3, <2>5
  <2>7. QED  BY <2>1, <2>4, <2>5, <2>6
<1>5. Blocked(q, r, n + 1, off)
  <2>1. n + 1 \notin T
    BY <1>1
  <2>2. ~w
    BY <1>2, <1>3
  <2>3. \A j \in 1..n : ~Blocked(q, r, j, off)
    BY <1>1 DEF Taken
  <2>4. \A j \in 1..n : ~EndsAfter(q, r, j, off)
    <3>1. ASSUME NEW j \in 1..n, EndsAfter(q, r, j, off) PROVE FALSE
      <4>1. j \in T /\ ~Stopped(q[j], off) /\ mode[q[j]] = "exclusive"
        BY <3>1, <1>1 DEF EndsAfter
      <4>2. q[j] \in S
        BY <4>1 DEF Started
      <4>3. QED  BY <4>1, <4>2, <1>2, <1>3
    <3>2. QED  BY <3>1
  <2>5. (n + 1) - 1 = n
    BY <1>1
  <2>6. QED
    <3> HIDE DEF n
    <3> QED  BY <2>1, <2>2, <2>3, <2>4, <2>5, <1>4 DEF Taken
<1>6. IsFiniteSet(SR) /\ Cardinality(SR) \in Nat /\ IsFiniteSet(LR) /\ Cardinality(LR) \in Nat
  <2>1. SR \in SUBSET Calls /\ LR \in SUBSET (1..n) /\ n \in Int
    BY <1>1 DEF StartedIn
  <2>2. IsFiniteSet(1..n)
    <3> HIDE DEF n
    <3> QED  BY <2>1, FS_Interval
  <2> HIDE DEF SR, LR
  <2>3. QED  BY <2>1, <2>2, FS_Subset, FS_CardinalityType, SchedulerAssumption
<1>7. ReadersAt(q, r, n + 1, off) = r + Cardinality(LR)
  <2>1. (n + 1) - 1 = n
    BY <1>1
  <2>2. QED  BY <2>1 DEF ReadersAt, LiveReader
<1>8. Cardinality(LR) <= Cardinality(SR)
  <2> SUFFICES ASSUME Cardinality(SR) < Cardinality(LR) PROVE FALSE
    <3> HIDE DEF SR, LR
    <3> QED  BY <1>6
  <2> DEFINE f == [j \in LR |-> q[j]]
  <2>1. f \in [LR -> SR]
    BY <1>1 DEF LiveReader, StartedIn, Started
  <2>2. \E x, y \in LR : x # y /\ f[x] = f[y]
    <3> HIDE DEF f, LR, SR
    <3> QED  BY <2>1, <1>6, FS_PigeonHole
  <2>3. LR \subseteq 1..Len(q)
    BY <1>0, <1>1
  <2>4. NoRepeats(q)
    BY DEF Ready, Waiting
  <2> HIDE DEF LR
  <2>5. QED  BY <2>2, <2>3, <2>4 DEF NoRepeats
<1>9. mode[q[n + 1]] \in Modes
  BY <1>0, <1>4
<1>10. CASE mode[q[n + 1]] = "exclusive"
  <2>1. r + Cardinality(LR) > 0
    BY <1>5, <1>7, <1>10 DEF Blocked
  <2> HIDE DEF LR, SR, n
  <2>2. QED  BY <2>1, <1>0, <1>2, <1>4, <1>6, <1>8, <1>10
<1>11. CASE mode[q[n + 1]] = "parallel-safe"
  <2>1. r + Cardinality(LR) >= MaxParallel
    BY <1>5, <1>7, <1>11 DEF Blocked
  <2> HIDE DEF LR, SR, n
  <2>2. QED  BY <2>1, <1>0, <1>2, <1>4, <1>6, <1>8, <1>11, SchedulerAssumption
<1>12. QED  BY <1>9, <1>10, <1>11 DEF Modes

\* Nothing that could start is left waiting (drain and its four callers,
\* tool-scheduler.ts 53-126): the head of the queue is held back by a
\* reservation that is out, or its deadline has passed.
THEOREM WakeupsAreNotLost == Spec => []NoLostWakeup
<1>1. Init => NoLostWakeup
  BY DEF Init, NoLostWakeup
<1>2. ASSUME IInv, NoLostWakeup, [Next]_vars PROVE NoLostWakeup'
  <2>1. CASE \/ \E c \in Calls : Run(c) \/ TimerFires(c) \/ Release(c)
             \/ \E S \in SUBSET Calls : Abort(S)
    <3>1. CASE UNCHANGED <<queue, readers, writer>>
      BY <2>1, <3>1, <1>2, DrainSteps DEF NoLostWakeup
    <3>2. CASE \E q, w, r, st : /\ Ready(q, w, r, st) /\ Follows(q, st)
                                /\ Drain(q, w, r, aborted' \cup expired', st)
      BY <2>1, <3>2, <1>2, DrainSteps, DrainBlocks DEF IInv, TypeOK
    <3>3. QED  BY <2>1, <3>1, <3>2, <1>2, DrainSteps
  <2>2. CASE ~ \/ \E c \in Calls : Run(c) \/ TimerFires(c) \/ Release(c)
               \/ \E S \in SUBSET Calls : Abort(S)
    BY <2>2, <1>2, QuietSteps DEF NoLostWakeup
  <2>3. QED  BY <2>1, <2>2
<1>3. QED  BY <1>1, <1>2, Invariance, PTL DEF Spec

-----------------------------------------------------------------------------
(* The tree of calls.                                                      *)

Closed(S) == \A x \in S : parent[x] # NoParent => parent[x] \in S

\* Lineage(c) is the least closed set that c is in.
LEMMA LineageLeast ==
  ASSUME NEW c \in Calls, NEW S \in SUBSET Calls, c \in S, Closed(S)
  PROVE  Lineage(c) \subseteq S
BY DEF Lineage, Closed

\* A lineage is a closed set of calls.
LEMMA LineageClosed ==
  ASSUME NEW c \in Calls
  PROVE  /\ Lineage(c) \in SUBSET Calls /\ c \in Lineage(c)
         /\ \A x \in Lineage(c) : parent[x] \in Calls /\ parent[x] # NoParent => parent[x] \in Lineage(c)
BY DEF Lineage

\* A call in progress, or in its parent's chain, has a parent in progress, in
\* whose chain it is, whose options bind it too and which is exclusive when it
\* is.  No call in progress is its own ancestor: it has a root.
Active(c) == status[c] \in {"chained", "running", "draining"}
InFamily(c) ==
  /\ Busy(parent[c])
  /\ \E i \in 1..Len(chain[parent[c]]) : chain[parent[c]][i] = c
  /\ mode[c] = "exclusive" => mode[parent[c]] = "exclusive"
  /\ inherits[parent[c]] \subseteq inherits[c]
Family ==
  /\ \A c \in Calls : parent[c] # NoParent /\ Active(c) => InFamily(c)
  /\ \A c \in Calls : c \in inherits[c]
  /\ \A c \in Calls : Busy(c) => \E r \in Lineage(c) : parent[r] = NoParent

\* The ancestors of a call in progress are in progress.
LEMMA BusyLineage ==
  ASSUME IInv, Family, NEW c \in Calls, Busy(c)
  PROVE  \A x \in Lineage(c) : Busy(x)
<1> DEFINE S == {x \in Calls : Busy(x)}
<1>1. Closed(S)
  BY DEF Closed, Family, InFamily, Active, Busy, IInv, TypeOK
<1>2. QED  BY <1>1, LineageLeast

\* Those that bind a call that may start are in its options.
LEMMA LineageInherits ==
  ASSUME IInv, Family, NEW c \in Calls,
         status[c] = "chained" \/ parent[c] = NoParent
  PROVE  Lineage(c) \subseteq inherits[c]
<1> DEFINE S == {x \in Calls : (x = c \/ Active(x)) /\ inherits[x] \subseteq inherits[c]}
<1>1. Closed(S)
  BY DEF Closed, Family, InFamily, Active, Busy, IInv, TypeOK
<1>2. Lineage(c) \subseteq S
  BY <1>1, LineageLeast
<1>3. QED  BY <1>2 DEF Family

\* Whoever has a call in progress behind it has a child in progress on the way.
LEMMA ChildOnTheWay ==
  ASSUME IInv, Family, NEW c \in Calls, NEW p \in Lineage(c), p # c
  PROVE  \E k \in Lineage(c) : parent[k] = p
<1> DEFINE S == Lineage(c) \ {p}
<1>1. SUFFICES ASSUME \A k \in Lineage(c) : parent[k] # p PROVE FALSE
  OBVIOUS
<1>2. S \in SUBSET Calls /\ c \in S /\ Closed(S)
  BY <1>1, LineageClosed DEF Closed, IInv, TypeOK
<1> HIDE DEF S
<1>3. Lineage(c) \subseteq S
  BY <1>2, LineageLeast
<1>4. QED  BY <1>3 DEF S

\* At most one child of a call is in progress, and at most one root if one is
\* exclusive: so the calls in progress stand on one line.
LEMMA FamilyIsolates == IInv /\ Family => ExclusiveIsolation
<1> SUFFICES ASSUME IInv, Family, NEW a \in Calls, NEW b \in Calls, Busy(a), Busy(b),
                    mode[a] = "exclusive", a \notin Lineage(b), b \notin Lineage(a)
             PROVE  FALSE
  BY DEF ExclusiveIsolation, Running, Busy
<1>1. \A x \in Lineage(a) : mode[x] = "exclusive"
  <2> DEFINE S == {x \in Calls : Busy(x) /\ mode[x] = "exclusive"}
  <2>1. Closed(S)
    BY DEF Closed, Family, InFamily, Active, Busy, IInv, TypeOK
  <2>2. QED  BY <2>1, LineageLeast
<1>2. PICK r \in Lineage(a) : parent[r] = NoParent
  BY DEF Family
<1>3. PICK s \in Lineage(b) : parent[s] = NoParent
  BY DEF Family
<1>4. /\ r \in Calls /\ s \in Calls
      /\ status[r] \in {"running", "draining"} /\ status[s] \in {"running", "draining"}
  BY <1>2, <1>3, BusyLineage, LineageClosed DEF Busy
<1>5. r = s
  <2>1. r \in Slots(status, "exclusive")
    BY <1>1, <1>2, <1>4 DEF Slots, HoldingStates
  <2>2. writer /\ readers = 0
    BY <2>1 DEF IInv, Balanced
  <2>3. IsFiniteSet(Slots(status, "exclusive")) /\ IsFiniteSet(Slots(status, "parallel-safe"))
    <3>1. Slots(status, "exclusive") \in SUBSET Calls /\ Slots(status, "parallel-safe") \in SUBSET Calls
      BY DEF Slots
    <3>2. QED  BY <3>1, FS_Subset, SchedulerAssumption
  <2>4. Slots(status, "parallel-safe") = {}
    BY <2>2, <2>3, FS_EmptySet DEF IInv, Balanced
  <2>5. s \in Slots(status, "exclusive")
    BY <2>4, <1>3, <1>4 DEF Slots, HoldingStates, IInv, TypeOK, Modes
  <2>6. Cardinality(Slots(status, "exclusive")) <= 1
    BY DEF IInv, Balanced
  <2>7. QED  BY <2>1, <2>3, <2>5, <2>6, AtMostOne
<1>6. Closed(Lineage(a) \ Lineage(b))
  <2>1. SUFFICES ASSUME NEW x \in Lineage(a), x \notin Lineage(b), parent[x] # NoParent,
                        parent[x] \in Lineage(b)
                 PROVE  FALSE
    BY LineageClosed DEF Closed, IInv, TypeOK
  <2>2. parent[x] # b /\ x \in Calls
    BY <2>1, LineageClosed DEF IInv, TypeOK
  <2>3. PICK k \in Lineage(b) : parent[k] = parent[x]
    BY <2>1, <2>2, ChildOnTheWay
  <2>4. Busy(k) /\ Busy(x) /\ k \in Calls
    BY <2>1, <2>3, BusyLineage, LineageClosed
  <2>5. k = x
    BY <2>1, <2>2, <2>3, <2>4 DEF IInv, Chained, Busy
  <2>6. QED  BY <2>1, <2>3, <2>5
<1>7. Lineage(a) \subseteq Lineage(a) \ Lineage(b)
  BY <1>6, LineageClosed, LineageLeast
<1>8. QED  BY <1>2, <1>3, <1>5, <1>7

-----------------------------------------------------------------------------
(* Every step keeps the family of calls.                                   *)

\* At first no call has a parent.
LEMMA InitFamily == Init => Family
BY DEF Init, Family, Active, Busy

\* A step that starts roots, drops waiting ones, or ends an operation does.
LEMMA FamilyKept ==
  ASSUME Family, UNCHANGED <<mode, parent, chain, inherits>>,
         \A c \in Calls : /\ Busy(c) => Busy(c)'
                          /\ Active(c)' => Active(c) \/ parent[c] = NoParent
                          /\ Busy(c)' => Busy(c) \/ parent[c] = NoParent,
         parent \in [Calls -> Calls \cup {NoParent}]
  PROVE  Family'
<1>1. \A c : Lineage(c)' = Lineage(c)
  BY DEF Lineage
<1>2. \A c \in Calls : c \in Lineage(c)
  BY DEF Lineage
<1>3. ASSUME NEW c \in Calls, parent[c] # NoParent, Active(c)'
      PROVE  InFamily(c)'
  BY <1>3 DEF Family, InFamily
<1>4. ASSUME NEW c \in Calls, Busy(c)' PROVE \E r \in Lineage(c) : parent[r] = NoParent
  BY <1>2, <1>4 DEF Family
<1>5. QED  BY <1>1, <1>3, <1>4 DEF Family

\* The first of a chain leaves it, the others stay.
LEMMA TailKeeps ==
  ASSUME IInv, Family, NEW c \in Calls, parent[c] \in Calls,
         chain[parent[c]] # <<>>, Head(chain[parent[c]]) = c,
         chain' = [chain EXCEPT ![parent[c]] = Tail(@)],
         NEW k \in Calls, k # c, parent[k] # NoParent, Active(k)
  PROVE  \E i \in 1..Len(chain'[parent[k]]) : chain'[parent[k]][i] = k
<1>1. chain \in [Calls -> Seq(Calls)] /\ parent[k] \in Calls
  BY DEF IInv, TypeOK
<1>2. PICK i \in 1..Len(chain[parent[k]]) : chain[parent[k]][i] = k
  BY DEF Family, InFamily
<1>3. CASE parent[k] # parent[c]
  BY <1>1, <1>2, <1>3
<1>4. CASE parent[k] = parent[c]
  <2> DEFINE s == chain[parent[c]]
  <2>1. s \in Seq(Calls) /\ s # <<>> /\ chain'[parent[k]] = Tail(s) /\ s[i] = k /\ i \in 1..Len(s)
    BY <1>1, <1>2, <1>4
  <2>2. Head(s) = c
    OBVIOUS
  <2> HIDE DEF s
  <2>3. s[1] = c /\ Len(s) \in Nat
    BY <2>1, <2>2, HeadTailProperties, LenProperties
  <2>4. i # 1 /\ i - 1 \in 1..(Len(s) - 1)
    BY <2>1, <2>3
  <2>5. Len(Tail(s)) = Len(s) - 1 /\ \A j \in 1..Len(Tail(s)) : Tail(s)[j] = s[j + 1]
    BY <2>1, HeadTailProperties
  <2>6. i - 1 \in 1..Len(Tail(s)) /\ Tail(s)[i - 1] = k
    BY <2>1, <2>3, <2>4, <2>5
  <2>7. QED  BY <2>1, <2>6
<1>5. QED  BY <1>3, <1>4

\* A child call that is made stands behind its elder siblings.
LEMMA RunChildFamily ==
  ASSUME IInv, Family, NEW c \in Calls, NEW p \in Calls, NEW await \in BOOLEAN, RunChild(c, p, await)
  PROVE  Family'
<1>0. TypeOK /\ Chained
  BY DEF IInv
<1>1. /\ status[c] = "idle" /\ p # c /\ parent' = [parent EXCEPT ![c] = p]
      /\ UNCHANGED mode
      /\ \/ /\ status' = [status EXCEPT ![c] = "rejected"]
            /\ UNCHANGED <<inherits, chain>>
         \/ /\ Running(p) /\ (mode[c] = "exclusive" => mode[p] # "parallel-safe")
            /\ status' = [status EXCEPT ![c] = "chained"]
            /\ inherits' = [inherits EXCEPT ![c] = {c} \cup inherits[p]]
            /\ chain' = [chain EXCEPT ![p] = Append(@, c)]
  BY DEF RunChild, Refused, ChildOptions
<1>2. /\ \A k \in Calls : k # c => status'[k] = status[k] /\ parent'[k] = parent[k] /\ inherits'[k] = inherits[k]
      /\ parent'[c] = p /\ status'[c] \in {"rejected", "chained"}
  BY <1>0, <1>1 DEF TypeOK
<1>3. ASSUME NEW k \in Calls, parent[k] # NoParent, Active(k)
      PROVE  k # c /\ parent[k] # c /\ parent[k] \in Calls /\ InFamily(k)
  <2>1. InFamily(k) /\ parent[k] \in Calls
    BY <1>0, <1>3 DEF Family, TypeOK
  <2>2. QED  BY <1>1, <1>3, <2>1 DEF InFamily, Active, Busy
<1>4. \A d \in Calls : \A i \in 1..Len(chain[d]) : i \in 1..Len(chain'[d]) /\ chain'[d][i] = chain[d][i]
  <2>1. chain[p] \in Seq(Calls)
    BY <1>0 DEF TypeOK
  <2>2. /\ Len(Append(chain[p], c)) = Len(chain[p]) + 1 /\ Len(chain[p]) \in Nat
        /\ \A i \in 1..Len(chain[p]) : Append(chain[p], c)[i] = chain[p][i]
    BY <2>1, AppendProperties, LenProperties
  <2>3. \A d \in Calls : chain'[d] = chain[d] \/ (d = p /\ chain'[d] = Append(chain[p], c))
    BY <1>0, <1>1 DEF TypeOK
  <2>4. QED  BY <2>2, <2>3
<1>5. ASSUME NEW k \in Calls, k # c, parent'[k] # NoParent, Active(k)'
      PROVE  InFamily(k)'
  <2>1. parent[k] # NoParent /\ Active(k) /\ parent'[k] = parent[k]
    BY <1>2, <1>5 DEF Active
  <2>2. parent[k] # c /\ parent[k] \in Calls /\ InFamily(k)
    BY <2>1, <1>3
  <2>3. status'[parent[k]] = status[parent[k]] /\ inherits'[parent[k]] = inherits[parent[k]]
        /\ inherits'[k] = inherits[k]
    BY <2>2, <1>2, <1>5
  <2>4. \E i \in 1..Len(chain'[parent[k]]) : chain'[parent[k]][i] = k
    BY <2>2, <1>4 DEF InFamily
  <2>5. QED  BY <2>1, <2>2, <2>3, <2>4, <1>1 DEF InFamily, Busy
<1>6. ASSUME Active(c)' PROVE InFamily(c)'
  <2>1. /\ Running(p) /\ (mode[c] = "exclusive" => mode[p] # "parallel-safe")
        /\ inherits' = [inherits EXCEPT ![c] = {c} \cup inherits[p]]
        /\ chain' = [chain EXCEPT ![p] = Append(@, c)]
    BY <1>0, <1>1, <1>6 DEF Active, TypeOK
  <2>2. status'[p] \in {"running", "draining"}
    BY <2>1, <1>1, <1>2 DEF Running
  <2>3. chain[p] \in Seq(Calls) /\ chain'[p] = Append(chain[p], c)
    BY <2>1, <1>0 DEF TypeOK
  <2>4. /\ Len(Append(chain[p], c)) = Len(chain[p]) + 1 /\ Len(chain[p]) \in Nat
        /\ Append(chain[p], c)[Len(chain[p]) + 1] = c
    BY <2>3, AppendProperties, LenProperties
  <2>5. \E i \in 1..Len(chain'[p]) : chain'[p][i] = c
    BY <2>3, <2>4
  <2>6. mode[p] \in Modes
    BY <1>0 DEF TypeOK
  <2>7. inherits'[p] \subseteq inherits'[c]
    BY <2>1, <1>0, <1>1 DEF TypeOK
  <2>8. parent'[c] = p /\ mode' = mode
    BY <1>1, <1>2
  <2>9. QED  BY <2>1, <2>2, <2>5, <2>6, <2>7, <2>8 DEF Modes, InFamily, Busy
<1>7. ASSUME NEW k \in Calls PROVE k \in inherits'[k]
  <2>1. k \in inherits[k]
    BY DEF Family
  <2>2. inherits'[c] \in {inherits[c], {c} \cup inherits[p]}
    BY <1>0, <1>1 DEF TypeOK
  <2>3. QED  BY <2>1, <2>2, <1>2
<1>8. ASSUME NEW k \in Calls, Busy(k)' PROVE \E r \in Lineage(k)' : parent'[r] = NoParent
  <2>1. k # c /\ Busy(k)
    BY <1>2, <1>8 DEF Busy
  <2>2. PICK r \in Lineage(k) : parent[r] = NoParent
    BY <2>1 DEF Family
  <2>3. r \in Calls /\ Busy(r) /\ r # c
    BY <2>1, <2>2, <1>1, BusyLineage, LineageClosed DEF Busy
  <2>4. ASSUME NEW S \in SUBSET Calls, k \in S,
               \A x \in S : parent'[x] # NoParent => parent'[x] \in S
        PROVE  r \in S
    <3> DEFINE B == {x \in S : Busy(x)}
    <3>1. B \in SUBSET Calls /\ k \in B
      BY <2>1, <2>4
    <3>2. Closed(B)
      <4>1. ASSUME NEW x \in B, parent[x] # NoParent PROVE parent[x] \in B
        <5>1. x \in Calls /\ x # c /\ x \in S /\ Busy(x)
          BY <1>1 DEF Busy
        <5>2. parent'[x] = parent[x] /\ parent[x] \in S
          BY <5>1, <1>2, <2>4, <4>1
        <5>3. Busy(parent[x])
          BY <5>1, <4>1 DEF Family, InFamily, Active, Busy
        <5>4. QED  BY <5>2, <5>3
      <4>2. QED  BY <4>1 DEF Closed
    <3>3. Lineage(k) \subseteq B
      <4> HIDE DEF B
      <4> QED  BY <3>1, <3>2, LineageLeast
    <3>4. QED  BY <3>3, <2>2
  <2>5. r \in Lineage(k)'
    BY <2>3, <2>4 DEF Lineage
  <2>6. QED  BY <2>2, <2>3, <2>5, <1>2
<1>9. ASSUME NEW k \in Calls, parent'[k] # NoParent, Active(k)' PROVE InFamily(k)'
  <2>1. CASE k # c
    BY <2>1, <1>5, <1>9
  <2>2. CASE k = c
    BY <2>2, <1>6, <1>9
  <2>3. QED  BY <2>1, <2>2
<1>10. QED  BY <1>7, <1>8, <1>9 DEF Family

\* The child whose turn it is starts or is refused; a child that is done
\* leaves the chain.
LEMMA TurnFamily ==
  ASSUME IInv, Family, NEW c \in Calls, StartChild(c) \/ Settle(c)
  PROVE  Family'
<1>0. TypeOK /\ Chained
  BY DEF IInv
<1>1. \A x : Lineage(x)' = Lineage(x)
  BY DEF Lineage, StartChild, Settle
<1>2. CASE status' = [status EXCEPT ![c] = "running"] /\ UNCHANGED <<mode, parent, chain, inherits>>
  <2>1. parent[c] \in Calls /\ parent[c] # NoParent /\ Active(c) /\ status[c] = "chained"
    BY <1>0, <1>2 DEF TypeOK, Chained, Active, StartChild, FirstChained, Settle
  <2>2. \A k \in Calls : (Active(k)' <=> Active(k)) /\ (Busy(k) => Busy(k)') /\ (Busy(k)' => k = c \/ Busy(k))
    BY <1>0, <1>2, <2>1 DEF TypeOK, Active, Busy
  <2>3. PICK r \in Lineage(parent[c]) : parent[r] = NoParent
    BY <2>1 DEF Family, InFamily
  <2>4. r \in Lineage(c)
    BY <2>1, <2>3 DEF Lineage
  <2>5. ASSUME NEW k \in Calls, parent[k] # NoParent, Active(k)' PROVE InFamily(k)'
    <3>1. InFamily(k) /\ parent[k] \in Calls
      BY <2>2, <2>5, <1>0 DEF Family, TypeOK
    <3>2. status'[parent[k]] \in {"running", "draining"}
      BY <2>2, <3>1 DEF InFamily, Busy
    <3>3. QED  BY <1>2, <3>1, <3>2 DEF InFamily, Busy
  <2>6. ASSUME NEW k \in Calls, Busy(k)' PROVE \E x \in Lineage(k) : parent[x] = NoParent
    BY <2>2, <2>3, <2>4, <2>6 DEF Family
  <2>7. QED  BY <1>1, <1>2, <2>5, <2>6 DEF Family
<1>3. CASE /\ status' \in {[status EXCEPT ![c] = "settled"], [status EXCEPT ![c] = "rejected"]}
           /\ UNCHANGED <<mode, parent, inherits>>
           /\ IF parent[c] = NoParent THEN chain' = chain
              ELSE /\ chain[parent[c]] # <<>> /\ Head(chain[parent[c]]) = c
                   /\ chain' = [chain EXCEPT ![parent[c]] = Tail(@)]
           /\ Busy(c) => chain[c] = <<>>
  <2>1. \A k \in Calls : /\ k # c => (Active(k)' <=> Active(k)) /\ (Busy(k)' <=> Busy(k))
                         /\ ~Active(c)' /\ ~Busy(c)'
    BY <1>0, <1>3 DEF TypeOK, Active, Busy
  <2>2. ASSUME NEW k \in Calls, parent[k] # NoParent, Active(k)' PROVE InFamily(k)'
    <3>1. k # c /\ Active(k) /\ InFamily(k) /\ Busy(parent[k]) /\ parent[k] \in Calls
      BY <2>1, <2>2, <1>0 DEF Family, InFamily, TypeOK
    <3>2. PICK i \in 1..Len(chain[parent[k]]) : chain[parent[k]][i] = k
      BY <3>1 DEF InFamily
    <3>3. parent[k] # c
      <4>1. Len(<<>>) = 0
        BY EmptySeq
      <4>2. QED  BY <4>1, <3>1, <3>2, <1>3
    <3>4. status'[parent[k]] \in {"running", "draining"}
      BY <3>1, <3>3, <2>1 DEF Busy
    <3>5. \E j \in 1..Len(chain'[parent[k]]) : chain'[parent[k]][j] = k
      <4>1. CASE parent[c] = NoParent
        BY <4>1, <3>2, <1>3
      <4>2. CASE parent[c] # NoParent
        <5>1. parent[c] \in Calls
          BY <4>2, <1>0 DEF TypeOK
        <5>2. QED  BY <4>2, <5>1, <3>1, <2>2, <1>3, TailKeeps
      <4>3. QED  BY <4>1, <4>2
    <3>6. QED  BY <1>3, <3>1, <3>4, <3>5 DEF InFamily, Busy
  <2>3. ASSUME NEW k \in Calls, Busy(k)' PROVE \E x \in Lineage(k) : parent[x] = NoParent
    BY <2>1, <2>3 DEF Family
  <2>4. QED  BY <1>1, <1>3, <2>2, <2>3 DEF Family
<1>4. StartChild(c) => \/ status' = [status EXCEPT ![c] = "running"] /\ UNCHANGED <<mode, parent, chain, inherits>>
                       \/ /\ status' = [status EXCEPT ![c] = "rejected"]
                          /\ UNCHANGED <<mode, parent, inherits>>
                          /\ parent[c] # NoParent /\ chain[parent[c]] # <<>> /\ Head(chain[parent[c]]) = c
                          /\ chain' = [chain EXCEPT ![parent[c]] = Tail(@)]
                          /\ ~Busy(c)
  BY <1>0 DEF StartChild, FirstChained, Chained, Busy
<1>5. Settle(c) => /\ status' = [status EXCEPT ![c] = "settled"]
                   /\ UNCHANGED <<mode, parent, inherits>>
                   /\ IF parent[c] = NoParent THEN chain' = chain
                      ELSE /\ chain[parent[c]] # <<>> /\ Head(chain[parent[c]]) = c
                           /\ chain' = [chain EXCEPT ![parent[c]] = Tail(@)]
                   /\ chain[c] = <<>>
  BY <1>0 DEF Settle, Chained
<1>6. CASE StartChild(c)
  BY <1>2, <1>3, <1>4, <1>6
<1>7. CASE Settle(c)
  BY <1>3, <1>5, <1>7
<1>8. QED  BY <1>6, <1>7

\* A drain moves waiting root calls only.
LEMMA DrainMoves ==
  ASSUME IInv, NEW q, NEW w, NEW r, NEW off, NEW st, UNCHANGED <<mode, parent>>,
         Ready(q, w, r, st), Follows(q, st), Drain(q, w, r, off, st), NEW c \in Calls
  PROVE  \/ status'[c] = status[c]
         \/ /\ parent[c] = NoParent /\ status[c] \in {"idle", "queued", "settled"}
            /\ status'[c] \in {"queued", "running", "rejected", "released"}
            /\ status[c] = "settled" => status'[c] = "released"
<1>1. mode \in [Calls -> Modes]
  BY DEF IInv, TypeOK
<1>2. \/ status'[c] = st[c]
      \/ /\ st[c] = "queued" /\ parent[c] = NoParent
         /\ status'[c] \in {"running", "rejected"}
  BY <1>1, DrainBalanced DEF Ready
<1>3. \/ st[c] = status[c]
      \/ /\ parent[c] = NoParent
         /\ \/ status[c] = "idle" /\ st[c] = "queued"
            \/ status[c] = "queued" /\ st[c] = "rejected"
            \/ status[c] = "settled" /\ st[c] = "released"
  BY DEF Follows
<1>4. QED  BY <1>2, <1>3

\* Whatever the step, the calls in progress stay one family.
LEMMA StepFamily == IInv /\ Family /\ [Next]_vars => Family'
<1> SUFFICES ASSUME IInv, Family, [Next]_vars PROVE Family'
  OBVIOUS
<1>0. parent \in [Calls -> Calls \cup {NoParent}]
  BY DEF IInv, TypeOK
<1>1. CASE \/ \E c \in Calls : Run(c) \/ TimerFires(c) \/ Release(c)
           \/ \E S \in SUBSET Calls : Abort(S)
  <2>1. \A c \in Calls : \/ status'[c] = status[c]
                         \/ /\ parent[c] = NoParent /\ status[c] \notin {"running", "draining"}
    <3>1. CASE \A c \in Calls : \/ status'[c] = status[c]
                                \/ status[c] = "idle" /\ status'[c] = "rejected"
      BY <3>1 DEF IInv, Chained
    <3>2. CASE \E q, w, r, st : /\ Ready(q, w, r, st) /\ Follows(q, st)
                                /\ Drain(q, w, r, aborted' \cup expired', st)
      BY <1>1, <3>2, DrainSteps, DrainMoves
    <3>3. QED  BY <1>1, <3>1, <3>2, DrainSteps
  <2>2. UNCHANGED <<mode, parent, chain, inherits>>
    BY <1>1, DrainSteps
  <2>3. QED  BY <1>0, <2>1, <2>2, FamilyKept DEF Active, Busy
<1>2. CASE \E c \in Calls : DeadlinePasses(c)
  BY <1>0, <1>2, FamilyKept DEF DeadlinePasses, Active, Busy
<1>3. CASE \E c \in Calls : OperationEnds(c)
  <2>1. UNCHANGED <<mode, parent, chain, inherits>>
    BY <1>3 DEF OperationEnds
  <2>2. \A c \in Calls : status'[c] = status[c] \/ (status[c] = "running" /\ status'[c] = "draining")
    BY <1>3 DEF OperationEnds, Running, IInv, TypeOK
  <2>3. QED  BY <1>0, <2>1, <2>2, FamilyKept DEF Active, Busy
<1>4. CASE \E c \in Calls : StartChild(c) \/ Settle(c)
  BY <1>4, TurnFamily
<1>5. CASE \E c, p \in Calls, await \in BOOLEAN : RunChild(c, p, await)
  BY <1>5, RunChildFamily
<1>6. CASE UNCHANGED vars
  BY <1>0, <1>6, FamilyKept DEF vars, Active, Busy
<1>7. QED  BY <1>1, <1>2, <1>3, <1>4, <1>5, <1>6 DEF Next

\* The family and the counters, in every reachable state.
LEMMA FamilyInvariance == Spec => [](IInv /\ Family)
BY InitIInv, StepIInv, InitFamily, StepFamily, PTL DEF Spec

\* While an exclusive operation runs, at any nesting depth, whatever else is
\* in progress is nested in it or it is nested in that (withReservation and
\* its bound run, tool-scheduler.ts 128-170).
THEOREM ExclusiveIsAlone == Spec => []ExclusiveIsolation
BY FamilyInvariance, FamilyIsolates, PTL

\* A drain starts nobody before those ahead of it, and nobody too late.
LEMMA DrainInOrder ==
  ASSUME IInv, NEW q, NEW w, NEW r, NEW off, NEW st, UNCHANGED <<mode, parent>>,
         Ready(q, w, r, st), Follows(q, st), Drain(q, w, r, off, st),
         NEW c \in Calls, status[c] # "running", status'[c] = "running"
  PROVE  /\ \A d \in Ahead(c) : status'[d] # "queued"
         /\ inherits[c] \cap off = {} /\ parent[c] = NoParent
<1> DEFINE T == Taken(q, w, r, off)
           S == Started(q, w, r, off)
<1>0. /\ mode \in [Calls -> Modes] /\ q \in Seq(Calls) /\ w \in BOOLEAN /\ r \in Nat /\ r <= MaxParallel
      /\ Len(q) \in Nat /\ \A i \in 1..Len(q) : q[i] \in Calls
  BY LenProperties, ElementOfSeq DEF Ready, Balanced, IInv, TypeOK
<1>1. Cardinality(T) \in 0..Len(q) /\ T = 1..Cardinality(T)
  BY <1>0, StartedFits
<1>2. status' = [d \in Calls |-> IF d \in S THEN "running"
                                 ELSE IF d \in {q[i] : i \in T} THEN "rejected" ELSE st[d]]
  BY DEF Drain, Started
<1>3. st[c] # "running" /\ parent[c] = NoParent
  BY DrainMoves DEF Follows
<1>4. c \in S
  <2> HIDE DEF S, T
  <2> QED  BY <1>2, <1>3
<1>5. PICK i \in T : c = q[i] /\ ~Stopped(c, off)
  BY <1>4 DEF Started
<1>6. ASSUME NEW d \in Ahead(c) PROVE status'[d] # "queued"
  <2>1. d \in Calls
    BY <1>6, ElementOfSeq DEF Ahead, IInv, TypeOK
  <2>2. CASE st[d] # "queued"
    <3> HIDE DEF S, T
    <3> QED  BY <1>2, <2>1, <2>2
  <2>3. CASE st[d] = "queued"
    <3>1. PICK j \in 1..(i-1) : q[j] = d
      BY <2>3, <1>0, <1>1, <1>5, <1>6 DEF Follows
    <3>2. j \in T
      <4> HIDE DEF T
      <4> QED  BY <1>0, <1>1, <3>1
    <3> HIDE DEF S, T
    <3>3. QED  BY <1>2, <2>1, <3>1, <3>2
  <2>4. QED  BY <2>2, <2>3
<1>7. QED  BY <1>3, <1>5, <1>6 DEF Stopped

\* No step starts a call out of turn or after its signal or deadline, or takes
\* back the outcome of one that was admitted (run, drain and cancel,
\* tool-scheduler.ts 53-126): stated of every step.
THEOREM StepsAreOrderly == Spec => OrderlySteps
<1> DEFINE Fifo == \A c \in Calls :
             status[c] # "running" /\ status'[c] = "running" /\ parent'[c] = NoParent =>
               \A d \in Ahead(c) : status'[d] # "queued"
           Late == \A c \in Calls :
             status[c] # "running" /\ status'[c] = "running" =>
               Lineage(c) \cap (aborted' \cup expired') = {}
           Keeps == \A c \in Calls :
             status[c] \in {"running", "draining", "settled"} => status'[c] # "rejected"
<1>1. ASSUME IInv, Family, [Next]_vars PROVE Fifo /\ Late /\ Keeps
  <2>1. CASE \/ \E c \in Calls : Run(c) \/ TimerFires(c) \/ Release(c)
             \/ \E S \in SUBSET Calls : Abort(S)
    <3>1. UNCHANGED <<mode, parent>>
      BY <1>1, <2>1, DrainSteps
    <3>2. CASE \A c \in Calls : \/ status'[c] = status[c]
                                \/ status[c] = "idle" /\ status'[c] = "rejected"
      BY <3>2
    <3>3. CASE \E q, w, r, st : /\ Ready(q, w, r, st) /\ Follows(q, st)
                                /\ Drain(q, w, r, aborted' \cup expired', st)
      <4>1. ASSUME NEW c \in Calls, status[c] # "running", status'[c] = "running"
            PROVE  /\ \A d \in Ahead(c) : status'[d] # "queued"
                   /\ inherits[c] \cap (aborted' \cup expired') = {} /\ parent[c] = NoParent
        BY <1>1, <3>1, <3>3, <4>1, DrainInOrder
      <4>2. Late
        BY <1>1, <4>1, LineageInherits
      <4>3. Keeps
        BY <1>1, <3>1, <3>3, DrainMoves
      <4>4. QED  BY <4>1, <4>2, <4>3
    <3>4. QED  BY <1>1, <2>1, <3>2, <3>3, DrainSteps
  <2>2. CASE \E c \in Calls : StartChild(c)
    <3>1. PICK c \in Calls : StartChild(c)
      BY <2>2
    <3>2. /\ status[c] = "chained" /\ parent[c] # NoParent /\ UNCHANGED <<parent, aborted, expired>>
          /\ \A d \in Calls : d # c => status'[d] = status[d]
          /\ status'[c] = "running" => inherits[c] \cap (aborted \cup expired) = {}
      BY <1>1, <3>1 DEF StartChild, FirstChained, Stopped, IInv, TypeOK, Chained
    <3>3. Lineage(c) \subseteq inherits[c]
      BY <1>1, <3>2, LineageInherits
    <3>4. QED  BY <3>2, <3>3
  <2>3. CASE \E c \in Calls : DeadlinePasses(c)
    BY <2>3 DEF DeadlinePasses
  <2>4. CASE \E c \in Calls : OperationEnds(c) \/ Settle(c)
    BY <1>1, <2>4 DEF OperationEnds, Settle, IInv, TypeOK
  <2>5. CASE \E c, p \in Calls, await \in BOOLEAN : RunChild(c, p, await)
    <3>1. \A c \in Calls : \/ status'[c] = status[c]
                           \/ status[c] = "idle" /\ status'[c] \in {"rejected", "chained"}
      BY <1>1, <2>5 DEF RunChild, IInv, TypeOK
    <3>2. QED  BY <3>1
  <2>6. CASE UNCHANGED vars
    BY <2>6 DEF vars
  <2>7. QED  BY <1>1, <2>1, <2>2, <2>3, <2>4, <2>5, <2>6 DEF Next
<1>2. QED
  BY <1>1, FamilyInvariance, PTL DEF Spec, OrderlySteps, FifoAdmission, NoLateStart, AdmittedKeepsResult
=============================================================================
