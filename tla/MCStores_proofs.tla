-------------------------- MODULE MCStores_proofs ---------------------------
(***************************************************************************)
(* Proofs about the three stores of MCStores, for any processes, keys and   *)
(* limits.  GrantStore: what is revoked stays unused (IInv), and no grant   *)
(* is charged past a limit, nor instead of a newer one (Paid).  Both rest   *)
(* on the "grant-state" lock: what its holder has read, before an await or  *)
(* after it, still holds when it writes (Underway, Paying).  The output of  *)
(* an attempt is a sum over the journal; the lemmas on sums say what one    *)
(* event more adds to it, by induction from the least number outside a set  *)
(* (AllNumbers).  FileStore: what the holder of the lock has computed is    *)
(* the file with its own changes (FilesInv).  PgStore: what a cache shows   *)
(* is what its pending writes will make of the table (PgInv).               *)
(***************************************************************************)
EXTENDS MCStores, FiniteSetTheorems, SequenceTheorems, WellFoundedInduction, TLAPS

------------------------------------------------------------------------------
(* Sums, as MapThenSumSet makes them.                                      *)

\* A set of numbers that starts at zero and goes on from each is all of them.
LEMMA AllNumbers ==
  ASSUME NEW S \in SUBSET Nat, 0 \in S, \A n \in S : n + 1 \in S
  PROVE  \A n \in Nat : n \in S
<1> DEFINE R == OpToRel(<, Nat)
           D == Nat \ S
<1> SUFFICES ASSUME D # {} PROVE FALSE
  OBVIOUS
<1>1. \A a, b \in Nat : a < b => <<a, b>> \in R
  BY DEF OpToRel
<1>2. IsWellFoundedOn(R, Nat)
  BY NatLessThanWellFounded
<1>3. PICK n \in D : \A m \in D : ~ (<<m, n>> \in R)
  <2> HIDE DEF R
  <2> QED  BY <1>2, WFMin
<1>4. n \in Nat \ {0} /\ n - 1 \in Nat /\ n - 1 < n
  OBVIOUS
<1>5. n - 1 \in S
  BY <1>1, <1>3, <1>4
<1>6. QED  BY <1>4, <1>5

Pick(s) == CHOOSE x \in s : TRUE

\* F adds up b over the subsets of U, as MapThenSumSet does over U.
Adds(F, b, U) ==
  F = [s \in SUBSET U |-> IF s = {} THEN 0 ELSE b[Pick(s)] + F[s \ {Pick(s)}]]

\* Subsets without what is picked from them are smaller by one.
LEMMA PickedOut ==
  ASSUME NEW U, IsFiniteSet(U), NEW s \in SUBSET U, s # {}
  PROVE  /\ Pick(s) \in s /\ s \ {Pick(s)} \in SUBSET U
         /\ IsFiniteSet(s) /\ Cardinality(s) \in Nat \ {0}
         /\ Cardinality(s \ {Pick(s)}) = Cardinality(s) - 1
<1>1. Pick(s) \in s
  BY DEF Pick
<1>2. IsFiniteSet(s)
  BY FS_Subset
<1>3. Cardinality(s) \in Nat /\ Cardinality(s \ {Pick(s)}) = Cardinality(s) - 1
  BY <1>1, <1>2, FS_RemoveElement, FS_CardinalityType
<1>4. Cardinality(s) # 0
  BY <1>2, FS_EmptySet
<1>5. QED  BY <1>1, <1>2, <1>3, <1>4

\* Such a function exists.
LEMMA SumExists ==
  ASSUME NEW U, IsFiniteSet(U), NEW b
  PROVE  \E F : Adds(F, b, U)
<1> DEFINE Upto(n) == {s \in SUBSET U : Cardinality(s) <= n}
           Made(F, n) == F = [s \in Upto(n) |-> IF s = {} THEN 0 ELSE b[Pick(s)] + F[s \ {Pick(s)}]]
           N == {n \in Nat : \E F : Made(F, n)}
<1>0. \A s \in SUBSET U : IsFiniteSet(s) /\ Cardinality(s) \in Nat
  BY FS_Subset, FS_CardinalityType
<1>1. 0 \in N
  <2> DEFINE F == [s \in Upto(0) |-> 0]
  <2>1. \A s \in Upto(0) : s = {}
    BY <1>0, FS_EmptySet
  <2>2. Made(F, 0)
    BY <2>1
  <2>3. QED  BY <2>2
<1>2. ASSUME NEW n \in N PROVE n + 1 \in N
  <2>1. PICK F : Made(F, n)
    OBVIOUS
  <2> DEFINE G == [s \in Upto(n + 1) |-> IF s = {} THEN 0 ELSE b[Pick(s)] + F[s \ {Pick(s)}]]
  <2>2. \A s \in Upto(n) : s \in Upto(n + 1) /\ G[s] = F[s]
    <3> SUFFICES ASSUME NEW s \in Upto(n) PROVE s \in Upto(n + 1) /\ G[s] = F[s]
      OBVIOUS
    <3>1. s \in Upto(n + 1)
      BY <1>0
    <3>2. F[s] = IF s = {} THEN 0 ELSE b[Pick(s)] + F[s \ {Pick(s)}]
      BY <2>1
    <3>3. QED  BY <3>1, <3>2
  <2>3. \A s \in Upto(n + 1) : s # {} => s \ {Pick(s)} \in Upto(n)
    BY PickedOut
  <2>4. \A s \in Upto(n + 1) :
          G[s] = IF s = {} THEN 0 ELSE b[Pick(s)] + G[s \ {Pick(s)}]
    BY <2>2, <2>3
  <2>5. Made(G, n + 1)
    <3> DEFINE H == [s \in Upto(n + 1) |-> IF s = {} THEN 0 ELSE b[Pick(s)] + G[s \ {Pick(s)}]]
    <3>1. \A s \in Upto(n + 1) : G[s] = H[s]
      BY <2>4
    <3>2. DOMAIN G = Upto(n + 1) /\ DOMAIN H = Upto(n + 1)
      OBVIOUS
    <3>3. G = H
      BY <3>1, <3>2
    <3>4. QED  BY <3>3
  <2>6. n + 1 \in Nat
    OBVIOUS
  <2> HIDE DEF G, Made
  <2>7. QED  BY <2>5, <2>6
<1>3. Cardinality(U) \in N
  <2> HIDE DEF Made
  <2>1. N \in SUBSET Nat
    OBVIOUS
  <2> HIDE DEF N
  <2>2. QED  BY <1>0, <1>1, <1>2, <2>1, AllNumbers
<1>4. PICK F : Made(F, Cardinality(U))
  BY <1>3
<1>5. Upto(Cardinality(U)) = SUBSET U
  <2>1. \A s \in SUBSET U : Cardinality(s) <= Cardinality(U)
    BY FS_Subset
  <2>2. QED  BY <2>1
<1>6. QED
  BY <1>4, <1>5 DEF Adds

\* What it gives to a set that is not empty, and to the empty one.
LEMMA SumUnfolds ==
  ASSUME NEW U, NEW F, NEW b, Adds(F, b, U)
  PROVE  /\ F[{}] = 0
         /\ \A s \in SUBSET U : s # {} => F[s] = b[Pick(s)] + F[s \ {Pick(s)}]
BY DEF Adds

\* A sum of natural numbers is one.
LEMMA SumIsNat ==
  ASSUME NEW U, IsFiniteSet(U), NEW F, NEW b, Adds(F, b, U), \A i \in U : b[i] \in Nat
  PROVE  \A s \in SUBSET U : F[s] \in Nat
<1> DEFINE N == {n \in Nat : \A s \in SUBSET U : Cardinality(s) = n => F[s] \in Nat}
<1>0. \A s \in SUBSET U : IsFiniteSet(s) /\ Cardinality(s) \in Nat
  BY FS_Subset, FS_CardinalityType
<1>u. /\ F[{}] = 0
      /\ \A s \in SUBSET U : s # {} => F[s] = b[Pick(s)] + F[s \ {Pick(s)}]
  BY ONLY Adds(F, b, U), SumUnfolds
<1>1. 0 \in N
  BY <1>0, <1>u, FS_EmptySet
<1>2. ASSUME NEW n \in N PROVE n + 1 \in N
  <2> SUFFICES ASSUME NEW s \in SUBSET U, Cardinality(s) = n + 1 PROVE F[s] \in Nat
    OBVIOUS
  <2>1. s # {}
    BY FS_EmptySet
  <2>2. Pick(s) \in U /\ s \ {Pick(s)} \in SUBSET U /\ Cardinality(s \ {Pick(s)}) = n
    BY <2>1, PickedOut
  <2>3. b[Pick(s)] \in Nat /\ F[s \ {Pick(s)}] \in Nat
    BY <2>2
  <2>4. QED  BY <1>u, <2>1, <2>3
<1>3. N \in SUBSET Nat
  OBVIOUS
<1>4. \A n \in Nat : n \in N
  <2> HIDE DEF N
  <2>1. QED  BY <1>1, <1>2, <1>3, AllNumbers
<1>5. QED  BY <1>0, <1>4

\* One element more adds what it counts, whatever is picked first.
LEMMA SumOfOneMore ==
  ASSUME NEW U, IsFiniteSet(U), NEW F, NEW b, Adds(F, b, U), \A i \in U : b[i] \in Nat,
         NEW t \in SUBSET U, NEW z \in U \ t
  PROVE  F[t \cup {z}] = F[t] + b[z]
<1> DEFINE N == {n \in Nat : \A s \in SUBSET U : \A x \in U \ s :
                               Cardinality(s) = n => F[s \cup {x}] = F[s] + b[x]}
<1>0. \A s \in SUBSET U : IsFiniteSet(s) /\ Cardinality(s) \in Nat /\ F[s] \in Nat
  BY FS_Subset, FS_CardinalityType, SumIsNat
<1>u. /\ F[{}] = 0
      /\ \A s \in SUBSET U : s # {} => F[s] = b[Pick(s)] + F[s \ {Pick(s)}]
  BY ONLY Adds(F, b, U), SumUnfolds
<1>1. ASSUME NEW s \in SUBSET U, NEW x \in U \ s, Pick(s \cup {x}) = x
      PROVE  F[s \cup {x}] = F[s] + b[x]
  <2>1. s \cup {x} \in SUBSET U /\ s \cup {x} # {} /\ (s \cup {x}) \ {x} = s
    OBVIOUS
  <2>2. F[s \cup {x}] = b[x] + F[s]
    BY <1>1, <1>u, <2>1
  <2>3. QED  BY <1>0, <2>2
<1>2. 0 \in N
  <2> SUFFICES ASSUME NEW s \in SUBSET U, NEW x \in U \ s, Cardinality(s) = 0
               PROVE  F[s \cup {x}] = F[s] + b[x]
    OBVIOUS
  <2>1. s = {}
    BY <1>0, FS_EmptySet
  <2>2. Pick(s \cup {x}) = x
    BY <2>1 DEF Pick
  <2>3. QED  BY <1>1, <2>2
<1>3. ASSUME NEW n \in N PROVE n + 1 \in N
  <2> SUFFICES ASSUME NEW s \in SUBSET U, NEW x \in U \ s, Cardinality(s) = n + 1
               PROVE  F[s \cup {x}] = F[s] + b[x]
    OBVIOUS
  <2> DEFINE y == Pick(s \cup {x})
             r == s \ {y}
  <2>1. y \in s \cup {x}
    BY DEF Pick
  <2>2. CASE y = x
    BY <1>1, <2>2
  <2>3. CASE y # x
    <3>1. y \in s /\ r \in SUBSET U /\ x \in U \ r /\ y \in U \ r
      BY <2>1, <2>3
    <3>2. Cardinality(r) = n
      <4>1. IsFiniteSet(s) /\ y \in s
        BY <1>0, <3>1
      <4> HIDE DEF y
      <4>2. Cardinality(r) = Cardinality(s) - 1
        BY <4>1, FS_RemoveElement
      <4>3. QED  BY <4>2
    <3>3. F[r \cup {x}] = F[r] + b[x] /\ F[r \cup {y}] = F[r] + b[y]
      BY <3>1, <3>2
    <3>4. r \cup {y} = s /\ (s \cup {x}) \ {y} = r \cup {x}
      BY <2>3, <3>1
    <3>5. F[s \cup {x}] = b[y] + F[r \cup {x}]
      <4>1. s \cup {x} \in SUBSET U /\ s \cup {x} # {} /\ y = Pick(s \cup {x})
        OBVIOUS
      <4> HIDE DEF y
      <4>2. F[s \cup {x}] = b[y] + F[(s \cup {x}) \ {y}]
        BY <1>u, <4>1
      <4>3. QED  BY <3>4, <4>2
    <3>6. F[r] \in Nat /\ b[x] \in Nat /\ b[y] \in Nat
      BY <1>0, <3>1
    <3>7. F[s] = F[r] + b[y] /\ F[s \cup {x}] = b[y] + (F[r] + b[x])
      BY <3>3, <3>4, <3>5
    <3> HIDE DEF r, y
    <3>8. QED  BY <3>6, <3>7
  <2>4. QED  BY <2>2, <2>3
<1>4. N \in SUBSET Nat
  OBVIOUS
<1>5. \A n \in Nat : n \in N
  <2> HIDE DEF N
  <2>1. QED  BY <1>2, <1>3, <1>4, AllNumbers
<1>6. QED  BY <1>0, <1>5

\* Two sums that count alike agree.
LEMMA SumsAgree ==
  ASSUME NEW U, IsFiniteSet(U), NEW V, U \subseteq V, NEW F, NEW G, NEW b, NEW c,
         Adds(F, b, U), Adds(G, c, V), \A i \in U : b[i] = c[i]
  PROVE  \A s \in SUBSET U : F[s] = G[s]
<1> DEFINE N == {n \in Nat : \A s \in SUBSET U : Cardinality(s) = n => F[s] = G[s]}
<1>0. \A s \in SUBSET U : IsFiniteSet(s) /\ Cardinality(s) \in Nat
  BY FS_Subset, FS_CardinalityType
<1>u. /\ F[{}] = 0
      /\ \A s \in SUBSET U : s # {} => F[s] = b[Pick(s)] + F[s \ {Pick(s)}]
  BY ONLY Adds(F, b, U), SumUnfolds
<1>v. /\ G[{}] = 0
      /\ \A s \in SUBSET V : s # {} => G[s] = c[Pick(s)] + G[s \ {Pick(s)}]
  BY ONLY Adds(G, c, V), SumUnfolds
<1>1. 0 \in N
  BY <1>0, <1>u, <1>v, FS_EmptySet
<1>2. ASSUME NEW n \in N PROVE n + 1 \in N
  <2> SUFFICES ASSUME NEW s \in SUBSET U, Cardinality(s) = n + 1 PROVE F[s] = G[s]
    OBVIOUS
  <2>1. s # {}
    BY FS_EmptySet
  <2>2. Pick(s) \in U /\ s \ {Pick(s)} \in SUBSET U /\ Cardinality(s \ {Pick(s)}) = n
    BY <2>1, PickedOut
  <2>3. F[s \ {Pick(s)}] = G[s \ {Pick(s)}]
    BY <2>2
  <2>4. F[s] = b[Pick(s)] + F[s \ {Pick(s)}] /\ G[s] = c[Pick(s)] + G[s \ {Pick(s)}]
    BY <1>u, <1>v, <2>1
  <2>5. QED  BY <2>2, <2>3, <2>4
<1>3. N \in SUBSET Nat
  OBVIOUS
<1>4. \A n \in Nat : n \in N
  <2> HIDE DEF N
  <2>1. QED  BY <1>1, <1>2, <1>3, AllNumbers
<1>5. QED  BY <1>0, <1>4

\* What each event counts.
Bytes == [i \in DOMAIN log |-> log[i].bytes]

\* The sum that Output takes of a finite set of uses is one of those.
LEMMA OutputAdds ==
  ASSUME NEW g, NEW a, IsFiniteSet(Uses(g, a, "output"))
  PROVE  \E F : Adds(F, Bytes, Uses(g, a, "output")) /\ Output(g, a) = F[Uses(g, a, "output")]
<1> DEFINE U == Uses(g, a, "output")
           Iter(F) == F = [s \in SUBSET U |-> IF s = {} THEN 0
                             ELSE LET x == CHOOSE x \in s : TRUE
                                  IN  log[x].bytes + F[s \ {x}]]
<1>1. \A s \in SUBSET U : s # {} => Pick(s) \in DOMAIN log /\ Bytes[Pick(s)] = log[Pick(s)].bytes
  BY DEF Bytes, Uses, Pick
<1>2. \A F : Adds(F, Bytes, U) <=> Iter(F)
  <2> SUFFICES ASSUME NEW F PROVE Adds(F, Bytes, U) <=> Iter(F)
    OBVIOUS
  <2> DEFINE A == [s \in SUBSET U |-> IF s = {} THEN 0 ELSE Bytes[Pick(s)] + F[s \ {Pick(s)}]]
             B == [s \in SUBSET U |-> IF s = {} THEN 0 ELSE log[Pick(s)].bytes + F[s \ {Pick(s)}]]
  <2>1. A = B
    BY <1>1
  <2>2. Iter(F) <=> F = B
    BY Zenon DEF Pick
  <2>3. QED  BY <2>1, <2>2 DEF Adds
<1>3. \E F : Iter(F)
  <2>1. \E F : Adds(F, Bytes, U)
    BY SumExists
  <2> HIDE DEF Iter
  <2>2. QED  BY <1>2, <2>1
<1>4. Output(g, a) = (CHOOSE F : Iter(F))[U]
  BY Zenon DEF Output, MapThenSumSet, MapThenFoldSet
<1>5. Iter(CHOOSE F : Iter(F))
  <2> HIDE DEF Iter
  <2>1. QED  BY <1>3, Zenon
<1> HIDE DEF Iter
<1>6. QED  BY <1>2, <1>4, <1>5

------------------------------------------------------------------------------
(* What the journal says.                                                  *)

\* A nonempty set of positions has a last one.
LEMMA LastPosition ==
  ASSUME NEW L \in Nat, NEW C \in SUBSET (1..L), C # {}
  PROVE  \E i \in C : \A j \in C : j <= i
<1> DEFINE R == OpToRel(<, Nat)
           D == {n \in Nat : \E i \in C : n = L - i}
<1>1. \A a, b \in Nat : a < b => <<a, b>> \in R
  BY DEF OpToRel
<1>2. IsWellFoundedOn(R, Nat)
  BY NatLessThanWellFounded
<1>3. D \in SUBSET Nat /\ D # {}
  <2>1. PICK i \in C : TRUE
    OBVIOUS
  <2>2. L - i \in D
    BY <2>1
  <2>3. QED  BY <2>2
<1>4. \A i \in C : L - i \in D
  OBVIOUS
<1>5. \A n \in D : \E i \in C : n = L - i
  OBVIOUS
<1> HIDE DEF R, D
<1>6. PICK n \in D : \A m \in D : ~ (<<m, n>> \in R)
  BY <1>2, <1>3, WFMin
<1>7. PICK i \in C : n = L - i
  BY <1>5, <1>6
<1>8. ASSUME NEW j \in C PROVE j <= i
  <2>1. L - j \in D /\ L - j \in Nat /\ n \in Nat
    BY <1>3, <1>4
  <2>2. ~ (L - j < n)
    BY <1>1, <1>6, <2>1
  <2>3. QED  BY <1>7, <2>2
<1>9. QED  BY <1>8

\* The ids issued so far are counted by a natural number.
LEMMA KnownCounted ==
  ASSUME log \in Seq(Event)
  PROVE  Cardinality(Known) \in Nat
<1> DEFINE D == {i \in DOMAIN log : log[i].type = "issued"}
           f == [i \in D |-> log[i].grant]
<1>1. IsFiniteSet(D)
  <2>1. DOMAIN log = 1..Len(log) /\ Len(log) \in Nat
    BY LenProperties
  <2>2. IsFiniteSet(1..Len(log))
    BY <2>1, FS_Interval
  <2>3. D \in SUBSET (1..Len(log))
    BY <2>1
  <2> HIDE DEF D
  <2>4. QED  BY <2>2, <2>3, FS_Subset
<1>2. f \in Surjection(D, Known)
  BY DEF Surjection, Known
<1> HIDE DEF D, f
<1>3. IsFiniteSet(Known)
  BY <1>1, <1>2, FS_Surjection
<1>4. QED  BY <1>3, FS_CardinalityType

\* What resolve returns is in force.
LEMMA ResolvedInForce ==
  ASSUME log \in Seq(Event), Resolve # None
  PROVE  ~Revoked(Resolve) /\ Resolve \in Nat \cup {None}
<1> DEFINE best == CHOOSE i \in Candidates : \A j \in Candidates : j <= i
<1>1. Candidates # {} /\ Resolve = log[best].grant
  BY DEF Resolve
<1>2. DOMAIN log = 1..Len(log) /\ Len(log) \in Nat
  BY LenProperties
<1>3. Candidates \in SUBSET (1..Len(log))
  BY <1>2 DEF Candidates
<1>4. \E i \in Candidates : \A j \in Candidates : j <= i
  BY <1>1, <1>2, <1>3, LastPosition
<1>5. best \in Candidates
  BY <1>4
<1> HIDE DEF best
<1>6. ~Revoked(log[best].grant)
  BY <1>5 DEF Candidates, InForce
<1>7. log[best] \in Event
  BY <1>2, <1>3, <1>5, ElementOfSeq
<1>8. QED  BY <1>1, <1>6, <1>7 DEF Event

------------------------------------------------------------------------------
(* The inductive invariant.                                                *)

\* Ids are numbers, and only issued ones are revoked.
Naming ==
  \A i \in DOMAIN log :
    /\ log[i].type = "issued" => log[i].grant \in Nat
    /\ log[i].type = "revoked" => log[i].grant \in Known

\* What the holder of the lock has found out still holds.
Underway ==
  \A p \in Procs : lock = p =>
    /\ call[p][2].of # None => call[p][2].type = "issued" /\ call[p][2].purpose = "completion"
    /\ call[p][1] # "locked" =>
         /\ ~Revoked(call[p][2].of)
         /\ call[p][2].type = "issued" \/ ~Revoked(call[p][2].grant)
         /\ call[p][2].type = "issued" => call[p][2].grant \in Nat

IInv == TypeOK /\ Naming /\ Underway /\ NothingAfterRevocation

\* Nobody revokes None: the `of` of an event that has none.
LEMMA NoneStands ==
  ASSUME Naming
  PROVE  ~Revoked(None)
BY LimitsAssumption DEF Naming, Revoked, Known

\* The first invariant holds from the start.
LEMMA InitIInv == Init => IInv
<1> SUFFICES ASSUME Init PROVE IInv
  OBVIOUS
<1>1. log = <<>> /\ DOMAIN log = {} /\ log \in Seq(Event)
  BY EmptySeq DEF Init
<1>2. TypeOK
  BY <1>1, LimitsAssumption DEF Init, TypeOK
<1>3. Naming /\ NothingAfterRevocation
  BY <1>1 DEF Naming, NothingAfterRevocation
<1>4. Underway
  BY LimitsAssumption DEF Init, Underway
<1>5. QED  BY <1>2, <1>3, <1>4 DEF IInv

\* What Ask builds is of the schema when what it is given is.
LEMMA AskTyped ==
  ASSUME NEW types \in SUBSET {"issued", "revoked", "attempt", "action", "output"},
         NEW grants \in SUBSET (Nat \cup {None}),
         NEW purposes \in SUBSET {"execution", "completion", None},
         NEW expiries \in SUBSET Nat, NEW ofs \in SUBSET (Nat \cup {None}),
         NEW attempts \in SUBSET (Attempts \cup {None}), NEW sizes \in SUBSET Nat,
         NEW executions \in SUBSET (Executions \cup {None})
  PROVE  \A e \in Ask(types, grants, purposes, expiries, ofs, attempts, sizes, executions) :
           e \in Event /\ e.type \in types /\ e.of \in ofs /\ e.purpose \in purposes
<1> SUFFICES ASSUME NEW e \in Ask(types, grants, purposes, expiries, ofs, attempts, sizes, executions)
             PROVE  e \in Event /\ e.type \in types /\ e.of \in ofs /\ e.purpose \in purposes
  OBVIOUS
<1>1. /\ e = [type |-> e.type, grant |-> e.grant, purpose |-> e.purpose, expires |-> e.expires, of |-> e.of,
              attempt |-> e.attempt, bytes |-> e.bytes, execution |-> e.execution, at |-> e.at]
      /\ e.type \in types /\ e.grant \in grants /\ e.purpose \in purposes /\ e.expires \in expiries
      /\ e.of \in ofs /\ e.attempt \in attempts /\ e.bytes \in sizes /\ e.execution \in executions /\ e.at = 0
  BY DEF Ask
<1>2. /\ e.type \in {"issued", "revoked", "attempt", "action", "output"}
      /\ e.grant \in Nat \cup {None} /\ e.purpose \in {"execution", "completion", None} /\ e.expires \in Nat
      /\ e.of \in Nat \cup {None} /\ e.attempt \in Attempts \cup {None} /\ e.bytes \in Nat
      /\ e.execution \in Executions \cup {None} /\ e.at \in Nat
  BY <1>1
<1>3. QED  BY <1>1, <1>2 DEF Event

\* The requests are events of the schema, and only those of a completion grant name an `of`.
LEMMA RequestTyped ==
  ASSUME NEW e \in Requests, Naming
  PROVE  /\ e \in Event
         /\ e.of # None => e.type = "issued" /\ e.purpose = "completion"
<1>1. Known \in SUBSET (Nat \cup {None})
  BY DEF Naming, Known
<1>2. Expiries \in SUBSET Nat /\ Sizes \in SUBSET Nat /\ {0} \in SUBSET Nat
  BY LimitsAssumption DEF Expiries
<1>3. {None} \in SUBSET (Nat \cup {None}) /\ {None} \in SUBSET {"execution", "completion", None}
  OBVIOUS
<1>4. /\ {None} \in SUBSET (Attempts \cup {None}) /\ Attempts \in SUBSET (Attempts \cup {None})
      /\ {None} \in SUBSET (Executions \cup {None}) /\ Executions \in SUBSET (Executions \cup {None})
  OBVIOUS
<1>5. CASE e \in Ask({"issued"}, {None}, {"execution"}, Expiries, {None}, {None}, {0}, {None})
  BY <1>2, <1>3, <1>4, <1>5, AskTyped
<1>6. CASE e \in Ask({"issued"}, {None}, {"completion"}, Expiries, Known, {None}, {0}, {None})
  BY <1>1, <1>2, <1>3, <1>4, <1>6, AskTyped
<1>7. CASE e \in Ask({"revoked"}, Known, {None}, {0}, {None}, {None}, {0}, {None})
  BY <1>1, <1>2, <1>3, <1>4, <1>7, AskTyped
<1>8. CASE e \in Ask({"attempt", "action"}, {None}, {None}, {0}, {None}, Attempts, {0}, {None})
  BY <1>2, <1>3, <1>4, <1>8, AskTyped
<1>9. CASE e \in Ask({"output"}, {None}, {None}, {0}, {None}, Attempts, Sizes, Executions)
  BY <1>2, <1>3, <1>4, <1>9, AskTyped
<1>10. QED
  BY <1>5, <1>6, <1>7, <1>8, <1>9 DEF Requests, NewGrants

\* A call that goes on keeps the lock and the journal as they are.
LEMMA GoKeeps ==
  ASSUME IInv, NEW p \in Procs, lock = p,
         NEW step \in {"locked", "resolved", "allowed"}, NEW e \in Event, Go(p, <<step, e>>),
         e.of # None => e.type = "issued" /\ e.purpose = "completion",
         step # "locked" => /\ ~Revoked(e.of)
                            /\ e.type = "issued" \/ ~Revoked(e.grant)
                            /\ e.type = "issued" => e.grant \in Nat
  PROVE  IInv'
<1>1. UNCHANGED <<log, lock, clock>> /\ call' = [call EXCEPT ![p] = <<step, e>>]
  BY DEF Go
<1>2. call'[p] = <<step, e>> /\ \A q \in Procs : q # p => call'[q] = call[q]
  BY <1>1 DEF IInv, TypeOK
<1>3. TypeOK'
  <2>1. <<step, e>> \in {"locked", "resolved", "allowed"} \X Event /\ <<step, e>> # Idle
    BY DEF Idle
  <2>2. call' \in [Procs -> {Idle} \cup {"locked", "resolved", "allowed"} \X Event]
    BY <1>1, <2>1 DEF IInv, TypeOK
  <2>3. \A q \in Procs : lock' = q <=> call'[q] # Idle
    BY <1>1, <1>2, <2>1 DEF IInv, TypeOK
  <2>4. QED  BY <1>1, <2>2, <2>3 DEF IInv, TypeOK
<1>4. Naming' /\ NothingAfterRevocation'
  BY <1>1 DEF IInv, Naming, NothingAfterRevocation, Known
<1>5. Underway'
  <2>1. \A g : Revoked(g)' = Revoked(g)
    BY <1>1 DEF Revoked
  <2>2. \A q \in Procs : lock' = q => q = p
    BY <1>1
  <2>3. call'[p][1] = step /\ call'[p][2] = e
    BY <1>2
  <2>4. QED  BY <2>1, <2>2, <2>3 DEF Underway
<1>6. QED  BY <1>3, <1>4, <1>5 DEF IInv

\* So does one that ends without a write, but for the lock.
LEMMA EndKeeps ==
  ASSUME IInv, NEW p \in Procs, lock = p,
         UNCHANGED <<log, clock>>, call' = [call EXCEPT ![p] = Idle], lock' = None
  PROVE  IInv'
<1>1. call'[p] = Idle /\ \A q \in Procs : q # p => call'[q] = call[q]
  BY DEF IInv, TypeOK
<1>2. TypeOK'
  <2>1. call' \in [Procs -> {Idle} \cup {"locked", "resolved", "allowed"} \X Event]
    BY DEF IInv, TypeOK
  <2>2. \A q \in Procs : lock' = q <=> call'[q] # Idle
    BY <1>1, LimitsAssumption DEF IInv, TypeOK
  <2>3. QED  BY <2>1, <2>2 DEF IInv, TypeOK
<1>3. Naming' /\ NothingAfterRevocation'
  BY DEF IInv, Naming, NothingAfterRevocation, Known
<1>4. Underway'
  BY LimitsAssumption DEF Underway
<1>5. QED  BY <1>2, <1>3, <1>4 DEF IInv

\* The holder of the lock is the one whose call has begun.
LEMMA AtWork ==
  ASSUME IInv, NEW p \in Procs, call[p][1] \in {"locked", "resolved", "allowed"}
  PROVE  lock = p /\ call[p][2] \in Event /\ call[p] \in {"locked", "resolved", "allowed"} \X Event
<1>1. Idle[1] = "idle"
  BY DEF Idle
<1>2. call[p] # Idle
  BY <1>1
<1>3. QED  BY <1>2 DEF IInv, TypeOK

\* A call that begins has found the lock free.
LEMMA BeginStep ==
  ASSUME IInv, NEW p \in Procs, NEW e \in Requests, Begin(p, e)
  PROVE  IInv'
<1>1. UNCHANGED <<log, clock>> /\ lock = None /\ lock' = p /\ call' = [call EXCEPT ![p] = <<"locked", e>>]
  BY DEF Begin
<1>2. e \in Event /\ (e.of # None => e.type = "issued" /\ e.purpose = "completion")
  BY RequestTyped DEF IInv
<1>3. call'[p] = <<"locked", e>> /\ \A q \in Procs : q # p => call'[q] = Idle
  BY <1>1, LimitsAssumption DEF IInv, TypeOK
<1>4. TypeOK'
  <2>1. <<"locked", e>> \in {"locked", "resolved", "allowed"} \X Event /\ <<"locked", e>> # Idle
    BY <1>2 DEF Idle
  <2>2. call' \in [Procs -> {Idle} \cup {"locked", "resolved", "allowed"} \X Event]
    BY <1>1, <2>1 DEF IInv, TypeOK
  <2>3. \A q \in Procs : lock' = q <=> call'[q] # Idle
    BY <1>1, <1>3, <2>1
  <2>4. QED  BY <1>1, <2>2, <2>3 DEF IInv, TypeOK
<1>5. Naming' /\ NothingAfterRevocation'
  BY <1>1 DEF IInv, Naming, NothingAfterRevocation, Known
<1>6. Underway'
  <2>1. call'[p][1] = "locked" /\ call'[p][2] = e
    BY <1>3
  <2>2. QED  BY <1>1, <1>2, <2>1 DEF Underway
<1>7. QED  BY <1>4, <1>5, <1>6 DEF IInv

\* A grant that is issued names no revoked one.
LEMMA IssueStep ==
  ASSUME IInv, NEW p \in Procs, Issue(p)
  PROVE  IInv'
<1> DEFINE e == call[p][2]
           new == [e EXCEPT !.grant = Cardinality(Known) + 1]
<1>1. lock = p /\ e \in Event /\ e.type = "issued"
  BY AtWork DEF Issue
<1>2. CASE ~Issuable(e)
  BY <1>1, <1>2, EndKeeps DEF Issue, End
<1>3. CASE Issuable(e)
  <2>1. Cardinality(Known) + 1 \in Nat
    BY KnownCounted DEF IInv, TypeOK
  <2>2. /\ new \in Event /\ new.grant \in Nat
        /\ new.type = "issued" /\ new.of = e.of /\ new.purpose = e.purpose
    BY <1>1, <2>1 DEF Event
  <2>3. new.of # None => new.purpose = "completion"
    BY <1>1, <2>2 DEF IInv, Underway
  <2>4. ~Revoked(new.of)
    <3>1. CASE e.of = None
      BY <2>2, <3>1, NoneStands DEF IInv
    <3>2. CASE e.of # None
      BY <1>3, <2>2, <2>3, <3>2 DEF Issuable
    <3>3. QED  BY <3>1, <3>2
  <2>5. Go(p, <<"allowed", new>>)
    BY <1>3 DEF Issue
  <2> HIDE DEF new
  <2>6. QED  BY <1>1, <2>2, <2>3, <2>4, <2>5, GoKeeps
<1>4. QED  BY <1>2, <1>3

\* Only an issued grant that stands is revoked.
LEMMA RevokeStep ==
  ASSUME IInv, NEW p \in Procs, Revoke(p)
  PROVE  IInv'
<1> DEFINE e == call[p][2]
<1>1. lock = p /\ e \in Event /\ e.type = "revoked"
  BY AtWork DEF Revoke
<1>2. CASE Revoked(e.grant)
  BY <1>1, <1>2, EndKeeps DEF Revoke, End
<1>3. CASE ~Revoked(e.grant)
  <2>1. e.of = None /\ ~Revoked(e.of)
    BY <1>1, NoneStands DEF IInv, Underway
  <2>2. Go(p, <<"allowed", e>>)
    BY <1>3 DEF Revoke
  <2> HIDE DEF e
  <2>3. QED  BY <1>1, <1>3, <2>1, <2>2, GoKeeps
<1>4. QED  BY <1>2, <1>3

\* A use that goes on has resolved a grant in force.
LEMMA UseStep ==
  ASSUME IInv, NEW p \in Procs, Use(p)
  PROVE  IInv'
<1> DEFINE e == call[p][2]
           charged == [e EXCEPT !.grant = Resolve]
<1>1. lock = p /\ e \in Event /\ e.type # "issued"
  BY AtWork DEF Use
<1>2. CASE Resolve = None
  BY <1>1, <1>2, EndKeeps DEF Use, End
<1>3. CASE Resolve # None
  <2>1. ~Revoked(Resolve) /\ Resolve \in Nat \cup {None}
    BY <1>3, ResolvedInForce DEF IInv, TypeOK
  <2>2. /\ charged \in Event /\ charged.grant = Resolve
        /\ charged.type = e.type /\ charged.of = e.of /\ charged.purpose = e.purpose
    BY <1>1, <2>1 DEF Event
  <2>3. charged.of = None /\ ~Revoked(charged.of)
    BY <1>1, <2>2, NoneStands DEF IInv, Underway
  <2>4. Go(p, <<"resolved", charged>>)
    BY <1>3 DEF Use
  <2> HIDE DEF charged
  <2>5. QED  BY <1>1, <2>1, <2>2, <2>3, <2>4, GoKeeps
<1>4. QED  BY <1>2, <1>3

\* Counting changes nothing.
LEMMA ChargeStep ==
  ASSUME IInv, NEW p \in Procs, Charge(p)
  PROVE  IInv'
<1> DEFINE e == call[p][2]
<1>1. lock = p /\ e \in Event /\ call[p][1] = "resolved"
  BY AtWork DEF Charge
<1>2. CASE ~Allowed(e)
  BY <1>1, <1>2, EndKeeps DEF Charge, End
<1>3. CASE Allowed(e)
  <2>1. /\ e.of # None => e.type = "issued" /\ e.purpose = "completion"
        /\ ~Revoked(e.of)
        /\ e.type = "issued" \/ ~Revoked(e.grant)
        /\ e.type = "issued" => e.grant \in Nat
    BY <1>1 DEF IInv, Underway
  <2>2. Go(p, <<"allowed", e>>)
    BY <1>3 DEF Charge
  <2> HIDE DEF e
  <2>3. QED  BY <1>1, <2>1, <2>2, GoKeeps
<1>4. QED  BY <1>2, <1>3

\* An event that passes the validation keeps what the journal says in order.
LEMMA AppendKeeps ==
  ASSUME IInv, NEW e \in Event,
         e.type = "revoked" => e.grant \in Known,
         e.type = "issued" => e.grant \in Nat,
         ~Revoked(e.of), ~Revoked(e.grant) \/ (e.type = "issued" /\ e.grant \notin Known),
         log' = Append(log, e)
  PROVE  log' \in Seq(Event) /\ Naming' /\ NothingAfterRevocation'
<1>1. log \in Seq(Event)
  BY DEF IInv, TypeOK
<1>2. /\ DOMAIN log = 1..Len(log) /\ Len(log) \in Nat
      /\ DOMAIN log' = 1..(Len(log) + 1)
      /\ log' \in Seq(Event)
      /\ \A i \in DOMAIN log : log'[i] = log[i]
      /\ log'[Len(log) + 1] = e
  BY <1>1, LenProperties, AppendProperties
<1>3. \A i \in DOMAIN log' : i \in DOMAIN log \/ i = Len(log) + 1
  BY <1>2
<1>4. ~Revoked(e.grant)
  BY DEF IInv, Naming, Revoked, Known
<1>5. Known \subseteq Known'
  BY <1>2 DEF Known
<1>6. Naming'
  BY <1>2, <1>3, <1>5 DEF IInv, Naming
<1>7. NothingAfterRevocation'
  <2> SUFFICES ASSUME NEW i \in DOMAIN log', NEW j \in DOMAIN log', i < j, log'[i].type = "revoked"
               PROVE  log'[i].grant \notin {log'[j].grant, log'[j].of}
    BY DEF NothingAfterRevocation
  <2>1. i \in DOMAIN log /\ log'[i] = log[i]
    BY <1>2
  <2>2. CASE j \in DOMAIN log
    BY <1>2, <2>1, <2>2 DEF IInv, NothingAfterRevocation
  <2>3. CASE j = Len(log) + 1
    <3>1. log'[j] = e
      BY <1>2, <2>3
    <3>2. QED  BY <1>4, <2>1, <3>1 DEF Revoked
  <2>4. QED  BY <1>3, <2>2, <2>3
<1>8. QED  BY <1>2, <1>6, <1>7

\* What is written names no revoked grant: the lock was held since it was looked up.
LEMMA WriteStep ==
  ASSUME IInv, NEW p \in Procs, Write(p)
  PROVE  IInv'
<1> DEFINE e == call[p][2]
           written == [e EXCEPT !.at = clock]
<1>1. lock = p /\ e \in Event /\ call[p][1] = "allowed"
  BY AtWork DEF Write
<1>2. /\ call' = [call EXCEPT ![p] = Idle] /\ lock' = None /\ clock' = clock
      /\ log' = IF Valid(e) THEN Append(log, written) ELSE log
  BY DEF Write
<1>3. CASE ~Valid(e)
  BY <1>1, <1>2, <1>3, EndKeeps
<1>4. CASE Valid(e)
  <2>1. /\ written \in Event /\ written.type = e.type
        /\ written.grant = e.grant /\ written.of = e.of
    BY <1>1 DEF Event, IInv, TypeOK
  <2>2. /\ ~Revoked(e.of)
        /\ e.type = "issued" \/ ~Revoked(e.grant)
        /\ e.type = "issued" => e.grant \in Nat
    BY <1>1 DEF IInv, Underway
  <2>3. /\ e.type = "issued" => e.grant \notin Known
        /\ e.type = "revoked" => e.grant \in Known
    BY <1>4 DEF Valid
  <2>4. log' = Append(log, written)
    BY <1>2, <1>4
  <2> HIDE DEF written
  <2>5. log' \in Seq(Event) /\ Naming' /\ NothingAfterRevocation'
    <3>1. /\ written.type = "revoked" => written.grant \in Known
          /\ written.type = "issued" => written.grant \in Nat
          /\ ~Revoked(written.of)
          /\ ~Revoked(written.grant) \/ (written.type = "issued" /\ written.grant \notin Known)
      BY <2>1, <2>2, <2>3
    <3>2. QED  BY <2>1, <2>4, <3>1, AppendKeeps
  <2>6. call' \in [Procs -> {Idle} \cup {"locked", "resolved", "allowed"} \X Event]
    BY <1>2 DEF IInv, TypeOK
  <2>7. \A q \in Procs : lock' = q <=> call'[q] # Idle
    BY <1>1, <1>2, LimitsAssumption DEF IInv, TypeOK
  <2>8. TypeOK'
    BY <1>2, <2>5, <2>6, <2>7 DEF IInv, TypeOK
  <2>9. Underway'
    BY <1>2, LimitsAssumption DEF Underway
  <2>10. QED  BY <2>5, <2>8, <2>9 DEF IInv
<1>5. QED  BY <1>3, <1>4

\* A process that dies leaves the journal as it is.
LEMMA CrashStep ==
  ASSUME IInv, NEW p \in Procs, Crash(p)
  PROVE  IInv'
<1>1. lock = p /\ lock' = None
  BY DEF Crash, IInv, TypeOK
<1>2. QED  BY <1>1, EndKeeps DEF Crash

\* What changes no more than the clock.
LEMMA QuietStep ==
  ASSUME IInv, UNCHANGED <<log, lock, call>>, clock' \in Nat
  PROVE  IInv'
<1>1. TypeOK'
  BY DEF IInv, TypeOK
<1>2. Naming' /\ NothingAfterRevocation'
  BY DEF IInv, Naming, NothingAfterRevocation, Known
<1>3. \A g : Revoked(g)' = Revoked(g)
  BY DEF Revoked
<1>4. Underway'
  BY <1>3 DEF IInv, Underway
<1>5. QED  BY <1>1, <1>2, <1>4 DEF IInv

\* Every step keeps the first invariant.
LEMMA NextStep == IInv /\ [Next]_vars => IInv'
<1> SUFFICES ASSUME IInv, [Next]_vars PROVE IInv'
  OBVIOUS
<1>1. ASSUME NEW p \in Procs, NEW e \in Requests, Begin(p, e) PROVE IInv'
  BY <1>1, BeginStep
<1>2. ASSUME NEW p \in Procs, Issue(p) PROVE IInv'
  BY <1>2, IssueStep
<1>3. ASSUME NEW p \in Procs, Revoke(p) PROVE IInv'
  BY <1>3, RevokeStep
<1>4. ASSUME NEW p \in Procs, Use(p) PROVE IInv'
  BY <1>4, UseStep
<1>5. ASSUME NEW p \in Procs, Charge(p) PROVE IInv'
  BY <1>5, ChargeStep
<1>6. ASSUME NEW p \in Procs, Write(p) PROVE IInv'
  BY <1>6, WriteStep
<1>7. ASSUME NEW p \in Procs, Crash(p) PROVE IInv'
  BY <1>7, CrashStep
<1>8. CASE Tick
  BY <1>8, QuietStep DEF Tick, IInv, TypeOK
<1>9. CASE UNCHANGED vars
  BY <1>9, QuietStep DEF vars, IInv, TypeOK
<1>10. QED
  BY <1>1, <1>2, <1>3, <1>4, <1>5, <1>6, <1>7, <1>8, <1>9 DEF Next

------------------------------------------------------------------------------
(* The invariant of the budgets, next to the one above.                    *)

\* Ids are given in the order of issue, and none is left out.
Numbered ==
  /\ \E n \in Nat : Known = 1..n
  /\ \A i, j \in DOMAIN log :
       log[i].type = "issued" /\ log[j].type = "issued" /\ i < j => log[i].grant < log[j].grant

\* No id, known or not, is charged past a limit.
Limits ==
  \A g \in Nat :
    /\ IsFiniteSet(AttemptsOf(g)) /\ Cardinality(AttemptsOf(g)) <= MaxAttempts
    /\ \A a \in Attempts : Cardinality(Uses(g, a, "action")) <= MaxActions /\ Output(g, a) <= MaxOutput

\* No grant issued after g is in force.
Newest(g) ==
  \A i \in DOMAIN log :
    /\ log[i].type = "issued" /\ log[i].purpose = "execution"
    /\ log[i].grant > g /\ log[i].expires > clock
    => Revoked(log[i].grant)

\* There is room for what e charges.
Affordable(e) ==
  /\ e.type = "attempt" => Cardinality(AttemptsOf(e.grant)) < MaxAttempts
  /\ e.type = "action" => Cardinality(Uses(e.grant, e.attempt, "action")) < MaxActions
  /\ e.type = "output" => Fits(e)

Charges == {"attempt", "action", "output"}

\* What the holder of the lock counted and resolved still holds.
Paying ==
  \A p \in Procs : lock = p /\ call[p][1] # "locked" =>
    /\ call[p][2].type = "issued" => call[p][2].grant = Cardinality(Known) + 1
    /\ call[p][2].type \in Charges => call[p][2].grant \in Nat /\ Newest(call[p][2].grant)
    /\ call[p][1] = "allowed" => Affordable(call[p][2])

Paid == Numbered /\ Limits /\ NewestPays /\ Paying

------------------------------------------------------------------------------
(* What an unchanged journal, and one longer by an event, say.             *)

\* The positions of uses are finitely many.
LEMMA UsesFinite ==
  ASSUME log \in Seq(Event)
  PROVE  \A g, a, type : /\ Uses(g, a, type) \in SUBSET (1..Len(log))
                         /\ IsFiniteSet(Uses(g, a, type))
<1>1. Len(log) \in Nat /\ DOMAIN log = 1..Len(log)
  BY LenProperties
<1>2. IsFiniteSet(1..Len(log))
  BY <1>1, FS_Interval
<1>3. \A g, a, type : Uses(g, a, type) \in SUBSET (1..Len(log))
  BY <1>1 DEF Uses
<1>4. QED  BY <1>2, <1>3, FS_Subset

\* The output of every attempt as a sum, now and after a step.
OutputIsSum ==
  \A g, a : IsFiniteSet(Uses(g, a, "output")) =>
    \E F : Adds(F, Bytes, Uses(g, a, "output")) /\ Output(g, a) = F[Uses(g, a, "output")]

\* So it is in the state before a step and in the one after it.
LEMMA OutputNowAndNext == OutputIsSum /\ OutputIsSum'
<1>1. OutputIsSum
  BY OutputAdds DEF OutputIsSum
<1>2. QED  BY <1>1, PTL

\* Output counts what is recorded of the attempt: as before, and one event more.
LEMMA OutputAppended ==
  ASSUME NEW g, NEW a, NEW U, IsFiniteSet(U), Uses(g, a, "output") = U,
         \A i \in U : Bytes[i] \in Nat /\ Bytes'[i] = Bytes[i]
  PROVE  /\ Output(g, a) \in Nat
         /\ Uses(g, a, "output")' = U => Output(g, a)' = Output(g, a)
         /\ \A n : n \notin U /\ Bytes'[n] \in Nat /\ Uses(g, a, "output")' = U \cup {n} =>
              Output(g, a)' = Output(g, a) + Bytes'[n]
<1>1. PICK F : Adds(F, Bytes, U) /\ Output(g, a) = F[U]
  BY OutputNowAndNext DEF OutputIsSum
<1>2. F[U] \in Nat
  BY <1>1, SumIsNat
<1>3. ASSUME Uses(g, a, "output")' = U PROVE Output(g, a)' = Output(g, a)
  <2>1. PICK G : Adds(G, Bytes', U) /\ Output(g, a)' = G[U]
    BY <1>3, OutputNowAndNext DEF OutputIsSum
  <2>2. F[U] = G[U]
    BY <1>1, <2>1, SumsAgree
  <2>3. QED  BY <1>1, <2>1, <2>2
<1>4. ASSUME NEW n, n \notin U, Bytes'[n] \in Nat, Uses(g, a, "output")' = U \cup {n}
      PROVE  Output(g, a)' = Output(g, a) + Bytes'[n]
  <2>a. PICK V : V = U \cup {n}
    OBVIOUS
  <2>b. PICK c : c = Bytes'
    OBVIOUS
  <2>1. IsFiniteSet(V) /\ U \in SUBSET V /\ n \in V \ U
    BY <1>4, <2>a, FS_AddElement
  <2>2. PICK G : Adds(G, c, V) /\ Output(g, a)' = G[V]
    BY <1>4, <2>1, <2>a, <2>b, OutputNowAndNext DEF OutputIsSum
  <2>3. (\A i \in V : c[i] \in Nat) /\ (\A i \in U : Bytes[i] = c[i])
    BY <1>4, <2>a, <2>b
  <2>4. c[n] = Bytes'[n] /\ V = U \cup {n}
    BY <2>a, <2>b
  <2>5. \A s \in SUBSET U : F[s] = G[s]
    <3>1. Adds(F, Bytes, U) /\ Adds(G, c, V) /\ U \subseteq V
      BY <1>1, <2>1, <2>2
    <3>2. \A i \in U : Bytes[i] = c[i]
      BY <2>3
    <3>3. QED  BY <3>1, <3>2, SumsAgree
  <2>7. G[U \cup {n}] = G[U] + c[n]
    <3>1. IsFiniteSet(V) /\ Adds(G, c, V) /\ U \in SUBSET V /\ n \in V \ U
      BY <2>1, <2>2
    <3>2. \A i \in V : c[i] \in Nat
      BY <2>3
    <3>3. QED  BY <3>1, <3>2, SumOfOneMore
  <2>8. QED  BY <1>1, <2>a, <2>2, <2>4, <2>5, <2>7
<1>5. QED  BY <1>1, <1>2, <1>3, <1>4

\* A journal that is not written to says what it said.
LEMMA LogStays ==
  ASSUME log \in Seq(Event), log' = log
  PROVE  /\ Known' = Known
         /\ \A g : Revoked(g)' = Revoked(g) /\ AttemptsOf(g)' = AttemptsOf(g)
         /\ \A g, a : Output(g, a)' = Output(g, a)
         /\ \A g, a, type : Uses(g, a, type)' = Uses(g, a, type)
<1>1. \A g, a, type : Uses(g, a, type)' = Uses(g, a, type)
  BY DEF Uses
<1>2. ASSUME NEW g, NEW a PROVE Output(g, a)' = Output(g, a)
  <2> DEFINE U == Uses(g, a, "output")
  <2>1. IsFiniteSet(U) /\ U \in SUBSET (1..Len(log))
    BY UsesFinite
  <2>2. \A i \in U : Bytes[i] \in Nat /\ Bytes'[i] = Bytes[i]
    <3>1. \A i \in U : i \in DOMAIN log /\ log[i] \in Event
      BY <2>1, LenProperties, ElementOfSeq
    <3>2. QED  BY <3>1 DEF Bytes, Event
  <2> HIDE DEF U
  <2>3. Uses(g, a, "output") = U /\ Uses(g, a, "output")' = U
    BY <1>1 DEF U
  <2>4. QED  BY <2>1, <2>2, <2>3, OutputAppended
<1>3. Known' = Known /\ \A g : Revoked(g)' = Revoked(g) /\ AttemptsOf(g)' = AttemptsOf(g)
  BY <1>1 DEF Known, Revoked, AttemptsOf
<1>4. QED  BY <1>1, <1>2, <1>3

\* One that is longer by w says no more than w does.
LEMMA LogGrows ==
  ASSUME log \in Seq(Event), NEW w \in Event, log' = Append(log, w)
  PROVE  /\ Known' = IF w.type = "issued" THEN Known \cup {w.grant} ELSE Known
         /\ \A g : Revoked(g) => Revoked(g)'
         /\ \A g : AttemptsOf(g)' \subseteq AttemptsOf(g) \cup {w.attempt}
         /\ \A g : w.type # "attempt" \/ w.grant # g => AttemptsOf(g)' = AttemptsOf(g)
         /\ \A g, a, type :
              Uses(g, a, type)' = IF w.type = type /\ w.grant = g /\ w.attempt = a
                                  THEN Uses(g, a, type) \cup {Len(log) + 1} ELSE Uses(g, a, type)
         /\ \A g, a : /\ Output(g, a) \in Nat
                      /\ Output(g, a)' = IF w.type = "output" /\ w.grant = g /\ w.attempt = a
                                         THEN Output(g, a) + w.bytes ELSE Output(g, a)
<1> DEFINE n == Len(log) + 1
<1>1. /\ DOMAIN log = 1..Len(log) /\ Len(log) \in Nat /\ DOMAIN log' = 1..n
      /\ \A i \in DOMAIN log : log'[i] = log[i] /\ i # n /\ i \in DOMAIN log'
      /\ log'[n] = w /\ n \in DOMAIN log'
      /\ \A i \in DOMAIN log' : i \in DOMAIN log \/ i = n
  BY LenProperties, AppendProperties
<1> HIDE DEF n
<1>2. \A g, a, type :
        Uses(g, a, type)' = IF w.type = type /\ w.grant = g /\ w.attempt = a
                            THEN Uses(g, a, type) \cup {n} ELSE Uses(g, a, type)
  BY <1>1 DEF Uses
<1>3. Known' = IF w.type = "issued" THEN Known \cup {w.grant} ELSE Known
  BY <1>1 DEF Known
<1>4. \A g : Revoked(g) => Revoked(g)'
  BY <1>1 DEF Revoked
<1>5. \A g : AttemptsOf(g)' \subseteq AttemptsOf(g) \cup {w.attempt}
  BY <1>2 DEF AttemptsOf
<1>6. \A g : w.type # "attempt" \/ w.grant # g => AttemptsOf(g)' = AttemptsOf(g)
  BY <1>2 DEF AttemptsOf
<1>7. ASSUME NEW g, NEW a
      PROVE  /\ Output(g, a) \in Nat
             /\ Output(g, a)' = IF w.type = "output" /\ w.grant = g /\ w.attempt = a
                                THEN Output(g, a) + w.bytes ELSE Output(g, a)
  <2> DEFINE U == Uses(g, a, "output")
  <2>1. IsFiniteSet(U) /\ U \in SUBSET (1..Len(log))
    BY UsesFinite
  <2>2. \A i \in U : Bytes[i] \in Nat /\ Bytes'[i] = Bytes[i]
    <3>1. \A i \in U : i \in DOMAIN log /\ log[i] \in Event
      BY <1>1, <2>1, ElementOfSeq
    <3>2. QED  BY <1>1, <3>1 DEF Bytes, Event
  <2>3. n \notin U /\ Bytes'[n] = w.bytes /\ w.bytes \in Nat
    BY <1>1, <2>1 DEF Bytes, Event, n
  <2>4. Uses(g, a, "output")' = IF w.type = "output" /\ w.grant = g /\ w.attempt = a
                                THEN U \cup {n} ELSE U
    BY <1>2
  <2>5. Uses(g, a, "output") = U
    OBVIOUS
  <2> HIDE DEF U
  <2>6. /\ Output(g, a) \in Nat
        /\ Uses(g, a, "output")' = U => Output(g, a)' = Output(g, a)
        /\ \A m : m \notin U /\ Bytes'[m] \in Nat /\ Uses(g, a, "output")' = U \cup {m} =>
             Output(g, a)' = Output(g, a) + Bytes'[m]
    BY <2>1, <2>2, <2>5, OutputAppended
  <2>7. QED  BY <2>3, <2>4, <2>6
<1>8. QED  BY <1>2, <1>3, <1>4, <1>5, <1>6, <1>7 DEF n

------------------------------------------------------------------------------
(* The steps keep the budgets.                                             *)

\* What resolve returns was issued, and no grant issued after it is in force.
LEMMA ResolvedNewest ==
  ASSUME log \in Seq(Event), Naming, Numbered, Resolve # None
  PROVE  Resolve \in Nat /\ Newest(Resolve)
<1> DEFINE best == CHOOSE i \in Candidates : \A j \in Candidates : j <= i
<1>1. Candidates # {} /\ Resolve = log[best].grant
  BY DEF Resolve
<1>2. DOMAIN log = 1..Len(log) /\ Len(log) \in Nat
  BY LenProperties
<1>3. Candidates \in SUBSET (1..Len(log))
  BY <1>2 DEF Candidates
<1>4. \E i \in Candidates : \A j \in Candidates : j <= i
  BY <1>1, <1>2, <1>3, LastPosition
<1>5. best \in Candidates /\ \A j \in Candidates : j <= best
  BY <1>4
<1> HIDE DEF best
<1>6. best \in DOMAIN log /\ log[best].type = "issued"
  BY <1>5 DEF Candidates
<1>7. Resolve \in Nat
  BY <1>1, <1>6 DEF Naming
<1>8. Newest(Resolve)
  <2> SUFFICES ASSUME NEW i \in DOMAIN log, log[i].type = "issued", log[i].purpose = "execution",
                      log[i].grant > Resolve, log[i].expires > clock, ~Revoked(log[i].grant)
               PROVE  FALSE
    BY DEF Newest
  <2>1. log[i].grant \in Nat
    BY DEF Naming
  <2>2. Issued(log[i].grant) = {i}
    <3>1. ASSUME NEW k \in Issued(log[i].grant) PROVE k = i
      <4>1. k \in DOMAIN log /\ log[k].type = "issued" /\ log[k].grant = log[i].grant
        BY DEF Issued
      <4>2. ~(k < i) /\ ~(i < k)
        BY <2>1, <4>1 DEF Numbered
      <4>3. QED  BY <1>2, <4>1, <4>2
    <3>2. i \in Issued(log[i].grant)
      BY DEF Issued
    <3>3. QED  BY <3>1, <3>2
  <2>3. Record(log[i].grant) = log[i]
    BY <2>2 DEF Record
  <2>4. i \in Candidates
    BY <2>3 DEF Candidates, InForce
  <2>5. i <= best /\ i \in Nat /\ best \in Nat
    BY <1>2, <1>5, <1>6, <2>4
  <2>6. i # best
    BY <1>1, <1>7
  <2>7. log[i].grant < log[best].grant
    BY <1>6, <2>5, <2>6 DEF Numbered
  <2>8. QED  BY <1>1, <1>7, <2>1, <2>7
<1>9. QED  BY <1>7, <1>8

\* While nothing is written, the limits and the newest grants stay.
LEMMA QuietPaid ==
  ASSUME IInv, Paid, log' = log, clock' \in Nat, clock <= clock'
  PROVE  /\ Numbered' /\ Limits' /\ NewestPays'
         /\ \A g : Newest(g) => Newest(g)'
         /\ \A e : Affordable(e) => Affordable(e)'
<1>1. log \in Seq(Event) /\ clock \in Nat /\ \A i \in DOMAIN log : log[i].expires \in Nat
  <2>1. \A i \in DOMAIN log : log[i] \in Event
    BY LenProperties, ElementOfSeq DEF IInv, TypeOK
  <2>2. QED  BY <2>1 DEF IInv, TypeOK, Event
<1>2. /\ Known' = Known
      /\ \A g : Revoked(g)' = Revoked(g) /\ AttemptsOf(g)' = AttemptsOf(g)
      /\ \A g, a : Output(g, a)' = Output(g, a)
      /\ \A g, a, type : Uses(g, a, type)' = Uses(g, a, type)
  BY <1>1, LogStays
<1>3. Numbered' /\ NewestPays'
  BY <1>2 DEF Paid, Numbered, NewestPays
<1>4. Limits'
  BY <1>2 DEF Paid, Limits
<1>5. ASSUME NEW g, Newest(g) PROVE Newest(g)'
  BY <1>1, <1>2, <1>5 DEF Newest
<1>6. ASSUME NEW e, Affordable(e) PROVE Affordable(e)'
  BY <1>2, <1>6 DEF Affordable, Fits
<1>7. QED  BY <1>3, <1>4, <1>5, <1>6

\* A call that goes on, if what it has found out holds.
LEMMA GoPaid ==
  ASSUME IInv, Paid, NEW p \in Procs, lock = p, NEW step, NEW e, Go(p, <<step, e>>),
         step # "locked" =>
           /\ e.type = "issued" => e.grant = Cardinality(Known) + 1
           /\ e.type \in Charges => e.grant \in Nat /\ Newest(e.grant)
           /\ step = "allowed" => Affordable(e)
  PROVE  Paid'
<1>1. UNCHANGED <<log, lock, clock>> /\ call' = [call EXCEPT ![p] = <<step, e>>]
  BY DEF Go
<1>2. call'[p][1] = step /\ call'[p][2] = e
  BY <1>1 DEF IInv, TypeOK
<1>3. /\ Numbered' /\ Limits' /\ NewestPays'
      /\ \A g : Newest(g) => Newest(g)'
      /\ \A x : Affordable(x) => Affordable(x)'
  <2>1. log' = log /\ clock' \in Nat /\ clock <= clock'
    BY <1>1 DEF IInv, TypeOK
  <2>2. QED  BY <2>1, QuietPaid
<1>4. Known' = Known
  BY <1>1 DEF Known
<1>5. \A q \in Procs : lock' = q => q = p
  BY <1>1
<1>6. Paying'
  <2> SUFFICES ASSUME step # "locked"
               PROVE  /\ e.type = "issued" => e.grant = Cardinality(Known)' + 1
                      /\ e.type \in Charges => e.grant \in Nat /\ Newest(e.grant)'
                      /\ step = "allowed" => Affordable(e)'
    BY <1>2, <1>5 DEF Paying
  <2>1. Cardinality(Known)' = Cardinality(Known)
    BY <1>4
  <2>2. QED  BY <1>3, <2>1
<1>7. QED  BY <1>3, <1>6 DEF Paid

\* A call that ends leaves nothing to be paid.
LEMMA EndPaid ==
  ASSUME IInv, Paid, UNCHANGED <<log, clock>>, lock' = None
  PROVE  Paid'
<1>1. log' = log /\ clock' \in Nat /\ clock <= clock'
  BY DEF IInv, TypeOK
<1>2. Numbered' /\ Limits' /\ NewestPays'
  BY <1>1, QuietPaid
<1>3. Paying'
  BY LimitsAssumption DEF Paying
<1>4. QED  BY <1>2, <1>3 DEF Paid

\* The event that is written is within the limits, and names the right grant.
LEMMA WritePaid ==
  ASSUME IInv, Paid, NEW p \in Procs, Write(p), Valid(call[p][2])
  PROVE  Paid'
<1> DEFINE e == call[p][2]
           w == [e EXCEPT !.at = clock]
           n == Len(log) + 1
<1>1. /\ log \in Seq(Event) /\ clock \in Nat
      /\ lock = p /\ e \in Event /\ call[p][1] = "allowed"
  BY AtWork DEF Write, IInv, TypeOK
<1>2. log' = Append(log, w) /\ lock' = None /\ clock' = clock
  BY DEF Write
<1>3. /\ w \in Event /\ w.type = e.type /\ w.grant = e.grant /\ w.at = clock
      /\ w.attempt = e.attempt /\ w.bytes = e.bytes /\ w.bytes \in Nat
      /\ w.expires = e.expires
  BY <1>1 DEF Event
<1>4. /\ e.type = "issued" => e.grant = Cardinality(Known) + 1
      /\ e.type \in Charges => e.grant \in Nat /\ Newest(e.grant)
      /\ Affordable(e)
  BY <1>1 DEF Paid, Paying
<1> HIDE DEF e, w
<1>5. /\ Known' = IF w.type = "issued" THEN Known \cup {w.grant} ELSE Known
      /\ \A g : AttemptsOf(g)' \subseteq AttemptsOf(g) \cup {w.attempt}
      /\ \A g : w.type # "attempt" \/ w.grant # g => AttemptsOf(g)' = AttemptsOf(g)
      /\ \A g, a, type :
           Uses(g, a, type)' = IF w.type = type /\ w.grant = g /\ w.attempt = a
                               THEN Uses(g, a, type) \cup {n} ELSE Uses(g, a, type)
      /\ \A g, a : /\ Output(g, a) \in Nat
                   /\ Output(g, a)' = IF w.type = "output" /\ w.grant = g /\ w.attempt = a
                                      THEN Output(g, a) + w.bytes ELSE Output(g, a)
  BY <1>1, <1>2, <1>3, LogGrows
<1>6. /\ DOMAIN log = 1..Len(log) /\ Len(log) \in Nat /\ DOMAIN log' = 1..n
      /\ \A i \in DOMAIN log : log'[i] = log[i] /\ i # n /\ i \in DOMAIN log'
      /\ log'[n] = w
      /\ \A i \in DOMAIN log' : i \in DOMAIN log \/ i = n
  BY <1>1, <1>2, <1>3, LenProperties, AppendProperties
<1>7. Numbered'
  <2>1. PICK m \in Nat : Known = 1..m
    BY DEF Paid, Numbered
  <2>2. Cardinality(Known) = m
    BY <2>1, FS_Interval
  <2>3. \E k \in Nat : Known' = 1..k
    <3>1. CASE w.type = "issued"
      <4>1. Known' = 1..(m + 1)
        BY <1>3, <1>4, <1>5, <2>1, <2>2, <3>1
      <4>2. QED  BY <4>1
    <3>2. CASE w.type # "issued"
      BY <1>5, <2>1, <3>2
    <3>3. QED  BY <3>1, <3>2
  <2>4. \A i \in DOMAIN log : log[i].type = "issued" => log[i].grant \in 1..m
    BY <2>1 DEF Known
  <2>5. w.type = "issued" => w.grant = m + 1
    BY <1>3, <1>4, <2>2
  <2>6. ASSUME NEW i \in DOMAIN log', NEW j \in DOMAIN log',
               log'[i].type = "issued", log'[j].type = "issued", i < j
        PROVE  log'[i].grant < log'[j].grant
    <3>1. i \in DOMAIN log /\ log'[i] = log[i]
      BY <1>6, <2>6 DEF n
    <3>2. CASE j \in DOMAIN log
      BY <1>6, <2>6, <3>1, <3>2 DEF Paid, Numbered
    <3>3. CASE j = n
      BY <1>6, <2>4, <2>5, <2>6, <3>1, <3>3
    <3>4. QED  BY <1>6, <3>2, <3>3
  <2>7. QED  BY <2>3, <2>6 DEF Numbered
<1>8. Limits'
  <2> SUFFICES ASSUME NEW g \in Nat
               PROVE  /\ IsFiniteSet(AttemptsOf(g))' /\ Cardinality(AttemptsOf(g))' <= MaxAttempts
                      /\ \A a \in Attempts : /\ Cardinality(Uses(g, a, "action"))' <= MaxActions
                                             /\ Output(g, a)' <= MaxOutput
    BY DEF Limits
  <2>0. MaxAttempts \in Nat /\ MaxActions \in Nat /\ MaxOutput \in Nat
    BY LimitsAssumption
  <2>1. IsFiniteSet(AttemptsOf(g)) /\ Cardinality(AttemptsOf(g)) <= MaxAttempts
    BY DEF Paid, Limits
  <2>2. IsFiniteSet(AttemptsOf(g)') /\ Cardinality(AttemptsOf(g)') <= MaxAttempts
    <3>1. CASE w.type = "attempt" /\ w.grant = g
      <4> DEFINE S == AttemptsOf(g)
                 T == S \cup {w.attempt}
      <4>1. Cardinality(S) \in Nat /\ Cardinality(S) < MaxAttempts
        BY <1>3, <1>4, <2>1, <3>1, FS_CardinalityType DEF Affordable
      <4>2. IsFiniteSet(T) /\ Cardinality(T) <= Cardinality(S) + 1 /\ Cardinality(T) \in Nat
        <5> HIDE DEF S
        <5>1. IsFiniteSet(S)
          BY <2>1 DEF S
        <5>2. IsFiniteSet(T) /\ (Cardinality(T) = Cardinality(S) \/ Cardinality(T) = Cardinality(S) + 1)
          BY <5>1, FS_AddElement
        <5>3. QED  BY <4>1, <5>2
      <4>3. AttemptsOf(g)' \subseteq T
        BY <1>5
      <4> HIDE DEF T
      <4>4. IsFiniteSet(AttemptsOf(g)') /\ Cardinality(AttemptsOf(g)') <= Cardinality(T)
        BY <4>2, <4>3, FS_Subset
      <4>5. Cardinality(AttemptsOf(g)') \in Nat
        BY <4>4, FS_CardinalityType
      <4>6. QED  BY <2>0, <4>1, <4>2, <4>4, <4>5
    <3>2. CASE w.type # "attempt" \/ w.grant # g
      BY <1>5, <2>1, <3>2
    <3>3. QED  BY <3>1, <3>2
  <2>3. ASSUME NEW a \in Attempts
        PROVE  Cardinality(Uses(g, a, "action")') <= MaxActions
    <3> DEFINE U == Uses(g, a, "action")
    <3>1. IsFiniteSet(U) /\ Cardinality(U) <= MaxActions /\ Cardinality(U) \in Nat
      BY <1>1, UsesFinite, FS_CardinalityType DEF Paid, Limits
    <3>2. CASE w.type = "action" /\ w.grant = g /\ w.attempt = a
      <4>1. Uses(g, a, "action")' = U \cup {n}
        BY <1>5, <3>2
      <4>2. Cardinality(U) < MaxActions
        BY <1>3, <1>4, <3>2 DEF Affordable
      <4> HIDE DEF U
      <4>3. Cardinality(U \cup {n}) = Cardinality(U) \/ Cardinality(U \cup {n}) = Cardinality(U) + 1
        BY <3>1, FS_AddElement
      <4>4. Cardinality(U \cup {n}) <= MaxActions
        <5>1. Cardinality(U) + 1 <= MaxActions
          BY <2>0, <3>1, <4>2
        <5>2. QED  BY <3>1, <4>3, <5>1
      <4>5. QED  BY <4>1, <4>4
    <3>3. CASE ~(w.type = "action" /\ w.grant = g /\ w.attempt = a)
      BY <1>5, <3>1, <3>3
    <3>4. QED  BY <3>2, <3>3
  <2>4. ASSUME NEW a \in Attempts PROVE Output(g, a)' <= MaxOutput
    <3>1. Output(g, a) <= MaxOutput
      BY DEF Paid, Limits
    <3>2. (w.type = "output" /\ w.grant = g /\ w.attempt = a) => Output(g, a) + w.bytes <= MaxOutput
      BY <1>3, <1>4 DEF Affordable, Fits
    <3>3. QED  BY <1>5, <3>1, <3>2
  <2>5. QED  BY <2>2, <2>3, <2>4
<1>9. NewestPays'
  <2> SUFFICES ASSUME NEW j \in DOMAIN log', NEW g \in Grants,
                      log'[j].type \in {"attempt", "action", "output"}, g > log'[j].grant,
                      NEW i \in 1..(j - 1), log'[i].type = "issued", log'[i].grant = g,
                      log'[i].purpose = "execution", log'[i].expires > log'[j].at
               PROVE  \E k \in 1..(j - 1) : log'[k].type = "revoked" /\ log'[k].grant = g
    BY DEF NewestPays
  <2>1. i \in DOMAIN log /\ log'[i] = log[i] /\ \A k \in 1..(j - 1) : log'[k] = log[k]
    BY <1>6
  <2>2. CASE j \in DOMAIN log
    BY <1>6, <2>1, <2>2 DEF Paid, NewestPays
  <2>3. CASE j = n
    <3>1. Revoked(g)
      BY <1>3, <1>4, <1>6, <2>1, <2>3 DEF Newest, Charges
    <3>2. QED  BY <1>6, <2>1, <2>3, <3>1 DEF Revoked
  <2>4. QED  BY <1>6, <2>2, <2>3
<1>10. Paying'
  BY <1>2, LimitsAssumption DEF Paying
<1>11. QED  BY <1>7, <1>8, <1>9, <1>10 DEF Paid

\* The limits, the order of the ids and the newest grant, from the start ...
LEMMA InitPaid == Init => Paid
<1> SUFFICES ASSUME Init PROVE Paid
  OBVIOUS
<1>1. log = <<>> /\ DOMAIN log = {}
  BY DEF Init
<1>2. Known = {} /\ {} = 1..0 /\ 0 \in Nat
  BY <1>1 DEF Known
<1>3. Numbered /\ NewestPays
  BY <1>1, <1>2 DEF Numbered, NewestPays
<1>4. Limits
  <2>1. IsFiniteSet({}) /\ Cardinality({}) = 0
    BY FS_EmptySet
  <2>2. \A g, a, type : Uses(g, a, type) = {}
    BY <1>1 DEF Uses
  <2>3. \A g : AttemptsOf(g) = {}
    BY <2>2 DEF AttemptsOf
  <2>4. ASSUME NEW g, NEW a PROVE Output(g, a) = 0
    <3>1. PICK F : Adds(F, Bytes, {}) /\ Output(g, a) = F[{}]
      BY <2>1, <2>2, OutputNowAndNext DEF OutputIsSum
    <3>2. QED  BY <3>1 DEF Adds
  <2>5. MaxAttempts \in Nat /\ MaxActions \in Nat /\ MaxOutput \in Nat
    BY LimitsAssumption
  <2>6. QED  BY <2>1, <2>2, <2>3, <2>4, <2>5 DEF Limits
<1>5. Paying
  BY LimitsAssumption DEF Init, Paying
<1>6. QED  BY <1>3, <1>4, <1>5 DEF Paid

\* ... and after every step.
LEMMA NextPaid == IInv /\ Paid /\ [Next]_vars => Paid'
<1> SUFFICES ASSUME IInv, Paid, [Next]_vars PROVE Paid'
  OBVIOUS
<1>1. ASSUME NEW p \in Procs, NEW e \in Requests, Begin(p, e) PROVE Paid'
  <2>1. log' = log /\ clock' \in Nat /\ clock <= clock' /\ lock' = p
    BY <1>1 DEF Begin, IInv, TypeOK
  <2>2. call'[p][1] = "locked"
    BY <1>1 DEF Begin, IInv, TypeOK
  <2>3. Paying'
    BY <2>1, <2>2 DEF Paying
  <2>4. QED  BY <2>1, <2>3, QuietPaid DEF Paid
<1>2. ASSUME NEW p \in Procs, Issue(p) PROVE Paid'
  <2> DEFINE e == call[p][2]
             new == [e EXCEPT !.grant = Cardinality(Known) + 1]
  <2>1. lock = p /\ e \in Event /\ e.type = "issued"
    BY <1>2, AtWork DEF Issue
  <2>2. CASE ~Issuable(e)
    BY <1>2, <2>2, EndPaid DEF Issue, End
  <2>3. CASE Issuable(e)
    <3>1. new.type = "issued" /\ new.grant = Cardinality(Known) + 1
      BY <2>1 DEF Event
    <3>2. Go(p, <<"allowed", new>>)
      BY <1>2, <2>3 DEF Issue
    <3>3. Affordable(new) /\ new.type \notin Charges
      BY <3>1 DEF Affordable, Charges
    <3> HIDE DEF new
    <3>4. QED  BY <2>1, <3>1, <3>2, <3>3, GoPaid
  <2>4. QED  BY <2>2, <2>3
<1>3. ASSUME NEW p \in Procs, Revoke(p) PROVE Paid'
  <2> DEFINE e == call[p][2]
  <2>1. lock = p /\ e.type = "revoked"
    BY <1>3, AtWork DEF Revoke
  <2>2. CASE Revoked(e.grant)
    BY <1>3, <2>1, <2>2, EndPaid DEF Revoke, End
  <2>3. CASE ~Revoked(e.grant)
    <3>1. Go(p, <<"allowed", e>>)
      BY <1>3, <2>3 DEF Revoke
    <3>2. Affordable(e) /\ e.type \notin Charges /\ e.type # "issued"
      BY <2>1 DEF Affordable, Charges
    <3> HIDE DEF e
    <3>3. QED  BY <2>1, <3>1, <3>2, GoPaid
  <2>4. QED  BY <2>2, <2>3
<1>4. ASSUME NEW p \in Procs, Use(p) PROVE Paid'
  <2> DEFINE e == call[p][2]
             charged == [e EXCEPT !.grant = Resolve]
  <2>1. lock = p /\ e \in Event /\ e.type \in Charges
    BY <1>4, AtWork DEF Use, Charges
  <2>2. CASE Resolve = None
    BY <1>4, <2>1, <2>2, EndPaid DEF Use, End
  <2>3. CASE Resolve # None
    <3>1. Resolve \in Nat /\ Newest(Resolve)
      BY <2>3, ResolvedNewest DEF IInv, TypeOK, Paid
    <3>2. charged.grant = Resolve /\ charged.type # "issued"
      BY <2>1 DEF Event, Charges
    <3>3. Go(p, <<"resolved", charged>>)
      BY <1>4, <2>3 DEF Use
    <3> HIDE DEF charged
    <3>4. QED  BY <2>1, <3>1, <3>2, <3>3, GoPaid
  <2>4. QED  BY <2>2, <2>3
<1>5. ASSUME NEW p \in Procs, Charge(p) PROVE Paid'
  <2> DEFINE e == call[p][2]
  <2>1. lock = p /\ call[p][1] = "resolved"
    BY <1>5, AtWork DEF Charge
  <2>2. CASE ~Allowed(e)
    BY <1>5, <2>1, <2>2, EndPaid DEF Charge, End
  <2>3. CASE Allowed(e)
    <3>1. /\ e.type = "issued" => e.grant = Cardinality(Known) + 1
          /\ e.type \in Charges => e.grant \in Nat /\ Newest(e.grant)
      BY <2>1 DEF Paid, Paying
    <3>2. Affordable(e)
      BY <2>3 DEF Allowed, Affordable
    <3>3. Go(p, <<"allowed", e>>)
      BY <1>5, <2>3 DEF Charge
    <3> HIDE DEF e
    <3>4. QED  BY <2>1, <3>1, <3>2, <3>3, GoPaid
  <2>4. QED  BY <2>2, <2>3
<1>6. ASSUME NEW p \in Procs, Write(p) PROVE Paid'
  <2>1. CASE Valid(call[p][2])
    BY <1>6, <2>1, WritePaid
  <2>2. CASE ~Valid(call[p][2])
    BY <1>6, <2>2, EndPaid DEF Write
  <2>3. QED  BY <2>1, <2>2
<1>7. ASSUME NEW p \in Procs, Crash(p) PROVE Paid'
  <2>1. lock = p /\ lock' = None /\ UNCHANGED <<log, clock>>
    BY <1>7 DEF Crash, IInv, TypeOK
  <2>2. QED  BY <2>1, EndPaid
<1>8. ASSUME UNCHANGED <<log, lock, call>>, clock' \in Nat, clock <= clock' PROVE Paid'
  <2>1. /\ Numbered' /\ Limits' /\ NewestPays'
        /\ \A g : Newest(g) => Newest(g)'
        /\ \A e : Affordable(e) => Affordable(e)'
    BY <1>8, QuietPaid
  <2>2. Known' = Known
    BY <1>8 DEF Known
  <2>3. Paying'
    BY <1>8, <2>1, <2>2 DEF Paid, Paying
  <2>4. QED  BY <2>1, <2>3 DEF Paid
<1>9. CASE Tick
  BY <1>8, <1>9 DEF Tick, IInv, TypeOK
<1>10. CASE UNCHANGED vars
  BY <1>8, <1>10 DEF vars, IInv, TypeOK
<1>11. QED
  BY <1>1, <1>2, <1>3, <1>4, <1>5, <1>6, <1>7, <1>9, <1>10 DEF Next

------------------------------------------------------------------------------
(* The theorems.                                                           *)

\* The invariant of every state the store can reach.
THEOREM Invariance == Spec => []IInv
BY InitIInv, NextStep, PTL DEF Spec

\* The journal holds events of its schema only, and a call is at work on one
\* exactly while its process has "grant-state" (withGrantStore).
THEOREM TypeCorrect == Spec => []TypeOK
<1>1. IInv => TypeOK
  BY DEF IInv
<1>2. QED  BY <1>1, Invariance, PTL

\* A revoked grant is never charged, nor bound to a completion grant, however
\* many processes share the store and wherever one of them dies.
THEOREM RevocationFinal == Spec => []NothingAfterRevocation
<1>1. IInv => NothingAfterRevocation
  BY DEF IInv
<1>2. QED  BY <1>1, Invariance, PTL

\* The invariant of the budgets, likewise.
THEOREM PaidInvariance == Spec => []Paid
<1>1. Init => Paid
  BY InitPaid
<1>2. IInv /\ Paid /\ [Next]_vars => Paid'
  BY NextPaid
<1>3. QED  BY <1>1, <1>2, Invariance, PTL DEF Spec

\* Whatever processes count, charge, revoke and die at the same time: the journal
\* is well formed, no grant is charged past a limit, and a charge falls on the
\* newest grant in force, which updateUsage resolved before its await
\* (grants.ts 139-200).
THEOREM WithinBudgets == Spec => []Budgets
<1>1. IInv /\ Paid => Budgets
  <2> SUFFICES ASSUME IInv, Paid PROVE Budgets
    OBVIOUS
  <2>1. Known \subseteq Nat
    BY DEF IInv, Naming, Known
  <2>2. WithinLimits
    BY <2>1 DEF Paid, Limits, WithinLimits
  <2>3. QED  BY <2>2 DEF IInv, Paid, Budgets
<1>2. QED  BY <1>1, Invariance, PaidInvariance, PTL

------------------------------------------------------------------------------
(* FileStore: what the holder of the lock has computed is the file with its   *)
(* own changes, and its own changes are those its caller made.               *)
FTables  == [Attempts -> Executions \cup {None}]
FLocked  == {"load", "persist", "rename", "sync"}
FTypes ==
  /\ disk \in FTables /\ temps \subseteq Procs \cup {Ghost}
  /\ pc \in [Procs -> {"dead", "idle"} \cup FLocked]
  /\ cache \in [Procs -> FTables] /\ baseline \in [Procs -> FTables] /\ data \in [Procs -> FTables]
  /\ op \in [Procs -> Files!Ops \cup {Files!NoOp}]
  /\ mutated \in [Procs -> SUBSET Attempts]
FOwned(c)    == pc[c] \in FLocked => holder = c
FChanged(c)  == Files!Differs(c) \subseteq mutated[c]
FComputed(c) ==
  /\ pc[c] \in {"persist", "rename", "sync"} =>
       \A k \in Attempts : data[c][k] = disk[k] \/ k \in Files!Touches(op[c]) \cup mutated[c]
  /\ pc[c] = "sync" => disk = data[c]
FilesInv == FTypes /\ \A c \in Procs : FOwned(c) /\ FChanged(c) /\ FComputed(c)

FActs(c) ==
  \/ Files!Get(c) \/ Files!ChangeByReference(c) \/ Files!Lock(c) \/ Files!Load(c) \/ Files!WriteTemp(c)
  \/ Files!Rename(c) \/ Files!Finish(c) \/ Files!Fail(c) \/ Files!Crash(c) \/ Files!Open(c)

LEMMA InitFiles == Files!Init => FilesInv
BY DEF Files!Init, Files!Empty, Files!NoOp, Files!Differs, FilesInv, FTypes, FTables, FLocked,
       FOwned, FChanged, FComputed

\* What is merged and applied is a table.
LEMMA FilesTyped ==
  ASSUME FTypes, NEW c \in Procs
  PROVE  /\ Files!Merged(c) \in FTables /\ Files!Empty \in FTables
         /\ \A o \in Files!Ops \cup {Files!NoOp} : Files!Applied(o, Files!Merged(c)) \in FTables
<1>1. Files!Merged(c) \in FTables /\ Files!Empty \in FTables
  BY DEF FTypes, FTables, Files!Merged, Files!Empty
<1> DEFINE m == Files!Merged(c)
<1>2. ASSUME NEW o \in Files!Ops \cup {Files!NoOp} PROVE Files!Applied(o, m) \in FTables
  <2> HIDE DEF m
  <2>1. m \in FTables
    BY <1>1 DEF m
  <2>2. o.kind = "set" => o.value \in Executions
    BY DEF Files!Ops, Files!NoOp
  <2> QED  BY <1>1, <2>1, <2>2 DEF Files!Applied, FTables
<1> QED  BY <1>1, <1>2

LEMMA FilesTypesStep ==
  ASSUME FTypes, NEW c \in Procs, FActs(c)
  PROVE  FTypes'
<1> USE DEF FTypes, FLocked, Files!At
<1>1. /\ Files!Merged(c) \in FTables /\ Files!Empty \in FTables
      /\ \A o \in Files!Ops \cup {Files!NoOp} : Files!Applied(o, Files!Merged(c)) \in FTables
  BY FilesTyped
<1>2. CASE Files!Get(c)
  BY <1>1, <1>2 DEF Files!Get
<1>3. CASE Files!ChangeByReference(c)
  BY <1>3 DEF Files!ChangeByReference, FTables
<1>4. CASE Files!Lock(c)
  BY <1>4 DEF Files!Lock
<1>5. CASE Files!Load(c)
  BY <1>1, <1>5 DEF Files!Load
<1>6. CASE Files!WriteTemp(c)
  BY <1>6 DEF Files!WriteTemp, Files!local
<1>7. CASE Files!Rename(c)
  BY <1>7 DEF Files!Rename, Files!local
<1>8. CASE Files!Finish(c)
  BY <1>1, <1>8 DEF Files!Finish
<1>9. CASE Files!Fail(c)
  BY <1>1, <1>9 DEF Files!Fail
<1>10. CASE Files!Crash(c)
  BY <1>1, <1>10 DEF Files!Crash
<1>11. CASE Files!Open(c)
  BY <1>11 DEF Files!Open
<1> QED  BY <1>2, <1>3, <1>4, <1>5, <1>6, <1>7, <1>8, <1>9, <1>10, <1>11 DEF FActs

\* The file changes under the lock only, and only for one who has computed it;
\* who is at none of this keeps what is his.
LEMMA OthersStay ==
  ASSUME FilesInv, NEW c \in Procs, NEW d \in Procs \ {c}, FActs(c)
  PROVE  /\ pc'[d] = pc[d] /\ cache'[d] = cache[d] /\ baseline'[d] = baseline[d]
         /\ data'[d] = data[d] /\ op'[d] = op[d] /\ mutated'[d] = mutated[d]
         /\ pc[d] \in FLocked => holder' = d /\ disk' = disk
<1> USE DEF FilesInv, FTypes, FOwned, FLocked, Files!At
<1>0. Ghost # d /\ None # d
  BY StoresAssumption, LimitsAssumption
<1>1. CASE Files!Get(c)
  BY <1>1 DEF Files!Get
<1>2. CASE Files!ChangeByReference(c)
  BY <1>2 DEF Files!ChangeByReference
<1>3. CASE Files!Lock(c)
  BY <1>0, <1>3 DEF Files!Lock
<1>4. CASE Files!Load(c)
  BY <1>4 DEF Files!Load
<1>5. CASE Files!WriteTemp(c) \/ Files!Rename(c)
  BY <1>5 DEF Files!WriteTemp, Files!Rename, Files!local
<1>6. CASE Files!Finish(c) \/ Files!Fail(c)
  BY <1>6 DEF Files!Finish, Files!Fail
<1>7. CASE Files!Crash(c)
  BY <1>7 DEF Files!Crash
<1>8. CASE Files!Open(c)
  BY <1>8 DEF Files!Open
<1> QED  BY <1>1, <1>2, <1>3, <1>4, <1>5, <1>6, <1>7, <1>8 DEF FActs

\* What Load computes differs from the file where it may, and not at all when
\* it goes on without a write.
LEMMA Computes ==
  ASSUME FilesInv, NEW c \in Procs, pc[c] = "load"
  PROVE  LET new == Files!Applied(op[c], Files!Merged(c)) IN
         /\ \A k \in Attempts : new[k] = disk[k] \/ k \in Files!Touches(op[c]) \cup mutated[c]
         /\ ~Files!Writes(op[c], Files!Merged(c)) /\ Files!Differs(c) = {} => new = disk
<1> DEFINE m == Files!Merged(c)
           o == op[c]
<1>1. m \in FTables /\ disk \in FTables /\ o \in Files!Ops \cup {Files!NoOp}
  BY FilesTyped DEF FilesInv, FTypes
<1>2. \A k \in Attempts : m[k] = disk[k] \/ k \in mutated[c]
  BY DEF Files!Merged, FilesInv, FChanged
<1>3. Files!Differs(c) = {} => m = disk
  BY <1>1 DEF Files!Merged, FTables
<1> HIDE DEF m, o
<1>4. \A k \in Attempts : Files!Applied(o, m)[k] = m[k] \/ k \in Files!Touches(o)
  <2>1. CASE o.kind \in {"set", "delete"}
    BY <1>1, <2>1 DEF Files!Applied, Files!Touches, FTables
  <2>2. CASE o.kind \notin {"set", "delete"}
    BY <1>1, <2>2 DEF Files!Applied, Files!Touches, FTables
  <2> QED  BY <2>1, <2>2
<1>5. ~Files!Writes(o, m) => Files!Applied(o, m) = m
  <2>1. CASE o.kind = "delete" /\ m[o.key] = None
    BY <1>1, <2>1 DEF Files!Applied, FTables
  <2>2. CASE o.kind \notin {"set", "delete", "clear"}
    BY <1>1, <2>2 DEF Files!Applied
  <2> QED  BY <2>1, <2>2 DEF Files!Writes
<1> QED  BY <1>2, <1>3, <1>4, <1>5 DEF m, o

LEMMA FilesStep ==
  ASSUME FilesInv, NEW c \in Procs, FActs(c)
  PROVE  FilesInv'
<1>1. FTypes'
  BY FilesTypesStep DEF FilesInv
<1>2. ASSUME NEW d \in Procs \ {c} PROVE FOwned(d)' /\ FChanged(d)' /\ FComputed(d)'
  <2>1. FOwned(d) /\ FChanged(d) /\ FComputed(d)
    BY DEF FilesInv
  <2> QED  BY <2>1, OthersStay DEF FOwned, FChanged, FComputed, FLocked, Files!Differs
<1>3. FOwned(c)' /\ FChanged(c)' /\ FComputed(c)'
  <2> USE DEF FilesInv, FTypes, FLocked, FOwned, FChanged, FComputed, Files!At
  <2>1. CASE Files!Get(c)
    BY <2>1 DEF Files!Get, Files!Differs, Files!Merged
  <2>2. CASE Files!ChangeByReference(c)
    BY <2>2 DEF Files!ChangeByReference, Files!Differs, FTables
  <2>3. CASE Files!Lock(c)
    BY <2>3 DEF Files!Lock, Files!Differs
  <2>4. CASE Files!Load(c)
    <3>1. data'[c] = Files!Applied(op[c], Files!Merged(c))
      BY <2>4 DEF Files!Load
    <3>2. UNCHANGED <<disk, holder, cache, baseline, op, mutated>> /\ pc[c] = "load"
      BY <2>4 DEF Files!Load
    <3>3. pc'[c] = "sync" => ~Files!Writes(op[c], Files!Merged(c)) /\ Files!Differs(c) = {}
      BY <2>4 DEF Files!Load
    <3>4. FComputed(c)'
      BY <3>1, <3>2, <3>3, Computes DEF Files!Touches
    <3> QED  BY <2>4, <3>2, <3>4 DEF Files!Load, Files!Differs
  <2>5. CASE Files!WriteTemp(c)
    BY <2>5 DEF Files!WriteTemp, Files!local, Files!Differs
  <2>6. CASE Files!Rename(c)
    BY <2>6 DEF Files!Rename, Files!local, Files!Differs
  <2>7. CASE Files!Finish(c)
    BY <2>7 DEF Files!Finish, Files!Differs
  <2>8. CASE Files!Fail(c)
    BY <2>8 DEF Files!Fail, Files!Differs
  <2>9. CASE Files!Crash(c)
    BY <2>9 DEF Files!Crash, Files!Differs
  <2>10. CASE Files!Open(c)
    BY <2>10 DEF Files!Open, Files!Differs
  <2> QED  BY <2>1, <2>2, <2>3, <2>4, <2>5, <2>6, <2>7, <2>8, <2>9, <2>10 DEF FActs
<1> QED  BY <1>1, <1>2, <1>3 DEF FilesInv

\* What a step commits is what its own operation and its own caller asked for.
FCommits ==
  /\ disk' # disk =>
       \E c \in Procs : Files!Rename(c) /\ \A k \in Attempts :
         disk'[k] = disk[k] \/ k \in Files!Touches(op[c]) \cup mutated[c]
  /\ \A c \in Procs : Files!Finish(c) => disk = data[c]

LEMMA FilesCommit ==
  ASSUME FilesInv, Files!Next
  PROVE  FCommits
<1>1. PICK c \in Procs : FActs(c)
  BY DEF Files!Next, FActs
<1>2. CASE Files!Rename(c)
  BY <1>2 DEF Files!Rename, Files!At, FilesInv, FTypes, FLocked, FComputed, Files!Finish, FCommits
<1>3. CASE disk' = disk
  BY <1>3 DEF Files!Finish, Files!At, FilesInv, FComputed, FCommits
<1> QED
  BY <1>1, <1>2, <1>3 DEF FActs, Files!Get, Files!ChangeByReference, Files!Lock, Files!Load,
     Files!WriteTemp, Files!Finish, Files!Fail, Files!Crash, Files!Open

------------------------------------------------------------------------------
(* PgStore: a store opens on the pool it began with only if no shutdown began  *)
(* since, and what its cache shows is what the writes behind its tail will     *)
(* make of its table.                                                        *)
PTables == [Cells -> Contents \cup {None}]
PWrites == [kind : {"set"}, key : Cells, value : Contents] \cup [kind : {"delete"}, key : Cells]
             \cup {[kind |-> "clear"]}
PTypes ==
  /\ pools \in Seq({"opening", "open", "failed", "ended"}) /\ current \in 0..Len(pools)
  /\ closing \in {"no", "flushing", "ending"}
  /\ captured \in [stores : SUBSET Procs, pool : 0..Len(pools), error : BOOLEAN]
  /\ epoch \in Nat /\ started \in [Procs -> Nat] /\ pool \in [Procs -> 0..Len(pools)]
  /\ phase \in [Procs -> {"none", "connecting", "loading", "open", "closed"}]
  /\ rows \in [Procs -> PTables] /\ table \in [Procs -> PTables]
  /\ queue \in [Procs -> Seq(PWrites)] /\ done \in [Procs -> Nat] /\ failed \in [Procs -> SUBSET Nat]
  /\ errors \in [Procs -> BOOLEAN]
  /\ flushing \in [Procs -> Nat \cup {None}]
\* Who loads or is open has a pool; it is open for as long as no shutdown began.
Connected(s) ==
  /\ started[s] <= epoch
  /\ phase[s] \in {"connecting", "loading", "open"} => pool[s] # 0
  /\ phase[s] \in {"connecting", "loading"} /\ started[s] = epoch => closing = "no"
  /\ phase[s] = "loading" /\ started[s] = epoch => pools[pool[s]] = "open"
  /\ phase[s] = "open" => closing = "no" /\ pools[pool[s]] = "open"
\* The stores a shutdown found stay closed until it is over, and are flushed
\* before it ends; an error of theirs is in its report.
Captured ==
  /\ \A s \in captured.stores : closing # "no" /\ phase[s] = "closed"
  /\ closing = "ending" /\ ~captured.error => \A s \in captured.stores : ~errors[s]
Drained(s) ==
  /\ done[s] <= Len(queue[s])
  /\ phase[s] # "open" /\ ~(closing = "flushing" /\ s \in captured.stores) => done[s] = Len(queue[s])
\* The tables that the writes behind the tail will make, one after the other.
Leads(h, from, writes, first, last) ==
  /\ h[from] = first /\ h[Len(writes)] = last
  /\ \A i \in from + 1..Len(writes) : h[i] = Postgres!Apply(writes[i], h[i - 1])
Pending(s) == done[s]..Len(queue[s])
Follows(s) ==
  /\ failed[s] # {} => errors[s]
  /\ phase[s] = "loading" => rows[s] = table[s]
  /\ phase[s] \in {"open", "closed"} /\ ~errors[s] =>
       \E h \in [Pending(s) -> PTables] : Leads(h, done[s], queue[s], table[s], rows[s])
PgInv == PTypes /\ Captured /\ \A s \in Procs : Connected(s) /\ Drained(s) /\ Follows(s)

PActs(s) ==
  \/ Postgres!Create(s) \/ Postgres!Load(s) \/ Postgres!LoadFails(s) \/ Postgres!Register(s)
  \/ Postgres!Change(s) \/ Postgres!Persist(s) \/ Postgres!PersistFails(s) \/ Postgres!Flush(s)
  \/ Postgres!FlushEnds(s) \/ Postgres!Reopen(s)

LEMMA InitPostgres == Postgres!Init => PgInv
<1> SUFFICES ASSUME Postgres!Init PROVE PgInv
  OBVIOUS
<1> USE DEF Postgres!Init, Postgres!Each
<1>1. Len(<<>>) = 0 /\ <<>> \in Seq({"opening", "open", "failed", "ended"}) /\ <<>> \in Seq(PWrites)
  BY EmptySeq
<1>2. PTypes
  <2>1. Postgres!Empty \in PTables
    BY DEF Postgres!Empty, PTables
  <2>2. captured \in [stores : SUBSET Procs, pool : 0..Len(pools), error : BOOLEAN]
    BY <1>1 DEF Postgres!NoShutdown
  <2> QED  BY <1>1, <2>1, <2>2 DEF PTypes
<1>3. Captured /\ \A s \in Procs : Connected(s) /\ Drained(s) /\ Follows(s)
  BY <1>1 DEF Captured, Connected, Drained, Follows, Postgres!NoShutdown
<1> QED  BY <1>2, <1>3 DEF PgInv

\* What a write makes of a table is a table.
LEMMA ApplyTyped ==
  ASSUME NEW w \in PWrites, NEW t \in PTables
  PROVE  Postgres!Apply(w, t) \in PTables
<1>1. Postgres!Empty \in PTables
  BY DEF Postgres!Empty, PTables
<1>2. \/ w.kind = "set" /\ w.value \in Contents
      \/ w.kind = "delete" \/ w.kind = "clear"
  BY DEF PWrites
<1> QED  BY <1>1, <1>2 DEF Postgres!Apply, PTables

\* Two tables lead to each other when nothing is pending.
LEMMA LeadsNowhere ==
  ASSUME NEW writes \in Seq(PWrites), NEW t \in PTables
  PROVE  \E h \in [Len(writes)..Len(writes) -> PTables] : Leads(h, Len(writes), writes, t, t)
<1> DEFINE n == Len(writes)
           h == [i \in n..n |-> t]
<1>1. n \in Nat
  BY LenProperties
<1>2. h \in [n..n -> PTables] /\ h[n] = t
  BY <1>1
<1>3. n + 1..n = {}
  BY <1>1
<1>4. Leads(h, n, writes, t, t)
  BY <1>2, <1>3 DEF Leads
<1> QED  BY <1>2, <1>4

LEMMA LeadsOn ==
  ASSUME NEW writes \in Seq(PWrites), NEW n \in 0..Len(writes), NEW first \in PTables, NEW last \in PTables,
         NEW h \in [n..Len(writes) -> PTables], Leads(h, n, writes, first, last)
  PROVE  /\ \A w \in PWrites :
              \E k \in [n..Len(Append(writes, w)) -> PTables] :
                Leads(k, n, Append(writes, w), first, Postgres!Apply(w, last))
         /\ n < Len(writes) =>
              \E k \in [n + 1..Len(writes) -> PTables] :
                Leads(k, n + 1, writes, Postgres!Apply(writes[n + 1], first), last)
         /\ n = Len(writes) => first = last
<1> DEFINE m == Len(writes)
<1>0. m \in Nat /\ n \in Nat /\ n <= m
  BY LenProperties
<1>1. ASSUME NEW w \in PWrites
      PROVE  \E k \in [n..Len(Append(writes, w)) -> PTables] :
               Leads(k, n, Append(writes, w), first, Postgres!Apply(w, last))
  <2> DEFINE a == Postgres!Apply(w, last)
             longer == Append(writes, w)
             k == [i \in n..m + 1 |-> IF i = m + 1 THEN a ELSE h[i]]
  <2>1. a \in PTables
    BY ApplyTyped
  <2>2. Len(longer) = m + 1 /\ longer[m + 1] = w /\ \A i \in 1..m : longer[i] = writes[i]
    BY AppendProperties
  <2> HIDE DEF longer, a
  <2>3. k \in [n..m + 1 -> PTables]
    BY <1>0, <2>1
  <2>4. k[n] = first /\ k[m + 1] = a
    BY <1>0 DEF Leads
  <2>5. ASSUME NEW i \in n + 1..m + 1 PROVE k[i] = Postgres!Apply(longer[i], k[i - 1])
    <3>1. CASE i = m + 1
      BY <1>0, <2>2, <2>4, <3>1 DEF Leads, a
    <3>2. CASE i # m + 1
      BY <1>0, <2>2, <3>2 DEF Leads
    <3> QED  BY <3>1, <3>2
  <2>6. Leads(k, n, longer, first, a)
    <3> HIDE DEF k
    <3> QED  BY <2>2, <2>4, <2>5 DEF Leads
  <2> HIDE DEF k
  <2> QED  BY <2>2, <2>3, <2>6 DEF longer, a
<1>2. ASSUME n < m
      PROVE  \E k \in [n + 1..m -> PTables] :
               Leads(k, n + 1, writes, Postgres!Apply(writes[n + 1], first), last)
  <2> DEFINE k == [i \in n + 1..m |-> h[i]]
  <2>1. k \in [n + 1..m -> PTables]
    BY <1>0
  <2>2. k[n + 1] = Postgres!Apply(writes[n + 1], first) /\ k[m] = last
    BY <1>0, <1>2 DEF Leads
  <2>3. \A i \in n + 2..m : k[i] = Postgres!Apply(writes[i], k[i - 1])
    BY <1>0 DEF Leads
  <2>4. n + 1 + 1 = n + 2
    BY <1>0
  <2>5. Leads(k, n + 1, writes, Postgres!Apply(writes[n + 1], first), last)
    <3> HIDE DEF k
    <3> QED  BY <2>2, <2>3, <2>4 DEF Leads
  <2> HIDE DEF k
  <2> QED  BY <2>1, <2>5
<1>3. n = m => first = last
  BY DEF Leads
<1> QED  BY <1>1, <1>2, <1>3

\* A shutdown leaves every pool as it is, but the one that it ends.
LEMMA PoolsAfter ==
  ASSUME PTypes, Postgres!Closed
  PROVE  /\ pools' \in Seq({"opening", "open", "failed", "ended"}) /\ Len(pools') = Len(pools)
<1>1. pools \in [1..Len(pools) -> {"opening", "open", "failed", "ended"}] /\ Len(pools) \in Nat
  BY LenProperties DEF PTypes
<1>2. pools' \in [1..Len(pools) -> {"opening", "open", "failed", "ended"}]
  BY <1>1 DEF Postgres!Closed
<1> QED  BY <1>1, <1>2, IsASeq, LenProperties

LEMMA SharedTypes ==
  ASSUME PTypes, Postgres!PoolOpens \/ Postgres!PoolFails \/ Postgres!Close \/ Postgres!AllFlushed \/ Postgres!Closed
  PROVE  PTypes' /\ Len(pools') = Len(pools)
<1> USE DEF Postgres!conn, Postgres!shut, Postgres!rows, PTypes
<1>1. CASE Postgres!PoolOpens \/ Postgres!PoolFails
  <2>1. PICK g \in 1..Len(pools) : \E x \in {"open", "failed"} : pools' = [pools EXCEPT ![g] = x]
    BY <1>1 DEF Postgres!PoolOpens, Postgres!PoolFails
  <2>2. pools' \in Seq({"opening", "open", "failed", "ended"}) /\ Len(pools') = Len(pools)
    BY <2>1, ExceptSeq
  <2>3. current' \in 0..Len(pools)
    BY <1>1 DEF Postgres!PoolOpens, Postgres!PoolFails
  <2> QED  BY <1>1, <2>2, <2>3 DEF Postgres!PoolOpens, Postgres!PoolFails
<1>2. CASE Postgres!Close
  BY <1>2 DEF Postgres!Close
<1>3. CASE Postgres!AllFlushed
  BY <1>3 DEF Postgres!AllFlushed
<1>4. CASE Postgres!Closed
  <2>1. captured' \in [stores : SUBSET Procs, pool : 0..Len(pools), error : BOOLEAN]
    <3>1. Len(pools) \in Nat
      BY LenProperties
    <3> QED  BY <1>4, <3>1 DEF Postgres!Closed, Postgres!NoShutdown
  <2> QED  BY <1>4, <2>1, PoolsAfter DEF Postgres!Closed
<1> QED  BY <1>1, <1>2, <1>3, <1>4

LEMMA StoreTypes ==
  ASSUME PTypes, NEW s \in Procs, PActs(s)
  PROVE  PTypes'
<1> USE DEF Postgres!conn, Postgres!shut, Postgres!rows, PTypes, Postgres!To
<1>1. CASE Postgres!Create(s)
  <2>1. Len(pools) \in Nat
    BY LenProperties
  <2>2. /\ pools' \in Seq({"opening", "open", "failed", "ended"}) /\ Len(pools) <= Len(pools')
        /\ current' \in 0..Len(pools')
    <3>1. CASE current = 0
      <4>1. pools' = Append(pools, "opening") /\ current' = Len(pools')
        BY <1>1, <3>1 DEF Postgres!Create
      <4>2. Append(pools, "opening") \in Seq({"opening", "open", "failed", "ended"})
            /\ Len(Append(pools, "opening")) = Len(pools) + 1
        BY AppendProperties
      <4> QED  BY <2>1, <4>1, <4>2
    <3>2. CASE current # 0
      BY <1>1, <2>1, <3>2 DEF Postgres!Create
    <3> QED  BY <3>1, <3>2
  <2>3. 0..Len(pools) \subseteq 0..Len(pools')
    BY <2>1, <2>2, LenProperties
  <2> HIDE DEF PTypes
  <2>4. /\ started' \in [Procs -> Nat] /\ pool' \in [Procs -> 0..Len(pools')]
        /\ phase' \in [Procs -> {"none", "connecting", "loading", "open", "closed"}]
    BY <1>1, <2>2, <2>3 DEF PTypes, Postgres!Create
  <2>5. captured' \in [stores : SUBSET Procs, pool : 0..Len(pools'), error : BOOLEAN]
    BY <1>1, <2>3 DEF PTypes, Postgres!Create
  <2> QED  BY <1>1, <2>2, <2>4, <2>5 DEF PTypes, Postgres!Create
<1>2. CASE Postgres!Load(s)
  BY <1>2 DEF Postgres!Load
<1>3. CASE Postgres!LoadFails(s)
  BY <1>3 DEF Postgres!LoadFails
<1>4. CASE Postgres!Register(s)
  BY <1>4, EmptySeq DEF Postgres!Register
<1>5. CASE Postgres!Change(s)
  <2>1. PICK w \in PWrites : /\ rows' = [rows EXCEPT ![s] = Postgres!Apply(w, @)]
                             /\ queue' = [queue EXCEPT ![s] = Append(@, w)]
    BY <1>5 DEF Postgres!Change, PWrites
  <2>2. Postgres!Apply(w, rows[s]) \in PTables /\ Append(queue[s], w) \in Seq(PWrites)
    BY ApplyTyped, AppendProperties
  <2> QED  BY <1>5, <2>1, <2>2 DEF Postgres!Change
<1>6. CASE Postgres!Persist(s)
  <2>1. queue[s][done[s] + 1] \in PWrites
    BY <1>6, ElementOfSeq, LenProperties DEF Postgres!Persist
  <2>2. Postgres!Apply(queue[s][done[s] + 1], table[s]) \in PTables
    BY <2>1, ApplyTyped
  <2> QED  BY <1>6, <2>2 DEF Postgres!Persist
<1>7. CASE Postgres!PersistFails(s)
  BY <1>7 DEF Postgres!PersistFails
<1>8. CASE Postgres!Flush(s)
  BY <1>8, LenProperties DEF Postgres!Flush
<1>9. CASE Postgres!FlushEnds(s)
  BY <1>9 DEF Postgres!FlushEnds
<1>10. CASE Postgres!Reopen(s)
  BY <1>10 DEF Postgres!Reopen
<1> QED  BY <1>1, <1>2, <1>3, <1>4, <1>5, <1>6, <1>7, <1>8, <1>9, <1>10 DEF PActs

PShared == Postgres!PoolOpens \/ Postgres!PoolFails \/ Postgres!Close \/ Postgres!AllFlushed \/ Postgres!Closed

\* Only the last step of a shutdown ends a pool.
LEMMA SharedConnected ==
  ASSUME PgInv, PShared, NEW s \in Procs
  PROVE  Connected(s)'
<1>0. Connected(s) /\ PTypes
  BY DEF PgInv
<1> USE <1>0 DEF Postgres!conn, Postgres!shut, Postgres!rows, Connected
<1>1. CASE Postgres!PoolOpens \/ Postgres!PoolFails
  <2>1. PICK g \in 1..Len(pools) :
          pools[g] = "opening" /\ \E x \in {"open", "failed"} : pools' = [pools EXCEPT ![g] = x]
    BY <1>1 DEF Postgres!PoolOpens, Postgres!PoolFails
  <2>2. \A i : pools[i] = "open" => pools'[i] = "open"
    BY <2>1
  <2>3. UNCHANGED <<started, epoch, phase, closing, pool>>
    BY <1>1 DEF Postgres!PoolOpens, Postgres!PoolFails
  <2> QED  BY <2>2, <2>3
<1>2. CASE Postgres!Close
  BY <1>2 DEF Postgres!Close, PTypes
<1>3. CASE Postgres!AllFlushed
  BY <1>3 DEF Postgres!AllFlushed
<1>4. CASE Postgres!Closed
  BY <1>4 DEF Postgres!Closed
<1> QED  BY <1>1, <1>2, <1>3, <1>4 DEF PShared

LEMMA StoreConnected ==
  ASSUME PgInv, NEW c \in Procs, PActs(c), NEW s \in Procs
  PROVE  Connected(s)'
<1>0. Connected(s) /\ PTypes
  BY DEF PgInv
<1> USE <1>0 DEF Postgres!conn, Postgres!shut, Postgres!rows, Connected, PTypes, Postgres!To
<1>1. CASE Postgres!Create(c)
  <2>1. Len(pools) \in Nat
    BY LenProperties
  <2>2. current' # 0 /\ \A i \in 1..Len(pools) : pools'[i] = pools[i]
    <3>1. CASE current = 0
      <4>1. pools' = Append(pools, "opening") /\ current' = Len(pools')
        BY <1>1, <3>1 DEF Postgres!Create
      <4>2. /\ Len(Append(pools, "opening")) = Len(pools) + 1
            /\ \A i \in 1..Len(pools) : Append(pools, "opening")[i] = pools[i]
        BY AppendProperties
      <4> QED  BY <2>1, <4>1, <4>2
    <3>2. CASE current # 0
      BY <1>1, <3>2 DEF Postgres!Create
    <3> QED  BY <3>1, <3>2
  <2>3. CASE s = c
    BY <1>1, <2>2, <2>3 DEF Postgres!Create
  <2>4. CASE s # c
    <3>1. started'[s] = started[s] /\ phase'[s] = phase[s] /\ pool'[s] = pool[s] /\ UNCHANGED <<epoch, closing>>
      BY <1>1, <2>4 DEF Postgres!Create
    <3>2. pool[s] # 0 => pool[s] \in 1..Len(pools)
      BY <2>1
    <3> QED  BY <2>2, <3>1, <3>2
  <2> QED  BY <2>3, <2>4
<1>2. CASE Postgres!Load(c)
  BY <1>2 DEF Postgres!Load
<1>3. CASE Postgres!LoadFails(c)
  BY <1>3 DEF Postgres!LoadFails
<1>4. CASE Postgres!Register(c)
  BY <1>4 DEF Postgres!Register
<1>5. CASE Postgres!Reopen(c)
  BY <1>5 DEF Postgres!Reopen
<1>6. CASE UNCHANGED <<pools, started, epoch, phase, closing, pool>>
  BY <1>6
<1> QED
  BY <1>1, <1>2, <1>3, <1>4, <1>5, <1>6 DEF PActs, Postgres!Change, Postgres!Persist,
     Postgres!PersistFails, Postgres!Flush, Postgres!FlushEnds

LEMMA SharedCaptured ==
  ASSUME PgInv, PShared
  PROVE  Captured'
<1> USE DEF PgInv, PTypes, Captured, Postgres!conn, Postgres!shut, Postgres!rows
<1>1. CASE Postgres!PoolOpens \/ Postgres!PoolFails
  BY <1>1 DEF Postgres!PoolOpens, Postgres!PoolFails
<1>2. CASE Postgres!Close
  BY <1>2 DEF Postgres!Close
<1>3. CASE Postgres!AllFlushed
  BY <1>3 DEF Postgres!AllFlushed
<1>4. CASE Postgres!Closed
  BY <1>4 DEF Postgres!Closed, Postgres!NoShutdown
<1> QED  BY <1>1, <1>2, <1>3, <1>4 DEF PShared

LEMMA StoreCaptured ==
  ASSUME PgInv, NEW c \in Procs, PActs(c)
  PROVE  Captured'
<1> USE DEF PgInv, PTypes, Captured, Postgres!conn, Postgres!shut, Postgres!rows, Postgres!To
<1>1. CASE Postgres!Create(c) \/ Postgres!Load(c) \/ Postgres!LoadFails(c)
  <2>1. /\ UNCHANGED <<closing, captured, errors>> /\ phase[c] \in {"none", "connecting"}
        /\ \A s \in Procs \ {c} : phase'[s] = phase[s]
    BY <1>1 DEF Postgres!Create, Postgres!Load, Postgres!LoadFails
  <2> QED  BY <2>1
<1>2. CASE Postgres!Register(c) \/ Postgres!Reopen(c)
  BY <1>2 DEF Postgres!Register, Postgres!Reopen
<1>3. CASE Postgres!PersistFails(c)
  <2>1. done[c] < Len(queue[c]) /\ UNCHANGED <<closing, captured, phase>>
    BY <1>3 DEF Postgres!PersistFails
  <2>2. closing = "ending" => c \notin captured.stores
    BY <2>1, LenProperties DEF Drained
  <2> QED  BY <1>3, <2>1, <2>2 DEF Postgres!PersistFails
<1>4. CASE UNCHANGED <<closing, captured, phase, errors>>
  BY <1>4
<1> QED
  BY <1>1, <1>2, <1>3, <1>4 DEF PActs, Postgres!Change, Postgres!Persist, Postgres!Flush, Postgres!FlushEnds

LEMMA SharedDrained ==
  ASSUME PgInv, PShared, NEW s \in Procs
  PROVE  Drained(s)'
<1>0. Drained(s) /\ PTypes /\ Captured
  BY DEF PgInv
<1> USE <1>0 DEF PTypes, Captured, Drained, Postgres!conn, Postgres!shut, Postgres!rows
<1>1. CASE Postgres!PoolOpens \/ Postgres!PoolFails
  BY <1>1 DEF Postgres!PoolOpens, Postgres!PoolFails
<1>2. CASE Postgres!Close
  BY <1>2 DEF Postgres!Close
<1>3. CASE Postgres!AllFlushed
  BY <1>3 DEF Postgres!AllFlushed
<1>4. CASE Postgres!Closed
  BY <1>4 DEF Postgres!Closed, Postgres!NoShutdown
<1> QED  BY <1>1, <1>2, <1>3, <1>4 DEF PShared

LEMMA StoreDrained ==
  ASSUME PgInv, NEW c \in Procs, PActs(c), NEW s \in Procs
  PROVE  Drained(s)'
<1>0. Drained(s) /\ PTypes /\ Captured /\ Len(queue[s]) \in Nat
  BY LenProperties DEF PgInv, PTypes
<1> USE <1>0 DEF PTypes, Captured, Drained, Postgres!conn, Postgres!shut, Postgres!rows, Postgres!To
<1>1. CASE Postgres!Create(c) \/ Postgres!Load(c) \/ Postgres!LoadFails(c)
  BY <1>1 DEF Postgres!Create, Postgres!Load, Postgres!LoadFails
<1>2. CASE Postgres!Register(c)
  BY <1>2, EmptySeq DEF Postgres!Register
<1>3. CASE Postgres!Reopen(c)
  BY <1>3 DEF Postgres!Reopen
<1>4. CASE Postgres!Change(c)
  <2>1. PICK w \in PWrites : queue' = [queue EXCEPT ![c] = Append(@, w)]
    BY <1>4 DEF Postgres!Change, PWrites
  <2>2. Len(Append(queue[c], w)) = Len(queue[c]) + 1
    BY AppendProperties
  <2> QED  BY <1>4, <2>1, <2>2 DEF Postgres!Change
<1>5. CASE Postgres!Persist(c) \/ Postgres!PersistFails(c)
  <2>1. /\ done[c] < Len(queue[c]) /\ done' = [done EXCEPT ![c] = @ + 1]
        /\ UNCHANGED <<phase, closing, captured, queue>>
    BY <1>5 DEF Postgres!Persist, Postgres!PersistFails
  <2>2. CASE s = c
    BY <2>1, <2>2
  <2>3. CASE s # c
    BY <2>1, <2>3
  <2> QED  BY <2>2, <2>3
<1>6. CASE Postgres!Flush(c) \/ Postgres!FlushEnds(c)
  BY <1>6 DEF Postgres!Flush, Postgres!FlushEnds
<1> QED  BY <1>1, <1>2, <1>3, <1>4, <1>5, <1>6 DEF PActs

\* A store whose rows and writes are left alone, and which does not begin to
\* load or to be open, shows what it showed.
LEMMA FollowsStays ==
  ASSUME NEW s \in Procs, Follows(s),
         rows'[s] = rows[s], table'[s] = table[s], queue'[s] = queue[s], done'[s] = done[s],
         failed'[s] = failed[s], errors'[s] = errors[s],
         phase'[s] = "loading" => phase[s] = "loading",
         phase'[s] \in {"open", "closed"} => phase[s] \in {"open", "closed"}
  PROVE  Follows(s)'
BY DEF Follows, Pending, Leads

LEMMA SharedFollows ==
  ASSUME PgInv, PShared, NEW s \in Procs
  PROVE  Follows(s)'
<1>0. Follows(s) /\ PTypes
  BY DEF PgInv
<1>1. UNCHANGED <<rows, table, queue, done, failed, errors>>
  BY DEF PShared, Postgres!PoolOpens, Postgres!PoolFails, Postgres!Close, Postgres!AllFlushed,
     Postgres!Closed, Postgres!rows
<1>2. phase'[s] = phase[s] \/ (phase[s] = "open" /\ phase'[s] = "closed")
  BY <1>0 DEF PShared, Postgres!PoolOpens, Postgres!PoolFails, Postgres!Close, Postgres!AllFlushed,
     Postgres!Closed, PTypes
<1> QED  BY <1>0, <1>1, <1>2, FollowsStays

LEMMA StoreFollows ==
  ASSUME PgInv, NEW c \in Procs, PActs(c), NEW s \in Procs
  PROVE  Follows(s)'
<1>0. Follows(s) /\ Drained(s) /\ Captured /\ PTypes /\ Len(queue[s]) \in Nat
  BY LenProperties DEF PgInv, PTypes
<1> USE DEF Postgres!conn, Postgres!shut, Postgres!rows, Postgres!To
<1>1. CASE s # c
  BY <1>0, <1>1, FollowsStays DEF PTypes, PActs, Postgres!Create, Postgres!Load, Postgres!LoadFails,
     Postgres!Register, Postgres!Change, Postgres!Persist, Postgres!PersistFails, Postgres!Flush,
     Postgres!FlushEnds, Postgres!Reopen
<1>2. CASE s = c /\ (Postgres!Create(c) \/ Postgres!LoadFails(c) \/ Postgres!Flush(c) \/ Postgres!FlushEnds(c) \/ Postgres!Reopen(c))
  BY <1>0, <1>2, FollowsStays DEF PTypes, Postgres!Create, Postgres!LoadFails, Postgres!Flush,
     Postgres!FlushEnds, Postgres!Reopen
<1>3. CASE s = c /\ Postgres!Load(c)
  BY <1>0, <1>3 DEF PTypes, Postgres!Load, Follows
<1>4. CASE s = c /\ Postgres!Register(c)
  <2>1. /\ queue'[s] = <<>> /\ done'[s] = 0 /\ failed'[s] = {} /\ rows'[s] = table'[s]
        /\ phase'[s] # "loading"
    BY <1>0, <1>4 DEF PTypes, Postgres!Register, Follows
  <2>2. Len(<<>>) = 0 /\ <<>> \in Seq(PWrites) /\ table'[s] \in PTables
    BY <1>0, <1>4, EmptySeq DEF PTypes, Postgres!Register
  <2>3. \E h \in [0..0 -> PTables] : Leads(h, 0, <<>>, table'[s], table'[s])
    BY <2>2, LeadsNowhere
  <2> QED  BY <2>1, <2>2, <2>3 DEF Follows, Pending, Leads
<1>5. ASSUME phase[s] \in {"open", "closed"}, ~errors[s]
      PROVE  \E h \in [Pending(s) -> PTables] : Leads(h, done[s], queue[s], table[s], rows[s])
  BY <1>0, <1>5 DEF Follows
<1>6. queue[s] \in Seq(PWrites) /\ table[s] \in PTables /\ rows[s] \in PTables /\ done[s] \in 0..Len(queue[s])
  BY <1>0 DEF PTypes, Drained
<1>7. CASE s = c /\ Postgres!Change(c)
  <2>1. PICK w \in PWrites : /\ rows'[s] = Postgres!Apply(w, rows[s])
                             /\ queue'[s] = Append(queue[s], w)
    BY <1>0, <1>7 DEF Postgres!Change, PWrites, PTypes
  <2>2. /\ phase[s] = "open" /\ UNCHANGED <<phase, table, done, failed, errors>>
    BY <1>7 DEF Postgres!Change
  <2>3. ~errors[s] => \E k \in [done[s]..Len(Append(queue[s], w)) -> PTables] :
                        Leads(k, done[s], Append(queue[s], w), table[s], Postgres!Apply(w, rows[s]))
    BY <1>5, <1>6, <2>2, LeadsOn DEF Pending
  <2>4. ~errors'[s] => \E k \in [done'[s]..Len(queue'[s]) -> PTables] :
                         Leads(k, done'[s], queue'[s], table'[s], rows'[s])
    BY <2>1, <2>2, <2>3
  <2>5. (failed'[s] # {} => errors'[s]) /\ phase'[s] # "loading"
    BY <1>0, <2>1, <2>2 DEF Follows
  <2> QED  BY <2>4, <2>5 DEF Follows, Pending, Leads
<1>8. CASE s = c /\ Postgres!Persist(c)
  <2>1. /\ done[s] < Len(queue[s]) /\ done'[s] = done[s] + 1
        /\ table'[s] = Postgres!Apply(queue[s][done[s] + 1], table[s])
        /\ UNCHANGED <<phase, rows, queue, failed, errors>>
    BY <1>0, <1>8 DEF Postgres!Persist, PTypes
  <2>2. phase[s] \in {"open", "closed"}
    BY <1>0, <2>1 DEF Drained, Captured, PTypes
  <2>3. ~errors[s] => \E k \in [done[s] + 1..Len(queue[s]) -> PTables] :
          Leads(k, done[s] + 1, queue[s], Postgres!Apply(queue[s][done[s] + 1], table[s]), rows[s])
    BY <1>5, <1>6, <2>1, <2>2, LeadsOn DEF Pending
  <2>4. ~errors'[s] => \E k \in [done'[s]..Len(queue'[s]) -> PTables] :
                         Leads(k, done'[s], queue'[s], table'[s], rows'[s])
    BY <2>1, <2>2, <2>3
  <2>5. (failed'[s] # {} => errors'[s]) /\ phase'[s] # "loading"
    BY <1>0, <2>1, <2>2 DEF Follows
  <2> QED  BY <2>4, <2>5 DEF Follows, Pending, Leads
<1>9. CASE s = c /\ Postgres!PersistFails(c)
  <2>1. phase[s] # "loading"
    BY <1>0, <1>9 DEF Postgres!PersistFails, Drained, Captured, PTypes
  <2> QED  BY <1>0, <1>9, <2>1 DEF Postgres!PersistFails, Follows, PTypes
<1> QED  BY <1>1, <1>2, <1>3, <1>4, <1>7, <1>8, <1>9 DEF PActs

LEMMA PostgresStep ==
  ASSUME PgInv, Postgres!Next
  PROVE  PgInv'
<1>1. CASE PShared
  <2>1. PTypes'
    BY <1>1, SharedTypes DEF PgInv, PShared
  <2> QED  BY <1>1, <2>1, SharedCaptured, SharedConnected, SharedDrained, SharedFollows DEF PgInv
<1>2. ASSUME NEW c \in Procs, PActs(c) PROVE PgInv'
  <2>1. PTypes'
    BY <1>2, StoreTypes DEF PgInv
  <2> QED  BY <1>2, <2>1, StoreCaptured, StoreConnected, StoreDrained, StoreFollows DEF PgInv
<1> QED  BY <1>1, <1>2 DEF Postgres!Next, PActs, PShared

\* What flush() and closePgPool() vouch for.
LEMMA PostgresVouches ==
  ASSUME PgInv
  PROVE  /\ \A s \in Procs : Postgres!FlushEnds(s) /\ ~errors[s] => failed[s] \cap 1..flushing[s] = {}
         /\ Postgres!Closed /\ ~captured.error => \A s \in captured.stores : table[s] = rows[s]
         /\ Postgres!PoolOutlivesStores
<1>1. \A s \in Procs : ~errors[s] => failed[s] = {}
  BY DEF PgInv, Follows
<1>2. ASSUME closing = "ending", ~captured.error, NEW s \in captured.stores PROVE table[s] = rows[s]
  <2>1. s \in Procs /\ phase[s] = "closed" /\ ~errors[s] /\ done[s] = Len(queue[s]) /\ Len(queue[s]) \in Nat
    BY <1>2, LenProperties DEF PgInv, PTypes, Captured, Drained
  <2>2. \E h \in [Pending(s) -> PTables] : Leads(h, done[s], queue[s], table[s], rows[s])
    BY <2>1 DEF PgInv, Follows
  <2> QED  BY <2>1, <2>2 DEF Leads
<1>3. Postgres!PoolOutlivesStores
  BY DEF PgInv, Connected, Postgres!PoolOutlivesStores
<1> QED  BY <1>1, <1>2, <1>3 DEF Postgres!Closed

------------------------------------------------------------------------------
(* The three stores of the instance.                                       *)

LEMMA FilesKeep == FilesInv /\ [Files!Next]_files => FilesInv'
<1> SUFFICES ASSUME FilesInv, [Files!Next]_files PROVE FilesInv'
  OBVIOUS
<1>1. CASE Files!Next
  <2>1. PICK c \in Procs : FActs(c)
    BY <1>1 DEF Files!Next, FActs
  <2> QED  BY <2>1, FilesStep
<1>2. CASE UNCHANGED files
  BY <1>2 DEF files, FilesInv, FTypes, FOwned, FChanged, FComputed, Files!Differs
<1> QED  BY <1>1, <1>2

LEMMA PostgresKeeps == PgInv /\ [Postgres!Next]_postgres => PgInv'
<1> SUFFICES ASSUME PgInv, [Postgres!Next]_postgres PROVE PgInv'
  OBVIOUS
<1>1. CASE Postgres!Next
  BY <1>1, PostgresStep
<1>2. CASE UNCHANGED postgres
  <2>1. PTypes' /\ Captured'
    BY <1>2 DEF postgres, PgInv, PTypes, Captured
  <2>2. ASSUME NEW s \in Procs PROVE Connected(s)' /\ Drained(s)' /\ Follows(s)'
    BY <1>2, FollowsStays DEF postgres, PgInv, Connected, Drained
  <2> QED  BY <2>1, <2>2 DEF PgInv
<1> QED  BY <1>1, <1>2

\* The invariant of the files and of the tables.
THEOREM StoresInvariance == MCSpec => [](FilesInv /\ PgInv)
<1>1. MCInit => FilesInv /\ PgInv
  BY InitFiles, InitPostgres DEF MCInit
<1>2. [MCNext]_<<part, vars, files, postgres>> => [Files!Next]_files /\ [Postgres!Next]_postgres
  BY DEF MCNext
<1> QED  BY <1>1, <1>2, FilesKeep, PostgresKeeps, PTL DEF MCSpec

\* No update of a file is lost, however many processes cache it, fail to write
\* it or die: a step changes only the keys that the operation it commits names
\* or whose object its caller changed by reference, and an operation that
\* succeeds leaves on disk what it computed (store.ts 63-71).
THEOREM UpdatesAreKept == MCSpec => NoLostUpdate
<1>1. FilesInv /\ [Files!Next]_files => [FCommits]_Files!vars
  <2> SUFFICES ASSUME FilesInv, [Files!Next]_files PROVE [FCommits]_Files!vars
    OBVIOUS
  <2>1. CASE Files!Next
    BY <2>1, FilesCommit
  <2>2. CASE UNCHANGED files
    BY <2>2 DEF files, Files!vars, Files!local
  <2> QED  BY <2>1, <2>2
<1>2. [MCNext]_<<part, vars, files, postgres>> => [Files!Next]_files
  BY DEF MCNext
<1>3. []FilesInv /\ [][Files!Next]_files => NoLostUpdate
  BY <1>1, PTL DEF NoLostUpdate, Files!NoLostUpdate, FCommits
<1> QED  BY <1>2, <1>3, StoresInvariance, PTL DEF MCSpec

\* A flush that resolves vouches for every write made before it, a shutdown that
\* reports no error leaves in the database what each cache showed, and no open
\* store is left on a pool that has been ended (pg-store.ts 31-80, 111-146).
THEOREM FlushesVouch == MCSpec => Vouched
<1> DEFINE PCommits ==
      /\ \A s \in Procs : Postgres!FlushEnds(s) /\ ~errors[s] => failed[s] \cap 1..flushing[s] = {}
      /\ Postgres!Closed /\ ~captured.error => \A s \in captured.stores : table[s] = rows[s]
<1>1. PgInv => PCommits /\ Postgres!PoolOutlivesStores
  BY PostgresVouches
<1>2. PgInv' => Postgres!PoolOutlivesStores'
  BY DEF PgInv, Connected, Postgres!PoolOutlivesStores
<1>3. [](PgInv) => [][PCommits]_Postgres!vars /\ [][Postgres!PoolOutlivesStores']_postgres
  BY <1>1, <1>2, PTL
<1>4. []PgInv => Vouched
  BY <1>3 DEF Vouched, Postgres!FlushVouches
<1> QED  BY <1>4, StoresInvariance, PTL
==============================================================================
