----------------------------- MODULE VmsProofs -----------------------------
(***************************************************************************)
(* The five invariants of Vms, for any number of pages, entries, addresses *)
(* and address spaces.                                                     *)
(*                                                                         *)
(* The inductive invariant IInv says that the pages in use form a forest.  *)
(* Each has one home: it is a root, or the table behind one entry of one   *)
(* root, or it holds the data of one address, which several roots may      *)
(* share; entries that share a page are alike, and none of them may write. *)
(* ref_track then counts, for every page, the entries besides the first    *)
(* through which it may be written, at once or after a fault.              *)
(*                                                                         *)
(* The sections follow the code: pages.c and the order in which copy takes *)
(* pages, page_table.c, the ways in which a step changes one entry of the  *)
(* forest, the client, the counters, mmu.c, copy, and the invariant.       *)
(***************************************************************************)
EXTENDS Vms, FiniteSetTheorems, SequenceTheorems, TLAPS

-----------------------------------------------------------------------------
(* pages.c *)

LEMMA PagesFinite ==
  /\ IsFiniteSet(Pages)
  /\ Pages \subseteq Nat
  /\ Indices \subseteq Nat
  <1>1. MAX_PAGES \in Nat \ {0} /\ NUM_PTE_ENTRIES \in Nat \ {0}
    BY ConstantsAssumption DEF ConstantsAssumption
  <1> QED
    BY <1>1, FS_Interval DEF Pages, Indices

(* The n-th call of vms_new_page finds a free page while there are more     *)
(* than n, and another one for every n.                                    *)
LEMMA NewPageIsFree ==
  ASSUME NEW n \in Nat, n < Cardinality(Free)
  PROVE  /\ NewPage(n) \in Free
         /\ Cardinality({q \in Free : q < NewPage(n)}) = n
  <1> DEFINE below(p) == {q \in Free : q < p}
             C == Cardinality(Free)
             rank == [p \in Free |-> Cardinality(below(p))]
  <1>1. IsFiniteSet(Free) /\ Free \subseteq Nat /\ C \in Nat
    BY PagesFinite, FS_Subset, FS_CardinalityType DEF Free
  <1>2. ASSUME NEW p \in Free
        PROVE  /\ IsFiniteSet(below(p))
               /\ Cardinality(below(p)) \in 0..(C - 1)
    <2>0. \A q \in below(p) : q \in Free /\ q # p
      BY <1>1, PagesFinite DEF Free
    <2>1. below(p) \in SUBSET (Free \ {p})
      BY <2>0
    <2>2. IsFiniteSet(Free \ {p}) /\ Cardinality(Free \ {p}) = C - 1
      BY <1>1, FS_RemoveElement
    <2>3. IsFiniteSet(below(p)) /\ Cardinality(below(p)) <= C - 1
      BY <2>1, <2>2, FS_Subset
    <2> QED
      BY <1>1, <2>3, FS_CardinalityType
  <1>3. ASSUME NEW p \in Free, NEW q \in Free, p < q
        PROVE  Cardinality(below(p)) < Cardinality(below(q))
    <2>0. p \in Nat /\ q \in Nat /\ \A r \in Free : r \in Nat
      BY <1>1
    <2>1. below(p) \cup {p} \in SUBSET below(q)
      <3>1. \A r \in Free : r < p => r < q
        BY <1>3, <2>0
      <3> QED
        BY <1>3, <3>1
    <2>2. Cardinality(below(p) \cup {p}) = Cardinality(below(p)) + 1
      <3>1. p \notin below(p)
        BY <2>0
      <3>2. IsFiniteSet(below(p))
        BY <1>2
      <3> HIDE DEF below
      <3> QED
        BY <3>1, <3>2, FS_AddElement
    <2>3. IsFiniteSet(below(q)) /\ Cardinality(below(p)) \in Int /\ Cardinality(below(q)) \in Int
      BY <1>1, <1>2
    <2> HIDE DEF below
    <2>4. Cardinality(below(p) \cup {p}) <= Cardinality(below(q))
      BY <2>1, <2>3, FS_Subset
    <2> QED
      BY <2>2, <2>3, <2>4
  <1> HIDE DEF below
  <1>4. rank \in Injection(Free, 0..(C - 1))
    <2>1. rank \in [Free -> 0..(C - 1)]
      BY <1>2
    <2>2. ASSUME NEW p \in Free, NEW q \in Free, rank[p] = rank[q]
          PROVE  p = q
      <3>1. p \in Nat /\ q \in Nat /\ Cardinality(below(p)) = Cardinality(below(q))
        BY <1>1, <2>2
      <3>2. Cardinality(below(p)) \in Int
        BY <1>1, <1>2
      <3> QED
        BY <1>3, <3>1, <3>2
    <2> QED
      BY <2>1, <2>2 DEF Injection, IsInjective
  <1>5. IsFiniteSet(0..(C - 1)) /\ Cardinality(0..(C - 1)) = C
    <2>1. C \in Nat /\ C - 1 \in Int /\ 0 \in Int
      BY <1>1
    <2> HIDE DEF C
    <2>2. /\ IsFiniteSet(0..(C - 1))
          /\ Cardinality(0..(C - 1)) = IF 0 > C - 1 THEN 0 ELSE (C - 1) - 0 + 1
      BY <2>1, FS_Interval
    <2> QED
      BY <2>1, <2>2
  <1>6. rank \in Surjection(Free, 0..(C - 1))
    <2>1. Cardinality(Free) = Cardinality(0..(C - 1))
      BY <1>5
    <2> HIDE DEF rank
    <2> QED
      BY <1>4, <1>5, <2>1, FS_Injection
  <1>7. \E p \in Free : Cardinality(below(p)) = n
    <2>1. n \in 0..(C - 1)
      BY <1>1
    <2> QED
      BY <1>6, <2>1 DEF Surjection
  <1> QED
    BY <1>7 DEF NewPage, below

LEMMA NewPagesDiffer ==
  ASSUME NEW n \in Nat, NEW o \in Nat, n # o,
         n < Cardinality(Free), o < Cardinality(Free)
  PROVE  NewPage(n) # NewPage(o)
  BY NewPageIsFree

LEMMA FirstFree ==
  ASSUME Free # {}
  PROVE  NewPage(0) \in Free
  <1>1. IsFiniteSet(Free) /\ Cardinality(Free) \in Nat
    BY PagesFinite, FS_Subset, FS_CardinalityType DEF Free
  <1>2. Cardinality(Free) > 0
    BY <1>1, FS_EmptySet
  <1> QED
    BY <1>1, <1>2, NewPageIsFree

-----------------------------------------------------------------------------
(* The preorder of copy *)

Path == {p \in Seq(Indices) : Len(p) <= 3}

(* A path as a number of three digits; what is missing counts as -1.       *)
Digit(p, n) == IF n <= Len(p) THEN p[n] ELSE -1
Lower(p, q) ==
  \/ Digit(p, 1) < Digit(q, 1)
  \/ /\ Digit(p, 1) = Digit(q, 1)
     /\ \/ Digit(p, 2) < Digit(q, 2)
        \/ Digit(p, 2) = Digit(q, 2) /\ Digit(p, 3) < Digit(q, 3)

LEMMA BeforeIsLower ==
  ASSUME NEW p \in Path, NEW q \in Path
  PROVE  Before(p, q) <=> Lower(p, q)
  <1>1. /\ Len(p) \in 0..3 /\ Len(q) \in 0..3
        /\ \A n \in 1..Len(p) : p[n] \in Nat
        /\ \A n \in 1..Len(q) : q[n] \in Nat
    <2>1. \A s \in Seq(Indices) :
            Len(s) \in Nat /\ \A n \in 1..Len(s) : s[n] \in Indices
      BY ElementOfSeq
    <2>2. \A s \in Path : Len(s) \in 0..3 /\ \A n \in 1..Len(s) : s[n] \in Indices
      <3> SUFFICES ASSUME NEW s \in Seq(Indices), Len(s) <= 3
                   PROVE  Len(s) \in 0..3 /\ \A n \in 1..Len(s) : s[n] \in Indices
        BY DEF Path
      <3>1. Len(s) \in Nat
        OBVIOUS
      <3>2. \A n \in 1..Len(s) : s[n] \in Indices
        BY <2>1
      <3>3. Len(s) \in 0..3
        <4>1. PICK n \in Nat : n = Len(s)
          BY <3>1
        <4>2. n <= 3
          BY <4>1
        <4> QED
          BY <4>1, <4>2
      <3> QED
        BY <3>2, <3>3
    <2> QED
      BY <2>2, PagesFinite
  <1>2. ASSUME NEW n \in 1..Len(p), n <= Len(q)
        PROVE  SubSeq(p, 1, n - 1) = SubSeq(q, 1, n - 1)
                 <=> \A i \in 1..(n - 1) : p[i] = q[i]
    <2>1. /\ n \in Int /\ n - 1 \in 0..2
          /\ \A i \in 1..(n - 1) : p[i] \in Nat /\ q[i] \in Nat
      BY <1>1, <1>2
    <2>2. /\ SubSeq(p, 1, n - 1) \in Seq(Nat) /\ SubSeq(q, 1, n - 1) \in Seq(Nat)
          /\ Len(SubSeq(p, 1, n - 1)) = n - 1 /\ Len(SubSeq(q, 1, n - 1)) = n - 1
          /\ \A i \in 1..(n - 1) : SubSeq(p, 1, n - 1)[i] = p[i]
                               /\ SubSeq(q, 1, n - 1)[i] = q[i]
      BY <1>1, <1>2, <2>1
    <2>3. (\A i \in 1..(n - 1) : p[i] = q[i]) =>
            SubSeq(p, 1, n - 1) = SubSeq(q, 1, n - 1)
      BY <2>2, SeqEqual
    <2> QED
      BY <2>2, <2>3
  <1>3. IsStrictPrefix(p, q) <=>
          Len(p) < Len(q) /\ \A i \in 1..Len(p) : p[i] = q[i]
    <2>1. Len(p) <= Len(q) =>
            (SubSeq(p, 1, Len(p)) = SubSeq(q, 1, Len(p))
               <=> \A i \in 1..Len(p) : p[i] = q[i])
      <3> SUFFICES ASSUME Len(p) <= Len(q)
                   PROVE  SubSeq(p, 1, Len(p)) = SubSeq(q, 1, Len(p))
                            <=> \A i \in 1..Len(p) : p[i] = q[i]
        OBVIOUS
      <3>1. /\ SubSeq(p, 1, Len(p)) \in Seq(Nat) /\ SubSeq(q, 1, Len(p)) \in Seq(Nat)
            /\ Len(SubSeq(p, 1, Len(p))) = Len(p) /\ Len(SubSeq(q, 1, Len(p))) = Len(p)
            /\ \A i \in 1..Len(p) : SubSeq(p, 1, Len(p))[i] = p[i]
                                   /\ SubSeq(q, 1, Len(p))[i] = q[i]
        BY <1>1
      <3>2. (\A i \in 1..Len(p) : p[i] = q[i]) =>
              SubSeq(p, 1, Len(p)) = SubSeq(q, 1, Len(p))
        BY <3>1, SeqEqual
      <3> QED
        BY <3>1, <3>2
    <2>2. (Len(p) = Len(q) /\ \A i \in 1..Len(p) : p[i] = q[i]) => p = q
      BY SeqEqual DEF Path
    <2> QED
      BY <1>1, <2>1, <2>2 DEF IsStrictPrefix, IsPrefix
  <1>4. Before(p, q) <=>
          \/ Len(p) < Len(q) /\ \A i \in 1..Len(p) : p[i] = q[i]
          \/ \E n \in 1..Len(p) :
               n <= Len(q) /\ p[n] < q[n] /\ \A i \in 1..(n - 1) : p[i] = q[i]
    BY <1>2, <1>3 DEF Before
  <1>5. Before(p, q) <=>
          \/ Len(p) = 0 /\ Len(q) > 0
          \/ Len(p) = 1 /\ Len(q) > 1 /\ p[1] = q[1]
          \/ Len(p) = 2 /\ Len(q) > 2 /\ p[1] = q[1] /\ p[2] = q[2]
          \/ Len(p) >= 1 /\ Len(q) >= 1 /\ p[1] < q[1]
          \/ Len(p) >= 2 /\ Len(q) >= 2 /\ p[1] = q[1] /\ p[2] < q[2]
          \/ Len(p) = 3 /\ Len(q) = 3 /\ p[1] = q[1] /\ p[2] = q[2] /\ p[3] < q[3]
    <2> DEFINE same(n) == \A i \in 1..n : p[i] = q[i]
               at(n) == n <= Len(p) /\ n <= Len(q) /\ p[n] < q[n] /\ same(n - 1)
    <2>1. /\ same(0)
          /\ same(1) <=> p[1] = q[1]
          /\ same(2) <=> p[1] = q[1] /\ p[2] = q[2]
      OBVIOUS
    <2>2. Before(p, q) <=>
            \/ Len(p) < Len(q) /\ same(Len(p))
            \/ \E n \in 1..Len(p) : at(n)
      BY <1>1, <1>4
    <2>3. (\E n \in 1..Len(p) : at(n)) <=> at(1) \/ at(2) \/ at(3)
      <3>1. \A n : n \in 1..Len(p) <=> n \in {1, 2, 3} /\ n <= Len(p)
        BY <1>1
      <3> QED
        BY <3>1
    <2>4. 1 - 1 = 0 /\ 2 - 1 = 1 /\ 3 - 1 = 2
      OBVIOUS
    <2>5. /\ at(1) <=> 1 <= Len(p) /\ 1 <= Len(q) /\ p[1] < q[1]
          /\ at(2) <=> 2 <= Len(p) /\ 2 <= Len(q) /\ p[2] < q[2] /\ p[1] = q[1]
          /\ at(3) <=> 3 <= Len(p) /\ 3 <= Len(q) /\ p[3] < q[3]
                        /\ p[1] = q[1] /\ p[2] = q[2]
      BY <2>1, <2>4
    <2>6. Len(p) < Len(q) /\ same(Len(p)) <=>
            \/ Len(p) = 0 /\ Len(q) > 0
            \/ Len(p) = 1 /\ Len(q) > 1 /\ p[1] = q[1]
            \/ Len(p) = 2 /\ Len(q) > 2 /\ p[1] = q[1] /\ p[2] = q[2]
      <3>1. Len(p) \in {0, 1, 2, 3} /\ Len(q) \in {0, 1, 2, 3}
        BY <1>1
      <3>2. /\ Len(p) = 0 => same(Len(p))
            /\ Len(p) = 1 => (same(Len(p)) <=> p[1] = q[1])
            /\ Len(p) = 2 => (same(Len(p)) <=> p[1] = q[1] /\ p[2] = q[2])
        <4> HIDE DEF same
        <4> QED
          BY <2>1
      <3>3. CASE Len(p) = 3
        <4>1. PICK n \in {0, 1, 2, 3} : n = Len(q)
          BY <3>1
        <4>2. ~(3 < n)
          OBVIOUS
        <4> QED
          BY <3>3, <4>1, <4>2
      <3> HIDE DEF same
      <3>4. CASE Len(p) = 0
        BY <3>1, <3>2, <3>4
      <3>5. CASE Len(p) = 1
        BY <3>1, <3>2, <3>5
      <3>6. CASE Len(p) = 2
        BY <3>1, <3>2, <3>6
      <3> QED
        BY <3>1, <3>3, <3>4, <3>5, <3>6
    <2> HIDE DEF same, at
    <2> QED
      BY <1>1, <2>2, <2>3, <2>5, <2>6
  <1>6. /\ Len(p) \in {0, 1, 2, 3} /\ Len(q) \in {0, 1, 2, 3}
        /\ \A n \in 1..Len(p) : p[n] \in Nat
        /\ \A n \in 1..Len(q) : q[n] \in Nat
    BY <1>1
  <1>7. /\ Digit(p, 1) = IF Len(p) = 0 THEN -1 ELSE p[1]
        /\ Digit(p, 2) = IF Len(p) \in {0, 1} THEN -1 ELSE p[2]
        /\ Digit(p, 3) = IF Len(p) = 3 THEN p[3] ELSE -1
        /\ Digit(q, 1) = IF Len(q) = 0 THEN -1 ELSE q[1]
        /\ Digit(q, 2) = IF Len(q) \in {0, 1} THEN -1 ELSE q[2]
        /\ Digit(q, 3) = IF Len(q) = 3 THEN q[3] ELSE -1
    BY <1>6 DEF Digit
  <1>8. CASE Len(p) = 0
    BY <1>5, <1>6, <1>7, <1>8 DEF Lower
  <1>9. CASE Len(p) = 1
    BY <1>5, <1>6, <1>7, <1>9 DEF Lower
  <1>10. CASE Len(p) = 2
    BY <1>5, <1>6, <1>7, <1>10 DEF Lower
  <1>11. CASE Len(p) = 3
    BY <1>5, <1>6, <1>7, <1>11 DEF Lower
  <1> QED
    BY <1>6, <1>8, <1>9, <1>10, <1>11

LEMMA Digits ==
  ASSUME NEW p \in Path
  PROVE  /\ Len(p) \in {0, 1, 2, 3}
         /\ \A n \in 1..Len(p) : p[n] \in Nat
         /\ Digit(p, 1) \in Int /\ Digit(p, 2) \in Int /\ Digit(p, 3) \in Int
  <1>1. p \in Seq(Indices) /\ Len(p) <= 3
    BY DEF Path
  <1>2. PICK n \in Nat : n = Len(p)
    BY <1>1
  <1>3. \A i \in 1..n : p[i] \in Nat
    BY <1>1, <1>2, ElementOfSeq, PagesFinite
  <1>4. n <= 3
    BY <1>1, <1>2
  <1> QED
    BY <1>2, <1>3, <1>4 DEF Digit

(* The number of members that come before is a different one for each.      *)
LEMMA PlacesDiffer ==
  ASSUME NEW S \in SUBSET Path, IsFiniteSet(S), NEW p \in S
  PROVE  /\ Cardinality({q \in S : Before(q, p)}) \in Nat
         /\ Cardinality({q \in S : Before(q, p)}) < Cardinality(S)
         /\ \A o \in S : Before(o, p) =>
              Cardinality({q \in S : Before(q, o)}) < Cardinality({q \in S : Before(q, p)})
  <1> DEFINE ahead(o) == {q \in S : Before(q, o)}
  <1>1. \A o \in S : ~Before(o, o)
    BY BeforeIsLower, Digits DEF Lower
  <1>2. ASSUME NEW o \in S, NEW q \in S, NEW u \in S, Before(o, q), Before(q, u)
        PROVE  Before(o, u)
    <2>1. Lower(o, q) /\ Lower(q, u)
      BY <1>2, BeforeIsLower
    <2>2. Lower(o, u)
      BY <2>1, Digits DEF Lower
    <2> QED
      BY <2>2, BeforeIsLower
  <1>3. ASSUME NEW o \in S
        PROVE  /\ IsFiniteSet(ahead(o)) /\ Cardinality(ahead(o)) \in Nat
               /\ IsFiniteSet(ahead(o) \cup {o})
               /\ Cardinality(ahead(o) \cup {o}) = Cardinality(ahead(o)) + 1
    <2>1. ahead(o) \in SUBSET S /\ o \notin ahead(o)
      BY <1>1
    <2> HIDE DEF ahead
    <2>2. IsFiniteSet(ahead(o))
      BY <2>1, FS_Subset
    <2> QED
      BY <2>1, <2>2, FS_AddElement, FS_CardinalityType
  <1>4. ahead(p) \cup {p} \in SUBSET S
    OBVIOUS
  <1>5. ASSUME NEW o \in S, Before(o, p)
        PROVE  ahead(o) \cup {o} \in SUBSET ahead(p)
    BY <1>2, <1>5
  <1>6. Cardinality(S) \in Nat
    BY FS_CardinalityType
  <1> HIDE DEF ahead
  <1>7. Cardinality(ahead(p)) + 1 <= Cardinality(S)
    <2>1. Cardinality(ahead(p) \cup {p}) <= Cardinality(S)
      BY <1>4, FS_Subset
    <2> QED
      BY <1>3, <2>1
  <1>8. ASSUME NEW o \in S, Before(o, p)
        PROVE  Cardinality(ahead(o)) + 1 <= Cardinality(ahead(p))
    <2>1. IsFiniteSet(ahead(p)) /\ ahead(o) \cup {o} \in SUBSET ahead(p)
      BY <1>3, <1>5, <1>8
    <2>2. Cardinality(ahead(o) \cup {o}) <= Cardinality(ahead(p))
      BY <2>1, FS_Subset
    <2> QED
      BY <1>3, <2>2
  <1>9. /\ Cardinality(ahead(p)) \in Nat
        /\ Cardinality(ahead(p)) < Cardinality(S)
        /\ \A o \in S : Before(o, p) => Cardinality(ahead(o)) < Cardinality(ahead(p))
    <2>1. Cardinality(ahead(p)) \in Nat
      BY <1>3
    <2>2. Cardinality(ahead(p)) < Cardinality(S)
      BY <1>6, <1>7, <2>1
    <2>3. ASSUME NEW o \in S, Before(o, p)
          PROVE  Cardinality(ahead(o)) < Cardinality(ahead(p))
      <3>1. Cardinality(ahead(o)) \in Nat
        BY <1>3
      <3> QED
        BY <1>8, <2>1, <2>3, <3>1
    <2> QED
      BY <2>1, <2>2, <2>3
  <1> QED
    BY <1>9 DEF ahead

(* One of two paths comes before the other.                                *)
LEMMA BeforeTotal ==
  ASSUME NEW p \in Path, NEW q \in Path, p # q
  PROVE  Before(p, q) \/ Before(q, p)
  <1> SUFFICES ASSUME Digit(p, 1) = Digit(q, 1), Digit(p, 2) = Digit(q, 2),
                      Digit(p, 3) = Digit(q, 3)
               PROVE  p = q
    BY BeforeIsLower, Digits DEF Lower
  <1>1. Len(p) \in {0, 1, 2, 3} /\ Len(q) \in {0, 1, 2, 3}
    BY Digits
  <1>2. /\ \A n \in 1..Len(p) : p[n] # -1
        /\ \A n \in 1..Len(q) : q[n] # -1
    BY Digits
  <1>3. Len(p) = Len(q)
    BY <1>1, <1>2 DEF Digit
  <1>4. \A n \in 1..Len(p) : p[n] = q[n]
    BY <1>1, <1>3 DEF Digit
  <1> QED
    BY <1>3, <1>4, SeqEqual DEF Path

-----------------------------------------------------------------------------
(* The tree of root r in memory m, level by level                          *)

Valid(m, q, i) == "valid" \in m[q].pte[i].flags
To(m, q, i) == m[q].pte[i].ppn

At1(m, r, i) == To(m, r, i)
At2(m, r, i, j) == To(m, At1(m, r, i), j)
At3(m, r, i, j, k) == To(m, At2(m, r, i, j), k)

In1(m, r, i) == i \in Indices /\ Valid(m, r, i)
In2(m, r, i, j) == In1(m, r, i) /\ j \in Indices /\ Valid(m, At1(m, r, i), j)
In3(m, r, i, j, k) ==
  In2(m, r, i, j) /\ k \in Indices /\ Valid(m, At2(m, r, i, j), k)

FlagsAt(m, r, i, j, k) == m[At2(m, r, i, j)].pte[k].flags

LEMMA PageAtIs ==
  ASSUME NEW root
  PROVE  /\ PageAt(root, <<>>) = root
         /\ \A i : PageAt(root, <<i>>) = At1(memory, root, i)
         /\ \A i, j : PageAt(root, <<i, j>>) = At2(memory, root, i, j)
         /\ \A i, j, k : PageAt(root, <<i, j, k>>) = At3(memory, root, i, j, k)
  <1>1. /\ Len(<<>>) = 0
        /\ \A i : Len(<<i>>) = 1 /\ <<i>>[1] = i
        /\ \A i, j : Len(<<i, j>>) = 2 /\ <<i, j>>[1] = i /\ <<i, j>>[2] = j
        /\ \A i, j, k : /\ Len(<<i, j, k>>) = 3 /\ <<i, j, k>>[1] = i
                        /\ <<i, j, k>>[2] = j /\ <<i, j, k>>[3] = k
    OBVIOUS
  <1>2. ASSUME NEW p
        PROVE  /\ Len(p) = 0 => PageAt(root, p) = root
               /\ Len(p) = 1 => PageAt(root, p) = At1(memory, root, p[1])
               /\ Len(p) = 2 => PageAt(root, p) = At2(memory, root, p[1], p[2])
               /\ Len(p) = 3 => PageAt(root, p) = At3(memory, root, p[1], p[2], p[3])
    <2>1. ASSUME Len(p) = 0 PROVE PageAt(root, p) = root
      BY <2>1 DEF PageAt
    <2>2. ASSUME Len(p) = 1 PROVE PageAt(root, p) = At1(memory, root, p[1])
      BY <2>2 DEF PageAt, PTEOf, At1, To
    <2>3. ASSUME Len(p) = 2 PROVE PageAt(root, p) = At2(memory, root, p[1], p[2])
      BY <2>3 DEF PageAt, PTEOf, At1, At2, To
    <2>4. ASSUME Len(p) = 3 PROVE PageAt(root, p) = At3(memory, root, p[1], p[2], p[3])
      <3>1. /\ PTEOf(root, p[1]).ppn = At1(memory, root, p[1])
            /\ PTEOf(At1(memory, root, p[1]), p[2]).ppn = At2(memory, root, p[1], p[2])
            /\ PTEOf(At2(memory, root, p[1], p[2]), p[3]).ppn
                 = At3(memory, root, p[1], p[2], p[3])
        BY DEF PTEOf, At1, At2, At3, To
      <3>2. Len(p) # 0 /\ Len(p) # 1 /\ Len(p) # 2
        BY <2>4
      <3>3. PageAt(root, p) = PTEOf(PTEOf(PTEOf(root, p[1]).ppn, p[2]).ppn, p[3]).ppn
        BY <3>2 DEF PageAt
      <3> QED
        BY <3>1, <3>3
    <2> QED
      BY <2>1, <2>2, <2>3, <2>4
  <1>3. PageAt(root, <<>>) = root
    BY <1>1, <1>2
  <1>4. ASSUME NEW i PROVE PageAt(root, <<i>>) = At1(memory, root, i)
    BY <1>1, <1>2
  <1>5. ASSUME NEW i, NEW j PROVE PageAt(root, <<i, j>>) = At2(memory, root, i, j)
    BY <1>1, <1>2
  <1>6. ASSUME NEW i, NEW j, NEW k
        PROVE  PageAt(root, <<i, j, k>>) = At3(memory, root, i, j, k)
    BY <1>1, <1>2
  <1> QED
    BY <1>3, <1>4, <1>5, <1>6

LEMMA DataPageIs ==
  ASSUME NEW root, NEW i, NEW j, NEW k
  PROVE  PageAt(root, <<i, j, k>>) = At3(memory, root, i, j, k) /\ Len(<<i, j, k>>) = 3
  BY PageAtIs

LEMMA Appended ==
  /\ \A i : Append(<<>>, i) = <<i>>
  /\ \A i, j : Append(<<i>>, j) = <<i, j>>
  /\ \A i, j, k : Append(<<i, j>>, k) = <<i, j, k>>
  <1>1. ASSUME NEW i PROVE Append(<<>>, i) = <<i>>
    <2>1. <<i>> \in Seq({i}) /\ Append(<<>>, i) \in Seq({i})
      OBVIOUS
    <2> QED
      BY <2>1, SeqEqual
  <1>2. ASSUME NEW i, NEW j PROVE Append(<<i>>, j) = <<i, j>>
    <2>1. <<i>> \in Seq({i, j}) /\ <<i, j>> \in Seq({i, j}) /\ Append(<<i>>, j) \in Seq({i, j})
      OBVIOUS
    <2>2. /\ Len(Append(<<i>>, j)) = 2 /\ Len(<<i, j>>) = 2
          /\ \A n \in 1..2 : Append(<<i>>, j)[n] = <<i, j>>[n]
      OBVIOUS
    <2> QED
      BY <2>1, <2>2, SeqEqual
  <1>3. ASSUME NEW i, NEW j, NEW k PROVE Append(<<i, j>>, k) = <<i, j, k>>
    <2>1. /\ <<i, j>> \in Seq({i, j, k}) /\ <<i, j, k>> \in Seq({i, j, k})
          /\ Append(<<i, j>>, k) \in Seq({i, j, k})
      OBVIOUS
    <2>2. /\ Len(Append(<<i, j>>, k)) = 3 /\ Len(<<i, j, k>>) = 3
          /\ \A n \in 1..3 : Append(<<i, j>>, k)[n] = <<i, j, k>>[n]
      OBVIOUS
    <2> QED
      BY <2>1, <2>2, SeqEqual
  <1> QED
    BY <1>1, <1>2, <1>3

LEMMA PathsAre ==
  ASSUME NEW root
  PROVE  /\ \A p : p \in L1s(root) <=> \E i : p = <<i>> /\ In1(memory, root, i)
         /\ \A p : p \in L0s(root) <=> \E i, j : p = <<i, j>> /\ In2(memory, root, i, j)
         /\ \A p : p \in DataPaths(root) <=>
              \E i, j, k : p = <<i, j, k>> /\ In3(memory, root, i, j, k)
  <1>1. \A i : i \in Entries(root, <<>>) <=> In1(memory, root, i)
    BY PageAtIs DEF Entries, Has, PTEOf, In1, Valid
  <1>2. \A i, j : j \in Entries(root, <<i>>) /\ In1(memory, root, i)
                  <=> In2(memory, root, i, j)
    BY PageAtIs DEF Entries, Has, PTEOf, In2, Valid
  <1>3. \A i, j, k : k \in Entries(root, <<i, j>>) /\ In2(memory, root, i, j)
                     <=> In3(memory, root, i, j, k)
    BY PageAtIs DEF Entries, Has, PTEOf, In3, Valid
  <1>4. \A p : p \in L1s(root) <=> \E i : p = <<i>> /\ In1(memory, root, i)
    BY <1>1 DEF L1s
  <1>5. \A p : p \in L0s(root) <=> \E i, j : p = <<i, j>> /\ In2(memory, root, i, j)
    <2>1. \A p : p \in L0s(root) <=>
            \E q \in L1s(root) : \E j \in Entries(root, q) : p = Append(q, j)
      BY DEF L0s
    <2>2. \A i, j : Append(<<i>>, j) = <<i, j>>
      BY Appended
    <2>3. ASSUME NEW p, p \in L0s(root)
          PROVE  \E i, j : p = <<i, j>> /\ In2(memory, root, i, j)
      <3>1. PICK q \in L1s(root) : \E j \in Entries(root, q) : p = Append(q, j)
        BY <2>1, <2>3
      <3>2. PICK j \in Entries(root, q) : p = Append(q, j)
        BY <3>1
      <3>3. PICK i : q = <<i>> /\ In1(memory, root, i)
        BY <1>4
      <3> QED
        BY <1>2, <2>2, <3>2, <3>3
    <2>4. ASSUME NEW i, NEW j, In2(memory, root, i, j)
          PROVE  <<i, j>> \in L0s(root)
      <3>1. In1(memory, root, i) /\ j \in Entries(root, <<i>>)
        BY <1>2, <2>4
      <3>2. <<i>> \in L1s(root)
        BY <1>4, <3>1
      <3> QED
        BY <2>1, <2>2, <3>1, <3>2
    <2> QED
      BY <2>3, <2>4
  <1>6. \A p : p \in DataPaths(root) <=>
          \E i, j, k : p = <<i, j, k>> /\ In3(memory, root, i, j, k)
    <2>1. \A p : p \in DataPaths(root) <=>
            \E q \in L0s(root) : \E k \in Entries(root, q) : p = Append(q, k)
      BY DEF DataPaths
    <2>2. \A i, j, k : Append(<<i, j>>, k) = <<i, j, k>>
      BY Appended
    <2>3. ASSUME NEW p, p \in DataPaths(root)
          PROVE  \E i, j, k : p = <<i, j, k>> /\ In3(memory, root, i, j, k)
      <3>1. PICK q \in L0s(root) : \E k \in Entries(root, q) : p = Append(q, k)
        BY <2>1, <2>3
      <3>2. PICK k \in Entries(root, q) : p = Append(q, k)
        BY <3>1
      <3>3. PICK i, j : q = <<i, j>> /\ In2(memory, root, i, j)
        BY <1>5
      <3> QED
        BY <1>3, <2>2, <3>2, <3>3
    <2>4. ASSUME NEW i, NEW j, NEW k, In3(memory, root, i, j, k)
          PROVE  <<i, j, k>> \in DataPaths(root)
      <3>1. In2(memory, root, i, j) /\ k \in Entries(root, <<i, j>>)
        BY <1>3, <2>4
      <3>2. <<i, j>> \in L0s(root)
        BY <1>5, <3>1
      <3> QED
        BY <2>1, <2>2, <3>1, <3>2
    <2> QED
      BY <2>3, <2>4
  <1> QED
    BY <1>4, <1>5, <1>6

LEMMA AddressesAre ==
  ASSUME NEW v \in VirtualAddresses
  PROVE  /\ v = <<v[1], v[2], v[3]>>
         /\ v[1] \in Indices /\ v[2] \in Indices /\ v[3] \in Indices
  BY ConstantsAssumption DEF ConstantsAssumption

LEMMA MappedIs ==
  ASSUME NEW root, NEW v \in VirtualAddresses
  PROVE  /\ Mapped(root, v) <=> In3(memory, root, v[1], v[2], v[3])
         /\ L0Of(root, v) = At2(memory, root, v[1], v[2])
         /\ PageAt(root, v) = At3(memory, root, v[1], v[2], v[3])
         /\ EntryOf(root, v).ppn = At3(memory, root, v[1], v[2], v[3])
         /\ EntryOf(root, v).flags = FlagsAt(memory, root, v[1], v[2], v[3])
         /\ PTEOf(root, v[1]) = memory[root].pte[v[1]]
         /\ PTEOf(PageAt(root, <<v[1]>>), v[2]) = memory[At1(memory, root, v[1])].pte[v[2]]
         /\ EntryOf(root, v) = memory[At2(memory, root, v[1], v[2])].pte[v[3]]
  <1>1. PageAt(root, v) = At3(memory, root, v[1], v[2], v[3])
    BY PageAtIs, AddressesAre
  <1>2. /\ PageAt(root, <<v[1]>>) = At1(memory, root, v[1])
        /\ PageAt(root, <<v[1], v[2]>>) = At2(memory, root, v[1], v[2])
    BY PageAtIs
  <1> QED
    BY <1>1, <1>2, AddressesAre
    DEF Mapped, Has, EntryOf, L0Of, Leaf, PTEOf, In1, In2, In3, Valid, FlagsAt, At3, To

-----------------------------------------------------------------------------
(* The forest of the roots R in memory m, with A the pages in use           *)

Memory == [Pages -> [pte : [Indices -> PTE], ints : [Offsets -> Int]]]

(* Every page has one home: a root, an entry of a table of one root, or an   *)
(* address, which several roots may share.                                 *)
RootHome(r) == <<r, NONE, NONE, NONE>>
Home1(r, i) == <<r, i, NONE, NONE>>
Home2(r, i, j) == <<r, i, j, NONE>>
DataHome(i, j, k) == <<NONE, i, j, k>>

HomesOf(m, r, A, home) ==
  /\ r \in A /\ home[r] = RootHome(r)
  /\ \A i : In1(m, r, i) =>
       At1(m, r, i) \in A /\ home[At1(m, r, i)] = Home1(r, i)
  /\ \A i, j : In2(m, r, i, j) =>
       At2(m, r, i, j) \in A /\ home[At2(m, r, i, j)] = Home2(r, i, j)
  /\ \A i, j, k : In3(m, r, i, j, k) =>
       At3(m, r, i, j, k) \in A /\ home[At3(m, r, i, j, k)] = DataHome(i, j, k)
Homes(m, R, A, home) == \A r \in R : HomesOf(m, r, A, home)

ReachedFrom(m, r, p) ==
  \/ p = r
  \/ \E i : In1(m, r, i) /\ p = At1(m, r, i)
  \/ \E i, j : In2(m, r, i, j) /\ p = At2(m, r, i, j)
  \/ \E i, j, k : In3(m, r, i, j, k) /\ p = At3(m, r, i, j, k)
Reached(m, R, A) == \A p \in A : \E r \in R : ReachedFrom(m, r, p)

Addressed(m, R) ==
  \A r \in R : \A i, j, k :
    In3(m, r, i, j, k) => <<i, j, k>> \in VirtualAddresses

(* The client sets no permission above the last level.                     *)
Plain(m, R) ==
  \A r \in R :
    /\ \A i : In1(m, r, i) => m[r].pte[i].flags = {"valid"}
    /\ \A i, j : In2(m, r, i, j) => m[At1(m, r, i)].pte[j].flags = {"valid"}

(* Entries that share a page are alike, and none may write.                *)
SharedAlike(m, R) ==
  \A r, s \in R : \A i, j, k :
    /\ r # s
    /\ In3(m, r, i, j, k) /\ In3(m, s, i, j, k)
    /\ At3(m, r, i, j, k) = At3(m, s, i, j, k)
    => /\ FlagsAt(m, r, i, j, k) = FlagsAt(m, s, i, j, k)
       /\ "write" \notin FlagsAt(m, r, i, j, k)

Zeroed(m, A) == \A p \in Pages \ A : m[p] = ZeroPage

Forest(m, R, A) ==
  /\ m \in Memory
  /\ A \subseteq Pages
  /\ \E home : Homes(m, R, A, home)
  /\ Reached(m, R, A)
  /\ Addressed(m, R)
  /\ Plain(m, R)
  /\ SharedAlike(m, R)
  /\ Zeroed(m, A)

-----------------------------------------------------------------------------
(* What a change of memory leaves of a tree                                *)

SameLinks(m, m2, q) ==
  \A i \in Indices : /\ Valid(m2, q, i) <=> Valid(m, q, i)
                     /\ To(m2, q, i) = To(m, q, i)

SameTables(m, m2, r) ==
  /\ \A i : /\ In1(m2, r, i) <=> In1(m, r, i)
            /\ In1(m, r, i) => At1(m2, r, i) = At1(m, r, i)
  /\ \A i, j : /\ In2(m2, r, i, j) <=> In2(m, r, i, j)
               /\ In2(m, r, i, j) => At2(m2, r, i, j) = At2(m, r, i, j)

SameTree(m, m2, r) ==
  /\ SameTables(m, m2, r)
  /\ \A i, j, k : /\ In3(m2, r, i, j, k) <=> In3(m, r, i, j, k)
                  /\ In3(m, r, i, j, k) => At3(m2, r, i, j, k) = At3(m, r, i, j, k)

(* The root and its first level keep their entries.                        *)
UpperKept(m, m2, r) ==
  /\ m2[r].pte = m[r].pte
  /\ \A i : In1(m, r, i) => m2[At1(m, r, i)].pte = m[At1(m, r, i)].pte

LEMMA TablesKept ==
  ASSUME NEW m, NEW m2, NEW r, UpperKept(m, m2, r)
  PROVE  SameTables(m, m2, r)
  <1>1. ASSUME NEW i
        PROVE  /\ In1(m2, r, i) <=> In1(m, r, i)
               /\ At1(m2, r, i) = At1(m, r, i)
    BY DEF UpperKept, In1, At1, Valid, To
  <1>2. ASSUME NEW i, NEW j
        PROVE  /\ In2(m2, r, i, j) <=> In2(m, r, i, j)
               /\ In2(m, r, i, j) => At2(m2, r, i, j) = At2(m, r, i, j)
    <2>1. CASE ~In1(m, r, i)
      BY <1>1, <2>1 DEF In2
    <2>2. CASE In1(m, r, i)
      <3>1. m2[At1(m2, r, i)].pte = m[At1(m, r, i)].pte
        BY <1>1, <2>2 DEF UpperKept
      <3> QED
        BY <1>1, <2>2, <3>1 DEF In2, At2, Valid, To
    <2> QED
      BY <2>1, <2>2
  <1> QED
    BY <1>1, <1>2 DEF SameTables

LEMMA PlainKept ==
  ASSUME NEW m, NEW m2, NEW R, Plain(m, R), \A r \in R : UpperKept(m, m2, r)
  PROVE  Plain(m2, R)
  <1> SUFFICES ASSUME NEW r \in R
               PROVE  /\ \A i : In1(m2, r, i) => m2[r].pte[i].flags = {"valid"}
                      /\ \A i, j : In2(m2, r, i, j) =>
                           m2[At1(m2, r, i)].pte[j].flags = {"valid"}
    BY DEF Plain
  <1>1. SameTables(m, m2, r)
    BY TablesKept
  <1>2. ASSUME NEW i, In1(m2, r, i) PROVE m2[r].pte[i].flags = {"valid"}
    BY <1>1, <1>2 DEF Plain, UpperKept, SameTables
  <1>3. ASSUME NEW i, NEW j, In2(m2, r, i, j)
        PROVE  m2[At1(m2, r, i)].pte[j].flags = {"valid"}
    <2>1. In2(m, r, i, j) /\ In1(m, r, i)
      BY <1>1, <1>3 DEF SameTables, In2
    <2>2. At1(m2, r, i) = At1(m, r, i)
      BY <1>1, <2>1 DEF SameTables
    <2> QED
      BY <2>1, <2>2 DEF Plain, UpperKept
  <1> QED
    BY <1>2, <1>3

LEMMA TreeKept ==
  ASSUME NEW m, NEW m2, NEW r, UpperKept(m, m2, r),
         \A i, j : In2(m, r, i, j) => SameLinks(m, m2, At2(m, r, i, j))
  PROVE  SameTree(m, m2, r)
  <1>1. SameTables(m, m2, r)
    BY TablesKept
  <1>2. ASSUME NEW i, NEW j, NEW k
        PROVE  /\ In3(m2, r, i, j, k) <=> In3(m, r, i, j, k)
               /\ In3(m, r, i, j, k) => At3(m2, r, i, j, k) = At3(m, r, i, j, k)
    BY <1>1 DEF SameTables, SameLinks, In3, At3
  <1> QED
    BY <1>1, <1>2 DEF SameTree

(* Homes of pages tell them apart.                                         *)
LEMMA HomesDiffer ==
  ASSUME NEW R, R \subseteq Pages
  PROVE  /\ \A r \in R, s \in R, i \in Indices : RootHome(r) # Home1(s, i)
         /\ \A r \in R, s \in R, i \in Indices, j \in Indices : RootHome(r) # Home2(s, i, j)
         /\ \A r \in R : \A i, j, k : RootHome(r) # DataHome(i, j, k)
         /\ \A r, i, s, a : Home1(r, i) = Home1(s, a) => r = s /\ i = a
         /\ \A r, i, s, a : \A b \in Indices : Home1(r, i) # Home2(s, a, b)
         /\ \A r \in R : \A i, a, b, c : Home1(r, i) # DataHome(a, b, c)
         /\ \A r, i, j, s, a, b :
              Home2(r, i, j) = Home2(s, a, b) => r = s /\ i = a /\ j = b
         /\ \A r \in R : \A i, j, a, b, c : Home2(r, i, j) # DataHome(a, b, c)
         /\ \A i, j, k, a, b, c :
              DataHome(i, j, k) = DataHome(a, b, c) => i = a /\ j = b /\ k = c
  <1>1. \A x \in Pages \cup Indices : x # NONE
    <2>1. NONE \notin Nat
      BY DEF NONE
    <2> QED
      BY <2>1, PagesFinite
  <1>2. \A r \in R : r # NONE
    BY <1>1
  <1>3. \A r \in R, s \in R, i \in Indices : RootHome(r) # Home1(s, i)
    BY <1>1 DEF RootHome, Home1
  <1>4. \A r \in R, s \in R, i \in Indices, j \in Indices : RootHome(r) # Home2(s, i, j)
    BY <1>1 DEF RootHome, Home2
  <1>5. \A r \in R : \A i, j, k : RootHome(r) # DataHome(i, j, k)
    BY <1>2 DEF RootHome, DataHome
  <1>6. \A r, i, s, a : Home1(r, i) = Home1(s, a) => r = s /\ i = a
    BY DEF Home1
  <1>7. \A r, i, s, a : \A b \in Indices : Home1(r, i) # Home2(s, a, b)
    BY <1>1 DEF Home1, Home2
  <1>8. \A r \in R : \A i, a, b, c : Home1(r, i) # DataHome(a, b, c)
    BY <1>2 DEF Home1, DataHome
  <1>9. \A r, i, j, s, a, b :
          Home2(r, i, j) = Home2(s, a, b) => r = s /\ i = a /\ j = b
    BY DEF Home2
  <1>10. \A r \in R : \A i, j, a, b, c : Home2(r, i, j) # DataHome(a, b, c)
    BY <1>2 DEF Home2, DataHome
  <1>11. \A i, j, k, a, b, c :
           DataHome(i, j, k) = DataHome(a, b, c) => i = a /\ j = b /\ k = c
    BY DEF DataHome
  <1> QED
    BY <1>3, <1>4, <1>5, <1>6, <1>7, <1>8, <1>9, <1>10, <1>11

-----------------------------------------------------------------------------
(* One entry of a last table changes                                       *)

(* The pages that are tables.                                              *)
Tables(A, home) == {p \in A : home[p][1] # NONE}

LeafSet(m, m2, l0, k, e, T) ==
  \A q \in T :
    m2[q].pte = IF q = l0 THEN [m[q].pte EXCEPT ![k] = e] ELSE m[q].pte

LEMMA TablesAre ==
  ASSUME NEW m, NEW R, NEW A, NEW home, Homes(m, R, A, home), R \subseteq Pages
  PROVE  \A r \in R :
           /\ r \in Tables(A, home)
           /\ \A i : In1(m, r, i) => At1(m, r, i) \in Tables(A, home)
           /\ \A i, j : In2(m, r, i, j) => At2(m, r, i, j) \in Tables(A, home)
           /\ \A i, j, k : In3(m, r, i, j, k) =>
                At3(m, r, i, j, k) \in A /\ At3(m, r, i, j, k) \notin Tables(A, home)
  <1> TAKE r \in R
  <1>1. r # NONE /\ HomesOf(m, r, A, home)
    BY PagesFinite DEF NONE, Homes
  <1>2. /\ RootHome(r)[1] # NONE
        /\ \A i : Home1(r, i)[1] # NONE
        /\ \A i, j : Home2(r, i, j)[1] # NONE
        /\ \A i, j, k : DataHome(i, j, k)[1] = NONE
    BY <1>1 DEF RootHome, Home1, Home2, DataHome
  <1> QED
    BY <1>1, <1>2 DEF HomesOf, Tables

(* Only the entry of r for <<i, j, k>> changes, to e.                       *)
OneEntry(m, m2, R, r, i, j, k, e) ==
  /\ In3(m2, r, i, j, k) <=> "valid" \in e.flags
  /\ At3(m2, r, i, j, k) = e.ppn
  /\ FlagsAt(m2, r, i, j, k) = e.flags
  /\ \A s \in R : \A a, b, c :
       ~(s = r /\ a = i /\ b = j /\ c = k) =>
         /\ In3(m2, s, a, b, c) <=> In3(m, s, a, b, c)
         /\ In3(m, s, a, b, c) =>
              /\ At3(m2, s, a, b, c) = At3(m, s, a, b, c)
              /\ FlagsAt(m2, s, a, b, c) = FlagsAt(m, s, a, b, c)

OneLeaf(m, m2, R, r, i, j, k, e) ==
  /\ \A s \in R : UpperKept(m, m2, s)
  /\ OneEntry(m, m2, R, r, i, j, k, e)

LEMMA LeafEffect ==
  ASSUME NEW m \in Memory, NEW m2, NEW R, NEW A, NEW home, Homes(m, R, A, home),
         R \subseteq Pages, A \subseteq Pages,
         NEW r \in R, NEW i, NEW j, In2(m, r, i, j), NEW k \in Indices, NEW e,
         LeafSet(m, m2, At2(m, r, i, j), k, e, Tables(A, home))
  PROVE  OneLeaf(m, m2, R, r, i, j, k, e)
  <1> DEFINE l0 == At2(m, r, i, j)
             T == Tables(A, home)
  <1>1. \A s \in R :
          /\ s \in T
          /\ \A a : In1(m, s, a) => At1(m, s, a) \in T
          /\ \A a, b : In2(m, s, a, b) => At2(m, s, a, b) \in T
    BY TablesAre
  <1>2. /\ \A s \in R : s # l0
        /\ \A s \in R : \A a : In1(m, s, a) => At1(m, s, a) # l0
        /\ \A s \in R : \A a, b : In2(m, s, a, b) /\ At2(m, s, a, b) = l0
                                    => s = r /\ a = i /\ b = j
    <2>1. home[l0] = Home2(r, i, j) /\ i \in Indices /\ j \in Indices
      BY DEF Homes, HomesOf, In2, In1
    <2>2. ASSUME NEW s \in R PROVE s # l0
      BY <2>1, HomesDiffer DEF Homes, HomesOf
    <2>3. ASSUME NEW s \in R, NEW a, In1(m, s, a) PROVE At1(m, s, a) # l0
      <3>1. home[At1(m, s, a)] = Home1(s, a)
        BY <2>3 DEF Homes, HomesOf
      <3> QED
        BY <2>1, <3>1, HomesDiffer
    <2>4. ASSUME NEW s \in R, NEW a, NEW b, In2(m, s, a, b), At2(m, s, a, b) = l0
          PROVE  s = r /\ a = i /\ b = j
      <3>1. home[At2(m, s, a, b)] = Home2(s, a, b)
        BY <2>4 DEF Homes, HomesOf
      <3> QED
        <4>1. Home2(r, i, j) = Home2(s, a, b)
          BY <2>1, <2>4, <3>1
        <4> QED
          BY <4>1 DEF Home2
    <2> QED
      BY <2>2, <2>3, <2>4
  <1>3. \A q \in T : q # l0 => m2[q].pte = m[q].pte
    BY DEF LeafSet
  <1>4. m2[l0].pte = [m[l0].pte EXCEPT ![k] = e] /\ m[l0].pte \in [Indices -> PTE]
    <2>1. l0 \in T /\ l0 \in Pages
      BY <1>1 DEF Tables
    <2> QED
      BY <2>1 DEF LeafSet, Memory
  <1>5. ASSUME NEW s \in R PROVE UpperKept(m, m2, s) /\ SameTables(m, m2, s)
    <2>1. UpperKept(m, m2, s)
      BY <1>1, <1>2, <1>3 DEF UpperKept
    <2> QED
      BY <2>1, TablesKept
  <1> HIDE DEF l0, T
  <1>6. /\ m2[l0].pte[k] = e
        /\ \A c \in Indices : c # k => m2[l0].pte[c] = m[l0].pte[c]
    BY <1>4
  <1>7. In2(m2, r, i, j) /\ At2(m2, r, i, j) = l0
    BY <1>5 DEF SameTables, l0
  <1>8. /\ In3(m2, r, i, j, k) <=> "valid" \in e.flags
        /\ At3(m2, r, i, j, k) = e.ppn
        /\ FlagsAt(m2, r, i, j, k) = e.flags
    BY <1>6, <1>7 DEF In3, At3, To, Valid, FlagsAt
  <1>9. ASSUME NEW s \in R, NEW a, NEW b, NEW c, ~(s = r /\ a = i /\ b = j /\ c = k)
        PROVE  /\ In3(m2, s, a, b, c) <=> In3(m, s, a, b, c)
               /\ In3(m, s, a, b, c) =>
                    /\ At3(m2, s, a, b, c) = At3(m, s, a, b, c)
                    /\ FlagsAt(m2, s, a, b, c) = FlagsAt(m, s, a, b, c)
    <2>1. /\ In2(m2, s, a, b) <=> In2(m, s, a, b)
          /\ In2(m, s, a, b) => At2(m2, s, a, b) = At2(m, s, a, b)
      BY <1>5 DEF SameTables
    <2>2. CASE ~In2(m, s, a, b) \/ c \notin Indices
      BY <2>1, <2>2 DEF In3
    <2>3. CASE In2(m, s, a, b) /\ c \in Indices
      <3>1. m2[At2(m, s, a, b)].pte[c] = m[At2(m, s, a, b)].pte[c]
        <4>1. CASE At2(m, s, a, b) = l0
          BY <1>2, <1>6, <1>9, <2>3, <4>1
        <4>2. CASE At2(m, s, a, b) # l0
          BY <1>1, <1>3, <2>3, <4>2
        <4> QED
          BY <4>1, <4>2
      <3> QED
        BY <2>1, <2>3, <3>1 DEF In3, At3, To, Valid, FlagsAt
    <2> QED
      BY <2>2, <2>3
  <1> QED
    BY <1>5, <1>8, <1>9 DEF OneLeaf, OneEntry


(* Nobody but r maps page p at <<i, j, k>>.                                *)
Alone(m, R, r, i, j, k, p) ==
  \A s \in R : s # r /\ In3(m, s, i, j, k) => At3(m, s, i, j, k) # p

(* An entry is written that leads to a fresh page, or to the one it had.    *)
LEMMA LeafPut ==
  ASSUME NEW m, NEW m2 \in Memory, NEW R, NEW A, Forest(m, R, A), R \subseteq Pages,
         NEW r \in R, NEW i, NEW j, In2(m, r, i, j), NEW k \in Indices,
         NEW e, "valid" \in e.flags, e.ppn \in Pages,
         <<i, j, k>> \in VirtualAddresses,
         OneLeaf(m, m2, R, r, i, j, k, e),
         e.ppn \notin A \/ (In3(m, r, i, j, k) /\ e.ppn = At3(m, r, i, j, k)),
         Alone(m, R, r, i, j, k, e.ppn),
         In3(m, r, i, j, k) /\ e.ppn # At3(m, r, i, j, k) =>
           ~Alone(m, R, r, i, j, k, At3(m, r, i, j, k)),
         Zeroed(m2, A \cup {e.ppn})
  PROVE  Forest(m2, R, A \cup {e.ppn})
  <1> DEFINE A2 == A \cup {e.ppn}
  <1>1. \A s \in R : UpperKept(m, m2, s) /\ SameTables(m, m2, s)
    BY TablesKept DEF OneLeaf, OneEntry
  <1>2. /\ In3(m2, r, i, j, k)
        /\ At3(m2, r, i, j, k) = e.ppn
    BY DEF OneLeaf, OneEntry
  <1>3. \A s \in R : \A a, b, c :
          ~(s = r /\ a = i /\ b = j /\ c = k) =>
            /\ In3(m2, s, a, b, c) <=> In3(m, s, a, b, c)
            /\ In3(m, s, a, b, c) =>
                 /\ At3(m2, s, a, b, c) = At3(m, s, a, b, c)
                 /\ FlagsAt(m2, s, a, b, c) = FlagsAt(m, s, a, b, c)
    BY DEF OneLeaf, OneEntry
  <1>4. \E home : Homes(m2, R, A2, home)
    <2>1. PICK home : Homes(m, R, A, home)
      BY DEF Forest
    <2> DEFINE home2 == [p \in Pages |-> IF p = e.ppn THEN DataHome(i, j, k) ELSE home[p]]
    <2>2. ASSUME NEW p \in A PROVE p \in A2 /\ home2[p] = home[p]
      <3>1. p \in Pages
        BY DEF Forest
      <3>2. CASE p = e.ppn
        <4>1. home[p] = DataHome(i, j, k)
          BY <2>1, <3>2 DEF Homes, HomesOf
        <4> QED
          BY <3>1, <4>1
      <3>3. CASE p # e.ppn
        BY <3>1, <3>3
      <3> QED
        BY <3>2, <3>3
    <2>3. e.ppn \in A2 /\ home2[e.ppn] = DataHome(i, j, k)
      OBVIOUS
    <2> HIDE DEF home2, A2
    <2>4. ASSUME NEW s \in R PROVE HomesOf(m2, s, A2, home2)
      <3>1. s \in A2 /\ home2[s] = RootHome(s)
        BY <2>1, <2>2 DEF Homes, HomesOf
      <3>2. ASSUME NEW a, In1(m2, s, a)
            PROVE  At1(m2, s, a) \in A2 /\ home2[At1(m2, s, a)] = Home1(s, a)
        BY <1>1, <2>1, <2>2, <3>2 DEF Homes, HomesOf, SameTables
      <3>3. ASSUME NEW a, NEW b, In2(m2, s, a, b)
            PROVE  At2(m2, s, a, b) \in A2 /\ home2[At2(m2, s, a, b)] = Home2(s, a, b)
        BY <1>1, <2>1, <2>2, <3>3 DEF Homes, HomesOf, SameTables
      <3>4. ASSUME NEW a, NEW b, NEW c, In3(m2, s, a, b, c)
            PROVE  At3(m2, s, a, b, c) \in A2
                   /\ home2[At3(m2, s, a, b, c)] = DataHome(a, b, c)
        <4>1. CASE s = r /\ a = i /\ b = j /\ c = k
          BY <1>2, <2>3, <4>1
        <4>2. CASE ~(s = r /\ a = i /\ b = j /\ c = k)
          BY <1>3, <2>1, <2>2, <3>4, <4>2 DEF Homes, HomesOf
        <4> QED
          BY <4>1, <4>2
      <3> QED
        BY <3>1, <3>2, <3>3, <3>4 DEF HomesOf
    <2> QED
      BY <2>4 DEF Homes
  <1>5. Reached(m2, R, A2)
    <2> SUFFICES ASSUME NEW p \in A2 PROVE \E s \in R : ReachedFrom(m2, s, p)
      BY DEF Reached
    <2>1. CASE p = e.ppn
      BY <1>2, <2>1 DEF ReachedFrom
    <2>2. CASE p # e.ppn
      <3>1. PICK s \in R : ReachedFrom(m, s, p)
        BY <2>2 DEF Forest, Reached
      <3>2. CASE p = s
        BY <3>2 DEF ReachedFrom
      <3>3. CASE \E a : In1(m, s, a) /\ p = At1(m, s, a)
        BY <1>1, <3>3 DEF ReachedFrom, SameTables
      <3>4. CASE \E a, b : In2(m, s, a, b) /\ p = At2(m, s, a, b)
        BY <1>1, <3>4 DEF ReachedFrom, SameTables
      <3>5. CASE \E a, b, c : In3(m, s, a, b, c) /\ p = At3(m, s, a, b, c)
        <4>1. PICK a, b, c : In3(m, s, a, b, c) /\ p = At3(m, s, a, b, c)
          BY <3>5
        <4>2. CASE ~(s = r /\ a = i /\ b = j /\ c = k)
          BY <1>3, <4>1, <4>2 DEF ReachedFrom
        <4>3. CASE s = r /\ a = i /\ b = j /\ c = k
          <5>1. PICK t \in R : t # r /\ In3(m, t, i, j, k) /\ At3(m, t, i, j, k) = p
            BY <2>2, <4>1, <4>3 DEF Alone
          <5>2. In3(m2, t, i, j, k) /\ At3(m2, t, i, j, k) = p
            BY <1>3, <5>1
          <5> QED
            BY <5>2 DEF ReachedFrom
        <4> QED
          BY <4>2, <4>3
      <3> QED
        BY <3>1, <3>2, <3>3, <3>4, <3>5 DEF ReachedFrom
    <2> QED
      BY <2>1, <2>2
  <1>6. Addressed(m2, R)
    <2> SUFFICES ASSUME NEW s \in R, NEW a, NEW b, NEW c, In3(m2, s, a, b, c)
                 PROVE  <<a, b, c>> \in VirtualAddresses
      BY DEF Addressed
    <2>1. CASE s = r /\ a = i /\ b = j /\ c = k
      BY <2>1
    <2>2. CASE ~(s = r /\ a = i /\ b = j /\ c = k)
      BY <1>3, <2>2 DEF Forest, Addressed
    <2> QED
      BY <2>1, <2>2
  <1>7. Plain(m2, R)
    BY <1>1, PlainKept DEF Forest
  <1>8. SharedAlike(m2, R)
    <2> SUFFICES ASSUME NEW s \in R, NEW t \in R, NEW a, NEW b, NEW c, s # t,
                        In3(m2, s, a, b, c), In3(m2, t, a, b, c),
                        At3(m2, s, a, b, c) = At3(m2, t, a, b, c)
                 PROVE  /\ FlagsAt(m2, s, a, b, c) = FlagsAt(m2, t, a, b, c)
                        /\ "write" \notin FlagsAt(m2, s, a, b, c)
      BY DEF SharedAlike
    <2>1. CASE s = r /\ a = i /\ b = j /\ c = k
      BY <1>2, <1>3, <2>1 DEF Alone
    <2>2. CASE t = r /\ a = i /\ b = j /\ c = k
      BY <1>2, <1>3, <2>2 DEF Alone
    <2>3. CASE ~(s = r /\ a = i /\ b = j /\ c = k) /\ ~(t = r /\ a = i /\ b = j /\ c = k)
      <3>1. /\ In3(m, s, a, b, c) /\ In3(m, t, a, b, c)
            /\ At3(m, s, a, b, c) = At3(m, t, a, b, c)
        BY <1>3, <2>3
      <3>2. /\ FlagsAt(m, s, a, b, c) = FlagsAt(m, t, a, b, c)
            /\ "write" \notin FlagsAt(m, s, a, b, c)
        BY <3>1 DEF Forest, SharedAlike
      <3> QED
        BY <1>3, <2>3, <3>1, <3>2
    <2> QED
      BY <2>1, <2>2, <2>3
  <1>9. A2 \subseteq Pages
    BY DEF Forest
  <1> QED
    BY <1>4, <1>5, <1>6, <1>7, <1>8, <1>9 DEF Forest

(* An entry is cleared that alone led to its page, and the page is free.    *)
LEMMA LeafTaken ==
  ASSUME NEW m, NEW m2 \in Memory, NEW R, NEW A, Forest(m, R, A), R \subseteq Pages,
         NEW r \in R, NEW i, NEW j, NEW k, In3(m, r, i, j, k),
         NEW e, "valid" \notin e.flags,
         OneLeaf(m, m2, R, r, i, j, k, e),
         Alone(m, R, r, i, j, k, At3(m, r, i, j, k)),
         Zeroed(m2, A \ {At3(m, r, i, j, k)})
  PROVE  Forest(m2, R, A \ {At3(m, r, i, j, k)})
  <1> DEFINE old == At3(m, r, i, j, k)
             A2 == A \ {old}
  <1>1. \A s \in R : UpperKept(m, m2, s) /\ SameTables(m, m2, s)
    BY TablesKept DEF OneLeaf, OneEntry
  <1>2. \A s \in R : \A a, b, c :
          In3(m2, s, a, b, c) =>
            /\ ~(s = r /\ a = i /\ b = j /\ c = k)
            /\ In3(m, s, a, b, c)
            /\ At3(m2, s, a, b, c) = At3(m, s, a, b, c)
            /\ FlagsAt(m2, s, a, b, c) = FlagsAt(m, s, a, b, c)
    BY DEF OneLeaf, OneEntry
  <1>3. \A s \in R : \A a, b, c :
          In3(m, s, a, b, c) /\ ~(s = r /\ a = i /\ b = j /\ c = k) =>
            In3(m2, s, a, b, c) /\ At3(m2, s, a, b, c) = At3(m, s, a, b, c)
    BY DEF OneLeaf, OneEntry
  <1>4. PICK home : Homes(m, R, A, home)
    BY DEF Forest
  <1>5. home[old] = DataHome(i, j, k) /\ old \in A
    BY <1>4 DEF Homes, HomesOf
  <1>6. ASSUME NEW s \in R, NEW a, NEW b, NEW c, In3(m, s, a, b, c),
               At3(m, s, a, b, c) = old
        PROVE  s = r /\ a = i /\ b = j /\ c = k
    <2>1. home[At3(m, s, a, b, c)] = DataHome(a, b, c)
      BY <1>4, <1>6 DEF Homes, HomesOf
    <2>2. DataHome(a, b, c) = DataHome(i, j, k)
      BY <1>5, <1>6, <2>1
    <2>3. a = i /\ b = j /\ c = k
      BY <2>2 DEF DataHome
    <2> QED
      BY <1>6, <2>3 DEF Alone
  <1>7. /\ \A s \in R : s # old
        /\ \A s \in R : \A a : In1(m, s, a) => At1(m, s, a) # old
        /\ \A s \in R : \A a, b : In2(m, s, a, b) => At2(m, s, a, b) # old
    BY <1>4, TablesAre
  <1> HIDE DEF old
  <1>8. ASSUME NEW s \in R PROVE HomesOf(m2, s, A2, home)
    <2>1. s \in A2 /\ home[s] = RootHome(s)
      BY <1>4, <1>7 DEF Homes, HomesOf
    <2>2. ASSUME NEW a, In1(m2, s, a)
          PROVE  At1(m2, s, a) \in A2 /\ home[At1(m2, s, a)] = Home1(s, a)
      BY <1>1, <1>4, <1>7, <2>2 DEF Homes, HomesOf, SameTables
    <2>3. ASSUME NEW a, NEW b, In2(m2, s, a, b)
          PROVE  At2(m2, s, a, b) \in A2 /\ home[At2(m2, s, a, b)] = Home2(s, a, b)
      BY <1>1, <1>4, <1>7, <2>3 DEF Homes, HomesOf, SameTables
    <2>4. ASSUME NEW a, NEW b, NEW c, In3(m2, s, a, b, c)
          PROVE  At3(m2, s, a, b, c) \in A2
                 /\ home[At3(m2, s, a, b, c)] = DataHome(a, b, c)
      BY <1>2, <1>4, <1>6, <2>4 DEF Homes, HomesOf
    <2> QED
      BY <2>1, <2>2, <2>3, <2>4 DEF HomesOf
  <1>9. Reached(m2, R, A2)
    <2> SUFFICES ASSUME NEW p \in A, p # old PROVE \E s \in R : ReachedFrom(m2, s, p)
      BY DEF Reached
    <2>1. PICK s \in R : ReachedFrom(m, s, p)
      BY DEF Forest, Reached
    <2>2. CASE p = s
      BY <2>2 DEF ReachedFrom
    <2>3. CASE \E a : In1(m, s, a) /\ p = At1(m, s, a)
      BY <1>1, <2>3 DEF ReachedFrom, SameTables
    <2>4. CASE \E a, b : In2(m, s, a, b) /\ p = At2(m, s, a, b)
      BY <1>1, <2>4 DEF ReachedFrom, SameTables
    <2>5. CASE \E a, b, c : In3(m, s, a, b, c) /\ p = At3(m, s, a, b, c)
      BY <1>3, <2>5 DEF ReachedFrom, old
    <2> QED
      BY <2>1, <2>2, <2>3, <2>4, <2>5 DEF ReachedFrom
  <1>10. Addressed(m2, R)
    BY <1>2 DEF Forest, Addressed
  <1>11. Plain(m2, R)
    BY <1>1, PlainKept DEF Forest
  <1>12. SharedAlike(m2, R)
    BY <1>2 DEF Forest, SharedAlike
  <1>13. \E h : Homes(m2, R, A2, h)
    BY <1>8 DEF Homes
  <1> QED
    BY <1>9, <1>10, <1>11, <1>12, <1>13 DEF Forest, old

-----------------------------------------------------------------------------
(* Tables are added                                                        *)

SetPte(m, q, i, e) == [m EXCEPT ![q].pte[i] = e]

(* Only entry i of page q differs, and is e.                               *)
PteIs(m, m2, q, i, e) ==
  /\ m2 \in Memory
  /\ \A o \in Pages : o # q => m2[o] = m[o]
  /\ \A o \in Pages : m2[o].ints = m[o].ints
  /\ m2[q].pte = [m[q].pte EXCEPT ![i] = e]
  /\ m2[q].pte[i] = e
  /\ \A a \in Indices : a # i => m2[q].pte[a] = m[q].pte[a]

LEMMA PteSet ==
  ASSUME NEW m \in Memory, NEW q \in Pages, NEW i \in Indices, NEW e \in PTE
  PROVE  PteIs(m, SetPte(m, q, i, e), q, i, e)
  <1> DEFINE m2 == SetPte(m, q, i, e)
  <1>1. /\ m \in [Pages -> [pte : [Indices -> PTE], ints : [Offsets -> Int]]]
        /\ m[q] \in [pte : [Indices -> PTE], ints : [Offsets -> Int]]
        /\ m[q].pte \in [Indices -> PTE]
    BY DEF Memory
  <1>2. m2 = [m EXCEPT ![q] = [m[q] EXCEPT !.pte = [m[q].pte EXCEPT ![i] = e]]]
    BY <1>1 DEF SetPte
  <1> DEFINE t == [m[q].pte EXCEPT ![i] = e]
             x == [m[q] EXCEPT !.pte = t]
  <1>3. /\ t \in [Indices -> PTE] /\ t[i] = e
        /\ \A a \in Indices : a # i => t[a] = m[q].pte[a]
    BY <1>1
  <1> HIDE DEF t
  <1>4. /\ x \in [pte : [Indices -> PTE], ints : [Offsets -> Int]]
        /\ x.pte = t /\ x.ints = m[q].ints
    BY <1>1, <1>3
  <1>5. m2 = [m EXCEPT ![q] = x]
    BY <1>2 DEF t
  <1> HIDE DEF x
  <1>6. m2[q] = x /\ \A o \in Pages : o # q => m2[o] = m[o]
    BY <1>1, <1>5
  <1>7. m2 \in Memory
    BY <1>1, <1>4, <1>5 DEF Memory
  <1>8. m2[q].pte = [m[q].pte EXCEPT ![i] = e]
    BY <1>4, <1>6 DEF t
  <1> QED
    BY <1>3, <1>4, <1>6, <1>7, <1>8 DEF PteIs

LEMMA ZeroPageIs ==
  ASSUME NEW m, NEW p, m[p] = ZeroPage
  PROVE  /\ \A i \in Indices : ~Valid(m, p, i)
         /\ \A i : ~In1(m, p, i)
  <1>1. \A i \in Indices : "valid" \notin m[p].pte[i].flags
    BY DEF ZeroPage, ZeroPTE
  <1> QED
    BY <1>1 DEF Valid, In1

(* A table comes into the trees, with home h and page p.                   *)
Grown(m, m2, R, p, h) ==
  /\ \A s \in R : \A a :
       /\ In1(m, s, a) => In1(m2, s, a) /\ At1(m2, s, a) = At1(m, s, a)
       /\ In1(m2, s, a) => In1(m, s, a) \/ (At1(m2, s, a) = p /\ Home1(s, a) = h)
  /\ \A s \in R : \A a, b :
       /\ In2(m, s, a, b) => In2(m2, s, a, b) /\ At2(m2, s, a, b) = At2(m, s, a, b)
       /\ In2(m2, s, a, b) =>
            In2(m, s, a, b) \/ (At2(m2, s, a, b) = p /\ Home2(s, a, b) = h)
  /\ \A s \in R : \A a, b, c :
       /\ In3(m2, s, a, b, c) <=> In3(m, s, a, b, c)
       /\ In3(m, s, a, b, c) =>
            /\ At3(m2, s, a, b, c) = At3(m, s, a, b, c)
            /\ FlagsAt(m2, s, a, b, c) = FlagsAt(m, s, a, b, c)

LEMMA ForestGrown ==
  ASSUME NEW m, NEW m2 \in Memory, NEW R, NEW A, Forest(m, R, A), NEW p \in Pages \ A, NEW h,
         Grown(m, m2, R, p, h), Plain(m2, R), \E s \in R : ReachedFrom(m2, s, p),
         \A q \in Pages \ A : m2[q] = m[q]
  PROVE  Forest(m2, R, A \cup {p})
  <1>1. PICK home : Homes(m, R, A, home)
    BY DEF Forest
  <1> DEFINE home2 == [q \in Pages |-> IF q = p THEN h ELSE home[q]]
             A2 == A \cup {p}
  <1>2. \A q \in A : q \in A2 /\ home2[q] = home[q]
    BY DEF Forest
  <1>3. p \in A2 /\ home2[p] = h
    OBVIOUS
  <1>4. A2 \subseteq Pages
    BY DEF Forest
  <1> HIDE DEF home2, A2
  <1>5. ASSUME NEW s \in R PROVE HomesOf(m2, s, A2, home2)
    <2>1. HomesOf(m, s, A, home)
      BY <1>1 DEF Homes
    <2>2. s \in A2 /\ home2[s] = RootHome(s)
      BY <1>2, <2>1 DEF HomesOf
    <2>3. ASSUME NEW a, In1(m2, s, a)
          PROVE  At1(m2, s, a) \in A2 /\ home2[At1(m2, s, a)] = Home1(s, a)
      BY <1>2, <1>3, <2>1, <2>3 DEF HomesOf, Grown
    <2>4. ASSUME NEW a, NEW b, In2(m2, s, a, b)
          PROVE  At2(m2, s, a, b) \in A2 /\ home2[At2(m2, s, a, b)] = Home2(s, a, b)
      BY <1>2, <1>3, <2>1, <2>4 DEF HomesOf, Grown
    <2>5. ASSUME NEW a, NEW b, NEW c, In3(m2, s, a, b, c)
          PROVE  At3(m2, s, a, b, c) \in A2
                 /\ home2[At3(m2, s, a, b, c)] = DataHome(a, b, c)
      BY <1>2, <2>1, <2>5 DEF HomesOf, Grown
    <2> QED
      BY <2>2, <2>3, <2>4, <2>5 DEF HomesOf
  <1>6. Reached(m2, R, A2)
    <2> SUFFICES ASSUME NEW q \in A PROVE \E s \in R : ReachedFrom(m2, s, q)
      BY DEF Reached, A2
    <2>1. PICK s \in R : ReachedFrom(m, s, q)
      BY DEF Forest, Reached
    <2>2. CASE q = s
      BY <2>2 DEF ReachedFrom
    <2>3. CASE \E a : In1(m, s, a) /\ q = At1(m, s, a)
      BY <2>3 DEF ReachedFrom, Grown
    <2>4. CASE \E a, b : In2(m, s, a, b) /\ q = At2(m, s, a, b)
      BY <2>4 DEF ReachedFrom, Grown
    <2>5. CASE \E a, b, c : In3(m, s, a, b, c) /\ q = At3(m, s, a, b, c)
      BY <2>5 DEF ReachedFrom, Grown
    <2> QED
      BY <2>1, <2>2, <2>3, <2>4, <2>5 DEF ReachedFrom
  <1>7. Addressed(m2, R)
    BY DEF Forest, Addressed, Grown
  <1>8. SharedAlike(m2, R)
    BY DEF Forest, SharedAlike, Grown
  <1>9. Zeroed(m2, A2)
    BY DEF Forest, Zeroed, A2
  <1>10. \E g : Homes(m2, R, A2, g)
    BY <1>5 DEF Homes
  <1> QED
    BY <1>4, <1>6, <1>7, <1>8, <1>9, <1>10 DEF Forest, A2

(* client_new_root: a free page is a root without entries.                 *)
LEMMA RootAdded ==
  ASSUME NEW m, NEW R, NEW A, Forest(m, R, A), NEW p \in Pages \ A
  PROVE  Forest(m, R \cup {p}, A \cup {p}) /\ \A i, j, k : ~In3(m, p, i, j, k)
  <1>1. PICK home : Homes(m, R, A, home)
    BY DEF Forest
  <1> DEFINE home2 == [q \in Pages |-> IF q = p THEN RootHome(p) ELSE home[q]]
             A2 == A \cup {p}
             R2 == R \cup {p}
  <1>2. \A q \in A : q \in A2 /\ home2[q] = home[q]
    BY DEF Forest
  <1>3. p \in A2 /\ home2[p] = RootHome(p)
    OBVIOUS
  <1>4. /\ \A i : ~In1(m, p, i)
        /\ \A i, j : ~In2(m, p, i, j)
        /\ \A i, j, k : ~In3(m, p, i, j, k)
    BY ZeroPageIs DEF Forest, Zeroed, In2, In3
  <1>5. A2 \subseteq Pages
    BY DEF Forest
  <1> HIDE DEF home2, A2
  <1>6. ASSUME NEW s \in R2 PROVE HomesOf(m, s, A2, home2)
    <2>1. CASE s = p
      BY <1>3, <1>4, <2>1 DEF HomesOf
    <2>2. CASE s # p
      BY <1>1, <1>2, <2>2 DEF Homes, HomesOf
    <2> QED
      BY <2>1, <2>2
  <1>7. Reached(m, R2, A2)
    <2>1. \A q \in A : \E s \in R : ReachedFrom(m, s, q)
      BY DEF Forest, Reached
    <2>2. ReachedFrom(m, p, p)
      BY DEF ReachedFrom
    <2> QED
      BY <2>1, <2>2 DEF Reached, A2
  <1>8. Addressed(m, R2) /\ SharedAlike(m, R2)
    BY <1>4 DEF Forest, Addressed, SharedAlike
  <1>9. Plain(m, R2)
    BY <1>4 DEF Forest, Plain
  <1>10. Zeroed(m, A2)
    BY DEF Forest, Zeroed, A2
  <1>11. \E g : Homes(m, R2, A2, g)
    BY <1>6 DEF Homes
  <1> QED
    BY <1>4, <1>5, <1>7, <1>8, <1>9, <1>10, <1>11 DEF Forest, A2

TableEntry(p) == [flags |-> {"valid"}, ppn |-> p]

LEMMA TableEntryIs ==
  ASSUME NEW p \in Pages
  PROVE  TableEntry(p) \in PTE /\ TableEntry(p).flags = {"valid"} /\ TableEntry(p).ppn = p
  BY DEF TableEntry, PTE, Flags

(* A first-level table is a free page, and a second-level one.             *)
LEMMA Table1Added ==
  ASSUME NEW m, NEW m2, NEW R, NEW A, Forest(m, R, A), NEW p \in Pages \ A,
         NEW r \in R, NEW i \in Indices, ~In1(m, r, i),
         m2 = SetPte(m, r, i, TableEntry(p))
  PROVE  /\ Forest(m2, R, A \cup {p})
         /\ Grown(m, m2, R, p, Home1(r, i))
         /\ In1(m2, r, i)
         /\ \A j : ~In2(m2, r, i, j)
  <1>1. PICK home : Homes(m, R, A, home)
    BY DEF Forest
  <1>2. \A s \in R : s \in Pages /\ s \in A
    BY <1>1 DEF Forest, Homes, HomesOf
  <1>3. /\ m2 \in Memory
        /\ \A o \in Pages : o # r => m2[o] = m[o]
        /\ m2[r].pte[i] = TableEntry(p)
        /\ \A a \in Indices : a # i => m2[r].pte[a] = m[r].pte[a]
    <2>1. m \in Memory /\ r \in Pages /\ TableEntry(p) \in PTE
      BY <1>2, TableEntryIs DEF Forest
    <2>2. PteIs(m, m2, r, i, TableEntry(p))
      BY <2>1, PteSet
    <2> QED
      BY <2>2 DEF PteIs
  <1>4. /\ \A s \in R : \A a : In1(m, s, a) => At1(m, s, a) # r /\ At1(m, s, a) \in Pages
        /\ \A s \in R : \A a, b : In2(m, s, a, b) =>
             At2(m, s, a, b) # r /\ At2(m, s, a, b) \in Pages
    <2>1. R \subseteq Pages /\ home[r] = RootHome(r)
      BY <1>1, <1>2 DEF Homes, HomesOf
    <2>2. ASSUME NEW s \in R, NEW a, In1(m, s, a)
          PROVE  At1(m, s, a) # r /\ At1(m, s, a) \in Pages
      <3>1. At1(m, s, a) \in A /\ home[At1(m, s, a)] = Home1(s, a) /\ a \in Indices
        BY <1>1, <2>2 DEF Homes, HomesOf, In1
      <3> QED
        BY <2>1, <3>1, HomesDiffer DEF Forest
    <2>3. ASSUME NEW s \in R, NEW a, NEW b, In2(m, s, a, b)
          PROVE  At2(m, s, a, b) # r /\ At2(m, s, a, b) \in Pages
      <3>1. At2(m, s, a, b) \in A /\ home[At2(m, s, a, b)] = Home2(s, a, b)
        BY <1>1, <2>3 DEF Homes, HomesOf
      <3>2. a \in Indices /\ b \in Indices
        BY <2>3 DEF In1, In2
      <3> QED
        BY <2>1, <3>1, <3>2, HomesDiffer DEF Forest
    <2> QED
      BY <2>2, <2>3
  <1>5. p # r /\ p \in Pages /\ m2[p] = ZeroPage
    BY <1>2, <1>3 DEF Forest, Zeroed
  <1>6. In1(m2, r, i) /\ At1(m2, r, i) = p
    BY <1>3, TableEntryIs DEF In1, At1, Valid, To
  <1>7. ASSUME NEW s \in R, NEW a, ~(s = r /\ a = i)
        PROVE  /\ In1(m2, s, a) <=> In1(m, s, a)
               /\ In1(m, s, a) => At1(m2, s, a) = At1(m, s, a)
    BY <1>2, <1>3, <1>7 DEF In1, At1, Valid, To
  <1>8. ASSUME NEW j PROVE ~In2(m2, r, i, j)
    BY <1>5, <1>6, ZeroPageIs DEF In2
  <1>9. ASSUME NEW s \in R, NEW a, NEW b
        PROVE  /\ In2(m2, s, a, b) <=> In2(m, s, a, b)
               /\ In2(m, s, a, b) => At2(m2, s, a, b) = At2(m, s, a, b)
    <2>1. CASE s = r /\ a = i
      BY <1>8, <2>1 DEF In2
    <2>2. CASE ~(s = r /\ a = i) /\ ~In1(m, s, a)
      BY <1>7, <2>2 DEF In2
    <2>3. CASE ~(s = r /\ a = i) /\ In1(m, s, a)
      <3>1. m2[At1(m, s, a)] = m[At1(m, s, a)] /\ At1(m2, s, a) = At1(m, s, a)
        BY <1>3, <1>4, <1>7, <2>3
      <3> QED
        BY <1>7, <2>3, <3>1 DEF In2, At2, Valid, To
    <2> QED
      BY <2>1, <2>2, <2>3
  <1>10. ASSUME NEW s \in R, NEW a, NEW b, NEW c
         PROVE  /\ In3(m2, s, a, b, c) <=> In3(m, s, a, b, c)
                /\ In3(m, s, a, b, c) =>
                     /\ At3(m2, s, a, b, c) = At3(m, s, a, b, c)
                     /\ FlagsAt(m2, s, a, b, c) = FlagsAt(m, s, a, b, c)
    <2>1. CASE ~In2(m, s, a, b)
      BY <1>9, <2>1 DEF In3
    <2>2. CASE In2(m, s, a, b)
      <3>1. m2[At2(m, s, a, b)] = m[At2(m, s, a, b)]
        BY <1>3, <1>4, <2>2
      <3>2. In2(m2, s, a, b) /\ At2(m2, s, a, b) = At2(m, s, a, b)
        BY <1>9, <2>2
      <3> QED
        BY <2>2, <3>1, <3>2 DEF In3, At3, To, FlagsAt, Valid
    <2> QED
      BY <2>1, <2>2
  <1>11. Grown(m, m2, R, p, Home1(r, i))
    BY <1>6, <1>7, <1>9, <1>10 DEF Grown
  <1>12. Plain(m2, R)
    <2> SUFFICES ASSUME NEW s \in R
                 PROVE  /\ \A a : In1(m2, s, a) => m2[s].pte[a].flags = {"valid"}
                        /\ \A a, b : In2(m2, s, a, b) =>
                             m2[At1(m2, s, a)].pte[b].flags = {"valid"}
      BY DEF Plain
    <2>1. ASSUME NEW a, In1(m2, s, a) PROVE m2[s].pte[a].flags = {"valid"}
      <3>1. CASE s = r /\ a = i
        BY <1>3, <3>1, TableEntryIs
      <3>2. CASE ~(s = r /\ a = i)
        <4>1. In1(m, s, a) /\ a \in Indices
          BY <1>7, <2>1, <3>2 DEF In1
        <4>2. m[s].pte[a].flags = {"valid"}
          BY <4>1 DEF Forest, Plain
        <4>3. m2[s].pte[a] = m[s].pte[a]
          BY <1>2, <1>3, <3>2, <4>1
        <4> QED
          BY <4>2, <4>3
      <3> QED
        BY <3>1, <3>2
    <2>2. ASSUME NEW a, NEW b, In2(m2, s, a, b)
          PROVE  m2[At1(m2, s, a)].pte[b].flags = {"valid"}
      <3>1. In2(m, s, a, b) /\ In1(m, s, a) /\ ~(s = r /\ a = i)
        BY <1>8, <1>9, <2>2 DEF In2
      <3>2. m2[At1(m2, s, a)] = m[At1(m, s, a)]
        BY <1>3, <1>4, <1>7, <3>1
      <3>3. m[At1(m, s, a)].pte[b].flags = {"valid"}
        BY <3>1 DEF Forest, Plain
      <3> QED
        BY <3>2, <3>3
    <2> QED
      BY <2>1, <2>2
  <1>13. ReachedFrom(m2, r, p)
    BY <1>6 DEF ReachedFrom
  <1>14. \A q \in Pages \ A : m2[q] = m[q]
    BY <1>2, <1>3
  <1>15. Forest(m2, R, A \cup {p})
    BY <1>3, <1>11, <1>12, <1>13, <1>14, ForestGrown
  <1> QED
    BY <1>6, <1>8, <1>11, <1>15

LEMMA Table2Added ==
  ASSUME NEW m, NEW m2, NEW R, NEW A, Forest(m, R, A), NEW p \in Pages \ A,
         NEW r \in R, NEW i, In1(m, r, i), NEW j \in Indices, ~In2(m, r, i, j),
         m2 = SetPte(m, At1(m, r, i), j, TableEntry(p))
  PROVE  /\ Forest(m2, R, A \cup {p})
         /\ Grown(m, m2, R, p, Home2(r, i, j))
         /\ In2(m2, r, i, j)
  <1> DEFINE l1 == At1(m, r, i)
  <1>1. PICK home : Homes(m, R, A, home)
    BY DEF Forest
  <1>2. \A s \in R : s \in Pages /\ s \in A
    BY <1>1 DEF Forest, Homes, HomesOf
  <1>3. /\ l1 \in A /\ l1 \in Pages /\ home[l1] = Home1(r, i) /\ i \in Indices
    BY <1>1 DEF Forest, Homes, HomesOf, In1
  <1>4. /\ m2 \in Memory
        /\ \A o \in Pages : o # l1 => m2[o] = m[o]
        /\ m2[l1].pte[j] = TableEntry(p)
        /\ \A a \in Indices : a # j => m2[l1].pte[a] = m[l1].pte[a]
    <2>1. m \in Memory /\ l1 \in Pages /\ TableEntry(p) \in PTE
      BY <1>3, TableEntryIs DEF Forest
    <2>2. PteIs(m, m2, l1, j, TableEntry(p))
      BY <2>1, PteSet
    <2> QED
      BY <2>2 DEF PteIs
  <1>5. /\ \A s \in R : s # l1
        /\ \A s \in R : \A a : In1(m, s, a) => /\ At1(m, s, a) \in Pages
                                               /\ At1(m, s, a) = l1 => s = r /\ a = i
        /\ \A s \in R : \A a, b : In2(m, s, a, b) =>
             At2(m, s, a, b) # l1 /\ At2(m, s, a, b) \in Pages
    <2>1. R \subseteq Pages
      BY <1>2
    <2>2. ASSUME NEW s \in R PROVE s # l1
      <3>1. home[s] = RootHome(s)
        BY <1>1 DEF Homes, HomesOf
      <3> QED
        BY <1>3, <2>1, <3>1, HomesDiffer
    <2>3. ASSUME NEW s \in R, NEW a, In1(m, s, a)
          PROVE  /\ At1(m, s, a) \in Pages
                 /\ At1(m, s, a) = l1 => s = r /\ a = i
      <3>1. At1(m, s, a) \in A /\ home[At1(m, s, a)] = Home1(s, a)
        BY <1>1, <2>3 DEF Homes, HomesOf
      <3>2. At1(m, s, a) = l1 => Home1(s, a) = Home1(r, i)
        BY <1>3, <3>1
      <3> QED
        BY <3>1, <3>2 DEF Forest, Home1
    <2>4. ASSUME NEW s \in R, NEW a, NEW b, In2(m, s, a, b)
          PROVE  At2(m, s, a, b) # l1 /\ At2(m, s, a, b) \in Pages
      <3>1. At2(m, s, a, b) \in A /\ home[At2(m, s, a, b)] = Home2(s, a, b)
        BY <1>1, <2>4 DEF Homes, HomesOf
      <3>2. a \in Indices /\ b \in Indices
        BY <2>4 DEF In1, In2
      <3> QED
        BY <1>3, <2>1, <3>1, <3>2, HomesDiffer DEF Forest
    <2> QED
      BY <2>2, <2>3, <2>4
  <1>6. p # l1 /\ p \in Pages /\ m2[p] = ZeroPage
    BY <1>3, <1>4 DEF Forest, Zeroed
  <1>7. ASSUME NEW s \in R, NEW a
        PROVE  /\ In1(m2, s, a) <=> In1(m, s, a)
               /\ At1(m2, s, a) = At1(m, s, a)
    BY <1>2, <1>4, <1>5 DEF In1, At1, Valid, To
  <1>8. In2(m2, r, i, j) /\ At2(m2, r, i, j) = p
    BY <1>4, <1>7, TableEntryIs DEF In2, At2, Valid, To
  <1>9. ASSUME NEW s \in R, NEW a, NEW b, ~(s = r /\ a = i /\ b = j)
        PROVE  /\ In2(m2, s, a, b) <=> In2(m, s, a, b)
               /\ In2(m, s, a, b) => At2(m2, s, a, b) = At2(m, s, a, b)
    <2>1. CASE ~In1(m, s, a) \/ b \notin Indices
      BY <1>7, <2>1 DEF In2
    <2>2. CASE In1(m, s, a) /\ b \in Indices
      <3>1. m2[At1(m, s, a)].pte[b] = m[At1(m, s, a)].pte[b]
        <4>1. CASE At1(m, s, a) = l1
          BY <1>4, <1>5, <1>9, <2>2, <4>1
        <4>2. CASE At1(m, s, a) # l1
          BY <1>4, <1>5, <2>2, <4>2
        <4> QED
          BY <4>1, <4>2
      <3> QED
        BY <1>7, <2>2, <3>1 DEF In2, At2, Valid, To
    <2> QED
      BY <2>1, <2>2
  <1>10. ASSUME NEW k PROVE ~In3(m2, r, i, j, k)
    BY <1>6, <1>8, ZeroPageIs DEF In3
  <1>11. ASSUME NEW s \in R, NEW a, NEW b, NEW c
         PROVE  /\ In3(m2, s, a, b, c) <=> In3(m, s, a, b, c)
                /\ In3(m, s, a, b, c) =>
                     /\ At3(m2, s, a, b, c) = At3(m, s, a, b, c)
                     /\ FlagsAt(m2, s, a, b, c) = FlagsAt(m, s, a, b, c)
    <2>1. CASE s = r /\ a = i /\ b = j
      BY <1>10, <2>1 DEF In3
    <2>2. CASE ~(s = r /\ a = i /\ b = j) /\ ~In2(m, s, a, b)
      BY <1>9, <2>2 DEF In3
    <2>3. CASE ~(s = r /\ a = i /\ b = j) /\ In2(m, s, a, b)
      <3>1. m2[At2(m, s, a, b)] = m[At2(m, s, a, b)]
        BY <1>4, <1>5, <2>3
      <3>2. In2(m2, s, a, b) /\ At2(m2, s, a, b) = At2(m, s, a, b)
        BY <1>9, <2>3
      <3> QED
        BY <2>3, <3>1, <3>2 DEF In3, At3, To, FlagsAt, Valid
    <2> QED
      BY <2>1, <2>2, <2>3
  <1>12. Grown(m, m2, R, p, Home2(r, i, j))
    BY <1>7, <1>8, <1>9, <1>11 DEF Grown
  <1>13. Plain(m2, R)
    <2> SUFFICES ASSUME NEW s \in R
                 PROVE  /\ \A a : In1(m2, s, a) => m2[s].pte[a].flags = {"valid"}
                        /\ \A a, b : In2(m2, s, a, b) =>
                             m2[At1(m2, s, a)].pte[b].flags = {"valid"}
      BY DEF Plain
    <2>1. ASSUME NEW a, In1(m2, s, a) PROVE m2[s].pte[a].flags = {"valid"}
      BY <1>2, <1>4, <1>5, <1>7, <2>1 DEF Forest, Plain
    <2>2. ASSUME NEW a, NEW b, In2(m2, s, a, b)
          PROVE  m2[At1(m2, s, a)].pte[b].flags = {"valid"}
      <3>1. In1(m, s, a) /\ b \in Indices /\ At1(m2, s, a) = At1(m, s, a)
        BY <1>7, <2>2 DEF In2
      <3>2. CASE s = r /\ a = i /\ b = j
        BY <1>4, <3>1, <3>2, TableEntryIs
      <3>3. CASE ~(s = r /\ a = i /\ b = j)
        <4>1. m2[At1(m, s, a)].pte[b] = m[At1(m, s, a)].pte[b]
          <5>1. CASE At1(m, s, a) = l1
            BY <1>4, <1>5, <3>1, <3>3, <5>1
          <5>2. CASE At1(m, s, a) # l1
            BY <1>4, <1>5, <3>1, <5>2
          <5> QED
            BY <5>1, <5>2
        <4>2. In2(m, s, a, b)
          BY <1>9, <2>2, <3>3
        <4>3. m[At1(m, s, a)].pte[b].flags = {"valid"}
          BY <4>2 DEF Forest, Plain
        <4> QED
          BY <3>1, <4>1, <4>3
      <3> QED
        BY <3>2, <3>3
    <2> QED
      BY <2>1, <2>2
  <1>14. ReachedFrom(m2, r, p)
    BY <1>8 DEF ReachedFrom
  <1>15. \A q \in Pages \ A : m2[q] = m[q]
    BY <1>3, <1>4
  <1>16. Forest(m2, R, A \cup {p})
    BY <1>4, <1>12, <1>13, <1>14, <1>15, ForestGrown
  <1> QED
    BY <1>8, <1>10, <1>12, <1>16

(* An entry is written that leads to a fresh page.                         *)
LEMMA LeafAdded ==
  ASSUME NEW m, NEW m2, NEW R, NEW A, Forest(m, R, A), NEW r \in R,
         NEW i, NEW j, In2(m, r, i, j), NEW k \in Indices, ~In3(m, r, i, j, k),
         <<i, j, k>> \in VirtualAddresses,
         NEW e \in PTE, "valid" \in e.flags, e.ppn \notin A,
         m2 = SetPte(m, At2(m, r, i, j), k, e)
  PROVE  /\ Forest(m2, R, A \cup {e.ppn})
         /\ OneLeaf(m, m2, R, r, i, j, k, e)
         /\ \A q \in Pages : m2[q].ints = m[q].ints
  <1> DEFINE l0 == At2(m, r, i, j)
  <1>1. PICK home : Homes(m, R, A, home)
    BY DEF Forest
  <1>2. R \subseteq Pages /\ A \subseteq Pages /\ m \in Memory
    BY <1>1 DEF Forest, Homes, HomesOf
  <1>3. l0 \in A /\ l0 \in Pages
    BY <1>1, <1>2 DEF Homes, HomesOf
  <1>4. PteIs(m, m2, l0, k, e)
    BY <1>2, <1>3, PteSet
  <1>5. LeafSet(m, m2, l0, k, e, Tables(A, home))
    BY <1>2, <1>4 DEF PteIs, LeafSet, Tables
  <1>6. OneLeaf(m, m2, R, r, i, j, k, e)
    BY <1>1, <1>2, <1>5, LeafEffect
  <1>7. e.ppn \in Pages
    BY DEF PTE
  <1>8. Alone(m, R, r, i, j, k, e.ppn)
    BY <1>1 DEF Alone, Homes, HomesOf
  <1>9. Zeroed(m2, A \cup {e.ppn})
    BY <1>3, <1>4 DEF Zeroed, PteIs, Forest
  <1>10. m2 \in Memory
    BY <1>4 DEF PteIs
  <1>11. Forest(m2, R, A \cup {e.ppn})
    BY <1>2, <1>6, <1>7, <1>8, <1>9, <1>10, LeafPut
  <1> QED
    BY <1>4, <1>6, <1>11 DEF PteIs

-----------------------------------------------------------------------------
(* client_map                                                              *)

LEMMA PrefixesAre ==
  ASSUME NEW a \in Indices, NEW b \in Indices, NEW c \in Indices
  PROVE  /\ SubSeq(<<a, b, c>>, 1, 1) = <<a>>
         /\ SubSeq(<<a, b, c>>, 1, 2) = <<a, b>>
         /\ SubSeq(<<a, b, c>>, 1, 3) = <<a, b, c>>
         /\ \A n \in 1..3 : Len(SubSeq(<<a, b, c>>, 1, n)) = n
  <1> DEFINE s == <<a, b, c>>
  <1>1. s \in Seq(Nat) /\ Len(s) = 3 /\ s[1] = a /\ s[2] = b /\ s[3] = c
    BY PagesFinite
  <1> HIDE DEF s
  <1>2. ASSUME NEW n \in 1..3
        PROVE  /\ SubSeq(s, 1, n) \in Seq(Nat) /\ Len(SubSeq(s, 1, n)) = n
               /\ \A i \in 1..n : SubSeq(s, 1, n)[i] = s[i]
    <2>1. n \in Int /\ 1 <= n /\ n <= Len(s) /\ \A i \in 1..n : s[i] \in Nat
      <3>1. n \in {1, 2, 3} /\ \A i \in 1..3 : s[i] \in Nat
        <4>1. \A i \in 1..3 : i = 1 \/ i = 2 \/ i = 3
          OBVIOUS
        <4>2. a \in Nat /\ b \in Nat /\ c \in Nat
          BY PagesFinite
        <4> QED
          BY <1>1, <4>1, <4>2
      <3>2. \A i \in 1..n : i \in 1..3
        BY <3>1
      <3> QED
        BY <1>1, <3>1, <3>2
    <2>2. \A i \in 1..n : SubSeq(s, 1, n)[i] = s[i]
      BY <1>1, <2>1
    <2>3. SubSeq(s, 1, n) \in Seq(Nat) /\ Len(SubSeq(s, 1, n)) = n
      BY <1>1, <2>1
    <2> QED
      BY <2>2, <2>3
  <1>3. SubSeq(s, 1, 1) = <<a>>
    <2>1. <<a>> \in Seq(Nat) /\ Len(<<a>>) = 1 /\ <<a>>[1] = a
      BY PagesFinite
    <2>2. /\ SubSeq(s, 1, 1) \in Seq(Nat) /\ Len(SubSeq(s, 1, 1)) = 1
          /\ \A i \in 1..1 : SubSeq(s, 1, 1)[i] = <<a>>[i]
      BY <1>1, <1>2, <2>1
    <2> QED
      BY <2>1, <2>2, SeqEqual
  <1>4. SubSeq(s, 1, 2) = <<a, b>>
    <2>1. /\ <<a, b>> \in Seq(Nat) /\ Len(<<a, b>>) = 2
          /\ <<a, b>>[1] = a /\ <<a, b>>[2] = b
      BY PagesFinite
    <2>2. /\ SubSeq(s, 1, 2) \in Seq(Nat) /\ Len(SubSeq(s, 1, 2)) = 2
          /\ \A i \in 1..2 : SubSeq(s, 1, 2)[i] = <<a, b>>[i]
      BY <1>1, <1>2, <2>1
    <2> QED
      BY <2>1, <2>2, SeqEqual
  <1>5. SubSeq(s, 1, 3) = s
    <2>1. /\ SubSeq(s, 1, 3) \in Seq(Nat) /\ Len(SubSeq(s, 1, 3)) = 3
          /\ \A i \in 1..3 : SubSeq(s, 1, 3)[i] = s[i]
      BY <1>2
    <2> QED
      BY <1>1, <2>1, SeqEqual
  <1> QED
    BY <1>2, <1>3, <1>4, <1>5 DEF s

LEMMA MissingIs ==
  ASSUME NEW root, NEW v \in VirtualAddresses
  PROVE  /\ SubSeq(v, 1, 1) = <<v[1]>>
         /\ SubSeq(v, 1, 2) = <<v[1], v[2]>>
         /\ SubSeq(v, 1, 3) = v
         /\ SubSeq(v, 1, 1) \in Missing(root, v) <=> ~In1(memory, root, v[1])
         /\ SubSeq(v, 1, 2) \in Missing(root, v) <=> ~In2(memory, root, v[1], v[2])
         /\ SubSeq(v, 1, 3) \in Missing(root, v) <=> ~In3(memory, root, v[1], v[2], v[3])
         /\ v \in Missing(root, v) <=> ~In3(memory, root, v[1], v[2], v[3])
  <1>1. v = <<v[1], v[2], v[3]>>
    BY AddressesAre
  <1>2. /\ SubSeq(v, 1, 1) = <<v[1]>>
        /\ SubSeq(v, 1, 2) = <<v[1], v[2]>>
        /\ SubSeq(v, 1, 3) = v
    BY <1>1, AddressesAre, PrefixesAre
  <1>3. \A p : p \in Paths(root) <=>
          p = <<>> \/ p \in L1s(root) \/ p \in L0s(root) \/ p \in DataPaths(root)
    BY DEF Paths, TablePaths
  <1>4. /\ <<v[1]>> \in Paths(root) <=> In1(memory, root, v[1])
        /\ <<v[1], v[2]>> \in Paths(root) <=> In2(memory, root, v[1], v[2])
        /\ <<v[1], v[2], v[3]>> \in Paths(root) <=> In3(memory, root, v[1], v[2], v[3])
    <2>1. /\ \A a : <<a>> # <<>> /\ \A i : <<a>> = <<i>> => a = i
          /\ \A a, i, j : <<a>> # <<i, j>>
          /\ \A a, i, j, k : <<a>> # <<i, j, k>>
      OBVIOUS
    <2>2. /\ \A a, b : <<a, b>> # <<>>
          /\ \A a, b, i : <<a, b>> # <<i>>
          /\ \A a, b, i, j : <<a, b>> = <<i, j>> => a = i /\ b = j
          /\ \A a, b, i, j, k : <<a, b>> # <<i, j, k>>
      OBVIOUS
    <2>3. /\ \A a, b, c : <<a, b, c>> # <<>>
          /\ \A a, b, c, i : <<a, b, c>> # <<i>>
          /\ \A a, b, c, i, j : <<a, b, c>> # <<i, j>>
          /\ \A a, b, c, i, j, k : <<a, b, c>> = <<i, j, k>> => a = i /\ b = j /\ c = k
      OBVIOUS
    <2>4. <<v[1]>> \in Paths(root) <=> In1(memory, root, v[1])
      BY <1>3, <2>1, PathsAre
    <2>5. <<v[1], v[2]>> \in Paths(root) <=> In2(memory, root, v[1], v[2])
      BY <1>3, <2>2, PathsAre
    <2>6. <<v[1], v[2], v[3]>> \in Paths(root) <=> In3(memory, root, v[1], v[2], v[3])
      BY <1>3, <2>3, PathsAre
    <2> QED
      BY <2>4, <2>5, <2>6
  <1>5. \A n \in 1..3 : SubSeq(v, 1, n) \in Missing(root, v)
                          <=> SubSeq(v, 1, n) \notin Paths(root)
    BY DEF Missing
  <1>6. /\ SubSeq(v, 1, 1) \in Missing(root, v) <=> ~In1(memory, root, v[1])
        /\ SubSeq(v, 1, 2) \in Missing(root, v) <=> ~In2(memory, root, v[1], v[2])
        /\ SubSeq(v, 1, 3) \in Missing(root, v) <=> ~In3(memory, root, v[1], v[2], v[3])
    <2>1. /\ SubSeq(v, 1, 1) \in Missing(root, v) <=> <<v[1]>> \notin Paths(root)
          /\ SubSeq(v, 1, 2) \in Missing(root, v) <=> <<v[1], v[2]>> \notin Paths(root)
          /\ SubSeq(v, 1, 3) \in Missing(root, v) <=> <<v[1], v[2], v[3]>> \notin Paths(root)
      <3>1. 1 \in 1..3 /\ 2 \in 1..3 /\ 3 \in 1..3
        OBVIOUS
      <3>2. SubSeq(v, 1, 3) = <<v[1], v[2], v[3]>>
        BY <1>1, <1>2, Zenon
      <3> QED
        BY <1>2, <1>5, <3>1, <3>2, Zenon
    <2> QED
      BY <1>4, <2>1, Zenon
  <1> QED
    BY <1>2, <1>6, Zenon

(* The pages on the way to v after client_map.                             *)
MapAt(root, v) ==
  [n \in 1..3 |->
     LET p == SubSeq(v, 1, n)
     IN IF p \in Missing(root, v)
        THEN NewPage(Cardinality({q \in Missing(root, v) : Len(q) < n}))
        ELSE PageAt(root, p)]

LEMMA MapPages ==
  ASSUME NEW root, NEW v \in VirtualAddresses,
         Cardinality(Missing(root, v)) <= Cardinality(Free)
  PROVE  \A n \in 1..3 :
           /\ SubSeq(v, 1, n) \notin Missing(root, v) =>
                MapAt(root, v)[n] = PageAt(root, SubSeq(v, 1, n))
           /\ SubSeq(v, 1, n) \in Missing(root, v) =>
                /\ MapAt(root, v)[n] \in Free
                /\ \A o \in 1..3 : o < n /\ SubSeq(v, 1, o) \in Missing(root, v) =>
                     MapAt(root, v)[o] # MapAt(root, v)[n]
  <1> DEFINE M == Missing(root, v)
             shorter(n) == {q \in M : Len(q) < n}
             x(n) == SubSeq(v, 1, n)
  <1>1. \A n \in 1..3 : Len(x(n)) = n
    <2>1. PICK a \in Indices, b \in Indices, c \in Indices : v = <<a, b, c>>
      BY ConstantsAssumption DEF ConstantsAssumption
    <2> QED
      BY <2>1, PrefixesAre
  <1>2. M \subseteq {x(1), x(2), x(3)} /\ \A q \in M : Len(q) \in Nat
    <2>1. \A q \in M : \E n \in 1..3 : q = x(n)
      BY DEF Missing
    <2> QED
      BY <1>1, <2>1
  <1>3. IsFiniteSet(M) /\ Cardinality(M) \in Nat /\ Cardinality(Free) \in Nat
    <2>1. IsFiniteSet({x(1), x(2), x(3)})
      <3>1. {x(1), x(2), x(3)} = (({} \cup {x(1)}) \cup {x(2)}) \cup {x(3)}
        OBVIOUS
      <3> HIDE DEF x
      <3>2. IsFiniteSet({} \cup {x(1)})
        BY FS_EmptySet, FS_AddElement
      <3>3. IsFiniteSet(({} \cup {x(1)}) \cup {x(2)})
        BY <3>2, FS_AddElement
      <3> QED
        BY <3>1, <3>3, FS_AddElement
    <2> HIDE DEF M, x
    <2> QED
      BY <1>2, <2>1, PagesFinite, FS_Subset, FS_CardinalityType DEF Free
  <1>4. ASSUME NEW n \in 1..3
        PROVE  IsFiniteSet(shorter(n)) /\ Cardinality(shorter(n)) \in Nat
    <2>1. shorter(n) \in SUBSET M
      OBVIOUS
    <2> HIDE DEF shorter, M
    <2> QED
      BY <1>3, <2>1, FS_Subset, FS_CardinalityType
  <1>5. ASSUME NEW n \in 1..3, x(n) \in M
        PROVE  /\ IsFiniteSet(shorter(n) \cup {x(n)})
               /\ Cardinality(shorter(n) \cup {x(n)}) = Cardinality(shorter(n)) + 1
    <2>1. x(n) \notin shorter(n)
      BY <1>1
    <2> HIDE DEF shorter, x
    <2> QED
      BY <1>4, <2>1, FS_AddElement
  <1>6. ASSUME NEW n \in 1..3, x(n) \in M
        PROVE  Cardinality(shorter(n)) < Cardinality(Free)
    <2>1. shorter(n) \cup {x(n)} \in SUBSET M
      BY <1>6
    <2> HIDE DEF shorter, x
    <2>2. Cardinality(shorter(n) \cup {x(n)}) <= Cardinality(M)
      BY <1>3, <2>1, FS_Subset
    <2>3. /\ Cardinality(shorter(n)) \in Nat /\ Cardinality(M) \in Nat
          /\ Cardinality(M) <= Cardinality(Free) /\ Cardinality(Free) \in Nat
          /\ Cardinality(shorter(n) \cup {x(n)}) = Cardinality(shorter(n)) + 1
      BY <1>3, <1>4, <1>5, <1>6
    <2> HIDE DEF M
    <2> QED
      BY <2>2, <2>3
  <1>7. ASSUME NEW n \in 1..3, NEW o \in 1..3, o < n, x(n) \in M, x(o) \in M
        PROVE  Cardinality(shorter(o)) < Cardinality(shorter(n))
    <2>1. shorter(o) \cup {x(o)} \in SUBSET shorter(n)
      <3>1. \A q \in M : Len(q) < o => Len(q) < n
        BY <1>2, <1>7
      <3> QED
        BY <1>1, <1>7, <3>1
    <2> HIDE DEF shorter, x
    <2>2. Cardinality(shorter(o) \cup {x(o)}) <= Cardinality(shorter(n))
      BY <1>4, <2>1, FS_Subset
    <2>3. /\ Cardinality(shorter(n)) \in Nat /\ Cardinality(shorter(o)) \in Nat
          /\ Cardinality(shorter(o) \cup {x(o)}) = Cardinality(shorter(o)) + 1
      BY <1>4, <1>5, <1>7
    <2> QED
      BY <2>2, <2>3
  <1>8. \A n \in 1..3 : MapAt(root, v)[n] = IF x(n) \in M THEN NewPage(Cardinality(shorter(n)))
                                                          ELSE PageAt(root, x(n))
    BY DEF MapAt
  <1> HIDE DEF shorter, x, M
  <1>9. ASSUME NEW n \in 1..3, x(n) \in M
        PROVE  /\ MapAt(root, v)[n] \in Free
               /\ \A o \in 1..3 : o < n /\ x(o) \in M =>
                    MapAt(root, v)[o] # MapAt(root, v)[n]
    <2>1. MapAt(root, v)[n] \in Free
      BY <1>4, <1>6, <1>8, <1>9, NewPageIsFree
    <2>2. ASSUME NEW o \in 1..3, o < n, x(o) \in M
          PROVE  MapAt(root, v)[o] # MapAt(root, v)[n]
      <3>1. Cardinality(shorter(o)) # Cardinality(shorter(n))
        BY <1>4, <1>7, <1>9, <2>2
      <3> QED
        BY <1>4, <1>6, <1>8, <1>9, <2>2, <3>1, NewPagesDiffer
    <2> QED
      BY <2>1, <2>2
  <1> QED
    BY <1>8, <1>9 DEF x, M

LEMMA TableKept ==
  ASSUME NEW m \in Memory, NEW q \in Pages, NEW i \in Indices,
         m[q].pte[i].flags = {"valid"}
  PROVE  SetPte(m, q, i, TableEntry(m[q].pte[i].ppn)) = m
  <1> DEFINE e == TableEntry(m[q].pte[i].ppn)
             m2 == SetPte(m, q, i, e)
  <1>1. m[q] \in [pte : [Indices -> PTE], ints : [Offsets -> Int]]
    BY DEF Memory
  <1>2. m[q].pte \in [Indices -> PTE] /\ m[q].pte[i] \in PTE
    BY <1>1
  <1>3. m[q].pte[i] = [flags |-> m[q].pte[i].flags, ppn |-> m[q].pte[i].ppn]
    BY <1>2 DEF PTE
  <1>4. m[q].pte[i] = e
    BY <1>3 DEF TableEntry
  <1> HIDE DEF e
  <1>5. PteIs(m, m2, q, i, e)
    BY <1>2, <1>4, PteSet
  <1>6. m2[q].pte = m[q].pte
    <2>1. [m[q].pte EXCEPT ![i] = e] = m[q].pte
      BY <1>2, <1>4
    <2> QED
      BY <1>5, <2>1 DEF PteIs
  <1> HIDE DEF m2
  <1>7. m2[q] = m[q]
    <2>1. m2[q] \in [pte : [Indices -> PTE], ints : [Offsets -> Int]]
      BY <1>5 DEF PteIs, Memory
    <2> QED
      BY <1>1, <1>5, <1>6, <2>1 DEF PteIs
  <1>8. m2 = m
    <2>1. m2 \in Memory /\ \A o \in Pages : m2[o] = m[o]
      BY <1>5, <1>7 DEF PteIs
    <2> QED
      BY <2>1 DEF Memory
  <1> QED
    BY <1>8 DEF m2, e

(* Every address is mapped as before.                                      *)
SameMaps(m, m2, R) ==
  \A s \in R : \A a, b, c :
    /\ In3(m2, s, a, b, c) <=> In3(m, s, a, b, c)
    /\ In3(m, s, a, b, c) =>
         /\ At3(m2, s, a, b, c) = At3(m, s, a, b, c)
         /\ FlagsAt(m2, s, a, b, c) = FlagsAt(m, s, a, b, c)

SameInts(m, m2) == \A q \in Pages : m2[q].ints = m[q].ints

MapLeaf(root, v, mode) ==
  [flags |-> {"valid"} \cup {f \in {"read"} : mode[1]} \cup {f \in {"write"} : mode[2]},
   ppn |-> MapAt(root, v)[3]]

LEMMA ClientMaps ==
  ASSUME Forest(memory, roots, allocated), NEW root \in roots, NEW v \in VirtualAddresses,
         NEW mode, client_map(root, v, mode)
  PROVE  /\ Forest(memory', roots, allocated')
         /\ OneEntry(memory, memory', roots, root, v[1], v[2], v[3],
                     MapLeaf(root, v, mode))
         /\ ~In3(memory, root, v[1], v[2], v[3])
         /\ MapLeaf(root, v, mode).ppn \in Free
         /\ SameInts(memory, memory')
  <1> DEFINE at == MapAt(root, v)
             i == v[1]
             j == v[2]
             k == v[3]
             e == MapLeaf(root, v, mode)
             m1 == SetPte(memory, root, i, TableEntry(at[1]))
             m2 == SetPte(m1, at[1], j, TableEntry(at[2]))
             m3 == SetPte(m2, at[2], k, e)
             A1 == allocated \cup {at[1]}
             A2 == A1 \cup {at[2]}
             A3 == A2 \cup {at[3]}
  <1>1. /\ memory' = m3
        /\ v \in Missing(root, v)
        /\ Cardinality(Missing(root, v)) <= Cardinality(Free)
    BY DEF client_map, MapAt, MapLeaf, SetPte, TableEntry
  <1>2. allocated' = A3
    <2>1. allocated' = allocated \cup Range(MapAt(root, v))
      BY DEF client_map, MapAt
    <2>2. Range(MapAt(root, v)) = {at[1], at[2], at[3]}
      <3>1. DOMAIN MapAt(root, v) = 1..3
        BY DEF MapAt
      <3>2. \A n : n \in 1..3 <=> n \in {1, 2, 3}
        OBVIOUS
      <3> QED
        BY <3>1, <3>2 DEF Range
    <2> QED
      BY <2>1, <2>2
  <1>3. /\ i \in Indices /\ j \in Indices /\ k \in Indices
        /\ <<i, j, k>> \in VirtualAddresses
    <2>1. v = <<i, j, k>>
      BY AddressesAre
    <2> QED
      BY <2>1, AddressesAre
  <1>4. /\ In1(memory, root, i) => at[1] = At1(memory, root, i)
        /\ ~In1(memory, root, i) => at[1] \in Free
        /\ In2(memory, root, i, j) => at[2] = At2(memory, root, i, j)
        /\ ~In2(memory, root, i, j) => at[2] \in Free
        /\ ~In1(memory, root, i) => at[1] # at[2] /\ at[1] # at[3]
        /\ ~In2(memory, root, i, j) => at[2] # at[3]
        /\ ~In3(memory, root, i, j, k) /\ at[3] \in Free
    <2>1. /\ SubSeq(v, 1, 1) \in Missing(root, v) <=> ~In1(memory, root, i)
          /\ SubSeq(v, 1, 2) \in Missing(root, v) <=> ~In2(memory, root, i, j)
          /\ SubSeq(v, 1, 3) \in Missing(root, v) <=> ~In3(memory, root, i, j, k)
          /\ ~In3(memory, root, i, j, k)
      <3>1. v \in Missing(root, v)
        BY <1>1
      <3> QED
        BY <3>1, MissingIs
    <2>4. /\ PageAt(root, SubSeq(v, 1, 1)) = At1(memory, root, i)
          /\ PageAt(root, SubSeq(v, 1, 2)) = At2(memory, root, i, j)
      <3>1. SubSeq(v, 1, 1) = <<i>> /\ SubSeq(v, 1, 2) = <<i, j>>
        BY MissingIs
      <3> QED
        <4>1. PageAt(root, <<i>>) = At1(memory, root, i)
          BY PageAtIs
        <4>2. PageAt(root, <<i, j>>) = At2(memory, root, i, j)
          BY PageAtIs
        <4> QED
          BY <3>1, <4>1, <4>2
    <2>2. In2(memory, root, i, j) => In1(memory, root, i)
      BY DEF In2
    <2>3. 1 \in 1..3 /\ 2 \in 1..3 /\ 3 \in 1..3 /\ 1 < 2 /\ 1 < 3 /\ 2 < 3
      OBVIOUS
    <2> HIDE DEF at
    <2> QED
      BY <1>1, <2>1, <2>2, <2>3, <2>4, MapPages DEF at
  <1>5. PICK home : Homes(memory, roots, allocated, home)
    BY DEF Forest
  <1>6. root \in allocated /\ allocated \subseteq Pages /\ memory \in Memory
    BY <1>5 DEF Forest, Homes, HomesOf
  <1>7. /\ e \in PTE /\ "valid" \in e.flags /\ e.ppn = at[3]
    <2>1. at[3] \in Pages
      BY <1>4 DEF Free
    <2> QED
      BY <2>1 DEF MapLeaf, PTE, Flags
  <1> HIDE DEF at, e, m1, m2, m3, i, j, k, A1, A2, A3
  <1>8. /\ Forest(m1, roots, A1)
        /\ In1(m1, root, i) /\ At1(m1, root, i) = at[1]
        /\ In2(memory, root, i, j) => m1 = memory
        /\ ~In2(memory, root, i, j) => ~In2(m1, root, i, j)
        /\ SameMaps(memory, m1, roots) /\ SameInts(memory, m1)
    <2>1. CASE ~In1(memory, root, i)
      <3>1. at[1] \in Pages \ allocated
        BY <1>4, <2>1 DEF Free
      <3>2. /\ Forest(m1, roots, A1)
            /\ Grown(memory, m1, roots, at[1], Home1(root, i))
            /\ In1(m1, root, i) /\ At1(m1, root, i) = at[1]
            /\ ~In2(m1, root, i, j)
        <4>1. m1 = SetPte(memory, root, i, TableEntry(at[1]))
          BY DEF m1
        <4>2. at[1] \in Pages \ allocated /\ i \in Indices /\ ~In1(memory, root, i)
          BY <1>3, <2>1, <3>1
        <4>3. Forest(m1, roots, allocated \cup {at[1]})
          BY <4>1, <4>2, Table1Added
        <4>4. Grown(memory, m1, roots, at[1], Home1(root, i))
          BY <4>1, <4>2, Table1Added
        <4>5. In1(m1, root, i) /\ ~In2(m1, root, i, j)
          BY <4>1, <4>2, Table1Added
        <4>6. At1(m1, root, i) = at[1]
          BY <4>4, <4>5, <2>1 DEF Grown
        <4> QED
          BY <4>3, <4>4, <4>5, <4>6 DEF A1
      <3>3. SameMaps(memory, m1, roots)
        BY <3>2 DEF Grown, SameMaps
      <3>4. SameInts(memory, m1)
        <4>1. PteIs(memory, m1, root, i, TableEntry(at[1]))
          BY <1>3, <1>6, <3>1, PteSet, TableEntryIs DEF m1
        <4> QED
          BY <4>1 DEF PteIs, SameInts
      <3> QED
        BY <2>1, <3>2, <3>3, <3>4 DEF In2
    <2>2. CASE In1(memory, root, i)
      <3>1. memory[root].pte[i].flags = {"valid"} /\ memory[root].pte[i].ppn = at[1]
        BY <1>4, <2>2 DEF Forest, Plain, At1, To
      <3>2. m1 = memory
        BY <1>3, <1>6, <3>1, TableKept DEF m1
      <3>3. A1 = allocated
        BY <1>4, <1>5, <2>2 DEF A1, Homes, HomesOf
      <3> QED
        BY <1>4, <2>2, <3>2, <3>3 DEF SameMaps, SameInts
    <2> QED
      BY <2>1, <2>2
  <1>9. PICK home1 : Homes(m1, roots, A1, home1)
    BY <1>8 DEF Forest
  <1>10. at[1] \in A1 /\ A1 \subseteq Pages /\ m1 \in Memory
    BY <1>8 DEF Forest, A1
  <1>11. /\ Forest(m2, roots, A2)
         /\ In2(m2, root, i, j) /\ At2(m2, root, i, j) = at[2]
         /\ SameMaps(m1, m2, roots) /\ SameInts(m1, m2)
    <2>1. CASE ~In2(memory, root, i, j)
      <3>1. at[2] \in Pages \ A1
        <4>1. at[2] # at[1]
          BY <1>4, <1>5, <2>1 DEF Homes, HomesOf, Free
        <4> QED
          BY <1>4, <2>1, <4>1 DEF A1, Free
      <3>2. /\ Forest(m2, roots, A2)
            /\ Grown(m1, m2, roots, at[2], Home2(root, i, j))
            /\ In2(m2, root, i, j) /\ At2(m2, root, i, j) = at[2]
        <4>1. m2 = SetPte(m1, At1(m1, root, i), j, TableEntry(at[2]))
          BY <1>8 DEF m2
        <4>2. In1(m1, root, i) /\ j \in Indices /\ ~In2(m1, root, i, j) /\ Forest(m1, roots, A1)
          BY <1>3, <1>8, <2>1
        <4>3. Forest(m2, roots, A1 \cup {at[2]})
          BY <3>1, <4>1, <4>2, Table2Added
        <4>4. Grown(m1, m2, roots, at[2], Home2(root, i, j))
          BY <3>1, <4>1, <4>2, Table2Added
        <4>5. In2(m2, root, i, j)
          BY <3>1, <4>1, <4>2, Table2Added
        <4>6. At2(m2, root, i, j) = at[2]
          BY <4>2, <4>4, <4>5 DEF Grown
        <4> QED
          BY <4>3, <4>4, <4>5, <4>6 DEF A2
      <3>3. SameMaps(m1, m2, roots)
        BY <3>2 DEF Grown, SameMaps
      <3>4. SameInts(m1, m2)
        <4>1. PteIs(m1, m2, at[1], j, TableEntry(at[2]))
          BY <1>3, <1>10, <3>1, PteSet, TableEntryIs DEF m2
        <4> QED
          BY <4>1 DEF PteIs, SameInts
      <3> QED
        BY <3>2, <3>3, <3>4
    <2>2. CASE In2(memory, root, i, j)
      <3>1. m1 = memory /\ In2(m1, root, i, j) /\ At2(m1, root, i, j) = at[2]
        BY <1>4, <1>8, <2>2
      <3>2. m1[at[1]].pte[j].flags = {"valid"} /\ m1[at[1]].pte[j].ppn = at[2]
        BY <1>8, <3>1 DEF Forest, Plain, At2, To
      <3>3. m2 = m1
        BY <1>3, <1>10, <3>2, TableKept DEF m2
      <3>4. A2 = A1
        BY <1>9, <3>1 DEF A2, Homes, HomesOf
      <3> QED
        BY <1>8, <3>1, <3>3, <3>4 DEF SameMaps, SameInts
    <2> QED
      BY <2>1, <2>2
  <1>12. ~In3(m2, root, i, j, k)
    BY <1>4, <1>8, <1>11 DEF SameMaps
  <1>13. at[3] \notin A2
    BY <1>4, <1>5 DEF Homes, HomesOf, Free, A1, A2
  <1>14. /\ Forest(m3, roots, A3)
         /\ OneEntry(m2, m3, roots, root, i, j, k, e)
         /\ SameInts(m2, m3)
    <2>1. m3 = SetPte(m2, At2(m2, root, i, j), k, e)
      BY <1>11 DEF m3
    <2>2. /\ Forest(m3, roots, A2 \cup {e.ppn})
          /\ OneLeaf(m2, m3, roots, root, i, j, k, e)
          /\ \A q \in Pages : m3[q].ints = m2[q].ints
      BY <1>3, <1>7, <1>11, <1>12, <1>13, <2>1, LeafAdded
    <2> QED
      BY <1>7, <2>2 DEF A3, OneLeaf, SameInts
  <1>15. SameMaps(memory, m2, roots)
    BY <1>8, <1>11 DEF SameMaps
  <1>16. OneEntry(memory, m3, roots, root, i, j, k, e)
    BY <1>14, <1>15 DEF OneEntry, SameMaps
  <1>17. SameInts(memory, m3)
    BY <1>8, <1>11, <1>14 DEF SameInts
  <1> QED
    BY <1>1, <1>2, <1>4, <1>7, <1>14, <1>16, <1>17 DEF i, j, k, e

-----------------------------------------------------------------------------
(* client_unmap                                                            *)

LEMMA ZeroPageTyped ==
  /\ ZeroPTE \in PTE
  /\ ZeroPage \in [pte : [Indices -> PTE], ints : [Offsets -> Int]]
  <1>1. 0 \in Pages
    BY ConstantsAssumption DEF ConstantsAssumption, Pages
  <1>2. ZeroPTE \in PTE
    BY <1>1 DEF ZeroPTE, PTE
  <1> QED
    BY <1>2 DEF ZeroPage

LEMMA ClientUnmaps ==
  ASSUME Forest(memory, roots, allocated), NEW root \in roots, NEW v \in VirtualAddresses,
         client_unmap(root, v)
  PROVE  /\ Forest(memory', roots, allocated')
         /\ OneEntry(memory, memory', roots, root, v[1], v[2], v[3], ZeroPTE)
         /\ In3(memory, root, v[1], v[2], v[3])
         /\ Alone(memory, roots, root, v[1], v[2], v[3], At3(memory, root, v[1], v[2], v[3]))
         /\ \A q \in Pages : q # At3(memory, root, v[1], v[2], v[3]) =>
              memory'[q].ints = memory[q].ints
  <1> DEFINE i == v[1]
             j == v[2]
             k == v[3]
             l0 == At2(memory, root, i, j)
             page == At3(memory, root, i, j, k)
             m1 == SetPte(memory, l0, k, ZeroPTE)
             m2 == [m1 EXCEPT ![page] = ZeroPage]
  <1>1. /\ i \in Indices /\ j \in Indices /\ k \in Indices
        /\ L0Of(root, v) = l0 /\ Leaf(l0, v).ppn = page
        /\ PageAt(root, v) = page
        /\ Mapped(root, v) <=> In3(memory, root, i, j, k)
    <2>1. EntryOf(root, v) = Leaf(l0, v) /\ L0Of(root, v) = l0
      BY MappedIs DEF EntryOf
    <2> QED
      BY <2>1, AddressesAre, MappedIs
  <1>2. In3(memory, root, i, j, k) /\ In2(memory, root, i, j) /\ Mappings(page) = {<<root, v>>}
    BY <1>1 DEF client_unmap, In3
  <1>3. memory' = m2 /\ allocated' = allocated \ {page}
    BY <1>1 DEF client_unmap, Freed, SetPte
  <1>4. PICK home : Homes(memory, roots, allocated, home)
    BY DEF Forest
  <1>5. /\ roots \subseteq Pages /\ allocated \subseteq Pages /\ memory \in Memory
        /\ l0 \in allocated /\ l0 \in Pages
        /\ page \in allocated /\ page \in Pages /\ page \notin Tables(allocated, home)
    <2>1. /\ roots \subseteq Pages /\ allocated \subseteq Pages /\ memory \in Memory
          /\ l0 \in allocated
      BY <1>2, <1>4 DEF Forest, Homes, HomesOf
    <2> QED
      BY <1>2, <1>4, <2>1, TablesAre
  <1>6. Alone(memory, roots, root, i, j, k, page)
    <2> SUFFICES ASSUME NEW s \in roots, s # root, In3(memory, s, i, j, k),
                        At3(memory, s, i, j, k) = page
                 PROVE  FALSE
      BY DEF Alone
    <2>1. Mapped(s, v) /\ PageAt(s, v) = page
      BY MappedIs
    <2>2. <<s, v>> \in Mappings(page)
      BY <2>1 DEF Mappings
    <2> QED
      BY <1>2, <2>2
  <1> HIDE DEF i, j, k, l0, page
  <1>7. PteIs(memory, m1, l0, k, ZeroPTE)
    BY <1>1, <1>5, ZeroPageTyped, PteSet
  <1> HIDE DEF m1
  <1>8. /\ m2 \in Memory /\ m2[page] = ZeroPage
        /\ \A q \in Pages : q # page => m2[q] = m1[q]
    BY <1>5, <1>7, ZeroPageTyped DEF PteIs, Memory
  <1> HIDE DEF m2
  <1>9. LeafSet(memory, m2, l0, k, ZeroPTE, Tables(allocated, home))
    BY <1>5, <1>7, <1>8 DEF PteIs, LeafSet, Tables
  <1>10. OneLeaf(memory, m2, roots, root, i, j, k, ZeroPTE)
    BY <1>1, <1>2, <1>4, <1>5, <1>9, LeafEffect DEF l0
  <1>11. Zeroed(m2, allocated \ {page})
    BY <1>5, <1>7, <1>8 DEF Zeroed, PteIs, Forest
  <1>12. "valid" \notin ZeroPTE.flags
    BY DEF ZeroPTE
  <1>13. Forest(m2, roots, allocated \ {page})
    BY <1>2, <1>5, <1>6, <1>8, <1>10, <1>11, <1>12, LeafTaken DEF page
  <1>14. \A q \in Pages : q # page => m2[q].ints = memory[q].ints
    BY <1>7, <1>8 DEF PteIs
  <1> QED
    BY <1>2, <1>3, <1>6, <1>10, <1>13, <1>14 DEF OneLeaf, i, j, k, page

-----------------------------------------------------------------------------
(* The counters of shared pages                                            *)

Writes(f) == "write" \in f \/ "custom" \in f

Maps(m, s, u, p) == In3(m, s, u[1], u[2], u[3]) /\ At3(m, s, u[1], u[2], u[3]) = p

Writers(m, R, p) ==
  {w \in R \X VirtualAddresses :
     Maps(m, w[1], w[2], p) /\ Writes(FlagsAt(m, w[1], w[2][1], w[2][2], w[2][3]))}

Others(S) == IF Cardinality(S) = 0 THEN 0 ELSE Cardinality(S) - 1

Counted(m, R, ref) == \A p \in Pages : ref[p] = Others(Writers(m, R, p))

LEMMA OneMapping ==
  ASSUME NEW m, NEW R, NEW A, Forest(m, R, A), NEW p,
         NEW s \in R, NEW u \in VirtualAddresses, Maps(m, s, u, p),
         NEW t \in R, NEW v \in VirtualAddresses, Maps(m, t, v, p)
  PROVE  u = v
  <1>1. PICK home : Homes(m, R, A, home)
    BY DEF Forest
  <1>2. /\ home[p] = DataHome(u[1], u[2], u[3])
        /\ home[p] = DataHome(v[1], v[2], v[3])
    BY <1>1 DEF Homes, HomesOf, Maps
  <1>3. u[1] = v[1] /\ u[2] = v[2] /\ u[3] = v[3]
    BY <1>2 DEF DataHome
  <1>4. u = <<u[1], u[2], u[3]>> /\ v = <<v[1], v[2], v[3]>>
    BY AddressesAre
  <1> QED
    BY <1>3, <1>4, Zenon

LEMMA WritersFinite ==
  ASSUME NEW m, NEW R, NEW A, Forest(m, R, A), R \subseteq Pages, NEW p
  PROVE  /\ IsFiniteSet(Writers(m, R, p))
         /\ Cardinality(Writers(m, R, p)) \in Nat
         /\ Cardinality(Writers(m, R, p)) <= Cardinality(R)
  <1> DEFINE W == Writers(m, R, p)
             f == [w \in W |-> w[1]]
  <1>1. \A w \in W : /\ w[1] \in R /\ w[2] \in VirtualAddresses /\ w = <<w[1], w[2]>>
                     /\ Maps(m, w[1], w[2], p)
    BY DEF Writers
  <1> HIDE DEF W
  <1>2. \A w, x \in W : w[1] = x[1] => w = x
    <2> SUFFICES ASSUME NEW w \in W, NEW x \in W, w[1] = x[1]
                 PROVE  w = x
      OBVIOUS
    <2>1. w[2] = x[2]
      BY <1>1, OneMapping
    <2> QED
      BY <1>1, <2>1, Zenon
  <1>3. f \in Injection(W, R)
    BY <1>1, <1>2 DEF Injection, IsInjective
  <1>4. IsFiniteSet(R)
    BY PagesFinite, FS_Subset
  <1> HIDE DEF f
  <1>5. IsFiniteSet(W) /\ Cardinality(W) <= Cardinality(R)
    BY <1>3, <1>4, FS_Injection
  <1> QED
    BY <1>5, FS_CardinalityType DEF W

LEMMA OthersOfOne ==
  ASSUME NEW S, NEW w, S \subseteq {w}
  PROVE  Others(S) = 0
  <1>1. CASE S = {}
    BY <1>1, FS_EmptySet DEF Others
  <1>2. CASE S # {}
    <2>1. S = {w}
      BY <1>2
    <2>2. Cardinality(S) = 1
      BY <2>1, FS_Singleton
    <2> QED
      BY <2>2 DEF Others
  <1> QED
    BY <1>1, <1>2

SameBut(S, T, x) == \A w : w # x => (w \in S <=> w \in T)

(* A change of one entry adds or takes its own mapping only.               *)
LEMMA EntryWriters ==
  ASSUME NEW m, NEW m2, NEW R, NEW r \in R, NEW v \in VirtualAddresses, NEW e,
         OneEntry(m, m2, R, r, v[1], v[2], v[3], e), NEW p
  PROVE  /\ SameBut(Writers(m2, R, p), Writers(m, R, p), <<r, v>>)
         /\ <<r, v>> \in Writers(m2, R, p) <=>
              "valid" \in e.flags /\ e.ppn = p /\ Writes(e.flags)
         /\ <<r, v>> \in Writers(m, R, p) <=>
              /\ Maps(m, r, v, p)
              /\ Writes(FlagsAt(m, r, v[1], v[2], v[3]))
  <1>1. ASSUME NEW s \in R, NEW u \in VirtualAddresses, <<s, u>> # <<r, v>>
        PROVE  /\ Maps(m2, s, u, p) <=> Maps(m, s, u, p)
               /\ Maps(m, s, u, p) =>
                    FlagsAt(m2, s, u[1], u[2], u[3]) = FlagsAt(m, s, u[1], u[2], u[3])
    <2>1. u = <<u[1], u[2], u[3]>> /\ v = <<v[1], v[2], v[3]>>
      BY AddressesAre
    <2>2. ~(s = r /\ u[1] = v[1] /\ u[2] = v[2] /\ u[3] = v[3])
      BY <1>1, <2>1, Zenon
    <2> QED
      BY <2>2 DEF OneEntry, Maps
  <1>2. ASSUME NEW w, w # <<r, v>>
        PROVE  w \in Writers(m2, R, p) <=> w \in Writers(m, R, p)
    <2>1. CASE w \in R \X VirtualAddresses
      <3>1. PICK s \in R, u \in VirtualAddresses : w = <<s, u>>
        BY <2>1
      <3>2. w[1] = s /\ w[2] = u
        BY <3>1
      <3> QED
        BY <1>1, <1>2, <3>1, <3>2 DEF Writers
    <2>2. CASE w \notin R \X VirtualAddresses
      BY <2>2 DEF Writers
    <2> QED
      BY <2>1, <2>2
  <1>3. \A x : <<r, v>> \in Writers(x, R, p) <=>
                 Maps(x, r, v, p) /\ Writes(FlagsAt(x, r, v[1], v[2], v[3]))
    BY DEF Writers
  <1>4. /\ Maps(m2, r, v, p) <=> "valid" \in e.flags /\ e.ppn = p
        /\ FlagsAt(m2, r, v[1], v[2], v[3]) = e.flags
    BY DEF Maps, OneEntry
  <1>5. <<r, v>> \in Writers(m2, R, p) <=>
          "valid" \in e.flags /\ e.ppn = p /\ Writes(e.flags)
    BY <1>3, <1>4
  <1> QED
    BY <1>2, <1>3, <1>5 DEF SameBut

(* Nobody writes to a page that is not in use.                             *)
LEMMA FreeUnwritten ==
  ASSUME NEW m, NEW R, NEW A, Forest(m, R, A), NEW p \in Pages \ A
  PROVE  /\ Writers(m, R, p) = {}
         /\ \A s \in R, u \in VirtualAddresses : ~Maps(m, s, u, p)
  <1>1. PICK home : Homes(m, R, A, home)
    BY DEF Forest
  <1>2. \A s \in R, u \in VirtualAddresses : ~Maps(m, s, u, p)
    BY <1>1 DEF Homes, HomesOf, Maps
  <1> QED
    BY <1>2 DEF Writers

(* The entry leads to a page that nobody wrote to.                         *)
LEMMA CountedMap ==
  ASSUME NEW m, NEW m2, NEW R, NEW A, Forest(m, R, A), NEW ref, Counted(m, R, ref),
         NEW r \in R, NEW v \in VirtualAddresses, NEW e,
         OneEntry(m, m2, R, r, v[1], v[2], v[3], e),
         ~In3(m, r, v[1], v[2], v[3]), e.ppn \in Pages \ A
  PROVE  Counted(m2, R, ref)
  <1> SUFFICES ASSUME NEW p \in Pages
               PROVE  ref[p] = Others(Writers(m2, R, p))
    BY DEF Counted
  <1>1. CASE p = e.ppn
    <2>1. Writers(m, R, p) = {}
      BY <1>1, FreeUnwritten
    <2>2. Writers(m2, R, p) \subseteq {<<r, v>>}
      <3>1. SameBut(Writers(m2, R, p), Writers(m, R, p), <<r, v>>)
        BY EntryWriters
      <3> QED
        BY <2>1, <3>1 DEF SameBut
    <2>3. Others(Writers(m2, R, p)) = 0 /\ Others(Writers(m, R, p)) = 0
      BY <2>1, <2>2, OthersOfOne
    <2> QED
      BY <2>3 DEF Counted
  <1>2. CASE p # e.ppn
    <2>1. <<r, v>> \notin Writers(m2, R, p) /\ <<r, v>> \notin Writers(m, R, p)
      BY <1>2, EntryWriters DEF Maps
    <2>2. Writers(m2, R, p) = Writers(m, R, p)
      <3>1. SameBut(Writers(m2, R, p), Writers(m, R, p), <<r, v>>)
        BY EntryWriters
      <3> QED
        BY <2>1, <3>1 DEF SameBut
    <2> QED
      BY <2>2 DEF Counted
  <1> QED
    BY <1>1, <1>2

(* The entry is cleared that alone led to its page.                        *)
LEMMA CountedUnmap ==
  ASSUME NEW m, NEW m2, NEW R, NEW A, Forest(m, R, A), NEW ref, Counted(m, R, ref),
         NEW r \in R, NEW v \in VirtualAddresses, NEW e, "valid" \notin e.flags,
         OneEntry(m, m2, R, r, v[1], v[2], v[3], e),
         NEW q, Maps(m, r, v, q), Alone(m, R, r, v[1], v[2], v[3], q)
  PROVE  Counted(m2, R, ref)
  <1> SUFFICES ASSUME NEW p \in Pages
               PROVE  ref[p] = Others(Writers(m2, R, p))
    BY DEF Counted
  <1>1. <<r, v>> \notin Writers(m2, R, p)
    BY EntryWriters
  <1>2. CASE p = q
    <2>1. ASSUME NEW w \in Writers(m, R, p)
          PROVE  w = <<r, v>>
      <3>1. PICK s \in R, u \in VirtualAddresses : w = <<s, u>> /\ Maps(m, s, u, p)
        BY <2>1 DEF Writers
      <3>2. u = v
        BY <1>2, <3>1, OneMapping
      <3>3. s = r
        BY <1>2, <3>1, <3>2 DEF Alone, Maps
      <3> QED
        BY <3>1, <3>2, <3>3
    <2>2. Writers(m, R, p) \subseteq {<<r, v>>} /\ Writers(m2, R, p) \subseteq {<<r, v>>}
      <3>1. SameBut(Writers(m2, R, p), Writers(m, R, p), <<r, v>>)
        BY EntryWriters
      <3> QED
        BY <2>1, <3>1 DEF SameBut
    <2>3. Others(Writers(m2, R, p)) = 0 /\ Others(Writers(m, R, p)) = 0
      BY <2>2, OthersOfOne
    <2> QED
      BY <2>3 DEF Counted
  <1>3. CASE p # q
    <2>1. <<r, v>> \notin Writers(m, R, p)
      BY <1>3, EntryWriters DEF Maps
    <2>2. Writers(m2, R, p) = Writers(m, R, p)
      <3>1. SameBut(Writers(m2, R, p), Writers(m, R, p), <<r, v>>)
        BY EntryWriters
      <3> QED
        BY <1>1, <2>1, <3>1 DEF SameBut
    <2> QED
      BY <2>2 DEF Counted
  <1> QED
    BY <1>2, <1>3

(* A page that an entry lets the program write is counted as shared just   *)
(* when another root maps it.                                              *)
LEMMA SharedIsCounted ==
  ASSUME NEW m, NEW R, NEW A, Forest(m, R, A), R \subseteq Pages,
         NEW ref, Counted(m, R, ref),
         NEW r \in R, NEW v \in VirtualAddresses, NEW p \in Pages, Maps(m, r, v, p),
         Writes(FlagsAt(m, r, v[1], v[2], v[3]))
  PROVE  /\ ref[p] = 0 <=> Alone(m, R, r, v[1], v[2], v[3], p)
         /\ ref[p] = Cardinality(Writers(m, R, p)) - 1
         /\ Cardinality(Writers(m, R, p)) \in Nat \ {0}
  <1> DEFINE W == Writers(m, R, p)
  <1>1. <<r, v>> \in W
    BY DEF Writers
  <1>2. IsFiniteSet(W) /\ Cardinality(W) \in Nat
    BY WritersFinite
  <1>3. Cardinality(W) # 0
    BY <1>1, <1>2, FS_EmptySet
  <1>4. ref[p] = Cardinality(W) - 1
    BY <1>2, <1>3 DEF Counted, Others
  <1>5. ref[p] = 0 <=> W = {<<r, v>>}
    <2>1. ref[p] = 0 <=> Cardinality(W) = 1
      BY <1>2, <1>4
    <2>2. Cardinality(W) = 1 <=> \E x : W = {x}
      BY <1>2, FS_Singleton
    <2> QED
      BY <1>1, <2>1, <2>2
  <1>6. W = {<<r, v>>} <=> Alone(m, R, r, v[1], v[2], v[3], p)
    <2>1. ASSUME W = {<<r, v>>}, NEW s \in R, s # r, Maps(m, s, v, p)
          PROVE  FALSE
      <3>1. FlagsAt(m, s, v[1], v[2], v[3]) = FlagsAt(m, r, v[1], v[2], v[3])
        BY <2>1 DEF Forest, SharedAlike, Maps
      <3>2. <<s, v>> \in W
        BY <2>1, <3>1 DEF Writers
      <3> QED
        BY <2>1, <3>2
    <2>2. ASSUME Alone(m, R, r, v[1], v[2], v[3], p), NEW w \in W
          PROVE  w = <<r, v>>
      <3>1. PICK s \in R, u \in VirtualAddresses : w = <<s, u>> /\ Maps(m, s, u, p)
        BY <2>2 DEF Writers
      <3>2. u = v
        BY <3>1, OneMapping
      <3> QED
        BY <2>2, <3>1, <3>2 DEF Alone, Maps
    <2> QED
      BY <1>1, <2>1, <2>2 DEF Alone, Maps
  <1> QED
    BY <1>2, <1>3, <1>4, <1>5, <1>6

(* The entry of a shared page leads to a page of its own.                  *)
LEMMA CountedMoved ==
  ASSUME NEW m, NEW m2, NEW R, NEW A, Forest(m, R, A), R \subseteq Pages,
         NEW ref \in [Pages -> Int], Counted(m, R, ref),
         NEW r \in R, NEW v \in VirtualAddresses, NEW old \in Pages, Maps(m, r, v, old),
         Writes(FlagsAt(m, r, v[1], v[2], v[3])), ref[old] # 0,
         NEW e, OneEntry(m, m2, R, r, v[1], v[2], v[3], e),
         "valid" \in e.flags, Writes(e.flags), e.ppn \in Pages \ A, old \in A
  PROVE  Counted(m2, R, [ref EXCEPT ![old] = ref[old] - 1])
  <1> DEFINE w == <<r, v>>
  <1>1. \A p : SameBut(Writers(m2, R, p), Writers(m, R, p), w)
    BY EntryWriters
  <1>2. ASSUME NEW p
        PROVE  /\ w \in Writers(m2, R, p) <=> p = e.ppn
               /\ w \in Writers(m, R, p) <=> p = old
    <2>1. w \in Writers(m2, R, p) <=> "valid" \in e.flags /\ e.ppn = p /\ Writes(e.flags)
      <3>1. w \in Writers(m2, R, p) <=>
              Maps(m2, r, v, p) /\ Writes(FlagsAt(m2, r, v[1], v[2], v[3]))
        BY DEF Writers
      <3> QED
        BY <3>1 DEF Maps, OneEntry
    <2>2. w \in Writers(m, R, p) <=>
            Maps(m, r, v, p) /\ Writes(FlagsAt(m, r, v[1], v[2], v[3]))
      BY EntryWriters
    <2> QED
      BY <2>1, <2>2 DEF Maps
  <1>3. e.ppn # old
    OBVIOUS
  <1> HIDE DEF w
  <1>4. ref[old] - 1 = Others(Writers(m2, R, old))
    <2> DEFINE n == Cardinality(Writers(m, R, old))
    <2>1. Writers(m2, R, old) = Writers(m, R, old) \ {w}
      BY <1>1, <1>2, <1>3 DEF SameBut
    <2>2. ref[old] = n - 1 /\ n \in Nat \ {0}
      <3>1. ref[old] = Cardinality(Writers(m, R, old)) - 1
        BY SharedIsCounted
      <3>2. Cardinality(Writers(m, R, old)) \in Nat \ {0}
        BY SharedIsCounted
      <3> QED
        BY <3>1, <3>2
    <2>3. IsFiniteSet(Writers(m, R, old)) /\ w \in Writers(m, R, old)
      BY <1>2, WritersFinite
    <2>4. Cardinality(Writers(m2, R, old)) = n - 1
      <3>1. Cardinality(Writers(m, R, old) \ {w}) = Cardinality(Writers(m, R, old)) - 1
        BY <2>3, FS_RemoveElement
      <3> QED
        BY <2>1, <3>1
    <2> HIDE DEF n
    <2> QED
      BY <2>2, <2>4 DEF Others
  <1>5. ref[e.ppn] = Others(Writers(m2, R, e.ppn))
    <2>1. Writers(m, R, e.ppn) = {}
      BY FreeUnwritten
    <2>2. Writers(m2, R, e.ppn) \subseteq {w}
      BY <1>1, <2>1 DEF SameBut
    <2>3. Others(Writers(m, R, e.ppn)) = 0 /\ Others(Writers(m2, R, e.ppn)) = 0
      BY <2>1, <2>2, OthersOfOne
    <2> QED
      BY <2>3 DEF Counted
  <1>6. ASSUME NEW p \in Pages, p # old, p # e.ppn
        PROVE  ref[p] = Others(Writers(m2, R, p))
    <2>1. Writers(m2, R, p) = Writers(m, R, p)
      BY <1>1, <1>2, <1>6 DEF SameBut
    <2> QED
      BY <2>1 DEF Counted
  <1> DEFINE ref2 == [ref EXCEPT ![old] = ref[old] - 1]
  <1>7. ref2[old] = ref[old] - 1 /\ \A p \in Pages : p # old => ref2[p] = ref[p]
    OBVIOUS
  <1> HIDE DEF ref2
  <1>8. ASSUME NEW p \in Pages PROVE ref2[p] = Others(Writers(m2, R, p))
    <2>1. CASE p = old
      BY <1>4, <1>7, <2>1
    <2>2. CASE p = e.ppn
      BY <1>3, <1>5, <1>7, <2>2
    <2>3. CASE p # old /\ p # e.ppn
      BY <1>6, <1>7, <2>3
    <2> QED
      BY <2>1, <2>2, <2>3
  <1> QED
    BY <1>8 DEF Counted, ref2

(* The entry keeps its page, which it alone leads to.                      *)
LEMMA CountedKept ==
  ASSUME NEW m, NEW m2, NEW R, NEW ref, Counted(m, R, ref),
         NEW r \in R, NEW v \in VirtualAddresses, NEW e, Maps(m, r, v, e.ppn),
         Writes(FlagsAt(m, r, v[1], v[2], v[3])),
         OneEntry(m, m2, R, r, v[1], v[2], v[3], e),
         "valid" \in e.flags, Writes(e.flags)
  PROVE  Counted(m2, R, ref)
  <1> SUFFICES ASSUME NEW p \in Pages
               PROVE  Writers(m2, R, p) = Writers(m, R, p)
    BY DEF Counted
  <1>1. SameBut(Writers(m2, R, p), Writers(m, R, p), <<r, v>>)
    BY EntryWriters
  <1>2. <<r, v>> \in Writers(m2, R, p) <=> <<r, v>> \in Writers(m, R, p)
    <2>1. Maps(m, r, v, p) <=> e.ppn = p
      BY DEF Maps
    <2> QED
      BY <2>1, EntryWriters
  <1> QED
    BY <1>1, <1>2 DEF SameBut

-----------------------------------------------------------------------------
(* vms_write, before and after a fault                                     *)

(* Only int o of page p differs, and is x.                                 *)
IntIs(m, m2, p, o, x) ==
  /\ m2 \in Memory
  /\ \A q \in Pages : m2[q].pte = m[q].pte
  /\ \A q \in Pages : q # p => m2[q] = m[q]
  /\ m2[p].ints = [m[p].ints EXCEPT ![o] = x]

LEMMA IntSet ==
  ASSUME NEW m \in Memory, NEW p \in Pages, NEW o \in Offsets, NEW x \in Int
  PROVE  IntIs(m, [m EXCEPT ![p].ints[o] = x], p, o, x)
  <1> DEFINE t == [m[p].ints EXCEPT ![o] = x]
             y == [m[p] EXCEPT !.ints = t]
             m2 == [m EXCEPT ![p] = y]
  <1>1. m[p] \in [pte : [Indices -> PTE], ints : [Offsets -> Int]]
    BY DEF Memory
  <1>2. t \in [Offsets -> Int]
    BY <1>1
  <1> HIDE DEF t
  <1>3. /\ y \in [pte : [Indices -> PTE], ints : [Offsets -> Int]]
        /\ y.ints = t /\ y.pte = m[p].pte
    BY <1>1, <1>2
  <1> HIDE DEF y
  <1>4. /\ m2 \in Memory /\ m2[p] = y
        /\ \A q \in Pages : q # p => m2[q] = m[q]
    BY <1>3 DEF Memory
  <1> HIDE DEF m2
  <1>5. IntIs(m, m2, p, o, x)
    BY <1>3, <1>4 DEF IntIs, t
  <1> QED
    BY <1>5 DEF m2, y, t

(* The walk to v.                                                          *)
LEMMA WalkReaches ==
  ASSUME NEW v \in VirtualAddresses, Reaches(v)
  PROVE  In2(memory, root_page_table, v[1], v[2])
  <1>1. /\ Has(PTEOf(root_page_table, v[1]), "valid")
        /\ Has(PTEOf(PageAt(root_page_table, <<v[1]>>), v[2]), "valid")
    BY DEF Reaches, should_generate_fault
  <1>2. /\ PTEOf(root_page_table, v[1]) = memory[root_page_table].pte[v[1]]
        /\ PTEOf(PageAt(root_page_table, <<v[1]>>), v[2])
             = memory[At1(memory, root_page_table, v[1])].pte[v[2]]
    BY MappedIs
  <1> QED
    BY <1>1, <1>2, AddressesAre DEF Has, In2, In1, Valid

LEMMA AccessMapped ==
  ASSUME NEW v \in VirtualAddresses, Reaches(v), Has(EntryOf(root_page_table, v), "valid")
  PROVE  In3(memory, root_page_table, v[1], v[2], v[3])
  <1>1. In2(memory, root_page_table, v[1], v[2])
    BY WalkReaches
  <1>2. EntryOf(root_page_table, v).flags = FlagsAt(memory, root_page_table, v[1], v[2], v[3])
    BY MappedIs
  <1> QED
    BY <1>1, <1>2, AddressesAre DEF In3, Has, Valid, FlagsAt

(* Memory with the entries of the tables unchanged.                        *)
LEMMA EntriesKept ==
  ASSUME NEW m, NEW m2 \in Memory, NEW R, NEW A, Forest(m, R, A), R \subseteq Pages,
         \A q \in Pages : m2[q].pte = m[q].pte, Zeroed(m2, A)
  PROVE  Forest(m2, R, A) /\ SameMaps(m, m2, R)
  <1>1. PICK home : Homes(m, R, A, home)
    BY DEF Forest
  <1>2. A \subseteq Pages
    BY DEF Forest
  <1>3. ASSUME NEW s \in R
        PROVE  UpperKept(m, m2, s) /\ SameTree(m, m2, s)
    <2>1. UpperKept(m, m2, s)
      BY <1>1, <1>2 DEF UpperKept, Homes, HomesOf
    <2>2. ASSUME NEW i, NEW j, In2(m, s, i, j)
          PROVE  SameLinks(m, m2, At2(m, s, i, j))
      <3>1. At2(m, s, i, j) \in Pages
        BY <1>1, <1>2, <2>2 DEF Homes, HomesOf
      <3> QED
        BY <3>1 DEF SameLinks, Valid, To
    <2> QED
      BY <2>1, <2>2, TreeKept
  <1>4. SameMaps(m, m2, R)
    <2> SUFFICES ASSUME NEW s \in R, NEW a, NEW b, NEW c
                 PROVE  /\ In3(m2, s, a, b, c) <=> In3(m, s, a, b, c)
                        /\ In3(m, s, a, b, c) =>
                             /\ At3(m2, s, a, b, c) = At3(m, s, a, b, c)
                             /\ FlagsAt(m2, s, a, b, c) = FlagsAt(m, s, a, b, c)
      BY DEF SameMaps
    <2>1. ASSUME In3(m, s, a, b, c)
          PROVE  FlagsAt(m2, s, a, b, c) = FlagsAt(m, s, a, b, c)
      <3>1. In2(m, s, a, b) /\ At2(m, s, a, b) \in Pages
        BY <1>1, <1>2, <2>1 DEF In3, Homes, HomesOf
      <3>2. At2(m2, s, a, b) = At2(m, s, a, b)
        BY <1>3, <3>1 DEF SameTree, SameTables
      <3> QED
        BY <3>1, <3>2 DEF FlagsAt
    <2> QED
      BY <1>3, <2>1 DEF SameTree
  <1>5. ASSUME NEW s \in R PROVE HomesOf(m2, s, A, home)
    <2>1. HomesOf(m, s, A, home) /\ SameTree(m, m2, s)
      BY <1>1, <1>3 DEF Homes
    <2>2. s \in A /\ home[s] = RootHome(s)
      BY <2>1 DEF HomesOf
    <2>3. ASSUME NEW a, In1(m2, s, a)
          PROVE  At1(m2, s, a) \in A /\ home[At1(m2, s, a)] = Home1(s, a)
      BY <2>1, <2>3 DEF HomesOf, SameTree, SameTables
    <2>4. ASSUME NEW a, NEW b, In2(m2, s, a, b)
          PROVE  At2(m2, s, a, b) \in A /\ home[At2(m2, s, a, b)] = Home2(s, a, b)
      BY <2>1, <2>4 DEF HomesOf, SameTree, SameTables
    <2>5. ASSUME NEW a, NEW b, NEW c, In3(m2, s, a, b, c)
          PROVE  At3(m2, s, a, b, c) \in A /\ home[At3(m2, s, a, b, c)] = DataHome(a, b, c)
      BY <2>1, <2>5 DEF HomesOf, SameTree
    <2> QED
      BY <2>2, <2>3, <2>4, <2>5 DEF HomesOf
  <1>6. Reached(m2, R, A)
    <2> SUFFICES ASSUME NEW q \in A PROVE \E s \in R : ReachedFrom(m2, s, q)
      BY DEF Reached
    <2>1. PICK s \in R : ReachedFrom(m, s, q)
      BY DEF Forest, Reached
    <2>2. SameTree(m, m2, s)
      BY <1>3
    <2>3. CASE q = s
      BY <2>3 DEF ReachedFrom
    <2>4. CASE \E a : In1(m, s, a) /\ q = At1(m, s, a)
      BY <2>2, <2>4 DEF ReachedFrom, SameTree, SameTables
    <2>5. CASE \E a, b : In2(m, s, a, b) /\ q = At2(m, s, a, b)
      BY <2>2, <2>5 DEF ReachedFrom, SameTree, SameTables
    <2>6. CASE \E a, b, c : In3(m, s, a, b, c) /\ q = At3(m, s, a, b, c)
      BY <2>2, <2>6 DEF ReachedFrom, SameTree
    <2> QED
      BY <2>1, <2>3, <2>4, <2>5, <2>6 DEF ReachedFrom
  <1>7. Addressed(m2, R) /\ SharedAlike(m2, R)
    BY <1>4 DEF Forest, Addressed, SharedAlike, SameMaps
  <1>8. Plain(m2, R)
    BY <1>3, PlainKept DEF Forest
  <1>9. \E h : Homes(m2, R, A, h)
    BY <1>5 DEF Homes
  <1> QED
    BY <1>2, <1>4, <1>6, <1>7, <1>8, <1>9 DEF Forest

LEMMA WriteKeeps ==
  ASSUME Forest(memory, roots, allocated), Values \subseteq Int,
         NEW v \in VirtualAddresses, NEW o \in Offsets, NEW x \in Values,
         vms_write(v, o, x)
  PROVE  /\ Forest(memory', roots, allocated)
         /\ SameMaps(memory, memory', roots)
         /\ In3(memory, root_page_table, v[1], v[2], v[3])
         /\ "write" \in FlagsAt(memory, root_page_table, v[1], v[2], v[3])
         /\ IntIs(memory, memory', At3(memory, root_page_table, v[1], v[2], v[3]), o, x)
  <1> DEFINE r == root_page_table
             page == At3(memory, r, v[1], v[2], v[3])
  <1>1. /\ In3(memory, r, v[1], v[2], v[3])
        /\ "write" \in FlagsAt(memory, r, v[1], v[2], v[3])
        /\ EntryOf(r, v).ppn = page /\ r \in roots
    <2>1. /\ Has(EntryOf(r, v), "valid") /\ Has(EntryOf(r, v), "write")
          /\ Reaches(v) /\ r \in roots
      BY DEF vms_write, should_generate_fault, Accesses
    <2>2. In3(memory, r, v[1], v[2], v[3])
      BY <2>1, AccessMapped
    <2>3. /\ EntryOf(r, v).ppn = page
          /\ EntryOf(r, v).flags = FlagsAt(memory, r, v[1], v[2], v[3])
      BY MappedIs
    <2> QED
      BY <2>1, <2>2, <2>3 DEF Has
  <1>2. PICK home : Homes(memory, roots, allocated, home)
    BY DEF Forest
  <1>3. /\ roots \subseteq Pages /\ memory \in Memory
        /\ page \in allocated /\ page \in Pages
    BY <1>1, <1>2 DEF Forest, Homes, HomesOf
  <1>4. memory' = [memory EXCEPT ![page].ints[o] = x]
    BY <1>1 DEF vms_write
  <1> HIDE DEF page
  <1>5. IntIs(memory, memory', page, o, x)
    BY <1>3, <1>4, IntSet
  <1>6. Zeroed(memory', allocated)
    BY <1>3, <1>5 DEF IntIs, Zeroed, Forest
  <1>7. Forest(memory', roots, allocated) /\ SameMaps(memory, memory', roots)
    BY <1>3, <1>5, <1>6, EntriesKept DEF IntIs
  <1> QED
    BY <1>1, <1>5, <1>7 DEF page

(* The entry that page_fault_handler leaves at v, with that page.          *)
Repaired(m, r, v, page) ==
  [flags |-> (FlagsAt(m, r, v[1], v[2], v[3]) \cup {"write"}) \ {"custom"}, ppn |-> page]

(* The page that the handler gives to the entry that led to old.           *)
HandlerPage(old) == IF ref_track[old] = 0 THEN old ELSE NewPage(0)

(* The count of a shared page goes down.                                   *)
OneLess(ref, ref2, p) == ref2 = [ref EXCEPT ![p] = IF ref[p] = 0 THEN 0 ELSE ref[p] - 1]

(* The entry at v leads to p, which nothing else does; the other pages in  *)
(* use keep their ints.                                                    *)
OwnPage(m, m2, R, A, r, v, old, p) ==
  /\ \A q \in A : q # p => m2[q].ints = m[q].ints
  /\ p = old \/ p \in Pages \ A
  /\ p = old => Alone(m, R, r, v[1], v[2], v[3], old)

LEMMA FaultRepairs ==
  ASSUME Forest(memory, roots, allocated), Counted(memory, roots, ref_track),
         ref_track \in [Pages -> Int],
         NEW v \in VirtualAddresses, NEW o \in Offsets, NEW x \in Values,
         vms_write_after_fault(v, o, x),
         NEW r, r = root_page_table, NEW old, old = At3(memory, r, v[1], v[2], v[3]),
         NEW e, e = Repaired(memory, r, v, HandlerPage(old))
  PROVE  /\ Forest(memory', roots, allocated')
         /\ Counted(memory', roots, ref_track')
         /\ OneEntry(memory, memory', roots, r, v[1], v[2], v[3], e)
         /\ In3(memory, r, v[1], v[2], v[3])
         /\ "custom" \in FlagsAt(memory, r, v[1], v[2], v[3])
         /\ memory'[e.ppn].ints = [memory[old].ints EXCEPT ![o] = x]
         /\ OwnPage(memory, memory', roots, allocated, r, v, old, e.ppn)
         /\ OneLess(ref_track, ref_track', old)
  <1> DEFINE i == v[1]
             j == v[2]
             k == v[3]
             f == FlagsAt(memory, r, i, j, k)
             l0 == At2(memory, r, i, j)
             page == HandlerPage(old)
             m1 == [memory EXCEPT ![page] = memory[old]]
             m2 == SetPte(m1, l0, k, e)
             m3 == [m2 EXCEPT ![page].ints[o] = x]
  <1>1. /\ r \in roots /\ In2(memory, r, i, j) /\ In3(memory, r, i, j, k)
        /\ "custom" \in f /\ "valid" \in f
        /\ L0Of(r, v) = l0 /\ Leaf(l0, v) = memory[l0].pte[k]
        /\ PTEOf(l0, k) = memory[l0].pte[k]
        /\ memory[l0].pte[k].ppn = old /\ memory[l0].pte[k].flags = f
        /\ ref_track[old] # 0 => Free # {}
    <2>1. L0Of(r, v) = l0 /\ EntryOf(r, v) = memory[l0].pte[k] /\ EntryOf(r, v).ppn = old
      BY MappedIs
    <2>2. /\ r \in roots /\ Reaches(v) /\ Has(EntryOf(r, v), "custom")
          /\ ~LacksPage(v) /\ Has(Leaf(l0, v), "valid")
      BY <2>1 DEF vms_write_after_fault, Accesses, CallsHandler
    <2>3. In2(memory, r, i, j)
      BY <2>2, WalkReaches
    <2>4. Leaf(l0, v) = memory[l0].pte[k] /\ PTEOf(l0, k) = memory[l0].pte[k]
      BY DEF Leaf, PTEOf
    <2>5. memory[l0].pte[k].ppn = old /\ memory[l0].pte[k].flags = f
      BY DEF At3, To, FlagsAt
    <2>6. "custom" \in f /\ "valid" \in f
      BY <2>1, <2>2, <2>4, <2>5 DEF Has
    <2>7. In3(memory, r, i, j, k)
      BY <2>3, <2>5, <2>6, AddressesAre DEF In3, Valid
    <2>8. ref_track[old] # 0 => Free # {}
      BY <2>1, <2>2 DEF LacksPage
    <2> QED
      BY <2>1, <2>2, <2>3, <2>4, <2>5, <2>6, <2>7, <2>8
  <1>2. /\ memory' = m3 /\ allocated' = allocated \cup {page}
        /\ ref_track' = [ref_track EXCEPT
                           ![old] = IF ref_track[old] = 0 THEN 0 ELSE ref_track[old] - 1]
    <2>1. page_fault_handler(l0, k) =
            Handled(l0, k, page, memory[old],
                    IF ref_track[old] = 0 THEN 0 ELSE ref_track[old] - 1)
      BY <1>1 DEF page_fault_handler, HandlerPage
    <2>2. [flags |-> (memory[l0].pte[k].flags \cup {"write"}) \ {"custom"}, ppn |-> page] = e
      BY <1>1 DEF Repaired
    <2>3. Handled(l0, k, page, memory[old],
                  IF ref_track[old] = 0 THEN 0 ELSE ref_track[old] - 1)
            = [page |-> page,
               allocated |-> allocated \cup {page},
               memory |-> m2,
               ref_track |-> [ref_track EXCEPT
                                ![old] = IF ref_track[old] = 0 THEN 0 ELSE ref_track[old] - 1]]
      BY <1>1, <2>2 DEF Handled, SetPte, Has
    <2> DEFINE s == page_fault_handler(l0, k)
    <2>4. /\ memory' = [s.memory EXCEPT ![s.page].ints[o] = x]
          /\ allocated' = s.allocated /\ ref_track' = s.ref_track
      BY <1>1 DEF vms_write_after_fault
    <2>5. /\ s.memory = m2 /\ s.page = page /\ s.allocated = allocated \cup {page}
          /\ s.ref_track = [ref_track EXCEPT
                              ![old] = IF ref_track[old] = 0 THEN 0 ELSE ref_track[old] - 1]
      <3> DEFINE count == [ref_track EXCEPT
                             ![old] = IF ref_track[old] = 0 THEN 0 ELSE ref_track[old] - 1]
                 used == allocated \cup {page}
      <3>1. s = [page |-> page, allocated |-> used, memory |-> m2, ref_track |-> count]
        BY <2>1, <2>3
      <3> HIDE DEF s, page, m2, count, used
      <3>2. s.memory = m2 /\ s.page = page /\ s.allocated = used /\ s.ref_track = count
        BY <3>1
      <3> QED
        BY <3>2 DEF used, count
    <2> HIDE DEF s, page, m2, l0, k
    <2> QED
      BY <2>4, <2>5
  <1>3. PICK home : Homes(memory, roots, allocated, home)
    BY DEF Forest
  <1>4. /\ roots \subseteq Pages /\ allocated \subseteq Pages /\ memory \in Memory
        /\ l0 \in Tables(allocated, home) /\ l0 \in allocated
        /\ old \in allocated /\ old \notin Tables(allocated, home)
    <2>1. roots \subseteq Pages /\ allocated \subseteq Pages /\ memory \in Memory
      BY <1>3 DEF Forest, Homes, HomesOf
    <2> QED
      BY <1>1, <1>3, <2>1, TablesAre DEF Tables
  <1>5. /\ page \in Pages /\ page \notin Tables(allocated, home)
        /\ ref_track[old] = 0 => page = old
        /\ ref_track[old] # 0 => page \in Free
    BY <1>1, <1>4, FirstFree DEF HandlerPage, Free, Tables
  <1>6. e \in PTE /\ e.ppn = page /\ "valid" \in e.flags /\ "write" \in e.flags
    <2>1. f \subseteq Flags
      <3>1. memory[l0].pte[k] \in PTE
        BY <1>4, AddressesAre DEF Memory, Tables
      <3> QED
        BY <1>1, <3>1 DEF PTE
    <2>2. e = [flags |-> (f \cup {"write"}) \ {"custom"}, ppn |-> page]
      BY DEF Repaired
    <2> HIDE DEF f, page
    <2> QED
      BY <1>1, <1>5, <2>1, <2>2 DEF PTE, Flags
  <1>7. k \in Indices /\ <<i, j, k>> \in VirtualAddresses
    <2>1. v = <<i, j, k>>
      BY AddressesAre
    <2> QED
      BY <2>1, AddressesAre
  <1> HIDE DEF i, j, k, f, l0, page
  <1>8. /\ m1 \in Memory /\ m1[page] = memory[old]
        /\ \A q \in Pages : q # page => m1[q] = memory[q]
    BY <1>4, <1>5 DEF Memory
  <1> HIDE DEF m1
  <1>9. PteIs(m1, m2, l0, k, e)
    BY <1>4, <1>6, <1>7, <1>8, PteSet
  <1> HIDE DEF m2
  <1>10. IntIs(m2, m3, page, o, x)
    BY <1>5, <1>9, IntSet, ConstantsAssumption DEF PteIs, ConstantsAssumption
  <1> HIDE DEF m3
  <1>11. page # l0
    BY <1>4, <1>5
  <1>12. LeafSet(memory, m3, l0, k, e, Tables(allocated, home))
    BY <1>4, <1>5, <1>8, <1>9, <1>10 DEF PteIs, IntIs, LeafSet, Tables
  <1>13. OneLeaf(memory, m3, roots, r, i, j, k, e)
    BY <1>1, <1>3, <1>4, <1>7, <1>12, LeafEffect DEF l0
  <1>14. Zeroed(m3, allocated \cup {page})
    BY <1>4, <1>8, <1>9, <1>10 DEF Zeroed, PteIs, IntIs, Forest
  <1>15. Maps(memory, r, v, old) /\ Writes(FlagsAt(memory, r, v[1], v[2], v[3]))
    BY <1>1 DEF Maps, Writes, i, j, k, f
  <1>16. ref_track[old] = 0 <=> Alone(memory, roots, r, i, j, k, old)
    BY <1>1, <1>4, <1>15, SharedIsCounted DEF i, j, k
  <1>17. Alone(memory, roots, r, i, j, k, page)
    <2>1. CASE ref_track[old] = 0
      BY <1>5, <1>16, <2>1
    <2>2. CASE ref_track[old] # 0
      BY <1>3, <1>5, <2>2 DEF Alone, Homes, HomesOf, Free
    <2> QED
      BY <2>1, <2>2
  <1>18. m3 \in Memory
    BY <1>10 DEF IntIs
  <1>19. Forest(m3, roots, allocated \cup {page})
    <2>1. page \notin allocated \/ page = old
      BY <1>5 DEF Free
    <2>2. page # old => ~Alone(memory, roots, r, i, j, k, old)
      BY <1>5, <1>16
    <2>3. old = At3(memory, r, i, j, k)
      BY DEF i, j, k
    <2> QED
      BY <1>1, <1>4, <1>5, <1>6, <1>7, <1>13, <1>14, <1>17, <1>18, <2>1, <2>2, <2>3, LeafPut
  <1>20. OneEntry(memory, m3, roots, r, v[1], v[2], v[3], e)
    BY <1>13 DEF OneLeaf, i, j, k
  <1>21. Writes(e.flags)
    BY <1>6 DEF Writes
  <1>22. Counted(m3, roots, ref_track')
    <2>1. CASE ref_track[old] = 0
      <3>1. ref_track' = ref_track
        BY <1>2, <2>1
      <3>2. Counted(m3, roots, ref_track)
        BY <1>1, <1>5, <1>6, <1>15, <1>20, <1>21, <2>1, CountedKept
      <3> QED
        BY <3>1, <3>2
    <2>2. CASE ref_track[old] # 0
      <3>1. ref_track' = [ref_track EXCEPT ![old] = ref_track[old] - 1]
        BY <1>2, <2>2
      <3>2. e.ppn \in Pages \ allocated /\ old \in Pages
        BY <1>4, <1>5, <1>6, <2>2 DEF Free
      <3>3. Counted(m3, roots, [ref_track EXCEPT ![old] = ref_track[old] - 1])
        BY <1>1, <1>4, <1>6, <1>15, <1>20, <1>21, <2>2, <3>2, CountedMoved
      <3> QED
        BY <3>1, <3>3
    <2> QED
      BY <2>1, <2>2
  <1>23. /\ m3[page].ints = [memory[old].ints EXCEPT ![o] = x]
         /\ \A q \in allocated : q # page => m3[q].ints = memory[q].ints
    BY <1>4, <1>5, <1>8, <1>9, <1>10 DEF PteIs, IntIs
  <1>24. page = old => Alone(memory, roots, r, v[1], v[2], v[3], old)
    BY <1>17 DEF i, j, k
  <1>25. OwnPage(memory, m3, roots, allocated, r, v, old, page)
    BY <1>5, <1>23, <1>24 DEF OwnPage, Free
  <1> QED
    BY <1>1, <1>2, <1>5, <1>6, <1>19, <1>20, <1>22, <1>23, <1>25 DEF i, j, k, f, OneLess

-----------------------------------------------------------------------------
(* The paths of a root, and their pages                                    *)

LEMMA PathsOf ==
  ASSUME NEW root
  PROVE  /\ \A p : p \in TablePaths(root) <=>
              \/ p = <<>>
              \/ \E i : p = <<i>> /\ In1(memory, root, i)
              \/ \E i, j : p = <<i, j>> /\ In2(memory, root, i, j)
         /\ \A p : p \in Paths(root) <=>
              \/ p \in TablePaths(root)
              \/ \E i, j, k : p = <<i, j, k>> /\ In3(memory, root, i, j, k)
  BY PathsAre DEF Paths, TablePaths

(* The path that a home stands for.                                        *)
PathOf(h) == IF h[1] = NONE THEN <<h[2], h[3], h[4]>>
             ELSE IF h[2] = NONE THEN <<>>
             ELSE IF h[3] = NONE THEN <<h[2]>>
             ELSE <<h[2], h[3]>>

LEMMA HomeTells ==
  ASSUME NEW A, NEW home, NEW root \in Pages, HomesOf(memory, root, A, home)
  PROVE  /\ \A p \in Paths(root) :
              PageAt(root, p) \in A /\ PathOf(home[PageAt(root, p)]) = p
         /\ \A p \in TablePaths(root) : home[PageAt(root, p)][1] = root
  <1>1. root # NONE /\ \A i \in Indices : i # NONE
    BY PagesFinite DEF NONE
  <1>2. /\ PageAt(root, <<>>) \in A /\ PathOf(home[PageAt(root, <<>>)]) = <<>>
        /\ home[PageAt(root, <<>>)][1] = root
    <2>1. PageAt(root, <<>>) = root
      BY PageAtIs
    <2>2. home[root] = RootHome(root) /\ root \in A
      BY DEF HomesOf
    <2>3. PathOf(RootHome(root)) = <<>> /\ RootHome(root)[1] = root
      BY <1>1 DEF PathOf, RootHome
    <2> QED
      BY <2>1, <2>2, <2>3
  <1>3. ASSUME NEW i, In1(memory, root, i)
        PROVE  /\ PageAt(root, <<i>>) \in A /\ PathOf(home[PageAt(root, <<i>>)]) = <<i>>
               /\ home[PageAt(root, <<i>>)][1] = root
    <2>1. PageAt(root, <<i>>) = At1(memory, root, i)
      BY PageAtIs
    <2>2. home[At1(memory, root, i)] = Home1(root, i) /\ At1(memory, root, i) \in A
      BY <1>3 DEF HomesOf
    <2>3. i # NONE
      BY <1>1, <1>3 DEF In1
    <2>4. PathOf(Home1(root, i)) = <<i>> /\ Home1(root, i)[1] = root
      BY <1>1, <2>3 DEF PathOf, Home1
    <2> QED
      BY <2>1, <2>2, <2>4
  <1>4. ASSUME NEW i, NEW j, In2(memory, root, i, j)
        PROVE  /\ PageAt(root, <<i, j>>) \in A
               /\ PathOf(home[PageAt(root, <<i, j>>)]) = <<i, j>>
               /\ home[PageAt(root, <<i, j>>)][1] = root
    <2>1. PageAt(root, <<i, j>>) = At2(memory, root, i, j)
      BY PageAtIs
    <2>2. home[At2(memory, root, i, j)] = Home2(root, i, j) /\ At2(memory, root, i, j) \in A
      BY <1>4 DEF HomesOf
    <2>3. i # NONE /\ j # NONE
      BY <1>1, <1>4 DEF In1, In2
    <2>4. PathOf(Home2(root, i, j)) = <<i, j>> /\ Home2(root, i, j)[1] = root
      BY <1>1, <2>3 DEF PathOf, Home2
    <2> QED
      BY <2>1, <2>2, <2>4
  <1>5. ASSUME NEW i, NEW j, NEW k, In3(memory, root, i, j, k)
        PROVE  /\ PageAt(root, <<i, j, k>>) \in A
               /\ PathOf(home[PageAt(root, <<i, j, k>>)]) = <<i, j, k>>
    <2>1. PageAt(root, <<i, j, k>>) = At3(memory, root, i, j, k)
      BY PageAtIs
    <2>2. /\ home[At3(memory, root, i, j, k)] = DataHome(i, j, k)
          /\ At3(memory, root, i, j, k) \in A
      BY <1>5 DEF HomesOf
    <2>3. PathOf(DataHome(i, j, k)) = <<i, j, k>>
      BY DEF PathOf, DataHome
    <2> QED
      BY <2>1, <2>2, <2>3
  <1>6. ASSUME NEW p \in TablePaths(root)
        PROVE  /\ PageAt(root, p) \in A /\ PathOf(home[PageAt(root, p)]) = p
               /\ home[PageAt(root, p)][1] = root
    <2>1. \/ p = <<>>
          \/ \E i : p = <<i>> /\ In1(memory, root, i)
          \/ \E i, j : p = <<i, j>> /\ In2(memory, root, i, j)
      BY PathsOf
    <2> QED
      BY <1>2, <1>3, <1>4, <2>1
  <1>7. ASSUME NEW p \in Paths(root)
        PROVE  PageAt(root, p) \in A /\ PathOf(home[PageAt(root, p)]) = p
    <2>1. \/ p \in TablePaths(root)
          \/ \E i, j, k : p = <<i, j, k>> /\ In3(memory, root, i, j, k)
      BY PathsOf
    <2> QED
      BY <1>5, <1>6, <2>1
  <1> QED
    BY <1>6, <1>7

LEMMA PathsFinite ==
  ASSUME NEW A, A \subseteq Pages, NEW home, NEW root \in Pages,
         HomesOf(memory, root, A, home)
  PROVE  /\ IsFiniteSet(Paths(root))
         /\ Paths(root) \subseteq Path
         /\ \A p, q \in Paths(root) : PageAt(root, p) = PageAt(root, q) => p = q
  <1>1. \A p \in Paths(root) : PageAt(root, p) \in Pages /\ PathOf(home[PageAt(root, p)]) = p
    BY HomeTells
  <1>2. \A p, q \in Paths(root) : PageAt(root, p) = PageAt(root, q) => p = q
    BY <1>1
  <1> DEFINE f == [p \in Paths(root) |-> PageAt(root, p)]
  <1>3. f \in Injection(Paths(root), Pages)
    BY <1>1, <1>2 DEF Injection, IsInjective
  <1> HIDE DEF f
  <1>4. IsFiniteSet(Paths(root))
    BY <1>3, PagesFinite, FS_Injection
  <1>5. ASSUME NEW p \in Paths(root) PROVE p \in Path
    <2>1. <<>> \in Path
      BY DEF Path
    <2>2. ASSUME NEW i \in Indices PROVE <<i>> \in Path
      BY DEF Path
    <2>3. ASSUME NEW i \in Indices, NEW j \in Indices PROVE <<i, j>> \in Path
      BY DEF Path
    <2>4. ASSUME NEW i \in Indices, NEW j \in Indices, NEW k \in Indices
          PROVE  <<i, j, k>> \in Path
      BY DEF Path
    <2>5. \/ p = <<>>
          \/ \E i : p = <<i>> /\ In1(memory, root, i)
          \/ \E i, j : p = <<i, j>> /\ In2(memory, root, i, j)
          \/ \E i, j, k : p = <<i, j, k>> /\ In3(memory, root, i, j, k)
      BY PathsOf
    <2> QED
      BY <2>1, <2>2, <2>3, <2>4, <2>5 DEF In1, In2, In3
  <1> QED
    BY <1>2, <1>4, <1>5

-----------------------------------------------------------------------------
(* copy                                                                    *)

LEMMA DuplicatedIs ==
  ASSUME NEW mode \in {"DEFAULT", "COW"}
  PROVE  /\ Duplicated(mode) \subseteq Paths(root_page_table)
         /\ TablePaths(root_page_table) \subseteq Duplicated(mode)
         /\ <<>> \in Duplicated(mode)
         /\ \A i : In1(memory, root_page_table, i) => <<i>> \in Duplicated(mode)
         /\ \A i, j : In2(memory, root_page_table, i, j) => <<i, j>> \in Duplicated(mode)
         /\ \A i, j, k : In3(memory, root_page_table, i, j, k) =>
              (<<i, j, k>> \in Duplicated(mode) <=> mode = "DEFAULT")
         /\ \A p : p \in Duplicated(mode) =>
              \/ p = <<>>
              \/ \E i : p = <<i>> /\ In1(memory, root_page_table, i)
              \/ \E i, j : p = <<i, j>> /\ In2(memory, root_page_table, i, j)
              \/ \E i, j, k :
                   p = <<i, j, k>> /\ In3(memory, root_page_table, i, j, k) /\ mode = "DEFAULT"
  <1> DEFINE r == root_page_table
  <1>1. /\ Duplicated(mode) \subseteq Paths(r)
        /\ TablePaths(r) \subseteq Duplicated(mode)
    BY DEF Duplicated, Paths
  <1>2. /\ \A p : p \in TablePaths(r) <=>
             \/ p = <<>>
             \/ \E i : p = <<i>> /\ In1(memory, r, i)
             \/ \E i, j : p = <<i, j>> /\ In2(memory, r, i, j)
        /\ \A p : p \in Paths(r) <=>
             \/ p \in TablePaths(r)
             \/ \E i, j, k : p = <<i, j, k>> /\ In3(memory, r, i, j, k)
    BY PathsOf
  <1>3. \A i, j, k : <<i, j, k>> \notin TablePaths(r)
    <2>1. /\ \A i, j, k : <<i, j, k>> # <<>>
          /\ \A i, j, k, a : <<i, j, k>> # <<a>>
          /\ \A i, j, k, a, b : <<i, j, k>> # <<a, b>>
      OBVIOUS
    <2>2. \A p : p \in TablePaths(r) =>
            \/ p = <<>>
            \/ \E i : p = <<i>>
            \/ \E i, j : p = <<i, j>>
      BY PathsOf
    <2> QED
      BY <2>1, <2>2
  <1>4. mode = "DEFAULT" => Duplicated(mode) = Paths(r)
    BY DEF Duplicated
  <1>5. mode # "DEFAULT" => Duplicated(mode) = TablePaths(r)
    BY DEF Duplicated
  <1>6. /\ <<>> \in Duplicated(mode)
        /\ \A i : In1(memory, r, i) => <<i>> \in Duplicated(mode)
        /\ \A i, j : In2(memory, r, i, j) => <<i, j>> \in Duplicated(mode)
    BY <1>1, <1>2
  <1>7. \A i, j, k : In3(memory, r, i, j, k) =>
          (<<i, j, k>> \in Duplicated(mode) <=> mode = "DEFAULT")
    BY <1>2, <1>3, <1>4, <1>5
  <1>8. \A p : p \in Duplicated(mode) =>
          \/ p = <<>>
          \/ \E i : p = <<i>> /\ In1(memory, r, i)
          \/ \E i, j : p = <<i, j>> /\ In2(memory, r, i, j)
          \/ \E i, j, k : p = <<i, j, k>> /\ In3(memory, r, i, j, k) /\ mode = "DEFAULT"
    BY <1>2, <1>4, <1>5
  <1> QED
    BY <1>1, <1>6, <1>7, <1>8

(* copy gives each path a page of its own.                                 *)
LEMMA DuplicateIs ==
  ASSUME NEW mode \in {"DEFAULT", "COW"}, Forest(memory, roots, allocated),
         root_page_table \in roots,
         Cardinality(Duplicated(mode)) <= Cardinality(Free)
  PROVE  Duplicate(mode) \in Injection(Duplicated(mode), Free)
  <1> DEFINE r == root_page_table
             D == Duplicated(mode)
             dup == Duplicate(mode)
             place(p) == Cardinality({q \in D : Before(q, p)})
  <1>1. PICK home : Homes(memory, roots, allocated, home)
    BY DEF Forest
  <1>2. r \in Pages /\ allocated \subseteq Pages /\ HomesOf(memory, r, allocated, home)
    BY <1>1 DEF Forest, Homes, HomesOf
  <1>3. IsFiniteSet(Paths(r)) /\ Paths(r) \subseteq Path
    BY <1>2, PathsFinite
  <1>4. IsFiniteSet(D) /\ D \in SUBSET Path
    BY <1>3, DuplicatedIs, FS_Subset
  <1>5. dup = [p \in D |-> NewPage(place(p))]
    BY DEF Duplicate
  <1>6. IsFiniteSet(Free) /\ Cardinality(Free) \in Nat /\ Cardinality(D) \in Nat
    <2>1. IsFiniteSet(Free)
      BY PagesFinite, FS_Subset DEF Free
    <2> QED
      BY <1>4, <2>1, FS_CardinalityType
  <1>7. Cardinality(D) <= Cardinality(Free)
    OBVIOUS
  <1> HIDE DEF D, dup
  <1>8. ASSUME NEW p \in D
        PROVE  /\ place(p) \in Nat /\ place(p) < Cardinality(D)
               /\ \A q \in D : Before(q, p) => place(q) < place(p)
    BY <1>4, PlacesDiffer
  <1>9. ASSUME NEW p \in D, NEW q \in D, p # q
        PROVE  place(p) # place(q)
    <2>1. Before(p, q) \/ Before(q, p)
      BY <1>4, <1>9, BeforeTotal
    <2> HIDE DEF place
    <2>2. place(p) \in Nat /\ place(q) \in Nat
      BY <1>8
    <2>3. place(p) < place(q) \/ place(q) < place(p)
      BY <1>8, <2>1
    <2> QED
      BY <2>2, <2>3
  <1> HIDE DEF place
  <1>10. \A p \in D : place(p) \in Nat /\ place(p) < Cardinality(Free)
    BY <1>6, <1>7, <1>8
  <1>11. dup \in [D -> Free]
    BY <1>5, <1>10, NewPageIsFree
  <1>12. ASSUME NEW p \in D, NEW q \in D, dup[p] = dup[q]
         PROVE  p = q
    BY <1>5, <1>9, <1>10, <1>12, NewPagesDiffer
  <1>13. dup \in Injection(D, Free)
    BY <1>11, <1>12 DEF Injection, IsInjective
  <1> QED
    BY <1>13 DEF D, dup

(* What the pages hold after copy.                                         *)
LEMMA CopiedMemoryIs ==
  ASSUME NEW mode \in {"DEFAULT", "COW"}, Forest(memory, roots, allocated),
         NEW r, r = root_page_table, r \in roots,
         NEW dup, dup = Duplicate(mode), dup \in Injection(Duplicated(mode), Free),
         NEW m2, m2 = CopiedMemory(mode)
  PROVE  /\ \A p \in Duplicated(mode) :
              m2[dup[p]] = IF Len(p) = 3 THEN memory[PageAt(r, p)] ELSE ForkedTable(mode, p)
         /\ \A p \in TablePaths(r) : m2[PageAt(r, p)] = OriginalTable(mode, p)
         /\ \A q \in Pages :
              /\ \A p \in Duplicated(mode) : dup[p] # q
              /\ \A p \in TablePaths(r) : PageAt(r, p) # q
              => m2[q] = memory[q]
         /\ DOMAIN m2 = Pages
  <1> DEFINE D == Duplicated(mode)
             T == TablePaths(r)
             forked(p) == IF Len(p) = 3 THEN memory[PageAt(r, p)] ELSE ForkedTable(mode, p)
             new(q) == {p \in D : dup[p] = q}
             old(q) == {p \in T : PageAt(r, p) = q}
  <1>1. /\ DOMAIN dup = D /\ \A p \in D : dup[p] \in Free
        /\ \A p, q \in D : dup[p] = dup[q] => p = q
    BY DEF Injection, IsInjective
  <1>2. PICK home : Homes(memory, roots, allocated, home)
    BY DEF Forest
  <1>3. r \in Pages /\ allocated \subseteq Pages /\ HomesOf(memory, r, allocated, home)
    BY <1>2 DEF Forest, Homes, HomesOf
  <1>4. /\ \A p \in T : PageAt(r, p) \in allocated
        /\ \A p, q \in T : PageAt(r, p) = PageAt(r, q) => p = q
    <2>1. T \subseteq Paths(r)
      BY DEF Paths
    <2>2. \A p \in Paths(r) : PageAt(r, p) \in allocated /\ PathOf(home[PageAt(r, p)]) = p
      BY <1>3, HomeTells
    <2> QED
      BY <2>1, <2>2
  <1>5. m2 = [q \in Pages |->
                IF new(q) # {}
                THEN [p \in D |-> forked(p)][CHOOSE p \in new(q) : TRUE]
                ELSE IF old(q) # {} THEN OriginalTable(mode, CHOOSE p \in old(q) : TRUE)
                ELSE memory[q]]
    BY <1>1 DEF CopiedMemory
  <1> HIDE DEF D, T, forked
  <1>6. ASSUME NEW p \in D PROVE m2[dup[p]] = forked(p)
    <2>1. new(dup[p]) = {p} /\ dup[p] \in Pages
      BY <1>1 DEF Free
    <2>2. (CHOOSE q \in {p} : TRUE) = p
      OBVIOUS
    <2>3. (CHOOSE q \in new(dup[p]) : TRUE) = p
      BY <2>1, <2>2
    <2> HIDE DEF new, old
    <2>4. new(dup[p]) # {}
      BY <2>1
    <2>5. m2[dup[p]] = [q \in D |-> forked(q)][CHOOSE q \in new(dup[p]) : TRUE]
      BY <1>5, <2>1, <2>4
    <2> QED
      BY <2>3, <2>5
  <1>7. ASSUME NEW p \in T PROVE m2[PageAt(r, p)] = OriginalTable(mode, p)
    <2>1. new(PageAt(r, p)) = {}
      BY <1>1, <1>4 DEF Free
    <2>2. old(PageAt(r, p)) = {p} /\ PageAt(r, p) \in Pages
      BY <1>3, <1>4
    <2>3. (CHOOSE q \in {p} : TRUE) = p
      OBVIOUS
    <2> HIDE DEF new, old
    <2> QED
      BY <1>5, <2>1, <2>2, <2>3
  <1>8. ASSUME NEW q \in Pages, \A p \in D : dup[p] # q, \A p \in T : PageAt(r, p) # q
        PROVE  m2[q] = memory[q]
    <2>1. new(q) = {} /\ old(q) = {}
      BY <1>8
    <2> HIDE DEF new, old
    <2> QED
      BY <1>5, <2>1
  <1>9. DOMAIN m2 = Pages
    BY <1>5
  <1> QED
    BY <1>6, <1>7, <1>8, <1>9 DEF D, T, forked

Content == [pte : [Indices -> PTE], ints : [Offsets -> Int]]

AfterFlags(mode, f) ==
  IF mode = "COW" /\ "valid" \in f /\ Writes(f) THEN (f \ {"write"}) \cup {"custom"} ELSE f

LEMMA AfterFlagsAre ==
  ASSUME NEW mode, NEW f
  PROVE  /\ "valid" \in AfterFlags(mode, f) <=> "valid" \in f
         /\ Writes(AfterFlags(mode, f)) <=> Writes(f)
         /\ "read" \in AfterFlags(mode, f) <=> "read" \in f
         /\ "write" \notin f => AfterFlags(mode, f) \subseteq f \cup {"custom"}
         /\ mode = "DEFAULT" => AfterFlags(mode, f) = f
  BY DEF AfterFlags, Writes

LEMMA AfterSharingIs ==
  ASSUME NEW mode, NEW e \in PTE
  PROVE  /\ AfterSharing(mode, e) \in PTE
         /\ AfterSharing(mode, e).flags = AfterFlags(mode, e.flags)
         /\ AfterSharing(mode, e).ppn = e.ppn
  <1>1. Shares(mode, e) <=> mode = "COW" /\ "valid" \in e.flags /\ Writes(e.flags)
    BY DEF Shares, Has, Writes
  <1>2. CASE Shares(mode, e)
    <2>1. AfterSharing(mode, e) = [e EXCEPT !.flags = (e.flags \ {"write"}) \cup {"custom"}]
      BY <1>2 DEF AfterSharing
    <2>2. e.flags \subseteq Flags
      BY DEF PTE
    <2>3. (e.flags \ {"write"}) \cup {"custom"} \in SUBSET Flags
      BY <2>2 DEF Flags
    <2> QED
      BY <1>1, <1>2, <2>1, <2>3 DEF PTE, AfterFlags
  <1>3. CASE ~Shares(mode, e)
    BY <1>1, <1>3 DEF AfterSharing, AfterFlags
  <1> QED
    BY <1>2, <1>3

LEMMA EntriesAre ==
  ASSUME NEW root
  PROVE  /\ \A i : i \in Entries(root, <<>>) <=> In1(memory, root, i)
         /\ \A i, j : In1(memory, root, i) =>
              (j \in Entries(root, <<i>>) <=> In2(memory, root, i, j))
         /\ \A i, j, k : In2(memory, root, i, j) =>
              (k \in Entries(root, <<i, j>>) <=> In3(memory, root, i, j, k))
  <1>1. \A i : i \in Entries(root, <<>>) <=> In1(memory, root, i)
    BY PageAtIs DEF Entries, Has, PTEOf, In1, Valid
  <1>2. \A i, j : In1(memory, root, i) =>
          (j \in Entries(root, <<i>>) <=> In2(memory, root, i, j))
    BY PageAtIs DEF Entries, Has, PTEOf, In2, Valid
  <1>3. \A i, j, k : In2(memory, root, i, j) =>
          (k \in Entries(root, <<i, j>>) <=> In3(memory, root, i, j, k))
    BY PageAtIs DEF Entries, Has, PTEOf, In3, Valid
  <1> QED
    BY <1>1, <1>2, <1>3

(* A table of the root and its content after copy.                         *)
LEMMA OriginalTableIs ==
  ASSUME NEW mode, NEW p, NEW q \in Pages, q = PageAt(root_page_table, p),
         memory \in Memory
  PROVE  /\ OriginalTable(mode, p) \in Content
         /\ OriginalTable(mode, p).ints = memory[q].ints
         /\ Len(p) < 2 => OriginalTable(mode, p) = memory[q]
         /\ ~(Len(p) < 2) => \A i \in Indices :
              OriginalTable(mode, p).pte[i] = AfterSharing(mode, memory[q].pte[i])
  <1>1. memory[q] \in Content
    BY DEF Memory, Content
  <1> DEFINE t == [i \in Indices |-> AfterSharing(mode, memory[q].pte[i])]
  <1>2. t \in [Indices -> PTE]
    BY <1>1, AfterSharingIs DEF Content
  <1>3. OriginalTable(mode, p) = IF Len(p) < 2 THEN memory[q] ELSE [memory[q] EXCEPT !.pte = t]
    BY DEF OriginalTable, PTEOf
  <1>4. \A i \in Indices : t[i] = AfterSharing(mode, memory[q].pte[i])
    OBVIOUS
  <1> HIDE DEF t
  <1>5. /\ [memory[q] EXCEPT !.pte = t] \in Content
        /\ [memory[q] EXCEPT !.pte = t].pte = t
        /\ [memory[q] EXCEPT !.pte = t].ints = memory[q].ints
    BY <1>1, <1>2 DEF Content
  <1> QED
    BY <1>1, <1>3, <1>4, <1>5

ForkedEntry(mode, p, i, dup) ==
  IF i \notin Entries(root_page_table, p) THEN ZeroPTE
  ELSE IF Append(p, i) \in Duplicated(mode)
  THEN [OriginalTable(mode, p).pte[i] EXCEPT !.ppn = dup[Append(p, i)]]
  ELSE OriginalTable(mode, p).pte[i]

LEMMA ForkedTableIs ==
  ASSUME NEW mode, NEW p, OriginalTable(mode, p) \in Content,
         NEW dup, dup = Duplicate(mode), dup \in Injection(Duplicated(mode), Free)
  PROVE  /\ ForkedTable(mode, p) \in Content
         /\ \A i \in Indices :
              ForkedTable(mode, p).pte[i] = ForkedEntry(mode, p, i, dup)
  <1> DEFINE t == [i \in Indices |-> ForkedEntry(mode, p, i, dup)]
  <1>1. DOMAIN dup = Duplicated(mode) /\ \A x \in Duplicated(mode) : dup[x] \in Pages
    BY DEF Injection, Free
  <1>2. ForkedTable(mode, p) = [ZeroPage EXCEPT !.pte = t]
    BY <1>1 DEF ForkedTable, ForkedEntry, Table
  <1>3. ASSUME NEW i \in Indices PROVE ForkedEntry(mode, p, i, dup) \in PTE
    <2>1. OriginalTable(mode, p).pte[i] \in PTE
      BY DEF Content
    <2> DEFINE e == OriginalTable(mode, p).pte[i]
    <2> HIDE DEF e
    <2>2. \A x \in Pages : [e EXCEPT !.ppn = x] \in PTE
      BY <2>1 DEF PTE, e
    <2> QED
      BY <1>1, <2>1, <2>2, ZeroPageTyped DEF ForkedEntry, e
  <1>4. t \in [Indices -> PTE] /\ \A i \in Indices : t[i] = ForkedEntry(mode, p, i, dup)
    BY <1>3
  <1> HIDE DEF t
  <1>5. /\ [ZeroPage EXCEPT !.pte = t] \in Content
        /\ [ZeroPage EXCEPT !.pte = t].pte = t
    <2>1. ZeroPage \in Content
      BY ZeroPageTyped DEF Content
    <2> QED
      BY <1>4, <2>1 DEF Content
  <1> QED
    BY <1>2, <1>4, <1>5

(* The tree that copy makes, with root n.                                  *)
NewTree(m, m2, r, n, dup, mode) ==
  /\ \A i : In1(m2, n, i) <=> In1(m, r, i)
  /\ \A i : In1(m, r, i) => /\ At1(m2, n, i) = dup[<<i>>]
                            /\ m2[n].pte[i].flags = m[r].pte[i].flags
  /\ \A i, j : In2(m2, n, i, j) <=> In2(m, r, i, j)
  /\ \A i, j : In2(m, r, i, j) =>
       /\ At2(m2, n, i, j) = dup[<<i, j>>]
       /\ m2[At1(m2, n, i)].pte[j].flags = m[At1(m, r, i)].pte[j].flags
  /\ \A i, j, k : In3(m2, n, i, j, k) <=> In3(m, r, i, j, k)
  /\ \A i, j, k : In3(m, r, i, j, k) =>
       /\ At3(m2, n, i, j, k) = IF mode = "DEFAULT" THEN dup[<<i, j, k>>]
                                                    ELSE At3(m, r, i, j, k)
       /\ FlagsAt(m2, n, i, j, k) = AfterFlags(mode, FlagsAt(m, r, i, j, k))

(* The trees that were there, of which copy has walked through that of r.  *)
OldTrees(m, m2, R, r, mode) ==
  \A s \in R :
    /\ UpperKept(m, m2, s)
    /\ SameTree(m, m2, s)
    /\ \A i, j, k : In3(m, s, i, j, k) =>
         FlagsAt(m2, s, i, j, k) = IF s = r THEN AfterFlags(mode, FlagsAt(m, s, i, j, k))
                                            ELSE FlagsAt(m, s, i, j, k)

LEMMA FlagsCopied ==
  ASSUME NEW m, NEW m2, NEW r, NEW n, NEW dup, NEW mode, NewTree(m, m2, r, n, dup, mode),
         NEW i, NEW j, In2(m, r, i, j)
  PROVE  m2[At1(m2, n, i)].pte[j].flags = m[At1(m, r, i)].pte[j].flags
  BY DEF NewTree

LEMMA ForkedEntryIs ==
  ASSUME NEW mode, NEW p, OriginalTable(mode, p) \in Content, NEW i \in Indices, NEW dup
  PROVE  /\ i \notin Entries(root_page_table, p) =>
              "valid" \notin ForkedEntry(mode, p, i, dup).flags
         /\ i \in Entries(root_page_table, p) =>
              /\ ForkedEntry(mode, p, i, dup).flags = OriginalTable(mode, p).pte[i].flags
              /\ ForkedEntry(mode, p, i, dup).ppn =
                   IF Append(p, i) \in Duplicated(mode) THEN dup[Append(p, i)]
                   ELSE OriginalTable(mode, p).pte[i].ppn
  <1> DEFINE e == OriginalTable(mode, p).pte[i]
  <1>1. e \in PTE
    BY DEF Content
  <1>2. \A x : [e EXCEPT !.ppn = x].flags = e.flags /\ [e EXCEPT !.ppn = x].ppn = x
    BY <1>1 DEF PTE
  <1>3. "valid" \notin ZeroPTE.flags
    BY DEF ZeroPTE
  <1> QED
    BY <1>2, <1>3 DEF ForkedEntry

(* An entry of a copied table, if it was there before copy.                *)
CopiedEntry(f, there, flags, page) ==
  /\ ~there => "valid" \notin f.flags
  /\ there => f.flags = flags /\ f.ppn = page

LEMMA EntryCopied ==
  ASSUME NEW mode, memory \in Memory, NEW p, NEW i \in Indices, NEW dup,
         PageAt(root_page_table, p) \in Pages,
         NEW e, e = memory[PageAt(root_page_table, p)].pte[i],
         NEW f, f = ForkedEntry(mode, p, i, dup)
  PROVE  CopiedEntry(f, i \in Entries(root_page_table, p),
                     IF Len(p) < 2 THEN e.flags ELSE AfterFlags(mode, e.flags),
                     IF Append(p, i) \in Duplicated(mode) THEN dup[Append(p, i)] ELSE e.ppn)
  <1> DEFINE t == OriginalTable(mode, p)
             d == t.pte[i]
  <1>1. /\ t \in Content
        /\ Len(p) < 2 => d = e
        /\ ~(Len(p) < 2) => d = AfterSharing(mode, e)
    BY OriginalTableIs
  <1>2. e \in PTE
    BY DEF Memory
  <1>3. AfterSharing(mode, e).flags = AfterFlags(mode, e.flags) /\ AfterSharing(mode, e).ppn = e.ppn
    BY <1>2, AfterSharingIs
  <1>4. /\ d.flags = IF Len(p) < 2 THEN e.flags ELSE AfterFlags(mode, e.flags)
        /\ d.ppn = e.ppn
    BY <1>1, <1>3
  <1>5. /\ i \notin Entries(root_page_table, p) => "valid" \notin f.flags
        /\ i \in Entries(root_page_table, p) =>
             /\ f.flags = d.flags
             /\ f.ppn = IF Append(p, i) \in Duplicated(mode) THEN dup[Append(p, i)] ELSE d.ppn
    BY <1>1, ForkedEntryIs
  <1> HIDE DEF d
  <1> QED
    BY <1>4, <1>5 DEF CopiedEntry

LEMMA TreeCopied ==
  ASSUME NEW mode \in {"DEFAULT", "COW"}, memory \in Memory,
         NEW r, r = root_page_table, NEW dup, NEW m2,
         \A p \in TablePaths(r) : PageAt(r, p) \in Pages,
         \A p \in TablePaths(r) : \A i \in Indices :
           m2[dup[p]].pte[i] = ForkedEntry(mode, p, i, dup)
  PROVE  NewTree(memory, m2, r, dup[<<>>], dup, mode)
  <1> DEFINE n == dup[<<>>]
  <1>1. /\ <<>> \in TablePaths(r)
        /\ \A i : In1(memory, r, i) => <<i>> \in TablePaths(r)
        /\ \A i, j : In2(memory, r, i, j) => <<i, j>> \in TablePaths(r)
    BY PathsOf
  <1>2. ASSUME NEW p \in TablePaths(r), NEW i \in Indices, NEW e,
               e = memory[PageAt(r, p)].pte[i]
        PROVE  CopiedEntry(m2[dup[p]].pte[i], i \in Entries(r, p),
                 IF Len(p) < 2 THEN e.flags ELSE AfterFlags(mode, e.flags),
                 IF Append(p, i) \in Duplicated(mode) THEN dup[Append(p, i)] ELSE e.ppn)
    BY <1>2, EntryCopied
  <1>3. ASSUME NEW i \in Indices
        PROVE  CopiedEntry(m2[n].pte[i], In1(memory, r, i), memory[r].pte[i].flags, dup[<<i>>])
    <2> DEFINE e == memory[r].pte[i]
    <2>1. PageAt(r, <<>>) = r /\ Len(<<>>) < 2
      BY PageAtIs
    <2>2. i \in Entries(r, <<>>) <=> In1(memory, r, i)
      BY EntriesAre
    <2>3. Append(<<>>, i) = <<i>>
      BY Appended
    <2>4. In1(memory, r, i) => <<i>> \in Duplicated(mode)
      BY DuplicatedIs
    <2>5. CopiedEntry(m2[dup[<<>>]].pte[i], i \in Entries(r, <<>>),
                 IF Len(<<>>) < 2 THEN e.flags ELSE AfterFlags(mode, e.flags),
                 IF Append(<<>>, i) \in Duplicated(mode) THEN dup[Append(<<>>, i)] ELSE e.ppn)
      BY <1>1, <1>2, <2>1
    <2> HIDE DEF e
    <2>6. CopiedEntry(m2[n].pte[i], In1(memory, r, i), e.flags, dup[<<i>>])
      BY <2>1, <2>2, <2>3, <2>4, <2>5 DEF CopiedEntry
    <2> QED
      BY <2>6 DEF e
  <1>4. ASSUME NEW i, In1(memory, r, i), NEW j \in Indices
        PROVE  CopiedEntry(m2[dup[<<i>>]].pte[j], In2(memory, r, i, j),
                           memory[At1(memory, r, i)].pte[j].flags, dup[<<i, j>>])
    <2> DEFINE e == memory[At1(memory, r, i)].pte[j]
    <2>1. PageAt(r, <<i>>) = At1(memory, r, i) /\ Len(<<i>>) < 2
      BY PageAtIs
    <2>2. j \in Entries(r, <<i>>) <=> In2(memory, r, i, j)
      BY <1>4, EntriesAre
    <2>3. Append(<<i>>, j) = <<i, j>>
      BY Appended
    <2>4. In2(memory, r, i, j) => <<i, j>> \in Duplicated(mode)
      BY DuplicatedIs
    <2>5. CopiedEntry(m2[dup[<<i>>]].pte[j], j \in Entries(r, <<i>>),
                 IF Len(<<i>>) < 2 THEN e.flags ELSE AfterFlags(mode, e.flags),
                 IF Append(<<i>>, j) \in Duplicated(mode) THEN dup[Append(<<i>>, j)] ELSE e.ppn)
      BY <1>1, <1>2, <1>4, <2>1
    <2> HIDE DEF e
    <2>6. CopiedEntry(m2[dup[<<i>>]].pte[j], In2(memory, r, i, j), e.flags, dup[<<i, j>>])
      BY <2>1, <2>2, <2>3, <2>4, <2>5 DEF CopiedEntry
    <2> QED
      BY <2>6 DEF e
  <1>5. ASSUME NEW i, NEW j, In2(memory, r, i, j), NEW k \in Indices
        PROVE  CopiedEntry(m2[dup[<<i, j>>]].pte[k], In3(memory, r, i, j, k),
                 AfterFlags(mode, FlagsAt(memory, r, i, j, k)),
                 IF mode = "DEFAULT" THEN dup[<<i, j, k>>] ELSE At3(memory, r, i, j, k))
    <2> DEFINE e == memory[At2(memory, r, i, j)].pte[k]
    <2>1. PageAt(r, <<i, j>>) = At2(memory, r, i, j) /\ ~(Len(<<i, j>>) < 2)
      BY PageAtIs
    <2>2. k \in Entries(r, <<i, j>>) <=> In3(memory, r, i, j, k)
      BY <1>5, EntriesAre
    <2>3. Append(<<i, j>>, k) = <<i, j, k>>
      BY Appended
    <2>4. In3(memory, r, i, j, k) => (<<i, j, k>> \in Duplicated(mode) <=> mode = "DEFAULT")
      BY DuplicatedIs
    <2>5. CopiedEntry(m2[dup[<<i, j>>]].pte[k], k \in Entries(r, <<i, j>>),
                 IF Len(<<i, j>>) < 2 THEN e.flags ELSE AfterFlags(mode, e.flags),
                 IF Append(<<i, j>>, k) \in Duplicated(mode) THEN dup[Append(<<i, j>>, k)]
                                                             ELSE e.ppn)
      BY <1>1, <1>2, <1>5, <2>1
    <2>6. e.flags = FlagsAt(memory, r, i, j, k) /\ e.ppn = At3(memory, r, i, j, k)
      BY DEF FlagsAt, At3, To
    <2> HIDE DEF e
    <2> QED
      BY <2>1, <2>2, <2>3, <2>4, <2>5, <2>6 DEF CopiedEntry
  <1> HIDE DEF n
  <1>6. ASSUME NEW i \in Indices
        PROVE  /\ In1(m2, n, i) <=> In1(memory, r, i)
               /\ In1(memory, r, i) => /\ At1(m2, n, i) = dup[<<i>>]
                                       /\ m2[n].pte[i].flags = memory[r].pte[i].flags
    <2>1. In1(memory, r, i) => "valid" \in memory[r].pte[i].flags
      BY DEF In1, Valid
    <2> QED
      BY <1>3, <2>1 DEF CopiedEntry, In1, Valid, At1, To
  <1>7. ASSUME NEW i, In1(memory, r, i), NEW j \in Indices
        PROVE  /\ In2(m2, n, i, j) <=> In2(memory, r, i, j)
               /\ In2(memory, r, i, j) =>
                    /\ At2(m2, n, i, j) = dup[<<i, j>>]
                    /\ m2[At1(m2, n, i)].pte[j].flags = memory[At1(memory, r, i)].pte[j].flags
    <2>1. In2(memory, r, i, j) => "valid" \in memory[At1(memory, r, i)].pte[j].flags
      BY DEF In2, Valid
    <2>2. At1(m2, n, i) = dup[<<i>>] /\ In1(m2, n, i)
      BY <1>6, <1>7 DEF In1
    <2>3. In2(m2, n, i, j) <=> "valid" \in m2[dup[<<i>>]].pte[j].flags
      BY <2>2 DEF In2, Valid
    <2>4. At2(m2, n, i, j) = m2[dup[<<i>>]].pte[j].ppn
      BY <2>2 DEF At2, To
    <2> QED
      BY <1>4, <1>7, <2>1, <2>2, <2>3, <2>4 DEF CopiedEntry
  <1>8. ASSUME NEW i, NEW j, In2(memory, r, i, j), NEW k \in Indices
        PROVE  /\ In3(m2, n, i, j, k) <=> In3(memory, r, i, j, k)
               /\ In3(memory, r, i, j, k) =>
                    /\ At3(m2, n, i, j, k) = IF mode = "DEFAULT" THEN dup[<<i, j, k>>]
                                                         ELSE At3(memory, r, i, j, k)
                    /\ FlagsAt(m2, n, i, j, k) = AfterFlags(mode, FlagsAt(memory, r, i, j, k))
    <2>1. In3(memory, r, i, j, k) => "valid" \in FlagsAt(memory, r, i, j, k)
      BY DEF In3, Valid, FlagsAt
    <2>2. At2(m2, n, i, j) = dup[<<i, j>>] /\ In2(m2, n, i, j)
      BY <1>7, <1>8 DEF In2
    <2>3. In3(m2, n, i, j, k) <=> "valid" \in m2[dup[<<i, j>>]].pte[k].flags
      BY <2>2 DEF In3, Valid
    <2>4. /\ At3(m2, n, i, j, k) = m2[dup[<<i, j>>]].pte[k].ppn
          /\ FlagsAt(m2, n, i, j, k) = m2[dup[<<i, j>>]].pte[k].flags
      BY <2>2 DEF At3, To, FlagsAt
    <2> QED
      BY <1>5, <1>8, <2>1, <2>2, <2>3, <2>4, AfterFlagsAre DEF CopiedEntry
  <1>9. \A i : In1(m2, n, i) <=> In1(memory, r, i)
    BY <1>6 DEF In1
  <1>10. \A i : In1(memory, r, i) => /\ At1(m2, n, i) = dup[<<i>>]
                                     /\ m2[n].pte[i].flags = memory[r].pte[i].flags
    BY <1>6 DEF In1
  <1>11. \A i, j : In2(m2, n, i, j) <=> In2(memory, r, i, j)
    <2>1. \A i, j : In2(m2, n, i, j) => In1(memory, r, i) /\ j \in Indices
      BY <1>9 DEF In2
    <2>2. \A i, j : In2(memory, r, i, j) => In1(memory, r, i) /\ j \in Indices
      BY DEF In2
    <2> QED
      BY <1>7, <2>1, <2>2
  <1>12. \A i, j : In2(memory, r, i, j) =>
          /\ At2(m2, n, i, j) = dup[<<i, j>>]
          /\ m2[At1(m2, n, i)].pte[j].flags = memory[At1(memory, r, i)].pte[j].flags
    <2>1. \A i, j : In2(memory, r, i, j) => In1(memory, r, i) /\ j \in Indices
      BY DEF In2
    <2> QED
      BY <1>7, <2>1
  <1>13. \A i, j, k : In3(m2, n, i, j, k) <=> In3(memory, r, i, j, k)
    <2>1. \A i, j, k : In3(m2, n, i, j, k) => In2(memory, r, i, j) /\ k \in Indices
      BY <1>11 DEF In3
    <2>2. \A i, j, k : In3(memory, r, i, j, k) => In2(memory, r, i, j) /\ k \in Indices
      BY DEF In3
    <2> QED
      BY <1>8, <2>1, <2>2
  <1>14. \A i, j, k : In3(memory, r, i, j, k) =>
           /\ At3(m2, n, i, j, k) = IF mode = "DEFAULT" THEN dup[<<i, j, k>>]
                                                        ELSE At3(memory, r, i, j, k)
           /\ FlagsAt(m2, n, i, j, k) = AfterFlags(mode, FlagsAt(memory, r, i, j, k))
    <2>1. \A i, j, k : In3(memory, r, i, j, k) => In2(memory, r, i, j) /\ k \in Indices
      BY DEF In3
    <2> QED
      BY <1>8, <2>1
  <1> QED
    BY <1>9, <1>10, <1>11, <1>12, <1>13, <1>14 DEF NewTree, n

(* Copy writes no int but those of the pages that it took.                 *)
LEMMA CopiedTyped ==
  ASSUME NEW mode \in {"DEFAULT", "COW"}, Forest(memory, roots, allocated),
         NEW r, r = root_page_table, r \in roots,
         NEW dup, dup = Duplicate(mode), dup \in Injection(Duplicated(mode), Free),
         NEW m2, m2 = CopiedMemory(mode)
  PROVE  /\ m2 \in Memory
         /\ \A q \in Pages : (\A p \in Duplicated(mode) : dup[p] # q) =>
              m2[q].ints = memory[q].ints
         /\ \A p \in TablePaths(r) : PageAt(r, p) \in Pages
         /\ \A p \in TablePaths(r) : \A i \in Indices :
              m2[dup[p]].pte[i] = ForkedEntry(mode, p, i, dup)
  <1>1. PICK home : Homes(memory, roots, allocated, home)
    BY DEF Forest
  <1>2. /\ r \in Pages /\ allocated \subseteq Pages /\ memory \in Memory
        /\ HomesOf(memory, r, allocated, home)
    BY <1>1 DEF Forest, Homes, HomesOf
  <1>3. \A p \in Paths(r) : PageAt(r, p) \in Pages
    BY <1>2, HomeTells
  <1>4. Duplicated(mode) \subseteq Paths(r) /\ TablePaths(r) \subseteq Duplicated(mode)
    BY DuplicatedIs
  <1>5. ASSUME NEW p \in Paths(r)
        PROVE  /\ OriginalTable(mode, p) \in Content
               /\ OriginalTable(mode, p).ints = memory[PageAt(r, p)].ints
               /\ ForkedTable(mode, p) \in Content
               /\ \A i \in Indices : ForkedTable(mode, p).pte[i] = ForkedEntry(mode, p, i, dup)
    <2>1. /\ OriginalTable(mode, p) \in Content
          /\ OriginalTable(mode, p).ints = memory[PageAt(r, p)].ints
      BY <1>2, <1>3, OriginalTableIs
    <2> QED
      BY <2>1, ForkedTableIs
  <1>6. /\ \A p \in Duplicated(mode) :
             m2[dup[p]] = IF Len(p) = 3 THEN memory[PageAt(r, p)] ELSE ForkedTable(mode, p)
        /\ \A p \in TablePaths(r) : m2[PageAt(r, p)] = OriginalTable(mode, p)
        /\ \A q \in Pages :
             /\ \A p \in Duplicated(mode) : dup[p] # q
             /\ \A p \in TablePaths(r) : PageAt(r, p) # q
             => m2[q] = memory[q]
        /\ DOMAIN m2 = Pages
    BY CopiedMemoryIs
  <1>7. ASSUME NEW q \in Pages
        PROVE  /\ m2[q] \in Content
               /\ (\A p \in Duplicated(mode) : dup[p] # q) => m2[q].ints = memory[q].ints
    <2>1. memory[q] \in Content /\ \A p \in Paths(r) : memory[PageAt(r, p)] \in Content
      BY <1>2, <1>3 DEF Memory, Content
    <2>2. CASE \E p \in Duplicated(mode) : dup[p] = q
      BY <1>4, <1>5, <1>6, <2>1, <2>2
    <2>3. CASE ~\E p \in Duplicated(mode) : dup[p] = q
      <3>1. CASE \E p \in TablePaths(r) : PageAt(r, p) = q
        BY <1>4, <1>5, <1>6, <3>1
      <3>2. CASE ~\E p \in TablePaths(r) : PageAt(r, p) = q
        BY <1>6, <2>1, <2>3, <3>2
      <3> QED
        BY <3>1, <3>2
    <2> QED
      BY <2>2, <2>3
  <1>8. m2 \in Memory
    <2>1. m2 = [q \in Pages |-> m2[q]]
      BY DEF CopiedMemory
    <2> QED
      BY <1>7, <2>1 DEF Memory, Content
  <1>9. ASSUME NEW p \in TablePaths(r)
        PROVE  PageAt(r, p) \in Pages /\ m2[dup[p]] = ForkedTable(mode, p)
    <2>1. Len(p) # 3
      BY PathsOf
    <2> QED
      BY <1>3, <1>4, <1>6, <2>1
  <1>10. \A p \in TablePaths(r) : \A i \in Indices :
           m2[dup[p]].pte[i] = ForkedEntry(mode, p, i, dup)
    BY <1>4, <1>5, <1>9
  <1> QED
    BY <1>7, <1>8, <1>9, <1>10

(* Copy leaves the trees that were there, but for the flags of the entries *)
(* that it shares.                                                         *)
LEMMA TreesKept ==
  ASSUME NEW mode \in {"DEFAULT", "COW"}, Forest(memory, roots, allocated),
         NEW r, r = root_page_table, r \in roots,
         NEW dup, dup = Duplicate(mode), dup \in Injection(Duplicated(mode), Free),
         NEW m2, m2 = CopiedMemory(mode)
  PROVE  OldTrees(memory, m2, roots, r, mode)
  <1>1. PICK home : Homes(memory, roots, allocated, home)
    BY DEF Forest
  <1>2. /\ r \in Pages /\ allocated \subseteq Pages /\ memory \in Memory
        /\ HomesOf(memory, r, allocated, home)
    BY <1>1 DEF Forest, Homes, HomesOf
  <1>3. /\ \A p \in TablePaths(r) : m2[PageAt(r, p)] = OriginalTable(mode, p)
        /\ \A q \in Pages :
             /\ \A p \in Duplicated(mode) : dup[p] # q
             /\ \A p \in TablePaths(r) : PageAt(r, p) # q
             => m2[q] = memory[q]
    BY CopiedMemoryIs
  <1>4. /\ \A p \in TablePaths(r) : home[PageAt(r, p)][1] = r
        /\ \A p \in TablePaths(r) : PageAt(r, p) \in Pages
    <2>1. \A p \in TablePaths(r) : p \in Paths(r)
      BY DEF Paths
    <2> QED
      BY <1>2, <2>1, HomeTells
  <1>5. ASSUME NEW q \in allocated, home[q][1] # r
        PROVE  m2[q] = memory[q]
    BY <1>2, <1>3, <1>4, <1>5 DEF Injection, Free
  <1>6. ASSUME NEW s \in roots, s # r
        PROVE  /\ UpperKept(memory, m2, s)
               /\ \A i, j : In2(memory, s, i, j) =>
                    m2[At2(memory, s, i, j)] = memory[At2(memory, s, i, j)]
    <2>1. HomesOf(memory, s, allocated, home)
      BY <1>1 DEF Homes
    <2>2. /\ RootHome(s)[1] # r
          /\ \A i : Home1(s, i)[1] # r
          /\ \A i, j : Home2(s, i, j)[1] # r
      BY <1>6 DEF RootHome, Home1, Home2
    <2> QED
      BY <1>5, <2>1, <2>2 DEF HomesOf, UpperKept
  <1>7. /\ UpperKept(memory, m2, r)
        /\ \A i, j : In2(memory, r, i, j) => \A k \in Indices :
             m2[At2(memory, r, i, j)].pte[k] =
               AfterSharing(mode, memory[At2(memory, r, i, j)].pte[k])
    <2>1. /\ <<>> \in TablePaths(r)
          /\ \A i : In1(memory, r, i) => <<i>> \in TablePaths(r)
          /\ \A i, j : In2(memory, r, i, j) => <<i, j>> \in TablePaths(r)
      BY PathsOf
    <2>2. /\ PageAt(r, <<>>) = r
          /\ \A i : PageAt(r, <<i>>) = At1(memory, r, i)
          /\ \A i, j : PageAt(r, <<i, j>>) = At2(memory, r, i, j)
      BY PageAtIs
    <2>3. /\ Len(<<>>) < 2
          /\ \A i : Len(<<i>>) < 2
          /\ \A i, j : ~(Len(<<i, j>>) < 2)
      OBVIOUS
    <2>4. ASSUME NEW p \in TablePaths(r)
          PROVE  /\ Len(p) < 2 => m2[PageAt(r, p)] = memory[PageAt(r, p)]
                 /\ ~(Len(p) < 2) => \A k \in Indices :
                      m2[PageAt(r, p)].pte[k] = AfterSharing(mode, memory[PageAt(r, p)].pte[k])
      <3>1. /\ Len(p) < 2 => OriginalTable(mode, p) = memory[PageAt(r, p)]
            /\ ~(Len(p) < 2) => \A k \in Indices :
                 OriginalTable(mode, p).pte[k] = AfterSharing(mode, memory[PageAt(r, p)].pte[k])
        BY <1>2, <1>4, OriginalTableIs
      <3> QED
        BY <1>3, <3>1
    <2>5. m2[r] = memory[r]
      BY <2>1, <2>2, <2>3, <2>4
    <2>6. ASSUME NEW i, In1(memory, r, i)
          PROVE  m2[At1(memory, r, i)] = memory[At1(memory, r, i)]
      <3>1. <<i>> \in TablePaths(r) /\ PageAt(r, <<i>>) = At1(memory, r, i) /\ Len(<<i>>) < 2
        BY <2>1, <2>2, <2>3, <2>6
      <3> QED
        BY <2>4, <3>1
    <2>7. ASSUME NEW i, NEW j, In2(memory, r, i, j), NEW k \in Indices
          PROVE  m2[At2(memory, r, i, j)].pte[k] =
                   AfterSharing(mode, memory[At2(memory, r, i, j)].pte[k])
      <3>1. /\ <<i, j>> \in TablePaths(r) /\ PageAt(r, <<i, j>>) = At2(memory, r, i, j)
            /\ ~(Len(<<i, j>>) < 2)
        BY <2>1, <2>2, <2>3, <2>7
      <3> QED
        BY <2>4, <3>1
    <2> QED
      BY <2>5, <2>6, <2>7 DEF UpperKept
  <1>8. ASSUME NEW i, NEW j, In2(memory, r, i, j), NEW k \in Indices
        PROVE  /\ m2[At2(memory, r, i, j)].pte[k].flags =
                    AfterFlags(mode, memory[At2(memory, r, i, j)].pte[k].flags)
               /\ m2[At2(memory, r, i, j)].pte[k].ppn = memory[At2(memory, r, i, j)].pte[k].ppn
    <2>1. At2(memory, r, i, j) \in Pages
      BY <1>2, <1>8 DEF HomesOf
    <2>2. memory[At2(memory, r, i, j)].pte[k] \in PTE
      BY <1>2, <2>1 DEF Memory
    <2>3. m2[At2(memory, r, i, j)].pte[k] =
            AfterSharing(mode, memory[At2(memory, r, i, j)].pte[k])
      BY <1>7, <1>8
    <2> QED
      BY <2>2, <2>3, AfterSharingIs
  <1>9. ASSUME NEW s \in roots
        PROVE  /\ UpperKept(memory, m2, s)
               /\ \A i, j : In2(memory, s, i, j) => SameLinks(memory, m2, At2(memory, s, i, j))
               /\ \A i, j, k : In3(memory, s, i, j, k) =>
                    m2[At2(memory, s, i, j)].pte[k].flags =
                      IF s = r THEN AfterFlags(mode, FlagsAt(memory, s, i, j, k))
                      ELSE FlagsAt(memory, s, i, j, k)
    <2>1. CASE s = r
      <3>1. \A i, j : In2(memory, s, i, j) => SameLinks(memory, m2, At2(memory, s, i, j))
        BY <1>8, <2>1, AfterFlagsAre DEF SameLinks, Valid, To
      <3> QED
        BY <1>7, <1>8, <2>1, <3>1 DEF In3, FlagsAt
    <2>2. CASE s # r
      BY <1>6, <2>2 DEF SameLinks, Valid, To, FlagsAt, In3
    <2> QED
      BY <2>1, <2>2
  <1>10. ASSUME NEW s \in roots
         PROVE  /\ UpperKept(memory, m2, s)
                /\ SameTree(memory, m2, s)
                /\ \A i, j, k : In3(memory, s, i, j, k) =>
                     FlagsAt(m2, s, i, j, k) =
                       IF s = r THEN AfterFlags(mode, FlagsAt(memory, s, i, j, k))
                       ELSE FlagsAt(memory, s, i, j, k)
    <2>1. UpperKept(memory, m2, s) /\ SameTree(memory, m2, s)
      BY <1>9, TreeKept
    <2>2. \A i, j, k : In3(memory, s, i, j, k) => At2(m2, s, i, j) = At2(memory, s, i, j)
      BY <2>1 DEF SameTree, SameTables, In3
    <2> QED
      BY <1>9, <2>1, <2>2 DEF FlagsAt
  <1> QED
    BY <1>10 DEF OldTrees

(* The home of a page that copy takes for path p, with root n.             *)
NewHome(n, p) ==
  CASE Len(p) = 0 -> RootHome(n)
    [] Len(p) = 1 -> Home1(n, p[1])
    [] Len(p) = 2 -> Home2(n, p[1], p[2])
    [] OTHER -> DataHome(p[1], p[2], p[3])

LEMMA NewHomesAre ==
  ASSUME NEW n
  PROVE  /\ NewHome(n, <<>>) = RootHome(n)
         /\ \A i : NewHome(n, <<i>>) = Home1(n, i)
         /\ \A i, j : NewHome(n, <<i, j>>) = Home2(n, i, j)
         /\ \A i, j, k : NewHome(n, <<i, j, k>>) = DataHome(i, j, k)
  <1>1. /\ Len(<<>>) = 0
        /\ \A i : Len(<<i>>) = 1 /\ <<i>>[1] = i
        /\ \A i, j : Len(<<i, j>>) = 2 /\ <<i, j>>[1] = i /\ <<i, j>>[2] = j
        /\ \A i, j, k : /\ Len(<<i, j, k>>) = 3 /\ <<i, j, k>>[1] = i
                        /\ <<i, j, k>>[2] = j /\ <<i, j, k>>[3] = k
    OBVIOUS
  <1>2. \A p : /\ Len(p) = 0 => NewHome(n, p) = RootHome(n)
               /\ Len(p) = 1 => NewHome(n, p) = Home1(n, p[1])
               /\ Len(p) = 2 => NewHome(n, p) = Home2(n, p[1], p[2])
               /\ Len(p) = 3 => NewHome(n, p) = DataHome(p[1], p[2], p[3])
    BY DEF NewHome
  <1>3. NewHome(n, <<>>) = RootHome(n)
    BY <1>1, <1>2
  <1>4. ASSUME NEW i PROVE NewHome(n, <<i>>) = Home1(n, i)
    BY <1>1, <1>2
  <1>5. ASSUME NEW i, NEW j PROVE NewHome(n, <<i, j>>) = Home2(n, i, j)
    BY <1>1, <1>2
  <1>6. ASSUME NEW i, NEW j, NEW k PROVE NewHome(n, <<i, j, k>>) = DataHome(i, j, k)
    BY <1>1, <1>2
  <1> QED
    BY <1>3, <1>4, <1>5, <1>6

(* The data pages that copy takes were not in use.                         *)
FreshData(m, r, A, dup, mode) ==
  mode = "DEFAULT" => \A i, j, k : In3(m, r, i, j, k) => dup[<<i, j, k>>] \notin A

(* Entries that share a page after copy are alike, and none may write.     *)
Copied(m, m2, R, A, r, n, dup, mode) ==
  /\ r \in R /\ n \notin R /\ mode \in {"DEFAULT", "COW"}
  /\ NewTree(m, m2, r, n, dup, mode)
  /\ OldTrees(m, m2, R, r, mode)
  /\ FreshData(m, r, A, dup, mode)

LEMMA SharedAfterCopy ==
  ASSUME NEW m, NEW m2, NEW R, NEW A, Forest(m, R, A), NEW r, NEW n, NEW dup, NEW mode,
         Copied(m, m2, R, A, r, n, dup, mode)
  PROVE  SharedAlike(m2, R \cup {n})
  <1> USE DEF Copied
  <1>1. PICK home : Homes(m, R, A, home)
    BY DEF Forest
  <1>2. ASSUME NEW s \in R, NEW i, NEW j, NEW k, In3(m2, s, i, j, k)
        PROVE  /\ In3(m, s, i, j, k)
               /\ At3(m2, s, i, j, k) = At3(m, s, i, j, k)
               /\ At3(m2, s, i, j, k) \in A
               /\ FlagsAt(m2, s, i, j, k) =
                    IF s = r THEN AfterFlags(mode, FlagsAt(m, s, i, j, k))
                             ELSE FlagsAt(m, s, i, j, k)
    BY <1>1, <1>2 DEF OldTrees, SameTree, Homes, HomesOf
  <1>3. ASSUME NEW f, "write" \notin f PROVE AfterFlags(mode, f) = f
    <2>1. Writes(f) => (f \ {"write"}) \cup {"custom"} = f
      BY <1>3 DEF Writes
    <2> QED
      BY <2>1 DEF AfterFlags
  <1>4. ASSUME NEW f, "valid" \in f PROVE "write" \notin AfterFlags("COW", f)
    BY <1>4 DEF AfterFlags, Writes
  <1>5. ASSUME NEW s \in R, NEW t \in R, NEW i, NEW j, NEW k, s # t,
               In3(m2, s, i, j, k), In3(m2, t, i, j, k),
               At3(m2, s, i, j, k) = At3(m2, t, i, j, k)
        PROVE  /\ FlagsAt(m2, s, i, j, k) = FlagsAt(m2, t, i, j, k)
               /\ "write" \notin FlagsAt(m2, s, i, j, k)
    <2>1. /\ In3(m, s, i, j, k) /\ In3(m, t, i, j, k)
          /\ At3(m, s, i, j, k) = At3(m, t, i, j, k)
      BY <1>2, <1>5
    <2>2. /\ FlagsAt(m, s, i, j, k) = FlagsAt(m, t, i, j, k)
          /\ "write" \notin FlagsAt(m, s, i, j, k)
      BY <1>5, <2>1 DEF Forest, SharedAlike
    <2>3. /\ FlagsAt(m2, s, i, j, k) = FlagsAt(m, s, i, j, k)
          /\ FlagsAt(m2, t, i, j, k) = FlagsAt(m, t, i, j, k)
      BY <1>2, <1>3, <1>5, <2>2
    <2> QED
      BY <2>2, <2>3
  <1>6. ASSUME NEW t \in R, NEW i, NEW j, NEW k,
               In3(m2, n, i, j, k), In3(m2, t, i, j, k),
               At3(m2, n, i, j, k) = At3(m2, t, i, j, k)
        PROVE  /\ FlagsAt(m2, n, i, j, k) = FlagsAt(m2, t, i, j, k)
               /\ "write" \notin FlagsAt(m2, n, i, j, k)
    <2>1. In3(m, r, i, j, k)
      BY <1>6 DEF NewTree
    <2>2. /\ At3(m2, n, i, j, k) = IF mode = "DEFAULT" THEN dup[<<i, j, k>>]
                                                     ELSE At3(m, r, i, j, k)
          /\ FlagsAt(m2, n, i, j, k) = AfterFlags(mode, FlagsAt(m, r, i, j, k))
      BY <2>1 DEF NewTree
    <2>3. At3(m2, n, i, j, k) \in A
      BY <1>2, <1>6
    <2>4. mode = "COW" /\ At3(m2, n, i, j, k) = At3(m, r, i, j, k)
      BY <2>1, <2>2, <2>3 DEF FreshData
    <2>5. "valid" \in FlagsAt(m, r, i, j, k)
      BY <2>1 DEF In3, Valid, FlagsAt
    <2>6. "write" \notin FlagsAt(m2, n, i, j, k)
      BY <1>4, <2>2, <2>4, <2>5
    <2>7. CASE t = r
      BY <1>2, <1>6, <2>2, <2>6, <2>7
    <2>8. CASE t # r
      <3>1. /\ In3(m, t, i, j, k) /\ At3(m, t, i, j, k) = At3(m, r, i, j, k)
            /\ FlagsAt(m2, t, i, j, k) = FlagsAt(m, t, i, j, k)
        BY <1>2, <1>6, <2>4, <2>8
      <3>2. /\ FlagsAt(m, t, i, j, k) = FlagsAt(m, r, i, j, k)
            /\ "write" \notin FlagsAt(m, r, i, j, k)
        BY <2>1, <2>8, <3>1 DEF Forest, SharedAlike
      <3> QED
        BY <1>3, <2>2, <2>6, <3>1, <3>2
    <2> QED
      BY <2>7, <2>8
  <1> QED
    BY <1>5, <1>6 DEF SharedAlike

LEMMA ForestForked ==
  ASSUME NEW mode \in {"DEFAULT", "COW"}, Forest(memory, roots, allocated),
         NEW r, r = root_page_table, r \in roots,
         NEW dup, dup \in Injection(Duplicated(mode), Free), NEW n, n = dup[<<>>],
         NEW m2 \in Memory, NewTree(memory, m2, r, n, dup, mode),
         OldTrees(memory, m2, roots, r, mode),
         NEW A, A = allocated \cup Range(dup), Zeroed(m2, A)
  PROVE  Forest(m2, roots \cup {n}, A) /\ n \in A /\ n \notin allocated
  <1> DEFINE D == Duplicated(mode)
             R == roots \cup {n}
  <1>1. PICK home : Homes(memory, roots, allocated, home)
    BY DEF Forest
  <1>2. /\ \A p \in D : dup[p] \in Free /\ dup[p] \in A /\ dup[p] \notin allocated
        /\ \A p, q \in D : dup[p] = dup[q] => p = q
        /\ \A q \in A : q \in allocated \/ \E p \in D : q = dup[p]
        /\ A \subseteq Pages /\ allocated \subseteq A
    BY DEF Injection, IsInjective, Range, Free, Forest
  <1>3. /\ <<>> \in D
        /\ \A i : In1(memory, r, i) => <<i>> \in D
        /\ \A i, j : In2(memory, r, i, j) => <<i, j>> \in D
        /\ \A i, j, k : In3(memory, r, i, j, k) => (<<i, j, k>> \in D <=> mode = "DEFAULT")
        /\ \A p : p \in D =>
             \/ p = <<>>
             \/ \E i : p = <<i>> /\ In1(memory, r, i)
             \/ \E i, j : p = <<i, j>> /\ In2(memory, r, i, j)
             \/ \E i, j, k :
                  p = <<i, j, k>> /\ In3(memory, r, i, j, k) /\ mode = "DEFAULT"
    BY DuplicatedIs
  <1> DEFINE home2 == [q \in Pages |-> IF q \in allocated THEN home[q]
                                       ELSE NewHome(n, CHOOSE p \in D : dup[p] = q)]
  <1>4. \A q \in allocated : q \in A /\ home2[q] = home[q]
    BY <1>2
  <1>5. ASSUME NEW p \in D PROVE dup[p] \in A /\ home2[dup[p]] = NewHome(n, p)
    <2>1. (CHOOSE q \in D : dup[q] = dup[p]) = p
      BY <1>2
    <2> HIDE DEF D
    <2> QED
      BY <1>2, <2>1
  <1> HIDE DEF D, home2
  <1>6. n \in A /\ n \notin allocated /\ n \notin roots
    BY <1>1, <1>2, <1>3 DEF Homes, HomesOf
  <1>7. ASSUME NEW s \in roots PROVE HomesOf(m2, s, A, home2)
    <2>1. HomesOf(memory, s, allocated, home) /\ SameTree(memory, m2, s)
      BY <1>1 DEF Homes, OldTrees
    <2>2. s \in A /\ home2[s] = RootHome(s)
      BY <1>4, <2>1 DEF HomesOf
    <2>3. \A i : In1(m2, s, i) =>
            At1(m2, s, i) \in A /\ home2[At1(m2, s, i)] = Home1(s, i)
      BY <1>4, <2>1 DEF HomesOf, SameTree, SameTables
    <2>4. \A i, j : In2(m2, s, i, j) =>
            At2(m2, s, i, j) \in A /\ home2[At2(m2, s, i, j)] = Home2(s, i, j)
      BY <1>4, <2>1 DEF HomesOf, SameTree, SameTables
    <2>5. \A i, j, k : In3(m2, s, i, j, k) =>
            At3(m2, s, i, j, k) \in A /\ home2[At3(m2, s, i, j, k)] = DataHome(i, j, k)
      BY <1>4, <2>1 DEF HomesOf, SameTree
    <2> QED
      BY <2>2, <2>3, <2>4, <2>5 DEF HomesOf
  <1>8. HomesOf(m2, n, A, home2)
    <2>1. n \in A /\ home2[n] = RootHome(n)
      BY <1>3, <1>5, NewHomesAre
    <2>2. ASSUME NEW i, In1(m2, n, i)
          PROVE  At1(m2, n, i) \in A /\ home2[At1(m2, n, i)] = Home1(n, i)
      <3>1. In1(memory, r, i) /\ At1(m2, n, i) = dup[<<i>>]
        BY <2>2 DEF NewTree
      <3>2. <<i>> \in D /\ NewHome(n, <<i>>) = Home1(n, i)
        BY <1>3, <3>1, NewHomesAre
      <3> QED
        BY <1>5, <3>1, <3>2
    <2>3. ASSUME NEW i, NEW j, In2(m2, n, i, j)
          PROVE  At2(m2, n, i, j) \in A /\ home2[At2(m2, n, i, j)] = Home2(n, i, j)
      <3>1. In2(memory, r, i, j) /\ At2(m2, n, i, j) = dup[<<i, j>>]
        BY <2>3 DEF NewTree
      <3>2. <<i, j>> \in D /\ NewHome(n, <<i, j>>) = Home2(n, i, j)
        BY <1>3, <3>1, NewHomesAre
      <3> QED
        BY <1>5, <3>1, <3>2
    <2>4. ASSUME NEW i, NEW j, NEW k, In3(m2, n, i, j, k)
          PROVE  At3(m2, n, i, j, k) \in A /\ home2[At3(m2, n, i, j, k)] = DataHome(i, j, k)
      <3>1. /\ In3(memory, r, i, j, k)
            /\ At3(m2, n, i, j, k) = IF mode = "DEFAULT" THEN dup[<<i, j, k>>]
                                                         ELSE At3(memory, r, i, j, k)
        BY <2>4 DEF NewTree
      <3>2. CASE mode = "DEFAULT"
        BY <1>3, <1>5, <3>1, <3>2, NewHomesAre
      <3>3. CASE mode # "DEFAULT"
        BY <1>1, <1>4, <3>1, <3>3 DEF Homes, HomesOf
      <3> QED
        BY <3>2, <3>3
    <2> QED
      BY <2>1, <2>2, <2>3, <2>4 DEF HomesOf
  <1>9. Homes(m2, R, A, home2)
    BY <1>7, <1>8 DEF Homes
  <1>10. Reached(m2, R, A)
    <2>1. ASSUME NEW q \in allocated PROVE \E s \in R : ReachedFrom(m2, s, q)
      <3>1. PICK s \in roots : ReachedFrom(memory, s, q)
        BY DEF Forest, Reached
      <3>2. SameTree(memory, m2, s)
        BY DEF OldTrees
      <3>3. ReachedFrom(m2, s, q)
        BY <3>1, <3>2 DEF ReachedFrom, SameTree, SameTables
      <3> QED
        BY <3>3
    <2>2. ASSUME NEW p \in D PROVE ReachedFrom(m2, n, dup[p])
      <3>1. CASE p = <<>>
        BY <3>1 DEF ReachedFrom
      <3>2. CASE \E i : p = <<i>> /\ In1(memory, r, i)
        BY <3>2 DEF ReachedFrom, NewTree
      <3>3. CASE \E i, j : p = <<i, j>> /\ In2(memory, r, i, j)
        BY <3>3 DEF ReachedFrom, NewTree
      <3>4. CASE \E i, j, k :
                   p = <<i, j, k>> /\ In3(memory, r, i, j, k) /\ mode = "DEFAULT"
        BY <3>4 DEF ReachedFrom, NewTree
      <3> QED
        BY <1>3, <3>1, <3>2, <3>3, <3>4
    <2> QED
      BY <1>2, <2>1, <2>2 DEF Reached
  <1>11. Addressed(m2, R)
    BY DEF Addressed, Forest, OldTrees, SameTree, NewTree
  <1>12. Plain(m2, R)
    <2>1. Plain(m2, roots)
      BY PlainKept DEF Forest, OldTrees
    <2>2. ASSUME NEW i, In1(m2, n, i) PROVE m2[n].pte[i].flags = {"valid"}
      BY <2>2 DEF NewTree, Forest, Plain
    <2>3. ASSUME NEW i, NEW j, In2(m2, n, i, j)
          PROVE  m2[At1(m2, n, i)].pte[j].flags = {"valid"}
      <3>1. In2(memory, r, i, j)
        BY <2>3 DEF NewTree
      <3>2. m2[At1(m2, n, i)].pte[j].flags = memory[At1(memory, r, i)].pte[j].flags
        BY <3>1, FlagsCopied
      <3> QED
        BY <3>1, <3>2 DEF Forest, Plain
    <2> QED
      BY <2>1, <2>2, <2>3 DEF Plain
  <1>13. SharedAlike(m2, R)
    <2>1. FreshData(memory, r, allocated, dup, mode)
      BY <1>2, <1>3 DEF FreshData
    <2>2. Copied(memory, m2, roots, allocated, r, n, dup, mode)
      BY <1>6, <2>1 DEF Copied
    <2> QED
      BY <2>2, SharedAfterCopy
  <1>14. \E g : Homes(m2, R, A, g)
    BY <1>9
  <1> QED
    BY <1>2, <1>6, <1>10, <1>11, <1>12, <1>13, <1>14 DEF Forest

(* The addresses of the root that a copy-on-write fork counts for page p.  *)
Adds(mode, p) ==
  {v \in VirtualAddresses :
     /\ mode = "COW"
     /\ Maps(memory, root_page_table, v, p)
     /\ Writes(FlagsAt(memory, root_page_table, v[1], v[2], v[3]))}

LEMMA AddsAre ==
  ASSUME NEW mode, Addressed(memory, roots), root_page_table \in roots, NEW p \in Pages
  PROVE  CopiedRefTrack(mode)[p] = ref_track[p] + Cardinality(Adds(mode, p))
  <1> DEFINE r == root_page_table
             S == {v \in DataPaths(r) : PageAt(r, v) = p /\ Shares(mode, EntryOf(r, v))}
  <1>1. \A v : v \in DataPaths(r) =>
          v \in VirtualAddresses /\ In3(memory, r, v[1], v[2], v[3])
    <2>1. ASSUME NEW v \in DataPaths(r)
          PROVE  v \in VirtualAddresses /\ In3(memory, r, v[1], v[2], v[3])
      <3>1. PICK i, j, k : v = <<i, j, k>> /\ In3(memory, r, i, j, k)
        BY PathsAre
      <3>2. v[1] = i /\ v[2] = j /\ v[3] = k
        BY <3>1
      <3> QED
        BY <3>1, <3>2 DEF Addressed
    <2> QED
      BY <2>1
  <1>2. ASSUME NEW v \in VirtualAddresses, In3(memory, r, v[1], v[2], v[3])
        PROVE  v \in DataPaths(r)
    <2>1. <<v[1], v[2], v[3]>> \in DataPaths(r)
      BY <1>2, PathsAre
    <2>2. v = <<v[1], v[2], v[3]>>
      BY AddressesAre
    <2> QED
      BY <2>1, <2>2, Zenon
  <1>3. ASSUME NEW v \in VirtualAddresses, In3(memory, r, v[1], v[2], v[3])
        PROVE  /\ PageAt(r, v) = p <=> Maps(memory, r, v, p)
               /\ Shares(mode, EntryOf(r, v)) <=>
                    mode = "COW" /\ Writes(FlagsAt(memory, r, v[1], v[2], v[3]))
    <2>1. /\ PageAt(r, v) = At3(memory, r, v[1], v[2], v[3])
          /\ EntryOf(r, v).flags = FlagsAt(memory, r, v[1], v[2], v[3])
      BY MappedIs
    <2>2. "valid" \in FlagsAt(memory, r, v[1], v[2], v[3])
      BY <1>3 DEF In3, Valid, FlagsAt
    <2> QED
      BY <1>3, <2>1, <2>2 DEF Maps, Shares, Has, Writes
  <1>4. S = Adds(mode, p)
    <2>1. ASSUME NEW v PROVE v \in S <=> v \in Adds(mode, p)
      BY <1>1, <1>2, <1>3 DEF Adds, Maps
    <2> QED
      BY <2>1
  <1>5. CopiedRefTrack(mode)[p] = ref_track[p] + Cardinality(S)
    BY DEF CopiedRefTrack
  <1> HIDE DEF S
  <1> QED
    BY <1>4, <1>5

(* Who may write to a page after copy: the roots that could before, and    *)
(* the new root where it shares the page or has taken it.                  *)
LEMMA WritersAfterCopy ==
  ASSUME NEW m, NEW m2, NEW R, NEW A, Forest(m, R, A), NEW r, NEW n, NEW dup, NEW mode,
         Copied(m, m2, R, A, r, n, dup, mode), NEW p
  PROVE  /\ \A w \in R \X VirtualAddresses :
              w \in Writers(m2, R \cup {n}, p) <=> w \in Writers(m, R, p)
         /\ mode = "COW" => \A v \in VirtualAddresses :
              <<n, v>> \in Writers(m2, R \cup {n}, p) <=>
                Maps(m, r, v, p) /\ Writes(FlagsAt(m, r, v[1], v[2], v[3]))
         /\ mode = "DEFAULT" /\ p \in A => \A v \in VirtualAddresses :
              <<n, v>> \notin Writers(m2, R \cup {n}, p)
  <1>1. \A s \in R \cup {n}, v \in VirtualAddresses :
          <<s, v>> \in Writers(m2, R \cup {n}, p) <=>
            Maps(m2, s, v, p) /\ Writes(FlagsAt(m2, s, v[1], v[2], v[3]))
    BY DEF Writers
  <1>2. \A s \in R, v \in VirtualAddresses :
          <<s, v>> \in Writers(m, R, p) <=>
            Maps(m, s, v, p) /\ Writes(FlagsAt(m, s, v[1], v[2], v[3]))
    BY DEF Writers
  <1>3. ASSUME NEW s \in R, NEW v \in VirtualAddresses
        PROVE  <<s, v>> \in Writers(m2, R \cup {n}, p) <=> <<s, v>> \in Writers(m, R, p)
    <2>1. SameTree(m, m2, s)
      BY DEF Copied, OldTrees
    <2>2. Maps(m2, s, v, p) <=> Maps(m, s, v, p)
      BY <2>1 DEF Maps, SameTree
    <2>3. Maps(m, s, v, p) =>
            (Writes(FlagsAt(m2, s, v[1], v[2], v[3])) <=>
               Writes(FlagsAt(m, s, v[1], v[2], v[3])))
      BY AfterFlagsAre DEF Maps, Copied, OldTrees
    <2> QED
      BY <1>1, <1>2, <2>2, <2>3
  <1>4. ASSUME NEW w \in R \X VirtualAddresses
        PROVE  w \in Writers(m2, R \cup {n}, p) <=> w \in Writers(m, R, p)
    <2>1. PICK s \in R, v \in VirtualAddresses : w = <<s, v>>
      OBVIOUS
    <2> QED
      BY <1>3, <2>1
  <1>5. ASSUME mode = "COW", NEW v \in VirtualAddresses
        PROVE  <<n, v>> \in Writers(m2, R \cup {n}, p) <=>
                 Maps(m, r, v, p) /\ Writes(FlagsAt(m, r, v[1], v[2], v[3]))
    <2>0. NewTree(m, m2, r, n, dup, mode)
      BY DEF Copied
    <2>1. Maps(m2, n, v, p) <=> Maps(m, r, v, p)
      BY <1>5, <2>0 DEF Maps, NewTree
    <2>2. Maps(m, r, v, p) =>
            (Writes(FlagsAt(m2, n, v[1], v[2], v[3])) <=>
               Writes(FlagsAt(m, r, v[1], v[2], v[3])))
      <3>1. \A i, j, k : In3(m, r, i, j, k) =>
              FlagsAt(m2, n, i, j, k) = AfterFlags(mode, FlagsAt(m, r, i, j, k))
        BY <2>0 DEF NewTree
      <3>2. \A f : Writes(AfterFlags(mode, f)) <=> Writes(f)
        BY DEF AfterFlags, Writes
      <3> QED
        BY <3>1, <3>2 DEF Maps
    <2> QED
      BY <1>1, <2>1, <2>2
  <1>6. ASSUME mode = "DEFAULT", p \in A, NEW v \in VirtualAddresses
        PROVE  <<n, v>> \notin Writers(m2, R \cup {n}, p)
    <2>0. NewTree(m, m2, r, n, dup, mode) /\ FreshData(m, r, A, dup, mode)
      BY DEF Copied
    <2>1. ASSUME In3(m2, n, v[1], v[2], v[3])
          PROVE  At3(m2, n, v[1], v[2], v[3]) \notin A
      <3>1. In3(m, r, v[1], v[2], v[3])
        BY <2>0, <2>1 DEF NewTree
      <3>2. At3(m2, n, v[1], v[2], v[3]) = dup[<<v[1], v[2], v[3]>>]
        BY <1>6, <2>0, <3>1 DEF NewTree
      <3> QED
        BY <1>6, <2>0, <3>1, <3>2 DEF FreshData
    <2>2. ~Maps(m2, n, v, p)
      BY <1>6, <2>1 DEF Maps
    <2> QED
      BY <1>1, <2>2
  <1> QED
    BY <1>4, <1>5, <1>6

LEMMA CountedForked ==
  ASSUME NEW mode \in {"DEFAULT", "COW"}, Forest(memory, roots, allocated),
         roots \subseteq Pages, Counted(memory, roots, ref_track), ref_track \in [Pages -> Int],
         NEW r, r = root_page_table, NEW n \in Pages, NEW dup, NEW m2, NEW A2,
         Copied(memory, m2, roots, allocated, r, n, dup, mode),
         Forest(m2, roots \cup {n}, A2)
  PROVE  Counted(m2, roots \cup {n}, CopiedRefTrack(mode))
  <1> DEFINE R2 == roots \cup {n}
             W(p) == Writers(memory, roots, p)
             W2(p) == Writers(m2, R2, p)
  <1>1. r \in roots /\ n \notin roots
    BY DEF Copied
  <1> SUFFICES ASSUME NEW p \in Pages
               PROVE  CopiedRefTrack(mode)[p] = Others(W2(p))
    BY DEF Counted
  <1>2. CopiedRefTrack(mode)[p] = ref_track[p] + Cardinality(Adds(mode, p))
    BY <1>1, AddsAre DEF Forest
  <1>3. /\ \A w \in W(p) : w \in roots \X VirtualAddresses
        /\ \A w \in W2(p) : \/ w \in roots \X VirtualAddresses
                            \/ \E v \in VirtualAddresses : w = <<n, v>>
    BY DEF Writers
  <1>4. \A w \in roots \X VirtualAddresses : w \in W2(p) <=> w \in W(p)
    BY WritersAfterCopy
  <1>5. ref_track[p] = Others(W(p)) /\ ref_track[p] \in Int
    BY DEF Counted
  <1>6. IsFiniteSet(W(p)) /\ Cardinality(W(p)) \in Nat
    BY WritersFinite
  <1> HIDE DEF W, W2
  <1>7. ASSUME Adds(mode, p) = {}, W2(p) = W(p)
        PROVE  CopiedRefTrack(mode)[p] = Others(W2(p))
    BY <1>2, <1>5, <1>7, FS_EmptySet
  <1>8. CASE mode = "DEFAULT"
    <2>1. Adds(mode, p) = {}
      BY <1>8 DEF Adds
    <2>2. CASE p \in allocated
      <3>1. \A v \in VirtualAddresses : <<n, v>> \notin W2(p)
        BY <1>8, <2>2, WritersAfterCopy DEF W2
      <3>2. W2(p) = W(p)
        BY <1>3, <1>4, <3>1
      <3> QED
        BY <1>7, <2>1, <3>2
    <2>3. CASE p \notin allocated
      <3>1. W(p) = {}
        BY <2>3, FreeUnwritten DEF W
      <3>2. \A w \in W2(p) : \E v \in VirtualAddresses : w = <<n, v>>
        BY <1>3, <1>4, <3>1
      <3>3. ASSUME NEW w \in W2(p), NEW x \in W2(p) PROVE w = x
        <4>1. PICK v \in VirtualAddresses : w = <<n, v>>
          BY <3>2
        <4>2. PICK u \in VirtualAddresses : x = <<n, u>>
          BY <3>2
        <4>3. Maps(m2, n, v, p) /\ Maps(m2, n, u, p) /\ n \in R2
          BY <4>1, <4>2 DEF W2, Writers
        <4>4. v = u
          BY <4>3, OneMapping
        <4> QED
          BY <4>1, <4>2, <4>4
      <3>4. \E w : W2(p) \subseteq {w}
        BY <3>3
      <3>5. Others(W2(p)) = 0 /\ Others(W(p)) = 0
        BY <3>1, <3>4, OthersOfOne
      <3>6. Cardinality(Adds(mode, p)) = 0
        BY <2>1, FS_EmptySet
      <3> QED
        BY <1>2, <1>5, <3>5, <3>6
    <2> QED
      BY <2>2, <2>3
  <1>9. CASE mode = "COW"
    <2>1. \A v \in VirtualAddresses : <<n, v>> \in W2(p) <=> v \in Adds(mode, p)
      BY <1>9, WritersAfterCopy DEF W2, Adds
    <2>2. CASE Adds(mode, p) = {}
      <3>1. W2(p) = W(p)
        BY <1>3, <1>4, <2>1, <2>2
      <3> QED
        BY <1>7, <2>2, <3>1
    <2>3. CASE Adds(mode, p) # {}
      <3>1. PICK v \in VirtualAddresses : v \in Adds(mode, p)
        BY <2>3 DEF Adds
      <3>2. ASSUME NEW u \in Adds(mode, p) PROVE u = v
        <4>1. /\ Maps(memory, r, u, p) /\ Maps(memory, r, v, p)
              /\ u \in VirtualAddresses
          BY <3>1, <3>2 DEF Adds
        <4> QED
          BY <1>1, <4>1, OneMapping
      <3>3. Adds(mode, p) = {v}
        BY <3>1, <3>2
      <3>4. Cardinality(Adds(mode, p)) = 1
        BY <3>3, FS_Singleton
      <3>5. <<n, v>> \notin W(p)
        BY <1>1, <1>3
      <3>6. W2(p) = W(p) \cup {<<n, v>>}
        BY <1>3, <1>4, <2>1, <3>1, <3>3
      <3>7. Cardinality(W2(p)) = Cardinality(W(p)) + 1
        <4> DEFINE x == <<n, v>>
        <4> HIDE DEF x
        <4>1. W2(p) = W(p) \cup {x} /\ x \notin W(p)
          BY <3>5, <3>6 DEF x
        <4> QED
          BY <1>6, <4>1, FS_AddElement
      <3>8. <<r, v>> \in W(p)
        BY <1>1, <3>1 DEF W, Writers, Adds
      <3>9. Cardinality(W(p)) # 0
        BY <1>6, <3>8, FS_EmptySet
      <3> QED
        BY <1>2, <1>5, <1>6, <3>4, <3>7, <3>9 DEF Others
    <2> QED
      BY <2>2, <2>3
  <1> QED
    BY <1>8, <1>9 DEF W2

LEMMA RootsInUse ==
  ASSUME NEW m, NEW R, NEW A, Forest(m, R, A)
  PROVE  R \subseteq A /\ R \subseteq Pages /\ IsFiniteSet(R) /\ Cardinality(R) \in Nat
  <1>1. R \subseteq A /\ R \subseteq Pages
    BY DEF Forest, Homes, HomesOf
  <1> QED
    BY <1>1, PagesFinite, FS_Subset, FS_CardinalityType

(* No page has more than one writer for each root.                         *)
LEMMA CountersBounded ==
  ASSUME NEW m, NEW R, NEW A, Forest(m, R, A), Cardinality(R) <= MAX_ROOTS,
         NEW ref, Counted(m, R, ref), NEW p \in Pages
  PROVE  ref[p] \in 0..MAX_ROOTS
  <1>1. /\ Cardinality(Writers(m, R, p)) \in Nat
        /\ Cardinality(Writers(m, R, p)) <= Cardinality(R)
        /\ Cardinality(R) \in Nat
    BY RootsInUse, WritersFinite
  <1>2. MAX_ROOTS \in Nat
    BY ConstantsAssumption DEF ConstantsAssumption
  <1> QED
    BY <1>1, <1>2 DEF Counted, Others

(* Both forks.                                                             *)
LEMMA CopyKeeps ==
  ASSUME NEW mode \in {"DEFAULT", "COW"}, copy(mode),
         Forest(memory, roots, allocated), Counted(memory, roots, ref_track),
         ref_track \in [Pages -> 0..MAX_ROOTS],
         NEW r, r = root_page_table, NEW dup, dup = Duplicate(mode), NEW n, n = dup[<<>>]
  PROVE  /\ Forest(memory', roots', allocated')
         /\ Counted(memory', roots', ref_track')
         /\ ref_track' \in [Pages -> 0..MAX_ROOTS]
         /\ n \in Pages /\ roots' = roots \cup {n}
         /\ Copied(memory, memory', roots, allocated, r, n, dup, mode)
         /\ \A q \in allocated : memory'[q].ints = memory[q].ints
         /\ mode = "DEFAULT" => \A i, j, k : In3(memory, r, i, j, k) =>
              memory'[dup[<<i, j, k>>]].ints = memory[At3(memory, r, i, j, k)].ints
  <1> DEFINE m2 == CopiedMemory(mode)
             A2 == allocated \cup Range(dup)
  <1>1. /\ memory' = m2 /\ allocated' = A2 /\ roots' = roots \cup {n}
        /\ ref_track' = CopiedRefTrack(mode)
        /\ r \in roots /\ Cardinality(roots) < MAX_ROOTS
    BY DEF copy, Accesses
  <1>2. dup \in Injection(Duplicated(mode), Free)
    BY <1>1, DuplicateIs DEF copy
  <1>3. /\ \A p \in Duplicated(mode) : dup[p] \in Pages /\ dup[p] \notin allocated
        /\ \A p \in Duplicated(mode) : dup[p] \in A2
        /\ roots \subseteq allocated /\ roots \subseteq Pages
        /\ IsFiniteSet(roots) /\ Cardinality(roots) \in Nat
    BY <1>2, RootsInUse DEF Injection, Free, Range
  <1>4. /\ <<>> \in Duplicated(mode)
        /\ \A i, j, k : In3(memory, r, i, j, k) =>
             (<<i, j, k>> \in Duplicated(mode) <=> mode = "DEFAULT")
    BY DuplicatedIs
  <1> HIDE DEF m2
  <1>5. /\ m2 \in Memory
        /\ \A q \in Pages : (\A p \in Duplicated(mode) : dup[p] # q) =>
             m2[q].ints = memory[q].ints
        /\ \A p \in TablePaths(r) : PageAt(r, p) \in Pages
        /\ \A p \in TablePaths(r) : \A i \in Indices :
             m2[dup[p]].pte[i] = ForkedEntry(mode, p, i, dup)
    BY <1>1, <1>2, CopiedTyped DEF m2
  <1>6. OldTrees(memory, m2, roots, r, mode)
    BY <1>1, <1>2, TreesKept DEF m2
  <1>7. NewTree(memory, m2, r, n, dup, mode)
    <2>1. memory \in Memory
      BY DEF Forest
    <2> QED
      BY <1>5, <2>1, TreeCopied
  <1>8. n \in Pages /\ n \notin roots
    BY <1>3, <1>4
  <1>9. Copied(memory, m2, roots, allocated, r, n, dup, mode)
    <2>1. FreshData(memory, r, allocated, dup, mode)
      BY <1>3, <1>4 DEF FreshData
    <2> QED
      BY <1>1, <1>6, <1>7, <1>8, <2>1 DEF Copied
  <1>10. /\ \A p \in Duplicated(mode) :
              m2[dup[p]] = IF Len(p) = 3 THEN memory[PageAt(r, p)] ELSE ForkedTable(mode, p)
         /\ \A p \in TablePaths(r) : m2[PageAt(r, p)] = OriginalTable(mode, p)
         /\ \A q \in Pages :
              /\ \A p \in Duplicated(mode) : dup[p] # q
              /\ \A p \in TablePaths(r) : PageAt(r, p) # q
              => m2[q] = memory[q]
    BY <1>1, <1>2, CopiedMemoryIs DEF m2
  <1>11. Zeroed(m2, A2)
    <2>1. \A p \in TablePaths(r) : PageAt(r, p) \in allocated
      <3>1. PICK home : Homes(memory, roots, allocated, home)
        BY DEF Forest
      <3>2. HomesOf(memory, r, allocated, home) /\ r \in Pages
        BY <1>1, <1>3, <3>1 DEF Homes
      <3> QED
        BY <3>2, HomeTells DEF Paths
    <2>2. ASSUME NEW q \in Pages \ A2 PROVE m2[q] = ZeroPage
      <3>1. q \notin allocated /\ \A p \in Duplicated(mode) : dup[p] # q
        BY <1>3
      <3>2. m2[q] = memory[q]
        BY <1>10, <2>1, <3>1
      <3> QED
        BY <3>1, <3>2 DEF Forest, Zeroed
    <2> QED
      BY <2>2 DEF Zeroed
  <1>12. Forest(m2, roots \cup {n}, A2)
    BY <1>1, <1>2, <1>5, <1>6, <1>7, <1>11, ForestForked
  <1>13. Counted(m2, roots \cup {n}, CopiedRefTrack(mode))
    <2>1. ref_track \in [Pages -> Int]
      <3>1. 0..MAX_ROOTS \subseteq Int
        BY ConstantsAssumption DEF ConstantsAssumption
      <3> QED
        BY <3>1
    <2> QED
      BY <1>3, <1>8, <1>9, <1>12, <2>1, CountedForked
  <1>14. CopiedRefTrack(mode) \in [Pages -> 0..MAX_ROOTS]
    <2>1. Cardinality(roots \cup {n}) = Cardinality(roots) + 1
      BY <1>3, <1>8, FS_AddElement
    <2>2. MAX_ROOTS \in Nat
      BY ConstantsAssumption DEF ConstantsAssumption
    <2>3. Cardinality(roots \cup {n}) <= MAX_ROOTS
      BY <1>1, <1>3, <2>1, <2>2
    <2>4. \A p \in Pages : CopiedRefTrack(mode)[p] \in 0..MAX_ROOTS
      BY <1>12, <1>13, <2>3, CountersBounded
    <2>5. CopiedRefTrack(mode) = [p \in Pages |-> CopiedRefTrack(mode)[p]]
      BY DEF CopiedRefTrack
    <2> QED
      BY <2>4, <2>5
  <1>15. \A q \in allocated : m2[q].ints = memory[q].ints
    BY <1>3, <1>5 DEF Forest
  <1>16. ASSUME mode = "DEFAULT", NEW i, NEW j, NEW k, In3(memory, r, i, j, k)
         PROVE  m2[dup[<<i, j, k>>]].ints = memory[At3(memory, r, i, j, k)].ints
    <2>1. <<i, j, k>> \in Duplicated(mode)
      BY <1>4, <1>16
    <2> DEFINE p == <<i, j, k>>
    <2>2. PageAt(r, p) = At3(memory, r, i, j, k) /\ Len(p) = 3
      BY DataPageIs
    <2> HIDE DEF p
    <2>3. p \in Duplicated(mode)
      BY <2>1 DEF p
    <2>4. m2[dup[p]].ints = memory[At3(memory, r, i, j, k)].ints
      BY <1>10, <2>2, <2>3
    <2> QED
      BY <2>4 DEF p
  <1> HIDE DEF A2
  <1> QED
    BY <1>1, <1>8, <1>9, <1>12, <1>13, <1>14, <1>15, <1>16

-----------------------------------------------------------------------------
(* The inductive invariant: the pages in use are the forest that the roots *)
(* lead to, and ref_track counts who may write to each.                    *)

Types ==
  /\ ref_track \in [Pages -> 0..MAX_ROOTS]
  /\ root_page_table \in roots \cup {NONE}
  /\ got \in Int
  /\ process \in {"running", "ENOMEM", "EFAULT"}

IInv ==
  /\ Forest(memory, roots, allocated)
  /\ Counted(memory, roots, ref_track)
  /\ Types

LEMMA InitHolds ==
  ASSUME Init
  PROVE  IInv
  <1>1. memory \in Memory /\ \A p \in Pages : memory[p] = ZeroPage
    BY ZeroPageTyped DEF Init, Memory
  <1>2. Forest(memory, roots, allocated)
    <2>1. /\ Homes(memory, {}, {}, <<>>) /\ Reached(memory, {}, {})
          /\ Addressed(memory, {}) /\ Plain(memory, {}) /\ SharedAlike(memory, {})
          /\ Zeroed(memory, {})
      BY <1>1 DEF Homes, Reached, Addressed, Plain, SharedAlike, Zeroed
    <2> QED
      BY <1>1, <2>1 DEF Forest, Init
  <1>3. Counted(memory, roots, ref_track)
    <2>1. \A p \in Pages : Writers(memory, {}, p) = {}
      BY DEF Writers
    <2>2. Cardinality({}) = 0
      BY FS_EmptySet
    <2> QED
      BY <2>1, <2>2 DEF Counted, Others, Init
  <1>4. Types
    <2>1. MAX_ROOTS \in Nat
      BY ConstantsAssumption DEF ConstantsAssumption
    <2> QED
      BY <2>1 DEF Init, Types
  <1> QED
    BY <1>2, <1>3, <1>4 DEF IInv

(* A new root maps nothing.                                                *)
LEMMA CountedNewRoot ==
  ASSUME NEW m, NEW R, NEW ref, Counted(m, R, ref), NEW p,
         \A i, j, k : ~In3(m, p, i, j, k)
  PROVE  Counted(m, R \cup {p}, ref)
  <1>1. ASSUME NEW q PROVE Writers(m, R \cup {p}, q) = Writers(m, R, q)
    <2>1. \A v : ~Maps(m, p, v, q)
      BY DEF Maps
    <2>2. ASSUME NEW w
          PROVE  w \in Writers(m, R \cup {p}, q) <=> w \in Writers(m, R, q)
      BY <2>1 DEF Writers
    <2> QED
      BY <2>2
  <1> QED
    BY <1>1 DEF Counted

(* The client's calls *)

LEMMA NewRootKeeps ==
  ASSUME IInv, client_new_root
  PROVE  IInv'
  <1>1. CASE Free = {}
    BY <1>1 DEF IInv, client_new_root, Exits, Types
  <1>2. CASE Free # {}
    <2> DEFINE p == NewPage(0)
    <2>1. /\ allocated' = allocated \cup {p} /\ roots' = roots \cup {p}
          /\ UNCHANGED <<ref_track, memory, root_page_table, got, process>>
      BY <1>2 DEF client_new_root
    <2>2. p \in Pages \ allocated
      BY <1>2, FirstFree DEF Free
    <2> HIDE DEF p
    <2>3. /\ Forest(memory, roots \cup {p}, allocated \cup {p})
          /\ \A i, j, k : ~In3(memory, p, i, j, k)
      BY <2>2, RootAdded DEF IInv
    <2>4. Counted(memory, roots \cup {p}, ref_track)
      BY <2>3, CountedNewRoot DEF IInv
    <2> QED
      BY <2>1, <2>3, <2>4 DEF IInv, Types
  <1> QED
    BY <1>1, <1>2

LEMMA MapKeeps ==
  ASSUME IInv, NEW root \in roots, NEW v \in VirtualAddresses, NEW mode,
         client_map(root, v, mode)
  PROVE  IInv'
  <1> DEFINE e == MapLeaf(root, v, mode)
  <1>1. UNCHANGED <<ref_track, root_page_table, roots, got, process>>
    BY DEF client_map
  <1>2. /\ Forest(memory', roots, allocated')
        /\ OneEntry(memory, memory', roots, root, v[1], v[2], v[3], e)
        /\ ~In3(memory, root, v[1], v[2], v[3])
        /\ e.ppn \in Pages \ allocated
    BY ClientMaps DEF IInv, Free
  <1> HIDE DEF e
  <1>3. Counted(memory', roots, ref_track)
    BY <1>2, CountedMap DEF IInv
  <1> QED
    BY <1>1, <1>2, <1>3 DEF IInv, Types

LEMMA UnmapKeeps ==
  ASSUME IInv, NEW root \in roots, NEW v \in VirtualAddresses, client_unmap(root, v)
  PROVE  IInv'
  <1> DEFINE page == At3(memory, root, v[1], v[2], v[3])
  <1>1. UNCHANGED <<ref_track, root_page_table, roots, got, process>>
    BY DEF client_unmap
  <1>2. /\ Forest(memory', roots, allocated')
        /\ OneEntry(memory, memory', roots, root, v[1], v[2], v[3], ZeroPTE)
        /\ In3(memory, root, v[1], v[2], v[3])
        /\ Alone(memory, roots, root, v[1], v[2], v[3], page)
    BY ClientUnmaps DEF IInv
  <1>3. Maps(memory, root, v, page) /\ "valid" \notin ZeroPTE.flags
    BY <1>2 DEF Maps, ZeroPTE
  <1> HIDE DEF page
  <1>4. Counted(memory', roots, ref_track)
    BY <1>2, <1>3, CountedUnmap DEF IInv
  <1> QED
    BY <1>1, <1>2, <1>4 DEF IInv, Types

LEMMA SetRootKeeps ==
  ASSUME IInv, NEW root, vms_set_root_page_table(root)
  PROVE  IInv'
  BY DEF vms_set_root_page_table, IInv, Types

(* Who may write to a page depends on the mappings only.                   *)
LEMMA CountedSameMaps ==
  ASSUME NEW m, NEW m2, NEW R, NEW ref, Counted(m, R, ref), SameMaps(m, m2, R)
  PROVE  Counted(m2, R, ref)
  <1>1. ASSUME NEW p PROVE Writers(m2, R, p) = Writers(m, R, p)
    <2>1. ASSUME NEW s \in R, NEW v
          PROVE  /\ Maps(m2, s, v, p) <=> Maps(m, s, v, p)
                 /\ Maps(m, s, v, p) =>
                      FlagsAt(m2, s, v[1], v[2], v[3]) = FlagsAt(m, s, v[1], v[2], v[3])
      BY DEF SameMaps, Maps
    <2>2. ASSUME NEW w PROVE w \in Writers(m2, R, p) <=> w \in Writers(m, R, p)
      BY <2>1 DEF Writers
    <2> QED
      BY <2>2
  <1> QED
    BY <1>1 DEF Counted

LEMMA ValuesAreInts == Values \subseteq Int
  BY ConstantsAssumption DEF ConstantsAssumption

LEMMA WriteKeepsInv ==
  ASSUME IInv, NEW v \in VirtualAddresses, NEW o \in Offsets, NEW x \in Values,
         vms_write(v, o, x)
  PROVE  IInv'
  <1>1. UNCHANGED <<allocated, ref_track, root_page_table, roots, got, process>>
    BY DEF vms_write
  <1>2. Forest(memory', roots, allocated) /\ SameMaps(memory, memory', roots)
    BY WriteKeeps, ValuesAreInts DEF IInv
  <1>3. Counted(memory', roots, ref_track)
    BY <1>2, CountedSameMaps DEF IInv
  <1> QED
    BY <1>1, <1>2, <1>3 DEF IInv, Types

LEMMA FaultKeepsInv ==
  ASSUME IInv, NEW v \in VirtualAddresses, NEW o \in Offsets, NEW x \in Values,
         vms_write_after_fault(v, o, x)
  PROVE  IInv'
  <1> DEFINE old == At3(memory, root_page_table, v[1], v[2], v[3])
             n == IF ref_track[old] = 0 THEN 0 ELSE ref_track[old] - 1
  <1>1. UNCHANGED <<root_page_table, roots, got, process>>
    BY DEF vms_write_after_fault
  <1>2. ref_track \in [Pages -> 0..MAX_ROOTS] /\ MAX_ROOTS \in Nat
    BY ConstantsAssumption DEF IInv, Types, ConstantsAssumption
  <1>3. ref_track \in [Pages -> Int]
    <2>1. 0..MAX_ROOTS \subseteq Int
      BY <1>2
    <2> QED
      BY <1>2, <2>1
  <1>4. Forest(memory', roots, allocated')
    BY <1>3, FaultRepairs DEF IInv
  <1>5. Counted(memory', roots, ref_track')
    BY <1>3, FaultRepairs DEF IInv
  <1>6. In3(memory, root_page_table, v[1], v[2], v[3])
    BY <1>3, FaultRepairs DEF IInv
  <1>7. ref_track' = [ref_track EXCEPT ![old] = n]
    <2>1. OneLess(ref_track, ref_track', old)
      BY <1>3, FaultRepairs DEF IInv
    <2> QED
      BY <2>1 DEF OneLess
  <1>8. root_page_table \in roots
    BY DEF vms_write_after_fault, Accesses
  <1>9. old \in Pages
    BY <1>6, <1>8 DEF IInv, Forest, Homes, HomesOf
  <1> HIDE DEF old
  <1>10. n \in 0..MAX_ROOTS
    BY <1>2, <1>9
  <1> HIDE DEF n
  <1>11. ref_track' \in [Pages -> 0..MAX_ROOTS]
    BY <1>2, <1>7, <1>9, <1>10
  <1> QED
    BY <1>1, <1>4, <1>5, <1>11 DEF IInv, Types

LEMMA ReadKeeps ==
  ASSUME IInv, NEW v \in VirtualAddresses, NEW o \in Offsets, vms_read(v, o)
  PROVE  IInv'
  <1>1. /\ UNCHANGED <<allocated, ref_track, memory, root_page_table, roots, process>>
        /\ got' = memory[EntryOf(root_page_table, v).ppn].ints[o]
        /\ root_page_table \in roots
        /\ Has(EntryOf(root_page_table, v), "valid") /\ Reaches(v)
    BY DEF vms_read, Accesses, should_generate_fault
  <1>2. In3(memory, root_page_table, v[1], v[2], v[3])
    BY <1>1, AccessMapped
  <1>3. EntryOf(root_page_table, v).ppn \in Pages
    <2>1. At3(memory, root_page_table, v[1], v[2], v[3]) \in allocated
      BY <1>1, <1>2 DEF IInv, Forest, Homes, HomesOf
    <2>2. EntryOf(root_page_table, v).ppn = At3(memory, root_page_table, v[1], v[2], v[3])
      BY MappedIs
    <2> QED
      BY <2>1, <2>2 DEF IInv, Forest
  <1>4. got' \in Int
    BY <1>1, <1>3 DEF IInv, Forest, Memory
  <1> QED
    BY <1>1, <1>4 DEF IInv, Types

LEMMA ExitKeeps ==
  ASSUME IInv, NEW status \in {"ENOMEM", "EFAULT"}, Exits(status)
  PROVE  IInv'
  BY DEF IInv, Types, Exits

LEMMA CopyKeepsInv ==
  ASSUME IInv, NEW mode \in {"DEFAULT", "COW"}, copy(mode)
  PROVE  IInv'
  <1>1. UNCHANGED <<root_page_table, got, process>>
    BY DEF copy
  <1> DEFINE n == Duplicate(mode)[<<>>]
  <1>2. /\ Forest(memory', roots', allocated')
        /\ Counted(memory', roots', ref_track')
        /\ ref_track' \in [Pages -> 0..MAX_ROOTS]
    BY CopyKeeps DEF IInv, Types
  <1>3. roots' = roots \cup {n}
    BY DEF copy
  <1> HIDE DEF n
  <1> QED
    BY <1>1, <1>2, <1>3 DEF IInv, Types

LEMMA NextHolds ==
  ASSUME IInv, [Next]_vars
  PROVE  IInv'
  <1>1. CASE client_new_root
    BY <1>1, NewRootKeeps
  <1>2. CASE \E root \in roots : vms_set_root_page_table(root)
    BY <1>2, SetRootKeeps
  <1>3. CASE \E root \in roots, v \in VirtualAddresses :
               \/ client_unmap(root, v)
               \/ \E mode \in MapModes[v] : client_map(root, v, mode)
    BY <1>3, UnmapKeeps, MapKeeps
  <1>4. CASE \E v \in VirtualAddresses, o \in Offsets :
               \/ vms_read(v, o)
               \/ \E x \in Values : vms_write(v, o, x) \/ vms_write_after_fault(v, o, x)
    BY <1>4, ReadKeeps, WriteKeepsInv, FaultKeepsInv
  <1>5. CASE \E v \in VirtualAddresses, flag \in {"read", "write"} :
               access_no_memory(v, flag) \/ access_fatal(v, flag)
    BY <1>5, ExitKeeps DEF access_no_memory, access_fatal
  <1>6. CASE vms_fork_copy \/ vms_fork_copy_on_write
    BY <1>6, CopyKeepsInv DEF vms_fork_copy, vms_fork_copy_on_write
  <1>7. CASE copy_no_memory("DEFAULT") \/ copy_no_memory("COW")
    BY <1>7, ExitKeeps DEF copy_no_memory
  <1>8. CASE UNCHANGED vars \/ Halted
    BY <1>8 DEF Halted, vars, IInv, Types
  <1> QED
    BY <1>1, <1>2, <1>3, <1>4, <1>5, <1>6, <1>7, <1>8 DEF Next

LEMMA Invariant == Spec => []IInv
  <1>1. Init => IInv
    BY InitHolds
  <1>2. IInv /\ [Next]_vars => IInv'
    BY NextHolds
  <1> QED
    BY <1>1, <1>2, PTL DEF Spec

-----------------------------------------------------------------------------
(* What the invariant says about the runs' properties                      *)

(* Every page index, entry and counter has its type, and the counter of a  *)
(* shared page never goes below zero (page_fault_handler, vms_free_page).  *)
THEOREM TypeCorrect == Spec => []TypeOK
  <1>1. ASSUME IInv PROVE TypeOK
    <2>1. allocated \subseteq Pages /\ roots \subseteq Pages
      BY <1>1, RootsInUse DEF IInv, Forest
    <2>2. memory \in [Pages -> [pte : [Indices -> PTE], ints : [Offsets -> Int]]]
      BY <1>1 DEF IInv, Forest, Memory
    <2> QED
      BY <1>1, <2>1, <2>2 DEF IInv, Types, TypeOK
  <1> QED
    BY <1>1, Invariant, PTL

LEMMA MappingsAre ==
  ASSUME NEW p, NEW m
  PROVE  m \in Mappings(p) <=>
           m \in roots \X VirtualAddresses /\ Maps(memory, m[1], m[2], p)
  BY MappedIs DEF Mappings, Maps

(* ref_track[p] is one less than the number of address spaces that may     *)
(* write to page p, at once or after a fault, through any sequence of      *)
(* forks of both kinds, faults, maps and frees: page_fault_handler copies  *)
(* a page just when another address space still maps it.                   *)
THEOREM CountersAlwaysExact == Spec => []RefTrackExact
  <1>1. ASSUME IInv PROVE RefTrackExact
    <2>1. ASSUME NEW p \in Pages PROVE WritersOf(p) = Writers(memory, roots, p)
      <3>1. ASSUME NEW m, m \in roots \X VirtualAddresses
            PROVE  (LET e == EntryOf(m[1], m[2]) IN Has(e, "write") \/ Has(e, "custom")) <=>
                     Writes(FlagsAt(memory, m[1], m[2][1], m[2][2], m[2][3]))
        <4>1. EntryOf(m[1], m[2]).flags = FlagsAt(memory, m[1], m[2][1], m[2][2], m[2][3])
          BY <3>1, MappedIs
        <4> QED
          BY <4>1 DEF Has, Writes
      <3>2. ASSUME NEW m PROVE m \in WritersOf(p) <=> m \in Writers(memory, roots, p)
        BY <3>1, MappingsAre DEF WritersOf, Writers
      <3> QED
        BY <3>2
    <2>2. ASSUME NEW p \in Pages
          PROVE  ref_track[p] = IF Cardinality(WritersOf(p)) = 0 THEN 0
                                ELSE Cardinality(WritersOf(p)) - 1
      BY <1>1, <2>1 DEF IInv, Counted, Others
    <2> QED
      BY <2>2 DEF RefTrackExact
  <1> QED
    BY <1>1, Invariant, PTL

(* A page that is not in use is zeroed: what vms_new_page returns has no   *)
(* entry and no int of an earlier owner.                                   *)
THEOREM FreshPagesAlwaysZero == Spec => []FreshPagesZero
  <1>1. ASSUME IInv PROVE FreshPagesZero
    BY <1>1 DEF IInv, Forest, Zeroed, FreshPagesZero, Free
  <1> QED
    BY <1>1, Invariant, PTL

(* A page that some entry lets the program write at once is mapped by that *)
(* entry alone, across all address spaces.                                 *)
THEOREM WritableAlwaysPrivate == Spec => []WritableIsPrivate
  <1>1. ASSUME IInv PROVE WritableIsPrivate
    <2> SUFFICES ASSUME NEW root \in roots, NEW v \in VirtualAddresses,
                        Mapped(root, v), Has(EntryOf(root, v), "write")
                 PROVE  Mappings(PageAt(root, v)) = {<<root, v>>}
      BY DEF WritableIsPrivate
    <2> DEFINE page == PageAt(root, v)
    <2>1. /\ In3(memory, root, v[1], v[2], v[3])
          /\ page = At3(memory, root, v[1], v[2], v[3])
          /\ "write" \in FlagsAt(memory, root, v[1], v[2], v[3])
      BY MappedIs DEF Has
    <2> HIDE DEF page
    <2>2. Maps(memory, root, v, page)
      BY <2>1 DEF Maps
    <2>3. <<root, v>> \in Mappings(page)
      BY <2>2, MappingsAre
    <2>4. ASSUME NEW m \in Mappings(page) PROVE m = <<root, v>>
      <3>1. m \in roots \X VirtualAddresses /\ Maps(memory, m[1], m[2], page)
        BY MappingsAre
      <3>2. PICK s \in roots, u \in VirtualAddresses : m = <<s, u>>
        BY <3>1
      <3>3. u = v
        BY <1>1, <2>2, <3>1, <3>2, OneMapping DEF IInv
      <3>4. s = root
        BY <1>1, <2>1, <3>1, <3>2, <3>3 DEF IInv, Forest, SharedAlike, Maps
      <3> QED
        BY <3>2, <3>3, <3>4
    <2> QED
      BY <2>3, <2>4 DEF page
  <1> QED
    BY <1>1, Invariant, PTL

(* vms_new_page, copy and the handler lose no page and hand none out       *)
(* twice: the pages in use are those that the roots lead to, and each      *)
(* table belongs to one path of one root.                                  *)
THEOREM PagesAlwaysAccounted == Spec => []PagesAccounted
  <1>1. ASSUME IInv PROVE PagesAccounted
    <2> DEFINE T == UNION {{root} \X TablePaths(root) : root \in roots}
               P == {PageAt(t[1], t[2]) : t \in T}
    <2>1. PICK home : Homes(memory, roots, allocated, home)
      BY <1>1 DEF IInv, Forest
    <2>2. /\ roots \subseteq Pages /\ IsFiniteSet(roots) /\ allocated \subseteq Pages
      BY <1>1, RootsInUse DEF IInv, Forest
    <2>3. ASSUME NEW root \in roots
          PROVE  /\ \A p \in Paths(root) :
                      /\ PageAt(root, p) \in allocated
                      /\ PathOf(home[PageAt(root, p)]) = p
                 /\ \A p \in TablePaths(root) :
                      p \in Paths(root) /\ home[PageAt(root, p)][1] = root
      <3>1. HomesOf(memory, root, allocated, home) /\ root \in Pages
        BY <2>1, <2>2 DEF Homes
      <3> QED
        BY <3>1, HomeTells DEF Paths
    <2>4. ASSUME NEW q \in allocated
          PROVE  \E root \in roots : \E p \in Paths(root) : q = PageAt(root, p)
      <3>1. PICK root \in roots : ReachedFrom(memory, root, q)
        BY <1>1 DEF IInv, Forest, Reached
      <3>2. \A p : p \in TablePaths(root) => p \in Paths(root)
        BY DEF Paths
      <3>3. CASE q = root
        <4>1. <<>> \in Paths(root) /\ PageAt(root, <<>>) = q
          BY <3>2, <3>3, PathsOf, PageAtIs
        <4> QED
          BY <4>1
      <3>4. ASSUME NEW i, In1(memory, root, i), q = At1(memory, root, i)
            PROVE  \E p \in Paths(root) : q = PageAt(root, p)
        <4>1. <<i>> \in Paths(root)
          BY <3>2, <3>4, PathsOf
        <4>2. PageAt(root, <<i>>) = q
          BY <3>4, PageAtIs
        <4> QED
          BY <4>1, <4>2
      <3>5. ASSUME NEW i, NEW j, In2(memory, root, i, j), q = At2(memory, root, i, j)
            PROVE  \E p \in Paths(root) : q = PageAt(root, p)
        <4>1. <<i, j>> \in Paths(root)
          BY <3>2, <3>5, PathsOf
        <4>2. PageAt(root, <<i, j>>) = q
          BY <3>5, PageAtIs
        <4> QED
          BY <4>1, <4>2
      <3>6. ASSUME NEW i, NEW j, NEW k,
                   In3(memory, root, i, j, k), q = At3(memory, root, i, j, k)
            PROVE  \E p \in Paths(root) : q = PageAt(root, p)
        <4>1. <<i, j, k>> \in Paths(root)
          BY <3>6, PathsOf
        <4>2. PageAt(root, <<i, j, k>>) = q
          BY <3>6, DataPageIs
        <4> QED
          BY <4>1, <4>2
      <3> QED
        BY <3>1, <3>3, <3>4, <3>5, <3>6 DEF ReachedFrom
    <2>5. allocated = UNION {{PageAt(root, p) : p \in Paths(root)} : root \in roots}
      <3>1. ASSUME NEW q
            PROVE  q \in allocated <=>
                     q \in UNION {{PageAt(root, p) : p \in Paths(root)} : root \in roots}
        BY <2>3, <2>4
      <3> QED
        BY <3>1
    <2>6. /\ \A t \in T : /\ PageAt(t[1], t[2]) \in Pages
                          /\ home[PageAt(t[1], t[2])][1] = t[1]
                          /\ PathOf(home[PageAt(t[1], t[2])]) = t[2]
          /\ \A t \in T : t = <<t[1], t[2]>>
      BY <2>2, <2>3
    <2> DEFINE f == [t \in T |-> PageAt(t[1], t[2])]
    <2> HIDE DEF T
    <2>7. ASSUME NEW t \in T, NEW u \in T, f[t] = f[u] PROVE t = u
      <3>1. t[1] = u[1] /\ t[2] = u[2]
        BY <2>6, <2>7
      <3> QED
        BY <2>6, <3>1, Zenon
    <2>8. f \in Bijection(T, P) /\ f \in Injection(T, Pages)
      BY <2>6, <2>7 DEF Bijection, Injection, Surjection, IsInjective
    <2> HIDE DEF f, P
    <2>9. IsFiniteSet(T)
      BY <2>8, PagesFinite, FS_Injection
    <2>10. Cardinality(P) = Cardinality(T)
      BY <2>8, <2>9, FS_Surjection DEF Bijection
    <2> QED
      BY <2>5, <2>10 DEF PagesAccounted, T, P
  <1> QED
    BY <1>1, Invariant, PTL
=============================================================================
