------------------------------ MODULE PhtProofs ------------------------------
(***************************************************************************)
(* Theorems about Pht, for any number of threads, entries, keys and        *)
(* buckets, and any hash function.                                         *)
(***************************************************************************)
EXTENDS Pht, TLAPS

Present(k) ==
  \E i \in 1..Len(list_head[BucketOf(k)]) : get_string(list_head[BucketOf(k)][i]) = k

Idle == \A t \in Threads : pc[t] = "unborn"

(* Where main is, and where the threads are then. *)
Phases ==
  /\ table = "base" => main.loop \in {"add", "missing", "destroy"} /\ Idle
  /\ table \in {"v1", "v2"} => main.loop \in {"create", "join", "missing", "destroy", "failed"}
  /\ table = "none" => main.loop = "exited" /\ Idle
  /\ main.loop = "create" =>
       /\ main.i \in Threads
       /\ \A t \in Threads : t >= main.i => pc[t] = "unborn"
  /\ main.loop = "join" =>
       /\ main.i \in Threads
       /\ \A t \in Threads : t < main.i => pc[t] = "ended"
  /\ main.loop \in {"missing", "destroy"} /\ table # "base" =>
       \A t \in Threads : pc[t] = "ended"

(* What the step that a thread is at says of its local variables. *)
Locals ==
  \A t \in Threads :
    /\ pc[t] = "unborn" => at[t] = 0
    /\ pc[t] \in AddSteps => at[t] < SIZE
    /\ pc[t] = "ended" => at[t] = SIZE
    /\ pc[t] = "update" => found[t] # NULL
    /\ pc[t] = "publish" => Node(t) \in DOMAIN heap

(* A mutex is held by the thread that is inside with a key of it. *)
Locks ==
  /\ \A t \in Threads : Inside(t) => mutex[MutexOf(Key(t))] = t
  /\ \A b \in Buckets, t \in Threads :
       mutex[b] = t => Inside(t) /\ MutexOf(Key(t)) = b

(* The lists have each key once, in its bucket. *)
UniqueLists ==
  \A b \in Buckets :
    \A i, k \in 1..Len(list_head[b]) :
      /\ BucketOf(get_string(list_head[b][i])) = b
      /\ get_string(list_head[b][i]) = get_string(list_head[b][k]) => i = k

(* A node has the key of its index, and a thread that will insert has seen  *)
(* the list that is there.                                                  *)
Lists ==
  /\ \A n \in DOMAIN heap : heap[n].key = get_string(n)
  /\ UniqueLists
  /\ \A t \in Threads :
       /\ pc[t] \in {"link", "publish"} => ~Present(Key(t))
       /\ pc[t] = "publish" => heap[Node(t)].next = list_head[BucketOf(Key(t))]

(* What has been added is there. *)
Kept ==
  /\ \A t \in Threads : pc[t] \in {"update", "unlock"} => Present(Key(t))
  /\ \A t \in Threads : \A j \in 0..(SIZE - 1) :
       j < at[t] => Present(get_string(get_global_index(t, j)))
  /\ main.loop = "add" => \A n \in Nodes : n < main.i => Present(get_string(n))
  /\ table = "base" /\ main.loop \in {"missing", "destroy"} =>
       \A n \in Nodes : Present(get_string(n))
  /\ missing = 0

IInv == TypeOK /\ Phases /\ Locals /\ Locks /\ Lists /\ Kept

-----------------------------------------------------------------------------
(* Indices *)

LEMMA DivMod ==
  ASSUME NEW n \in Nat, NEW d \in Nat, d > 0
  PROVE  /\ n % d \in 0..(d - 1)
         /\ n \div d \in Nat
         /\ n = d * (n \div d) + (n % d)
<1>1. n % d \in 0..(d - 1)
  OBVIOUS
<1>2. n \div d \in Nat
  OBVIOUS
<1>3. n = d * (n \div d) + (n % d)
  OBVIOUS
<1> QED
  BY <1>1, <1>2, <1>3

LEMMA QuotientBound ==
  ASSUME NEW d \in Nat, d > 0, NEW q \in Nat, NEW r \in Nat, NEW c \in Nat,
         d * q + r < c * d
  PROVE  q < c
  OBVIOUS

LEMMA IndexInNodes ==
  ASSUME NEW t \in Threads, NEW j \in 0..(SIZE - 1)
  PROVE  get_global_index(t, j) \in Nodes
<1>1. t * SIZE \in Nat /\ t * SIZE <= (THREADS - 1) * SIZE
  BY ConstantsAssumption DEF Threads
<1>2. (THREADS - 1) * SIZE = THREADS * SIZE - SIZE
  BY ConstantsAssumption
<1> QED
  BY <1>1, <1>2, ConstantsAssumption DEF Nodes, get_global_index

LEMMA QuotientInThreads ==
  ASSUME NEW n \in Nodes
  PROVE  n \div SIZE \in Threads
<1>1. /\ n \in Nat /\ n < THREADS * SIZE
      /\ SIZE \in Nat /\ SIZE > 0
      /\ THREADS \in Nat
  BY ConstantsAssumption DEF Nodes
<1>2. /\ n % SIZE \in 0..(SIZE - 1)
      /\ n \div SIZE \in Nat
      /\ n = SIZE * (n \div SIZE) + (n % SIZE)
  BY <1>1, DivMod, Zenon
<1>3. n \div SIZE < THREADS
  <2>1. \A q, r \in Nat : SIZE * q + r < THREADS * SIZE => q < THREADS
    BY <1>1, QuotientBound, Zenon
  <2>2. n % SIZE \in Nat
    BY <1>1, <1>2
  <2>3. SIZE * (n \div SIZE) + (n % SIZE) < THREADS * SIZE
    BY <1>1, <1>2, Zenon
  <2> QED  BY <1>2, <2>1, <2>2, <2>3, Zenon
<1> QED
  BY <1>1, <1>2, <1>3 DEF Threads

LEMMA StringIsKey ==
  ASSUME NEW n \in Nodes
  PROVE  get_string(n) \in Keys
<1>1. n \in Nat /\ SIZE \in Nat /\ SIZE > 0
  BY ConstantsAssumption DEF Nodes
<1>2. n % SIZE \in 0..(SIZE - 1)
  BY <1>1, DivMod, Zenon
<1>3. (n % SIZE) + 1 \in 1..SIZE
  BY <1>1, <1>2
<1> QED
  BY QuotientInThreads, <1>3, ConstantsAssumption, Zenon DEF get_string

LEMMA BucketInRange ==
  ASSUME NEW k \in Keys
  PROVE  BucketOf(k) \in Buckets /\ MutexOf(k) \in Buckets
<1>1. bernstein_hash[k] \in Nat
  BY ConstantsAssumption
<1>2. BucketOf(k) \in Buckets
  BY <1>1, ConstantsAssumption DEF BucketOf, Buckets
<1> QED
  BY <1>2, ConstantsAssumption DEF MutexOf, Buckets

LEMMA NodeIsIndex ==
  ASSUME NEW n \in Nodes
  PROVE  \E t \in Threads : \E j \in 0..(SIZE - 1) : n = get_global_index(t, j)
<1>1. /\ n \in Nat /\ n < THREADS * SIZE
      /\ SIZE \in Nat /\ SIZE > 0
      /\ THREADS \in Nat
  BY ConstantsAssumption DEF Nodes
<1>2. /\ n % SIZE \in 0..(SIZE - 1)
      /\ n \div SIZE \in Nat
      /\ n = SIZE * (n \div SIZE) + (n % SIZE)
  BY <1>1, DivMod, Zenon
<1>3. n \div SIZE \in Threads
  BY QuotientInThreads
<1>4. \A q \in Nat : SIZE * q = q * SIZE
  BY <1>1
<1>5. n = get_global_index(n \div SIZE, n % SIZE)
  BY <1>2, <1>4, Zenon DEF get_global_index
<1> QED
  BY <1>2, <1>3, <1>5, Zenon

LEMMA LoopBounds ==
  /\ Total \in Nat /\ Total > 0
  /\ Nodes = 0..(Total - 1)
  /\ THREADS \in Nat /\ THREADS > 0 /\ THREADS <= Total
  /\ SIZE \in Nat /\ SIZE > 0
<1>1. \A a, b \in Nat \ {0} : a * b \in Nat /\ a * b > 0 /\ a <= a * b
  OBVIOUS
<1> QED
  BY <1>1, ConstantsAssumption DEF Total, Nodes

(* What the running thread's entry is. *)
LEMMA EntryTyped ==
  ASSUME TypeOK, NEW t \in Threads, at[t] < SIZE
  PROVE  /\ Node(t) \in Nodes
         /\ Key(t) \in Keys
         /\ BucketOf(Key(t)) \in Buckets
         /\ MutexOf(Key(t)) \in Buckets
<1>1. at[t] \in 0..(SIZE - 1)
  BY LoopBounds DEF TypeOK
<1>2. Node(t) \in Nodes
  BY <1>1, IndexInNodes DEF Node
<1>3. Key(t) \in Keys
  BY <1>2, StringIsKey DEF Key
<1> QED
  BY <1>2, <1>3, BucketInRange
-----------------------------------------------------------------------------
(* Lists *)

LEMMA Cons ==
  ASSUME NEW S, NEW s \in Seq(S), NEW n \in S
  PROVE  /\ <<n>> \o s \in Seq(S)
         /\ Len(<<n>> \o s) = Len(s) + 1
         /\ (<<n>> \o s)[1] = n
         /\ \A i \in 1..Len(s) : (<<n>> \o s)[i + 1] = s[i]
  OBVIOUS

LEMMA SeqMonotone ==
  ASSUME NEW S, NEW T, S \subseteq T, NEW s \in Seq(S)
  PROVE  s \in Seq(T)
  OBVIOUS

(* The search finds a node exactly when there is one. *)
LEMMA EntryFound ==
  ASSUME IInv, NEW k \in Keys
  PROVE  /\ get_list_entry(k) \in DOMAIN heap \cup {NULL}
         /\ get_list_entry(k) # NULL <=> Present(k)
<1> DEFINE list == list_head[BucketOf(k)]
           same == {i \in 1..Len(list) : heap[list[i]].key = k}
<1>1. list \in Seq(DOMAIN heap) /\ DOMAIN heap \subseteq Nodes
  BY BucketInRange DEF IInv, TypeOK
<1>2. \A i \in 1..Len(list) : list[i] \in DOMAIN heap /\ heap[list[i]].key = get_string(list[i])
  BY <1>1 DEF IInv, Lists
<1>3. \A i, j \in same : i = j
  BY <1>2, BucketInRange DEF IInv, Lists, UniqueLists
<1>4. Present(k) <=> same # {}
  BY <1>2 DEF Present
<1>5. CASE same = {}
  BY <1>4, <1>5 DEF get_list_entry
<1>6. CASE same # {}
  <2>1. PICK i : i \in same
    BY <1>6
  <2>2. i <= i
    BY <2>1
  <2>3. \A j \in same : i <= j
    BY <1>3, <2>1, <2>2
  <2>4. \E j \in same : \A m \in same : j <= m
    BY <2>1, <2>3
  <2>5. (CHOOSE j \in same : \A m \in same : j <= m) \in same
    BY <2>4
  <2>6. get_list_entry(k) \in DOMAIN heap
    BY <1>2, <1>6, <2>5 DEF get_list_entry
  <2>7. NULL \notin DOMAIN heap
    BY <1>1 DEF NULL, Nodes
  <2> QED
    BY <1>4, <1>6, <2>6, <2>7
<1> QED
  BY <1>5, <1>6

(* An insertion at the head of the list of a key that was absent.           *)
LEMMA Inserted ==
  ASSUME IInv, NEW n \in Nodes, ~Present(get_string(n)),
         list_head' = [list_head EXCEPT ![BucketOf(get_string(n))] =
                         <<n>> \o list_head[BucketOf(get_string(n))]]
  PROVE  /\ UniqueLists'
         /\ \A k \in Keys : Present(k)' <=> Present(k) \/ k = get_string(n)
<1> DEFINE b == BucketOf(get_string(n))
           old == list_head[b]
           new == <<n>> \o old
<1>1. b \in Buckets
  BY StringIsKey, BucketInRange
<1>2. old \in Seq(DOMAIN heap) /\ list_head \in [Buckets -> Seq(DOMAIN heap)]
  BY <1>1 DEF IInv, TypeOK
<1>3. old \in Seq(DOMAIN heap \cup {n})
  BY <1>2, SeqMonotone
<1>4. /\ Len(new) = Len(old) + 1
      /\ new[1] = n
      /\ \A i \in 1..Len(old) : new[i + 1] = old[i]
  BY <1>3, Cons
<1>5. list_head'[b] = new /\ \A c \in Buckets \ {b} : list_head'[c] = list_head[c]
  BY <1>1, <1>2
<1>6. Len(old) \in Nat
  BY <1>2
<1>7. \A i \in 1..Len(new) : i = 1 \/ (i - 1 \in 1..Len(old) /\ new[i] = old[i - 1])
  <2> TAKE i \in 1..Len(new)
  <2>1. CASE i # 1
    <3>1. i - 1 \in 1..Len(old)
      BY <1>4, <1>6, <2>1
    <3>2. new[(i - 1) + 1] = old[i - 1]
      BY <1>4, <3>1
    <3>3. (i - 1) + 1 = i
      OBVIOUS
    <3> QED  BY <3>1, <3>2, <3>3
  <2> QED  BY <2>1
<1>8. \A i \in 1..Len(old) : /\ get_string(old[i]) # get_string(n)
                             /\ BucketOf(get_string(old[i])) = b
                             /\ \A k \in 1..Len(old) : get_string(old[i]) = get_string(old[k]) => i = k
  BY <1>1 DEF Present, IInv, Lists, UniqueLists
<1> HIDE DEF new, old, b
<1>9. \A i \in 1..Len(new) : BucketOf(get_string(new[i])) = b
  BY <1>4, <1>7, <1>8 DEF b
<1>10. ASSUME NEW i \in 1..Len(new), NEW k \in 1..Len(new),
              get_string(new[i]) = get_string(new[k])
       PROVE  i = k
  <2>1. CASE i = 1 \/ k = 1
    BY <1>4, <1>7, <1>8, <1>10, <2>1
  <2>2. CASE i # 1 /\ k # 1
    <3>1. i - 1 \in 1..Len(old) /\ k - 1 \in 1..Len(old)
      BY <1>7, <2>2
    <3>2. get_string(old[i - 1]) = get_string(old[k - 1])
      BY <1>7, <1>10, <2>2
    <3>3. i - 1 = k - 1
      BY <1>8, <3>1, <3>2
    <3> QED  BY <3>3
  <2> QED  BY <2>1, <2>2
<1>11. UniqueLists'
  <2> DEFINE Fine(l, c) == \A i, k \in 1..Len(l) :
                             /\ BucketOf(get_string(l[i])) = c
                             /\ get_string(l[i]) = get_string(l[k]) => i = k
  <2>1. (\A c \in Buckets : Fine(list_head'[c], c)) => UniqueLists'
    BY Zenon DEF UniqueLists
  <2>2. \A c \in Buckets : Fine(list_head[c], c)
    BY Zenon DEF IInv, Lists, UniqueLists
  <2>3. Fine(new, b)
    BY <1>9, <1>10
  <2> HIDE DEF Fine
  <2>4. \A c \in Buckets : Fine(list_head'[c], c)
    BY <1>5, <2>2, <2>3
  <2> QED  BY <2>1, <2>4
<1>12. ASSUME NEW k \in Keys
       PROVE  Present(k)' <=> Present(k) \/ k = get_string(n)
  <2>1. CASE BucketOf(k) # b
    <3>1. list_head'[BucketOf(k)] = list_head[BucketOf(k)] /\ k # get_string(n)
      BY <1>5, <2>1, BucketInRange DEF b
    <3> QED  BY <3>1 DEF Present
  <2>2. CASE BucketOf(k) = b
    <3>1. Present(k)' <=> \E i \in 1..Len(new) : get_string(new[i]) = k
      BY <1>5, <2>2 DEF Present
    <3>2. Present(k) <=> \E i \in 1..Len(old) : get_string(old[i]) = k
      BY <2>2 DEF Present, old
    <3>3. 1 \in 1..Len(new) /\ \A i \in 1..Len(old) : i + 1 \in 1..Len(new)
      BY <1>4, <1>6
    <3> QED  BY <1>4, <1>7, <3>1, <3>2, <3>3
  <2> QED  BY <2>1, <2>2
<1> QED
  BY <1>11, <1>12
-----------------------------------------------------------------------------
(* The steps of a thread *)

(* Threads that are inside at once have keys of different buckets. *)
LEMMA Apart ==
  ASSUME IInv, NEW t \in Threads, NEW u \in Threads, t # u, Inside(t), Inside(u)
  PROVE  BucketOf(Key(t)) # BucketOf(Key(u)) /\ Node(t) # Node(u)
<1>1. mutex[MutexOf(Key(t))] = t /\ mutex[MutexOf(Key(u))] = u
  BY DEF IInv, Locks
<1>2. MutexOf(Key(t)) # MutexOf(Key(u))
  BY <1>1
<1> QED
  BY <1>2 DEF MutexOf, Key

(* No thread is at a step while main is not creating or joining. *)
LEMMA StepPhases ==
  ASSUME IInv, ~In("failed"), NEW t \in Threads, pc[t] \in AddSteps,
         NEW to \in AddSteps \cup {"ended"},
         pc' = [pc EXCEPT ![t] = to], UNCHANGED <<table, main>>
  PROVE  Phases' /\ main.loop \in {"create", "join"} /\ table \in {"v1", "v2"}
<1>1. pc[t] # "unborn" /\ pc[t] # "ended"
  BY DEF AddSteps
<1>2. table \in {"v1", "v2"} /\ main.loop \in {"create", "join"}
  BY <1>1 DEF In, IInv, Phases, Idle, TypeOK
<1>3. \A u \in Threads \ {t} : pc'[u] = pc[u]
  BY DEF IInv, TypeOK
<1>4. main.loop = "create" => t < main.i
  BY <1>1 DEF IInv, Phases, TypeOK, Threads
<1>5. main.loop = "join" => ~(t < main.i)
  BY <1>1 DEF IInv, Phases
<1> QED
  BY <1>1, <1>2, <1>3, <1>4, <1>5 DEF IInv, Phases

(* A step inside add_entry leaves the mutexes to their holders. *)
LEMMA StepLocks ==
  ASSUME IInv, NEW t \in Threads, Inside(t),
         NEW to \in {"search", "update", "link", "publish", "unlock"},
         pc' = [pc EXCEPT ![t] = to], UNCHANGED <<table, mutex, at>>
  PROVE  Locks'
<1>1. \A u \in Threads : Inside(u)' <=> Inside(u)
  BY DEF Inside, IInv, TypeOK
<1>2. \A u \in Threads : Key(u)' = Key(u) /\ MutexOf(Key(u))' = MutexOf(Key(u))
  BY DEF Key, Node, MutexOf
<1> QED
  BY <1>1, <1>2 DEF Locks, IInv

LEMMA LockStep ==
  ASSUME IInv, ~In("failed"), NEW t \in Threads, lock(t)
  PROVE  IInv'
<1>1. /\ pc[t] = "lock" /\ pc' = [pc EXCEPT ![t] = "search"]
      /\ mutex[MutexOf(Key(t))] = NONE
      /\ mutex' = [mutex EXCEPT ![MutexOf(Key(t))] = t]
      /\ UNCHANGED <<table, main, missing, heap, list_head, at, found>>
  BY DEF lock, Goes
<1>2. at[t] < SIZE /\ pc[t] \in AddSteps
  BY <1>1 DEF IInv, Locals, AddSteps
<1>3. MutexOf(Key(t)) \in Buckets
  BY <1>2, EntryTyped DEF IInv
<1>4. \A u \in Threads \ {t} : pc'[u] = pc[u]
  BY <1>1 DEF IInv, TypeOK
<1>5. pc'[t] = "search"
  BY <1>1 DEF IInv, TypeOK
<1>6. TypeOK'
  <2>1. mutex' \in [Buckets -> Threads \cup {NONE}]
    BY <1>1 DEF IInv, TypeOK
  <2>2. pc' \in [Threads -> AddSteps \cup {"unborn", "ended"}]
    BY <1>1 DEF IInv, TypeOK, AddSteps
  <2> QED  BY <1>1, <2>1, <2>2 DEF IInv, TypeOK
<1>7. Phases'
  BY <1>1, <1>2, StepPhases DEF AddSteps
<1>8. Locals'
  BY <1>1, <1>2, <1>4, <1>5 DEF IInv, Locals, Node, AddSteps
<1>9. Locks'
  <2>1. \A u \in Threads : Key(u)' = Key(u) /\ MutexOf(Key(u))' = MutexOf(Key(u))
    BY <1>1 DEF Key, Node, MutexOf
  <2>2. \A u \in Threads \ {t} : Inside(u)' <=> Inside(u)
    BY <1>4 DEF Inside
  <2>3. Inside(t)' /\ ~Inside(t)
    BY <1>1, <1>5 DEF Inside
  <2>4. mutex'[MutexOf(Key(t))] = t
    BY <1>1, <1>3 DEF IInv, TypeOK
  <2>5. \A b \in Buckets \ {MutexOf(Key(t))} : mutex'[b] = mutex[b]
    BY <1>1 DEF IInv, TypeOK
  <2>6. ASSUME NEW u \in Threads, Inside(u)'
        PROVE  mutex'[MutexOf(Key(u))'] = u
    <3>1. CASE u = t
      BY <2>1, <2>4, <3>1
    <3>2. CASE u # t
      <4>1. Inside(u) /\ mutex[MutexOf(Key(u))] = u
        BY <2>2, <2>6, <3>2 DEF IInv, Locks
      <4>2. MutexOf(Key(u)) # MutexOf(Key(t))
        BY <1>1, <4>1 DEF NONE, Threads
      <4>3. MutexOf(Key(u)) \in Buckets
        BY <4>1, EntryTyped DEF IInv, Locals, Inside, AddSteps
      <4> QED  BY <2>1, <2>5, <4>1, <4>2, <4>3
    <3> QED  BY <3>1, <3>2
  <2>7. ASSUME NEW b \in Buckets, NEW u \in Threads, mutex'[b] = u
        PROVE  Inside(u)' /\ MutexOf(Key(u))' = b
    <3>1. CASE b = MutexOf(Key(t))
      BY <2>1, <2>3, <2>4, <2>7, <3>1
    <3>2. CASE b # MutexOf(Key(t))
      <4>1. Inside(u) /\ MutexOf(Key(u)) = b
        BY <2>5, <2>7, <3>2 DEF IInv, Locks
      <4> QED  BY <2>1, <2>2, <2>3, <4>1
    <3> QED  BY <3>1, <3>2
  <2> QED  BY <2>6, <2>7 DEF Locks
<1>10. Lists'
  <2>1. /\ \A k \in Keys : Present(k)' <=> Present(k)
        /\ UniqueLists'
        /\ \A n \in DOMAIN heap' : heap'[n].key = get_string(n)
    BY <1>1 DEF Present, IInv, Lists, UniqueLists
  <2>2. /\ UNCHANGED <<heap, list_head>>
        /\ \A u \in Threads : Key(u)' = Key(u) /\ Node(u)' = Node(u)
    BY <1>1 DEF Key, Node
  <2>3. \A u \in Threads : pc'[u] \in {"link", "publish"} => pc'[u] = pc[u]
    BY <1>4, <1>5
  <2>4. ASSUME NEW u \in Threads
        PROVE  /\ pc'[u] \in {"link", "publish"} => ~Present(Key(u))'
               /\ pc'[u] = "publish" =>
                    (heap[Node(u)].next = list_head[BucketOf(Key(u))])'
    BY <1>1, <2>2, <2>3 DEF Present, IInv, Lists
  <2> QED  BY <2>1, <2>4 DEF Lists
<1>11. Kept'
  BY <1>1, <1>4, <1>5 DEF IInv, Kept, Present, Key, Node
<1> QED
  BY <1>6, <1>7, <1>8, <1>9, <1>10, <1>11 DEF IInv

LEMMA SearchStep ==
  ASSUME IInv, ~In("failed"), NEW t \in Threads, search(t)
  PROVE  IInv'
<1> DEFINE e == get_list_entry(Key(t))
<1>1. /\ pc[t] = "search" /\ pc' = [pc EXCEPT ![t] = IF e = NULL THEN "link" ELSE "update"]
      /\ found' = [found EXCEPT ![t] = e]
      /\ UNCHANGED <<table, main, missing, heap, list_head, mutex, at>>
  BY DEF search, Goes
<1>2. at[t] < SIZE
  BY <1>1 DEF IInv, Locals, AddSteps
<1>3. e \in DOMAIN heap \cup {NULL} /\ (e # NULL <=> Present(Key(t)))
  BY <1>2, EntryTyped, EntryFound DEF IInv
<1> HIDE DEF e
<1>4. \A u \in Threads \ {t} : pc'[u] = pc[u] /\ found'[u] = found[u]
  BY <1>1 DEF IInv, TypeOK
<1>5. pc'[t] = (IF e = NULL THEN "link" ELSE "update") /\ found'[t] = e
  BY <1>1 DEF IInv, TypeOK
<1>6. TypeOK'
  <2>1. found' \in [Threads -> DOMAIN heap \cup {NULL}]
    BY <1>1, <1>3 DEF IInv, TypeOK
  <2>2. pc' \in [Threads -> AddSteps \cup {"unborn", "ended"}]
    BY <1>1 DEF IInv, TypeOK, AddSteps
  <2> QED  BY <1>1, <2>1, <2>2 DEF IInv, TypeOK
<1>7. Phases'
  BY <1>1, StepPhases DEF AddSteps
<1>8. Locals'
  BY <1>1, <1>2, <1>4, <1>5 DEF IInv, Locals, Node, AddSteps
<1>9. Locks'
  BY <1>1, StepLocks DEF Inside
<1>10. Lists'
  BY <1>1, <1>3, <1>4, <1>5 DEF IInv, Lists, UniqueLists, Present, Key, Node
<1>11. Kept'
  BY <1>1, <1>3, <1>4, <1>5 DEF IInv, Kept, Present, Key, Node
<1> QED
  BY <1>6, <1>7, <1>8, <1>9, <1>10, <1>11 DEF IInv

(* The value of a node is in no part of the invariant but its type. *)
LEMMA ValueWritten ==
  ASSUME TypeOK, NEW e \in DOMAIN heap, NEW n \in Nodes,
         heap' = [heap EXCEPT ![e].value = n]
  PROVE  /\ DOMAIN heap' = DOMAIN heap
         /\ heap' \in [DOMAIN heap' -> [key : Keys, value : Nodes, next : Seq(DOMAIN heap')]]
         /\ \A m \in DOMAIN heap : heap'[m].key = heap[m].key /\ heap'[m].next = heap[m].next
<1> DEFINE D == DOMAIN heap
           Entry == [key : Keys, value : Nodes, next : Seq(D)]
<1>1. heap \in [D -> Entry]
  BY DEF TypeOK
<1>2. heap' = [heap EXCEPT ![e] = [heap[e] EXCEPT !.value = n]]
  OBVIOUS
<1>3. /\ [heap[e] EXCEPT !.value = n] \in Entry
      /\ [heap[e] EXCEPT !.value = n].key = heap[e].key
      /\ [heap[e] EXCEPT !.value = n].next = heap[e].next
  BY <1>1
<1>4. DOMAIN heap' = D
  BY <1>2
<1>5. heap' \in [D -> Entry]
  BY <1>1, <1>2, <1>3
<1>6. \A m \in D : heap'[m] = IF m = e THEN [heap[e] EXCEPT !.value = n] ELSE heap[m]
  BY <1>2
<1> QED
  BY <1>3, <1>4, <1>5, <1>6

LEMMA UpdateStep ==
  ASSUME IInv, ~In("failed"), NEW t \in Threads, update(t)
  PROVE  IInv'
<1>1. /\ pc[t] = "update" /\ pc' = [pc EXCEPT ![t] = "unlock"]
      /\ heap' = [heap EXCEPT ![found[t]].value = Node(t)]
      /\ UNCHANGED <<table, main, missing, list_head, mutex, at, found>>
  BY DEF update, Goes
<1>2. at[t] < SIZE
  BY <1>1 DEF IInv, Locals, AddSteps
<1>3. /\ DOMAIN heap' = DOMAIN heap
      /\ heap' \in [DOMAIN heap' -> [key : Keys, value : Nodes, next : Seq(DOMAIN heap')]]
      /\ \A m \in DOMAIN heap : heap'[m].key = heap[m].key /\ heap'[m].next = heap[m].next
  <2>1. found[t] \in DOMAIN heap
    BY <1>1 DEF IInv, TypeOK, Locals
  <2>2. Node(t) \in Nodes
    BY <1>2, EntryTyped DEF IInv
  <2> QED  BY <1>1, <2>1, <2>2, ValueWritten DEF IInv
<1>4. \A u \in Threads \ {t} : pc'[u] = pc[u]
  BY <1>1 DEF IInv, TypeOK
<1>5. pc'[t] = "unlock"
  BY <1>1 DEF IInv, TypeOK
<1>6. TypeOK'
  <2>1. pc' \in [Threads -> AddSteps \cup {"unborn", "ended"}]
    BY <1>1 DEF IInv, TypeOK, AddSteps
  <2> QED  BY <1>1, <1>3, <2>1 DEF IInv, TypeOK
<1>7. Phases'
  BY <1>1, StepPhases DEF AddSteps
<1>8. Locals'
  BY <1>1, <1>2, <1>3, <1>4, <1>5 DEF IInv, Locals, Node, AddSteps
<1>9. Locks'
  BY <1>1, StepLocks DEF Inside
<1>10. Lists'
  <2>1. \A u \in Threads : pc'[u] = "publish" => Node(u) \in DOMAIN heap
    BY <1>4, <1>5 DEF IInv, Locals
  <2> QED  BY <1>1, <1>3, <1>4, <1>5, <2>1 DEF IInv, Lists, UniqueLists, Present, Key, Node
<1>11. Kept'
  BY <1>1, <1>4, <1>5 DEF IInv, Kept, Present, Key, Node
<1> QED
  BY <1>6, <1>7, <1>8, <1>9, <1>10, <1>11 DEF IInv

(* A node is written. *)
LEMMA NodeWritten ==
  ASSUME TypeOK, NEW n \in Nodes, NEW next \in Seq(DOMAIN heap),
         heap' = WithNode(n, next), list_head' \in [Buckets -> Seq(DOMAIN heap \cup {n})]
  PROVE  /\ DOMAIN heap' = DOMAIN heap \cup {n}
         /\ DOMAIN heap' \subseteq Nodes
         /\ heap' \in [DOMAIN heap' -> [key : Keys, value : Nodes, next : Seq(DOMAIN heap')]]
         /\ list_head' \in [Buckets -> Seq(DOMAIN heap')]
         /\ heap'[n].key = get_string(n) /\ heap'[n].next = next
         /\ \A m \in DOMAIN heap \ {n} : heap'[m] = heap[m]
<1> DEFINE D == DOMAIN heap
           E == D \cup {n}
           entry == [key |-> get_string(n), value |-> n, next |-> next]
<1>1. heap' = [m \in E |-> IF m = n THEN entry ELSE heap[m]]
  BY DEF WithNode
<1>2. DOMAIN heap' = E
  BY <1>1
<1>3. \A s \in Seq(D) : s \in Seq(E)
  BY SeqMonotone
<1>4. entry \in [key : Keys, value : Nodes, next : Seq(E)]
  BY <1>3, StringIsKey
<1>5. \A m \in D : heap[m] \in [key : Keys, value : Nodes, next : Seq(E)]
  <2> TAKE m \in D
  <2>1. heap[m] \in [key : Keys, value : Nodes, next : Seq(D)]
    BY DEF TypeOK
  <2> QED  BY <1>3, <2>1
<1>6. heap' \in [E -> [key : Keys, value : Nodes, next : Seq(E)]]
  <2> HIDE DEF entry
  <2> QED  BY <1>1, <1>4, <1>5
<1>7. E \subseteq Nodes
  BY DEF TypeOK
<1> QED
  BY <1>1, <1>2, <1>6, <1>7

LEMMA LinkStep ==
  ASSUME IInv, ~In("failed"), NEW t \in Threads, link(t)
  PROVE  IInv'
<1> DEFINE n == Node(t)
           next == list_head[BucketOf(Key(t))]
<1>1. /\ pc[t] = "link" /\ pc' = [pc EXCEPT ![t] = "publish"]
      /\ heap' = WithNode(n, next)
      /\ UNCHANGED <<table, main, missing, list_head, mutex, at, found>>
  BY DEF link, Goes
<1>2. at[t] < SIZE
  BY <1>1 DEF IInv, Locals, AddSteps
<1>3. n \in Nodes /\ next \in Seq(DOMAIN heap)
  BY <1>2, EntryTyped DEF IInv, TypeOK
<1>4. list_head \in [Buckets -> Seq(DOMAIN heap \cup {n})]
  <2>1. \A s \in Seq(DOMAIN heap) : s \in Seq(DOMAIN heap \cup {n})
    BY SeqMonotone
  <2>2. list_head \in [Buckets -> Seq(DOMAIN heap)]
    BY DEF IInv, TypeOK
  <2> HIDE DEF n
  <2> QED  BY <2>1, <2>2
<1> HIDE DEF n, next
<1>5. /\ DOMAIN heap' = DOMAIN heap \cup {n}
      /\ DOMAIN heap' \subseteq Nodes
      /\ heap' \in [DOMAIN heap' -> [key : Keys, value : Nodes, next : Seq(DOMAIN heap')]]
      /\ list_head' \in [Buckets -> Seq(DOMAIN heap')]
      /\ heap'[n].key = get_string(n) /\ heap'[n].next = next
      /\ \A m \in DOMAIN heap \ {n} : heap'[m] = heap[m]
  BY <1>1, <1>3, <1>4, NodeWritten DEF IInv
<1>6. \A u \in Threads \ {t} : pc'[u] = pc[u]
  BY <1>1 DEF IInv, TypeOK
<1>7. pc'[t] = "publish"
  BY <1>1 DEF IInv, TypeOK
<1>8. TypeOK'
  <2>1. pc' \in [Threads -> AddSteps \cup {"unborn", "ended"}]
    BY <1>1 DEF IInv, TypeOK, AddSteps
  <2>2. found' \in [Threads -> DOMAIN heap' \cup {NULL}]
    BY <1>1, <1>5 DEF IInv, TypeOK
  <2> QED  BY <1>1, <1>5, <2>1, <2>2 DEF IInv, TypeOK
<1>9. Phases'
  BY <1>1, StepPhases DEF AddSteps
<1>10. Locals'
  BY <1>1, <1>2, <1>5, <1>6, <1>7 DEF IInv, Locals, Node, AddSteps, n
<1>11. Locks'
  BY <1>1, StepLocks DEF Inside
<1>12. Lists'
  <2>1. \A m \in DOMAIN heap' : heap'[m].key = get_string(m)
    BY <1>5 DEF IInv, Lists
  <2>2. UniqueLists'
    BY <1>1 DEF IInv, Lists, UniqueLists
  <2>3. \A u \in Threads : /\ Node(u)' = Node(u) /\ Key(u)' = Key(u)
                           /\ Present(Key(u))' <=> Present(Key(u))
    BY <1>1 DEF Node, Key, Present
  <2>4. ASSUME NEW u \in Threads, pc'[u] = "publish"
        PROVE  heap'[Node(u)].next = list_head[BucketOf(Key(u))]
    <3>1. CASE u = t
      BY <1>5, <3>1 DEF n, next
    <3>2. CASE u # t
      <4>1. pc[u] = "publish"
        BY <1>6, <2>4, <3>2
      <4>2. Node(u) # n
        BY <1>1, <3>2, <4>1, Apart DEF Inside, n
      <4>3. Node(u) \in DOMAIN heap
        BY <4>1 DEF IInv, Locals
      <4> QED  BY <1>5, <4>1, <4>2, <4>3 DEF IInv, Lists
    <3> QED  BY <3>1, <3>2
  <2>5. \A u \in Threads : pc'[u] \in {"link", "publish"} => ~Present(Key(u))
    BY <1>1, <1>6 DEF IInv, Lists
  <2> QED  BY <1>1, <2>1, <2>2, <2>3, <2>4, <2>5 DEF Lists, BucketOf
<1>13. Kept'
  BY <1>1, <1>6, <1>7 DEF IInv, Kept, Present, Key, Node
<1> QED
  BY <1>8, <1>9, <1>10, <1>11, <1>12, <1>13 DEF IInv

LEMMA PublishStep ==
  ASSUME IInv, ~In("failed"), NEW t \in Threads, publish(t)
  PROVE  IInv'
<1> DEFINE b == BucketOf(Key(t))
<1>1. /\ pc[t] = "publish" /\ pc' = [pc EXCEPT ![t] = "unlock"]
      /\ list_head' = [list_head EXCEPT ![b] = <<Node(t)>> \o heap[Node(t)].next]
      /\ UNCHANGED <<table, main, missing, heap, mutex, at, found>>
  BY DEF publish, Goes
<1>2. at[t] < SIZE
  BY <1>1 DEF IInv, Locals, AddSteps
<1>3. Node(t) \in Nodes /\ Key(t) \in Keys /\ b \in Buckets
  BY <1>2, EntryTyped DEF IInv
<1>4. /\ heap[Node(t)].next = list_head[b]
      /\ ~Present(Key(t))
      /\ Node(t) \in DOMAIN heap
  BY <1>1 DEF IInv, Lists, Locals
<1>5. /\ UniqueLists'
      /\ \A k \in Keys : Present(k)' <=> Present(k) \/ k = Key(t)
  <2>1. list_head' = [list_head EXCEPT ![BucketOf(get_string(Node(t)))] =
                        <<Node(t)>> \o list_head[BucketOf(get_string(Node(t)))]]
    BY <1>1, <1>4 DEF Key
  <2>2. ~Present(get_string(Node(t)))
    BY <1>4 DEF Key
  <2> QED  BY <1>3, <2>1, <2>2, Inserted, Zenon DEF Key
<1>6. \A u \in Threads \ {t} : pc'[u] = pc[u]
  BY <1>1 DEF IInv, TypeOK
<1>7. pc'[t] = "unlock"
  BY <1>1 DEF IInv, TypeOK
<1>8. \A u \in Threads : Node(u)' = Node(u) /\ Key(u)' = Key(u)
  BY <1>1 DEF Node, Key
<1>9. TypeOK'
  <2>1. pc' \in [Threads -> AddSteps \cup {"unborn", "ended"}]
    BY <1>1 DEF IInv, TypeOK, AddSteps
  <2>2. list_head[b] \in Seq(DOMAIN heap) /\ list_head \in [Buckets -> Seq(DOMAIN heap)]
    BY <1>3 DEF IInv, TypeOK
  <2>3. <<Node(t)>> \o list_head[b] \in Seq(DOMAIN heap)
    BY <1>4, <2>2, Cons
  <2>4. list_head' \in [Buckets -> Seq(DOMAIN heap)]
    BY <1>1, <1>4, <2>2, <2>3
  <2> QED  BY <1>1, <2>1, <2>4 DEF IInv, TypeOK
<1>10. Phases'
  BY <1>1, StepPhases DEF AddSteps
<1>11. Locals'
  BY <1>1, <1>2, <1>6, <1>7 DEF IInv, Locals, Node, AddSteps
<1>12. Locks'
  BY <1>1, StepLocks DEF Inside
<1>13. Lists'
  <2>1. ASSUME NEW u \in Threads, pc'[u] \in {"link", "publish"}
        PROVE  /\ ~Present(Key(u))'
               /\ pc'[u] = "publish" => heap[Node(u)].next = list_head'[BucketOf(Key(u))]
    <3>1. u # t /\ pc[u] = pc'[u]
      BY <1>6, <1>7, <2>1
    <3>2. BucketOf(Key(u)) # b
      BY <1>1, <2>1, <3>1, Apart DEF Inside
    <3>3. Key(u) \in Keys /\ BucketOf(Key(u)) \in Buckets
      BY <2>1, <3>1, EntryTyped DEF IInv, Locals, AddSteps
    <3>4. list_head'[BucketOf(Key(u))] = list_head[BucketOf(Key(u))]
      BY <1>1, <3>2, <3>3 DEF IInv, TypeOK
    <3>5. ~Present(Key(u)) /\ (pc[u] = "publish" => heap[Node(u)].next = list_head[BucketOf(Key(u))])
      BY <2>1, <3>1 DEF IInv, Lists
    <3>6. Present(Key(u))' <=> Present(Key(u))
      BY <1>8, <3>4 DEF Present, BucketOf
    <3> QED  BY <3>1, <3>4, <3>5, <3>6
  <2> QED  BY <1>1, <1>5, <1>8, <2>1 DEF IInv, Lists, BucketOf
<1>14. Kept'
  <2>1. \A u \in Threads : pc'[u] \in {"update", "unlock"} => Present(Key(u))'
    <3> TAKE u \in Threads
    <3> HAVE pc'[u] \in {"update", "unlock"}
    <3>1. CASE u = t
      BY <1>3, <1>5, <1>8, <3>1 DEF Present
    <3>2. CASE u # t
      <4>1. pc[u] \in {"update", "unlock"} /\ at[u] < SIZE
        BY <1>6, <3>2 DEF IInv, Locals, AddSteps
      <4>2. Present(Key(u)) /\ Key(u) \in Keys
        BY <4>1, EntryTyped DEF IInv, Kept
      <4> QED  BY <1>5, <1>8, <4>2 DEF Present
    <3> QED  BY <3>1, <3>2
  <2>2. \A u \in Threads : \A j \in 0..(SIZE - 1) :
          j < at[u] => Present(get_string(get_global_index(u, j)))'
    BY <1>5, IndexInNodes, StringIsKey DEF IInv, Kept
  <2>3. table # "base" /\ main.loop # "add"
    BY <1>1 DEF IInv, Phases, Idle, TypeOK
  <2> QED  BY <1>1, <2>1, <2>2, <2>3 DEF IInv, Kept
<1> QED
  BY <1>9, <1>10, <1>11, <1>12, <1>13, <1>14 DEF IInv

LEMMA UnlockStep ==
  ASSUME IInv, ~In("failed"), NEW t \in Threads, unlock(t)
  PROVE  IInv'
<1> DEFINE to == IF at[t] + 1 < SIZE THEN "lock" ELSE "ended"
           m == MutexOf(Key(t))
<1>1. /\ pc[t] = "unlock" /\ pc' = [pc EXCEPT ![t] = to]
      /\ mutex' = [mutex EXCEPT ![m] = NONE]
      /\ at' = [at EXCEPT ![t] = at[t] + 1]
      /\ UNCHANGED <<table, main, missing, heap, list_head, found>>
  BY DEF unlock, Goes
<1>2. at[t] < SIZE /\ at[t] \in Nat /\ SIZE \in Nat
  BY <1>1, LoopBounds DEF IInv, Locals, AddSteps, TypeOK
<1>3. m \in Buckets
  BY <1>2, EntryTyped DEF IInv
<1>4. \A u \in Threads \ {t} : pc'[u] = pc[u] /\ at'[u] = at[u]
  BY <1>1 DEF IInv, TypeOK
<1>5. pc'[t] = to /\ at'[t] = at[t] + 1
  BY <1>1 DEF IInv, TypeOK
<1>6. \A u \in Threads \ {t} : /\ Node(u)' = Node(u) /\ Key(u)' = Key(u)
                                  /\ MutexOf(Key(u))' = MutexOf(Key(u))
                                 /\ Inside(u)' <=> Inside(u)
  BY <1>1, <1>4 DEF Node, Key, MutexOf, Inside
<1>7. TypeOK'
  <2>1. pc' \in [Threads -> AddSteps \cup {"unborn", "ended"}]
    BY <1>1 DEF IInv, TypeOK, AddSteps
  <2>2. mutex' \in [Buckets -> Threads \cup {NONE}]
    BY <1>1 DEF IInv, TypeOK
  <2>3. at' \in [Threads -> 0..SIZE]
    BY <1>1, <1>2 DEF IInv, TypeOK
  <2> QED  BY <1>1, <2>1, <2>2, <2>3 DEF IInv, TypeOK
<1>8. Phases'
  BY <1>1, StepPhases DEF AddSteps
<1>9. Locals'
  <2>1. /\ pc'[t] \in AddSteps => at'[t] < SIZE
        /\ pc'[t] = "ended" => at'[t] = SIZE
        /\ pc'[t] \in {"lock", "ended"}
    BY <1>2, <1>5 DEF AddSteps
  <2> QED  BY <1>1, <1>4, <2>1 DEF IInv, Locals, Node
<1>10. Locks'
  <2>1. ~Inside(t)' /\ Inside(t)
    BY <1>1, <1>5 DEF Inside
  <2>2. \A c \in Buckets : mutex'[c] = IF c = m THEN NONE ELSE mutex[c]
    BY <1>1 DEF IInv, TypeOK
  <2>3. mutex[m] = t
    BY <2>1 DEF IInv, Locks
  <2>4. ASSUME NEW u \in Threads, Inside(u)'
        PROVE  mutex'[MutexOf(Key(u))'] = u
    <3>1. u # t /\ Inside(u)
      BY <1>4, <2>1, <2>4 DEF Inside
    <3>2. mutex[MutexOf(Key(u))] = u /\ MutexOf(Key(u)) # m
      BY <2>3, <3>1 DEF IInv, Locks
    <3>3. MutexOf(Key(u)) \in Buckets
      BY <3>1, EntryTyped DEF IInv, Locals, Inside, AddSteps
    <3> QED  BY <1>6, <2>2, <3>1, <3>2, <3>3
  <2>5. ASSUME NEW c \in Buckets, NEW u \in Threads, mutex'[c] = u
        PROVE  Inside(u)' /\ MutexOf(Key(u))' = c
    <3>1. c # m /\ mutex[c] = u
      BY <2>2, <2>5 DEF NONE, Threads
    <3>2. Inside(u) /\ MutexOf(Key(u)) = c /\ u # t
      BY <3>1 DEF IInv, Locks
    <3> QED  BY <1>6, <3>2
  <2> QED  BY <2>4, <2>5 DEF Locks
<1>11. Lists'
  <2>1. pc'[t] \notin {"link", "publish"}
    BY <1>5
  <2>2. \A u \in Threads : u # t => (Present(Key(u))' <=> Present(Key(u)))
    BY <1>1, <1>4 DEF Present, BucketOf, Key, Node
  <2> QED  BY <1>1, <1>4, <2>1, <2>2 DEF IInv, Lists, UniqueLists, BucketOf, Key, Node
<1>12. Kept'
  <2>1. \A k : Present(k)' <=> Present(k)
    BY <1>1 DEF Present
  <2>2. \A u \in Threads : pc'[u] \in {"update", "unlock"} => Present(Key(u))'
    <3> TAKE u \in Threads
    <3> HAVE pc'[u] \in {"update", "unlock"}
    <3>1. u # t
      BY <1>5
    <3>2. Present(Key(u))
      BY <1>4, <3>1 DEF IInv, Kept
    <3> QED  BY <1>1, <1>4, <3>1, <3>2 DEF Present, BucketOf, Key, Node
  <2>3. ASSUME NEW u \in Threads, NEW j \in 0..(SIZE - 1), j < at'[u]
        PROVE  Present(get_string(get_global_index(u, j)))
    <3>1. CASE j < at[u]
      BY <3>1 DEF IInv, Kept
    <3>2. CASE ~(j < at[u])
      <4>1. u = t /\ j = at[t]
        BY <1>2, <1>4, <1>5, <2>3, <3>2
      <4> QED  BY <1>1, <4>1 DEF IInv, Kept, Key, Node
    <3> QED  BY <3>1, <3>2
  <2> QED  BY <1>1, <2>1, <2>2, <2>3 DEF IInv, Kept
<1> QED
  BY <1>7, <1>8, <1>9, <1>10, <1>11, <1>12 DEF IInv
-----------------------------------------------------------------------------
(* The steps of main *)

(* The presence of keys depends on the lists alone. *)
LEMMA ListsKept ==
  ASSUME UNCHANGED list_head
  PROVE  \A k : Present(k)' <=> Present(k)
  BY DEF Present

(* main's counter moves on, or main goes to its next loop. *)
LEMMA Counted ==
  ASSUME TypeOK, NEW bound \in 1..Total, main.i < bound,
         NEW next \in {"join", "missing", "destroy"}, Steps(bound, next)
  PROVE  /\ main' \in [loop : {"add", "create", "join", "missing", "destroy", "exited", "failed"},
                       i : 0..(Total - 1)]
         /\ \/ /\ main.i + 1 < bound
               /\ main'.loop = main.loop
               /\ main'.i = main.i + 1
            \/ /\ main.i + 1 = bound
               /\ main'.loop = next
               /\ main'.i = 0
<1>1. Total \in Nat /\ Total > 0
  BY LoopBounds
<1>2. main \in [loop : {"add", "create", "join", "missing", "destroy", "exited", "failed"},
               i : 0..(Total - 1)]
  BY DEF TypeOK
<1>3. CASE main.i + 1 < bound
  BY <1>1, <1>2, <1>3 DEF Steps
<1>4. CASE ~(main.i + 1 < bound)
  BY <1>1, <1>2, <1>4 DEF Steps
<1> QED
  BY <1>3, <1>4

LEMMA BaseAddEntryStep ==
  ASSUME IInv, base_add_entry
  PROVE  IInv'
<1> DEFINE n == main.i
           k == get_string(n)
           e == get_list_entry(k)
<1>1. /\ main.loop = "add"
      /\ Steps(Total, "missing")
      /\ UNCHANGED <<table, missing, mutex, pc, at, found>>
      /\ IF e # NULL
         THEN /\ heap' = [heap EXCEPT ![e].value = n]
              /\ UNCHANGED list_head
         ELSE /\ heap' = WithNode(n, list_head[BucketOf(k)])
              /\ list_head' = [list_head EXCEPT ![BucketOf(k)] = <<n>> \o list_head[BucketOf(k)]]
  BY DEF base_add_entry, In
<1>2. table = "base" /\ Idle
  BY <1>1 DEF IInv, TypeOK, Phases
<1>3. n \in Nodes /\ k \in Keys /\ BucketOf(k) \in Buckets
  BY LoopBounds, StringIsKey, BucketInRange DEF IInv, TypeOK
<1>4. e \in DOMAIN heap \cup {NULL} /\ (e # NULL <=> Present(k))
  BY <1>3, EntryFound
<1>5. /\ main' \in [loop : {"add", "create", "join", "missing", "destroy", "exited", "failed"},
                    i : 0..(Total - 1)]
      /\ \/ n + 1 < Total /\ main'.loop = "add" /\ main'.i = n + 1
         \/ n + 1 = Total /\ main'.loop = "missing" /\ main'.i = 0
  <2>1. Total \in 1..Total /\ main.i < Total
    BY <1>3, LoopBounds
  <2> QED  BY <1>1, <2>1, Counted DEF IInv
<1> HIDE DEF n, k, e
<1>6. /\ DOMAIN heap' \subseteq Nodes
      /\ DOMAIN heap \subseteq DOMAIN heap'
      /\ heap' \in [DOMAIN heap' -> [key : Keys, value : Nodes, next : Seq(DOMAIN heap')]]
      /\ list_head' \in [Buckets -> Seq(DOMAIN heap')]
      /\ \A m \in DOMAIN heap' : heap'[m].key = get_string(m)
      /\ UniqueLists'
      /\ \A key \in Keys : Present(key)' <=> Present(key) \/ key = k
  <2>1. CASE e # NULL
    <3>1. /\ DOMAIN heap' = DOMAIN heap
          /\ heap' \in [DOMAIN heap' -> [key : Keys, value : Nodes, next : Seq(DOMAIN heap')]]
          /\ \A m \in DOMAIN heap : heap'[m].key = heap[m].key
      BY <1>1, <1>3, <1>4, <2>1, ValueWritten DEF IInv
    <3>2. list_head' = list_head
      BY <1>1, <2>1
    <3>3. UniqueLists'
      BY <3>2 DEF IInv, Lists, UniqueLists
    <3>4. \A key \in Keys : Present(key)' <=> Present(key)
      BY <3>2, ListsKept
    <3> QED  BY <1>4, <2>1, <3>1, <3>2, <3>3, <3>4 DEF IInv, TypeOK, Lists
  <2>2. CASE e = NULL
    <3>1. /\ heap' = WithNode(n, list_head[BucketOf(k)])
          /\ list_head' = [list_head EXCEPT ![BucketOf(k)] = <<n>> \o list_head[BucketOf(k)]]
      BY <1>1, <2>2
    <3>2. ~Present(get_string(n))
      BY <1>4, <2>2 DEF k
    <3>3. /\ UniqueLists'
          /\ \A key \in Keys : Present(key)' <=> Present(key) \/ key = k
      BY <1>3, <3>1, <3>2, Inserted, Zenon DEF k
    <3>4. /\ list_head \in [Buckets -> Seq(DOMAIN heap)]
          /\ list_head[BucketOf(k)] \in Seq(DOMAIN heap)
      BY <1>3 DEF IInv, TypeOK
    <3>5. \A s \in Seq(DOMAIN heap) : s \in Seq(DOMAIN heap \cup {n})
      BY SeqMonotone
    <3>6. <<n>> \o list_head[BucketOf(k)] \in Seq(DOMAIN heap \cup {n})
      BY <3>4, <3>5, Cons
    <3>7. list_head' \in [Buckets -> Seq(DOMAIN heap \cup {n})]
      BY <3>1, <3>4, <3>5, <3>6
    <3>8. /\ DOMAIN heap' = DOMAIN heap \cup {n}
          /\ DOMAIN heap' \subseteq Nodes
          /\ heap' \in [DOMAIN heap' -> [key : Keys, value : Nodes, next : Seq(DOMAIN heap')]]
          /\ list_head' \in [Buckets -> Seq(DOMAIN heap')]
          /\ heap'[n].key = get_string(n)
          /\ \A m \in DOMAIN heap \ {n} : heap'[m] = heap[m]
      BY <1>3, <3>1, <3>4, <3>7, NodeWritten DEF IInv
    <3>9. \A m \in DOMAIN heap' : heap'[m].key = get_string(m)
      BY <3>8 DEF IInv, Lists
    <3> QED  BY <3>3, <3>8, <3>9
  <2> QED  BY <2>1, <2>2
<1>7. TypeOK'
  <2>1. found' \in [Threads -> DOMAIN heap' \cup {NULL}]
    BY <1>1, <1>6 DEF IInv, TypeOK
  <2> QED  BY <1>1, <1>5, <1>6, <2>1 DEF IInv, TypeOK
<1>8. Phases'
  BY <1>1, <1>2, <1>5 DEF Phases, Idle
<1>9. \A t \in Threads : pc[t] = "unborn" /\ at[t] = 0
  BY <1>2 DEF Idle, IInv, Locals
<1>10. Locals'
  BY <1>1, <1>9 DEF Locals, AddSteps
<1>11. Locks'
  BY <1>1, <1>9 DEF IInv, Locks, Inside
<1>12. Lists'
  BY <1>1, <1>6, <1>9 DEF Lists
<1>13. Kept'
  <2>1. \A m \in Nodes : m < n \/ m = n => Present(get_string(m))'
    BY <1>1, <1>3, <1>6, StringIsKey DEF IInv, Kept, k, n
  <2>2. main'.loop = "add" => \A m \in Nodes : m < main'.i => m < n \/ m = n
    BY <1>3, <1>5, LoopBounds DEF Nodes
  <2>3. main'.loop # "add" => \A m \in Nodes : m < n \/ m = n
    BY <1>3, <1>5, LoopBounds DEF Nodes
  <2>4. \A t \in Threads : \A j \in 0..(SIZE - 1) : ~(j < at'[t])
    BY <1>1, <1>9, LoopBounds
  <2>5. \A t \in Threads : pc'[t] \notin {"update", "unlock"}
    BY <1>1, <1>9
  <2>6. \A m \in Nodes : get_string(m)' = get_string(m)
    OBVIOUS
  <2>7. missing' = 0
    BY <1>1 DEF IInv, Kept
  <2> QED  BY <2>1, <2>2, <2>3, <2>4, <2>5, <2>7, Zenon DEF Kept
<1> QED
  BY <1>7, <1>8, <1>10, <1>11, <1>12, <1>13 DEF IInv

LEMMA CreateStep ==
  ASSUME IInv, pthread_create
  PROVE  IInv'
<1> DEFINE i == main.i
<1>1. /\ main.loop = "create" /\ Steps(THREADS, "join")
      /\ pc' = [pc EXCEPT ![i] = "lock"]
      /\ UNCHANGED <<table, missing, heap, list_head, mutex, at, found>>
  BY DEF pthread_create, In
<1>2. i \in Threads /\ pc[i] = "unborn" /\ table \in {"v1", "v2"}
  <2>1. i \in Threads /\ \A t \in Threads : t >= i => pc[t] = "unborn"
    BY <1>1 DEF IInv, Phases
  <2>2. i >= i
    BY <2>1 DEF Threads
  <2> QED  BY <1>1, <2>1, <2>2 DEF IInv, Phases, TypeOK
<1>3. /\ main' \in [loop : {"add", "create", "join", "missing", "destroy", "exited", "failed"},
                    i : 0..(Total - 1)]
      /\ \/ i + 1 < THREADS /\ main'.loop = "create" /\ main'.i = i + 1
         \/ i + 1 = THREADS /\ main'.loop = "join" /\ main'.i = 0
  <2>1. THREADS \in 1..Total /\ main.i < THREADS
    BY <1>2, LoopBounds DEF Threads
  <2> QED  BY <1>1, <2>1, Counted DEF IInv
<1> HIDE DEF i
<1>4. pc'[i] = "lock" /\ \A t \in Threads \ {i} : pc'[t] = pc[t]
  BY <1>1, <1>2 DEF IInv, TypeOK
<1>5. at[i] = 0
  BY <1>2 DEF IInv, Locals
<1>6. TypeOK'
  <2>1. pc' \in [Threads -> AddSteps \cup {"unborn", "ended"}]
    BY <1>1 DEF IInv, TypeOK, AddSteps
  <2> QED  BY <1>1, <1>3, <2>1 DEF IInv, TypeOK
<1>7. Phases'
  <2>1. main'.loop = "create" =>
          /\ main'.i \in Threads
          /\ \A t \in Threads : t >= main'.i => pc'[t] = "unborn"
    <3> SUFFICES ASSUME main'.loop = "create"
                 PROVE  /\ main'.i \in Threads
                        /\ \A t \in Threads : t >= main'.i => pc'[t] = "unborn"
      OBVIOUS
    <3>1. main'.i = i + 1 /\ i + 1 < THREADS
      BY <1>3
    <3>2. main'.i \in Threads
      BY <1>2, <3>1, LoopBounds DEF Threads
    <3>3. \A t \in Threads : t >= i + 1 => t >= i /\ t # i
      BY <1>2, LoopBounds DEF Threads
    <3>4. \A t \in Threads : t >= i => pc[t] = "unborn"
      BY <1>1 DEF IInv, Phases, i
    <3> QED  BY <1>4, <3>1, <3>2, <3>3, <3>4
  <2>2. main'.loop = "join" =>
          /\ main'.i \in Threads
          /\ \A t \in Threads : t < main'.i => pc'[t] = "ended"
    BY <1>3, LoopBounds DEF Threads
  <2> QED  BY <1>1, <1>2, <1>3, <2>1, <2>2 DEF Phases
<1>8. Locals'
  BY <1>1, <1>4, <1>5, LoopBounds DEF IInv, Locals, Node
<1>9. Locks'
  <2>1. \A t \in Threads : Inside(t)' <=> Inside(t)
    BY <1>2, <1>4 DEF Inside
  <2> QED  BY <1>1, <2>1 DEF IInv, Locks, Key, Node, MutexOf
<1>10. Lists'
  BY <1>1, <1>4 DEF IInv, Lists, UniqueLists, Present, Key, Node
<1>11. Kept'
  <2>1. main'.loop # "add" /\ table' # "base"
    BY <1>1, <1>2, <1>3
  <2> QED  BY <1>1, <1>4, <2>1 DEF IInv, Kept, Present, Key, Node
<1> QED
  BY <1>6, <1>7, <1>8, <1>9, <1>10, <1>11 DEF IInv

LEMMA CreateFailsStep ==
  ASSUME IInv, pthread_create_fails
  PROVE  IInv'
<1>1. /\ main.loop = "create" /\ main' = [loop |-> "failed", i |-> 0]
      /\ UNCHANGED <<table, missing, heap, list_head, mutex, pc, at, found>>
  BY DEF pthread_create_fails, In
<1>2. TypeOK'
  <2>1. 0 \in 0..(Total - 1)
    BY LoopBounds
  <2> QED  BY <1>1, <2>1 DEF IInv, TypeOK
<1>3. Phases'
  BY <1>1 DEF IInv, Phases, TypeOK, Idle
<1>4. Locals' /\ Locks'
  BY <1>1 DEF IInv, Locals, Locks, Inside, Key, Node, MutexOf
<1>5. Lists' /\ Kept'
  BY <1>1 DEF IInv, Lists, UniqueLists, Kept, Present, Key, Node
<1> QED
  BY <1>2, <1>3, <1>4, <1>5 DEF IInv

LEMMA JoinStep ==
  ASSUME IInv, pthread_join
  PROVE  IInv'
<1> DEFINE i == main.i
<1>1. /\ main.loop = "join" /\ pc[i] = "ended" /\ Steps(THREADS, "missing")
      /\ UNCHANGED <<table, missing, heap, list_head, mutex, pc, at, found>>
  BY DEF pthread_join, In
<1>2. i \in Threads /\ table \in {"v1", "v2"}
  BY <1>1 DEF IInv, Phases, TypeOK
<1>3. /\ main' \in [loop : {"add", "create", "join", "missing", "destroy", "exited", "failed"},
                    i : 0..(Total - 1)]
      /\ \/ i + 1 < THREADS /\ main'.loop = "join" /\ main'.i = i + 1
         \/ i + 1 = THREADS /\ main'.loop = "missing" /\ main'.i = 0
  <2>1. THREADS \in 1..Total /\ main.i < THREADS
    BY <1>2, LoopBounds DEF Threads
  <2> QED  BY <1>1, <2>1, Counted DEF IInv
<1>4. \A t \in Threads : t < i + 1 => pc[t] = "ended"
  <2>1. \A t \in Threads : t < i + 1 => t < i \/ t = i
    BY <1>2, LoopBounds DEF Threads
  <2> QED  BY <1>1, <2>1 DEF IInv, Phases
<1> HIDE DEF i
<1>5. Phases'
  <2>1. i + 1 < THREADS => i + 1 \in Threads
    BY <1>2, LoopBounds DEF Threads
  <2>2. \A t \in Threads : t < THREADS
    BY LoopBounds DEF Threads
  <2> QED  BY <1>1, <1>2, <1>3, <1>4, <2>1, <2>2 DEF Phases
<1>6. Kept'
  BY <1>1, <1>2, <1>3 DEF IInv, Kept, Present, Key, Node
<1>7. TypeOK' /\ Locals'
  BY <1>1, <1>3 DEF IInv, TypeOK, Locals, Node
<1>8. Locks' /\ Lists'
  BY <1>1 DEF IInv, Locks, Lists, UniqueLists, Present, Inside, Key, Node, MutexOf
<1> QED
  BY <1>5, <1>6, <1>7, <1>8 DEF IInv

(* When main counts, every node's key is there. *)
LEMMA AllPresent ==
  ASSUME IInv, main.loop = "missing", NEW n \in Nodes
  PROVE  Present(get_string(n))
<1>1. CASE table = "base"
  BY <1>1 DEF IInv, Kept
<1>2. CASE table # "base"
  <2>1. PICK t \in Threads, j \in 0..(SIZE - 1) : n = get_global_index(t, j)
    BY NodeIsIndex
  <2>2. at[t] = SIZE
    BY <1>2 DEF IInv, Phases, Locals
  <2>3. j < at[t]
    BY <2>2, LoopBounds
  <2> QED  BY <2>1, <2>3 DEF IInv, Kept
<1> QED
  BY <1>1, <1>2

LEMMA CountStep ==
  ASSUME IInv, count_missing
  PROVE  IInv'
<1> DEFINE i == main.i
<1>1. /\ main.loop = "missing" /\ Steps(Total, "destroy")
      /\ missing' = IF contains(get_string(i)) THEN missing ELSE missing + 1
      /\ UNCHANGED <<table, heap, list_head, mutex, pc, at, found>>
  BY DEF count_missing, In
<1>2. i \in Nodes /\ table \in {"base", "v1", "v2"}
  BY <1>1, LoopBounds DEF IInv, TypeOK, Phases
<1>3. /\ main' \in [loop : {"add", "create", "join", "missing", "destroy", "exited", "failed"},
                    i : 0..(Total - 1)]
      /\ main'.loop \in {"missing", "destroy"}
  <2>1. Total \in 1..Total /\ main.i < Total
    BY <1>2, LoopBounds
  <2> QED  BY <1>1, <2>1, Counted DEF IInv
<1>4. contains(get_string(i))
  BY <1>1, <1>2, AllPresent, StringIsKey, EntryFound DEF contains
<1>5. missing' = missing
  BY <1>1, <1>4
<1> HIDE DEF i
<1>6. Phases'
  BY <1>1, <1>2, <1>3 DEF IInv, Phases, Idle
<1>7. Kept'
  <2>1. \A n \in Nodes : Present(get_string(n))
    BY <1>1, AllPresent
  <2> QED  BY <1>1, <1>3, <1>5, <2>1 DEF IInv, Kept, Present, Key, Node
<1>8. TypeOK' /\ Locals'
  BY <1>1, <1>3, <1>5 DEF IInv, TypeOK, Locals, Node
<1>9. Locks' /\ Lists'
  BY <1>1 DEF IInv, Locks, Lists, UniqueLists, Present, Inside, Key, Node, MutexOf
<1> QED
  BY <1>6, <1>7, <1>8, <1>9 DEF IInv

(* A table that has just been created, and no thread. *)
Fresh ==
  /\ missing = 0 /\ heap = [n \in {} |-> NULL]
  /\ list_head = [b \in Buckets |-> <<>>] /\ mutex = [b \in Buckets |-> NONE]
  /\ pc = [t \in Threads |-> "unborn"] /\ at = [t \in Threads |-> 0]
  /\ found = [t \in Threads |-> NULL]
  /\ main.i = 0
  /\ \/ table = "base" /\ main = [loop |-> "add", i |-> 0]
     \/ table \in {"v1", "v2"} /\ main = [loop |-> "create", i |-> 0]
     \/ table = "none" /\ main = [loop |-> "exited", i |-> 0]

LEMMA FreshInv == ConstantsAssumption /\ Fresh => IInv
<1> SUFFICES ASSUME Fresh
             PROVE  IInv
  OBVIOUS
<1> USE DEF Fresh
<1>1. \A t \in Threads : pc[t] = "unborn" /\ at[t] = 0
  OBVIOUS
<1>2. DOMAIN heap = {}
  OBVIOUS
<1>3. \A b \in Buckets : list_head[b] = <<>>
  OBVIOUS
<1>4. 0 \in 0..(Total - 1) /\ 0 \in Threads /\ 0 \in 0..SIZE /\ 0 \in 0..Total
  BY LoopBounds DEF Threads
<1>5. TypeOK
  <2>1. heap \in [DOMAIN heap -> [key : Keys, value : Nodes, next : Seq(DOMAIN heap)]]
    BY <1>2
  <2>2. list_head \in [Buckets -> Seq(DOMAIN heap)]
    OBVIOUS
  <2>3. DOMAIN heap \subseteq Nodes
    BY <1>2
  <2> QED  BY <1>4, <2>1, <2>2, <2>3 DEF TypeOK
<1>6. Phases
  BY <1>1, <1>4 DEF Phases, Idle
<1>7. Locals
  BY <1>1 DEF Locals, AddSteps
<1>8. Locks
  BY <1>1 DEF Locks, Inside, NONE, Threads
<1>9. Lists
  <2>1. UniqueLists
    BY <1>3 DEF UniqueLists
  <2> QED  BY <1>1, <1>2, <2>1 DEF Lists
<1>10. Kept
  <2>1. main.loop = "add" => \A n \in Nodes : ~(n < main.i)
    BY DEF Nodes
  <2>2. \A t \in Threads : \A j \in 0..(SIZE - 1) : ~(j < at[t])
    BY <1>1, LoopBounds
  <2>3. ~(table = "base" /\ main.loop \in {"missing", "destroy"})
    OBVIOUS
  <2> QED  BY <1>1, <2>1, <2>2, <2>3 DEF Kept
<1> QED
  BY <1>5, <1>6, <1>7, <1>8, <1>9, <1>10 DEF IInv

LEMMA DestroyStep ==
  ASSUME IInv, destroy
  PROVE  IInv'
<1>1. /\ main.loop = "destroy"
      /\ table' = CASE table = "base" -> "v1" [] table = "v1" -> "v2" [] OTHER -> "none"
      /\ main' = [loop |-> IF table = "v2" THEN "exited" ELSE "create", i |-> 0]
      /\ missing' = 0 /\ heap' = [n \in {} |-> NULL]
      /\ list_head' = [b \in Buckets |-> <<>>] /\ mutex' = [b \in Buckets |-> NONE]
      /\ pc' = [t \in Threads |-> "unborn"] /\ at' = [t \in Threads |-> 0]
      /\ found' = [t \in Threads |-> NULL]
  BY DEF destroy, In
<1>2. table \in {"base", "v1", "v2"}
  BY <1>1 DEF IInv, TypeOK, Phases
<1>3. \/ table' \in {"v1", "v2"} /\ main' = [loop |-> "create", i |-> 0]
      \/ table' = "none" /\ main' = [loop |-> "exited", i |-> 0]
  BY <1>1, <1>2
<1>4. main'.i = 0
  BY <1>1
<1>5. Fresh'
  BY <1>1, <1>3, <1>4 DEF Fresh
<1>6. IInv'
  BY <1>5, FreshInv, ConstantsAssumption, PTL
<1> QED
  BY <1>6

-----------------------------------------------------------------------------
(* The invariant *)

LEMMA InitInv == Init => IInv
<1>1. Init => Fresh
  BY DEF Init, Fresh
<1> QED
  BY <1>1, FreshInv, ConstantsAssumption

LEMMA NextInv == IInv /\ [Next]_vars => IInv'
<1> SUFFICES ASSUME IInv, [Next]_vars
             PROVE  IInv'
  OBVIOUS
<1>1. CASE \E t \in Threads : add_entry(t)
  <2>1. PICK t \in Threads : add_entry(t)
    BY <1>1
  <2> ~In("failed")
    BY <2>1 DEF add_entry
  <2>2. CASE lock(t)
    BY <2>2, LockStep
  <2>3. CASE search(t)
    BY <2>3, SearchStep
  <2>4. CASE update(t)
    BY <2>4, UpdateStep
  <2>5. CASE link(t)
    BY <2>5, LinkStep
  <2>6. CASE publish(t)
    BY <2>6, PublishStep
  <2>7. CASE unlock(t)
    BY <2>7, UnlockStep
  <2> QED  BY <2>1, <2>2, <2>3, <2>4, <2>5, <2>6, <2>7 DEF add_entry
<1>2. CASE base_add_entry
  BY <1>2, BaseAddEntryStep
<1>3. CASE pthread_create
  BY <1>3, CreateStep
<1>4. CASE pthread_join
  BY <1>4, JoinStep
<1>5. CASE count_missing
  BY <1>5, CountStep
<1>6. CASE destroy
  BY <1>6, DestroyStep
<1>7. CASE pthread_create_fails
  BY <1>7, CreateFailsStep
<1>8. CASE Exited \/ UNCHANGED vars
  <2>1. UNCHANGED vars
    BY <1>8 DEF Exited
  <2>2. TypeOK' /\ Phases' /\ Locals'
    BY <2>1 DEF vars, IInv, TypeOK, Phases, Idle, Locals, Node
  <2>3. Locks' /\ Lists'
    BY <2>1 DEF vars, IInv, Locks, Lists, UniqueLists, Present, Inside, Key, Node, MutexOf
  <2>4. Kept'
    BY <2>1 DEF vars, IInv, Kept, Present, Key, Node
  <2> QED  BY <2>2, <2>3, <2>4 DEF IInv
<1> QED
  BY <1>1, <1>2, <1>3, <1>4, <1>5, <1>6, <1>7, <1>8 DEF Next, main_steps

LEMMA SpecInv == Spec => []IInv
  BY InitInv, NextInv, PTL DEF Spec

(* Types hold for any number of threads, entries and buckets: in particular *)
(* every list has nodes that are allocated, and a search never returns      *)
(* another.                                                                 *)
THEOREM TypeCorrect == Spec => []TypeOK
<1>1. IInv => TypeOK
  BY DEF IInv
<1> QED
  BY <1>1, SpecInv, PTL

(* In v1 and in v2, two threads in add_entry are at different buckets.      *)
THEOREM BucketsExclusive == Spec => []MutualExclusion
<1>1. IInv => MutualExclusion
  BY Apart DEF MutualExclusion
<1> QED
  BY <1>1, SpecInv, PTL

(* However many threads add the same key, its list has it once, and in the  *)
(* bucket where the lookups search it.                                      *)
THEOREM KeyAlwaysOnce == Spec => []KeyOnce
<1>1. ASSUME IInv
      PROVE  KeyOnce
  <2>1. \A b \in Buckets : \A i \in 1..Len(list_head[b]) :
          heap[list_head[b][i]].key = get_string(list_head[b][i])
    <3> TAKE b \in Buckets
    <3>1. list_head[b] \in Seq(DOMAIN heap)
      BY <1>1 DEF IInv, TypeOK
    <3>2. \A i \in 1..Len(list_head[b]) : list_head[b][i] \in DOMAIN heap
      BY <3>1
    <3> QED  BY <1>1, <3>2 DEF IInv, Lists
  <2> QED  BY <1>1, <2>1 DEF IInv, Lists, UniqueLists, KeyOnce
<1> QED
  BY <1>1, SpecInv, PTL

(* The tester never counts a missing string, and an addition that has       *)
(* returned is found by every later lookup until destroy.                   *)
THEOREM NothingEverMissing == Spec => []NothingMissing
<1>1. ASSUME IInv
      PROVE  NothingMissing
  <2>1. missing = 0
    BY <1>1 DEF IInv, Kept
  <2>2. ASSUME NEW t \in Threads, NEW j \in 0..(SIZE - 1), j < at[t]
        PROVE  contains(get_string(get_global_index(t, j)))
    <3>1. Present(get_string(get_global_index(t, j)))
      BY <1>1, <2>2 DEF IInv, Kept
    <3>2. get_string(get_global_index(t, j)) \in Keys
      BY IndexInNodes, StringIsKey
    <3> QED  BY <1>1, <3>1, <3>2, EntryFound DEF contains
  <2> QED  BY <2>1, <2>2 DEF NothingMissing
<1> QED
  BY <1>1, SpecInv, PTL

(* main destroys a table, and counts its strings, when no thread is in it   *)
(* and no mutex is locked.                                                  *)
THEOREM AlwaysDestroyedUnused == Spec => []DestroyedUnused
<1>1. ASSUME IInv
      PROVE  DestroyedUnused
  <2> SUFFICES ASSUME main.loop \in {"missing", "destroy"},
                      NEW b \in Buckets, NEW t \in Threads
               PROVE  mutex[b] = NONE /\ ~Inside(t)
    BY DEF DestroyedUnused
  <2>1. \A u \in Threads : ~Inside(u)
    BY <1>1 DEF IInv, Phases, Idle, Inside
  <2>2. mutex[b] \in Threads \cup {NONE}
    BY <1>1 DEF IInv, TypeOK
  <2> QED  BY <1>1, <2>1, <2>2 DEF IInv, Locks
<1> QED
  BY <1>1, SpecInv, PTL

-----------------------------------------------------------------------------
(* Pht implements KeyValueMap: every addition is atomic.                     *)

(* What the lookups of the refinement mapping return. *)
Value(k) == IF contains(k) THEN get_value(k) ELSE NULL

(* The search's result is still true when the value is stored, and the node *)
(* to be published has the value of its addition.                           *)
Holding ==
  \A t \in Threads :
    /\ pc[t] = "update" => found[t] = get_list_entry(Key(t))
    /\ pc[t] = "publish" => heap[Node(t)].value = Node(t)

-----------------------------------------------------------------------------
(* Searches of a list *)

(* get_list_entry of a key in a list, and the value that it leads to. *)
EntryIn(list, nodes, k) ==
  LET same == {i \in 1..Len(list) : nodes[list[i]].key = k}
  IN IF same = {} THEN NULL
     ELSE list[CHOOSE i \in same : \A j \in same : i <= j]
ValueIn(list, nodes, k) ==
  IF EntryIn(list, nodes, k) # NULL THEN nodes[EntryIn(list, nodes, k)].value ELSE NULL

Once(list, nodes) ==
  \A i, j \in 1..Len(list) : nodes[list[i]].key = nodes[list[j]].key => i = j

(* The search of a list that has the key finds its node.                   *)
LEMMA EntryHere ==
  ASSUME NEW list, NEW nodes, Len(list) \in Nat, Once(list, nodes)
  PROVE  \A i \in 1..Len(list) : EntryIn(list, nodes, nodes[list[i]].key) = list[i]
<1> TAKE i \in 1..Len(list)
<1> DEFINE k == nodes[list[i]].key
           same == {j \in 1..Len(list) : nodes[list[j]].key = k}
<1>1. i \in same /\ \A j \in same : j = i
  BY DEF Once
<1>2. i <= i
  OBVIOUS
<1>3. (CHOOSE j \in same : \A m \in same : j <= m) = i
  <2>1. \E j \in same : \A m \in same : j <= m
    BY <1>1, <1>2
  <2>2. (CHOOSE j \in same : \A m \in same : j <= m) \in same
    BY <2>1
  <2> HIDE DEF same
  <2> QED
    BY <1>1, <2>2
<1>4. same # {}
  BY <1>1
<1> QED
  BY <1>3, <1>4 DEF EntryIn

(* The search of a list that has not the key finds nothing.                *)
LEMMA EntryAbsent ==
  ASSUME NEW list, NEW nodes, NEW k, \A i \in 1..Len(list) : nodes[list[i]].key # k
  PROVE  EntryIn(list, nodes, k) = NULL
<1>1. {i \in 1..Len(list) : nodes[list[i]].key = k} = {}
  OBVIOUS
<1> QED
  BY <1>1 DEF EntryIn

(* A search reads no more than the keys of the list's nodes.               *)
LEMMA EntrySame ==
  ASSUME NEW list, NEW nodes, NEW others, NEW k, Len(list) \in Nat, Once(list, nodes),
         \A i \in 1..Len(list) : others[list[i]].key = nodes[list[i]].key
  PROVE  EntryIn(list, others, k) = EntryIn(list, nodes, k)
<1>1. CASE \E i \in 1..Len(list) : nodes[list[i]].key = k
  <2>1. PICK i \in 1..Len(list) : nodes[list[i]].key = k
    BY <1>1
  <2>2. Once(list, others) /\ others[list[i]].key = k
    BY <2>1 DEF Once
  <2>3. EntryIn(list, others, k) = list[i]
    BY <2>2, EntryHere
  <2>4. EntryIn(list, nodes, k) = list[i]
    BY <2>1, EntryHere
  <2> QED
    BY <2>3, <2>4
<1>2. CASE \A i \in 1..Len(list) : nodes[list[i]].key # k
  BY <1>2, EntryAbsent
<1> QED
  BY <1>1, <1>2

(* A node at the head of the list hides none of another key.               *)
LEMMA EntryPushed ==
  ASSUME NEW list, NEW new, NEW nodes, NEW k, Len(list) \in Nat,
         Len(new) = Len(list) + 1, \A i \in 1..Len(list) : new[i + 1] = list[i],
         nodes[new[1]].key # k, Once(list, nodes), Once(new, nodes)
  PROVE  EntryIn(new, nodes, k) = EntryIn(list, nodes, k)
<1>1. Len(new) \in Nat
  OBVIOUS
<1>2. CASE \E i \in 1..Len(list) : nodes[list[i]].key = k
  <2>1. PICK i \in 1..Len(list) : nodes[list[i]].key = k
    BY <1>2
  <2>2. PICK j \in 1..Len(new) : new[j] = list[i]
    <3>1. i + 1 \in 1..Len(new) /\ new[i + 1] = list[i]
      OBVIOUS
    <3> QED
      BY <3>1
  <2>3. EntryIn(new, nodes, k) = list[i]
    <3>1. nodes[new[j]].key = k
      BY <2>1, <2>2
    <3>2. EntryIn(new, nodes, k) = new[j]
      BY <1>1, <3>1, EntryHere
    <3> QED
      BY <2>2, <3>2
  <2>4. EntryIn(list, nodes, k) = list[i]
    BY <2>1, EntryHere
  <2> QED
    BY <2>3, <2>4
<1>3. CASE \A i \in 1..Len(list) : nodes[list[i]].key # k
  <2>1. \A i \in 1..Len(new) : nodes[new[i]].key # k
    <3> SUFFICES ASSUME NEW i \in 1..Len(new)
                 PROVE  nodes[new[i]].key # k
      OBVIOUS
    <3>1. CASE i = 1
      BY <3>1
    <3>2. CASE i # 1
      <4>1. i - 1 \in 1..Len(list) /\ (i - 1) + 1 = i
        BY <3>2
      <4> QED
        BY <1>3, <4>1
    <3> QED
      BY <3>1, <3>2
  <2>2. EntryIn(new, nodes, k) = NULL
    BY <2>1, EntryAbsent
  <2>3. EntryIn(list, nodes, k) = NULL
    BY <1>3, EntryAbsent
  <2> QED
    BY <2>2, <2>3
<1> QED
  BY <1>2, <1>3

(* The lookups of Pht are such searches, before and after a step.          *)
LEMMA Lookups ==
  ASSUME NEW k
  PROVE  /\ get_list_entry(k) = EntryIn(list_head[BucketOf(k)], heap, k)
         /\ Value(k) = ValueIn(list_head[BucketOf(k)], heap, k)
         /\ get_list_entry(k)' = EntryIn(list_head'[BucketOf(k)], heap', k)
         /\ Value(k)' = ValueIn(list_head'[BucketOf(k)], heap', k)
<1>1. get_list_entry(k) = EntryIn(list_head[BucketOf(k)], heap, k)
  BY DEF get_list_entry, EntryIn
<1>2. get_list_entry(k)' = EntryIn(list_head'[BucketOf(k)], heap', k)
  BY DEF get_list_entry, EntryIn, BucketOf
<1> QED
  BY <1>1, <1>2 DEF Value, ValueIn, contains, get_value

(* The lists of a state of Pht are sequences that have each key once, and   *)
(* the nodes in them are allocated.                                         *)
LEMMA ListsOnce ==
  ASSUME IInv, NEW k \in Keys
  PROVE  /\ BucketOf(k) \in Buckets
         /\ list_head[BucketOf(k)] \in Seq(DOMAIN heap)
         /\ Len(list_head[BucketOf(k)]) \in Nat
         /\ Once(list_head[BucketOf(k)], heap)
         /\ \A i \in 1..Len(list_head[BucketOf(k)]) :
              /\ list_head[BucketOf(k)][i] \in DOMAIN heap
              /\ heap[list_head[BucketOf(k)][i]].key = get_string(list_head[BucketOf(k)][i])
<1> DEFINE list == list_head[BucketOf(k)]
<1>1. BucketOf(k) \in Buckets
  BY BucketInRange
<1>2. list \in Seq(DOMAIN heap)
  BY <1>1 DEF IInv, TypeOK
<1>3. Len(list) \in Nat /\ \A i \in 1..Len(list) : list[i] \in DOMAIN heap
  BY <1>2
<1>4. \A i \in 1..Len(list) : heap[list[i]].key = get_string(list[i])
  BY <1>3 DEF IInv, Lists
<1>5. \A i, j \in 1..Len(list) : get_string(list[i]) = get_string(list[j]) => i = j
  BY <1>1 DEF IInv, Lists, UniqueLists
<1>6. Once(list, heap)
  BY <1>4, <1>5 DEF Once
<1> QED
  BY <1>1, <1>2, <1>3, <1>4, <1>6

(* A step that changes no list of k, nor the key of a node of it, finds the *)
(* same entry for k.                                                        *)
LEMMA SameSearch ==
  ASSUME IInv, NEW k \in Keys, list_head'[BucketOf(k)] = list_head[BucketOf(k)],
         \A i \in 1..Len(list_head[BucketOf(k)]) :
           heap'[list_head[BucketOf(k)][i]].key = heap[list_head[BucketOf(k)][i]].key
  PROVE  get_list_entry(k)' = get_list_entry(k)
<1>1. EntryIn(list_head[BucketOf(k)], heap', k) = EntryIn(list_head[BucketOf(k)], heap, k)
  BY ListsOnce, EntrySame
<1> QED
  BY <1>1, Lookups

(* A key's entry is a node of its list, with the key.                      *)
LEMMA EntryNode ==
  ASSUME IInv, NEW k \in Keys, get_list_entry(k) # NULL
  PROVE  /\ get_list_entry(k) \in DOMAIN heap
         /\ heap[get_list_entry(k)].key = k
         /\ \E i \in 1..Len(list_head[BucketOf(k)]) :
              list_head[BucketOf(k)][i] = get_list_entry(k)
<1> DEFINE list == list_head[BucketOf(k)]
<1>1. get_list_entry(k) = EntryIn(list, heap, k)
  BY Lookups
<1>2. CASE \E i \in 1..Len(list) : heap[list[i]].key = k
  <2>1. PICK i \in 1..Len(list) : heap[list[i]].key = k
    BY <1>2
  <2>2. get_list_entry(k) = list[i]
    BY <1>1, <2>1, ListsOnce, EntryHere
  <2> QED
    BY <2>1, <2>2, ListsOnce
<1>3. CASE \A i \in 1..Len(list) : heap[list[i]].key # k
  BY <1>1, <1>3, EntryAbsent
<1> QED
  BY <1>2, <1>3

EveryList == \A k \in Keys : Once(list_head[BucketOf(k)], heap)

(* No list has a key twice: the form in which it is used after a step.      *)
LEMMA EveryListOnce == IInv => EveryList
BY ListsOnce DEF EveryList

-----------------------------------------------------------------------------
(* What a step does to the lookups *)

(* A node of a key that no list has is in no list.                         *)
LEMMA NodeOutside ==
  ASSUME IInv, NEW n \in Nodes, ~Present(get_string(n)), NEW k \in Keys
  PROVE  \A i \in 1..Len(list_head[BucketOf(k)]) : list_head[BucketOf(k)][i] # n
<1> SUFFICES ASSUME NEW i \in 1..Len(list_head[BucketOf(k)]),
                    list_head[BucketOf(k)][i] = n
             PROVE  FALSE
  OBVIOUS
<1>1. BucketOf(get_string(n)) = BucketOf(k)
  BY BucketInRange DEF IInv, Lists, UniqueLists
<1> QED
  BY <1>1 DEF Present

(* Writing such a node changes no search.                                  *)
LEMMA NodeLookups ==
  ASSUME IInv, NEW n \in Nodes, ~Present(get_string(n)), NEW k \in Keys,
         \A m \in DOMAIN heap \ {n} : heap'[m] = heap[m]
  PROVE  /\ EntryIn(list_head[BucketOf(k)], heap', k) = get_list_entry(k)
         /\ ValueIn(list_head[BucketOf(k)], heap', k) = Value(k)
         /\ Once(list_head[BucketOf(k)], heap')
<1> DEFINE list == list_head[BucketOf(k)]
<1>1. /\ Len(list) \in Nat /\ Once(list, heap)
      /\ \A i \in 1..Len(list) : heap'[list[i]] = heap[list[i]]
  BY ListsOnce, NodeOutside
<1>2. get_list_entry(k) = EntryIn(list, heap, k) /\ Value(k) = ValueIn(list, heap, k)
  BY Lookups
<1>3. EntryIn(list, heap', k) = EntryIn(list, heap, k)
  <2>1. \A i \in 1..Len(list) : heap'[list[i]].key = heap[list[i]].key
    BY <1>1
  <2> QED
    BY <1>1, <2>1, EntrySame
<1>4. Once(list, heap')
  BY <1>1 DEF Once
<1>5. ValueIn(list, heap', k) = ValueIn(list, heap, k)
  <2>1. CASE get_list_entry(k) = NULL
    BY <1>2, <1>3, <2>1 DEF ValueIn
  <2>2. CASE get_list_entry(k) # NULL
    <3>1. PICK i \in 1..Len(list) : list[i] = get_list_entry(k)
      BY <2>2, EntryNode
    <3>2. heap'[get_list_entry(k)] = heap[get_list_entry(k)]
      BY <1>1, <3>1
    <3> QED
      BY <1>2, <1>3, <2>2, <3>2 DEF ValueIn
  <2> QED
    BY <2>1, <2>2
<1> QED
  BY <1>2, <1>3, <1>4, <1>5

(* The insertion of such a node makes its key map to its value, and changes *)
(* what is found for no other.                                              *)
LEMMA InsertLookups ==
  ASSUME IInv, IInv', NEW n \in Nodes, ~Present(get_string(n)),
         \A m \in DOMAIN heap \ {n} : heap'[m] = heap[m],
         heap'[n].key = get_string(n), heap'[n].value = n,
         list_head' = [list_head EXCEPT ![BucketOf(get_string(n))] =
                         <<n>> \o list_head[BucketOf(get_string(n))]],
         NEW k \in Keys
  PROVE  /\ k # get_string(n) =>
              get_list_entry(k)' = get_list_entry(k) /\ Value(k)' = Value(k)
         /\ k = get_string(n) => Value(k)' = n
<1> DEFINE list == list_head[BucketOf(k)]
           new == list_head'[BucketOf(k)]
<1>1. /\ EntryIn(list, heap', k) = get_list_entry(k)
      /\ ValueIn(list, heap', k) = Value(k)
      /\ Once(list, heap')
  BY NodeLookups
<1>2. get_list_entry(k)' = EntryIn(new, heap', k) /\ Value(k)' = ValueIn(new, heap', k)
  BY Lookups
<1>3. Once(new, heap')
  <2>1. IInv'
    OBVIOUS
  <2>2. EveryList'
    BY <2>1, EveryListOnce, PTL
  <2> QED
    BY <2>2 DEF EveryList, BucketOf
<1>4. list_head \in [Buckets -> Seq(DOMAIN heap)] /\ BucketOf(k) \in Buckets
  BY BucketInRange DEF IInv, TypeOK
<1>5. CASE BucketOf(k) # BucketOf(get_string(n))
  <2>1. new = list
    BY <1>4, <1>5
  <2> QED
    BY <1>1, <1>2, <1>5, <2>1
<1>6. CASE BucketOf(k) = BucketOf(get_string(n))
  <2>1. new = <<n>> \o list /\ list \in Seq(DOMAIN heap)
    BY <1>4, <1>6
  <2>2. /\ Len(list) \in Nat /\ Len(new) = Len(list) + 1 /\ new[1] = n
        /\ \A i \in 1..Len(list) : new[i + 1] = list[i]
    <3>1. list \in Seq(DOMAIN heap \cup {n})
      BY <2>1, SeqMonotone
    <3> QED
      BY <2>1, <3>1, Cons
  <2> HIDE DEF new, list
  <2>3. CASE k # get_string(n)
    <3>1. heap'[new[1]].key # k
      BY <2>2, <2>3
    <3>2. EntryIn(new, heap', k) = EntryIn(list, heap', k)
      BY <1>1, <1>3, <2>2, <3>1, EntryPushed
    <3>3. ValueIn(new, heap', k) = ValueIn(list, heap', k)
      BY <3>2 DEF ValueIn
    <3> QED
      BY <1>1, <1>2, <2>3, <3>2, <3>3
  <2>4. CASE k = get_string(n)
    <3>1. 1 \in 1..Len(new) /\ Len(new) \in Nat /\ heap'[new[1]].key = k
      BY <2>2, <2>4
    <3>2. EntryIn(new, heap', k) = n
      <4>1. PICK i \in 1..Len(new) : i = 1
        BY <3>1
      <4>2. heap'[new[i]].key = k
        BY <3>1, <4>1
      <4>3. EntryIn(new, heap', k) = new[i]
        <5>1. Len(new) \in Nat /\ Once(new, heap')
          BY <1>3, <3>1
        <5>2. EntryIn(new, heap', heap'[new[i]].key) = new[i]
          BY <5>1, EntryHere
        <5> QED
          BY <4>2, <5>2
      <4> QED
        BY <2>2, <4>1, <4>3
    <3>3. n # NULL
      BY DEF Nodes, NULL
    <3> QED
      BY <1>2, <2>4, <3>2, <3>3 DEF ValueIn
  <2> QED
    BY <2>3, <2>4
<1> QED
  BY <1>5, <1>6

(* The value of a key that is in its list, before and after a step.        *)
LEMMA ValueFound ==
  ASSUME NEW k
  PROVE  /\ get_list_entry(k) # NULL => Value(k) = heap[get_list_entry(k)].value
         /\ get_list_entry(k) = NULL => Value(k) = NULL
         /\ get_list_entry(k)' # NULL => Value(k)' = heap'[get_list_entry(k)'].value
         /\ get_list_entry(k)' = NULL => Value(k)' = NULL
<1>1. Value(k) = ValueIn(list_head[BucketOf(k)], heap, k)
  BY Lookups
<1>2. Value(k)' = ValueIn(list_head'[BucketOf(k)], heap', k)
  BY Lookups
<1> QED
  BY <1>1, <1>2, Lookups DEF ValueIn

(* A value stored in the entry of a key is that key's, and no other's.     *)
LEMMA StoreLookups ==
  ASSUME IInv, NEW key \in Keys, get_list_entry(key) # NULL, NEW n \in Nodes,
         heap' = [heap EXCEPT ![get_list_entry(key)].value = n], UNCHANGED list_head,
         NEW k \in Keys
  PROVE  /\ get_list_entry(k)' = get_list_entry(k)
         /\ k # key => Value(k)' = Value(k)
         /\ k = key => Value(k)' = n
<1> DEFINE e == get_list_entry(key)
           list == list_head[BucketOf(k)]
<1>1. e \in DOMAIN heap /\ heap[e].key = key
  BY EntryNode
<1> HIDE DEF e
<1>2. heap' = [heap EXCEPT ![e] = [heap[e] EXCEPT !.value = n]]
  BY DEF e
<1>3. heap[e] \in [key : Keys, value : Nodes, next : Seq(DOMAIN heap)]
  BY <1>1 DEF IInv, TypeOK
<1>4. /\ heap'[e].value = n /\ heap'[e].key = heap[e].key
      /\ \A m \in DOMAIN heap \ {e} : heap'[m] = heap[m]
  BY <1>1, <1>2, <1>3
<1>5. \A i \in 1..Len(list) : heap'[list[i]].key = heap[list[i]].key
  BY <1>4, ListsOnce
<1>6. get_list_entry(k)' = get_list_entry(k)
  BY <1>5, SameSearch
<1>7. CASE k # key
  <2>1. CASE get_list_entry(k) = NULL
    BY <1>6, <1>7, <2>1 DEF Value, contains
  <2>2. CASE get_list_entry(k) # NULL
    <3>1. get_list_entry(k) \in DOMAIN heap /\ heap[get_list_entry(k)].key = k
      BY <2>2, EntryNode
    <3>2. PICK f \in DOMAIN heap : f = get_list_entry(k) /\ heap[f].key = k
      BY <3>1
    <3>3. f # e
      BY <1>1, <1>7, <3>2
    <3>4. heap'[f] = heap[f]
      BY <1>4, <3>3
    <3>5. Value(k) = heap[f].value
      BY <2>2, <3>2, ValueFound
    <3>6. Value(k)' = heap'[f].value
      BY <1>6, <2>2, <3>2, ValueFound
    <3>7. Value(k)' = Value(k)
      BY <3>4, <3>5, <3>6
    <3> QED
      BY <1>6, <1>7, <3>7
  <2> QED
    BY <2>1, <2>2
<1>8. CASE k = key
  BY <1>4, <1>6, <1>8 DEF Value, contains, get_value, e
<1> QED
  BY <1>6, <1>7, <1>8

(* Lookups depend on nothing but the lists and the nodes.                  *)
LEMMA SameLookups ==
  ASSUME UNCHANGED <<heap, list_head>>, NEW k
  PROVE  get_list_entry(k)' = get_list_entry(k) /\ Value(k)' = Value(k)
BY Lookups DEF ValueIn

-----------------------------------------------------------------------------
(* Entries and their order *)

LEMMA Monotone ==
  ASSUME NEW a \in Nat, NEW b \in Nat, a <= b, NEW c \in Nat
  PROVE  a * c <= b * c
<1>1. PICK d \in Nat : b = a + d
  BY b - a \in Nat, b = a + (b - a)
<1>2. b * c = a * c + d * c /\ d * c \in Nat /\ a * c \in Nat
  BY <1>1
<1> QED
  BY <1>2

(* The index of entry j of thread t leads back to t and j.                 *)
LEMMA IndexSplit ==
  ASSUME NEW t \in Threads, NEW j \in 0..(SIZE - 1)
  PROVE  /\ get_global_index(t, j) \div SIZE = t
         /\ get_global_index(t, j) % SIZE = j
<1> DEFINE n == get_global_index(t, j)
           q == n \div SIZE
           r == n % SIZE
<1>1. t \in Nat /\ j \in Nat /\ SIZE \in Nat /\ SIZE > 0 /\ j < SIZE
  BY LoopBounds DEF Threads
<1>2. n \in Nat /\ n = t * SIZE + j /\ t * SIZE = SIZE * t
  BY <1>1 DEF get_global_index
<1> HIDE DEF n
<1>3. r \in 0..(SIZE - 1) /\ q \in Nat /\ n = SIZE * q + r
  BY <1>1, <1>2, DivMod, Zenon
<1> HIDE DEF q, r
<1>4. r \in Nat /\ r < SIZE
  BY <1>1, <1>3
<1>5. q < t + 1
  <2>1. t + 1 \in Nat /\ (t + 1) * SIZE = t * SIZE + SIZE
    BY <1>1
  <2>2. SIZE * q + r < (t + 1) * SIZE
    <3>1. SIZE * q + r = t * SIZE + j /\ t * SIZE \in Nat
      BY <1>1, <1>2, <1>3
    <3> QED
      BY <1>1, <2>1, <3>1
  <2> QED
    BY <1>1, <1>3, <1>4, <2>1, <2>2, QuotientBound, Zenon
<1>6. t < q + 1
  <2>1. q + 1 \in Nat /\ (q + 1) * SIZE = SIZE * q + SIZE
    BY <1>1, <1>3
  <2>2. SIZE * t + j < (q + 1) * SIZE
    <3>1. SIZE * q \in Nat
      BY <1>1, <1>3
    <3>2. SIZE * t + j = SIZE * q + r
      BY <1>2, <1>3, Zenon
    <3> QED
      BY <1>1, <1>4, <2>1, <3>1, <3>2
  <2> QED
    BY <1>1, <2>1, <2>2, QuotientBound, Zenon
<1>7. q = t
  BY <1>1, <1>3, <1>5, <1>6
<1>8. r = j
  <2>1. SIZE * t + r = SIZE * t + j /\ SIZE * t \in Nat
    BY <1>1, <1>2, <1>3, <1>7
  <2> QED
    BY <1>1, <1>4, <2>1
<1> QED
  BY <1>7, <1>8 DEF q, r, n

(* The key of an entry is the one that its thread adds.                    *)
LEMMA KeyOfEntry ==
  ASSUME NEW t \in Threads, NEW j \in 0..(SIZE - 1)
  PROVE  get_string(get_global_index(t, j)) = Work[t][j + 1]
BY IndexSplit DEF get_string

(* How many entries of thread u have an index below n.                     *)
Below(u, n) ==
  IF n >= (u + 1) * SIZE THEN SIZE ELSE IF n >= u * SIZE THEN n - u * SIZE ELSE 0

(* Indices go through the entries of each thread in order, and through the *)
(* threads one after the other.                                            *)
LEMMA BelowStep ==
  ASSUME NEW t \in Threads, NEW j \in 0..(SIZE - 1), NEW u \in Threads
  PROVE  /\ Below(t, get_global_index(t, j)) = j
         /\ Below(u, get_global_index(t, j) + 1) =
              IF u = t THEN j + 1 ELSE Below(u, get_global_index(t, j))
<1> DEFINE n == t * SIZE + j
<1>1. /\ t \in Nat /\ u \in Nat /\ j \in Nat /\ SIZE \in Nat /\ SIZE > 0 /\ j < SIZE
      /\ get_global_index(t, j) = n
  BY LoopBounds DEF Threads, get_global_index
<1>2. /\ t * SIZE \in Nat /\ u * SIZE \in Nat
      /\ (t + 1) * SIZE = t * SIZE + SIZE /\ (u + 1) * SIZE = u * SIZE + SIZE
  BY <1>1
<1>3. Below(t, n) = j /\ Below(t, n + 1) = j + 1
  BY <1>1, <1>2 DEF Below
<1>4. CASE u < t
  <2>1. (u + 1) * SIZE <= t * SIZE
    BY <1>1, <1>4, Monotone
  <2> QED
    BY <1>1, <1>2, <1>3, <1>4, <2>1 DEF Below
<1>5. CASE u > t
  <2>1. (t + 1) * SIZE <= u * SIZE
    BY <1>1, <1>5, Monotone
  <2> QED
    BY <1>1, <1>2, <1>3, <1>5, <2>1 DEF Below
<1>6. CASE u = t
  BY <1>1, <1>3, <1>6
<1> QED
  BY <1>1, <1>4, <1>5, <1>6

LEMMA BelowEnds ==
  ASSUME NEW u \in Threads
  PROVE  Below(u, 0) = 0 /\ Below(u, Total) = SIZE
<1>1. /\ u \in Nat /\ SIZE \in Nat /\ SIZE > 0 /\ THREADS \in Nat
      /\ u + 1 \in Nat /\ u + 1 <= THREADS
  BY LoopBounds DEF Threads
<1>2. (u + 1) * SIZE <= Total
  BY <1>1, Monotone DEF Total
<1>3. u * SIZE \in Nat /\ (u + 1) * SIZE = u * SIZE + SIZE
  BY <1>1
<1> QED
  BY <1>1, <1>2, <1>3 DEF Below

-----------------------------------------------------------------------------
(* The steps of KeyValueMap *)

Stays ==
  /\ \A k \in Keys : Value(k)' = Value(k)
  /\ \A u \in Threads : AddedBy(u)' = AddedBy(u)
Adds(t) ==
  /\ AddedBy(t) < SIZE
  /\ \A k \in Keys :
       Value(k)' = IF k = Work[t][AddedBy(t) + 1] THEN t * SIZE + AddedBy(t) ELSE Value(k)
  /\ \A u \in Threads : AddedBy(u)' = IF u = t THEN AddedBy(t) + 1 ELSE AddedBy(u)
Renews ==
  /\ \A t \in Threads : AddedBy(t) = SIZE
  /\ \A k \in Keys : Value(k)' = NULL
  /\ \A t \in Threads : AddedBy(t)' = 0

(* A step of one of these forms is a step of KeyValueMap, or none.         *)
LEMMA MapStep ==
  ASSUME Stays \/ Renews \/ \E t \in Threads : Adds(t)
  PROVE  [Map!Next]_(Map!vars)
<1>1. CASE Stays
  BY <1>1 DEF Stays, Value, Map!vars
<1>2. CASE Renews
  <2>1. Map!Renew
    BY <1>2 DEF Renews, Value, Map!Renew
  <2> QED
    BY <2>1 DEF Map!Next
<1>3. ASSUME NEW t \in Threads, Adds(t)
      PROVE  Map!Next
  <2>1. Map!Add(t)
    BY <1>3 DEF Adds, Value, Map!Add
  <2> QED
    BY <2>1 DEF Map!Next
<1> QED
  BY <1>1, <1>2, <1>3

-----------------------------------------------------------------------------
(* The steps of a thread *)

(* A step that moves thread t alone, and not past its entry.               *)
LEMMA ThreadMoves ==
  ASSUME IInv, NEW t \in Threads, pc[t] \in AddSteps, NEW to \in AddSteps,
         pc' = [pc EXCEPT ![t] = to], UNCHANGED <<table, main, at>>
  PROVE  /\ table # "base" /\ at[t] < SIZE
         /\ pc'[t] = to /\ \A u \in Threads \ {t} : pc'[u] = pc[u]
         /\ \A u \in Threads : Node(u)' = Node(u) /\ Key(u)' = Key(u)
         /\ Key(t) = Work[t][at[t] + 1] /\ Node(t) = t * SIZE + at[t]
         /\ \A u \in Threads \ {t} : AddedBy(u)' = AddedBy(u)
         /\ AddedBy(t) = IF pc[t] = "unlock" THEN at[t] + 1 ELSE at[t]
         /\ AddedBy(t)' = IF to = "unlock" THEN at[t] + 1 ELSE at[t]
<1>1. table # "base" /\ at[t] < SIZE
  BY DEF IInv, Phases, Idle, Locals, AddSteps
<1>2. pc'[t] = to /\ \A u \in Threads \ {t} : pc'[u] = pc[u]
  BY DEF IInv, TypeOK
<1>3. \A u \in Threads : Node(u)' = Node(u) /\ Key(u)' = Key(u)
  BY DEF Node, Key
<1>4. at[t] \in 0..(SIZE - 1)
  BY <1>1, LoopBounds DEF IInv, TypeOK
<1>5. Key(t) = Work[t][at[t] + 1] /\ Node(t) = t * SIZE + at[t]
  BY <1>4, KeyOfEntry DEF Key, Node, get_global_index
<1>6. \A u \in Threads \ {t} : AddedBy(u)' = AddedBy(u)
  BY <1>1, <1>2 DEF AddedBy
<1> QED
  BY <1>1, <1>2, <1>3, <1>5, <1>6 DEF AddedBy

(* The entry of a thread's key, after a step that keeps both.              *)
LEMMA ThreadEntry ==
  ASSUME NEW u, Key(u) \in Keys, Key(u)' = Key(u),
         \A k \in Keys : get_list_entry(k)' = get_list_entry(k)
  PROVE  get_list_entry(Key(u))' = get_list_entry(Key(u))
<1>1. PICK k \in Keys : k = Key(u)
  OBVIOUS
<1>2. get_list_entry(k)' = EntryIn(list_head'[BucketOf(k)], heap', k)
  BY Lookups
<1>3. get_list_entry(Key(u))' = EntryIn(list_head'[BucketOf(Key(u)')], heap', Key(u)')
  BY DEF get_list_entry, EntryIn, BucketOf
<1>4. get_list_entry(Key(u))' = get_list_entry(k)'
  BY <1>1, <1>2, <1>3
<1>5. get_list_entry(k)' = get_list_entry(k)
  BY <1>1
<1> QED
  BY <1>1, <1>4, <1>5

(* A step that changes neither the lists nor the nodes, nor brings a thread *)
(* to a store.                                                              *)
LEMMA QuietHolding ==
  ASSUME Holding, UNCHANGED <<heap, list_head>>,
         \A u \in Threads : pc'[u] \in {"update", "publish"} =>
           pc'[u] = pc[u] /\ at'[u] = at[u] /\ found'[u] = found[u]
  PROVE  Holding'
<1> SUFFICES ASSUME NEW u \in Threads, pc'[u] \in {"update", "publish"}
             PROVE  /\ pc'[u] = "update" => found'[u] = get_list_entry(Key(u))'
                    /\ pc'[u] = "publish" => heap'[Node(u)'].value = Node(u)'
  BY DEF Holding
<1>1. Node(u)' = Node(u) /\ Key(u)' = Key(u)
  BY DEF Node, Key
<1>2. get_list_entry(Key(u))' = get_list_entry(Key(u))
  BY <1>1 DEF get_list_entry, BucketOf
<1> QED
  BY <1>1, <1>2 DEF Holding

LEMMA LockMaps ==
  ASSUME IInv, Holding, NEW t \in Threads, lock(t)
  PROVE  Holding' /\ Stays
<1>1. /\ pc[t] = "lock" /\ pc' = [pc EXCEPT ![t] = "search"]
      /\ UNCHANGED <<table, main, heap, list_head, at, found>>
  BY DEF lock, Goes
<1>2. /\ pc'[t] = "search" /\ \A u \in Threads \ {t} : pc'[u] = pc[u]
      /\ \A u \in Threads : AddedBy(u)' = AddedBy(u)
  BY <1>1, ThreadMoves DEF AddSteps
<1>3. Holding'
  BY <1>1, <1>2, QuietHolding
<1> QED
  BY <1>1, <1>2, <1>3, SameLookups DEF Stays

LEMMA SearchMaps ==
  ASSUME IInv, Holding, NEW t \in Threads, search(t)
  PROVE  Holding' /\ Stays
<1> DEFINE e == get_list_entry(Key(t))
<1>1. /\ pc[t] = "search" /\ pc' = [pc EXCEPT ![t] = IF e = NULL THEN "link" ELSE "update"]
      /\ found' = [found EXCEPT ![t] = e]
      /\ UNCHANGED <<table, main, heap, list_head, at>>
  BY DEF search, Goes
<1>2. /\ pc'[t] \in {"link", "update"} /\ \A u \in Threads \ {t} : pc'[u] = pc[u]
      /\ \A u \in Threads : AddedBy(u)' = AddedBy(u)
      /\ \A u \in Threads : Node(u)' = Node(u) /\ Key(u)' = Key(u)
  BY <1>1, ThreadMoves DEF AddSteps
<1>3. \A k : get_list_entry(k)' = get_list_entry(k)
  BY <1>1, SameLookups
<1>4. found'[t] = e /\ \A u \in Threads \ {t} : found'[u] = found[u]
  BY <1>1 DEF IInv, TypeOK
<1>5. Holding'
  <2>1. ASSUME NEW u \in Threads, pc'[u] \in {"update", "publish"}
        PROVE  /\ pc'[u] = "update" => found'[u] = get_list_entry(Key(u))'
               /\ pc'[u] = "publish" => heap'[Node(u)'].value = Node(u)'
    <3>1. Key(u) \in Keys
      BY <1>1, <1>2, <2>1, EntryTyped DEF IInv, Locals, AddSteps
    <3>2. get_list_entry(Key(u))' = get_list_entry(Key(u))
      BY <1>2, <1>3, <3>1, ThreadEntry
    <3>3. CASE u = t
      BY <1>2, <1>4, <3>2, <3>3
    <3>4. CASE u # t
      BY <1>1, <1>2, <1>4, <2>1, <3>2, <3>4 DEF Holding
    <3> QED
      BY <3>3, <3>4
  <2> QED
    BY <2>1 DEF Holding
<1> QED
  BY <1>1, <1>2, <1>5, SameLookups DEF Stays

(* The stores of one thread in the heap are not of the nodes of another.   *)
LEMMA UpdateMaps ==
  ASSUME IInv, Holding, NEW t \in Threads, update(t)
  PROVE  Holding' /\ Adds(t)
<1> DEFINE key == Key(t)
<1>1. /\ pc[t] = "update" /\ pc' = [pc EXCEPT ![t] = "unlock"]
      /\ heap' = [heap EXCEPT ![found[t]].value = Node(t)]
      /\ UNCHANGED <<table, main, list_head, at, found>>
  BY DEF update, Goes
<1>2. /\ at[t] < SIZE
      /\ pc'[t] = "unlock" /\ \A u \in Threads \ {t} : pc'[u] = pc[u]
      /\ \A u \in Threads : Node(u)' = Node(u) /\ Key(u)' = Key(u)
      /\ key = Work[t][at[t] + 1] /\ Node(t) = t * SIZE + at[t]
      /\ \A u \in Threads \ {t} : AddedBy(u)' = AddedBy(u)
      /\ AddedBy(t) = at[t] /\ AddedBy(t)' = at[t] + 1
  BY <1>1, ThreadMoves DEF AddSteps
<1>3. key \in Keys /\ Node(t) \in Nodes
  BY <1>2, EntryTyped DEF IInv
<1>4. found[t] = get_list_entry(key) /\ found[t] # NULL
  BY <1>1 DEF IInv, Locals, Holding
<1> HIDE DEF key
<1>5. \A k \in Keys : /\ get_list_entry(k)' = get_list_entry(k)
                      /\ k # key => Value(k)' = Value(k)
                      /\ k = key => Value(k)' = Node(t)
  <2>1. /\ get_list_entry(key) # NULL
        /\ heap' = [heap EXCEPT ![get_list_entry(key)].value = Node(t)]
    BY <1>1, <1>4
  <2> QED
    BY <1>1, <1>3, <2>1, StoreLookups
<1>6. Adds(t)
  BY <1>2, <1>5 DEF Adds
<1>7. Holding'
  <2> SUFFICES ASSUME NEW u \in Threads, pc'[u] \in {"update", "publish"}
               PROVE  /\ pc'[u] = "update" => found'[u] = get_list_entry(Key(u))'
                      /\ pc'[u] = "publish" => heap'[Node(u)'].value = Node(u)'
    BY DEF Holding
  <2>1. u # t /\ pc[u] = pc'[u]
    BY <1>2
  <2>2. Key(u) \in Keys
    BY <2>1, EntryTyped DEF IInv, Locals, AddSteps
  <2>3. get_list_entry(Key(u))' = get_list_entry(Key(u))
    BY <1>2, <1>5, <2>2, ThreadEntry
  <2>4. CASE pc'[u] = "update"
    BY <1>1, <2>1, <2>3, <2>4 DEF Holding
  <2>5. CASE pc'[u] = "publish"
    <3>1. Node(u) \in DOMAIN heap /\ heap[Node(u)].key = Key(u)
      BY <2>1, <2>5 DEF IInv, Locals, Lists, Key
    <3>2. found[t] \in DOMAIN heap /\ heap[found[t]].key = key
      BY <1>3, <1>4, EntryNode
    <3>3. Key(u) # key
      BY <1>1, <2>1, <2>5, Apart DEF Inside, key
    <3>4. heap'[Node(u)] = heap[Node(u)]
      BY <1>1, <3>1, <3>2, <3>3
    <3> QED
      BY <1>2, <2>1, <2>5, <3>4 DEF Holding
  <2> QED
    BY <2>4, <2>5
<1> QED
  BY <1>6, <1>7

LEMMA LinkMaps ==
  ASSUME IInv, Holding, NEW t \in Threads, link(t)
  PROVE  Holding' /\ Stays
<1> DEFINE n == Node(t)
<1>1. /\ pc[t] = "link" /\ pc' = [pc EXCEPT ![t] = "publish"]
      /\ heap' = WithNode(n, list_head[BucketOf(Key(t))])
      /\ UNCHANGED <<table, main, list_head, at, found>>
  BY DEF link, Goes
<1>2. /\ at[t] < SIZE
      /\ pc'[t] = "publish" /\ \A u \in Threads \ {t} : pc'[u] = pc[u]
      /\ \A u \in Threads : Node(u)' = Node(u) /\ Key(u)' = Key(u)
      /\ \A u \in Threads : AddedBy(u)' = AddedBy(u)
  BY <1>1, ThreadMoves DEF AddSteps
<1>3. n \in Nodes /\ ~Present(get_string(n))
  BY <1>1, <1>2, EntryTyped DEF IInv, Lists, Key
<1> HIDE DEF n
<1>4. heap'[n].value = n /\ \A m \in DOMAIN heap \ {n} : heap'[m] = heap[m]
  BY <1>1 DEF WithNode
<1>5. \A k \in Keys : get_list_entry(k)' = get_list_entry(k) /\ Value(k)' = Value(k)
  BY <1>1, <1>3, <1>4, NodeLookups, Lookups
<1>6. Holding'
  <2> SUFFICES ASSUME NEW u \in Threads, pc'[u] \in {"update", "publish"}
               PROVE  /\ pc'[u] = "update" => found'[u] = get_list_entry(Key(u))'
                      /\ pc'[u] = "publish" => heap'[Node(u)'].value = Node(u)'
    BY DEF Holding
  <2>1. CASE u = t
    BY <1>2, <1>4, <2>1 DEF n
  <2>2. CASE u # t
    <3>1. pc[u] = pc'[u] /\ Key(u) \in Keys
      BY <1>2, <2>2, EntryTyped DEF IInv, Locals, AddSteps
    <3>2. CASE pc[u] = "update"
      <4>1. get_list_entry(Key(u))' = get_list_entry(Key(u))
        BY <1>2, <1>5, <3>1, ThreadEntry
      <4> QED
        BY <1>1, <3>1, <3>2, <4>1 DEF Holding
    <3>3. CASE pc[u] = "publish"
      <4>1. Node(u) # n
        BY <1>1, <2>2, <3>3, Apart DEF Inside, n
      <4>2. Node(u) \in DOMAIN heap
        BY <3>3 DEF IInv, Locals
      <4> QED
        BY <1>2, <1>4, <3>1, <3>3, <4>1, <4>2 DEF Holding
    <3> QED
      BY <3>1, <3>2, <3>3
  <2> QED
    BY <2>1, <2>2
<1> QED
  BY <1>2, <1>5, <1>6 DEF Stays

LEMMA PublishMaps ==
  ASSUME IInv, IInv', Holding, NEW t \in Threads, publish(t)
  PROVE  Holding' /\ Adds(t)
<1> DEFINE n == Node(t)
<1>1. /\ pc[t] = "publish" /\ pc' = [pc EXCEPT ![t] = "unlock"]
      /\ list_head' = [list_head EXCEPT ![BucketOf(Key(t))] = <<n>> \o heap[n].next]
      /\ UNCHANGED <<table, main, heap, at, found>>
  BY DEF publish, Goes
<1>2. /\ at[t] < SIZE
      /\ pc'[t] = "unlock" /\ \A u \in Threads \ {t} : pc'[u] = pc[u]
      /\ \A u \in Threads : Node(u)' = Node(u) /\ Key(u)' = Key(u)
      /\ Key(t) = Work[t][at[t] + 1] /\ n = t * SIZE + at[t]
      /\ \A u \in Threads \ {t} : AddedBy(u)' = AddedBy(u)
      /\ AddedBy(t) = at[t] /\ AddedBy(t)' = at[t] + 1
  BY <1>1, ThreadMoves DEF AddSteps
<1>3. /\ n \in Nodes /\ ~Present(get_string(n)) /\ Key(t) = get_string(n)
      /\ n \in DOMAIN heap /\ heap[n].key = get_string(n) /\ heap[n].value = n
      /\ heap[n].next = list_head[BucketOf(get_string(n))]
  BY <1>1, <1>2, EntryTyped DEF IInv, Locals, Lists, Key, Holding
<1> HIDE DEF n
<1>4. \A k \in Keys : /\ k # get_string(n) =>
                           get_list_entry(k)' = get_list_entry(k) /\ Value(k)' = Value(k)
                      /\ k = get_string(n) => Value(k)' = n
  <2>1. /\ list_head' = [list_head EXCEPT ![BucketOf(get_string(n))] =
                           <<n>> \o list_head[BucketOf(get_string(n))]]
        /\ \A m \in DOMAIN heap \ {n} : heap'[m] = heap[m]
        /\ heap'[n].key = get_string(n) /\ heap'[n].value = n
    BY <1>1, <1>3
  <2> QED
    BY <1>3, <2>1, InsertLookups
<1>5. Adds(t)
  BY <1>2, <1>3, <1>4 DEF Adds
<1>6. Holding'
  <2> SUFFICES ASSUME NEW u \in Threads, pc'[u] \in {"update", "publish"}
               PROVE  /\ pc'[u] = "update" => found'[u] = get_list_entry(Key(u))'
                      /\ pc'[u] = "publish" => heap'[Node(u)'].value = Node(u)'
    BY DEF Holding
  <2>1. u # t /\ pc[u] = pc'[u]
    BY <1>2
  <2>2. CASE pc'[u] = "update"
    <3>1. PICK k \in Keys : k = Key(u)
      BY <2>1, EntryTyped DEF IInv, Locals, AddSteps
    <3>2. k # get_string(n)
      BY <1>1, <1>3, <2>1, <2>2, <3>1, Apart DEF Inside
    <3>3. get_list_entry(k)' = get_list_entry(k)
      BY <1>4, <3>2
    <3>4. get_list_entry(k)' = EntryIn(list_head'[BucketOf(k)], heap', k)
      BY Lookups
    <3>5. get_list_entry(Key(u))' = EntryIn(list_head'[BucketOf(Key(u)')], heap', Key(u)')
      BY DEF get_list_entry, EntryIn, BucketOf
    <3>6. get_list_entry(Key(u))' = get_list_entry(Key(u))
      BY <1>2, <3>1, <3>3, <3>4, <3>5
    <3> QED
      BY <1>1, <2>1, <2>2, <3>6 DEF Holding
  <2>3. CASE pc'[u] = "publish"
    BY <1>1, <1>2, <2>1, <2>3 DEF Holding
  <2> QED
    BY <2>2, <2>3
<1> QED
  BY <1>5, <1>6

LEMMA UnlockMaps ==
  ASSUME IInv, Holding, NEW t \in Threads, unlock(t)
  PROVE  Holding' /\ Stays
<1> DEFINE to == IF at[t] + 1 < SIZE THEN "lock" ELSE "ended"
<1>1. /\ pc[t] = "unlock" /\ pc' = [pc EXCEPT ![t] = to]
      /\ at' = [at EXCEPT ![t] = at[t] + 1]
      /\ UNCHANGED <<table, main, heap, list_head, found>>
  BY DEF unlock, Goes
<1>2. /\ pc'[t] = to /\ at'[t] = at[t] + 1
      /\ \A u \in Threads \ {t} : pc'[u] = pc[u] /\ at'[u] = at[u]
  BY <1>1 DEF IInv, TypeOK
<1>3. table # "base"
  BY <1>1 DEF IInv, Phases, Idle
<1>4. \A u \in Threads : AddedBy(u)' = AddedBy(u)
  <2> SUFFICES ASSUME NEW u \in Threads
               PROVE  AddedBy(u)' = AddedBy(u)
    OBVIOUS
  <2>1. CASE u = t
    BY <1>1, <1>2, <1>3, <2>1 DEF AddedBy
  <2>2. CASE u # t
    BY <1>1, <1>2, <1>3, <2>2 DEF AddedBy
  <2> QED
    BY <2>1, <2>2
<1>5. Holding'
  BY <1>1, <1>2, QuietHolding
<1> QED
  BY <1>1, <1>4, <1>5, SameLookups DEF Stays

-----------------------------------------------------------------------------
(* The steps of main *)

(* While no thread is inside, nothing is held.                             *)
LEMMA NothingHeld ==
  ASSUME \A t \in Threads : pc[t] \in {"unborn", "ended"}
  PROVE  Holding
BY DEF Holding

(* A step of main that does not change the table.                          *)
LEMMA MainMaps ==
  ASSUME IInv, Holding,
         pthread_create \/ pthread_create_fails \/ pthread_join \/ count_missing
  PROVE  Holding' /\ Stays
<1>1. /\ main.loop # "add" /\ UNCHANGED <<table, heap, list_head, at, found>>
      /\ \/ UNCHANGED pc
         \/ table # "base" /\ main.i \in Threads /\ pc[main.i] = "unborn"
            /\ pc' = [pc EXCEPT ![main.i] = "lock"]
  <2>1. CASE pthread_create
    <3>1. /\ main.loop = "create" /\ pc' = [pc EXCEPT ![main.i] = "lock"]
          /\ UNCHANGED <<table, heap, list_head, at, found>>
      BY <2>1 DEF pthread_create, In
    <3>2. main.i \in Threads /\ main.i >= main.i /\ table # "base"
      BY <3>1 DEF IInv, Phases, Threads
    <3>3. pc[main.i] = "unborn"
      BY <3>1, <3>2 DEF IInv, Phases
    <3> QED
      BY <3>1, <3>2, <3>3
  <2>2. CASE pthread_create_fails \/ pthread_join \/ count_missing
    BY <2>2 DEF pthread_create_fails, pthread_join, count_missing, In
  <2> QED
    BY <2>1, <2>2
<1>2. \A u \in Threads : pc'[u] = pc[u] \/ (pc[u] = "unborn" /\ pc'[u] = "lock")
  <2> TAKE u \in Threads
  <2>1. CASE UNCHANGED pc
    BY <2>1
  <2>2. CASE ~UNCHANGED pc
    BY <1>1, <2>2 DEF IInv, TypeOK
  <2> QED
    BY <2>1, <2>2
<1>3. table = "base" => main.loop # "add" /\ main'.loop # "add"
  <2>1. CASE count_missing
    BY <1>1, <2>1, LoopBounds DEF count_missing, Steps, IInv, TypeOK
  <2>2. CASE ~count_missing
    BY <2>2 DEF pthread_create, pthread_create_fails, pthread_join, In, IInv, Phases
  <2> QED
    BY <2>1, <2>2
<1>4. \A u \in Threads : AddedBy(u)' = AddedBy(u)
  BY <1>1, <1>2, <1>3 DEF AddedBy
<1>5. Holding'
  BY <1>1, <1>2, QuietHolding
<1> QED
  BY <1>1, <1>4, <1>5, SameLookups DEF Stays

LEMMA BaseMaps ==
  ASSUME IInv, IInv', base_add_entry
  PROVE  Holding' /\ \E t \in Threads : Adds(t)
<1> DEFINE n == main.i
           key == get_string(n)
<1>1. /\ main.loop = "add" /\ Steps(Total, "missing")
      /\ UNCHANGED <<table, pc, at, found>>
      /\ IF get_list_entry(key) # NULL
         THEN /\ heap' = [heap EXCEPT ![get_list_entry(key)].value = n]
              /\ UNCHANGED list_head
         ELSE /\ heap' = WithNode(n, list_head[BucketOf(key)])
              /\ list_head' = [list_head EXCEPT
                                 ![BucketOf(key)] = <<n>> \o list_head[BucketOf(key)]]
  BY DEF base_add_entry, In
<1>2. table = "base" /\ Idle
  BY <1>1 DEF IInv, TypeOK, Phases
<1>3. n \in Nodes /\ key \in Keys
  BY LoopBounds, StringIsKey DEF IInv, TypeOK
<1>4. \/ n + 1 < Total /\ main'.loop = "add" /\ main'.i = n + 1
      \/ n + 1 = Total /\ main'.loop = "missing" /\ main'.i = 0
  <2>1. Total \in 1..Total /\ main.i < Total
    BY <1>3, LoopBounds
  <2> QED
    BY <1>1, <2>1, Counted DEF IInv
<1>5. PICK t \in Threads, j \in 0..(SIZE - 1) : n = get_global_index(t, j)
  BY <1>3, NodeIsIndex
<1> HIDE DEF n, key
<1>6. \A k \in Keys : /\ k # key => Value(k)' = Value(k)
                      /\ k = key => Value(k)' = n
  <2>1. CASE get_list_entry(key) # NULL
    BY <1>1, <1>3, <2>1, StoreLookups
  <2>2. CASE get_list_entry(key) = NULL
    <3>1. /\ heap' = WithNode(n, list_head[BucketOf(key)])
          /\ list_head' = [list_head EXCEPT
                             ![BucketOf(get_string(n))] =
                               <<n>> \o list_head[BucketOf(get_string(n))]]
      BY <1>1, <2>2 DEF key
    <3>2. ~Present(get_string(n))
      BY <1>3, <2>2, EntryFound DEF key
    <3>3. /\ \A m \in DOMAIN heap \ {n} : heap'[m] = heap[m]
          /\ heap'[n].key = get_string(n) /\ heap'[n].value = n
      BY <3>1 DEF WithNode
    <3>4. \A k \in Keys : /\ k # get_string(n) => Value(k)' = Value(k)
                          /\ k = get_string(n) => Value(k)' = n
      BY <1>3, <3>1, <3>2, <3>3, InsertLookups
    <3> QED
      BY <3>4 DEF key
  <2> QED
    BY <2>1, <2>2
<1>7. \A u \in Threads : AddedBy(u) = Below(u, n) /\ AddedBy(u)' = Below(u, n + 1)
  <2> TAKE u \in Threads
  <2>1. AddedBy(u) = Below(u, n)
    BY <1>1, <1>2 DEF AddedBy, Below, n
  <2>2. CASE main'.loop = "add"
    BY <1>1, <1>2, <1>4, <2>1, <2>2 DEF AddedBy, Below
  <2>3. CASE main'.loop # "add"
    <3>1. Below(u, n + 1) = SIZE
      BY <1>4, <2>3, BelowEnds
    <3> QED
      BY <1>1, <1>2, <2>1, <2>3, <3>1 DEF AddedBy
  <2> QED
    BY <2>2, <2>3
<1>8. Adds(t)
  <2>1. AddedBy(t) = j /\ j < SIZE
    BY <1>5, <1>7, BelowStep, LoopBounds
  <2>2. \A u \in Threads : AddedBy(u)' = IF u = t THEN j + 1 ELSE AddedBy(u)
    BY <1>5, <1>7, BelowStep
  <2>3. key = Work[t][j + 1] /\ n = t * SIZE + j
    BY <1>5, KeyOfEntry DEF key, get_global_index
  <2> QED
    BY <1>6, <2>1, <2>2, <2>3 DEF Adds
<1>9. Holding'
  <2>1. \A u \in Threads : pc'[u] = "unborn"
    BY <1>1, <1>2 DEF Idle
  <2> QED
    BY <2>1 DEF Holding
<1> QED
  BY <1>8, <1>9

FreshMapped ==
  /\ Holding
  /\ \A k \in Keys : Value(k) = NULL
  /\ \A t \in Threads : AddedBy(t) = 0

(* A new table maps to an empty map.                                       *)
LEMMA FreshIsMapped == ConstantsAssumption /\ Fresh => FreshMapped
<1> SUFFICES ASSUME Fresh
             PROVE  FreshMapped
  OBVIOUS
<1>1. \A t \in Threads : pc[t] = "unborn" /\ at[t] = 0
  BY DEF Fresh
<1>2. Holding
  BY <1>1 DEF Holding
<1>3. ASSUME NEW k \in Keys
      PROVE  Value(k) = NULL
  <2>1. list_head[BucketOf(k)] = <<>>
    BY BucketInRange DEF Fresh
  <2>2. EntryIn(list_head[BucketOf(k)], heap, k) = NULL
    BY <2>1, EntryAbsent
  <2> QED
    BY <2>2, Lookups DEF ValueIn
<1>4. ASSUME NEW t \in Threads
      PROVE  AddedBy(t) = 0
  <2>1. CASE table = "base"
    <3>1. main.loop = "add" /\ main.i = 0
      BY <2>1 DEF Fresh
    <3>2. AddedBy(t) = Below(t, 0)
      BY <2>1, <3>1 DEF AddedBy, Below
    <3> QED
      BY <3>2, BelowEnds
  <2>2. CASE table # "base"
    BY <1>1, <2>2 DEF AddedBy
  <2> QED
    BY <2>1, <2>2
<1> QED
  BY <1>2, <1>3, <1>4 DEF FreshMapped

LEMMA DestroyMaps ==
  ASSUME IInv, destroy
  PROVE  Holding' /\ Renews
<1>1. /\ main.loop = "destroy"
      /\ table' = CASE table = "base" -> "v1" [] table = "v1" -> "v2" [] OTHER -> "none"
      /\ main' = [loop |-> IF table = "v2" THEN "exited" ELSE "create", i |-> 0]
      /\ missing' = 0 /\ heap' = [n \in {} |-> NULL]
      /\ list_head' = [b \in Buckets |-> <<>>] /\ mutex' = [b \in Buckets |-> NONE]
      /\ pc' = [t \in Threads |-> "unborn"] /\ at' = [t \in Threads |-> 0]
      /\ found' = [t \in Threads |-> NULL]
  BY DEF destroy, In
<1>2. table \in {"base", "v1", "v2"}
  BY <1>1 DEF IInv, TypeOK, Phases
<1>3. \/ table' \in {"v1", "v2"} /\ main' = [loop |-> "create", i |-> 0]
      \/ table' = "none" /\ main' = [loop |-> "exited", i |-> 0]
  BY <1>1, <1>2
<1>4. main'.i = 0
  BY <1>1
<1>5. Fresh'
  BY <1>1, <1>3, <1>4 DEF Fresh
<1>6. FreshMapped'
  BY <1>5, FreshIsMapped, ConstantsAssumption, PTL
<1>7. \A t \in Threads : AddedBy(t) = SIZE
  BY <1>1 DEF AddedBy, IInv, Phases, Locals
<1> QED
  BY <1>6, <1>7 DEF FreshMapped, Renews

-----------------------------------------------------------------------------
(* The refinement *)

LEMMA InitMaps == Init => Holding /\ Map!Init
<1> SUFFICES ASSUME Init
             PROVE  Holding /\ Map!Init
  OBVIOUS
<1>1. Fresh
  BY DEF Init, Fresh
<1>2. FreshMapped
  BY <1>1, FreshIsMapped, ConstantsAssumption
<1> QED
  BY <1>2 DEF FreshMapped, Value, Map!Init

LEMMA NextMaps ==
  IInv /\ IInv' /\ Holding /\ [Next]_vars => Holding' /\ [Map!Next]_(Map!vars)
<1> SUFFICES ASSUME IInv, IInv', Holding, [Next]_vars
             PROVE  Holding' /\ (Stays \/ Renews \/ \E t \in Threads : Adds(t))
  BY MapStep
<1>1. CASE \E t \in Threads : add_entry(t)
  <2>1. PICK t \in Threads : add_entry(t)
    BY <1>1
  <2>2. CASE lock(t)
    BY <2>2, LockMaps
  <2>3. CASE search(t)
    BY <2>3, SearchMaps
  <2>4. CASE update(t)
    BY <2>4, UpdateMaps
  <2>5. CASE link(t)
    BY <2>5, LinkMaps
  <2>6. CASE publish(t)
    BY <2>6, PublishMaps
  <2>7. CASE unlock(t)
    BY <2>7, UnlockMaps
  <2> QED
    BY <2>1, <2>2, <2>3, <2>4, <2>5, <2>6, <2>7 DEF add_entry
<1>2. CASE base_add_entry
  BY <1>2, BaseMaps
<1>3. CASE pthread_create \/ pthread_create_fails \/ pthread_join \/ count_missing
  BY <1>3, MainMaps
<1>4. CASE destroy
  BY <1>4, DestroyMaps
<1>5. CASE Exited \/ UNCHANGED vars
  <2>1. UNCHANGED vars
    BY <1>5 DEF Exited
  <2>2. UNCHANGED <<heap, list_head, pc, at, found, table, main>>
    BY <2>1 DEF vars
  <2>3. \A u \in Threads : AddedBy(u)' = AddedBy(u)
    BY <2>2 DEF AddedBy
  <2> QED
    BY <2>2, <2>3, QuietHolding, SameLookups DEF Stays
<1> QED
  BY <1>1, <1>2, <1>3, <1>4, <1>5 DEF Next, main_steps

(* However the threads interleave, and whichever strings share a bucket or  *)
(* a key, the tables behave as a map into which every addition goes at one  *)
(* instant: at its store of the value, or of the head of the list.          *)
THEOREM TablesImplementMap == Spec => ImplementsMap
<1>1. Init => IInv /\ Holding /\ Map!Init
  BY InitInv, InitMaps
<1>2. IInv /\ Holding /\ [Next]_vars => IInv' /\ Holding' /\ [Map!Next]_(Map!vars)
  BY NextInv, NextMaps
<1> QED
  BY <1>1, <1>2, PTL DEF Spec, ImplementsMap, Map!Spec
=============================================================================
