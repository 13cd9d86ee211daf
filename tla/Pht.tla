--------------------------------- MODULE Pht ---------------------------------
(***************************************************************************)
(* The hash tables of pht/src and the tester that fills them.  pht-tester  *)
(* fills three tables in turn: hash_table_base by itself, then             *)
(* hash_table_v1 and hash_table_v2 with THREADS threads, each adding SIZE   *)
(* entries of its own.  v1 has one mutex, v2 one per bucket.  The lookups   *)
(* take no mutex; the tester calls them when the threads have ended.        *)
(*                                                                         *)
(* A step of a thread ends where another thread could see a difference:    *)
(* at a mutex call, and in add_entry after the search, the node's link and *)
(* the store to the head of the list.  The node that an addition allocates *)
(* is named by its global index, which is also the value it stores.  The   *)
(* next pointer of a node is never changed once the node is in a list, so  *)
(* a pointer to a node stands for the sequence of nodes it leads to.       *)
(* Sizes are far below the 2^32 of get_global_index.                       *)
(***************************************************************************)
EXTENDS Integers, Sequences, FiniteSets

CONSTANTS
  THREADS, SIZE,         \* arguments.threads, arguments.size
  Keys,                  \* the strings
  Work,                  \* thread -> the strings it adds
  HASH_TABLE_CAPACITY,
  bernstein_hash         \* key -> its hash

Threads == 0..(THREADS - 1)
Buckets == 0..(HASH_TABLE_CAPACITY - 1)
Nodes == 0..(THREADS * SIZE - 1)

ASSUME ConstantsAssumption ==
  /\ THREADS \in Nat \ {0}
  /\ SIZE \in Nat \ {0}
  /\ HASH_TABLE_CAPACITY \in Nat \ {0}
  /\ Work \in [Threads -> [1..SIZE -> Keys]]
  /\ bernstein_hash \in [Keys -> Nat]

VARIABLES
  table,     \* the table being filled
  main,      \* the loop of main, and its counter
  missing,   \* what main counted
  heap,      \* node -> its list_entry, for the allocated ones
  list_head, \* bucket -> the list of its nodes
  mutex,     \* bucket -> the thread that holds its mutex
  pc,        \* thread -> the next step of its add_entry
  at,        \* thread -> j of run_v1 and run_v2
  found      \* thread -> the local variable list_entry

vars == <<table, main, missing, heap, list_head, mutex, pc, at, found>>

NULL == -1
NONE == -1

Init ==
  /\ table = "base"
  /\ main = [loop |-> "add", i |-> 0]
  /\ missing = 0
  /\ heap = [n \in {} |-> NULL]
  /\ list_head = [b \in Buckets |-> <<>>]
  /\ mutex = [b \in Buckets |-> NONE]
  /\ pc = [t \in Threads |-> "unborn"]
  /\ at = [t \in Threads |-> 0]
  /\ found = [t \in Threads |-> NULL]

-----------------------------------------------------------------------------
(* The table *)

get_global_index(t, j) == t * SIZE + j
get_string(n) == Work[n \div SIZE][(n % SIZE) + 1]
BucketOf(key) == bernstein_hash[key] % HASH_TABLE_CAPACITY

(* The first node of the key's list that has the key. *)
get_list_entry(key) ==
  LET list == list_head[BucketOf(key)]
      same == {i \in 1..Len(list) : heap[list[i]].key = key}
  IN IF same = {} THEN NULL
     ELSE list[CHOOSE i \in same : \A k \in same : i <= k]

contains(key) == get_list_entry(key) # NULL

(* The value of a key that the table contains. *)
get_value(key) == heap[get_list_entry(key)].value

(* calloc, and the node's key, value and next. *)
WithNode(n, next) ==
  [m \in DOMAIN heap \cup {n} |->
     IF m = n THEN [key |-> get_string(n), value |-> n, next |-> next]
              ELSE heap[m]]

-----------------------------------------------------------------------------
(* add_entry of v1 and v2: thread t adds its entry at[t] *)

Node(t) == get_global_index(t, at[t])
Key(t) == get_string(Node(t))

(* A bug: the mutexes are spread over the keys by another hash. *)
MutexOfSpread(key) ==
  (bernstein_hash[key] \div HASH_TABLE_CAPACITY) % HASH_TABLE_CAPACITY

(* The mutex of v1 is kept as that of bucket 0. *)
MutexOf(key) == IF table = "v1" THEN 0 ELSE BucketOf(key)

Goes(t, from, to) == pc[t] = from /\ pc' = [pc EXCEPT ![t] = to]

(* A bug: pthread_mutex_trylock, its result ignored. *)
trylock(t) ==
  /\ Goes(t, "lock", "search")
  /\ mutex' = [mutex EXCEPT ![MutexOf(Key(t))] = t]
  /\ UNCHANGED <<table, main, missing, heap, list_head, at, found>>

lock(t) ==
  /\ Goes(t, "lock", "search")
  /\ mutex[MutexOf(Key(t))] = NONE
  /\ mutex' = [mutex EXCEPT ![MutexOf(Key(t))] = t]
  /\ UNCHANGED <<table, main, missing, heap, list_head, at, found>>

search(t) ==
  /\ Goes(t, "search", IF get_list_entry(Key(t)) = NULL THEN "link" ELSE "update")
  /\ found' = [found EXCEPT ![t] = get_list_entry(Key(t))]
  /\ UNCHANGED <<table, main, missing, heap, list_head, mutex, at>>

(* Bugs: add_entry leaves the old value; it returns from the update with   *)
(* the mutex locked.                                                       *)
update_nothing(t) ==
  /\ Goes(t, "update", "unlock")
  /\ UNCHANGED <<table, main, missing, heap, list_head, mutex, at, found>>
update_locked(t) ==
  /\ Goes(t, "update", IF at[t] + 1 < SIZE THEN "lock" ELSE "ended")
  /\ heap' = [heap EXCEPT ![found[t]].value = Node(t)]
  /\ at' = [at EXCEPT ![t] = at[t] + 1]
  /\ UNCHANGED <<table, main, missing, list_head, mutex, found>>

update(t) ==
  /\ Goes(t, "update", "unlock")
  /\ heap' = [heap EXCEPT ![found[t]].value = Node(t)]
  /\ UNCHANGED <<table, main, missing, list_head, mutex, at, found>>

(* calloc, and the first half of SLIST_INSERT_HEAD. *)
link(t) ==
  /\ Goes(t, "link", "publish")
  /\ heap' = WithNode(Node(t), list_head[BucketOf(Key(t))])
  /\ UNCHANGED <<table, main, missing, list_head, mutex, at, found>>

(* A bug: the list that was there is dropped. *)
publish_alone(t) ==
  /\ Goes(t, "publish", "unlock")
  /\ list_head' = [list_head EXCEPT ![BucketOf(Key(t))] = <<Node(t)>>]
  /\ UNCHANGED <<table, main, missing, heap, mutex, at, found>>

publish(t) ==
  /\ Goes(t, "publish", "unlock")
  /\ list_head' = [list_head EXCEPT
                     ![BucketOf(Key(t))] = <<Node(t)>> \o heap[Node(t)].next]
  /\ UNCHANGED <<table, main, missing, heap, mutex, at, found>>

(* The end of add_entry, and of the loop of run_v1 and run_v2. *)
unlock(t) ==
  /\ Goes(t, "unlock", IF at[t] + 1 < SIZE THEN "lock" ELSE "ended")
  /\ mutex' = [mutex EXCEPT ![MutexOf(Key(t))] = NONE]
  /\ at' = [at EXCEPT ![t] = at[t] + 1]
  /\ UNCHANGED <<table, main, missing, heap, list_head, found>>

In(loop) == main.loop = loop

(* Threads run until the process exits. *)
add_entry(t) ==
  /\ ~In("failed")
  /\ \/ lock(t)
     \/ search(t)
     \/ update(t)
     \/ link(t)
     \/ publish(t)
     \/ unlock(t)

-----------------------------------------------------------------------------
(* main *)

Total == THREADS * SIZE

(* A bug: the loop runs once too often. *)
StepsPast(bound, next) ==
  main' = IF main.i < bound THEN [main EXCEPT !.i = main.i + 1]
                            ELSE [loop |-> next, i |-> 0]

(* The next value of main when its loop runs to bound, and next follows. *)
Steps(bound, next) ==
  main' = IF main.i + 1 < bound THEN [main EXCEPT !.i = main.i + 1]
                                ELSE [loop |-> next, i |-> 0]

(* hash_table_base_add_entry: no other thread exists. *)
base_add_entry ==
  LET n == main.i
      e == get_list_entry(get_string(n))
      b == BucketOf(get_string(n))
  IN /\ In("add")
     /\ Steps(Total, "missing")
     /\ IF e # NULL
        THEN /\ heap' = [heap EXCEPT ![e].value = n]
             /\ UNCHANGED list_head
        ELSE /\ heap' = WithNode(n, list_head[b])
             /\ list_head' = [list_head EXCEPT ![b] = <<n>> \o list_head[b]]
     /\ UNCHANGED <<table, missing, mutex, pc, at, found>>

pthread_create ==
  /\ In("create")
  /\ Steps(THREADS, "join")
  /\ pc' = [pc EXCEPT ![main.i] = "lock"]
  /\ UNCHANGED <<table, missing, heap, list_head, mutex, at, found>>

(* The system has no thread left: main returns, while the threads created  *)
(* so far are anywhere in the table.                                       *)
pthread_create_fails ==
  /\ In("create")
  /\ main' = [loop |-> "failed", i |-> 0]
  /\ UNCHANGED <<table, missing, heap, list_head, mutex, pc, at, found>>

(* A bug: main counts before the threads have ended. *)
pthread_join_none ==
  /\ In("join")
  /\ Steps(THREADS, "missing")
  /\ UNCHANGED <<table, missing, heap, list_head, mutex, pc, at, found>>

pthread_join ==
  /\ In("join")
  /\ pc[main.i] = "ended"
  /\ Steps(THREADS, "missing")
  /\ UNCHANGED <<table, missing, heap, list_head, mutex, pc, at, found>>

count_missing ==
  /\ In("missing")
  /\ Steps(Total, "destroy")
  /\ missing' = IF contains(get_string(main.i)) THEN missing ELSE missing + 1
  /\ UNCHANGED <<table, heap, list_head, mutex, pc, at, found>>

(* destroy frees the nodes, and main creates the next table. *)
destroy ==
  /\ In("destroy")
  /\ table' = CASE table = "base" -> "v1"
               [] table = "v1" -> "v2"
               [] OTHER -> "none"
  /\ main' = [loop |-> IF table = "v2" THEN "exited" ELSE "create", i |-> 0]
  /\ missing' = 0
  /\ heap' = [n \in {} |-> NULL]
  /\ list_head' = [b \in Buckets |-> <<>>]
  /\ mutex' = [b \in Buckets |-> NONE]
  /\ pc' = [t \in Threads |-> "unborn"]
  /\ at' = [t \in Threads |-> 0]
  /\ found' = [t \in Threads |-> NULL]

main_steps ==
  \/ base_add_entry
  \/ pthread_create
  \/ pthread_join
  \/ count_missing
  \/ destroy

Exited == main.loop \in {"exited", "failed"} /\ UNCHANGED vars

Next ==
  \/ main_steps
  \/ pthread_create_fails
  \/ \E t \in Threads : add_entry(t)
  \/ Exited

Spec == Init /\ [][Next]_vars

(* The kernel runs every thread, and a mutex that is free is in the end    *)
(* taken: a thread waits for finitely many additions of the others.  No     *)
(* call has to fail.                                                       *)
Fairness ==
  /\ WF_vars(main_steps)
  /\ \A t \in Threads : WF_vars(add_entry(t))

FairSpec == Spec /\ Fairness

-----------------------------------------------------------------------------
(* Properties *)

AddSteps == {"lock", "search", "update", "link", "publish", "unlock"}

TypeOK ==
  /\ table \in {"base", "v1", "v2", "none"}
  /\ main \in [loop : {"add", "create", "join", "missing", "destroy", "exited", "failed"},
                i : 0..(Total - 1)]
  /\ missing \in 0..Total
  /\ DOMAIN heap \subseteq Nodes
  /\ heap \in [DOMAIN heap -> [key : Keys, value : Nodes, next : Seq(DOMAIN heap)]]
  /\ list_head \in [Buckets -> Seq(DOMAIN heap)]
  /\ mutex \in [Buckets -> Threads \cup {NONE}]
  /\ pc \in [Threads -> AddSteps \cup {"unborn", "ended"}]
  /\ at \in [Threads -> 0..SIZE]
  /\ found \in [Threads -> DOMAIN heap \cup {NULL}]

Inside(t) == pc[t] \in {"search", "update", "link", "publish", "unlock"}

(* Two threads in add_entry at once work on lists of different buckets,    *)
(* and so on different nodes, in v1 as in v2.                              *)
MutualExclusion ==
  \A t, u \in Threads :
    t # u /\ Inside(t) /\ Inside(u) => BucketOf(Key(t)) # BucketOf(Key(u))

(* "The key should only be in the hash table exactly one time"             *)
(* (hash-table-base.c:98), and in the bucket where the lookups search it,  *)
(* however the searches and insertions of the threads interleave.          *)
KeyOnce ==
  \A b \in Buckets :
    LET list == list_head[b]
    IN \A i, k \in 1..Len(list) :
         /\ BucketOf(heap[list[i]].key) = b
         /\ heap[list[i]].key = heap[list[k]].key => i = k

(* What the tester measures: no string that was added is missing, neither  *)
(* before the count nor in it; an insertion is never overwritten by another *)
(* one that read the same head.                                            *)
NothingMissing ==
  /\ missing = 0
  /\ \A t \in Threads : \A j \in 0..(SIZE - 1) :
       j < at[t] => contains(get_string(get_global_index(t, j)))

(* destroy finds every mutex free and no thread inside the table.          *)
DestroyedUnused ==
  main.loop \in {"missing", "destroy"} =>
    \A b \in Buckets, t \in Threads : mutex[b] = NONE /\ ~Inside(t)

(* Additions in effect: those completed, and the one whose node is already *)
(* written or in the list.                                                 *)
AddedBy(t) ==
  IF table = "base"
  THEN IF main.loop # "add" \/ main.i >= (t + 1) * SIZE THEN SIZE
       ELSE IF main.i >= t * SIZE THEN main.i - t * SIZE ELSE 0
  ELSE IF pc[t] = "unlock" THEN at[t] + 1 ELSE at[t]

Map == INSTANCE KeyValueMap WITH
  Size <- SIZE, NoValue <- NULL,
  map <- [k \in Keys |->
            IF contains(k) THEN get_value(k) ELSE NULL],
  added <- [t \in Threads |-> AddedBy(t)]

(* Both locked tables, filled by all the threads, and the unlocked one     *)
(* filled by main, are a map whose additions are atomic: each takes effect *)
(* at one step, in the order of its thread, and the last value stays.      *)
ImplementsMap == Map!Spec

(* Every thread gets the mutexes it needs and ends, and so does main, with  *)
(* its three tables or when a thread cannot be created.                    *)
Terminates == <>(main.loop \in {"exited", "failed"})
==============================================================================
