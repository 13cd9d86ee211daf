------------------------------ MODULE WutProofs ------------------------------
(***************************************************************************)
(* Theorems about Wut, for every number of threads, every client and every *)
(* use of wut_cancel.  The inductive invariant is IInv: the type invariant *)
(* needs the other two parts, because a step follows ids through TCB_ARRAY *)
(* and must find a TCB there.                                              *)
(***************************************************************************)
EXTENDS Wut, SequenceTheorems, TLAPS

IInv == TypeOK /\ SlotsConsistent /\ LinksLeadToThreads

(* h is heap after assignments to the fields that wut.c assigns in existing *)
(* TCBs: ids stay, links lead to threads, a status that is set stays.       *)
Links(tcb) ==
  /\ Named(tcb.join_from)
  /\ Named(tcb.join_to)
  /\ tcb.join = 1 => tcb.join_from # NONE
  /\ tcb.block = 1 => tcb.join_to # NONE

GoodHeap(h) ==
  /\ h \in [Address -> TCB]
  /\ \A t \in Address :
       /\ h[t].id = heap[t].id
       /\ heap[t].status # NONE => h[t].status = heap[t].status
       /\ Links(h[t])

LEMMA HeapIsGood ==
  ASSUME IInv, process = "running"
  PROVE  GoodHeap(heap)
  BY DEF IInv, TypeOK, LinksLeadToThreads, GoodHeap, Links

(* The running thread's entry and context exist. *)
LEMMA Running ==
  ASSUME IInv, process = "running"
  PROVE  /\ Cur \in Address
         /\ cpu \in [thread : Address, joined : OptAddress]
         /\ CURRENT_RUNNING_THREAD_ID \in 0..(MAX_THREAD_NUM - 1)
  BY DEF IInv, TypeOK, LinksLeadToThreads, Cur, Contexts, OptAddress

(* Every id that a TCB keeps leads to a TCB. *)
LEMMA EntryOf ==
  ASSUME IInv, process = "running", NEW id \in OptId, id # NONE, Named(id)
  PROVE  TCB_ARRAY[id] \in Address
  BY DEF IInv, TypeOK, OptId, OptAddress, Named, NONE

-----------------------------------------------------------------------------
(* The assignments *)

LEMMA SaveContextGood ==
  ASSUME IInv, process = "running", NEW h, GoodHeap(h), NEW j \in OptAddress
  PROVE  GoodHeap(SaveContext(h, j))
<1>1. Cur \in Address /\ cpu.thread \in Address
  BY Running
<1>2. Context(cpu.thread, j) \in Contexts
  BY <1>1 DEF Context, Contexts
<1> QED
  BY <1>1, <1>2 DEF GoodHeap, SaveContext, TCB, Links

(* Fields of one entry assigned together: r is the entry afterwards. *)
LEMMA EntryAssigned ==
  ASSUME NEW h, GoodHeap(h), NEW u \in Address, NEW r \in TCB, Links(r),
         r.id = h[u].id, heap[u].status # NONE => r.status = h[u].status
  PROVE  GoodHeap([h EXCEPT ![u] = r])
<1>1. h \in [Address -> TCB]
  BY DEF GoodHeap
<1> QED
  BY <1>1 DEF GoodHeap

(* What wut_join assigns to the thread that it joins. *)
LEMMA JoinedGood ==
  ASSUME NEW h, GoodHeap(h), NEW u \in Address,
         NEW f \in OptId, f # NONE, Named(f)
  PROVE  GoodHeap([h EXCEPT ![u].join = 1, ![u].enable = 0, ![u].join_from = f])
<1> DEFINE r == [h[u] EXCEPT !.join = 1, !.enable = 0, !.join_from = f]
           g == [h EXCEPT ![u] = r]
<1>1. h \in [Address -> TCB] /\ h[u] \in TCB
  BY DEF GoodHeap
<1>2. r \in TCB
  BY <1>1 DEF TCB
<1>3. Links(r)
  BY <1>1 DEF TCB, Links, GoodHeap
<1>4. r.id = h[u].id /\ r.status = h[u].status
  BY <1>1 DEF TCB
<1>5. g = [h EXCEPT ![u].join = 1, ![u].enable = 0, ![u].join_from = f]
  BY <1>1 DEF TCB
<1> HIDE DEF r
<1>6. GoodHeap(g)
  BY <1>2, <1>3, <1>4, EntryAssigned
<1> QED
  BY <1>5, <1>6

(* What wut_cancel assigns to the joiner of the thread that it cancels. *)
LEMMA JoinerGood ==
  ASSUME NEW h, GoodHeap(h), NEW u \in Address
  PROVE  GoodHeap([h EXCEPT ![u].join = 0, ![u].join_to = NONE, ![u].block = 0])
<1> DEFINE r == [h[u] EXCEPT !.join = 0, !.join_to = NONE, !.block = 0]
           g == [h EXCEPT ![u] = r]
<1>1. h \in [Address -> TCB] /\ h[u] \in TCB
  BY DEF GoodHeap
<1>2. r \in TCB
  BY <1>1 DEF TCB, OptId
<1>3. Links(r)
  BY <1>1 DEF TCB, Links, GoodHeap, Named
<1>4. r.id = h[u].id /\ r.status = h[u].status
  BY <1>1 DEF TCB
<1>5. g = [h EXCEPT ![u].join = 0, ![u].join_to = NONE, ![u].block = 0]
  BY <1>1 DEF TCB
<1> HIDE DEF r
<1>6. GoodHeap(g)
  BY <1>2, <1>3, <1>4, EntryAssigned
<1> QED
  BY <1>5, <1>6

LEMMA JoinHeapGood ==
  ASSUME IInv, process = "running",
         NEW id \in 0..(MAX_THREAD_NUM - 1), TCB_ARRAY[id] # NONE
  PROVE  GoodHeap(JoinHeap(id))
<1>1. Cur \in Address /\ TCB_ARRAY[id] \in Address
  BY Running DEF IInv, TypeOK, OptAddress
<1>2. GoodHeap(heap)
  BY HeapIsGood
<1>3. /\ Named(id) /\ id \in OptId /\ id # NONE
      /\ Named(CURRENT_RUNNING_THREAD_ID)
      /\ CURRENT_RUNNING_THREAD_ID \in OptId /\ CURRENT_RUNNING_THREAD_ID # NONE
  BY Running DEF Named, OptId, NONE, IInv, LinksLeadToThreads, Cur, TypeOK
<1> DEFINE h == [heap EXCEPT ![Cur].block = 1, ![Cur].join_to = id]
<1>4. GoodHeap(h)
  <2> DEFINE r == [heap[Cur] EXCEPT !.block = 1, !.join_to = id]
  <2>1. heap \in [Address -> TCB] /\ heap[Cur] \in TCB /\ Links(heap[Cur])
    BY <1>1, <1>2 DEF GoodHeap
  <2>2. r \in TCB
    BY <1>3, <2>1 DEF TCB
  <2>3. Links(r)
    BY <1>3, <2>1 DEF TCB, Links
  <2>4. r.id = heap[Cur].id /\ r.status = heap[Cur].status
    BY <2>1 DEF TCB
  <2>5. [heap EXCEPT ![Cur] = r] = h
    BY <1>1, <2>1 DEF TCB
  <2> HIDE DEF r, h
  <2>6. GoodHeap([heap EXCEPT ![Cur] = r])
    BY <1>1, <1>2, <2>2, <2>3, <2>4, EntryAssigned
  <2> QED  BY <2>5, <2>6
<1> HIDE DEF h
<1>5. GoodHeap([h EXCEPT ![TCB_ARRAY[id]].join = 1, ![TCB_ARRAY[id]].enable = 0,
                         ![TCB_ARRAY[id]].join_from = CURRENT_RUNNING_THREAD_ID])
  BY <1>1, <1>3, <1>4, JoinedGood
<1> QED
  BY <1>5 DEF JoinHeap, h

(* A thread gets its status, once. *)
LEMMA StatusAssigned ==
  ASSUME GoodHeap(heap), NEW u \in Address, NEW s \in Status,
         heap[u].status # NONE => s = heap[u].status
  PROVE  GoodHeap([heap EXCEPT ![u].status = s])
<1> DEFINE r == [heap[u] EXCEPT !.status = s]
<1>1. heap \in [Address -> TCB] /\ heap[u] \in TCB /\ Links(heap[u])
  BY DEF GoodHeap
<1>2. r \in TCB
  BY <1>1 DEF TCB
<1>3. Links(r)
  BY <1>1 DEF TCB, Links
<1>4. r.id = heap[u].id /\ r.status = s
  BY <1>1 DEF TCB
<1>5. [heap EXCEPT ![u].status = s] = [heap EXCEPT ![u] = r]
  BY <1>1 DEF TCB
<1> HIDE DEF r
<1> QED
  BY <1>2, <1>3, <1>4, <1>5, EntryAssigned

(* A thread is no longer joined. *)
LEMMA JoinedReset ==
  ASSUME NEW h, GoodHeap(h), NEW u \in Address
  PROVE  GoodHeap([h EXCEPT ![u].join = 0, ![u].join_from = NONE])
<1> DEFINE r == [h[u] EXCEPT !.join = 0, !.join_from = NONE]
<1>1. h \in [Address -> TCB] /\ h[u] \in TCB /\ Links(h[u])
  BY DEF GoodHeap
<1>2. r \in TCB
  BY <1>1 DEF TCB, OptId
<1>3. Links(r)
  BY <1>1 DEF TCB, Links, Named
<1>4. r.id = h[u].id /\ r.status = h[u].status
  BY <1>1 DEF TCB
<1>5. [h EXCEPT ![u].join = 0, ![u].join_from = NONE] = [h EXCEPT ![u] = r]
  BY <1>1 DEF TCB
<1> HIDE DEF r
<1> QED
  BY <1>2, <1>3, <1>4, <1>5, EntryAssigned

LEMMA ExitHeapGood ==
  ASSUME ConstantsAssumption, IInv, process = "running", NEW arg \in Int
  PROVE  GoodHeap(ExitHeap(arg))
<1>1. Cur \in Address
  BY Running
<1>2. GoodHeap(heap)
  BY HeapIsGood
<1>3. /\ ExitStatus(arg) \in Status
      /\ heap[Cur].status # NONE => ExitStatus(arg) = heap[Cur].status
  BY <1>1, <1>2 DEF ExitStatus, Status, GoodHeap, TCB
<1> DEFINE h == [heap EXCEPT ![Cur].status = ExitStatus(arg)]
<1>4. GoodHeap(h)
  BY <1>1, <1>2, <1>3, StatusAssigned
<1> HIDE DEF h
<1>5. GoodHeap([h EXCEPT ![Cur].join = 0, ![Cur].join_from = NONE])
  BY <1>1, <1>4, JoinedReset
<1> QED
  BY <1>4, <1>5 DEF ExitHeap, h

LEMMA CancelWakeGood ==
  ASSUME IInv, process = "running", NEW t \in Address, heap[t].status = NONE
  PROVE  /\ GoodHeap(CancelWake(t))
         /\ HasJoiner(t) => Joiner(t) \in Address
<1>1. GoodHeap(heap)
  BY HeapIsGood
<1>2. HasJoiner(t) => Joiner(t) \in Address
  BY <1>1, EntryOf DEF HasJoiner, Joiner, GoodHeap, TCB, Links
<1> DEFINE h == [heap EXCEPT ![t].status = 128]
<1>3. GoodHeap(h)
  <2>1. 128 \in Status /\ (heap[t].status # NONE => 128 = heap[t].status)
    BY DEF Status
  <2> QED  BY <1>1, <2>1, StatusAssigned
<1> HIDE DEF h
<1>4. HasJoiner(t) =>
        GoodHeap([h EXCEPT ![Joiner(t)].join = 0, ![Joiner(t)].join_to = NONE,
                           ![Joiner(t)].block = 0])
  BY <1>2, <1>3, JoinerGood
<1> QED
  BY <1>2, <1>3, <1>4 DEF CancelWake, h

LEMMA UnjoinGood ==
  ASSUME NEW h, GoodHeap(h), NEW u \in Address
  PROVE  GoodHeap(Unjoin(h, u))
<1>1. h \in [Address -> TCB]
  BY DEF GoodHeap
<1>2. [h EXCEPT ![u].join_from = NONE, ![u].join = 0]
        = [h EXCEPT ![u].join = 0, ![u].join_from = NONE]
  BY <1>1 DEF TCB
<1> QED
  BY <1>2, JoinedReset DEF Unjoin

-----------------------------------------------------------------------------
(* The steps *)

(* A step that leaves the array alone. *)
LEMMA ArrayKept ==
  ASSUME IInv, process = "running", GoodHeap(heap'),
         UNCHANGED <<TCB_ARRAY, MAX_THREAD_NUM, THREAD_NUM>>,
         Q_head' \in Seq(Address),
         CURRENT_RUNNING_THREAD_ID' \in 0..(MAX_THREAD_NUM - 1),
         TCB_ARRAY[CURRENT_RUNNING_THREAD_ID'] # NONE,
         cpu' \in Contexts, process' \in Outcomes,
         process' = "running" => cpu' # NULL_CONTEXT
  PROVE  IInv'
<1>1. Address' = Address /\ TCB' = TCB /\ Contexts' = Contexts /\ OptAddress' = OptAddress
  BY DEF Address, TCB, Contexts, OptId, OptAddress
<1>2. heap' \in [Address -> TCB]
  BY DEF GoodHeap
<1>3. TypeOK'
  BY <1>1, <1>2 DEF IInv, TypeOK
<1>4. SlotsConsistent'
  <2>1. \A i \in DOMAIN TCB_ARRAY :
          TCB_ARRAY[i] # NONE => heap'[TCB_ARRAY[i]].id = heap[TCB_ARRAY[i]].id
    BY DEF IInv, TypeOK, OptAddress, GoodHeap
  <2> QED  BY <2>1 DEF IInv, SlotsConsistent
<1>5. LinksLeadToThreads'
  <2>1. DOMAIN heap' = Address /\ DOMAIN heap = Address
    BY <1>2 DEF IInv, TypeOK
  <2>2. \A t \in Address :
          /\ TCB_ARRAY'[heap'[t].id] # NONE
          /\ heap'[t].join_from # NONE => TCB_ARRAY'[heap'[t].join_from] # NONE
          /\ heap'[t].join_to # NONE => TCB_ARRAY'[heap'[t].join_to] # NONE
          /\ heap'[t].join = 1 => heap'[t].join_from # NONE
          /\ heap'[t].block = 1 => heap'[t].join_to # NONE
    BY <2>1 DEF GoodHeap, Links, Named, IInv, LinksLeadToThreads
  <2>3. Cur' # NONE /\ (process' = "running" => cpu' # NULL_CONTEXT')
    BY DEF Cur, NULL_CONTEXT
  <2> QED  BY <2>1, <2>2, <2>3 DEF LinksLeadToThreads, Named
<1> QED
  BY <1>3, <1>4, <1>5 DEF IInv

(* A process that ended keeps its types, and nothing else is asked of it. *)
LEMMA Ended ==
  ASSUME IInv, UNCHANGED <<heap, TCB_ARRAY, MAX_THREAD_NUM, THREAD_NUM,
                           CURRENT_RUNNING_THREAD_ID, Q_head, cpu>>,
         process' \in Outcomes \ {"running"}
  PROVE  IInv'
<1>1. Address' = Address /\ TCB' = TCB /\ Contexts' = Contexts /\ OptAddress' = OptAddress
  BY DEF Address, TCB, Contexts, OptId, OptAddress
<1>2. TypeOK'
  BY <1>1 DEF IInv, TypeOK
<1> QED
  BY <1>2 DEF IInv, SlotsConsistent, LinksLeadToThreads

LEMMA SwitchStep ==
  ASSUME IInv, process = "running",
         NEW h, GoodHeap(h), NEW q \in Seq(Address), q # <<>>, SwitchTo(h, q)
  PROVE  IInv'
<1> DEFINE next_id == h[Head(q)].id
           next    == TCB_ARRAY[next_id]
<1>1. Head(q) \in Address /\ Tail(q) \in Seq(Address)
  BY HeadTailProperties
<1>2. /\ next_id = heap[Head(q)].id
      /\ next_id \in 0..(MAX_THREAD_NUM - 1)
  BY <1>1 DEF GoodHeap, TCB
<1>3. next # NONE /\ next \in Address
  BY <1>1, <1>2 DEF IInv, TypeOK, LinksLeadToThreads, OptAddress
<1>4. h[next].ucontext \in Contexts
  BY <1>3 DEF GoodHeap, TCB
<1>5. /\ heap' = h /\ Q_head' = Tail(q)
      /\ CURRENT_RUNNING_THREAD_ID' = next_id
      /\ cpu' = h[next].ucontext
      /\ process' = IF h[next].ucontext = NULL_CONTEXT
                    THEN "crash_null_context" ELSE "running"
      /\ UNCHANGED <<TCB_ARRAY, MAX_THREAD_NUM, THREAD_NUM>>
  BY DEF SwitchTo
<1>6. process' \in Outcomes /\ (process' = "running" => cpu' # NULL_CONTEXT)
  BY <1>5 DEF Outcomes
<1> QED
  BY <1>1, <1>2, <1>3, <1>4, <1>5, <1>6, ArrayKept

(* What wut_create allocates fits between the threads that there are. *)
LEMMA ResizedArray ==
  ASSUME IInv, process = "running"
  PROVE  /\ NewMax \in Nat /\ MAX_THREAD_NUM <= NewMax /\ THREAD_NUM < NewMax
         /\ Resized \in [0..(NewMax - 1) -> OptAddress]
         /\ \A i \in 0..(NewMax - 1) :
              Resized[i] # NONE => /\ i < MAX_THREAD_NUM
                                   /\ i < THREAD_NUM
                                   /\ Resized[i] = TCB_ARRAY[i]
                                   /\ heap[Resized[i]].id = i
         /\ \A i \in 0..(MAX_THREAD_NUM - 1) :
              /\ i \in 0..(NewMax - 1)
              /\ Resized[i] = TCB_ARRAY[i]
<1>1. /\ MAX_THREAD_NUM \in Nat \ {0} /\ THREAD_NUM \in Nat \ {0}
      /\ THREAD_NUM <= MAX_THREAD_NUM
  BY DEF IInv, TypeOK, SlotsConsistent
<1>2. NewMax \in Nat /\ MAX_THREAD_NUM <= NewMax /\ THREAD_NUM < NewMax
  BY <1>1 DEF NewMax
<1>3. TCB_ARRAY \in [0..(MAX_THREAD_NUM - 1) -> OptAddress]
  BY DEF IInv, TypeOK
<1>4. Resized \in [0..(NewMax - 1) -> OptAddress]
  BY <1>1, <1>2, <1>3 DEF Resized, OptAddress
<1>5. \A i \in 0..(NewMax - 1) : Resized[i] # NONE =>
        i < MAX_THREAD_NUM /\ Resized[i] = TCB_ARRAY[i]
  BY <1>1, <1>2 DEF Resized
<1>6. \A i \in 0..(MAX_THREAD_NUM - 1) :
        i \in 0..(NewMax - 1) /\ Resized[i] = TCB_ARRAY[i]
  BY <1>1, <1>2 DEF Resized
<1>7. \A i \in 0..(NewMax - 1) : Resized[i] # NONE =>
        i < THREAD_NUM /\ heap[Resized[i]].id = i
  BY <1>1, <1>2, <1>3, <1>5 DEF IInv, SlotsConsistent
<1> QED
  BY <1>2, <1>4, <1>5, <1>6, <1>7

(* The slot that wut_create takes does not leave a gap. *)
LEMMA SlotInPrefix ==
  ASSUME IInv, process = "running",
         NEW slot \in 0..(NewMax - 1), FirstFree(slot)
  PROVE  /\ slot <= THREAD_NUM
         /\ \A j \in 0..(slot - 1) : Resized[j] # NONE
<1>1. \A j \in 0..(slot - 1) : Resized[j] # NONE
  BY DEF FirstFree, SlotFree
<1>2. THREAD_NUM \in Nat /\ THREAD_NUM \in 0..(NewMax - 1)
  BY ResizedArray DEF IInv, TypeOK
<1>3. ~(Resized[THREAD_NUM] # NONE)
  BY <1>2, ResizedArray
<1> QED
  BY <1>1, <1>2, <1>3

LEMMA CreateStep ==
  ASSUME IInv, wut_create
  PROVE  IInv' /\ \A t \in Address : heap'[t] = heap[t]
<1>1. process = "running" /\ process' = "running"
  BY DEF wut_create, Calling
<1>2. PICK slot \in 0..(NewMax - 1) :
        /\ FirstFree(slot)
        /\ TCB_ARRAY' = [Resized EXCEPT ![slot] = THREAD_NUM]
        /\ heap' = [t \in 0..THREAD_NUM |->
                      IF t = THREAD_NUM THEN NewTCB(slot, t, TRUE) ELSE heap[t]]
  BY DEF wut_create
<1>3. /\ MAX_THREAD_NUM' = NewMax
      /\ THREAD_NUM' = THREAD_NUM + 1
      /\ Q_head' = Append(Q_head, THREAD_NUM)
      /\ UNCHANGED <<CURRENT_RUNNING_THREAD_ID, cpu>>
  BY DEF wut_create
<1>4. /\ THREAD_NUM \in Nat \ {0} /\ MAX_THREAD_NUM \in Nat \ {0}
      /\ NewMax \in Nat \ {0} /\ MAX_THREAD_NUM <= NewMax
      /\ THREAD_NUM < NewMax
  BY <1>1, ResizedArray DEF IInv, TypeOK
<1>5. /\ Address' = 0..THREAD_NUM
      /\ Address' = Address \cup {THREAD_NUM}
      /\ THREAD_NUM \notin Address
  <2>1. Address' = 0..THREAD_NUM
    BY <1>3, <1>4 DEF Address
  <2>2. Address = 0..(THREAD_NUM - 1)
    BY DEF Address
  <2> QED  BY <1>4, <2>1, <2>2
<1>6. OptId \subseteq OptId' /\ OptAddress \subseteq OptAddress' /\ Contexts \subseteq Contexts'
  <2>1. OptId \subseteq OptId'
    BY <1>3, <1>4 DEF OptId
  <2>2. OptAddress \subseteq OptAddress'
    BY <1>5 DEF OptAddress
  <2>3. Contexts \subseteq Contexts'
    BY <1>5, <2>2 DEF Contexts, NULL_CONTEXT
  <2> QED  BY <2>1, <2>2, <2>3
<1>7. TCB \subseteq TCB'
  BY <1>3, <1>4, <1>6 DEF TCB
<1>8. \A t \in Address : heap'[t] = heap[t] /\ heap[t] \in TCB
  <2>1. \A t \in Address : heap[t] \in TCB
    BY DEF IInv, TypeOK
  <2>2. \A t \in Address : t \in 0..THREAD_NUM /\ t # THREAD_NUM
    BY <1>5
  <2> QED  BY <1>2, <2>1, <2>2
<1>9. heap'[THREAD_NUM] = NewTCB(slot, THREAD_NUM, TRUE)
  BY <1>2, <1>4
<1>10. NewTCB(slot, THREAD_NUM, TRUE) \in TCB'
  <2>1. Context(THREAD_NUM, NONE) \in Contexts'
    BY <1>5 DEF Context, Contexts, OptAddress
  <2> QED  BY <1>2, <1>3, <1>4, <2>1 DEF NewTCB, TCB, OptId, Status
<1>11. heap' \in [Address' -> TCB']
  <2>1. \A t \in Address' : t \in Address \/ t = THREAD_NUM
    BY <1>5
  <2>2. heap' = [t \in Address' |-> heap'[t]]
    BY <1>2, <1>5
  <2>3. \A t \in Address' : heap'[t] \in TCB'
    BY <1>7, <1>8, <1>9, <1>10, <2>1
  <2> QED  BY <2>2, <2>3
<1>12. TCB_ARRAY' \in [0..(NewMax - 1) -> OptAddress']
  BY <1>1, <1>2, <1>5, <1>6, ResizedArray DEF OptAddress
<1>13. TypeOK'
  <2>1. Q_head' \in Seq(Address')
    <3>1. Q_head \in Seq(Address')
      BY <1>5, SeqMonotonic DEF IInv, TypeOK
    <3> QED  BY <1>3, <1>5, <3>1, AppendProperties
  <2>2. CURRENT_RUNNING_THREAD_ID' \in 0..(NewMax - 1)
    BY <1>3, <1>4 DEF IInv, TypeOK
  <2>3. cpu' \in Contexts' /\ process' \in Outcomes
    BY <1>1, <1>3, <1>6 DEF IInv, TypeOK, Outcomes
  <2> QED  BY <1>3, <1>4, <1>11, <1>12, <2>1, <2>2, <2>3 DEF TypeOK
<1>14. \A i \in 0..(NewMax - 1) :
         TCB_ARRAY'[i] = IF i = slot THEN THREAD_NUM ELSE Resized[i]
  BY <1>1, <1>2, ResizedArray
<1>15. \A i \in 0..(NewMax - 1) : Resized[i] # NONE => TCB_ARRAY'[i] # NONE
  BY <1>4, <1>14 DEF NONE
<1>16. SlotsConsistent'
  <2>1. DOMAIN TCB_ARRAY' = 0..(NewMax - 1)
    BY <1>12
  <2>2. ASSUME NEW i \in 0..(NewMax - 1), TCB_ARRAY'[i] # NONE
        PROVE  /\ i < THREAD_NUM'
               /\ heap'[TCB_ARRAY'[i]].id = i
               /\ \A j \in 0..i : TCB_ARRAY'[j] # NONE
    <3>1. CASE i = slot
      <4>1. TCB_ARRAY'[i] = THREAD_NUM /\ i <= THREAD_NUM
        BY <1>1, <1>2, <1>14, <3>1, SlotInPrefix
      <4>2. heap'[TCB_ARRAY'[i]].id = i
        BY <1>9, <3>1, <4>1 DEF NewTCB
      <4>3. \A j \in 0..(slot - 1) : TCB_ARRAY'[j] # NONE
        BY <1>1, <1>2, <1>4, <1>15, SlotInPrefix
      <4>4. \A j \in 0..i : j = i \/ j \in 0..(slot - 1)
        BY <3>1
      <4> QED  BY <1>3, <1>4, <2>2, <4>1, <4>2, <4>3, <4>4
    <3>2. CASE i # slot
      <4>1. Resized[i] # NONE /\ TCB_ARRAY'[i] = Resized[i]
        BY <1>14, <2>2, <3>2
      <4>2. /\ i < MAX_THREAD_NUM /\ i < THREAD_NUM
            /\ Resized[i] = TCB_ARRAY[i] /\ heap[Resized[i]].id = i
        BY <1>1, <4>1, ResizedArray
      <4>3. TCB_ARRAY[i] \in Address
        BY <4>1, <4>2 DEF IInv, TypeOK, OptAddress
      <4>4. heap'[TCB_ARRAY'[i]].id = i
        BY <1>8, <4>1, <4>2, <4>3
      <4>5. \A j \in 0..i : TCB_ARRAY[j] # NONE
        BY <1>1, <4>1, <4>2 DEF IInv, SlotsConsistent, TypeOK
      <4>6. \A j \in 0..i : j \in 0..(MAX_THREAD_NUM - 1)
        BY <1>4, <4>2
      <4>7. \A j \in 0..i : TCB_ARRAY'[j] # NONE
        BY <1>1, <1>15, <4>5, <4>6, ResizedArray
      <4> QED  BY <1>3, <1>4, <4>2, <4>4, <4>7
    <3> QED  BY <3>1, <3>2
  <2> QED  BY <1>3, <1>4, <2>1, <2>2 DEF SlotsConsistent
<1>17. LinksLeadToThreads'
  <2>1. \A i \in 0..(MAX_THREAD_NUM - 1) :
          TCB_ARRAY[i] # NONE => TCB_ARRAY'[i] # NONE
    BY <1>1, <1>15, ResizedArray
  <2>2. cpu' # NULL_CONTEXT' /\ Cur' # NONE
    BY <1>1, <1>3, <2>1 DEF IInv, TypeOK, LinksLeadToThreads, Cur, NULL_CONTEXT
  <2>3. ASSUME NEW t \in Address
        PROVE  /\ TCB_ARRAY'[heap'[t].id] # NONE
               /\ heap'[t].join_from # NONE => TCB_ARRAY'[heap'[t].join_from] # NONE
               /\ heap'[t].join_to # NONE => TCB_ARRAY'[heap'[t].join_to] # NONE
               /\ heap'[t].join = 1 => heap'[t].join_from # NONE
               /\ heap'[t].block = 1 => heap'[t].join_to # NONE
    BY <1>1, <1>8, <2>1 DEF IInv, TypeOK, LinksLeadToThreads, Named, TCB, OptId
  <2>4. LET t == THREAD_NUM
        IN  /\ TCB_ARRAY'[heap'[t].id] # NONE
            /\ heap'[t].join_from = NONE /\ heap'[t].join_to = NONE
            /\ heap'[t].join = 0 /\ heap'[t].block = 0
    BY <1>2, <1>4, <1>9, <1>14 DEF NewTCB, NONE
  <2>5. \A t \in DOMAIN heap' : t \in Address \/ t = THREAD_NUM
    BY <1>5, <1>11
  <2> QED  BY <2>2, <2>3, <2>4, <2>5 DEF LinksLeadToThreads, Named
<1> QED
  BY <1>8, <1>13, <1>16, <1>17 DEF IInv

(* A step is good: it preserves the invariant and every status that is set. *)
StatusKept == \A t \in DOMAIN heap : ~Live(t) => heap'[t].status = heap[t].status

LEMMA GoodHeapKeepsStatus ==
  ASSUME IInv, GoodHeap(heap')
  PROVE  StatusKept
  BY DEF StatusKept, GoodHeap, IInv, TypeOK, Live

LEMMA EndStep ==
  ASSUME IInv, NEW outcome \in Outcomes \ {"running"}, End(outcome)
  PROVE  IInv' /\ StatusKept
  BY Ended DEF End, StatusKept

LEMMA CreateDiesStep ==
  ASSUME IInv, wut_create_dies
  PROVE  IInv' /\ StatusKept
<1>1. /\ process = "running" /\ process' = "exited"
      /\ TCB_ARRAY' = Resized /\ MAX_THREAD_NUM' = NewMax
      /\ UNCHANGED <<heap, THREAD_NUM, CURRENT_RUNNING_THREAD_ID, Q_head, cpu>>
  BY DEF wut_create_dies, Calling
<1>2. /\ MAX_THREAD_NUM \in Nat \ {0} /\ NewMax \in Nat \ {0}
      /\ MAX_THREAD_NUM <= NewMax
  BY <1>1, ResizedArray DEF IInv, TypeOK
<1>3. Address' = Address /\ OptAddress' = OptAddress /\ Contexts' = Contexts
  BY <1>1 DEF Address, OptAddress, Contexts
<1>4. OptId \subseteq OptId'
  BY <1>1, <1>2 DEF OptId
<1>5. TCB \subseteq TCB'
  BY <1>1, <1>2, <1>3, <1>4 DEF TCB
<1>6. heap' \in [Address' -> TCB']
  BY <1>1, <1>3, <1>5 DEF IInv, TypeOK
<1>7. TCB_ARRAY' \in [0..(MAX_THREAD_NUM' - 1) -> OptAddress']
  BY <1>1, <1>3, ResizedArray
<1>8. TypeOK'
  BY <1>1, <1>2, <1>3, <1>6, <1>7 DEF IInv, TypeOK, Outcomes
<1> QED
  BY <1>1, <1>8 DEF IInv, SlotsConsistent, LinksLeadToThreads, StatusKept

(* The thread that wut_cancel(id) finds, and the queue with its joiner. *)
LEMMA CancelTarget ==
  ASSUME IInv, NEW id \in Nat, Cancelling(id)
  PROVE  /\ process = "running"
         /\ TCB_ARRAY[id] \in Address
         /\ heap[TCB_ARRAY[id]].status = NONE
         /\ GoodHeap(CancelWake(TCB_ARRAY[id]))
         /\ CancelQueue(TCB_ARRAY[id]) \in Seq(Address)
         /\ Len(Q_head) <= Len(CancelQueue(TCB_ARRAY[id]))
<1>1. /\ process = "running" /\ id < MAX_THREAD_NUM /\ TCB_ARRAY[id] # NONE
      /\ heap[TCB_ARRAY[id]].status = NONE
  BY DEF Cancelling, Calling
<1> DEFINE t == TCB_ARRAY[id]
<1>2. t \in Address
  BY <1>1 DEF IInv, TypeOK, OptAddress
<1> HIDE DEF t
<1>3. GoodHeap(CancelWake(t)) /\ (HasJoiner(t) => Joiner(t) \in Address)
  BY <1>1, <1>2, CancelWakeGood DEF t
<1>4. Q_head \in Seq(Address) /\ Len(Q_head) \in Nat
  BY LenProperties DEF IInv, TypeOK
<1>5. CancelQueue(t) \in Seq(Address) /\ Len(Q_head) <= Len(CancelQueue(t))
  BY <1>3, <1>4, AppendProperties DEF CancelQueue
<1> QED
  BY <1>1, <1>2, <1>3, <1>5 DEF t

(* A step of the running thread that keeps the processor. *)
LEMMA CpuKept ==
  ASSUME IInv, process = "running", GoodHeap(heap'), Q_head' \in Seq(Address),
         UNCHANGED <<TCB_ARRAY, MAX_THREAD_NUM, THREAD_NUM,
                     CURRENT_RUNNING_THREAD_ID, process>>,
         cpu' \in Contexts, cpu' # NULL_CONTEXT
  PROVE  IInv' /\ StatusKept
<1>1. /\ CURRENT_RUNNING_THREAD_ID' \in 0..(MAX_THREAD_NUM - 1)
      /\ TCB_ARRAY[CURRENT_RUNNING_THREAD_ID'] # NONE
      /\ process' \in Outcomes
  BY DEF IInv, TypeOK, LinksLeadToThreads, Cur
<1> QED
  BY <1>1, ArrayKept, GoodHeapKeepsStatus

LEMMA CancelBlockedStep ==
  ASSUME IInv, NEW id \in Nat, cancel_blocked(id)
  PROVE  IInv' /\ StatusKept
<1> DEFINE t == TCB_ARRAY[id]
           the_thread == TCB_ARRAY[heap[t].join_to]
           h == [CancelWake(t) EXCEPT ![t].block = 0]
<1>1. /\ Cancelling(id) /\ heap[t].block = 1
      /\ heap' = Unjoin(h, the_thread)
      /\ Q_head' = CancelQueue(t)
      /\ UNCHANGED <<TCB_ARRAY, MAX_THREAD_NUM, THREAD_NUM,
                     CURRENT_RUNNING_THREAD_ID, cpu, process>>
  BY DEF cancel_blocked
<1>2. /\ process = "running" /\ t \in Address
      /\ GoodHeap(CancelWake(t)) /\ CancelQueue(t) \in Seq(Address)
  BY <1>1, CancelTarget
<1>3. the_thread \in Address
  <2>1. /\ heap[t].join_to # NONE /\ Named(heap[t].join_to)
        /\ heap[t].join_to \in OptId
    BY <1>1, <1>2 DEF IInv, TypeOK, LinksLeadToThreads, TCB
  <2> QED  BY <1>2, <2>1, EntryOf
<1>4. GoodHeap(h)
  <2> DEFINE w == CancelWake(t)
             r == [w[t] EXCEPT !.block = 0]
  <2> HIDE DEF t, w
  <2>1. /\ t \in Address /\ GoodHeap(w)
        /\ w \in [Address -> TCB] /\ w[t] \in TCB /\ Links(w[t])
    BY <1>2 DEF GoodHeap, w
  <2>2. r \in TCB
    BY <2>1 DEF TCB
  <2>3. Links(r) /\ r.id = w[t].id /\ r.status = w[t].status
    BY <2>1 DEF TCB, Links
  <2>4. [w EXCEPT ![t].block = 0] = [w EXCEPT ![t] = r]
    BY <2>1 DEF TCB
  <2> HIDE DEF r
  <2>5. GoodHeap([w EXCEPT ![t].block = 0])
    BY <2>1, <2>2, <2>3, <2>4, EntryAssigned
  <2> QED  BY <2>5 DEF w
<1> HIDE DEF h
<1>5. GoodHeap(heap')
  BY <1>1, <1>3, <1>4, UnjoinGood
<1>6. cpu' \in Contexts /\ cpu' # NULL_CONTEXT
  BY <1>1, <1>2 DEF IInv, TypeOK, LinksLeadToThreads
<1> QED
  BY <1>1, <1>2, <1>5, <1>6, CpuKept

LEMMA CancelReadyStep ==
  ASSUME IInv, NEW id \in Nat, cancel_ready(id)
  PROVE  IInv' /\ StatusKept
<1> DEFINE t == TCB_ARRAY[id]
           w == CancelWake(t)
           q == CancelQueue(t)
<1>1. /\ Cancelling(id)
      /\ heap' = [w EXCEPT ![t].ucontext = NULL_CONTEXT]
      /\ UNCHANGED <<TCB_ARRAY, MAX_THREAD_NUM, THREAD_NUM,
                     CURRENT_RUNNING_THREAD_ID, cpu, process>>
  BY DEF cancel_ready
<1>2. PICK k \in 1..Len(Q_head) : Q_head' = RemoveAt(q, k)
  BY DEF cancel_ready, WithoutNode
<1>3. /\ process = "running" /\ t \in Address /\ GoodHeap(w)
      /\ q \in Seq(Address) /\ Len(Q_head) <= Len(q)
  BY <1>1, CancelTarget
<1> HIDE DEF t, w, q
<1>4. GoodHeap(heap')
  <2> DEFINE r == [w[t] EXCEPT !.ucontext = NULL_CONTEXT]
  <2>1. w \in [Address -> TCB] /\ w[t] \in TCB /\ Links(w[t])
    BY <1>3 DEF GoodHeap
  <2>2. r \in TCB
    BY <2>1 DEF TCB, Contexts
  <2>3. Links(r) /\ r.id = w[t].id /\ r.status = w[t].status
    BY <2>1 DEF TCB, Links
  <2>4. heap' = [w EXCEPT ![t] = r]
    BY <1>1, <2>1 DEF TCB
  <2> HIDE DEF r
  <2> QED  BY <1>3, <2>2, <2>3, <2>4, EntryAssigned
<1>5. Q_head' \in Seq(Address)
  <2>1. /\ Len(q) \in Nat /\ Len(Q_head) \in Nat
        /\ \A i \in 1..Len(q) : q[i] \in Address
    BY <1>3, LenProperties, ElementOfSeq DEF IInv, TypeOK
  <2>2. SubSeq(q, 1, k - 1) \in Seq(Address)
    BY <1>2, <1>3, <2>1, SubSeqProperties
  <2>3. SubSeq(q, k + 1, Len(q)) \in Seq(Address)
    BY <1>2, <1>3, <2>1, SubSeqProperties
  <2> QED  BY <1>2, <2>2, <2>3, ConcatProperties DEF RemoveAt
<1>6. cpu' \in Contexts /\ cpu' # NULL_CONTEXT
  BY <1>1, <1>3 DEF IInv, TypeOK, LinksLeadToThreads
<1> QED
  BY <1>1, <1>3, <1>4, <1>5, <1>6, CpuKept

(* A step that gives the processor away. *)
LEMMA SwitchKeepsStatus ==
  ASSUME IInv, process = "running",
         NEW h, GoodHeap(h), NEW q \in Seq(Address), q # <<>>, SwitchTo(h, q)
  PROVE  IInv' /\ StatusKept
<1>1. heap' = h
  BY DEF SwitchTo
<1> QED
  BY <1>1, SwitchStep, GoodHeapKeepsStatus

LEMMA JoinStep ==
  ASSUME IInv, NEW id \in Nat, wut_join(id)
  PROVE  IInv' /\ StatusKept
<1>1. /\ process = "running" /\ id < THREAD_NUM /\ TCB_ARRAY[id] # NONE
      /\ Q_head # <<>>
      /\ SwitchTo(SaveContext(JoinHeap(id), TCB_ARRAY[id]), Q_head)
  BY DEF wut_join, JoinBlocks, Joining, Calling
<1>2. id \in 0..(MAX_THREAD_NUM - 1)
  BY <1>1 DEF IInv, TypeOK, SlotsConsistent
<1>3. GoodHeap(JoinHeap(id)) /\ TCB_ARRAY[id] \in OptAddress
  BY <1>1, <1>2, JoinHeapGood DEF IInv, TypeOK
<1>4. GoodHeap(SaveContext(JoinHeap(id), TCB_ARRAY[id]))
  BY <1>1, <1>3, SaveContextGood
<1>5. Q_head \in Seq(Address)
  BY DEF IInv, TypeOK
<1> QED
  BY <1>1, <1>4, <1>5, SwitchKeepsStatus

LEMMA JoinReturnsStep ==
  ASSUME IInv, wut_join_returns
  PROVE  IInv' /\ StatusKept
<1>1. /\ process = "running" /\ cpu.joined # NONE
      /\ heap' = [heap EXCEPT ![cpu.joined].enable = 1]
      /\ cpu' = [cpu EXCEPT !.joined = NONE]
      /\ UNCHANGED <<TCB_ARRAY, MAX_THREAD_NUM, THREAD_NUM,
                     CURRENT_RUNNING_THREAD_ID, Q_head, process>>
  BY DEF wut_join_returns
<1>2. cpu \in [thread : Address, joined : OptAddress] /\ cpu.joined \in Address
  BY <1>1, Running DEF OptAddress
<1>3. GoodHeap(heap)
  BY <1>1, HeapIsGood
<1>4. GoodHeap(heap')
  <2>1. heap' \in [Address -> TCB]
    BY <1>1, <1>2, <1>3 DEF GoodHeap, TCB
  <2>2. \A u \in Address : Links(heap'[u])
    BY <1>1, <1>2, <1>3 DEF GoodHeap, TCB, Links
  <2>3. \A u \in Address : heap'[u].id = heap[u].id /\ heap'[u].status = heap[u].status
    BY <1>1, <1>2, <1>3 DEF GoodHeap, TCB
  <2> QED  BY <2>1, <2>2, <2>3 DEF GoodHeap
<1>5. cpu' \in Contexts /\ cpu' # NULL_CONTEXT
  <2>1. cpu' \in [thread : Address, joined : OptAddress] /\ cpu'.thread = cpu.thread
    BY <1>1, <1>2 DEF OptAddress
  <2>2. cpu'.thread # NONE
    BY <1>2, <2>1 DEF Address, NONE
  <2> QED  BY <2>1, <2>2 DEF Contexts, NULL_CONTEXT, Context
<1>6. Q_head' \in Seq(Address)
  BY <1>1 DEF IInv, TypeOK
<1> QED
  BY <1>1, <1>4, <1>5, <1>6, CpuKept

LEMMA YieldStep ==
  ASSUME IInv, wut_yield
  PROVE  IInv' /\ StatusKept
<1>1. /\ process = "running"
      /\ SwitchTo(SaveContext(heap, NONE), YieldQueue)
  BY DEF wut_yield, Calling
<1>2. Cur \in Address /\ Q_head \in Seq(Address)
  BY <1>1, Running DEF IInv, TypeOK
<1>3. YieldQueue \in Seq(Address) /\ YieldQueue # <<>>
  BY <1>2, AppendProperties DEF YieldQueue
<1>4. GoodHeap(SaveContext(heap, NONE))
  BY <1>1, HeapIsGood, SaveContextGood DEF OptAddress
<1> QED
  BY <1>1, <1>3, <1>4, SwitchKeepsStatus

LEMMA ExitStep ==
  ASSUME ConstantsAssumption, IInv, process = "running",
         NEW arg \in Int, NEW onOwnStack, wut_exit(arg, onOwnStack)
  PROVE  IInv' /\ StatusKept
<1>1. GoodHeap(ExitHeap(arg)) /\ Cur \in Address
  BY ExitHeapGood, Running
<1>2. CASE exit_switches(arg)
  <2>1. ExitQueue # <<>> /\ SwitchTo(ExitHeap(arg), ExitQueue)
    BY <1>2 DEF exit_switches
  <2>2. ExitWakes => Joiner(Cur) \in Address
    <3>1. ExitWakes => /\ heap[Cur].join_from \in OptId
                       /\ heap[Cur].join_from # NONE
                       /\ Named(heap[Cur].join_from)
      BY <1>1 DEF ExitWakes, IInv, TypeOK, LinksLeadToThreads, TCB
    <3> QED  BY <3>1, EntryOf DEF Joiner
  <2>3. ExitQueue \in Seq(Address)
    BY <2>2, AppendProperties DEF ExitQueue, IInv, TypeOK
  <2> QED  BY <1>1, <2>1, <2>3, SwitchKeepsStatus
<1>3. CASE exit_corrupts
  BY <1>3, EndStep DEF exit_corrupts, Outcomes
<1>4. CASE exit_last(arg, onOwnStack)
  <2>1. /\ heap' = ExitHeap(arg)
        /\ TCB_ARRAY' = [i \in DOMAIN TCB_ARRAY |-> NONE]
        /\ process' \in {"crash_own_stack", "exited"}
        /\ UNCHANGED <<MAX_THREAD_NUM, THREAD_NUM, CURRENT_RUNNING_THREAD_ID,
                       Q_head, cpu>>
    BY <1>4 DEF exit_last
  <2>2. Address' = Address /\ TCB' = TCB /\ Contexts' = Contexts /\ OptAddress' = OptAddress
    BY <2>1 DEF Address, TCB, Contexts, OptId, OptAddress
  <2>3. heap' \in [Address -> TCB] /\ StatusKept
    BY <1>1, <2>1, GoodHeapKeepsStatus DEF GoodHeap
  <2>4. TCB_ARRAY' \in [0..(MAX_THREAD_NUM - 1) -> OptAddress]
    BY <2>1 DEF IInv, TypeOK, OptAddress
  <2>5. TypeOK'
    BY <2>1, <2>2, <2>3, <2>4 DEF IInv, TypeOK, Outcomes
  <2> QED  BY <2>1, <2>3, <2>5 DEF IInv, SlotsConsistent, LinksLeadToThreads
<1> QED
  BY <1>2, <1>3, <1>4 DEF wut_exit

-----------------------------------------------------------------------------
(* The theorems *)

LEMMA InitInv ==
  ASSUME ConstantsAssumption, Init
  PROVE  IInv
<1>1. /\ heap = [t \in {0} |-> NewTCB(0, 0, FALSE)]
      /\ TCB_ARRAY = [i \in 0..(INITIAL_MAX - 1) |-> IF i = 0 THEN 0 ELSE NONE]
      /\ MAX_THREAD_NUM = INITIAL_MAX /\ THREAD_NUM = 1
      /\ CURRENT_RUNNING_THREAD_ID = 0 /\ Q_head = <<>>
      /\ cpu = Context(0, NONE) /\ process = "running"
      /\ INITIAL_MAX \in Nat \ {0}
  BY DEF Init, ConstantsAssumption
<1>2. Address = {0}
  BY <1>1 DEF Address
<1>3. Context(0, NONE) \in Contexts /\ 0 \in OptAddress /\ NONE \in OptAddress
  BY <1>2 DEF Context, Contexts, OptAddress
<1>4. NewTCB(0, 0, FALSE) \in TCB
  BY <1>1, <1>3 DEF NewTCB, TCB, OptId, Status
<1>5. TypeOK
  <2>1. heap \in [Address -> TCB]
    BY <1>1, <1>2, <1>4
  <2>2. TCB_ARRAY \in [0..(MAX_THREAD_NUM - 1) -> OptAddress]
    BY <1>1, <1>3
  <2> QED  BY <1>1, <1>3, <2>1, <2>2 DEF TypeOK, Outcomes
<1>6. heap[0] = NewTCB(0, 0, FALSE) /\ TCB_ARRAY[0] = 0 /\ 0 # NONE
  BY <1>1 DEF NONE
<1>7. SlotsConsistent
  BY <1>1, <1>6 DEF SlotsConsistent, NewTCB
<1>8. LinksLeadToThreads
  BY <1>1, <1>6 DEF LinksLeadToThreads, Cur, Named, NewTCB, NULL_CONTEXT, Context
<1> QED
  BY <1>5, <1>7, <1>8 DEF IInv

LEMMA NextInv ==
  ASSUME ConstantsAssumption, IInv, [Next]_vars
  PROVE  IInv' /\ StatusKept
<1>1. \A id \in Ids : id \in Nat
  BY DEF Ids
<1>2. CASE wut_create
  BY <1>2, CreateStep DEF StatusKept, IInv, TypeOK
<1>3. CASE wut_create_dies
  BY <1>3, CreateDiesStep
<1>4. ASSUME NEW id \in Ids, cancel_blocked(id)
      PROVE  IInv' /\ StatusKept
  BY <1>1, <1>4, CancelBlockedStep
<1>5. ASSUME NEW id \in Ids, cancel_ready(id)
      PROVE  IInv' /\ StatusKept
  BY <1>1, <1>5, CancelReadyStep
<1>6. CASE \/ \E id \in Ids : cancel_corrupts(id)
           \/ cancel_out_of_bounds
           \/ \E id \in Ids : join_null_tcb(id)
           \/ \E id \in Ids : join_empty_queue(id)
           \/ yield_corrupts
           \/ quit
  BY <1>6, EndStep DEF cancel_corrupts, cancel_out_of_bounds, join_null_tcb,
                       join_empty_queue, yield_corrupts, quit, Outcomes
<1>7. ASSUME NEW id \in Ids, wut_join(id)
      PROVE  IInv' /\ StatusKept
  BY <1>1, <1>7, JoinStep
<1>8. CASE wut_join_returns
  BY <1>8, JoinReturnsStep
<1>9. CASE wut_yield
  BY <1>9, YieldStep
<1>10. ASSUME NEW arg \in ExitArgs, explicit_exit(arg)
       PROVE  IInv' /\ StatusKept
  BY <1>10, ExitStep DEF explicit_exit, Calling, ConstantsAssumption
<1>11. CASE implicit_exit
  <2>1. process = "running" /\ wut_exit(0, FALSE)
    BY <1>11 DEF implicit_exit, Calling
  <2>2. 0 \in Int
    OBVIOUS
  <2> HIDE DEF wut_exit
  <2> QED  BY <2>1, <2>2, ExitStep, Zenon
<1>12. CASE Halted \/ UNCHANGED vars
  <2>1. UNCHANGED vars
    BY <1>12 DEF Halted
  <2>2. Address' = Address /\ TCB' = TCB /\ Contexts' = Contexts /\ OptAddress' = OptAddress
    BY <2>1 DEF vars, Address, TCB, Contexts, OptId, OptAddress
  <2>3. TypeOK'
    BY <2>1, <2>2 DEF vars, IInv, TypeOK
  <2>4. SlotsConsistent' /\ LinksLeadToThreads'
    BY <2>1 DEF vars, IInv, SlotsConsistent, LinksLeadToThreads, Named, Cur
  <2> QED  BY <2>1, <2>3, <2>4 DEF vars, IInv, StatusKept
<1> QED
  BY <1>2, <1>3, <1>4, <1>5, <1>6, <1>7, <1>8, <1>9, <1>10, <1>11, <1>12 DEF Next

(* The inductive invariant holds in every behaviour. *)
LEMMA SpecInv == Spec => []IInv
<1>1. Init => IInv
  BY InitInv, ConstantsAssumption
<1>2. IInv /\ [Next]_vars => IInv'
  BY NextInv, ConstantsAssumption
<1> QED
  BY <1>1, <1>2, PTL DEF Spec

(* Types hold for every client: in particular every index that is computed    *)
(* lies in TCB_ARRAY and every status that a join reports is a byte.          *)
THEOREM TypeCorrect == Spec => []TypeOK
<1>1. IInv => TypeOK
  BY DEF IInv
<1> QED
  BY <1>1, SpecInv, PTL

(* Whatever the client cancels, wut_create finds a slot in the array and the  *)
(* ids in use have no gap.                                                     *)
THEOREM SlotsAlwaysConsistent == Spec => []SlotsConsistent
<1>1. IInv => SlotsConsistent
  BY DEF IInv
<1> QED
  BY <1>1, SpecInv, PTL

(* Whatever the client cancels, no library call follows an id to a NULL entry *)
(* of TCB_ARRAY (the id that a client passes to wut_join aside).              *)
THEOREM LinksAlwaysLeadToThreads == Spec => []LinksLeadToThreads
<1>1. IInv => LinksLeadToThreads
  BY DEF IInv
<1> QED
  BY <1>1, SpecInv, PTL

(* Whatever the client does, a status once set is final.                      *)
THEOREM StatusAlwaysFinal == Spec => StatusFinal
<1>1. IInv /\ [Next]_vars =>
        [\A t \in DOMAIN heap : ~Live(t) => heap'[t].status = heap[t].status]_vars
  BY NextInv, ConstantsAssumption DEF StatusKept
<1> QED
  BY <1>1, SpecInv, PTL DEF Spec, StatusFinal
=============================================================================
