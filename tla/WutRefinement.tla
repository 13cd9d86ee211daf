---------------------------- MODULE WutRefinement ----------------------------
(***************************************************************************)
(* Wut implements Scheduler, for every number of threads and every client  *)
(* that cancels with care: each library call is one step of the first-come  *)
(* first-served scheduler.  What has to be shown besides the inductive      *)
(* invariant of WutCareful is that the flags and ids of the TCBs lead to    *)
(* the thread that waits (WaitersAre), which Scheduler finds by looking at  *)
(* all threads.                                                            *)
(***************************************************************************)
EXTENDS WutCareful

(* TAILQ_REMOVE of t's node, and the removal of t from a queue.             *)
LEMMA RemoveFirstIs ==
  ASSUME NEW S, NEW q \in Seq(S), NEW k \in 1..Len(q), Distinct(q)
  PROVE  Sched!RemoveFirst(q, q[k]) = RemoveAt(q, k)
<1> DEFINE I == {i \in 1..Len(q) : q[i] = q[k]}
<1>1. I = {k}
  BY DEF Distinct
<1>2. Sched!SelectInSeq(q, LAMBDA v : v = q[k]) = k
  BY <1>1 DEF Sched!SelectInSeq, Sched!Min
<1> QED
  BY <1>2 DEF Sched!RemoveFirst, Sched!RemoveAt, RemoveAt

LEMMA RemoveFirstNone ==
  ASSUME NEW q, NEW t, ~Among(q, t)
  PROVE  Sched!RemoveFirst(q, t) = q
  BY DEF Sched!RemoveFirst, Among

-----------------------------------------------------------------------------
(* The mapped state *)

LEMMA Mapped ==
  ASSUME IInv
  PROVE  /\ Sched!Born = Address /\ DOMAIN heap = Address
         /\ DOMAIN MappedWaiting = Address
         /\ \A t \in Address :
              /\ Sched!Alive(t) <=> Alive(heap, t)
              /\ MappedWaiting[t] = IF heap[t].status # NONE THEN NONE
                                    ELSE Inside(heap, cpu.thread, cpu.joined, t)
<1>1. DOMAIN heap = Address
  BY DEF IInv, TypeOK
<1> QED
  BY <1>1 DEF Sched!Born, Sched!Alive, Sched!NONE, NONE, MappedWaiting, Live, Alive, Inside

(* The threads that wait for a live thread u are its joiner, if any.        *)
LEMMA WaitersAre ==
  ASSUME NEW a, NEW h, NEW q, NEW c, World(a, h, q, c, NONE), Shaped(h, q),
         NEW u \in DOMAIN h, Alive(h, u)
  PROVE  /\ h[u].join = 1 <=> h[u].join_from # NONE
         /\ \A t \in DOMAIN h :
              Alive(h, t) /\ Inside(h, c, NONE, t) = u <=>
                h[u].join = 1 /\ t = a[h[u].join_from]
<1>1. h[u].join = 1 \/ h[u].join_from # NONE =>
        LET w == a[h[u].join_from]
        IN /\ w \in DOMAIN h /\ Waiting(h, q, c, w) /\ Held(h, w, u)
           /\ h[u].join = 1 /\ h[u].join_from # NONE
           /\ \A t \in DOMAIN h : Waiting(h, q, c, t) /\ Held(h, t, u) => t = w
  BY JoinerOf
<1>2. u # NONE
  BY DEF Shaped
<1>3. ASSUME NEW t \in DOMAIN h, Alive(h, t), Inside(h, c, NONE, t) = u
      PROVE  h[u].join = 1 /\ t = a[h[u].join_from]
  <2>1. t # c /\ h[t].ucontext.joined = u
    BY <1>2, <1>3 DEF Inside
  <2>2. ~Among(q, t)
    BY <1>2, <2>1 DEF World, QueueReady
  <2>3. Waiting(h, q, c, t)
    BY <1>3, <2>1, <2>2 DEF Waiting
  <2>4. PICK v \in DOMAIN h : Held(h, t, v)
    BY <2>3 DEF World, WaitersHeld
  <2>5. v = u
    BY <2>1, <2>4 DEF Held
  <2>6. h[u].join = 1
    BY <2>4, <2>5 DEF Held
  <2> QED
    BY <1>1, <2>3, <2>4, <2>5, <2>6
<1>4. ASSUME NEW t \in DOMAIN h, h[u].join = 1, t = a[h[u].join_from]
      PROVE  Alive(h, t) /\ Inside(h, c, NONE, t) = u
  BY <1>1, <1>4 DEF Waiting, Held, Inside
<1> QED
  BY <1>1, <1>3, <1>4

(* A client's code runs. *)
LEMMA Client ==
  ASSUME IInv, Waits, process = "running", cpu.joined = NONE
  PROVE  /\ Sched!InClient /\ MappedWaiting[cpu.thread] = NONE
         /\ \A u \in Address : Alive(heap, u) =>
              /\ heap[u].join = 1 <=> HasJoiner(u)
              /\ heap[u].join # 1 => Sched!Waiters(u) = {}
              /\ Sched!Released(Q_head, u) = CancelQueue(u)
<1>1. /\ cpu.thread \in Address
      /\ World(TCB_ARRAY, heap, Q_head, cpu.thread, NONE)
      /\ Shaped(heap, Q_head) /\ DOMAIN heap = Address
  BY RunningWorld
<1>2. MappedWaiting[cpu.thread] = NONE
  BY <1>1, Mapped DEF Inside
<1>3. Sched!InClient
  BY <1>2 DEF Sched!InClient, Sched!NONE, NONE
<1>4. ASSUME NEW u \in Address, Alive(heap, u)
      PROVE  /\ heap[u].join = 1 <=> HasJoiner(u)
             /\ heap[u].join # 1 => Sched!Waiters(u) = {}
             /\ Sched!Released(Q_head, u) = CancelQueue(u)
  <2>1. /\ heap[u].join = 1 <=> HasJoiner(u)
        /\ \A t \in Address :
             Alive(heap, t) /\ Inside(heap, cpu.thread, NONE, t) = u <=>
               heap[u].join = 1 /\ t = Joiner(u)
    BY <1>1, <1>4, WaitersAre DEF HasJoiner, Joiner
  <2>2. Sched!Waiters(u) = {t \in Address : heap[u].join = 1 /\ t = Joiner(u)}
    <3>1. \A t \in Address : MappedWaiting[t] = u <=> heap[u].join = 1 /\ t = Joiner(u)
      <4>1. u # NONE
        BY <1>1, <1>4 DEF Shaped
      <4> QED
        BY <2>1, <4>1, Mapped DEF Alive
    <3> QED
      BY <3>1, Mapped DEF Sched!Waiters
  <2>3. CASE heap[u].join = 1
    <3>1. Joiner(u) \in Address
      BY <1>1, <1>4, <2>3, JoinerOf DEF Joiner
    <3>2. Sched!Waiters(u) = {Joiner(u)}
      BY <2>2, <2>3, <3>1
    <3> QED
      BY <2>1, <2>3, <3>2 DEF Sched!Released, CancelQueue
  <2>4. CASE heap[u].join # 1
    <3>1. Sched!Waiters(u) = {}
      BY <2>2, <2>4
    <3> QED
      BY <2>1, <2>4, <3>1 DEF Sched!Released, CancelQueue
  <2> QED
    BY <2>1, <2>3, <2>4
<1> QED
  BY <1>2, <1>3, <1>4

(* The next thread gets the processor. *)
LEMMA DispatchMaps ==
  ASSUME process = "running", NEW h, NEW q, Dispatched(h, q)
  PROVE  /\ Sched!Dispatch(q)
         /\ MappedWaiting' = [t \in DOMAIN h |-> IF h[t].status # NONE THEN NONE
                                                 ELSE h[t].ucontext.joined]
         /\ heap' = h
<1>1. /\ q # <<>> /\ heap' = h /\ Q_head' = Tail(q)
      /\ cpu' = h[Head(q)].ucontext /\ cpu'.thread = Head(q) /\ process' = "running"
  BY DEF Dispatched
<1>2. Sched!Dispatch(q)
  BY <1>1 DEF Sched!Dispatch
<1>3. MappedWaiting' = [t \in DOMAIN h |-> IF h[t].status # NONE THEN NONE
                                           ELSE h[t].ucontext.joined]
  BY <1>1 DEF MappedWaiting, Live
<1> QED
  BY <1>1, <1>2, <1>3

-----------------------------------------------------------------------------
(* The steps *)

(* Only results and waiting of Sched depend on the heap. *)
LEMMA SameMaps ==
  ASSUME IInv, DOMAIN heap' = Address, \A t \in Address : heap'[t].status = heap[t].status,
         DOMAIN MappedWaiting' = Address,
         \A t \in Address : MappedWaiting'[t] = MappedWaiting[t]
  PROVE  /\ [t \in DOMAIN heap |-> heap[t].status]' = [t \in DOMAIN heap |-> heap[t].status]
         /\ MappedWaiting' = MappedWaiting
<1>1. DOMAIN heap = Address
  BY DEF IInv, TypeOK
<1>2. MappedWaiting = [t \in Address |-> MappedWaiting[t]]
  BY <1>1 DEF MappedWaiting
<1>3. MappedWaiting' = [t \in Address |-> MappedWaiting'[t]]
  BY DEF MappedWaiting
<1>4. MappedWaiting' = MappedWaiting
  BY <1>2, <1>3
<1>5. [t \in DOMAIN heap |-> heap[t].status]' = [t \in DOMAIN heap |-> heap[t].status]
  BY <1>1
<1> QED
  BY <1>4, <1>5

LEMMA YieldMaps ==
  ASSUME IInv, Waits, wut_yield
  PROVE  Sched!Yield
<1> DEFINE c == cpu.thread
           g == SaveContext(heap, NONE)
<1>1. /\ process = "running" /\ cpu.joined = NONE /\ Q_head # <<>>
      /\ Dispatched(g, YieldQueue)
  BY YieldWaits DEF wut_yield, Calling
<1>2. Cur = c /\ c \in Address /\ DOMAIN heap = Address /\ heap[c].status = NONE
  BY <1>1, RunningWorld DEF Alive
<1>3. heap \in [Address -> TCB]
  BY DEF IInv, TypeOK
<1>4. Sched!InClient
  BY <1>1, Client
<1>5. /\ Sched!Dispatch(YieldQueue) /\ heap' = g
      /\ MappedWaiting' = [t \in DOMAIN g |-> IF g[t].status # NONE THEN NONE
                                              ELSE g[t].ucontext.joined]
  BY <1>1, DispatchMaps
<1>6. /\ DOMAIN g = Address
      /\ \A t \in Address : g[t].status = heap[t].status
      /\ \A t \in Address \ {c} : g[t].ucontext = heap[t].ucontext
      /\ g[c].ucontext.joined = NONE
  BY <1>2, <1>3 DEF SaveContext, TCB, Context
<1> HIDE DEF g, c
<1>7. \A t \in Address : MappedWaiting'[t] = MappedWaiting[t]
  BY <1>1, <1>2, <1>5, <1>6, Mapped DEF Inside, c
<1>8. DOMAIN heap' = Address /\ DOMAIN MappedWaiting' = Address
      /\ \A t \in Address : heap'[t].status = heap[t].status
  BY <1>5, <1>6
<1>9. UNCHANGED <<[t \in DOMAIN heap |-> heap[t].status], MappedWaiting>>
  BY <1>7, <1>8, SameMaps
<1>10. Sched!Dispatch(Append(Q_head, cpu.thread))
  BY <1>2, <1>5 DEF YieldQueue, c
<1> QED
  BY <1>1, <1>4, <1>9, <1>10 DEF Sched!Yield

LEMMA JoinMaps ==
  ASSUME IInv, Waits, NEW id \in Nat, wut_join(id)
  PROVE  \E u \in Sched!Born : Sched!Wait(u)
<1> DEFINE c == cpu.thread
           u == TCB_ARRAY[id]
           g == SaveContext(JoinHeap(id), u)
<1>1. /\ process = "running" /\ cpu.joined = NONE
      /\ id # CURRENT_RUNNING_THREAD_ID /\ id < THREAD_NUM
      /\ u # NONE /\ heap[u].status = NONE /\ heap[u].join # 1
      /\ Dispatched(g, Q_head)
  BY JoinWaits DEF wut_join, JoinBlocks, Joining, Calling
<1>2. /\ Cur = c /\ c \in Address /\ DOMAIN heap = Address /\ heap[c].status = NONE
      /\ heap[c].id = CURRENT_RUNNING_THREAD_ID
  BY <1>1, RunningWorld DEF Alive
<1>3. heap \in [Address -> TCB]
  BY DEF IInv, TypeOK
<1>4. id \in 0..(MAX_THREAD_NUM - 1)
  BY <1>1 DEF IInv, TypeOK, SlotsConsistent
<1>5. u \in Address /\ heap[u].id = id
  BY <1>1, <1>4 DEF IInv, TypeOK, SlotsConsistent, OptAddress
<1>6. u # c
  BY <1>1, <1>2, <1>5
<1>7. /\ Sched!Dispatch(Q_head) /\ heap' = g
      /\ MappedWaiting' = [t \in DOMAIN g |-> IF g[t].status # NONE THEN NONE
                                              ELSE g[t].ucontext.joined]
  BY <1>1, DispatchMaps
<1> HIDE DEF u, c
<1>8. /\ DOMAIN g = Address
      /\ \A t \in Address : g[t].status = heap[t].status
      /\ \A t \in Address \ {c} : g[t].ucontext = heap[t].ucontext
      /\ g[c].ucontext.joined = u
  <2>1. g = [heap EXCEPT ![c].block = 1, ![c].join_to = id,
                         ![u].join = 1, ![u].enable = 0,
                         ![u].join_from = CURRENT_RUNNING_THREAD_ID,
                         ![c].ucontext = Context(c, u)]
    BY <1>2 DEF SaveContext, JoinHeap, c, u
  <2> HIDE DEF g
  <2>2. /\ DOMAIN g = Address
        /\ g[c] = [heap[c] EXCEPT !.block = 1, !.join_to = id,
                                  !.ucontext = Context(c, u)]
        /\ g[u] = [heap[u] EXCEPT !.join = 1, !.enable = 0,
                                  !.join_from = CURRENT_RUNNING_THREAD_ID]
        /\ \A t \in Address \ {c, u} : g[t] = heap[t]
    BY <1>2, <1>3, <1>5, <1>6, <2>1
  <2>3. heap[c] \in TCB /\ heap[u] \in TCB
    BY <1>2, <1>3, <1>5
  <2>4. g[c].status = heap[c].status /\ g[c].ucontext.joined = u
    BY <2>2, <2>3 DEF TCB, Context
  <2>5. g[u].status = heap[u].status /\ g[u].ucontext = heap[u].ucontext
    BY <2>2, <2>3 DEF TCB
  <2> QED
    BY <2>2, <2>4, <2>5
<1> HIDE DEF g
<1>9. Sched!InClient /\ Sched!Waiters(u) = {} /\ Sched!Alive(u) /\ u \in Sched!Born
  <2>1. Alive(heap, u) /\ heap[u].join # 1
    BY <1>1 DEF Alive
  <2> QED
    BY <1>1, <1>5, <2>1, Client, Mapped
<1>10. [t \in DOMAIN heap |-> heap[t].status]' = [t \in DOMAIN heap |-> heap[t].status]
  BY <1>2, <1>7, <1>8
<1>11. MappedWaiting' = [MappedWaiting EXCEPT ![c] = u]
  <2>1. MappedWaiting = [t \in Address |-> MappedWaiting[t]]
    BY <1>2 DEF MappedWaiting
  <2>2. \A t \in Address \ {c} : MappedWaiting'[t] = MappedWaiting[t]
    BY <1>1, <1>7, <1>8, Mapped DEF Inside, c
  <2>3. MappedWaiting'[c] = u
    BY <1>2, <1>7, <1>8
  <2> QED
    BY <1>2, <1>7, <1>8, <2>1, <2>2, <2>3
<1>12. Sched!Wait(u)
  BY <1>6, <1>7, <1>9, <1>10, <1>11 DEF Sched!Wait, c
<1> QED
  BY <1>9, <1>12

LEMMA ReturnsMaps ==
  ASSUME IInv, Waits, wut_join_returns
  PROVE  Sched!WaitReturns
<1> DEFINE c == cpu.thread
           j == cpu.joined
<1>1. /\ process = "running" /\ j # NONE
      /\ heap' = [heap EXCEPT ![j].enable = 1]
      /\ cpu' = [cpu EXCEPT !.joined = NONE]
      /\ UNCHANGED <<Q_head, process>>
  BY DEF wut_join_returns
<1>2. /\ c \in Address /\ j \in Address /\ DOMAIN heap = Address
      /\ heap[c].status = NONE /\ heap[j].status # NONE
  BY <1>1, RunningWorld DEF OptAddress, World, RunnerAlive, Alive, Shaped
<1>3. heap \in [Address -> TCB]
  BY DEF IInv, TypeOK
<1>4. cpu'.thread = c /\ cpu'.joined = NONE
  BY <1>1, Running
<1> HIDE DEF j, c
<1>5. /\ DOMAIN heap' = Address
      /\ \A t \in Address : /\ heap'[t].status = heap[t].status
                            /\ heap'[t].ucontext = heap[t].ucontext
  BY <1>1, <1>2, <1>3 DEF TCB
<1>6. MappedWaiting[c] = j
  BY <1>2, Mapped DEF Inside, c, j
<1>7. MappedWaiting' = [MappedWaiting EXCEPT ![c] = NONE]
  <2>1. MappedWaiting = [t \in Address |-> MappedWaiting[t]]
    BY <1>2 DEF MappedWaiting
  <2>2. MappedWaiting' = [t \in Address |->
          IF heap[t].status # NONE THEN NONE
          ELSE IF t = c THEN NONE ELSE heap[t].ucontext.joined]
    BY <1>4, <1>5 DEF MappedWaiting, Live
  <2>3. \A t \in Address \ {c} : MappedWaiting[t] =
          IF heap[t].status # NONE THEN NONE ELSE heap[t].ucontext.joined
    BY Mapped DEF Inside, c
  <2> QED
    BY <1>2, <2>1, <2>2, <2>3
<1>8. [t \in DOMAIN heap |-> heap[t].status]' = [t \in DOMAIN heap |-> heap[t].status]
  BY <1>2, <1>5
<1>9. Sched!InCall /\ ~Sched!Alive(MappedWaiting[cpu.thread])
  BY <1>1, <1>2, <1>6, Mapped DEF Sched!InCall, Sched!NONE, NONE, c, Alive
<1> QED
  BY <1>1, <1>4, <1>7, <1>8, <1>9 DEF Sched!WaitReturns, Sched!NONE, NONE, c

(* What of a heap Sched sees. *)
Seen(g, h) ==
  /\ DOMAIN g = Address
  /\ \A v \in Address : g[v].status = h[v].status /\ g[v].ucontext = h[v].ucontext

(* A thread ends by wut_cancel: q is the queue with its joiner. *)
LEMMA KillMaps ==
  ASSUME IInv, Waits, process = "running", cpu.joined = NONE,
         UNCHANGED <<cpu, process>>,
         NEW t \in Address, t # cpu.thread, Alive(heap, t),
         DOMAIN heap' = Address, heap'[t].status = 128,
         \A v \in Address \ {t} : /\ heap'[v].status = heap[v].status
                                  /\ heap'[v].ucontext = heap[v].ucontext,
         Q_head' = Sched!RemoveFirst(CancelQueue(t), t)
  PROVE  \E u \in Sched!Born : Sched!Kill(u)
<1>1. /\ Sched!InClient /\ Sched!Released(Q_head, t) = CancelQueue(t)
      /\ t \in Sched!Born /\ Sched!Alive(t) /\ DOMAIN heap = Address
  <2>1. Sched!InClient /\ Sched!Released(Q_head, t) = CancelQueue(t)
    BY Client
  <2>2. t \in Sched!Born /\ Sched!Alive(t) /\ DOMAIN heap = Address
    BY Mapped
  <2> QED
    BY <2>1, <2>2
<1>2. [v \in DOMAIN heap |-> heap[v].status]' =
        [[v \in DOMAIN heap |-> heap[v].status] EXCEPT ![t] = 128]
  <2>1. [v \in DOMAIN heap |-> heap[v].status]' = [v \in Address |-> heap'[v].status]
    OBVIOUS
  <2>2. [[v \in DOMAIN heap |-> heap[v].status] EXCEPT ![t] = 128] =
          [v \in Address |-> IF v = t THEN 128 ELSE heap[v].status]
    BY <1>1
  <2>3. \A v \in Address :
          heap'[v].status = IF v = t THEN 128 ELSE heap[v].status
    OBVIOUS
  <2> QED
    BY <2>1, <2>2, <2>3
<1>3. MappedWaiting' = [MappedWaiting EXCEPT ![t] = NONE]
  <2>1. MappedWaiting' = [v \in Address |->
          IF heap'[v].status # NONE THEN NONE
          ELSE IF v = cpu.thread THEN cpu.joined ELSE heap'[v].ucontext.joined]
    BY DEF MappedWaiting, Live
  <2>2. MappedWaiting = [v \in Address |->
          IF heap[v].status # NONE THEN NONE
          ELSE IF v = cpu.thread THEN cpu.joined ELSE heap[v].ucontext.joined]
    BY <1>1 DEF MappedWaiting, Live
  <2>3. 128 # NONE
    BY DEF NONE
  <2>4. MappedWaiting'[t] = NONE
    BY <2>1, <2>3
  <2>5. \A v \in Address \ {t} : MappedWaiting'[v] = MappedWaiting[v]
    BY <2>1, <2>2
  <2>6. DOMAIN MappedWaiting' = Address /\ DOMAIN MappedWaiting = Address
        /\ MappedWaiting' = [v \in Address |-> MappedWaiting'[v]]
    BY <2>1, <2>2
  <2> QED
    BY <2>2, <2>4, <2>5, <2>6
<1>4. Sched!Kill(t)
  BY <1>1, <1>2, <1>3 DEF Sched!Kill, Sched!KILLED, Sched!NONE, NONE
<1> QED
  BY <1>1, <1>4

LEMMA CancelBlockedMaps ==
  ASSUME CarefulCancel, IInv, Waits, NEW id \in Nat, cancel_blocked(id)
  PROVE  \E u \in Sched!Born : Sched!Kill(u)
<1> DEFINE t == TCB_ARRAY[id]
           u == TCB_ARRAY[heap[t].join_to]
           h == CancelWake(t)
           w == Joiner(t)
<1>1. /\ Cancelling(id) /\ process = "running" /\ cpu.joined = NONE
      /\ heap[t].block = 1
      /\ heap' = Unjoin([h EXCEPT ![t].block = 0], u)
      /\ Q_head' = CancelQueue(t)
      /\ UNCHANGED <<cpu, process>>
  BY DEF cancel_blocked, Cancelling, Calling
<1> HIDE DEF t, u, h, w
<1>2. /\ t \in Address /\ t # cpu.thread /\ Alive(heap, t)
      /\ HasJoiner(t) => w \in Address /\ w # t
      /\ Waiting(heap, Q_head, cpu.thread, t)
      /\ \A v : Among(CancelQueue(t), v) <=> Among(Q_head, v) \/ (HasJoiner(t) /\ v = w)
  <2>1. t = TCB_ARRAY[id] /\ w = TCB_ARRAY[heap[t].join_from]
        /\ (HasJoiner(t) <=> heap[t].join_from # NONE)
    BY DEF t, w, Joiner, HasJoiner
  <2> QED
    BY <1>1, <2>1, CancelFacts
<1>3. WakeTCBs(t, w, HasJoiner(t), h)
  BY <1>2, WakeEntries DEF h, w
<1>4. h \in [Address -> TCB] /\ \A v \in Address : heap[v] \in TCB
  BY <1>1, <1>2, CancelTarget DEF h, t, GoodHeap, IInv, TypeOK
<1>5. \A v \in Address \ {t} : /\ h[v].status = heap[v].status
                               /\ h[v].ucontext = heap[v].ucontext
  <2> TAKE v \in Address \ {t}
  <2>1. CASE HasJoiner(t) /\ v = w
    <3>1. h[v] = [heap[v] EXCEPT !.join = 0, !.join_to = NONE, !.block = 0]
      BY <1>3, <2>1 DEF WakeTCBs
    <3>2. heap[v] \in TCB
      BY <1>4
    <3> QED
      BY <3>1, <3>2 DEF TCB
  <2>2. CASE ~(HasJoiner(t) /\ v = w)
    BY <1>3, <2>2 DEF WakeTCBs
  <2> QED
    BY <2>1, <2>2
<1>6. h[t].status = 128
  BY <1>2, <1>3, <1>4 DEF WakeTCBs, TCB
<1> DEFINE g == heap'
<1>7. Seen(g, h)
  <2> DEFINE k == [h EXCEPT ![t].block = 0]
  <2>1. DOMAIN k = Address /\ \A v \in Address : k[v] \in TCB /\
          k[v].status = h[v].status /\ k[v].ucontext = h[v].ucontext
    BY <1>2, <1>4 DEF TCB
  <2>2. g = [k EXCEPT ![u].join_from = NONE, ![u].join = 0]
    BY <1>1 DEF Unjoin
  <2> HIDE DEF k, g
  <2>3. DOMAIN g = Address /\ \A v \in Address :
          g[v] = k[v] \/ g[v] = [k[v] EXCEPT !.join_from = NONE, !.join = 0]
    BY <2>1, <2>2
  <2>4. ASSUME NEW v \in Address
        PROVE  g[v].status = h[v].status /\ g[v].ucontext = h[v].ucontext
    BY <2>1, <2>3 DEF TCB
  <2> QED
    BY <2>3, <2>4 DEF Seen
<1>8. Q_head' = Sched!RemoveFirst(CancelQueue(t), t)
  <2>1. ~Among(CancelQueue(t), t)
    BY <1>2 DEF Waiting
  <2> QED
    BY <1>1, <2>1, RemoveFirstNone
<1>9. /\ DOMAIN heap' = Address /\ heap'[t].status = 128
      /\ \A v \in Address \ {t} : /\ heap'[v].status = heap[v].status
                                  /\ heap'[v].ucontext = heap[v].ucontext
  BY <1>2, <1>5, <1>6, <1>7 DEF Seen
<1> QED
  BY <1>1, <1>2, <1>8, <1>9, KillMaps

LEMMA CancelReadyMaps ==
  ASSUME CarefulCancel, IInv, Waits, NEW id \in Nat, cancel_ready(id)
  PROVE  \E u \in Sched!Born : Sched!Kill(u)
<1> DEFINE t == TCB_ARRAY[id]
           h == CancelWake(t)
           w == Joiner(t)
<1>1. /\ Cancelling(id) /\ process = "running" /\ cpu.joined = NONE
      /\ heap' = [h EXCEPT ![t].ucontext = NULL_CONTEXT]
      /\ UNCHANGED <<cpu, process>>
  BY DEF cancel_ready, Cancelling, Calling
<1>2. PICK k \in 1..Len(Q_head) : Q_head[k] = t /\ Q_head' = RemoveAt(CancelQueue(t), k)
  BY DEF cancel_ready, WithoutNode
<1> HIDE DEF t, h, w
<1>3. /\ t \in Address /\ t # cpu.thread /\ Alive(heap, t)
      /\ HasJoiner(t) => w \in Address /\ w # t
      /\ CancelQueue(t) \in Seq(Address) /\ Distinct(CancelQueue(t))
  <2>1. t = TCB_ARRAY[id] /\ w = TCB_ARRAY[heap[t].join_from]
        /\ (HasJoiner(t) <=> heap[t].join_from # NONE)
    BY DEF t, w, Joiner, HasJoiner
  <2> QED
    BY <1>1, <2>1, CancelFacts
<1>4. WakeTCBs(t, w, HasJoiner(t), h)
  BY <1>3, WakeEntries DEF h, w
<1>5. h \in [Address -> TCB] /\ \A v \in Address : heap[v] \in TCB
  BY <1>1, <1>3, CancelTarget DEF h, t, GoodHeap, IInv, TypeOK
<1>6. \A v \in Address \ {t} : /\ h[v].status = heap[v].status
                               /\ h[v].ucontext = heap[v].ucontext
  <2> TAKE v \in Address \ {t}
  <2>1. CASE HasJoiner(t) /\ v = w
    <3>1. h[v] = [heap[v] EXCEPT !.join = 0, !.join_to = NONE, !.block = 0]
      BY <1>4, <2>1 DEF WakeTCBs
    <3>2. heap[v] \in TCB
      BY <1>5
    <3> QED
      BY <3>1, <3>2 DEF TCB
  <2>2. CASE ~(HasJoiner(t) /\ v = w)
    BY <1>4, <2>2 DEF WakeTCBs
  <2> QED
    BY <2>1, <2>2
<1>7. h[t].status = 128
  BY <1>3, <1>4, <1>5 DEF WakeTCBs, TCB
<1>8. /\ DOMAIN heap' = Address /\ heap'[t].status = 128
      /\ \A v \in Address \ {t} : heap'[v] = h[v]
  BY <1>1, <1>3, <1>5, <1>7 DEF TCB
<1>9. Q_head' = Sched!RemoveFirst(CancelQueue(t), t)
  <2>1. k \in 1..Len(CancelQueue(t)) /\ CancelQueue(t)[k] = t
    <3>1. Q_head \in Seq(Address)
      BY DEF IInv, TypeOK
    <3>2. CASE HasJoiner(t)
      <4>1. CancelQueue(t) = Append(Q_head, w) /\ w \in Address
        BY <1>3, <3>2 DEF CancelQueue, w
      <4> QED
        BY <1>2, <3>1, <4>1
    <3>3. CASE ~HasJoiner(t)
      BY <1>2, <3>3 DEF CancelQueue
    <3> QED
      BY <3>2, <3>3
  <2>2. Sched!RemoveFirst(CancelQueue(t), CancelQueue(t)[k]) = RemoveAt(CancelQueue(t), k)
    BY <1>3, <2>1, RemoveFirstIs
  <2> QED
    BY <1>2, <2>1, <2>2
<1> QED
  BY <1>1, <1>3, <1>6, <1>8, <1>9, KillMaps

LEMMA ExitMaps ==
  ASSUME ConstantsAssumption, IInv, Waits, process = "running", cpu.joined = NONE,
         NEW arg \in Int, NEW onOwnStack, wut_exit(arg, onOwnStack)
  PROVE  \E r \in 0..255 : Sched!Finish(r)
<1> DEFINE c == cpu.thread
           g == ExitHeap(arg)
<1>1. /\ Cur = c /\ c \in Address /\ DOMAIN heap = Address /\ heap[c].status = NONE
  BY RunningWorld DEF Alive
<1>2. PICK r \in 0..255 : r = ExitStatus(arg) /\ r # NONE
  <2>1. ExitStatus(arg) \in 0..255 /\ ExitStatus(arg) # NONE
    <3>1. ExitStatus(arg) = arg % 256
      BY <1>1 DEF ExitStatus
    <3> QED
      BY <3>1 DEF NONE
  <2> QED
    BY <2>1
<1>3. Sched!InClient /\ Sched!Released(Q_head, c) = ExitQueue
  <2>1. Alive(heap, c)
    BY <1>1 DEF Alive
  <2>2. /\ Sched!InClient /\ Sched!Released(Q_head, c) = CancelQueue(c)
        /\ (heap[c].join = 1 <=> HasJoiner(c))
    BY <1>1, <2>1, Client
  <2> QED
    BY <1>1, <2>2 DEF ExitQueue, CancelQueue, ExitWakes
<1>4. heap \in [Address -> TCB]
  BY DEF IInv, TypeOK
<1> HIDE DEF c
<1>5. /\ DOMAIN g = Address /\ g[c].status = r
      /\ \A t \in Address \ {c} : g[t].status = heap[t].status
      /\ \A t \in Address : g[t].ucontext = heap[t].ucontext
  <2> DEFINE h == [heap EXCEPT ![c].status = r]
  <2>1. g = IF heap[c].join = 1 THEN [h EXCEPT ![c].join = 0, ![c].join_from = NONE] ELSE h
    BY <1>1, <1>2 DEF ExitHeap, ExitWakes
  <2> HIDE DEF g
  <2>2. DOMAIN g = Address /\ \A t \in Address \ {c} : g[t] = heap[t]
    BY <1>1, <1>4, <2>1
  <2>3. g[c].ucontext = heap[c].ucontext /\ g[c].status = r
    BY <1>1, <1>4, <2>1 DEF TCB
  <2> QED
    BY <2>2, <2>3
<1>6. Dispatched(g, ExitQueue) \/ exit_last(arg, onOwnStack)
  BY ExitWaits
<1>7. heap' = g
  BY <1>6 DEF Dispatched, exit_last
<1> HIDE DEF g
<1>8. [v \in DOMAIN heap |-> heap[v].status]' =
        [[v \in DOMAIN heap |-> heap[v].status] EXCEPT ![c] = r]
  BY <1>1, <1>5, <1>7
<1> DEFINE left == [t \in Address |-> IF g[t].status # NONE THEN NONE
                                      ELSE g[t].ucontext.joined]
<1>9. MappedWaiting = left
  <2>1. MappedWaiting = [t \in Address |->
          IF heap[t].status # NONE THEN NONE
          ELSE IF t = c THEN NONE ELSE heap[t].ucontext.joined]
    BY <1>1 DEF MappedWaiting, Live, c
  <2>2. \A t \in Address :
          (IF heap[t].status # NONE THEN NONE
           ELSE IF t = c THEN NONE ELSE heap[t].ucontext.joined) =
          (IF g[t].status # NONE THEN NONE ELSE g[t].ucontext.joined)
    BY <1>1, <1>2, <1>5
  <2> QED
    BY <2>1, <2>2
<1>10. CASE Dispatched(g, ExitQueue)
  <2>1. Sched!Dispatch(ExitQueue) /\ MappedWaiting' = left
    BY <1>5, <1>10, DispatchMaps
  <2>2. Sched!Finish(r)
    BY <1>3, <1>8, <1>9, <2>1 DEF Sched!Finish, c
  <2> QED
    BY <1>2, <2>2
<1>11. CASE exit_last(arg, onOwnStack)
  <2>1. /\ ExitQueue = <<>> /\ UNCHANGED <<Q_head, cpu>> /\ process' # "running"
    BY <1>11 DEF exit_last
  <2>2. MappedWaiting' = left
    <3>1. MappedWaiting' = [t \in Address |->
            IF g[t].status # NONE THEN NONE
            ELSE IF t = c THEN NONE ELSE g[t].ucontext.joined]
      BY <1>5, <1>7, <2>1 DEF MappedWaiting, Live, c
    <3>2. g[c].status # NONE
      BY <1>2, <1>5
    <3> QED
      BY <3>1, <3>2
  <2>3. Sched!Finish(r)
    BY <1>3, <1>8, <1>9, <2>1, <2>2 DEF Sched!Finish, c
  <2> QED
    BY <1>2, <2>3
<1> QED
  BY <1>6, <1>10, <1>11

LEMMA CreateMaps ==
  ASSUME IInv, Waits, wut_create
  PROVE  \E t \in Ids : Sched!Spawn(t)
<1>1. /\ process = "running" /\ cpu.joined = NONE /\ THREAD_NUM < MAX_CREATED
      /\ Q_head' = Append(Q_head, THREAD_NUM) /\ UNCHANGED <<cpu, process>>
  BY DEF wut_create, Calling
<1>2. THREAD_NUM \in Nat \ {0} /\ heap \in [Address -> TCB] /\ Address = 0..(THREAD_NUM - 1)
  BY DEF IInv, TypeOK, Address
<1>3. PICK n \in Ids : n = THREAD_NUM
  <2>1. MAX_CREATED \in Nat
    BY ConstantsAssumption DEF ConstantsAssumption
  <2>2. THREAD_NUM \in Ids
    BY <1>1, <1>2, <2>1 DEF Ids
  <2> QED
    BY <2>2
<1>4. PICK slot : heap' = [t \in 0..n |->
                             IF t = n THEN NewTCB(slot, t, TRUE) ELSE heap[t]]
  BY <1>3 DEF wut_create
<1>5. n \notin Address /\ 0..n = Address \cup {n}
  BY <1>2, <1>3
<1>6. /\ DOMAIN heap' = Address \cup {n}
      /\ \A t \in Address : heap'[t] = heap[t]
      /\ heap'[n].status = NONE /\ heap'[n].ucontext.joined = NONE
  BY <1>4, <1>5 DEF NewTCB, Context
<1>7. Sched!InClient /\ Sched!Born = Address /\ cpu.thread \in Address /\ DOMAIN heap = Address
  BY <1>1, Client, Mapped, RunningWorld
<1>8. [t \in DOMAIN heap |-> heap[t].status]' =
        [t \in Address \cup {n} |->
           IF t = n THEN NONE ELSE [u \in DOMAIN heap |-> heap[u].status][t]]
  BY <1>5, <1>6, <1>7
<1>9. MappedWaiting' =
        [t \in Address \cup {n} |-> IF t = n THEN NONE ELSE MappedWaiting[t]]
  <2>1. MappedWaiting' = [t \in Address \cup {n} |->
          IF heap'[t].status # NONE THEN NONE
          ELSE IF t = cpu.thread THEN cpu.joined ELSE heap'[t].ucontext.joined]
    BY <1>1, <1>6 DEF MappedWaiting, Live
  <2>2. \A t \in Address : MappedWaiting[t] =
          IF heap[t].status # NONE THEN NONE
          ELSE IF t = cpu.thread THEN cpu.joined ELSE heap[t].ucontext.joined
    BY Mapped DEF Inside
  <2>3. \A t \in Address : t # n
    BY <1>5
  <2> QED
    BY <1>5, <1>6, <1>7, <2>1, <2>2, <2>3
<1>10. Sched!Spawn(n)
  BY <1>1, <1>3, <1>5, <1>7, <1>8, <1>9 DEF Sched!Spawn, Sched!NONE, NONE
<1> QED
  BY <1>10

(* Every other way for the process to end. *)
LEMMA HaltMaps ==
  ASSUME process = "running", process' # "running", UNCHANGED <<heap, cpu, Q_head>>
  PROVE  Sched!Halt
<1>1. MappedWaiting' = MappedWaiting
  BY DEF MappedWaiting, Live
<1> QED
  BY <1>1 DEF Sched!Halt

LEMMA InitMaps ==
  ASSUME ConstantsAssumption, Init
  PROVE  Sched!Init
<1>1. /\ heap = [t \in {0} |-> NewTCB(0, 0, FALSE)]
      /\ Q_head = <<>> /\ cpu = Context(0, NONE) /\ process = "running"
  BY DEF Init
<1>2. DOMAIN heap = {0} /\ heap[0].status = NONE
  BY <1>1 DEF NewTCB
<1>3. MappedWaiting = [t \in {0} |-> NONE]
  BY <1>1, <1>2 DEF MappedWaiting, Live, Context
<1>4. [t \in DOMAIN heap |-> heap[t].status] = [t \in {0} |-> NONE]
  BY <1>2
<1>5. cpu.thread = 0
  BY <1>1 DEF Context
<1> QED
  BY <1>1, <1>3, <1>4, <1>5 DEF Sched!Init, Sched!NONE, NONE

LEMMA NextMaps ==
  ASSUME ConstantsAssumption, CarefulCancel, CInv, [Next]_vars
  PROVE  [Sched!Next]_(Sched!vars)
<1>0. IInv /\ Waits /\ \A id \in Ids : id \in Nat
  BY DEF CInv, Ids
<1> SUFFICES Sched!Next \/ UNCHANGED Sched!vars
  OBVIOUS
<1>1. CASE wut_create
  BY <1>0, <1>1, CreateMaps DEF Sched!Next
<1>2. ASSUME NEW id \in Ids, cancel_blocked(id)
      PROVE  Sched!Next
  BY <1>0, <1>2, CancelBlockedMaps DEF Sched!Next
<1>3. ASSUME NEW id \in Ids, cancel_ready(id)
      PROVE  Sched!Next
  BY <1>0, <1>3, CancelReadyMaps DEF Sched!Next
<1>4. CASE \/ wut_create_dies
           \/ \E id \in Ids : cancel_corrupts(id)
           \/ cancel_out_of_bounds
           \/ \E id \in Ids : join_null_tcb(id)
           \/ \E id \in Ids : join_empty_queue(id)
           \/ yield_corrupts
           \/ quit
  <2>1. process = "running" /\ process' # "running" /\ UNCHANGED <<heap, cpu, Q_head>>
    BY <1>4 DEF wut_create_dies, cancel_corrupts, Cancelling, cancel_out_of_bounds,
                join_null_tcb, join_empty_queue, JoinBlocks, Joining, yield_corrupts,
                quit, Calling, End
  <2> QED
    BY <2>1, HaltMaps DEF Sched!Next
<1>5. ASSUME NEW id \in Ids, wut_join(id)
      PROVE  Sched!Next
  BY <1>0, <1>5, JoinMaps DEF Sched!Next
<1>6. CASE wut_join_returns
  BY <1>0, <1>6, ReturnsMaps DEF Sched!Next
<1>7. CASE wut_yield
  BY <1>0, <1>7, YieldMaps DEF Sched!Next
<1>8. ASSUME NEW arg \in Int, NEW onOwnStack, wut_exit(arg, onOwnStack),
             process = "running", cpu.joined = NONE
      PROVE  Sched!Next
  BY <1>0, <1>8, ExitMaps DEF Sched!Next
<1>9. ASSUME NEW arg \in ExitArgs, explicit_exit(arg)
      PROVE  Sched!Next
  BY <1>8, <1>9 DEF explicit_exit, Calling, ConstantsAssumption
<1>10. CASE implicit_exit
  <2>1. process = "running" /\ cpu.joined = NONE /\ wut_exit(0, FALSE)
    BY <1>10 DEF implicit_exit, Calling
  <2>2. 0 \in Int
    OBVIOUS
  <2>3. Sched!Next
    BY <1>8, <2>1, <2>2, Zenon
  <2> QED
    BY <2>3
<1>11. CASE Halted \/ UNCHANGED vars
  <2>1. UNCHANGED vars
    BY <1>11 DEF Halted
  <2>2. UNCHANGED <<heap, cpu, Q_head, process>>
    BY <2>1 DEF vars
  <2>3. MappedWaiting' = MappedWaiting
    BY <2>2 DEF MappedWaiting, Live
  <2> QED
    BY <2>2, <2>3 DEF Sched!vars
<1> QED
  BY <1>1, <1>2, <1>3, <1>4, <1>5, <1>6, <1>7, <1>9, <1>10, <1>11 DEF Next

(* For a client that cancels with care, the library is the scheduler that it *)
(* promises to be: whatever the ids, slots, flags and control blocks do,      *)
(* threads get the processor first come, first served, a join waits for the   *)
(* end of its thread, and nothing else happens.                               *)
THEOREM LibraryImplementsScheduler ==
  ASSUME CarefulCancel
  PROVE  Spec => ImplementsScheduler
<1>1. Init => CInv /\ Sched!Init
  BY InitCareful, InitMaps, ConstantsAssumption
<1>2. CInv /\ [Next]_vars => CInv' /\ [Sched!Next]_(Sched!vars)
  BY NextCareful, NextMaps, ConstantsAssumption
<1> QED
  BY <1>1, <1>2, PTL DEF Spec, ImplementsScheduler, Sched!Spec
==============================================================================
