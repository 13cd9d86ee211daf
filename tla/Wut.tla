--------------------------------- MODULE Wut ---------------------------------
(***************************************************************************)
(* The user-level thread library of wut/src/wut.c.  Threads are            *)
(* cooperative: exactly one runs, and it gives the processor up only inside *)
(* wut_yield, wut_join and wut_exit.  One action is one library call of the *)
(* running thread (or the rest of wut_join, after the thread is resumed).   *)
(*                                                                         *)
(* A TCB is named by its address: the n-th TCB that wut_init and wut_create *)
(* allocate is n, so the next address is THREAD_NUM, which both increment.  *)
(* A slot of TCB_ARRAY holds an address or NONE.  The array and the TCB are *)
(* kept apart because a TCB outlives its slot: a slot is given to a new     *)
(* thread while the old TCB may still be referenced.  A node of the ready   *)
(* queue is named by the TCB whose thread_in_q_ points to it; its           *)
(* thread_id_ is that TCB's id_.                                            *)
(***************************************************************************)
EXTENDS Integers, Sequences, FiniteSets, SequencesExt

CONSTANTS
  INITIAL_MAX,    \* MAX_THREAD_NUM at start (256 in the code)
  MAX_CREATED,    \* bound of the model: TCBs ever allocated, main included
  ExitArgs,       \* the values the client passes to wut_exit
  Calls,          \* thread -> the library calls that its function makes
  CarefulCancel   \* TRUE: the client cancels only where CancelIsSafe holds

ASSUME ConstantsAssumption ==
  /\ INITIAL_MAX \in Nat \ {0}
  /\ MAX_CREATED \in Nat \ {0}
  /\ ExitArgs \subseteq Int
  /\ Calls \in [0..(MAX_CREATED - 1) ->
                SUBSET {"create", "yield", "join", "cancel", "exit",
                        "return", "quit"}]
  /\ CarefulCancel \in BOOLEAN

VARIABLES
  heap,                       \* address -> TCB
  TCB_ARRAY,                  \* thread id -> address of its TCB, or NONE
  MAX_THREAD_NUM,             \* size of TCB_ARRAY
  THREAD_NUM,                 \* TCBs allocated so far
  CURRENT_RUNNING_THREAD_ID,
  Q_head,                     \* the ready queue
  cpu,                        \* the context that is executing
  process                     \* "running", or how the process ended

vars == <<heap, TCB_ARRAY, MAX_THREAD_NUM, THREAD_NUM,
          CURRENT_RUNNING_THREAD_ID, Q_head, cpu, process>>

NONE == -1      \* NULL, and the -1 of join_from_, join_to_ and a live status_

(* A context: whose stack it runs on, and the TCB that the local variable   *)
(* join_thread of a suspended wut_join points to (NONE outside wut_join).   *)
Context(t, j) == [thread |-> t, joined |-> j]
NULL_CONTEXT == Context(NONE, NONE)

(* "crash_*" is a null dereference or a jump to unmapped memory,            *)
(* "corrupt_queue" the free of a node that is still linked in the ready     *)
(* queue, "out_of_bounds" a read past the end of TCB_ARRAY.                 *)
Outcomes == {"running", "exited", "crash_null_tcb", "crash_empty_queue",
             "crash_own_stack", "crash_null_context", "corrupt_queue",
             "out_of_bounds"}

-----------------------------------------------------------------------------
(* The TCBs of wut_init and wut_create *)

NewTCB(slot, t, mapped) ==
  [id |-> slot, status |-> NONE, join |-> 0, join_from |-> NONE,
   join_to |-> NONE, block |-> 0, enable |-> 1, stack |-> mapped,
   ucontext |-> Context(t, NONE)]

Init ==   \* wut_init
  /\ heap = [t \in {0} |-> NewTCB(0, 0, FALSE)]
  /\ TCB_ARRAY = [i \in 0..(INITIAL_MAX - 1) |-> IF i = 0 THEN 0 ELSE NONE]
  /\ MAX_THREAD_NUM = INITIAL_MAX
  /\ THREAD_NUM = 1
  /\ CURRENT_RUNNING_THREAD_ID = 0
  /\ Q_head = <<>>
  /\ cpu = Context(0, NONE)
  /\ process = "running"

-----------------------------------------------------------------------------
(* What the calls share *)

Cur == TCB_ARRAY[CURRENT_RUNNING_THREAD_ID]   \* current_thread

Queued(t) == \E i \in 1..Len(Q_head) : Q_head[i] = t

(* The running thread is in client code and may make a library call. *)
Calling(call) ==
  /\ process = "running"
  /\ cpu.joined = NONE
  /\ call \in Calls[cpu.thread]

(* The process ends; nothing of the library runs any more. *)
End(outcome) ==
  /\ process' = outcome
  /\ UNCHANGED <<heap, TCB_ARRAY, MAX_THREAD_NUM, THREAD_NUM,
                 CURRENT_RUNNING_THREAD_ID, Q_head, cpu>>

(* swapcontext first stores the executing context in the current TCB. *)
SaveContext(h, j) == [h EXCEPT ![Cur].ucontext = Context(cpu.thread, j)]

(* TAILQ_FIRST, TAILQ_REMOVE and swapcontext or setcontext: the thread whose *)
(* id is in the first node of q runs next.                                   *)
SwitchTo(h, q) ==
  LET next_id == h[Head(q)].id
      next    == TCB_ARRAY[next_id]
  IN /\ heap' = h
     /\ Q_head' = Tail(q)
     /\ CURRENT_RUNNING_THREAD_ID' = next_id
     /\ cpu' = h[next].ucontext
     /\ process' = IF h[next].ucontext = NULL_CONTEXT
                   THEN "crash_null_context" ELSE "running"
     /\ UNCHANGED <<TCB_ARRAY, MAX_THREAD_NUM, THREAD_NUM>>

-----------------------------------------------------------------------------
(* wut_create *)

(* Faulty variant: the array grows one thread too late. *)
NewMaxLate == IF THREAD_NUM > MAX_THREAD_NUM
              THEN 2 * MAX_THREAD_NUM ELSE MAX_THREAD_NUM

NewMax == IF THREAD_NUM >= MAX_THREAD_NUM
          THEN 2 * MAX_THREAD_NUM ELSE MAX_THREAD_NUM

Resized == [i \in 0..(NewMax - 1) |->   \* resize
              IF i < MAX_THREAD_NUM THEN TCB_ARRAY[i] ELSE NONE]

(* Faulty variant: enable_ is not looked at. *)
SlotFreeIgnoringJoin(i) ==
  Resized[i] # NONE => heap[Resized[i]].status # NONE

SlotFree(i) ==
  Resized[i] # NONE =>
    heap[Resized[i]].status # NONE /\ heap[Resized[i]].enable = 1

FirstFree(i) == SlotFree(i) /\ \A j \in 0..(i - 1) : ~SlotFree(j)

wut_create ==
  /\ Calling("create")
  /\ THREAD_NUM < MAX_CREATED
  /\ \E slot \in 0..(NewMax - 1) :
       /\ FirstFree(slot)
       /\ TCB_ARRAY' = [Resized EXCEPT ![slot] = THREAD_NUM]
       /\ heap' = [t \in 0..THREAD_NUM |->
                     IF t = THREAD_NUM THEN NewTCB(slot, t, TRUE) ELSE heap[t]]
  /\ MAX_THREAD_NUM' = NewMax
  /\ THREAD_NUM' = THREAD_NUM + 1
  /\ Q_head' = Append(Q_head, THREAD_NUM)
  /\ UNCHANGED <<CURRENT_RUNNING_THREAD_ID, cpu, process>>

(* new_stack fails: the process dies inside wut_create, after resize. *)
wut_create_dies ==
  /\ Calling("create")
  /\ THREAD_NUM < MAX_CREATED
  /\ TCB_ARRAY' = Resized
  /\ MAX_THREAD_NUM' = NewMax
  /\ process' = "exited"
  /\ UNCHANGED <<heap, THREAD_NUM, CURRENT_RUNNING_THREAD_ID, Q_head, cpu>>

-----------------------------------------------------------------------------
(* wut_cancel.  A call that returns -1 changes nothing and is not a step.   *)

(* Client side: the two situations that a careful client stays out of.  The *)
(* target was once blocked in a wut_join that returned normally and is now   *)
(* ready (its block_ is still 1), or the thread that joins the target is     *)
(* being joined itself.                                                      *)
CancelIsSafe(t) ==
  /\ ~(heap[t].block = 1 /\ Queued(t))
  /\ heap[t].join_from # NONE => heap[TCB_ARRAY[heap[t].join_from]].join = 0

Cancelling(id) ==
  /\ Calling("cancel")
  /\ id # CURRENT_RUNNING_THREAD_ID
  /\ id < MAX_THREAD_NUM
  /\ TCB_ARRAY[id] # NONE
  /\ heap[TCB_ARRAY[id]].status = NONE
  /\ CarefulCancel => CancelIsSafe(TCB_ARRAY[id])

(* status_ = 128, and a thread that joins the target is made ready. *)
HasJoiner(t) == heap[t].join_from # NONE
Joiner(t)    == TCB_ARRAY[heap[t].join_from]

(* Faulty variant: block_ of the joiner stays 1 although join_to_ is cleared. *)
CancelWakeKeepsBlock(t) ==
  LET h == [heap EXCEPT ![t].status = 128]
  IN IF HasJoiner(t)
     THEN [h EXCEPT ![Joiner(t)].join = 0, ![Joiner(t)].join_to = NONE]
     ELSE h

CancelWake(t) ==
  LET h == [heap EXCEPT ![t].status = 128]
  IN IF HasJoiner(t)
     THEN [h EXCEPT ![Joiner(t)].join = 0, ![Joiner(t)].join_to = NONE,
                    ![Joiner(t)].block = 0]
     ELSE h

(* Faulty variant: the joiner is not queued. *)
CancelQueueForgetsJoiner(t) == Q_head

CancelQueue(t) == IF HasJoiner(t) THEN Append(Q_head, Joiner(t)) ELSE Q_head

(* Waking the joiner frees the node that its thread_in_q_ points to. *)
CancelFreesLinked(t) == HasJoiner(t) /\ Queued(Joiner(t))

(* Faulty variant: the joined thread still names the cancelled joiner. *)
UnjoinKeepsFrom(h, u) == [h EXCEPT ![u].join = 0]

Unjoin(h, u) == [h EXCEPT ![u].join_from = NONE, ![u].join = 0]

(* block_ is 1: the target leaves the thread it joins. *)
cancel_blocked(id) ==
  LET t == TCB_ARRAY[id]
      the_thread == TCB_ARRAY[heap[t].join_to]
  IN /\ Cancelling(id)
     /\ ~CancelFreesLinked(t)
     /\ heap[t].block = 1
     /\ heap' = Unjoin([CancelWake(t) EXCEPT ![t].block = 0], the_thread)
     /\ Q_head' = CancelQueue(t)
     /\ UNCHANGED <<TCB_ARRAY, MAX_THREAD_NUM, THREAD_NUM,
                    CURRENT_RUNNING_THREAD_ID, cpu, process>>

(* Faulty variant: the node stays in the queue. *)
WithoutNodeNot(q, k) == q

WithoutNode(q, k) == RemoveAt(q, k)        \* TAILQ_REMOVE

(* block_ is 0: the target's stack and context are freed and its node leaves *)
(* the ready queue.                                                          *)
cancel_ready(id) ==
  LET t == TCB_ARRAY[id]
  IN /\ Cancelling(id)
     /\ ~CancelFreesLinked(t)
     /\ heap[t].block = 0
     /\ heap' = [CancelWake(t) EXCEPT ![t].ucontext = NULL_CONTEXT]
     /\ \E k \in 1..Len(Q_head) :
          Q_head[k] = t /\ Q_head' = WithoutNode(CancelQueue(t), k)
     /\ UNCHANGED <<TCB_ARRAY, MAX_THREAD_NUM, THREAD_NUM,
                    CURRENT_RUNNING_THREAD_ID, cpu, process>>

cancel_corrupts(id) ==
  /\ Cancelling(id)
  /\ \/ CancelFreesLinked(TCB_ARRAY[id])
     \/ heap[TCB_ARRAY[id]].block = 0 /\ ~Queued(TCB_ARRAY[id])
  /\ End("corrupt_queue")

(* id > THREAD_NUM is refused, id = THREAD_NUM is not. *)
cancel_out_of_bounds ==
  /\ Calling("cancel")
  /\ THREAD_NUM = MAX_THREAD_NUM
  /\ End("out_of_bounds")

-----------------------------------------------------------------------------
(* wut_join.  A call that returns at once changes nothing and is no step.   *)

Joining(id) ==
  /\ Calling("join")
  /\ id # CURRENT_RUNNING_THREAD_ID
  /\ id < THREAD_NUM

join_null_tcb(id) ==      \* return TCB_ARRAY[id]->status_ of a NULL entry
  /\ Joining(id)
  /\ TCB_ARRAY[id] = NONE
  /\ End("crash_null_tcb")

JoinBlocks(id) ==
  /\ Joining(id)
  /\ TCB_ARRAY[id] # NONE
  /\ heap[TCB_ARRAY[id]].status = NONE
  /\ heap[TCB_ARRAY[id]].join # 1

JoinHeap(id) ==
  [heap EXCEPT ![Cur].block = 1, ![Cur].join_to = id,
               ![TCB_ARRAY[id]].join = 1, ![TCB_ARRAY[id]].enable = 0,
               ![TCB_ARRAY[id]].join_from = CURRENT_RUNNING_THREAD_ID]

wut_join(id) ==
  /\ JoinBlocks(id)
  /\ Q_head # <<>>
  /\ SwitchTo(SaveContext(JoinHeap(id), TCB_ARRAY[id]), Q_head)

join_empty_queue(id) ==   \* TAILQ_FIRST is NULL: everyone else is blocked
  /\ JoinBlocks(id)
  /\ Q_head = <<>>
  /\ End("crash_empty_queue")

wut_join_returns ==       \* after swapcontext
  /\ process = "running"
  /\ cpu.joined # NONE
  /\ heap' = [heap EXCEPT ![cpu.joined].enable = 1]
  /\ cpu' = [cpu EXCEPT !.joined = NONE]
  /\ UNCHANGED <<TCB_ARRAY, MAX_THREAD_NUM, THREAD_NUM,
                 CURRENT_RUNNING_THREAD_ID, Q_head, process>>

-----------------------------------------------------------------------------
(* wut_yield.  With an empty queue it returns -1 and is no step.            *)

(* Faulty variant: the thread that yields is put at the head, once the next  *)
(* thread has left it.                                                       *)
YieldQueueAtHead == <<Head(Q_head), Cur>> \o Tail(Q_head)

YieldQueue == Append(Q_head, Cur)          \* TAILQ_INSERT_TAIL

wut_yield ==
  /\ Calling("yield")
  /\ Q_head # <<>>
  /\ ~Queued(Cur)
  /\ SwitchTo(SaveContext(heap, NONE), YieldQueue)

yield_corrupts ==
  /\ Calling("yield")
  /\ Q_head # <<>>
  /\ Queued(Cur)
  /\ End("corrupt_queue")

-----------------------------------------------------------------------------
(* wut_exit.  A thread function that returns continues in EXIT_CONTEXT,     *)
(* which calls wut_exit(0) on a stack of its own.                           *)

ExitWakes == heap[Cur].join = 1

(* Faulty variants: the status is not masked, or a cancelled thread's status *)
(* is overwritten.                                                           *)
ExitStatusUnmasked(arg) == IF heap[Cur].status = NONE THEN arg ELSE heap[Cur].status
ExitStatusAnew(arg) == arg % 256

ExitStatus(arg) == IF heap[Cur].status = NONE THEN arg % 256 ELSE heap[Cur].status

ExitHeap(arg) ==
  LET h == [heap EXCEPT ![Cur].status = ExitStatus(arg)]
  IN IF ExitWakes THEN [h EXCEPT ![Cur].join = 0, ![Cur].join_from = NONE] ELSE h

(* Faulty variant: the joiner overtakes the threads that are ready. *)
ExitQueueAtHead == IF ExitWakes THEN <<Joiner(Cur)>> \o Q_head ELSE Q_head

ExitQueue == IF ExitWakes THEN Append(Q_head, Joiner(Cur)) ELSE Q_head

exit_switches(arg) ==
  /\ ~(ExitWakes /\ Queued(Joiner(Cur)))
  /\ ExitQueue # <<>>
  /\ SwitchTo(ExitHeap(arg), ExitQueue)

exit_corrupts ==
  /\ ExitWakes /\ Queued(Joiner(Cur))
  /\ End("corrupt_queue")

(* clear_global unmaps the stack of every TCB in the array. *)
StackCleared(t) == heap[t].stack /\ \E i \in DOMAIN TCB_ARRAY : TCB_ARRAY[i] = t

exit_last(arg, onOwnStack) ==
  /\ ExitQueue = <<>>
  /\ heap' = ExitHeap(arg)
  /\ TCB_ARRAY' = [i \in DOMAIN TCB_ARRAY |-> NONE]
  /\ process' = IF onOwnStack /\ StackCleared(cpu.thread)
                THEN "crash_own_stack" ELSE "exited"
  /\ UNCHANGED <<MAX_THREAD_NUM, THREAD_NUM, CURRENT_RUNNING_THREAD_ID,
                 Q_head, cpu>>

wut_exit(arg, onOwnStack) ==
  \/ exit_switches(arg)
  \/ exit_corrupts
  \/ exit_last(arg, onOwnStack)

explicit_exit(arg) ==
  /\ Calling("exit")
  /\ wut_exit(arg, TRUE)

implicit_exit ==
  /\ Calling("return")
  /\ heap[cpu.thread].stack
  /\ wut_exit(0, FALSE)

(* The original main returns, or some thread calls exit(3). *)
quit ==
  /\ Calling("quit")
  /\ End("exited")

-----------------------------------------------------------------------------

Ids == 0..(MAX_CREATED - 1)

Halted == process # "running" /\ UNCHANGED vars

Next ==
  \/ wut_create
  \/ wut_create_dies
  \/ \E id \in Ids : cancel_blocked(id)
  \/ \E id \in Ids : cancel_ready(id)
  \/ \E id \in Ids : cancel_corrupts(id)
  \/ cancel_out_of_bounds
  \/ \E id \in Ids : join_null_tcb(id)
  \/ \E id \in Ids : wut_join(id)
  \/ \E id \in Ids : join_empty_queue(id)
  \/ wut_join_returns
  \/ wut_yield
  \/ yield_corrupts
  \/ \E arg \in ExitArgs : explicit_exit(arg)
  \/ implicit_exit
  \/ quit
  \/ Halted

Spec == Init /\ [][Next]_vars

(* No thread computes for ever without calling the library, and the kernel  *)
(* runs the process.                                                        *)
FairSpec == Spec /\ WF_vars(Next)
-----------------------------------------------------------------------------
(* Properties *)

Status == {NONE} \cup 0..255
Address == 0..(THREAD_NUM - 1)
OptAddress == {NONE} \cup Address
OptId == {NONE} \cup 0..(MAX_THREAD_NUM - 1)
Contexts == [thread : Address, joined : OptAddress] \cup {NULL_CONTEXT}
TCB == [id : 0..(MAX_THREAD_NUM - 1), status : Status, join : {0, 1},
        join_from : OptId, join_to : OptId, block : {0, 1}, enable : {0, 1},
        stack : BOOLEAN, ucontext : Contexts]

(* The type invariant. *)
TypeOK ==
  /\ MAX_THREAD_NUM \in Nat \ {0}
  /\ THREAD_NUM \in Nat \ {0}
  /\ heap \in [Address -> TCB]
  /\ TCB_ARRAY \in [0..(MAX_THREAD_NUM - 1) -> OptAddress]
  /\ CURRENT_RUNNING_THREAD_ID \in 0..(MAX_THREAD_NUM - 1)
  /\ Q_head \in Seq(Address)
  /\ cpu \in Contexts
  /\ process \in Outcomes

Live(t) == heap[t].status = NONE

(* t is suspended inside wut_join(u). *)
WaitsFor(t, u) ==
  t # cpu.thread /\ u # NONE /\ heap[t].ucontext.joined = u

QueuedOnce(t) == Cardinality({i \in 1..Len(Q_head) : Q_head[i] = t}) = 1

(* However the client cancels, TCB_ARRAY stays a usable index of the threads: *)
(* ids are handed out without a gap and below THREAD_NUM, which stays within  *)
(* the array, so that wut_create finds a slot once it has resized; and an     *)
(* entry's id_ is its index.                                                  *)
SlotsConsistent ==
  process = "running" =>
    /\ THREAD_NUM <= MAX_THREAD_NUM
    /\ \A i \in DOMAIN TCB_ARRAY : TCB_ARRAY[i] # NONE =>
         /\ i < THREAD_NUM
         /\ heap[TCB_ARRAY[i]].id = i
         /\ \A j \in 0..i : TCB_ARRAY[j] # NONE

Named(id) == id # NONE => TCB_ARRAY[id] # NONE

(* However the client cancels, every id that the library follows leads to a   *)
(* TCB: the running one, those of the queue's nodes, join_from_ of a thread    *)
(* that is joined and join_to_ of a thread that is blocked.                    *)
LinksLeadToThreads ==
  process = "running" =>
    /\ cpu # NULL_CONTEXT
    /\ Cur # NONE
    /\ \A t \in DOMAIN heap :
         /\ TCB_ARRAY[heap[t].id] # NONE
         /\ Named(heap[t].join_from)
         /\ Named(heap[t].join_to)
         /\ heap[t].join = 1 => heap[t].join_from # NONE
         /\ heap[t].block = 1 => heap[t].join_to # NONE

(* A thread keeps the first status it gets: neither the wut_exit of a         *)
(* cancelled thread that runs on, nor a cancel, nor the reuse of the slot      *)
(* changes it, so a late join reads what the thread ended with.               *)
StatusFinal ==
  [][\A t \in DOMAIN heap : ~Live(t) => heap'[t].status = heap[t].status]_vars

(* No lost wake-up: a live thread runs, or is queued exactly once, or is      *)
(* suspended in wut_join on a live thread whose TCB leads back to it, so that  *)
(* the exit or the cancellation of that thread will queue it.                  *)
NoLostWakeup ==
  process = "running" =>
    \A t \in DOMAIN heap : Live(t) =>
      \/ t = cpu.thread /\ ~Queued(t)
      \/ t # cpu.thread /\ QueuedOnce(t)
      \/ /\ ~Queued(t)
         /\ \E u \in DOMAIN heap :
              /\ WaitsFor(t, u) /\ Live(u)
              /\ heap[u].join = 1
              /\ heap[u].join_from # NONE /\ Joiner(u) = t

(* A cancelled or terminated thread never runs again, and is not queued. *)
TerminatedNeverRuns ==
  process = "running" =>
    /\ Live(cpu.thread)
    /\ \A k \in 1..Len(Q_head) : Live(Q_head[k])

(* No queue node is freed while it is linked, though wut_cancel, wut_yield and *)
(* wut_exit each free the node of a thread and link another one, and no context *)
(* is freed while the thread may still get the processor.                       *)
FreedIsUnlinked == process \notin {"corrupt_queue", "crash_null_context"}

(* wut_join returns only after the thread it names has terminated. *)
JoinReturnsTerminated ==
  process = "running" /\ cpu.joined # NONE => ~Live(cpu.joined)

(* The id of a terminated thread is not given to a new thread while a live   *)
(* thread is still inside the wut_join that reports its status (enable_).    *)
IdKeptForJoiner ==
  [][\A i \in DOMAIN TCB_ARRAY :
       TCB_ARRAY[i] # NONE /\ TCB_ARRAY'[i] # TCB_ARRAY[i] /\ process' = "running"
         => \A t \in DOMAIN heap : Live(t) => ~WaitsFor(t, TCB_ARRAY[i])]_vars

(* A thread inside a wut_join whose target has terminated does not wait for  *)
(* ever: it gets the processor, unless it is cancelled first or the process   *)
(* ends.                                                                      *)
WakeDue(t) ==
  /\ process = "running"
  /\ t \in DOMAIN heap /\ Live(t)
  /\ \E u \in DOMAIN heap : WaitsFor(t, u) /\ ~Live(u)

JoinerResumes ==
  \A t \in Ids : WakeDue(t) ~> ~WakeDue(t)

-----------------------------------------------------------------------------
(* The scheduler that the library implements *)

MappedWaiting ==
  [t \in DOMAIN heap |->
     IF ~Live(t) THEN NONE
     ELSE IF t = cpu.thread THEN cpu.joined
     ELSE heap[t].ucontext.joined]

Sched == INSTANCE Scheduler WITH
  Threads <- Ids,
  Results <- 0..255,
  result  <- [t \in DOMAIN heap |-> heap[t].status],
  waiting <- MappedWaiting,
  running <- cpu.thread,
  ready   <- Q_head,
  halted  <- process # "running"

(* Every library call is one step of the first-come first-served scheduler of *)
(* Scheduler, or changes nothing there.                                       *)
ImplementsScheduler == Sched!Spec

(* wut.c:369: the thread that exits last ends the process normally. *)
LastExitIsClean == process # "crash_own_stack"

=============================================================================
