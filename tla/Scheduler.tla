------------------------------ MODULE Scheduler ------------------------------
(***************************************************************************)
(* What wut promises its client: cooperative threads served first come,    *)
(* first served, each with a final result, and a join that waits for it.   *)
(* No ids, slots, control blocks or flags: a thread is itself.             *)
(***************************************************************************)
EXTENDS Integers, Sequences, SequencesExt

CONSTANTS Threads, Results

VARIABLES
  result,    \* thread -> what it ended with, or NONE while it lives
  waiting,   \* thread -> the thread whose end it waits for, or NONE
  running,
  ready,     \* the live threads that wait for the processor, in order
  halted

vars == <<result, waiting, running, ready, halted>>

NONE == -1
KILLED == 128

Born == DOMAIN result
Alive(t) == result[t] = NONE
Waiters(t) == {w \in Born : waiting[w] = t}

TypeOK ==
  /\ Born \subseteq Threads
  /\ result \in [Born -> Results \cup {NONE, KILLED}]
  /\ waiting \in [Born -> Born \cup {NONE}]
  /\ running \in Born
  /\ ready \in Seq(Born)
  /\ halted \in BOOLEAN

Init ==
  /\ result = [t \in {0} |-> NONE]
  /\ waiting = [t \in {0} |-> NONE]
  /\ running = 0
  /\ ready = <<>>
  /\ halted = FALSE

(* The thread that runs next leaves the head of q. *)
Dispatch(q) ==
  /\ q # <<>>
  /\ running' = Head(q)
  /\ ready' = Tail(q)
  /\ UNCHANGED halted

(* q, and after it the thread that waits for t, which may go on. *)
Released(q, t) ==
  IF Waiters(t) = {} THEN q ELSE Append(q, CHOOSE w \in Waiters(t) : TRUE)

InCall == ~halted /\ waiting[running] # NONE
InClient == ~halted /\ waiting[running] = NONE

Spawn(t) ==
  /\ InClient
  /\ t \notin Born
  /\ result' = [u \in Born \cup {t} |-> IF u = t THEN NONE ELSE result[u]]
  /\ waiting' = [u \in Born \cup {t} |-> IF u = t THEN NONE ELSE waiting[u]]
  /\ ready' = Append(ready, t)
  /\ UNCHANGED <<running, halted>>

Yield ==
  /\ InClient
  /\ ready # <<>>
  /\ Dispatch(Append(ready, running))
  /\ UNCHANGED <<result, waiting>>

(* At most one thread waits for t. *)
Wait(t) ==
  /\ InClient
  /\ Alive(t) /\ t # running /\ Waiters(t) = {}
  /\ waiting' = [waiting EXCEPT ![running] = t]
  /\ Dispatch(ready)
  /\ UNCHANGED result

WaitReturns ==
  /\ InCall
  /\ ~Alive(waiting[running])
  /\ waiting' = [waiting EXCEPT ![running] = NONE]
  /\ UNCHANGED <<result, running, ready, halted>>

Kill(t) ==
  /\ InClient
  /\ Alive(t) /\ t # running
  /\ result' = [result EXCEPT ![t] = KILLED]
  /\ waiting' = [waiting EXCEPT ![t] = NONE]
  /\ ready' = RemoveFirst(Released(ready, t), t)
  /\ UNCHANGED <<running, halted>>

Finish(r) ==
  /\ InClient
  /\ result' = [result EXCEPT ![running] = r]
  /\ UNCHANGED waiting
  /\ \/ Dispatch(Released(ready, running))
     \/ /\ Released(ready, running) = <<>>
        /\ halted' = TRUE
        /\ UNCHANGED <<running, ready>>

(* The process ends, whatever the reason. *)
Halt ==
  /\ ~halted
  /\ halted' = TRUE
  /\ UNCHANGED <<result, waiting, running, ready>>

Next ==
  \/ \E t \in Threads : Spawn(t)
  \/ Yield
  \/ \E t \in Born : Wait(t)
  \/ WaitReturns
  \/ \E t \in Born : Kill(t)
  \/ \E r \in Results : Finish(r)
  \/ Halt

Spec == Init /\ [][Next]_vars
=============================================================================
