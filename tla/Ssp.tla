--------------------------------- MODULE Ssp ---------------------------------
(***************************************************************************)
(* The process supervisor library of ssp/src/ssp.c and the kernel under it. *)
(* The library has one thread; its children run, stop, end and are adopted *)
(* (it is a subreaper) between any two of its system calls.  A step of the *)
(* library is therefore at most one waitpid or kill.                       *)
(*                                                                         *)
(* The n-th child that the process ever had is children[n].  Its pid is    *)
(* free for reuse once it is reaped, so a sub_process, which holds a pid,  *)
(* also carries the child it was created for (proc), which the code cannot *)
(* see.  A wait status is the int of waitpid.  Ids are those of the code    *)
(* plus 1, so the -1 of an ssp_create whose fork fails is 0 here.          *)
(***************************************************************************)
EXTENDS Integers, Sequences, FiniteSets

CONSTANTS
  Pids,            \* bound of the model: the pids the kernel gives out
  MAX_CHILDREN,    \* bound of the model: children ever created or adopted
  MAX_UNKNOWN,     \* bound of the model: no child is stopped any more when
                   \* unknown_processes has this length
  ExitCodes,       \* what a child passes to exit
  Signals,         \* the signals sent, of SIGKILL, SIGSTOP and SIGCONT
  ARR_SIZE,        \* the first size of the two arrays (128 in the code)
  HeapBytes,       \* ints that fresh memory from malloc may hold
  OtherIds,        \* ids the client may pass besides those of its processes
  QuietPrint       \* TRUE: no created child ends inside ssp_print

SIGKILL == 9
SIGCONT == 18
SIGSTOP == 19

ASSUME ConstantsAssumption ==
  /\ IsFiniteSet(Pids) /\ Pids \subseteq Nat
  /\ MAX_CHILDREN \in Nat
  /\ MAX_UNKNOWN \in Nat
  /\ ExitCodes \subseteq 0..255
  /\ Signals \subseteq {SIGKILL, SIGCONT, SIGSTOP}
  /\ ARR_SIZE \in Nat \ {0}
  /\ HeapBytes \subseteq Int
  /\ OtherIds \subseteq Int
  /\ QuietPrint \in BOOLEAN

VARIABLES
  children,            \* the kernel's: every child so far
  processes,           \* the sub_process of every ssp_create
  unknown_processes,
  arr_size_proc, arr_size_unknown,
  call,                \* the call in progress, with its loop index or id
  waited               \* process_num when ssp_wait last returned

vars == <<children, processes, unknown_processes, arr_size_proc,
          arr_size_unknown, call, waited>>

UNKNOWN == -1    \* the status of a process not known to have ended
NOTHING == -1    \* no wait status

Call(name, i) == [name |-> name, i |-> i, signum |-> 0]
IDLE == Call("none", 0)

Init ==
  /\ children = <<>>
  /\ processes = <<>>
  /\ unknown_processes = <<>>
  /\ arr_size_proc = ARR_SIZE
  /\ arr_size_unknown = ARR_SIZE
  /\ call = IDLE
  /\ waited = 0

process_num == Len(processes)
unknown_processes_num == Len(unknown_processes)

-----------------------------------------------------------------------------
(* Wait statuses, as <sys/wait.h> encodes them *)

Exited(code) == code * 256
Stopped == SIGSTOP * 256 + 127
CONTINUED == 65535

WIFEXITED(status) == status % 128 = 0
WEXITSTATUS(status) == (status \div 256) % 256
WTERMSIG(status) == status % 128
WIFSIGNALED(status) == WTERMSIG(status) \in 1..126

-----------------------------------------------------------------------------
(* The kernel.  A child is "running", "stopped", a "zombie", or "reaped";  *)
(* ended is its wait status from its end on, and report a stop or a        *)
(* continuation that no waitpid has returned yet.                          *)

Here == {c \in 1..Len(children) : children[c].state # "reaped"}
WithPid(pid) == {c \in Here : children[c].pid = pid}
FreePids == Pids \ {children[c].pid : c \in Here}

Child(pid, created) ==
  [pid |-> pid, created |-> created, state |-> "running",
   ended |-> NOTHING, report |-> NOTHING]

Dead(child, status) ==
  [child EXCEPT !.state = "zombie", !.ended = status, !.report = NOTHING]

(* The effect of a signal on a child. *)
Signalled(child, signum) ==
  IF child.state \in {"zombie", "reaped"} THEN child
  ELSE IF signum = SIGKILL THEN Dead(child, SIGKILL)
  ELSE IF signum = SIGSTOP /\ child.state = "running"
       THEN [child EXCEPT !.state = "stopped", !.report = Stopped]
  ELSE IF signum = SIGCONT /\ child.state = "stopped"
       THEN [child EXCEPT !.state = "running", !.report = CONTINUED]
  ELSE child

library == <<processes, unknown_processes, arr_size_proc, arr_size_unknown,
             call, waited>>

Printing == call.name \in {"print", "record"}
MayEnd(c) == QuietPrint /\ Printing => ~children[c].created

child_exits(c, code) ==
  /\ children[c].state = "running"
  /\ MayEnd(c)
  /\ children' = [children EXCEPT ![c] = Dead(children[c], Exited(code))]
  /\ UNCHANGED library

(* A signal that another process, or the child itself, sends. *)
child_signalled(c, signum) ==
  /\ children[c].state \in {"running", "stopped"}
  /\ signum = SIGKILL => MayEnd(c)
  /\ signum = SIGSTOP => unknown_processes_num < MAX_UNKNOWN
  /\ children' = [children EXCEPT ![c] = Signalled(children[c], signum)]
  /\ UNCHANGED library

(* A child of a child loses its parent, or the client forks by itself. *)
child_adopted(pid) ==
  /\ Len(children) < MAX_CHILDREN
  /\ pid \in FreePids
  /\ children' = Append(children, Child(pid, FALSE))
  /\ UNCHANGED library

-----------------------------------------------------------------------------
(* The library *)

Returns == call' = IDLE

(* A bug: the array grows when it has already overflowed. *)
GrownLate(num, size) == IF num > size THEN 2 * size ELSE size

(* size_increase: the array doubles when it is full. *)
Grown(num, size) == IF num >= size THEN 2 * size ELSE size

(* fork and the new sub_process.  If fork fails, -1 is returned and nothing *)
(* changes.                                                                *)
ssp_create(pid) ==
  /\ call = IDLE
  /\ Len(children) < MAX_CHILDREN
  /\ pid \in FreePids
  /\ children' = Append(children, Child(pid, TRUE))
  /\ processes' = Append(processes,
       [pid |-> pid, status |-> UNKNOWN, proc |-> Len(children) + 1])
  /\ arr_size_proc' = Grown(process_num + 1, arr_size_proc)
  /\ UNCHANGED <<unknown_processes, arr_size_unknown, call, waited>>

Reaped(c) == [children EXCEPT ![c].state = "reaped"]

(* The child that waitpid(pid, ...) can return: one that has ended. *)
Ended(pid) == {c \in WithPid(pid) : children[c].state = "zombie"}

(* The status of process id after the statements that follow waitpid:      *)
(* ssp_get_status decodes the signal from the old status.                  *)
StatusFrom(id, ended) ==
  IF WIFEXITED(ended) THEN WEXITSTATUS(ended)
  ELSE WTERMSIG(processes[id].status) + 128

(* A bug: no case for a signal. *)
StatusWaitedExit(ended) == WEXITSTATUS(ended)

StatusWaited(ended) ==
  IF WIFEXITED(ended) THEN WEXITSTATUS(ended) ELSE WTERMSIG(ended) + 128

(* The test of the id in ssp_get_status.                                   *)
IsProcess(id) == id \in 1..process_num

(* Bugs: the status is returned but not kept; the status of a process that *)
(* has ended is asked for again.                                           *)
GetsStatusForgets(id) ==
  IF IsProcess(id) /\ processes[id].status = UNKNOWN
       /\ Ended(processes[id].pid) # {}
  THEN /\ \E c \in Ended(processes[id].pid) : children' = Reaped(c)
       /\ UNCHANGED processes
  ELSE UNCHANGED <<children, processes>>
GetsStatusAgain(id) ==
  IF IsProcess(id) /\ Ended(processes[id].pid) # {}
  THEN \E c \in Ended(processes[id].pid) :
         /\ children' = Reaped(c)
         /\ processes' = [processes EXCEPT ![id].status =
                            StatusFrom(id, children[c].ended)]
  ELSE UNCHANGED <<children, processes>>

(* What ssp_get_status does to the state: waitpid with WNOHANG.            *)
GetsStatus(id) ==
  IF IsProcess(id) /\ processes[id].status = UNKNOWN
       /\ Ended(processes[id].pid) # {}
  THEN \E c \in Ended(processes[id].pid) :
         /\ children' = Reaped(c)
         /\ processes' = [processes EXCEPT ![id].status =
                            StatusFrom(id, children[c].ended)]
  ELSE UNCHANGED <<children, processes>>

(* What it returns, in the state that it leaves.                           *)
StatusOf(id) == IF IsProcess(id) THEN processes[id].status ELSE UNKNOWN

ssp_get_status(id) ==
  /\ call = IDLE
  /\ GetsStatus(id)
  /\ UNCHANGED <<unknown_processes, arr_size_proc, arr_size_unknown, call, waited>>

(* The guard tests ssp_id >= process_num and process_num < 0: a negative   *)
(* id passes it, and ssp_get_status answers -1.                            *)
ssp_send_signal(id, signum) ==
  /\ call = IDLE
  /\ id <= process_num
  /\ GetsStatus(id)
  /\ IF StatusOf(id)' = UNKNOWN
     THEN call' = [name |-> "kill", i |-> id, signum |-> signum]
     ELSE Returns
  /\ UNCHANGED <<unknown_processes, arr_size_proc, arr_size_unknown, waited>>

(* The children when those of hit get the signal. *)
Struck(hit) ==
  [c \in 1..Len(children) |->
     IF c \in hit THEN Signalled(children[c], call.signum) ELSE children[c]]

(* kill: whichever child has the pid now. *)
send_signal_kill ==
  /\ call.name = "kill"
  /\ IsProcess(call.i)
  /\ children' = Struck(WithPid(processes[call.i].pid))
  /\ Returns
  /\ UNCHANGED <<processes, unknown_processes, arr_size_proc, arr_size_unknown, waited>>

(* processes[ssp_id]->pid in front of the array: whatever is read there    *)
(* names no child, one, or several (0 and -1 do).                          *)
send_signal_wild(hit) ==
  /\ call.name = "kill"
  /\ ~IsProcess(call.i)
  /\ call.signum = SIGSTOP => unknown_processes_num < MAX_UNKNOWN
  /\ children' = Struck(hit)
  /\ Returns
  /\ UNCHANGED <<processes, unknown_processes, arr_size_proc, arr_size_unknown, waited>>

(* Or what is read is no address, or the signal ends the supervisor.       *)
send_signal_crashes ==
  /\ call.name = "kill"
  /\ ~IsProcess(call.i)
  /\ call' = Call("crashed", 0)
  /\ UNCHANGED <<children, processes, unknown_processes, arr_size_proc,
                 arr_size_unknown, waited>>

(* The supervisor is gone, and has no children any more. *)
crashed ==
  /\ call.name = "crashed"
  /\ UNCHANGED vars

ssp_wait ==
  /\ call = IDLE
  /\ call' = Call("wait", 1)
  /\ UNCHANGED <<children, processes, unknown_processes, arr_size_proc,
                 arr_size_unknown, waited>>

(* A bug: waitpid with WNOHANG. *)
wait_turn_nohang ==
  LET id == call.i
  IN /\ call.name = "wait"
     /\ id <= process_num
     /\ IF processes[id].status = UNKNOWN /\ Ended(processes[id].pid) # {}
        THEN \E c \in Ended(processes[id].pid) :
               /\ children' = Reaped(c)
               /\ processes' = [processes EXCEPT ![id].status =
                                  StatusWaited(children[c].ended)]
        ELSE UNCHANGED <<children, processes>>
     /\ call' = Call("wait", id + 1)
     /\ UNCHANGED <<unknown_processes, arr_size_proc, arr_size_unknown, waited>>

(* One turn of the loop of ssp_wait.  waitpid blocks while the child with  *)
(* the pid lives, and fails at once when there is none.                    *)
wait_turn ==
  LET id == call.i
  IN /\ call.name = "wait"
     /\ id <= process_num
     /\ \/ /\ processes[id].status # UNKNOWN \/ WithPid(processes[id].pid) = {}
           /\ UNCHANGED <<children, processes>>
        \/ /\ processes[id].status = UNKNOWN
           /\ \E c \in Ended(processes[id].pid) :
                /\ children' = Reaped(c)
                /\ processes' = [processes EXCEPT ![id].status =
                                   StatusWaited(children[c].ended)]
     /\ call' = Call("wait", id + 1)
     /\ UNCHANGED <<unknown_processes, arr_size_proc, arr_size_unknown, waited>>

wait_returns ==
  /\ call.name = "wait"
  /\ call.i > process_num
  /\ waited' = process_num
  /\ Returns
  /\ UNCHANGED <<children, processes, unknown_processes, arr_size_proc,
                 arr_size_unknown>>

ssp_print ==
  /\ call = IDLE
  /\ call' = Call("print", 1)
  /\ UNCHANGED <<children, processes, unknown_processes, arr_size_proc,
                 arr_size_unknown, waited>>

(* One turn of the loop of ssp_print over the processes. *)
print_turn ==
  /\ call.name = "print"
  /\ IF call.i <= process_num
     THEN GetsStatus(call.i) /\ call' = Call("print", call.i + 1)
     ELSE UNCHANGED <<children, processes>> /\ call' = Call("record", 0)
  /\ UNCHANGED <<unknown_processes, arr_size_proc, arr_size_unknown, waited>>

(* record_unknown_processes: what waitpid(-1, ...) can return of child c.  *)
Reportable(c) == children[c].state = "zombie" \/ children[c].report # NOTHING
WaitStatus(c) ==
  IF children[c].state = "zombie" THEN children[c].ended ELSE children[c].report
Collected(c) ==
  IF children[c].state = "zombie" THEN Reaped(c)
                                  ELSE [children EXCEPT ![c].report = NOTHING]

(* The status of the new sub_process, whose memory holds byte at first:    *)
(* record_unknown_processes tests that memory for a signal.                *)
UnknownStatus(status, byte) ==
  IF WIFEXITED(status) THEN WEXITSTATUS(status)
  ELSE IF WIFSIGNALED(byte) THEN WTERMSIG(status) + 128
  ELSE byte

(* A bug: a child is taken for unknown whatever processes holds. *)
NobodyKnows(pid) == FALSE

(* The loop over processes that sets found. *)
Known(pid) == \E id \in 1..process_num : processes[id].pid = pid

record_turn ==
  /\ call.name = "record"
  /\ \E c \in {d \in Here : Reportable(d)} :
       /\ children' = Collected(c)
       /\ IF Known(children[c].pid)
          THEN UNCHANGED <<unknown_processes, arr_size_unknown>>
          ELSE /\ \E byte \in HeapBytes :
                    unknown_processes' = Append(unknown_processes,
                      [pid |-> children[c].pid,
                       status |-> UnknownStatus(WaitStatus(c), byte),
                       proc |-> c])
               /\ arr_size_unknown' = Grown(unknown_processes_num + 1, arr_size_unknown)
  /\ UNCHANGED <<processes, arr_size_proc, call, waited>>

record_returns ==
  /\ call.name = "record"
  /\ \A c \in Here : ~Reportable(c)
  /\ Returns
  /\ UNCHANGED <<children, processes, unknown_processes, arr_size_proc,
                 arr_size_unknown, waited>>

Kernel ==
  /\ call.name # "crashed"
  /\ \/ \E c \in Here, code \in ExitCodes : child_exits(c, code)
     \/ \E c \in Here, signum \in Signals : child_signalled(c, signum)
     \/ \E pid \in Pids : child_adopted(pid)

Library ==
  \/ \E pid \in Pids : ssp_create(pid)
  \/ \E id \in (1..process_num) \cup OtherIds :
       ssp_get_status(id) \/ \E signum \in Signals : ssp_send_signal(id, signum)
  \/ send_signal_kill
  \/ \E hit \in SUBSET Here : send_signal_wild(hit)
  \/ send_signal_crashes
  \/ ssp_wait
  \/ wait_turn
  \/ wait_returns
  \/ ssp_print
  \/ print_turn
  \/ record_turn
  \/ record_returns

Next == Kernel \/ Library \/ crashed

Spec == Init /\ [][Next]_vars

-----------------------------------------------------------------------------
(* Properties *)

(* The arrays always have room for the entry that ssp_create or            *)
(* record_unknown_processes writes next, before it grows them.             *)
TypeOK ==
  /\ children \in Seq([pid : Pids, created : BOOLEAN,
                       state : {"running", "stopped", "zombie", "reaped"},
                       ended : Int, report : Int])
  /\ processes \in Seq([pid : Pids, status : -1..255, proc : 1..Len(children)])
  /\ unknown_processes \in Seq([pid : Pids, status : Int, proc : 1..Len(children)])
  /\ process_num < arr_size_proc
  /\ unknown_processes_num < arr_size_unknown
  /\ call.name \in {"none", "kill", "wait", "print", "record", "crashed"}
  /\ waited \in 0..process_num

(* When ssp_wait has returned, the status of every process that there was  *)
(* is known: none was reaped behind its back.                              *)
WaitLearnsAll == \A id \in 1..waited : processes[id].status # UNKNOWN

(* A signal goes to the process that the client named, although it may end *)
(* and its pid be given to another between the check and the kill; and no  *)
(* signal goes out for an id beyond the last process.  The exception is a  *)
(* negative id (below 1 here), which the guard of ssp_send_signal fails to *)
(* refuse: send_signal_wild strikes children that nobody named.            *)
SignalReachesOwn ==
  call.name = "kill" /\ call.i >= 1 =>
    /\ IsProcess(call.i)
    /\ WithPid(processes[call.i].pid) = {processes[call.i].proc}

(* A status that ssp has found is the end of that very process, even when  *)
(* its pid was used before or is used again; a process that a signal ended *)
(* has its number plus 128, or 255 if ssp_get_status was first to see it.  *)
StatusOfItsOwn ==
  \A id \in 1..process_num :
    LET ended == children[processes[id].proc].ended
        status == processes[id].status
    IN status # UNKNOWN =>
         /\ ended # NOTHING
         /\ status \in IF WIFEXITED(ended) THEN {WEXITSTATUS(ended)}
                       ELSE {WTERMSIG(ended) + 128, 255}

(* A status, once found, is what every later call reports.                 *)
StatusFinal ==
  [][\A id \in 1..process_num :
       processes[id].status # UNKNOWN =>
         processes'[id].status = processes[id].status]_vars

(* ssp_print lists no process twice, by name and as <unknown>: what        *)
(* record_unknown_processes lists was never made by ssp_create, whatever   *)
(* stops, continuations and ends waitpid reports in whatever order.        *)
UnknownsAreForeign ==
  \A n \in 1..unknown_processes_num :
    ~children[unknown_processes[n].proc].created

(* What the tests expect of a process that a signal ended.                 *)
SignalStatusExact ==
  \A id \in 1..process_num :
    LET ended == children[processes[id].proc].ended
    IN processes[id].status # UNKNOWN /\ WIFSIGNALED(ended) =>
         processes[id].status = 128 + WTERMSIG(ended)
==============================================================================
