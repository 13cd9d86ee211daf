------------------------------ MODULE SspProofs ------------------------------
(***************************************************************************)
(* Theorems about Ssp, for any number of children, pids and calls.  Base   *)
(* is what holds however children end; Found is what ssp knows of their    *)
(* ends, which holds if no supervised child ends inside ssp_print          *)
(* (QuietPrint).                                                           *)
(***************************************************************************)
EXTENDS Ssp, SequenceTheorems, TLAPS

ChildT == [pid : Pids, created : BOOLEAN,
           state : {"running", "stopped", "zombie", "reaped"},
           ended : Int, report : Int]
ProcessT == [pid : Pids, status : -1..255, proc : 1..Len(children)]
UnknownT == [pid : Pids, status : Int, proc : 1..Len(children)]

Types ==
  /\ TypeOK
  /\ arr_size_proc \in Nat /\ arr_size_unknown \in Nat
  /\ call \in [name : {"none", "kill", "wait", "print", "record", "crashed"},
               i : Int, signum : Int]

(* A call in progress is at an entry of the array, or at its end; only the *)
(* kill of a negative id is in front of it.                                *)
InRange ==
  /\ call.name = "kill" =>
       /\ IsProcess(call.i) \/ call.i < 1
       /\ call.signum \in {SIGKILL, SIGCONT, SIGSTOP}
  /\ call.name \in {"wait", "print"} => call.i \in 1..(process_num + 1)

(* A pid is that of one child until the child is reaped. *)
PidsUnique ==
  \A c, d \in Here : children[c].pid = children[d].pid => c = d

(* The processes are the children of ssp_create, one each. *)
Own ==
  /\ \A id \in 1..process_num :
       /\ children[processes[id].proc].created
       /\ children[processes[id].proc].pid = processes[id].pid
  /\ \A id, jd \in 1..process_num : processes[id].proc = processes[jd].proc => id = jd
  /\ \A c \in 1..Len(children) : children[c].created =>
       \E id \in 1..process_num : processes[id].proc = c

(* A child has a wait status when it has ended. *)
Ends ==
  \A c \in 1..Len(children) :
    /\ children[c].ended \in Nat \cup {NOTHING}
    /\ children[c].ended = NOTHING <=> children[c].state \in {"running", "stopped"}

Base == Types /\ InRange /\ PidsUnique /\ Own /\ Ends /\ UnknownsAreForeign

(* A supervised child is reaped exactly when its status is recorded, and by *)
(* then the loops have passed it.                                           *)
Recorded ==
  \A id \in 1..process_num :
    processes[id].status = UNKNOWN <=> children[processes[id].proc].state # "reaped"

Loops ==
  /\ call.name = "kill" /\ IsProcess(call.i) => processes[call.i].status = UNKNOWN
  /\ call.name = "wait" =>
       \A id \in 1..process_num : id < call.i => processes[id].status # UNKNOWN
  /\ call.name = "print" =>
       \A id \in 1..process_num : id < call.i =>
         children[processes[id].proc].state # "zombie"
  /\ call.name = "record" =>
       \A c \in 1..Len(children) : children[c].created => children[c].state # "zombie"

Found == Recorded /\ Loops /\ StatusOfItsOwn /\ WaitLearnsAll

-----------------------------------------------------------------------------
(* What a step does to the children *)

(* What may become of a child in a step. *)
Turns(old, new) ==
  /\ new \in ChildT
  /\ new.pid = old.pid /\ new.created = old.created
  /\ new.ended \in Nat \cup {NOTHING}
  /\ new.ended = NOTHING <=> new.state \in {"running", "stopped"}
  /\ old.ended # NOTHING => new.ended = old.ended

(* The step makes no child; it reaps those of R, and ends only some of E. *)
Kept(R, E) ==
  /\ children' \in Seq(ChildT) /\ Len(children') = Len(children)
  /\ \A c \in 1..Len(children) :
       /\ Turns(children[c], children'[c])
       /\ children'[c].state = "reaped" <=> children[c].state = "reaped" \/ c \in R
       /\ children'[c].state = "zombie" => children[c].state = "zombie" \/ c \in E

(* The step makes one child. *)
Made(child) ==
  /\ child.pid \in FreePids
  /\ child = Child(child.pid, child.created) /\ child.created \in BOOLEAN
  /\ children' = Append(children, child)

(* The step makes no sub_process. *)
SameProcesses ==
  /\ processes' \in Seq([pid : Pids, status : -1..255, proc : 1..Len(children)])
  /\ Len(processes') = Len(processes)
  /\ \A id \in 1..process_num :
       /\ processes'[id].pid = processes[id].pid
       /\ processes'[id].proc = processes[id].proc

(* Base is Data, about what is kept, and Control, about the call. *)
Data ==
  /\ children \in Seq(ChildT)
  /\ processes \in Seq(ProcessT)
  /\ unknown_processes \in Seq(UnknownT)
  /\ PidsUnique /\ Own /\ Ends /\ UnknownsAreForeign

Sizes ==
  /\ process_num < arr_size_proc
  /\ unknown_processes_num < arr_size_unknown
  /\ arr_size_proc \in Nat /\ arr_size_unknown \in Nat

Control ==
  /\ call \in [name : {"none", "kill", "wait", "print", "record", "crashed"},
               i : Int, signum : Int]
  /\ waited \in 0..process_num
  /\ InRange

(* The children are a sequence of ChildT, and every entry is one.          *)
LEMMA ChildrenType ==
  ASSUME Types
  PROVE  /\ children \in Seq(ChildT) /\ Len(children) \in Nat
         /\ children \in [1..Len(children) -> ChildT]
         /\ \A c \in 1..Len(children) : children[c] \in ChildT
         /\ processes \in Seq(ProcessT) /\ process_num \in Nat
         /\ \A id \in 1..process_num : processes[id] \in ProcessT
         /\ unknown_processes \in Seq(UnknownT) /\ unknown_processes_num \in Nat
         /\ \A n \in 1..unknown_processes_num : unknown_processes[n] \in UnknownT
         /\ Here \subseteq 1..Len(children)
<1>1. /\ children \in Seq(ChildT)
      /\ processes \in Seq(ProcessT)
      /\ unknown_processes \in Seq(UnknownT)
  BY DEF Types, TypeOK, ChildT, ProcessT, UnknownT
<1>2. Here \subseteq 1..Len(children)
  BY DEF Here
<1> QED
  BY <1>1, <1>2, LenProperties, ElementOfSeq DEF process_num, unknown_processes_num

(* A child that has not ended may end with any status of waitpid.          *)
LEMMA DeadTurns ==
  ASSUME NEW child \in ChildT, child.ended = NOTHING, NEW status \in Nat
  PROVE  Turns(child, Dead(child, status)) /\ Dead(child, status).state = "zombie"
<1> DEFINE new == Dead(child, status)
<1>0. status \in Int /\ NOTHING \in Int
  BY DEF NOTHING
<1>1. new \in ChildT
  <2>1. new = [child EXCEPT !.state = "zombie", !.ended = status, !.report = NOTHING]
    BY DEF Dead
  <2> HIDE DEF new
  <2> QED
    BY <1>0, <2>1 DEF ChildT
<1>2. /\ new.pid = child.pid /\ new.created = child.created
      /\ new.state = "zombie" /\ new.ended = status
  BY DEF Dead, ChildT
<1>3. status # NOTHING
  BY DEF NOTHING
<1> HIDE DEF new
<1>4. Turns(child, new)
  BY <1>1, <1>2, <1>3 DEF Turns
<1> QED
  BY <1>2, <1>4 DEF new

(* A signal changes neither who a child is nor how it ended, and makes a   *)
(* zombie of a child only if it is SIGKILL.                                *)
LEMMA SignalledTurns ==
  ASSUME NEW child \in ChildT, NEW signum \in {SIGKILL, SIGCONT, SIGSTOP},
         child.ended \in Nat \cup {NOTHING},
         child.ended = NOTHING <=> child.state \in {"running", "stopped"}
  PROVE  /\ Turns(child, Signalled(child, signum))
         /\ Signalled(child, signum).state = "reaped" <=> child.state = "reaped"
         /\ Signalled(child, signum).state = "zombie" =>
              child.state = "zombie" \/ signum = SIGKILL
<1>1. Turns(child, child)
  BY DEF Turns
<1>2. CASE child.state \in {"zombie", "reaped"}
  BY <1>1, <1>2 DEF Signalled
<1>3. CASE child.state \in {"running", "stopped"} /\ signum = SIGKILL
  BY <1>3, DeadTurns DEF Signalled, SIGKILL, SIGSTOP, SIGCONT
<1>4. CASE child.state = "running" /\ signum = SIGSTOP
  <2> DEFINE new == Signalled(child, signum)
  <2>1. new = [child EXCEPT !.state = "stopped", !.report = Stopped]
    BY <1>4 DEF Signalled, SIGKILL, SIGSTOP, SIGCONT
  <2>2. Stopped \in Int
    BY DEF Stopped, SIGSTOP
  <2>3. new \in ChildT
    BY <2>1, <2>2 DEF ChildT
  <2>4. /\ new.pid = child.pid /\ new.created = child.created
        /\ new.state = "stopped" /\ new.ended = child.ended
    BY <2>1 DEF ChildT
  <2> HIDE DEF new
  <2>5. Turns(child, new)
    BY <1>4, <2>3, <2>4 DEF Turns
  <2> QED
    BY <1>4, <2>4, <2>5 DEF new
<1>5. CASE child.state = "stopped" /\ signum = SIGCONT
  <2> DEFINE new == Signalled(child, signum)
  <2>1. new = [child EXCEPT !.state = "running", !.report = CONTINUED]
    BY <1>5 DEF Signalled, SIGKILL, SIGSTOP, SIGCONT
  <2>2. CONTINUED \in Int
    BY DEF CONTINUED
  <2>3. new \in ChildT
    BY <2>1, <2>2 DEF ChildT
  <2>4. /\ new.pid = child.pid /\ new.created = child.created
        /\ new.state = "running" /\ new.ended = child.ended
    BY <2>1 DEF ChildT
  <2> HIDE DEF new
  <2>5. Turns(child, new)
    BY <1>5, <2>3, <2>4 DEF Turns
  <2> QED
    BY <1>5, <2>4, <2>5 DEF new
<1>6. CASE \/ child.state = "running" /\ signum = SIGCONT
           \/ child.state = "stopped" /\ signum = SIGSTOP
  <2>1. Signalled(child, signum) = child
    BY <1>6 DEF Signalled, SIGKILL, SIGSTOP, SIGCONT
  <2> QED
    BY <1>1, <1>6, <2>1
<1> QED
  BY <1>2, <1>3, <1>4, <1>5, <1>6 DEF ChildT

(* A step that changes one child is a step of Kept.                        *)
LEMMA OneChild ==
  ASSUME Types, Ends, NEW c \in 1..Len(children), NEW e, NEW R, NEW E,
         Turns(children[c], e), R \subseteq {c},
         e.state = "reaped" <=> children[c].state = "reaped" \/ c \in R,
         e.state = "zombie" => children[c].state = "zombie" \/ c \in E,
         children' = [children EXCEPT ![c] = e]
  PROVE  Kept(R, E)
<1>1. children \in Seq(ChildT) /\ e \in ChildT
      /\ \A d \in 1..Len(children) : children[d] \in ChildT
  BY ChildrenType DEF Turns
<1>2. /\ children' \in Seq(ChildT) /\ Len(children') = Len(children)
      /\ \A d \in 1..Len(children) :
           children'[d] = IF d = c THEN e ELSE children[d]
  BY <1>1, ExceptSeq
<1>3. \A d \in 1..Len(children) : Turns(children[d], children[d])
  BY <1>1 DEF Turns, Ends
<1> QED
  BY <1>2, <1>3 DEF Kept

(* waitpid reaps a zombie, and only it.                                    *)
LEMMA ReapedKept ==
  ASSUME Types, Ends, NEW c \in 1..Len(children), children[c].state = "zombie",
         children' = Reaped(c)
  PROVE  Kept({c}, {})
<1> DEFINE e == [children[c] EXCEPT !.state = "reaped"]
<1>1. children' = [children EXCEPT ![c] = e]
  BY DEF Reaped
<1>2. children[c] \in ChildT
  BY ChildrenType
<1>3. Turns(children[c], e) /\ e.state = "reaped"
  BY <1>2 DEF Turns, ChildT, Ends
<1> HIDE DEF e
<1> QED
  BY <1>1, <1>3, OneChild

(* The report of a stop or a continuation is taken, and nothing else.      *)
LEMMA CollectedKept ==
  ASSUME Types, Ends, NEW c \in 1..Len(children), children[c].state # "reaped",
         children' = Collected(c)
  PROVE  Kept(IF children[c].state = "zombie" THEN {c} ELSE {}, {})
<1>1. CASE children[c].state = "zombie"
  BY <1>1, ReapedKept DEF Collected
<1>2. CASE children[c].state # "zombie"
  <2> DEFINE e == [children[c] EXCEPT !.report = NOTHING]
  <2>1. children' = [children EXCEPT ![c] = e]
    BY <1>2 DEF Collected
  <2>2. children[c] \in ChildT
    BY ChildrenType
  <2>3. Turns(children[c], e) /\ e.state = children[c].state
    BY <2>2 DEF Turns, ChildT, Ends, NOTHING
  <2> HIDE DEF e
  <2> DEFINE none == {}
  <2>4. /\ e.state = "reaped" <=> children[c].state = "reaped" \/ c \in none
        /\ e.state = "zombie" => children[c].state = "zombie" \/ c \in none
        /\ none \subseteq {c}
    BY <2>3
  <2> HIDE DEF none
  <2>5. Kept(none, none)
    BY <2>1, <2>3, <2>4, OneChild
  <2> QED
    BY <1>2, <2>5 DEF none
<1> QED
  BY <1>1, <1>2

(* An unchanged list of children is a step of Kept.                        *)
LEMMA UnchangedKept ==
  ASSUME Types, Ends, UNCHANGED children
  PROVE  Kept({}, {})
BY ChildrenType DEF Kept, Turns, Ends

-----------------------------------------------------------------------------
(* What keeps Data *)

(* Base says of each part of the state what Data, Sizes and Control say.   *)
LEMMA BaseParts == Base <=> Data /\ Sizes /\ Control
<1>1. Base => Data
  BY DEF Base, Data, Types, TypeOK, ChildT, ProcessT, UnknownT
<1>2. Base => Sizes /\ Control
  BY DEF Base, Sizes, Control, Types, TypeOK
<1>3. Data /\ Sizes /\ Control => Base
  <2> SUFFICES ASSUME Data, Sizes, Control
               PROVE  Base
    OBVIOUS
  <2>1. call.name \in {"none", "kill", "wait", "print", "record", "crashed"}
    BY DEF Control
  <2>2. TypeOK
    BY <2>1 DEF TypeOK, Data, Sizes, Control, ChildT, ProcessT, UnknownT
  <2> QED
    BY <2>2 DEF Base, Data, Sizes, Control, Types
<1> QED
  BY <1>1, <1>2, <1>3

(* The entries of the three sequences have their types.                    *)
LEMMA DataTypes ==
  ASSUME Data
  PROVE  /\ Len(children) \in Nat /\ process_num \in Nat /\ unknown_processes_num \in Nat
         /\ \A c \in 1..Len(children) : children[c] \in ChildT
         /\ \A id \in 1..process_num : processes[id] \in ProcessT
         /\ \A n \in 1..unknown_processes_num : unknown_processes[n] \in UnknownT
         /\ Here \subseteq 1..Len(children)
<1>1. Here \subseteq 1..Len(children)
  BY DEF Here
<1> QED
  BY <1>1, LenProperties, ElementOfSeq DEF Data, process_num, unknown_processes_num

(* A step that makes no child and no process keeps who is whose: whoever   *)
(* ends or is reaped, a pid stays that of one child.                       *)
LEMMA DataListsKept ==
  ASSUME Data, NEW R, NEW E, Kept(R, E), SameProcesses
  PROVE  /\ PidsUnique' /\ Own' /\ Ends'
         /\ (children \in Seq(ChildT))' /\ (processes \in Seq(ProcessT))'
<1>1. /\ Len(children) \in Nat /\ process_num \in Nat
      /\ \A c \in 1..Len(children) : children[c] \in ChildT
      /\ \A id \in 1..process_num : processes[id] \in ProcessT
      /\ \A n \in 1..unknown_processes_num : unknown_processes[n] \in UnknownT
  BY DataTypes
<1>2. /\ Len(children') = Len(children)
      /\ \A c \in 1..Len(children) :
           /\ children'[c].pid = children[c].pid
           /\ children'[c].created = children[c].created
           /\ children'[c].state # "reaped" => children[c].state # "reaped"
  BY DEF Kept, Turns
<1>3. /\ Len(processes') = Len(processes)
      /\ process_num' = process_num
      /\ \A id \in 1..process_num :
           /\ processes'[id].pid = processes[id].pid
           /\ processes'[id].proc = processes[id].proc
  BY DEF SameProcesses, process_num
<1>4. children' \in Seq(ChildT)
  BY DEF Kept
<1>5. (processes \in Seq(ProcessT))'
  BY <1>2 DEF SameProcesses, ProcessT
<1>6. PidsUnique'
  BY <1>2 DEF Data, PidsUnique, Here
<1>7. Own'
  <2>1. \A id \in 1..process_num : processes[id].proc \in 1..Len(children)
    BY <1>1 DEF ProcessT
  <2>2. Own
    BY DEF Data
  <2>3. \A id \in 1..process_num :
          /\ children'[processes'[id].proc].created
          /\ children'[processes'[id].proc].pid = processes'[id].pid
    BY <1>2, <1>3, <2>1, <2>2 DEF Own
  <2>4. \A id, jd \in 1..process_num :
          processes'[id].proc = processes'[jd].proc => id = jd
    BY <1>3, <2>2 DEF Own
  <2>5. \A c \in 1..Len(children) : children'[c].created =>
          \E id \in 1..process_num : processes'[id].proc = c
    BY <1>2, <1>3, <2>2 DEF Own
  <2> QED
    BY <1>2, <1>3, <2>3, <2>4, <2>5 DEF Own
<1>8. Ends'
  BY <1>2 DEF Kept, Turns, Ends
<1>9. (children \in Seq(ChildT))'
  BY <1>4, <1>2 DEF ChildT
<1> QED
  BY <1>5, <1>6, <1>7, <1>8, <1>9

(* And Data, if the list of unknown processes stays as it is.              *)
LEMMA DataKept ==
  ASSUME Data, NEW R, NEW E, Kept(R, E), SameProcesses, UNCHANGED unknown_processes
  PROVE  Data'
<1>1. /\ Len(children') = Len(children)
      /\ \A c \in 1..Len(children) : children'[c].created = children[c].created
  BY DEF Kept, Turns
<1>2. (unknown_processes \in Seq(UnknownT))'
  BY <1>1 DEF Data, UnknownT
<1>3. UnknownsAreForeign'
  <2>1. \A n \in 1..unknown_processes_num : unknown_processes[n].proc \in 1..Len(children)
    BY DataTypes DEF UnknownT
  <2> QED
    BY <1>1, <2>1 DEF Data, UnknownsAreForeign, unknown_processes_num
<1> QED
  BY <1>2, <1>3, DataListsKept DEF Data

(* A new child has a pid that no other child has; every other is as it was. *)
LEMMA MadeChildren ==
  ASSUME Data, NEW child, Made(child)
  PROVE  /\ children' \in Seq(ChildT)
         /\ Len(children') = Len(children) + 1
         /\ \A c \in 1..Len(children) : children'[c] = children[c]
         /\ children'[Len(children) + 1] = child
         /\ child.state = "running" /\ child.ended = NOTHING
         /\ child.pid \in Pids
         /\ \A c \in Here : children[c].pid # child.pid
         /\ Here' = Here \cup {Len(children) + 1}
         /\ PidsUnique' /\ Ends'
<1>1. /\ child.state = "running" /\ child.ended = NOTHING
      /\ child.pid \in Pids /\ \A c \in Here : children[c].pid # child.pid
  BY DEF Made, Child, FreePids
<1>2. child \in ChildT
  <2>1. child.created \in BOOLEAN /\ NOTHING \in Int
    BY DEF Made, NOTHING
  <2> QED
    BY <1>1, <2>1 DEF Made, Child, ChildT
<1>3. /\ children' \in Seq(ChildT)
      /\ Len(children') = Len(children) + 1
      /\ \A c \in 1..Len(children) : children'[c] = children[c]
      /\ children'[Len(children) + 1] = child
  BY <1>2, AppendProperties DEF Data, Made
<1>4. Len(children) \in Nat
  BY DataTypes
<1>5. 1..Len(children') = 1..Len(children) \cup {Len(children) + 1}
  BY <1>3, <1>4
<1>6. Here' = Here \cup {Len(children) + 1}
  BY <1>1, <1>3, <1>5 DEF Here
<1>7. PidsUnique'
  <2>1. \A c \in Here : children'[c] = children[c]
    BY <1>3 DEF Here
  <2>2. \A c, d \in Here : children[c].pid = children[d].pid => c = d
    BY DEF Data, PidsUnique
  <2>3. \A c \in Here : children'[c].pid # children'[Len(children) + 1].pid
    BY <1>1, <1>3, <2>1
  <2>4. \A c, d \in Here : children'[c].pid = children'[d].pid => c = d
    BY <2>1, <2>2
  <2> QED
    BY <1>6, <2>3, <2>4 DEF PidsUnique
<1>8. Ends'
  BY <1>1, <1>3, <1>5 DEF Data, Ends
<1> QED
  BY <1>1, <1>3, <1>6, <1>7, <1>8

(* The two lists hold what they held when there is one child more.         *)
LEMMA MadeLists ==
  ASSUME Data, NEW child, Made(child)
  PROVE  /\ \A id \in 1..process_num : processes[id].proc \in 1..Len(children)
         /\ processes \in Seq(ProcessT')
         /\ unknown_processes \in Seq(UnknownT')
         /\ UNCHANGED unknown_processes => UnknownsAreForeign'
<1>1. Len(children) \in Nat /\ Len(children') = Len(children) + 1
  BY DataTypes, MadeChildren
<1>2. ProcessT \subseteq ProcessT' /\ UnknownT \subseteq UnknownT'
  BY <1>1 DEF ProcessT, UnknownT
<1>3. processes \in Seq(ProcessT') /\ unknown_processes \in Seq(UnknownT')
  BY <1>2, SeqMonotonic DEF Data
<1>4. /\ \A id \in 1..process_num : processes[id].proc \in 1..Len(children)
      /\ \A n \in 1..unknown_processes_num : unknown_processes[n].proc \in 1..Len(children)
  BY DataTypes DEF ProcessT, UnknownT
<1>5. UNCHANGED unknown_processes => UnknownsAreForeign'
  BY <1>4, MadeChildren DEF Data, UnknownsAreForeign, unknown_processes_num
<1> QED
  BY <1>3, <1>4, <1>5

(* An adopted child keeps Data.                                            *)
LEMMA DataAdopted ==
  ASSUME Data, NEW child, Made(child), ~child.created,
         UNCHANGED <<processes, unknown_processes>>
  PROVE  Data'
<1>1. Len(children) \in Nat /\ process_num' = process_num
  BY DataTypes DEF process_num
<1>2. Own
  BY DEF Data
<1>3. \A id \in 1..process_num :
        /\ children'[processes'[id].proc].created
        /\ children'[processes'[id].proc].pid = processes'[id].pid
  BY <1>2, MadeLists, MadeChildren DEF Own
<1>4. \A c \in 1..Len(children') : children'[c].created =>
        \E id \in 1..process_num : processes'[id].proc = c
  <2> SUFFICES ASSUME NEW c \in 1..Len(children'), children'[c].created
               PROVE  \E id \in 1..process_num : processes[id].proc = c
    OBVIOUS
  <2>1. c \in 1..Len(children) /\ children'[c] = children[c]
    BY <1>1, MadeChildren
  <2> QED
    BY <1>2, <2>1 DEF Own
<1>5. Own'
  BY <1>1, <1>2, <1>3, <1>4 DEF Own
<1> QED
  BY <1>5, MadeChildren, MadeLists DEF Data

(* A created child and its sub_process keep Data.                          *)
LEMMA DataCreated ==
  ASSUME Data, NEW child, Made(child), child.created,
         processes' = Append(processes,
           [pid |-> child.pid, status |-> UNKNOWN, proc |-> Len(children) + 1]),
         UNCHANGED unknown_processes
  PROVE  /\ Data'
         /\ process_num' = process_num + 1
         /\ \A id \in 1..process_num : processes'[id] = processes[id]
         /\ processes'[process_num + 1].proc = Len(children) + 1
         /\ processes'[process_num + 1].status = UNKNOWN
<1> DEFINE new == [pid |-> child.pid, status |-> UNKNOWN, proc |-> Len(children) + 1]
           last == process_num + 1
<1>1. Len(children) \in Nat /\ process_num \in Nat
  BY DataTypes
<1>2. new \in ProcessT'
  BY <1>1, MadeChildren DEF ProcessT, UNKNOWN
<1>3. new.pid = child.pid /\ new.proc = Len(children) + 1 /\ new.status = UNKNOWN
  OBVIOUS
<1> HIDE DEF new
<1>4. processes' = Append(processes, new)
  BY DEF new
<1>5. /\ processes' \in Seq(ProcessT')
      /\ process_num' = last
      /\ \A id \in 1..process_num : processes'[id] = processes[id]
      /\ processes'[last] = new
  BY <1>2, <1>4, AppendProperties, MadeLists DEF process_num
<1>6. 1..process_num' = 1..process_num \cup {last}
  BY <1>1, <1>5
<1>7. /\ \A id \in 1..process_num :
           /\ children[processes[id].proc].created
           /\ children[processes[id].proc].pid = processes[id].pid
           /\ processes[id].proc \in 1..Len(children)
      /\ \A id, jd \in 1..process_num : processes[id].proc = processes[jd].proc => id = jd
      /\ \A c \in 1..Len(children) : children[c].created =>
           \E id \in 1..process_num : processes[id].proc = c
  BY MadeLists DEF Data, Own
<1>8. /\ Len(children') = Len(children) + 1
      /\ \A c \in 1..Len(children) : children'[c] = children[c]
      /\ children'[Len(children) + 1] = child
  BY MadeChildren
<1> DEFINE Olds == 1..process_num
           lastc == Len(children) + 1
<1> HIDE DEF last, lastc, Olds
<1>9. \A id \in Olds \cup {last} :
        /\ children'[processes'[id].proc].created
        /\ children'[processes'[id].proc].pid = processes'[id].pid
  <2>1. ASSUME NEW id \in Olds
        PROVE  /\ children'[processes'[id].proc].created
               /\ children'[processes'[id].proc].pid = processes'[id].pid
    <3> DEFINE c == processes[id].proc
    <3>1. /\ processes'[id] = processes[id] /\ c \in 1..Len(children)
          /\ children[c].created /\ children[c].pid = processes[id].pid
      BY <1>5, <1>7 DEF Olds
    <3> HIDE DEF c
    <3>2. children'[c] = children[c]
      BY <1>8, <3>1
    <3> QED
      BY <3>1, <3>2 DEF c
  <2>2. /\ children'[processes'[last].proc].created
        /\ children'[processes'[last].proc].pid = processes'[last].pid
    <3>1. children'[processes'[last].proc] = child
      BY <1>3, <1>5, <1>8
    <3> QED
      BY <1>2, <1>3, <1>5, <3>1
  <2> QED
    BY <2>1, <2>2
<1>10. \A id, jd \in Olds \cup {last} :
         processes'[id].proc = processes'[jd].proc => id = jd
  <2>1. \A id \in Olds : processes'[id].proc # processes'[last].proc
    <3> SUFFICES ASSUME NEW id \in Olds
                 PROVE  processes'[id].proc # processes'[last].proc
      OBVIOUS
    <3>1. processes'[id].proc \in 1..Len(children)
      <4>1. processes'[id] = processes[id] /\ processes[id].proc \in 1..Len(children)
        BY <1>5, <1>7 DEF Olds
      <4> QED
        BY <4>1
    <3>2. processes'[last].proc = Len(children) + 1
      BY <1>3, <1>5
    <3>3. \A c \in 1..Len(children) : c # Len(children) + 1
      BY <1>1
    <3> QED
      BY <3>1, <3>2, <3>3
  <2>2. \A id, jd \in Olds : processes'[id].proc = processes'[jd].proc => id = jd
    BY <1>5, <1>7 DEF Olds
  <2> QED
    BY <2>1, <2>2
<1>11. \A c \in 1..Len(children') : children'[c].created =>
         \E id \in Olds \cup {last} : processes'[id].proc = c
  <2> SUFFICES ASSUME NEW c \in 1..Len(children'), children'[c].created
               PROVE  \E id \in Olds \cup {last} : processes'[id].proc = c
    OBVIOUS
  <2>1. CASE c = Len(children) + 1
    BY <1>3, <1>5, <2>1
  <2>2. CASE c # Len(children) + 1
    <3>1. c \in 1..Len(children) /\ children'[c] = children[c]
      BY <1>1, <1>8, <2>2
    <3>2. PICK id \in Olds : processes[id].proc = c
      BY <1>7, <3>1 DEF Olds
    <3> QED
      BY <1>5, <3>2 DEF Olds
  <2> QED
    BY <2>1, <2>2
<1>12. Own'
  BY <1>6, <1>9, <1>10, <1>11 DEF Own, Olds
<1>13. Data'
  BY <1>5, <1>12, MadeChildren, MadeLists DEF Data
<1> QED
  BY <1>3, <1>5, <1>13 DEF last

-----------------------------------------------------------------------------
(* What each operation does to the children and the processes *)

(* What StatusOfItsOwn lets the status of a process be. *)
StatusesOf(ended) ==
  IF WIFEXITED(ended) THEN {WEXITSTATUS(ended)} ELSE {WTERMSIG(ended) + 128, 255}

(* waitpid returns child c, and the status of process id is recorded. *)
Learns(id, c) ==
  /\ processes[id].status = UNKNOWN
  /\ c \in Ended(processes[id].pid)
  /\ Kept({c}, {})
  /\ SameProcesses
  /\ \A jd \in 1..process_num : jd # id => processes'[jd] = processes[jd]
  /\ processes'[id].status # UNKNOWN
  /\ processes'[id].status \in StatusesOf(children[c].ended)

(* The outcome of waitpid for process id. *)
Looks(id) ==
  \/ /\ processes[id].status # UNKNOWN \/ Ended(processes[id].pid) = {}
     /\ UNCHANGED <<children, processes>>
  \/ \E c \in 1..Len(children) : Learns(id, c)

(* Base gives what the lemmas about children assume.                       *)
LEMMA BaseData ==
  ASSUME Base
  PROVE  /\ Data /\ Types /\ Ends /\ Own /\ PidsUnique
         /\ Sizes /\ Control /\ process_num \in Nat /\ Len(children) \in Nat
         /\ Here \subseteq 1..Len(children)
<1>1. Data /\ Sizes /\ Control
  BY BaseParts
<1> QED
  BY <1>1, DataTypes DEF Data, Base

(* What follows from a status: an exit code, or a signal plus 128.         *)
LEMMA StatusRange ==
  ASSUME NEW ended \in Nat
  PROVE  /\ StatusWaited(ended) \in 0..255 /\ StatusWaited(ended) \in StatusesOf(ended)
         /\ \A id : processes[id].status = UNKNOWN =>
              StatusFrom(id, ended) \in 0..255 /\ StatusFrom(id, ended) \in StatusesOf(ended)
<1>1. ended % 128 \in 0..127 /\ (ended \div 256) % 256 \in 0..255
  <2>1. ended \div 256 \in Nat
    OBVIOUS
  <2> QED
    BY <2>1
<1>2. WTERMSIG(UNKNOWN) = 127
  <2>1. \A n \in Int : n + 1 = 0 => n % 128 = 127
    BY SMT
  <2>2. UNKNOWN \in Int /\ UNKNOWN + 1 = 0
    BY DEF UNKNOWN
  <2> QED
    BY <2>1, <2>2 DEF WTERMSIG
<1>3. WEXITSTATUS(ended) \in 0..255 /\ WTERMSIG(ended) + 128 \in 0..255
  BY <1>1 DEF WEXITSTATUS, WTERMSIG
<1>4. StatusWaited(ended) \in 0..255 /\ StatusWaited(ended) \in StatusesOf(ended)
  BY <1>3 DEF StatusWaited, StatusesOf
<1>5. ASSUME NEW id, processes[id].status = UNKNOWN
      PROVE  StatusFrom(id, ended) \in 0..255 /\ StatusFrom(id, ended) \in StatusesOf(ended)
  BY <1>2, <1>3, <1>5 DEF StatusFrom, StatusesOf
<1> QED
  BY <1>4, <1>5

(* The assignments that follow a waitpid that returned child c.            *)
LEMMA LearnsOne ==
  ASSUME Base, NEW id \in 1..process_num, NEW c \in Ended(processes[id].pid),
         NEW status \in 0..255, status \in StatusesOf(children[c].ended),
         processes[id].status = UNKNOWN,
         children' = Reaped(c),
         processes' = [processes EXCEPT ![id].status = status]
  PROVE  Learns(id, c)
<1>1. c \in 1..Len(children) /\ children[c].state = "zombie"
  BY DEF Ended, WithPid, Here
<1>2. Kept({c}, {})
  BY <1>1, BaseData, ReapedKept
<1> DEFINE new == [processes[id] EXCEPT !.status = status]
<1>3. processes \in Seq(ProcessT) /\ processes[id] \in ProcessT
  BY BaseData, DataTypes DEF Data
<1>4. /\ new \in ProcessT /\ new.status = status
      /\ new.pid = processes[id].pid /\ new.proc = processes[id].proc
  <2>1. status \in -1..255
    OBVIOUS
  <2> QED
    BY <1>3, <2>1 DEF ProcessT
<1>5. processes' = [processes EXCEPT ![id] = new]
  OBVIOUS
<1> HIDE DEF new
<1>6. /\ processes' \in Seq(ProcessT) /\ Len(processes') = Len(processes)
      /\ \A jd \in 1..process_num :
           processes'[jd] = IF jd = id THEN new ELSE processes[jd]
  BY <1>3, <1>4, <1>5, ExceptSeq DEF process_num
<1>7. SameProcesses
  BY <1>4, <1>6 DEF SameProcesses, ProcessT
<1>8. \A jd \in 1..process_num : jd # id => processes'[jd] = processes[jd]
  BY <1>6
<1>9. processes'[id].status = status /\ status # UNKNOWN
  <2>1. \A n \in 0..255 : n # UNKNOWN
    BY DEF UNKNOWN
  <2>2. processes'[id] = new
    BY <1>6
  <2> QED
    BY <1>4, <2>1, <2>2
<1> QED
  BY <1>2, <1>7, <1>8, <1>9 DEF Learns

(* Who waitpid can return has ended, and its wait status says how.         *)
LEMMA EndedStatus ==
  ASSUME Base, NEW pid, NEW c \in Ended(pid)
  PROVE  c \in 1..Len(children) /\ children[c].ended \in Nat
<1>1. c \in 1..Len(children) /\ children[c].state = "zombie"
  BY DEF Ended, WithPid, Here
<1>2. children[c].ended \in Nat \cup {NOTHING} /\ children[c].ended # NOTHING
  BY <1>1, BaseData DEF Ends
<1> QED
  BY <1>1, <1>2

(* The loop and the query both look at one process.                        *)
LEMMA GetsStatusLooks ==
  ASSUME Base, NEW id \in 1..process_num, GetsStatus(id)
  PROVE  Looks(id)
<1>1. CASE processes[id].status = UNKNOWN /\ Ended(processes[id].pid) # {}
  <2>1. PICK c \in Ended(processes[id].pid) :
          /\ children' = Reaped(c)
          /\ processes' = [processes EXCEPT ![id].status = StatusFrom(id, children[c].ended)]
    BY <1>1 DEF GetsStatus, IsProcess
  <2>2. c \in 1..Len(children) /\ children[c].ended \in Nat
    BY EndedStatus
  <2>3. /\ StatusFrom(id, children[c].ended) \in 0..255
        /\ StatusFrom(id, children[c].ended) \in StatusesOf(children[c].ended)
    BY <1>1, <2>2, StatusRange
  <2>4. Learns(id, c)
    BY <1>1, <2>1, <2>3, LearnsOne
  <2> QED
    BY <2>2, <2>4 DEF Looks
<1>2. CASE ~(processes[id].status = UNKNOWN /\ Ended(processes[id].pid) # {})
  BY <1>2 DEF GetsStatus, IsProcess, Looks
<1> QED
  BY <1>1, <1>2

LEMMA WaitTurnLooks ==
  ASSUME Base, wait_turn
  PROVE  Looks(call.i) /\ call.i \in 1..process_num
<1> DEFINE id == call.i
<1>1. id \in 1..process_num
  BY BaseData DEF wait_turn, Control, InRange
<1>2. CASE /\ processes[id].status # UNKNOWN \/ WithPid(processes[id].pid) = {}
           /\ UNCHANGED <<children, processes>>
  <2>1. Ended(processes[id].pid) \subseteq WithPid(processes[id].pid)
    BY DEF Ended
  <2>2. processes[id].status # UNKNOWN \/ Ended(processes[id].pid) = {}
    BY <1>2, <2>1
  <2> QED
    BY <1>1, <1>2, <2>2 DEF Looks
<1>3. CASE /\ processes[id].status = UNKNOWN
           /\ \E c \in Ended(processes[id].pid) :
                /\ children' = Reaped(c)
                /\ processes' = [processes EXCEPT ![id].status =
                                   StatusWaited(children[c].ended)]
  <2>1. PICK c \in Ended(processes[id].pid) :
          /\ children' = Reaped(c)
          /\ processes' = [processes EXCEPT ![id].status = StatusWaited(children[c].ended)]
    BY <1>3
  <2>2. c \in 1..Len(children) /\ children[c].ended \in Nat
    BY EndedStatus
  <2>3. /\ StatusWaited(children[c].ended) \in 0..255
        /\ StatusWaited(children[c].ended) \in StatusesOf(children[c].ended)
    BY <2>2, StatusRange
  <2>4. Learns(id, c)
    BY <1>1, <1>3, <2>1, <2>3, LearnsOne
  <2> QED
    BY <1>1, <2>2, <2>4 DEF Looks
<1> QED
  BY <1>1, <1>2, <1>3 DEF wait_turn

(* No process is made or forgotten when one is looked at.                  *)
LEMMA LooksData ==
  ASSUME Base, NEW id \in 1..process_num, Looks(id), UNCHANGED unknown_processes
  PROVE  Data' /\ process_num' = process_num
<1>1. Data /\ Types /\ Ends
  BY BaseData
<1>2. CASE UNCHANGED <<children, processes>>
  <2>1. Kept({}, {})
    BY <1>1, <1>2, UnchangedKept
  <2>2. SameProcesses
    BY <1>1, <1>2 DEF SameProcesses, Data, ProcessT
  <2> QED
    BY <1>1, <1>2, <2>1, <2>2, DataKept DEF process_num
<1>3. CASE \E c \in 1..Len(children) : Learns(id, c)
  BY <1>1, <1>3, DataKept DEF Learns, SameProcesses, process_num
<1> QED
  BY <1>2, <1>3 DEF Looks

(* A child that exits: it had not ended.                                   *)
LEMMA ExitsKept ==
  ASSUME Base, NEW c \in Here, NEW code \in ExitCodes, child_exits(c, code)
  PROVE  Kept({}, {c})
<1> DEFINE e == Dead(children[c], Exited(code))
           none == {}
           one == {c}
<1>1. c \in 1..Len(children) /\ children[c].state = "running" /\ children[c] \in ChildT
  BY BaseData, DataTypes DEF child_exits
<1>2. children[c].ended = NOTHING
  BY <1>1, BaseData DEF Ends
<1>3. Exited(code) \in Nat
  BY ConstantsAssumption DEF Exited
<1>4. Turns(children[c], e) /\ e.state = "zombie"
  BY <1>1, <1>2, <1>3, DeadTurns
<1>5. children' = [children EXCEPT ![c] = e]
  BY DEF child_exits
<1> HIDE DEF e
<1>6. /\ e.state = "reaped" <=> children[c].state = "reaped" \/ c \in none
      /\ e.state = "zombie" => children[c].state = "zombie" \/ c \in one
      /\ none \subseteq {c}
  BY <1>1, <1>4
<1> HIDE DEF none, one
<1>7. Kept(none, one)
  BY <1>1, <1>4, <1>5, <1>6, BaseData, OneChild
<1> QED
  BY <1>7 DEF none, one

(* A child that is signalled: only SIGKILL ends it.                        *)
LEMMA SignalledKept ==
  ASSUME Base, NEW c \in Here, NEW signum \in Signals, child_signalled(c, signum)
  PROVE  Kept({}, IF signum = SIGKILL THEN {c} ELSE {})
<1> DEFINE e == Signalled(children[c], signum)
           none == {}
           some == IF signum = SIGKILL THEN {c} ELSE {}
<1>1. c \in 1..Len(children) /\ children[c] \in ChildT
  BY BaseData, DataTypes
<1>2. /\ children[c].ended \in Nat \cup {NOTHING}
      /\ children[c].ended = NOTHING <=> children[c].state \in {"running", "stopped"}
  BY <1>1, BaseData DEF Ends
<1>3. signum \in {SIGKILL, SIGCONT, SIGSTOP}
  BY ConstantsAssumption
<1>4. /\ Turns(children[c], e)
      /\ e.state = "reaped" <=> children[c].state = "reaped"
      /\ e.state = "zombie" => children[c].state = "zombie" \/ signum = SIGKILL
  BY <1>1, <1>2, <1>3, SignalledTurns
<1>5. children' = [children EXCEPT ![c] = e]
  BY DEF child_signalled
<1> HIDE DEF e
<1>6. /\ e.state = "reaped" <=> children[c].state = "reaped" \/ c \in none
      /\ e.state = "zombie" => children[c].state = "zombie" \/ c \in some
      /\ none \subseteq {c}
  BY <1>4
<1> HIDE DEF none, some
<1>7. Kept(none, some)
  BY <1>1, <1>4, <1>5, <1>6, BaseData, OneChild
<1> QED
  BY <1>7 DEF none, some

(* A kill makes no child and reaps none, whomever the signal strikes.      *)
LEMMA KillKept ==
  ASSUME Base, call.name = "kill", NEW hit, children' = Struck(hit)
  PROVE  Kept({}, 1..Len(children))
<1>1. /\ Len(children) \in Nat /\ children \in Seq(ChildT)
      /\ \A c \in 1..Len(children) : children[c] \in ChildT
  BY BaseData, DataTypes DEF Data
<1>2. call.signum \in {SIGKILL, SIGCONT, SIGSTOP}
  BY BaseData DEF Control, InRange
<1>3. \A c \in 1..Len(children) :
        children'[c] = IF c \in hit THEN Signalled(children[c], call.signum) ELSE children[c]
  BY DEF Struck
<1>4. ASSUME NEW c \in 1..Len(children)
      PROVE  /\ Turns(children[c], children'[c])
             /\ children'[c].state = "reaped" <=> children[c].state = "reaped"
  <2>1. /\ children[c].ended \in Nat \cup {NOTHING}
        /\ children[c].ended = NOTHING <=> children[c].state \in {"running", "stopped"}
    BY BaseData DEF Ends
  <2>2. CASE c \in hit
    BY <1>1, <1>2, <1>3, <2>1, <2>2, SignalledTurns
  <2>3. CASE c \notin hit
    BY <1>1, <1>3, <2>1, <2>3 DEF Turns
  <2> QED
    BY <2>2, <2>3
<1>5. children' \in [1..Len(children) -> ChildT]
  <2>1. children' = [c \in 1..Len(children) |-> children'[c]]
    BY <1>3 DEF Struck
  <2>2. \A c \in 1..Len(children) : children'[c] \in ChildT
    BY <1>4 DEF Turns
  <2> QED
    BY <2>1, <2>2
<1>6. children' \in Seq(ChildT)
  BY <1>1, <1>5, SeqDef
<1>7. Len(children') = Len(children)
  BY <1>1, <1>5, <1>6, LenProperties
<1> QED
  BY <1>4, <1>6, <1>7 DEF Kept

-----------------------------------------------------------------------------
(* Base is an invariant *)

(* BaseParts, after a step.                                                *)
LEMMA BaseNext ==
  ASSUME Data', Sizes', Control'
  PROVE  Base'
<1>1. (call.name \in {"none", "kill", "wait", "print", "record", "crashed"})'
  BY DEF Control
<1>2. TypeOK'
  BY <1>1 DEF TypeOK, Data, Sizes, Control, ChildT, ProcessT, UnknownT
<1> QED
  BY <1>2 DEF Base, Data, Sizes, Control, Types

(* A step of the kernel leaves the library's part of Base alone.           *)
LEMMA LibraryUnchanged ==
  ASSUME Base, UNCHANGED library
  PROVE  SameProcesses /\ Sizes' /\ Control' /\ UNCHANGED unknown_processes
<1>1. Data /\ Sizes /\ Control
  BY BaseData
<1>2. SameProcesses
  BY <1>1 DEF library, SameProcesses, Data, ProcessT
<1> QED
  BY <1>1, <1>2 DEF library, Sizes, Control, InRange, process_num, unknown_processes_num, IsProcess

(* An array that was not full has room for another entry when it has grown. *)
LEMMA GrownRoom ==
  ASSUME NEW num \in Nat, NEW size \in Nat, num < size
  PROVE  Grown(num + 1, size) \in Nat /\ num + 1 < Grown(num + 1, size)
BY DEF Grown

(* A call ends, or a loop goes to its next turn.                           *)
LEMMA ControlNext ==
  ASSUME Control, process_num \in Nat, process_num' = process_num,
         waited' \in 0..process_num,
         \/ Returns \/ call' = Call("record", 0) \/ call' = Call("crashed", 0)
         \/ \E name \in {"wait", "print"} :
              \E i \in 1..(process_num + 1) : call' = Call(name, i)
  PROVE  Control'
<1>1. CASE Returns \/ call' = Call("record", 0) \/ call' = Call("crashed", 0)
  BY <1>1 DEF Control, InRange, Returns, IDLE, Call
<1>2. CASE \E name \in {"wait", "print"} :
             \E i \in 1..(process_num + 1) : call' = Call(name, i)
  <2>1. PICK name \in {"wait", "print"}, i \in 1..(process_num + 1) : call' = Call(name, i)
    BY <1>2
  <2> QED
    BY <2>1 DEF Control, InRange, Call
<1> QED
  BY <1>1, <1>2

(* The kernel's steps keep Base.                                           *)
LEMMA KernelBase == Base /\ Kernel => Base'
<1> SUFFICES ASSUME Base, Kernel
             PROVE  Base'
  OBVIOUS
<1>1. Data /\ Sizes /\ Control
  BY BaseData
<1>2. ASSUME NEW c \in Here, NEW code \in ExitCodes, child_exits(c, code)
      PROVE  Base'
  <2>1. UNCHANGED library
    BY <1>2 DEF child_exits
  <2> QED
    BY <1>1, <1>2, <2>1, ExitsKept, LibraryUnchanged, DataKept, BaseNext
<1>3. ASSUME NEW c \in Here, NEW signum \in Signals, child_signalled(c, signum)
      PROVE  Base'
  <2>1. UNCHANGED library
    BY <1>3 DEF child_signalled
  <2> QED
    BY <1>1, <1>3, <2>1, SignalledKept, LibraryUnchanged, DataKept, BaseNext
<1>4. ASSUME NEW pid \in Pids, child_adopted(pid)
      PROVE  Base'
  <2> DEFINE child == Child(pid, FALSE)
  <2>1. UNCHANGED library
    BY <1>4 DEF child_adopted
  <2>2. Made(child) /\ ~child.created
    BY <1>4 DEF child_adopted, Made, Child
  <2> HIDE DEF child
  <2>3. Data'
    BY <1>1, <2>1, <2>2, DataAdopted DEF library
  <2> QED
    BY <2>1, <2>3, LibraryUnchanged, BaseNext
<1> QED
  BY <1>2, <1>3, <1>4 DEF Kernel

(* fork gives a pid that is free, and the array grows in time.             *)
LEMMA CreateBase ==
  ASSUME Base, NEW pid \in Pids, ssp_create(pid)
  PROVE  Base'
<1> DEFINE child == Child(pid, TRUE)
<1>1. Data /\ Sizes /\ Control /\ process_num \in Nat
  BY BaseData
<1>2. Made(child) /\ child.created /\ child.pid = pid
  BY DEF ssp_create, Made, Child
<1>3. /\ processes' = Append(processes,
           [pid |-> child.pid, status |-> UNKNOWN, proc |-> Len(children) + 1])
      /\ UNCHANGED unknown_processes
  BY <1>2 DEF ssp_create
<1> HIDE DEF child
<1>4. Data' /\ process_num' = process_num + 1
  BY <1>1, <1>2, <1>3, DataCreated
<1>5. Sizes'
  <2>1. arr_size_proc' = Grown(process_num + 1, arr_size_proc)
        /\ UNCHANGED arr_size_unknown
    BY DEF ssp_create
  <2> QED
    BY <1>1, <1>3, <1>4, <2>1, GrownRoom DEF Sizes, unknown_processes_num
<1>6. Control'
  <2>1. call = IDLE /\ call' = call /\ waited' = waited
    BY DEF ssp_create
  <2>2. waited' \in 0..process_num'
    BY <1>1, <1>4, <2>1 DEF Control
  <2> QED
    BY <1>1, <2>1, <2>2 DEF Control, InRange, IDLE, Call
<1> QED
  BY <1>4, <1>5, <1>6, BaseNext

(* ssp_get_status, and the first half of ssp_send_signal.                  *)
LEMMA StatusBase ==
  ASSUME Base, NEW id \in 1..process_num, GetsStatus(id),
         UNCHANGED <<unknown_processes, arr_size_proc, arr_size_unknown, waited>>,
         \/ Returns
         \/ \E signum \in Signals :
              call' = [name |-> "kill", i |-> id, signum |-> signum]
  PROVE  Base'
<1>1. Data /\ Sizes /\ Control /\ process_num \in Nat
  BY BaseData
<1>2. Data' /\ process_num' = process_num
  BY GetsStatusLooks, LooksData
<1>3. Sizes'
  BY <1>1, <1>2 DEF Sizes, unknown_processes_num
<1>4. Control'
  <2>1. waited' \in 0..process_num
    BY <1>1 DEF Control
  <2>2. CASE Returns
    BY <1>1, <1>2, <2>1, <2>2, ControlNext
  <2>3. CASE \E signum \in Signals :
               call' = [name |-> "kill", i |-> id, signum |-> signum]
    <3>1. PICK signum \in {SIGKILL, SIGCONT, SIGSTOP} :
            call' = [name |-> "kill", i |-> id, signum |-> signum]
      BY <2>3, ConstantsAssumption
    <3>2. signum \in Int
      BY <3>1 DEF SIGKILL, SIGCONT, SIGSTOP
    <3> QED
      BY <1>1, <1>2, <2>1, <3>1, <3>2 DEF Control, InRange, IsProcess
  <2> QED
    BY <2>2, <2>3
<1> QED
  BY <1>2, <1>3, <1>4, BaseNext

(* A step that changes nothing but the call.                               *)
LEMMA SameData ==
  ASSUME Base,
         UNCHANGED <<children, processes, unknown_processes, arr_size_proc,
                     arr_size_unknown>>
  PROVE  Data' /\ Sizes' /\ process_num' = process_num
<1>1. Data /\ Sizes /\ Types /\ Ends
  BY BaseData
<1>2. process_num' = process_num
  BY DEF process_num
<1>3. Data'
  <2>1. Kept({}, {}) /\ SameProcesses
    BY <1>1, UnchangedKept DEF SameProcesses, Data, ProcessT
  <2> QED
    BY <1>1, <2>1, DataKept
<1>4. Sizes'
  BY <1>1, <1>2 DEF Sizes, unknown_processes_num
<1> QED
  BY <1>2, <1>3, <1>4

(* A step that changes only the call, and what ssp_wait has waited for.    *)
LEMMA CallBase ==
  ASSUME Base,
         UNCHANGED <<children, processes, unknown_processes, arr_size_proc,
                     arr_size_unknown>>,
         waited' \in 0..process_num,
         \/ Returns \/ call' = Call("record", 0) \/ call' = Call("crashed", 0)
         \/ \E name \in {"wait", "print"} :
              \E i \in 1..(process_num + 1) : call' = Call(name, i)
  PROVE  Base'
<1>1. Control /\ process_num \in Nat
  BY BaseData
<1>2. Data' /\ Sizes' /\ process_num' = process_num
  BY SameData
<1>3. Control'
  BY <1>1, <1>2, ControlNext
<1> QED
  BY <1>2, <1>3, BaseNext

(* Both calls with the id of no process: the second goes on if the id is   *)
(* negative.                                                               *)
LEMMA OtherIdBase ==
  ASSUME Base, NEW id \in OtherIds, ~IsProcess(id),
         \/ ssp_get_status(id) \/ \E signum \in Signals : ssp_send_signal(id, signum)
  PROVE  Base'
<1>1. Data /\ Sizes /\ Control /\ process_num \in Nat /\ waited \in 0..process_num
  BY BaseData DEF Control
<1>2. UNCHANGED <<children, processes, unknown_processes, arr_size_proc,
                  arr_size_unknown, waited>>
  BY DEF ssp_get_status, ssp_send_signal, GetsStatus
<1>3. CASE Returns
  BY <1>1, <1>2, <1>3, CallBase
<1>4. CASE ~Returns
  <2>1. PICK signum \in Signals : ssp_send_signal(id, signum)
    BY <1>4 DEF ssp_get_status, Returns
  <2>2. call' = [name |-> "kill", i |-> id, signum |-> signum] /\ id <= process_num
    BY <1>4, <2>1 DEF ssp_send_signal
  <2>3. signum \in {SIGKILL, SIGCONT, SIGSTOP} /\ signum \in Int /\ id \in Int
    BY ConstantsAssumption DEF SIGKILL, SIGCONT, SIGSTOP
  <2>4. id < 1
    BY <1>1, <2>2, <2>3 DEF IsProcess
  <2>5. Data' /\ Sizes'
    BY <1>2, SameData
  <2>6. Control'
    <3>1. call' \in [name : {"none", "kill", "wait", "print", "record", "crashed"},
                      i : Int, signum : Int]
      BY <2>2, <2>3
    <3>2. waited' \in 0..process_num'
      BY <1>1, <1>2, SameData
    <3>3. InRange'
      BY <2>2, <2>3, <2>4 DEF InRange
    <3> QED
      BY <3>1, <3>2, <3>3 DEF Control
  <2> QED
    BY <2>5, <2>6, BaseNext
<1> QED
  BY <1>3, <1>4

(* A turn of a loop that looks at one process.                             *)
LEMMA TurnBase ==
  ASSUME Base, NEW name \in {"wait", "print"}, NEW id \in 1..process_num, Looks(id),
         call' = Call(name, id + 1),
         UNCHANGED <<unknown_processes, arr_size_proc, arr_size_unknown, waited>>
  PROVE  Base'
<1>1. Data /\ Sizes /\ Control /\ process_num \in Nat
  BY BaseData
<1>2. Data' /\ process_num' = process_num
  BY LooksData
<1>3. Sizes'
  BY <1>1, <1>2 DEF Sizes, unknown_processes_num
<1>4. Control'
  <2>1. waited' \in 0..process_num
    BY <1>1 DEF Control
  <2>2. id + 1 \in 1..(process_num + 1)
    BY <1>1
  <2> QED
    BY <1>1, <1>2, <2>1, <2>2, ControlNext
<1> QED
  BY <1>2, <1>3, <1>4, BaseNext

(* The kill at the end of ssp_send_signal, whomever it strikes.            *)
LEMMA KillBase ==
  ASSUME Base, send_signal_kill \/ \E hit : send_signal_wild(hit)
  PROVE  Base'
<1>1. Data /\ Sizes /\ Control /\ process_num \in Nat
  BY BaseData
<1>2. UNCHANGED <<processes, unknown_processes, arr_size_proc, arr_size_unknown, waited>>
      /\ Returns /\ call.name = "kill" /\ \E hit : children' = Struck(hit)
  BY DEF send_signal_kill, send_signal_wild
<1>3. process_num' = process_num
  BY <1>2 DEF process_num
<1>4. Data'
  <2>1. SameProcesses
    BY <1>1, <1>2 DEF SameProcesses, Data, ProcessT
  <2> QED
    BY <1>1, <1>2, <2>1, KillKept, DataKept
<1>5. Sizes'
  BY <1>1, <1>2, <1>3 DEF Sizes, unknown_processes_num
<1>6. Control'
  <2>1. waited' \in 0..process_num
    BY <1>1, <1>2 DEF Control
  <2> QED
    BY <1>1, <1>2, <1>3, <2>1, ControlNext
<1> QED
  BY <1>4, <1>5, <1>6, BaseNext

(* A child whose pid no sub_process has was not made by ssp_create.        *)
LEMMA UnknownIsForeign ==
  ASSUME Base, NEW c \in 1..Len(children), ~Known(children[c].pid)
  PROVE  ~children[c].created
BY BaseData DEF Own, Known

(* A turn of record_unknown_processes lists who is not known, and only it. *)
LEMMA RecordBase ==
  ASSUME Base, record_turn
  PROVE  Base'
<1>1. /\ Data /\ Sizes /\ Control /\ Types /\ Ends /\ process_num \in Nat
      /\ Len(children) \in Nat /\ unknown_processes_num \in Nat
  BY BaseData, DataTypes
<1>2. PICK c \in {d \in Here : Reportable(d)} :
        /\ children' = Collected(c)
        /\ IF Known(children[c].pid)
           THEN UNCHANGED <<unknown_processes, arr_size_unknown>>
           ELSE /\ \E byte \in HeapBytes :
                     unknown_processes' = Append(unknown_processes,
                       [pid |-> children[c].pid,
                        status |-> UnknownStatus(WaitStatus(c), byte),
                        proc |-> c])
                /\ arr_size_unknown' = Grown(unknown_processes_num + 1, arr_size_unknown)
  BY DEF record_turn
<1>3. /\ c \in 1..Len(children) /\ children[c].state # "reaped"
      /\ children[c] \in ChildT
  BY <1>1, DataTypes DEF Here
<1>4. UNCHANGED <<processes, arr_size_proc, call, waited>>
      /\ process_num' = process_num /\ SameProcesses
  BY <1>1 DEF record_turn, process_num, SameProcesses, Data, ProcessT
<1>5. PICK R : Kept(R, {})
  BY <1>1, <1>2, <1>3, CollectedKept
<1>6. Control'
  BY <1>1, <1>4 DEF Control, InRange, IsProcess
<1>7. CASE Known(children[c].pid)
  <2>1. Data'
    BY <1>1, <1>2, <1>4, <1>5, <1>7, DataKept
  <2>2. Sizes'
    BY <1>1, <1>2, <1>4, <1>7 DEF Sizes, unknown_processes_num
  <2> QED
    BY <1>6, <2>1, <2>2, BaseNext
<1>8. CASE ~Known(children[c].pid)
  <2>1. PICK byte \in HeapBytes :
          unknown_processes' = Append(unknown_processes,
            [pid |-> children[c].pid,
             status |-> UnknownStatus(WaitStatus(c), byte), proc |-> c])
    BY <1>2, <1>8
  <2> DEFINE new == [pid |-> children[c].pid,
                     status |-> UnknownStatus(WaitStatus(c), byte), proc |-> c]
             last == unknown_processes_num + 1
  <2>2. UnknownStatus(WaitStatus(c), byte) \in Int
    <3>1. WaitStatus(c) \in Int /\ byte \in Int
      BY <1>3, ConstantsAssumption DEF WaitStatus, ChildT
    <3>2. \A n \in Int : WTERMSIG(n) + 128 \in Int /\ WEXITSTATUS(n) \in Int
      BY DEF WTERMSIG, WEXITSTATUS
    <3> QED
      BY <3>1, <3>2 DEF UnknownStatus
  <2>3. new \in UnknownT /\ new.proc = c
    BY <1>3, <2>2 DEF UnknownT, ChildT
  <2>4. unknown_processes' = Append(unknown_processes, new)
    BY <2>1
  <2> HIDE DEF new
  <2>5. /\ unknown_processes' \in Seq(UnknownT)
        /\ unknown_processes_num' = last
        /\ \A n \in 1..unknown_processes_num : unknown_processes'[n] = unknown_processes[n]
        /\ unknown_processes'[last] = new
    BY <1>1, <2>3, <2>4, AppendProperties DEF Data, unknown_processes_num
  <2>6. /\ Len(children') = Len(children)
        /\ \A d \in 1..Len(children) : children'[d].created = children[d].created
    BY <1>5 DEF Kept, Turns
  <2>7. UnknownsAreForeign'
    <3> SUFFICES ASSUME NEW n \in 1..unknown_processes_num'
                 PROVE  ~children'[unknown_processes'[n].proc].created
      BY DEF UnknownsAreForeign
    <3>1. CASE n = last
      BY <1>3, <1>8, <2>3, <2>5, <2>6, <3>1, UnknownIsForeign
    <3>2. CASE n # last
      <4>1. n \in 1..unknown_processes_num
        BY <1>1, <2>5, <3>2
      <4>2. /\ unknown_processes[n].proc \in 1..Len(children)
            /\ ~children[unknown_processes[n].proc].created
        BY <1>1, <4>1, DataTypes DEF UnknownT, Data, UnknownsAreForeign
      <4> QED
        BY <2>5, <2>6, <4>1, <4>2
    <3> QED
      BY <3>1, <3>2
  <2>8. Data'
    <3>1. (PidsUnique /\ Own /\ Ends)' /\ (children \in Seq(ChildT))'
          /\ (processes \in Seq(ProcessT))'
      BY <1>1, <1>4, <1>5, DataListsKept
    <3>2. (unknown_processes \in Seq(UnknownT))'
      BY <2>5, <2>6 DEF UnknownT
    <3> QED
      BY <2>7, <3>1, <3>2 DEF Data
  <2>9. Sizes'
    <3>1. arr_size_unknown' = Grown(unknown_processes_num + 1, arr_size_unknown)
      BY <1>2, <1>8
    <3> QED
      BY <1>1, <1>4, <2>5, <3>1, GrownRoom DEF Sizes
  <2> QED
    BY <1>6, <2>8, <2>9, BaseNext
<1> QED
  BY <1>7, <1>8

(* The library's steps keep Base.                                          *)
LEMMA LibraryBase == Base /\ Library => Base'
<1> SUFFICES ASSUME Base, Library
             PROVE  Base'
  OBVIOUS
<1>1. Control /\ process_num \in Nat
  BY BaseData
<1>2. waited \in 0..process_num
  BY <1>1 DEF Control
<1>3. ASSUME NEW pid \in Pids, ssp_create(pid)
      PROVE  Base'
  BY <1>3, CreateBase
<1>4. ASSUME NEW id \in (1..process_num) \cup OtherIds,
             ssp_get_status(id) \/ \E signum \in Signals : ssp_send_signal(id, signum)
      PROVE  Base'
  <2>1. CASE ~IsProcess(id)
    <3>1. id \in OtherIds
      BY <2>1 DEF IsProcess
    <3> QED
      BY <1>4, <2>1, <3>1, OtherIdBase
  <2>2. CASE IsProcess(id)
    <3>1. id \in 1..process_num
      BY <2>2 DEF IsProcess
    <3>2. UNCHANGED <<unknown_processes, arr_size_proc, arr_size_unknown, waited>>
          /\ GetsStatus(id)
      BY <1>4 DEF ssp_get_status, ssp_send_signal
    <3>3. \/ Returns
          \/ \E signum \in Signals :
               call' = [name |-> "kill", i |-> id, signum |-> signum]
      BY <1>4 DEF ssp_get_status, ssp_send_signal, Returns
    <3> QED
      BY <3>1, <3>2, <3>3, StatusBase
  <2> QED
    BY <2>1, <2>2
<1>5. CASE send_signal_crashes
  BY <1>2, <1>5, CallBase DEF send_signal_crashes
<1>6. CASE send_signal_kill \/ \E hit \in SUBSET Here : send_signal_wild(hit)
  BY <1>6, KillBase
<1>7. CASE ssp_wait
  <2>1. 1 \in 1..(process_num + 1)
    BY <1>1
  <2>2. \E name \in {"wait", "print"} :
          \E i \in 1..(process_num + 1) : call' = Call(name, i)
    BY <1>7, <2>1 DEF ssp_wait
  <2> QED
    BY <1>2, <1>7, <2>2, CallBase DEF ssp_wait
<1>8. CASE wait_turn
  <2>1. /\ call' = Call("wait", call.i + 1)
        /\ UNCHANGED <<unknown_processes, arr_size_proc, arr_size_unknown, waited>>
    BY <1>8 DEF wait_turn
  <2> QED
    BY <1>8, <2>1, WaitTurnLooks, TurnBase
<1>9. CASE wait_returns
  <2>1. waited' \in 0..process_num
    BY <1>1, <1>9 DEF wait_returns
  <2> QED
    BY <1>9, <2>1, CallBase DEF wait_returns
<1>10. CASE ssp_print
  <2>1. 1 \in 1..(process_num + 1)
    BY <1>1
  <2>2. \E name \in {"wait", "print"} :
          \E i \in 1..(process_num + 1) : call' = Call(name, i)
    BY <1>10, <2>1 DEF ssp_print
  <2> QED
    BY <1>2, <1>10, <2>2, CallBase DEF ssp_print
<1>11. CASE print_turn
  <2>1. CASE call.i <= process_num
    <3>1. call.i \in 1..process_num
      BY <1>1, <1>11, <2>1 DEF print_turn, Control, InRange
    <3>2. /\ GetsStatus(call.i) /\ call' = Call("print", call.i + 1)
          /\ UNCHANGED <<unknown_processes, arr_size_proc, arr_size_unknown, waited>>
      BY <1>11, <2>1 DEF print_turn
    <3> QED
      BY <3>1, <3>2, GetsStatusLooks, TurnBase
  <2>2. CASE ~(call.i <= process_num)
    BY <1>2, <1>11, <2>2, CallBase DEF print_turn
  <2> QED
    BY <2>1, <2>2
<1>12. CASE record_turn
  BY <1>12, RecordBase
<1>13. CASE record_returns
  BY <1>2, <1>13, CallBase DEF record_returns
<1> QED
  BY <1>3, <1>4, <1>5, <1>6, <1>7, <1>8, <1>9, <1>10, <1>11, <1>12, <1>13
  DEF Library

(* Before the first call Base holds.                                       *)
LEMMA InitBase == Init => Base
<1> SUFFICES ASSUME Init
             PROVE  Base
  OBVIOUS
<1>1. /\ children = <<>> /\ processes = <<>> /\ unknown_processes = <<>>
      /\ call = IDLE /\ waited = 0
      /\ arr_size_proc = ARR_SIZE /\ arr_size_unknown = ARR_SIZE
  BY DEF Init
<1>2. Len(children) = 0 /\ process_num = 0 /\ unknown_processes_num = 0
  BY <1>1 DEF process_num, unknown_processes_num
<1>3. Data
  <2>1. children \in Seq(ChildT) /\ processes \in Seq(ProcessT)
        /\ unknown_processes \in Seq(UnknownT)
    BY <1>1, EmptySeq
  <2> QED
    BY <1>2, <2>1 DEF Data, PidsUnique, Own, Ends, UnknownsAreForeign, Here
<1>4. Sizes
  BY <1>1, <1>2, ConstantsAssumption DEF Sizes
<1>5. Control
  BY <1>1, <1>2 DEF Control, InRange, IDLE, Call
<1> QED
  BY <1>3, <1>4, <1>5, BaseParts

(* Base holds in every state, however and whenever children end.           *)
LEMMA BaseInvariant == Spec => []Base
<1>1. Base /\ [Next]_vars => Base'
  <2> SUFFICES ASSUME Base, [Next]_vars
               PROVE  Base'
    OBVIOUS
  <2>1. CASE Kernel
    BY <2>1, KernelBase
  <2>2. CASE Library
    BY <2>2, LibraryBase
  <2>3. CASE UNCHANGED vars \/ crashed
    <3>0. UNCHANGED vars
      BY <2>3 DEF crashed
    <3>1. waited' \in 0..process_num /\ Sizes' /\ Control' /\ SameProcesses
      <4>1. UNCHANGED library
        BY <3>0 DEF vars, library
      <4>2. waited \in 0..process_num
        BY BaseData DEF Control
      <4> QED
        BY <3>0, <4>1, <4>2, LibraryUnchanged DEF vars
    <3>2. Kept({}, {})
      BY <3>0, BaseData, UnchangedKept DEF vars
    <3>3. Data'
      BY <3>0, <3>1, <3>2, BaseData, DataKept DEF vars
    <3> QED
      BY <3>1, <3>3, BaseNext
  <2> QED
    BY <2>1, <2>2, <2>3 DEF Next
<1> QED
  BY <1>1, InitBase, PTL DEF Spec

(* The types of the state, and that both arrays always have room for the   *)
(* entry that is written before they grow.                                 *)
THEOREM TypeCorrect == Spec => []TypeOK
<1>1. Base => TypeOK
  BY DEF Base, Types
<1> QED
  BY <1>1, BaseInvariant, PTL

(* record_unknown_processes never lists a child of ssp_create, whatever    *)
(* waitpid reports and however pids are used again.                        *)
THEOREM UnknownsAlwaysForeign == Spec => []UnknownsAreForeign
<1>1. Base => UnknownsAreForeign
  BY DEF Base
<1> QED
  BY <1>1, BaseInvariant, PTL

-----------------------------------------------------------------------------
(* Found is an invariant, if no supervised child ends inside ssp_print *)

(* The part of Found that does not mention the call. *)
Matched == Recorded /\ StatusOfItsOwn

(* The kernel and the library agree on who a live process is: its pid is   *)
(* that of its own child alone.                                            *)
LEMMA OwnChild ==
  ASSUME Base, Recorded, NEW id \in 1..process_num, processes[id].status = UNKNOWN
  PROVE  WithPid(processes[id].pid) = {processes[id].proc}
<1>1. processes[id].proc \in 1..Len(children)
  BY BaseData, DataTypes DEF ProcessT
<1>2. processes[id].proc \in Here /\ children[processes[id].proc].pid = processes[id].pid
  BY <1>1, BaseData DEF Recorded, Own, Here
<1> QED
  BY <1>2, BaseData DEF WithPid, PidsUnique

(* The library knows what it knew when neither side changes.               *)
LEMMA UnchangedMatched ==
  ASSUME Matched, UNCHANGED <<children, processes>>
  PROVE  Matched'
<1>1. children' = children /\ processes' = processes /\ process_num' = process_num
  BY DEF process_num
<1>2. Recorded'
  BY <1>1 DEF Matched, Recorded
<1>3. StatusOfItsOwn'
  <2> SUFFICES ASSUME NEW id \in 1..process_num, processes[id].status # UNKNOWN
               PROVE  /\ children[processes[id].proc].ended # NOTHING
                      /\ processes[id].status \in StatusesOf(children[processes[id].proc].ended)
    BY <1>1 DEF StatusOfItsOwn, StatusesOf
  <2> QED
    BY DEF Matched, StatusOfItsOwn, StatusesOf
<1> QED
  BY <1>2, <1>3 DEF Matched

(* A process that is looked at is recorded as its own child ended, and is  *)
(* no zombie any more; what was known of the others stays.                 *)
LEMMA LooksMatched ==
  ASSUME Base, Matched, NEW id \in 1..process_num, Looks(id)
  PROVE  /\ Matched'
         /\ children'[processes'[id].proc].state # "zombie"
         /\ \A jd \in 1..process_num :
              /\ processes'[jd].proc = processes[jd].proc
              /\ processes[jd].status # UNKNOWN => processes'[jd].status = processes[jd].status
              /\ children'[processes[jd].proc].state = "zombie" =>
                   children[processes[jd].proc].state = "zombie"
<1>1. /\ Recorded /\ StatusOfItsOwn
      /\ \A jd \in 1..process_num : processes[jd].proc \in 1..Len(children)
      /\ \A jd, kd \in 1..process_num : processes[jd].proc = processes[kd].proc => jd = kd
  BY BaseData, DataTypes DEF Matched, ProcessT, Own
<1>2. CASE /\ processes[id].status # UNKNOWN \/ Ended(processes[id].pid) = {}
           /\ UNCHANGED <<children, processes>>
  <2>1. Matched'
    BY <1>2, UnchangedMatched
  <2>2. CASE processes[id].status # UNKNOWN
    BY <1>1, <1>2, <2>1, <2>2 DEF Recorded
  <2>3. CASE processes[id].status = UNKNOWN
    <3>1. processes[id].proc \in WithPid(processes[id].pid)
      BY <1>1, <2>3, OwnChild
    <3>2. children[processes[id].proc].state # "zombie"
      BY <1>2, <2>3, <3>1 DEF Ended
    <3> QED
      BY <1>2, <2>1, <3>2
  <2> QED
    BY <2>2, <2>3
<1>3. ASSUME NEW c \in 1..Len(children), Learns(id, c)
      PROVE  /\ Matched'
             /\ children'[processes'[id].proc].state # "zombie"
             /\ \A jd \in 1..process_num :
                  /\ processes'[jd].proc = processes[jd].proc
                  /\ processes[jd].status # UNKNOWN => processes'[jd].status = processes[jd].status
                  /\ children'[processes[jd].proc].state = "zombie" =>
                       children[processes[jd].proc].state = "zombie"
  <2>1. c = processes[id].proc /\ children[c].state = "zombie"
    <3>1. c \in WithPid(processes[id].pid) /\ children[c].state = "zombie"
      BY <1>3 DEF Learns, Ended
    <3> QED
      BY <1>1, <1>3, <3>1, OwnChild DEF Learns
  <2>2. /\ process_num' = process_num
        /\ \A jd \in 1..process_num : processes'[jd].proc = processes[jd].proc
        /\ \A jd \in 1..process_num : jd # id => processes'[jd] = processes[jd]
        /\ processes[id].status = UNKNOWN /\ processes'[id].status # UNKNOWN
        /\ processes'[id].status \in StatusesOf(children[c].ended)
    BY <1>3 DEF Learns, SameProcesses, process_num
  <2>3. \A d \in 1..Len(children) :
          /\ children'[d].state = "reaped" <=> children[d].state = "reaped" \/ d = c
          /\ children'[d].state = "zombie" => children[d].state = "zombie"
          /\ children[d].ended # NOTHING => children'[d].ended = children[d].ended
    BY <1>3 DEF Learns, Kept, Turns
  <2>4. children[c].ended # NOTHING
    BY <1>3, <2>1, BaseData DEF Ends
  <2>5. Recorded'
    <3> SUFFICES ASSUME NEW jd \in 1..process_num
                 PROVE  processes'[jd].status = UNKNOWN <=>
                          children'[processes'[jd].proc].state # "reaped"
      BY <2>2 DEF Recorded
    <3>1. CASE jd = id
      BY <1>3, <2>1, <2>2, <2>3, <3>1
    <3>2. CASE jd # id
      <4>1. processes[jd].proc # c /\ processes[jd].proc \in 1..Len(children)
        BY <1>1, <2>1, <3>2
      <4> QED
        BY <1>1, <2>2, <2>3, <3>2, <4>1 DEF Recorded
    <3> QED
      BY <3>1, <3>2
  <2>6. StatusOfItsOwn'
    <3> SUFFICES ASSUME NEW jd \in 1..process_num, processes'[jd].status # UNKNOWN
                 PROVE  /\ children'[processes'[jd].proc].ended # NOTHING
                        /\ processes'[jd].status \in
                             StatusesOf(children'[processes'[jd].proc].ended)
      BY <2>2 DEF StatusOfItsOwn, StatusesOf
    <3>1. CASE jd = id
      BY <1>3, <2>1, <2>2, <2>3, <2>4, <3>1
    <3>2. CASE jd # id
      <4>1. /\ children[processes[jd].proc].ended # NOTHING
            /\ processes[jd].status \in StatusesOf(children[processes[jd].proc].ended)
        <5>1. processes[jd].status # UNKNOWN
          BY <2>2, <3>2
        <5> QED
          BY <1>1, <5>1 DEF StatusOfItsOwn, StatusesOf
      <4> QED
        BY <1>1, <2>2, <2>3, <3>2, <4>1
    <3> QED
      BY <3>1, <3>2
  <2>7. children'[processes'[id].proc].state # "zombie"
    BY <1>3, <2>1, <2>2, <2>3
  <2>8. \A jd \in 1..process_num :
          /\ processes[jd].status # UNKNOWN => processes'[jd].status = processes[jd].status
          /\ children'[processes[jd].proc].state = "zombie" =>
               children[processes[jd].proc].state = "zombie"
    BY <1>1, <2>2, <2>3
  <2> QED
    BY <2>2, <2>5, <2>6, <2>7, <2>8 DEF Matched
<1> QED
  BY <1>2, <1>3 DEF Looks

(* What others do to the children changes nothing that the library knows.  *)
LEMMA KeptMatched ==
  ASSUME Base, Matched, NEW R, NEW E, Kept(R, E), UNCHANGED processes,
         \A c \in 1..Len(children) : c \in R => ~children[c].created
  PROVE  Matched'
<1>1. \A id \in 1..process_num :
        /\ processes[id].proc \in 1..Len(children)
        /\ processes[id].proc \notin R
  BY BaseData, DataTypes DEF ProcessT, Own
<1>2. \A c \in 1..Len(children) :
        /\ children'[c].state = "reaped" <=> children[c].state = "reaped" \/ c \in R
        /\ children[c].ended # NOTHING => children'[c].ended = children[c].ended
  BY DEF Kept, Turns
<1>3. Recorded'
  BY <1>1, <1>2 DEF Matched, Recorded, process_num
<1>4. StatusOfItsOwn'
  <2>1. processes' = processes /\ process_num' = process_num
    BY DEF process_num
  <2> SUFFICES ASSUME NEW id \in 1..process_num, processes'[id].status # UNKNOWN
               PROVE  /\ children'[processes'[id].proc].ended # NOTHING
                      /\ processes'[id].status \in
                           StatusesOf(children'[processes'[id].proc].ended)
    BY <2>1 DEF StatusOfItsOwn, StatusesOf
  <2>2. /\ children[processes[id].proc].ended # NOTHING
        /\ processes[id].status \in StatusesOf(children[processes[id].proc].ended)
    <3>1. processes[id].status # UNKNOWN
      BY <2>1
    <3> QED
      BY <3>1 DEF Matched, StatusOfItsOwn, StatusesOf
  <2> QED
    BY <1>1, <1>2, <2>1, <2>2
<1> QED
  BY <1>3, <1>4 DEF Matched

(* A loop stays where it is when no supervised child ends inside ssp_print. *)
LEMMA KeptLoops ==
  ASSUME Base, Loops, NEW R, NEW E, Kept(R, E), UNCHANGED <<processes, call>>,
         Printing => \A c \in 1..Len(children) : c \in E => ~children[c].created
  PROVE  Loops'
<1>1. \A id \in 1..process_num :
        /\ processes[id].proc \in 1..Len(children)
        /\ children[processes[id].proc].created
  BY BaseData, DataTypes DEF ProcessT, Own
<1>2. /\ Len(children') = Len(children)
      /\ \A c \in 1..Len(children) :
           /\ children'[c].created = children[c].created
           /\ children'[c].state = "zombie" => children[c].state = "zombie" \/ c \in E
  BY DEF Kept, Turns
<1>3. call.name = "print" =>
        \A id \in 1..process_num : id < call.i =>
          children'[processes[id].proc].state # "zombie"
  BY <1>1, <1>2 DEF Loops, Printing
<1>4. call.name = "record" =>
        \A c \in 1..Len(children) : children'[c].created => children'[c].state # "zombie"
  BY <1>2 DEF Loops, Printing
<1> QED
  BY <1>2, <1>3, <1>4 DEF Loops, process_num, IsProcess

(* What ssp_wait waited for stays known.                                   *)
LEMMA WaitedKept ==
  ASSUME Base, WaitLearnsAll, waited' = waited,
         \A id \in 1..process_num :
           processes[id].status # UNKNOWN => processes'[id].status # UNKNOWN
  PROVE  WaitLearnsAll'
<1>1. waited \in 0..process_num /\ process_num \in Nat
  BY BaseData DEF Control
<1> QED
  BY <1>1 DEF WaitLearnsAll

(* The kernel's steps keep Found: a child that may end inside ssp_print is *)
(* not a supervised one.                                                   *)
LEMMA KernelFound ==
  ASSUME QuietPrint, Base, Found, Kernel
  PROVE  Found'
<1>1. Matched /\ Loops /\ WaitLearnsAll
  BY DEF Found, Matched
<1>2. ASSUME NEW E, Kept({}, E), UNCHANGED library,
             Printing => \A c \in 1..Len(children) : c \in E => ~children[c].created
      PROVE  Found'
  <2>1. Matched'
    BY <1>1, <1>2, KeptMatched DEF library
  <2>2. Loops'
    BY <1>1, <1>2, KeptLoops DEF library
  <2>3. WaitLearnsAll'
    BY <1>1, <1>2 DEF library, WaitLearnsAll
  <2> QED
    BY <2>1, <2>2, <2>3 DEF Found, Matched
<1>3. ASSUME NEW c \in Here, NEW code \in ExitCodes, child_exits(c, code)
      PROVE  Found'
  <2>1. UNCHANGED library /\ (Printing => ~children[c].created)
    BY <1>3 DEF child_exits, MayEnd
  <2> QED
    BY <1>2, <1>3, <2>1, ExitsKept
<1>4. ASSUME NEW c \in Here, NEW signum \in Signals, child_signalled(c, signum)
      PROVE  Found'
  <2>1. UNCHANGED library /\ (signum = SIGKILL /\ Printing => ~children[c].created)
    BY <1>4 DEF child_signalled, MayEnd
  <2>2. Printing => \A d \in 1..Len(children) :
          d \in (IF signum = SIGKILL THEN {c} ELSE {}) => ~children[d].created
    BY <2>1
  <2> QED
    BY <1>2, <1>4, <2>1, <2>2, SignalledKept
<1>5. ASSUME NEW pid \in Pids, child_adopted(pid)
      PROVE  Found'
  <2> DEFINE child == Child(pid, FALSE)
  <2>1. UNCHANGED library
    BY <1>5 DEF child_adopted
  <2>2. Made(child) /\ ~child.created
    BY <1>5 DEF child_adopted, Made, Child
  <2> HIDE DEF child
  <2>3. /\ Len(children) \in Nat /\ Len(children') = Len(children) + 1
        /\ \A c \in 1..Len(children) : children'[c] = children[c]
        /\ children'[Len(children) + 1] = child
        /\ \A id \in 1..process_num : processes[id].proc \in 1..Len(children)
    BY <2>2, BaseData, MadeChildren, MadeLists
  <2>4. Matched'
    <3>1. processes' = processes /\ process_num' = process_num
      BY <2>1 DEF library, process_num
    <3>2. \A id \in 1..process_num :
            children'[processes[id].proc] = children[processes[id].proc]
      BY <2>3
    <3>3. Recorded'
      BY <1>1, <3>1, <3>2 DEF Matched, Recorded
    <3>4. StatusOfItsOwn'
      <4> SUFFICES ASSUME NEW id \in 1..process_num, processes[id].status # UNKNOWN
                   PROVE  /\ children'[processes[id].proc].ended # NOTHING
                          /\ processes[id].status \in
                               StatusesOf(children'[processes[id].proc].ended)
        BY <3>1 DEF StatusOfItsOwn, StatusesOf
      <4>1. /\ children[processes[id].proc].ended # NOTHING
            /\ processes[id].status \in StatusesOf(children[processes[id].proc].ended)
        BY <1>1 DEF Matched, StatusOfItsOwn, StatusesOf
      <4> QED
        BY <3>2, <4>1
    <3> QED
      BY <3>3, <3>4 DEF Matched
  <2>5. Loops'
    <3>1. \A c \in 1..Len(children') : children'[c].created =>
            c \in 1..Len(children) /\ children'[c] = children[c]
      BY <2>2, <2>3
    <3> QED
      BY <1>1, <2>1, <2>3, <3>1 DEF library, Loops, process_num, IsProcess
  <2>6. WaitLearnsAll'
    BY <1>1, <2>1 DEF library, WaitLearnsAll
  <2> QED
    BY <2>4, <2>5, <2>6 DEF Found, Matched
<1> QED
  BY <1>3, <1>4, <1>5 DEF Kernel

(* A process that was just created is alive and not known to have ended.   *)
LEMMA CreateFound ==
  ASSUME Base, Found, NEW pid \in Pids, ssp_create(pid)
  PROVE  Found'
<1> DEFINE child == Child(pid, TRUE)
<1>1. Recorded /\ StatusOfItsOwn /\ WaitLearnsAll
  BY DEF Found
<1>2. Made(child) /\ child.created /\ child.pid = pid
  BY DEF ssp_create, Made, Child
<1>3. /\ processes' = Append(processes,
           [pid |-> child.pid, status |-> UNKNOWN, proc |-> Len(children) + 1])
      /\ UNCHANGED <<unknown_processes, call, waited>> /\ call = IDLE
  BY <1>2 DEF ssp_create
<1> HIDE DEF child
<1>4. /\ process_num \in Nat /\ process_num' = process_num + 1
      /\ \A id \in 1..process_num : processes'[id] = processes[id]
      /\ processes'[process_num + 1].proc = Len(children) + 1
      /\ processes'[process_num + 1].status = UNKNOWN
  BY <1>2, <1>3, BaseData, DataCreated
<1>5. /\ \A c \in 1..Len(children) : children'[c] = children[c]
      /\ children'[Len(children) + 1].state = "running"
      /\ \A id \in 1..process_num : processes[id].proc \in 1..Len(children)
  BY <1>2, BaseData, MadeChildren, MadeLists
<1>6. Recorded'
  <2> SUFFICES ASSUME NEW id \in 1..process_num'
               PROVE  processes'[id].status = UNKNOWN <=>
                        children'[processes'[id].proc].state # "reaped"
    BY DEF Recorded
  <2>1. CASE id = process_num + 1
    BY <1>4, <1>5, <2>1
  <2>2. CASE id # process_num + 1
    <3>1. id \in 1..process_num
      BY <1>4, <2>2
    <3> QED
      BY <1>1, <1>4, <1>5, <3>1 DEF Recorded
  <2> QED
    BY <2>1, <2>2
<1>7. StatusOfItsOwn'
  <2> SUFFICES ASSUME NEW id \in 1..process_num', processes'[id].status # UNKNOWN
               PROVE  /\ children'[processes'[id].proc].ended # NOTHING
                      /\ processes'[id].status \in
                           StatusesOf(children'[processes'[id].proc].ended)
    BY DEF StatusOfItsOwn, StatusesOf
  <2>1. id \in 1..process_num
    BY <1>4
  <2>2. /\ processes'[id] = processes[id]
        /\ children'[processes[id].proc] = children[processes[id].proc]
    BY <1>4, <1>5, <2>1
  <2>3. processes[id].status # UNKNOWN
    BY <2>2
  <2>4. /\ children[processes[id].proc].ended # NOTHING
        /\ processes[id].status \in StatusesOf(children[processes[id].proc].ended)
    BY <1>1, <2>1, <2>3 DEF StatusOfItsOwn, StatusesOf
  <2> QED
    BY <2>2, <2>4
<1>8. Loops'
  BY <1>3 DEF Loops, IDLE, Call
<1>9. WaitLearnsAll'
  <2>1. waited \in 0..process_num
    BY BaseData DEF Control
  <2> QED
    BY <1>1, <1>3, <1>4, <2>1 DEF WaitLearnsAll
<1> QED
  BY <1>6, <1>7, <1>8, <1>9 DEF Found

(* Looking at one process keeps Found, if the call goes on as the loops do. *)
LEMMA LooksFound ==
  ASSUME Base, Found, NEW id \in 1..process_num, Looks(id), waited' = waited,
         process_num' = process_num,
         \/ Returns
         \/ call'.name = "kill" /\ call'.i = id /\ processes'[id].status = UNKNOWN
         \/ call.name = "wait" /\ call.i = id /\ call' = Call("wait", id + 1)
            /\ processes'[id].status # UNKNOWN
         \/ call.name = "print" /\ call.i = id /\ call' = Call("print", id + 1)
  PROVE  Found'
<1>1. Matched /\ Loops /\ WaitLearnsAll
  BY DEF Found, Matched
<1>2. /\ Matched'
      /\ children'[processes'[id].proc].state # "zombie"
      /\ \A jd \in 1..process_num :
           /\ processes'[jd].proc = processes[jd].proc
           /\ processes[jd].status # UNKNOWN => processes'[jd].status = processes[jd].status
           /\ children'[processes[jd].proc].state = "zombie" =>
                children[processes[jd].proc].state = "zombie"
  BY <1>1, LooksMatched
<1>3. WaitLearnsAll'
  BY <1>1, <1>2, WaitedKept
<1>4. Loops'
  <2>1. CASE Returns
    BY <2>1 DEF Returns, Loops, IDLE, Call
  <2>2. CASE call'.name = "kill" /\ call'.i = id /\ processes'[id].status = UNKNOWN
    BY <2>2 DEF Loops
  <2>3. \A jd \in 1..process_num : jd < id + 1 => jd < id \/ jd = id
    BY BaseData
  <2>4. CASE call.name = "wait" /\ call.i = id /\ call' = Call("wait", id + 1)
             /\ processes'[id].status # UNKNOWN
    <3>1. \A jd \in 1..process_num : jd < id => processes'[jd].status # UNKNOWN
      BY <1>1, <1>2, <2>4 DEF Loops
    <3> QED
      BY <2>3, <2>4, <3>1 DEF Loops, Call
  <2>5. CASE call.name = "print" /\ call.i = id /\ call' = Call("print", id + 1)
    <3>1. \A jd \in 1..process_num : jd < id =>
            children'[processes'[jd].proc].state # "zombie"
      BY <1>1, <1>2, <2>5 DEF Loops
    <3> QED
      BY <1>2, <2>3, <2>5, <3>1 DEF Loops, Call
  <2> QED
    BY <2>1, <2>2, <2>4, <2>5
<1> QED
  BY <1>2, <1>3, <1>4 DEF Found, Matched

(* A call that begins or ends has nothing to remember, but ssp_wait, which *)
(* has been past every process, and ssp_print, which has reaped every      *)
(* supervised child that had ended.                                        *)
LEMMA CallFound ==
  ASSUME Base, Found, UNCHANGED <<children, processes>>,
         \/ Returns /\ waited' = waited
         \/ call' = Call("crashed", 0) /\ waited' = waited
         \/ call' = Call("wait", 1) /\ waited' = waited
         \/ call' = Call("print", 1) /\ waited' = waited
         \/ call.name = "wait" /\ call.i > process_num /\ Returns /\ waited' = process_num
         \/ call.name = "print" /\ ~(call.i <= process_num)
            /\ call' = Call("record", 0) /\ waited' = waited
  PROVE  Found'
<1>1. Matched /\ Loops /\ WaitLearnsAll
  BY DEF Found, Matched
<1>2. process_num \in Nat /\ process_num' = process_num /\ call.i \in Int
  BY BaseData DEF process_num, Control
<1>3. Matched'
  BY <1>1, UnchangedMatched
<1>4. CASE /\ waited' = waited
           /\ \/ Returns \/ call' = Call("crashed", 0)
              \/ \E name \in {"wait", "print"} : call' = Call(name, 1)
  <2>1. WaitLearnsAll'
    <3>1. waited' = waited /\ processes' = processes
      BY <1>4
    <3> QED
      BY <1>1, <3>1 DEF WaitLearnsAll
  <2>2. Loops'
    BY <1>2, <1>4 DEF Loops, Returns, IDLE, Call
  <2> QED
    BY <1>3, <2>1, <2>2 DEF Found, Matched
<1>5. CASE call.name = "wait" /\ call.i > process_num /\ Returns /\ waited' = process_num
  <2>1. \A id \in 1..process_num : processes[id].status # UNKNOWN
    BY <1>1, <1>2, <1>5 DEF Loops
  <2>2. WaitLearnsAll' /\ Loops'
    BY <1>5, <2>1 DEF WaitLearnsAll, Loops, Returns, IDLE, Call
  <2> QED
    BY <1>3, <2>2 DEF Found, Matched
<1>6. CASE call.name = "print" /\ ~(call.i <= process_num)
           /\ call' = Call("record", 0) /\ waited' = waited
  <2>1. \A id \in 1..process_num : children[processes[id].proc].state # "zombie"
    BY <1>1, <1>2, <1>6 DEF Loops
  <2>2. \A c \in 1..Len(children) : children[c].created => children[c].state # "zombie"
    BY <2>1, BaseData DEF Own
  <2>3. WaitLearnsAll' /\ Loops'
    BY <1>1, <1>6, <2>2 DEF WaitLearnsAll, Loops, Call
  <2> QED
    BY <1>3, <2>3 DEF Found, Matched
<1> QED
  BY <1>4, <1>5, <1>6

(* record_unknown_processes reaps no supervised child.                     *)
LEMMA RecordFound ==
  ASSUME Base, Found, record_turn
  PROVE  Found'
<1>1. Matched /\ Loops /\ WaitLearnsAll
  BY DEF Found, Matched
<1>2. PICK c \in {d \in Here : Reportable(d)} : children' = Collected(c)
  BY DEF record_turn
<1>3. c \in 1..Len(children) /\ children[c].state # "reaped"
  BY DEF Here
<1>4. UNCHANGED <<processes, call, waited>> /\ call.name = "record"
  BY DEF record_turn
<1> DEFINE R == IF children[c].state = "zombie" THEN {c} ELSE {}
<1>5. Kept(R, {})
  BY <1>2, <1>3, BaseData, CollectedKept
<1>6. \A d \in 1..Len(children) : d \in R => ~children[d].created
  BY <1>1, <1>4 DEF Loops
<1> HIDE DEF R
<1>7. Matched'
  BY <1>1, <1>4, <1>5, <1>6, KeptMatched
<1>8. Loops'
  BY <1>1, <1>4, <1>5, KeptLoops
<1>9. WaitLearnsAll'
  BY <1>1, <1>4 DEF WaitLearnsAll
<1> QED
  BY <1>7, <1>8, <1>9 DEF Found, Matched

(* The kill of ssp_send_signal reaps nobody, whomever it strikes.          *)
LEMMA KillFound ==
  ASSUME Base, Found, send_signal_kill \/ \E hit : send_signal_wild(hit)
  PROVE  Found'
<1>1. Matched /\ WaitLearnsAll
  BY DEF Found, Matched
<1>2. /\ UNCHANGED <<processes, waited>> /\ Returns
      /\ call.name = "kill" /\ \E hit : children' = Struck(hit)
  BY DEF send_signal_kill, send_signal_wild
<1>3. Matched'
  BY <1>1, <1>2, KillKept, KeptMatched
<1>4. Loops' /\ WaitLearnsAll'
  BY <1>1, <1>2 DEF Loops, WaitLearnsAll, Returns, IDLE, Call
<1> QED
  BY <1>3, <1>4 DEF Found, Matched

(* A negative id leads to no process, so nothing is remembered of it.      *)
LEMMA OtherIdFound ==
  ASSUME Base, Found, NEW id, ~IsProcess(id), UNCHANGED <<children, processes, waited>>,
         call'.name = "kill", call'.i = id
  PROVE  Found'
<1>1. Matched'
  BY UnchangedMatched DEF Found, Matched
<1>2. WaitLearnsAll'
  BY DEF Found, WaitLearnsAll
<1>3. Loops'
  BY DEF Loops, IsProcess, process_num
<1> QED
  BY <1>1, <1>2, <1>3 DEF Found, Matched

(* The library's steps keep Found.                                         *)
LEMMA LibraryFound ==
  ASSUME Base, Found, Library
  PROVE  Found'
<1>1. Control /\ process_num \in Nat /\ Loops /\ Recorded
  BY BaseData DEF Found
<1>2. ASSUME NEW id \in 1..process_num, Looks(id), UNCHANGED unknown_processes
      PROVE  process_num' = process_num
  BY <1>2, LooksData
<1>3. ASSUME NEW pid \in Pids, ssp_create(pid)
      PROVE  Found'
  BY <1>3, CreateFound
<1>4. ASSUME NEW id \in (1..process_num) \cup OtherIds,
             ssp_get_status(id) \/ \E signum \in Signals : ssp_send_signal(id, signum)
      PROVE  Found'
  <2>1. UNCHANGED <<unknown_processes, waited>> /\ GetsStatus(id)
    BY <1>4 DEF ssp_get_status, ssp_send_signal
  <2>2. \/ Returns
        \/ call'.name = "kill" /\ call'.i = id /\ StatusOf(id)' = UNKNOWN
    BY <1>4 DEF ssp_get_status, ssp_send_signal, Returns
  <2>3. CASE ~IsProcess(id)
    <3>1. UNCHANGED <<children, processes>>
      BY <2>1, <2>3 DEF GetsStatus
    <3>2. CASE Returns
      BY <2>1, <3>1, <3>2, CallFound
    <3>3. CASE call'.name = "kill" /\ call'.i = id
      BY <2>1, <2>3, <3>1, <3>3, OtherIdFound
    <3> QED
      BY <2>2, <3>2, <3>3
  <2>4. CASE IsProcess(id)
    <3>1. id \in 1..process_num
      BY <2>4 DEF IsProcess
    <3>2. Looks(id)
      BY <2>1, <3>1, GetsStatusLooks
    <3>3. process_num' = process_num
      BY <1>2, <2>1, <3>1, <3>2
    <3>4. \/ Returns
          \/ call'.name = "kill" /\ call'.i = id /\ processes'[id].status = UNKNOWN
      BY <2>2, <3>1, <3>3 DEF StatusOf, IsProcess
    <3> QED
      BY <2>1, <3>1, <3>2, <3>3, <3>4, LooksFound
  <2> QED
    BY <2>3, <2>4
<1>5. CASE send_signal_crashes
  BY <1>5, CallFound DEF send_signal_crashes
<1>6. CASE send_signal_kill \/ \E hit \in SUBSET Here : send_signal_wild(hit)
  BY <1>6, KillFound
<1>7. CASE ssp_wait \/ ssp_print \/ wait_returns \/ record_returns
  BY <1>7, CallFound DEF ssp_wait, ssp_print, wait_returns, record_returns
<1>8. CASE wait_turn
  <2> DEFINE id == call.i
  <2>1. Looks(id) /\ id \in 1..process_num
    BY <1>8, WaitTurnLooks
  <2>2. /\ call.name = "wait" /\ call' = Call("wait", id + 1)
        /\ UNCHANGED <<unknown_processes, waited>>
        /\ \/ /\ processes[id].status # UNKNOWN \/ WithPid(processes[id].pid) = {}
              /\ UNCHANGED <<children, processes>>
           \/ /\ processes[id].status = UNKNOWN
              /\ \E c \in Ended(processes[id].pid) : children' = Reaped(c) /\
                   processes' = [processes EXCEPT ![id].status =
                                   StatusWaited(children[c].ended)]
    BY <1>8 DEF wait_turn
  <2>3. processes'[id].status # UNKNOWN
    <3>1. CASE /\ processes[id].status # UNKNOWN \/ WithPid(processes[id].pid) = {}
               /\ UNCHANGED <<children, processes>>
      <4>1. processes[id].status # UNKNOWN
        BY <1>1, <2>1, <3>1, OwnChild
      <4> QED
        BY <3>1, <4>1
    <3>2. CASE /\ processes[id].status = UNKNOWN
               /\ \E c \in Ended(processes[id].pid) : children' = Reaped(c)
      <4>1. \E c \in 1..Len(children) : Learns(id, c)
        BY <2>1, <3>2 DEF Looks
      <4> QED
        BY <4>1 DEF Learns
    <3> QED
      BY <2>2, <3>1, <3>2
  <2>4. process_num' = process_num
    BY <1>2, <2>1, <2>2
  <2> QED
    BY <2>1, <2>2, <2>3, <2>4, LooksFound
<1>9. CASE print_turn
  <2>1. CASE call.i <= process_num
    <3>1. call.i \in 1..process_num
      BY <1>1, <1>9, <2>1 DEF print_turn, Control, InRange
    <3>2. /\ call.name = "print" /\ call' = Call("print", call.i + 1)
          /\ GetsStatus(call.i) /\ UNCHANGED <<unknown_processes, waited>>
      BY <1>9, <2>1 DEF print_turn
    <3>3. Looks(call.i)
      BY <3>1, <3>2, GetsStatusLooks
    <3> QED
      BY <1>2, <3>1, <3>2, <3>3, LooksFound
  <2>2. CASE ~(call.i <= process_num)
    BY <1>9, <2>2, CallFound DEF print_turn
  <2> QED
    BY <2>1, <2>2
<1>10. CASE record_turn
  BY <1>10, RecordFound
<1> QED
  BY <1>3, <1>4, <1>5, <1>6, <1>7, <1>8, <1>9, <1>10 DEF Library

(* Found is inductive beside Base, if nothing ends inside ssp_print.       *)
LEMMA FoundInvariant == ASSUME QuietPrint PROVE Spec => []Found
<1>1. Init => Found
  BY DEF Init, Found, Recorded, Loops, StatusOfItsOwn, WaitLearnsAll, process_num, IDLE, Call, IsProcess
<1>2. Base /\ Found /\ [Next]_vars => Found'
  <2> SUFFICES ASSUME Base, Found, [Next]_vars
               PROVE  Found'
    OBVIOUS
  <2>1. CASE Kernel \/ Library
    BY <2>1, KernelFound, LibraryFound
  <2>2. CASE UNCHANGED vars \/ crashed
    <3>0. UNCHANGED vars
      BY <2>2 DEF crashed
    <3>1. Matched'
      BY <3>0, UnchangedMatched DEF vars, Found, Matched
    <3>2. Loops' /\ WaitLearnsAll'
      BY <3>0 DEF vars, Found, Loops, WaitLearnsAll, process_num, IsProcess
    <3> QED
      BY <3>1, <3>2 DEF Found, Matched
  <2> QED
    BY <2>1, <2>2 DEF Next
<1> QED
  BY <1>1, <1>2, BaseInvariant, PTL DEF Spec

(* When ssp_wait has returned, the status of every process that there was  *)
(* is known.                                                               *)
THEOREM WaitAlwaysLearns == ASSUME QuietPrint PROVE Spec => []WaitLearnsAll
<1>1. Found => WaitLearnsAll
  BY DEF Found
<1> QED
  BY <1>1, FoundInvariant, PTL

(* A status that ssp has found is the end of that very process, whoever    *)
(* had or gets its pid.                                                    *)
THEOREM StatusAlwaysItsOwn == ASSUME QuietPrint PROVE Spec => []StatusOfItsOwn
<1>1. Found => StatusOfItsOwn
  BY DEF Found
<1> QED
  BY <1>1, FoundInvariant, PTL

(* The kill of ssp_send_signal reaches the process that the client named,  *)
(* though it may have ended since its status was asked for: nobody else is *)
(* given its pid until it is reaped.  No signal goes out for an id that is *)
(* too large; one may go astray only for a negative id, which the guard of *)
(* ssp_send_signal lets through.                                           *)
THEOREM SignalAlwaysReaches == ASSUME QuietPrint PROVE Spec => []SignalReachesOwn
<1>1. Base /\ Found => SignalReachesOwn
  <2> SUFFICES ASSUME Base, Found, call.name = "kill", call.i >= 1
               PROVE  /\ IsProcess(call.i)
                      /\ WithPid(processes[call.i].pid) = {processes[call.i].proc}
    BY DEF SignalReachesOwn
  <2>1. IsProcess(call.i)
    <3>1. call.i \in Int
      BY BaseData DEF Control
    <3> QED
      BY <3>1 DEF Base, InRange
  <2>2. Recorded /\ processes[call.i].status = UNKNOWN
    BY <2>1 DEF Found, Loops
  <2>3. call.i \in 1..process_num
    BY <2>1 DEF IsProcess
  <2> QED
    BY <2>1, <2>2, <2>3, OwnChild
<1> QED
  BY <1>1, BaseInvariant, FoundInvariant, PTL

(* A status, once found, is what every later call reports, however and     *)
(* whenever children end.                                                  *)
THEOREM StatusAlwaysFinal == Spec => StatusFinal
<1> DEFINE Final == \A id \in 1..process_num :
                      processes[id].status # UNKNOWN =>
                        processes'[id].status = processes[id].status
<1>1. Base /\ [Next]_vars => [Final]_vars
  <2> SUFFICES ASSUME Base, [Next]_vars
               PROVE  Final
    OBVIOUS
  <2>1. ASSUME NEW id \in 1..process_num, Looks(id)
        PROVE  Final
    BY <2>1 DEF Looks, Learns
  <2>2. ASSUME UNCHANGED processes
        PROVE  Final
    BY <2>2
  <2>3. ASSUME NEW pid \in Pids, ssp_create(pid)
        PROVE  Final
    <3>1. \A id \in 1..process_num : processes'[id] = processes[id]
      <4> DEFINE child == Child(pid, TRUE)
      <4>1. Made(child) /\ child.created /\ child.pid = pid
        BY <2>3 DEF ssp_create, Made, Child
      <4>2. /\ processes' = Append(processes,
                 [pid |-> child.pid, status |-> UNKNOWN, proc |-> Len(children) + 1])
            /\ UNCHANGED unknown_processes
        BY <2>3, <4>1 DEF ssp_create
      <4> HIDE DEF child
      <4> QED
        BY <4>1, <4>2, BaseData, DataCreated
    <3> QED
      BY <3>1
  <2>4. CASE Kernel
    BY <2>2, <2>4 DEF Kernel, child_exits, child_signalled, child_adopted, library
  <2>5. ASSUME NEW id \in 1..process_num, GetsStatus(id)
        PROVE  Final
    BY <2>1, <2>5, GetsStatusLooks
  <2>6. ASSUME NEW id \in (1..process_num) \cup OtherIds,
               ssp_get_status(id) \/ \E signum \in Signals : ssp_send_signal(id, signum)
        PROVE  Final
    <3>1. GetsStatus(id)
      BY <2>6 DEF ssp_get_status, ssp_send_signal
    <3>2. CASE IsProcess(id)
      BY <2>5, <3>1, <3>2 DEF IsProcess
    <3>3. CASE ~IsProcess(id)
      BY <2>2, <3>1, <3>3 DEF GetsStatus
    <3> QED
      BY <3>2, <3>3
  <2>8. CASE wait_turn
    BY <2>1, <2>8, WaitTurnLooks
  <2>9. CASE print_turn
    <3>1. CASE call.i <= process_num
      <4>1. call.i \in 1..process_num
        BY <2>9, <3>1, BaseData DEF print_turn, Control, InRange
      <4> QED
        BY <2>5, <2>9, <3>1, <4>1 DEF print_turn
    <3>2. CASE ~(call.i <= process_num)
      BY <2>2, <2>9, <3>2 DEF print_turn
    <3> QED
      BY <3>1, <3>2
  <2>10. CASE \/ send_signal_kill \/ \E hit \in SUBSET Here : send_signal_wild(hit)
              \/ send_signal_crashes \/ ssp_wait \/ wait_returns
              \/ ssp_print \/ record_turn \/ record_returns
    BY <2>2, <2>10
    DEF send_signal_kill, send_signal_wild, send_signal_crashes, ssp_wait, wait_returns, ssp_print, record_turn, record_returns
  <2>11. CASE UNCHANGED vars \/ crashed
    BY <2>2, <2>11 DEF vars, crashed
  <2> HIDE DEF Final
  <2> QED
    BY <2>3, <2>4, <2>6, <2>8, <2>9, <2>10, <2>11 DEF Next, Library
<1> QED
  BY <1>1, BaseInvariant, PTL DEF Spec, StatusFinal
=============================================================================
