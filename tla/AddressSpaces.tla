---------------------------- MODULE AddressSpaces ----------------------------
(***************************************************************************)
(* What vms promises: address spaces that share nothing.  A fork starts as *)
(* a copy of the current space, and a write changes one cell of one space. *)
(* No pages, page tables, reference counts or custom bits.                 *)
(***************************************************************************)
EXTENDS Integers

CONSTANTS Names, VirtualAddresses, Offsets, Values, Zero

VARIABLES
  spaces,    \* the spaces created so far -> address -> what is mapped there
  current,   \* the space that reads and writes go to
  got,       \* the result of the last read
  process

vars == <<spaces, current, got, process>>

NONE == -1
UNMAPPED == [readable |-> FALSE, writable |-> FALSE,
             ints |-> [o \in Offsets |-> Zero]]

Created == DOMAIN spaces

Init ==
  /\ spaces = [s \in {} |-> UNMAPPED]
  /\ current = NONE
  /\ got = Zero
  /\ process = "running"

Running == process = "running"

(* A space is added, and the others stay. *)
Add(s, space) ==
  /\ s \in Names \ Created
  /\ DOMAIN spaces' = Created \cup {s}
  /\ spaces' = [t \in Created \cup {s} |-> IF t = s THEN space ELSE spaces[t]]

Create(s) ==
  /\ Running
  /\ UNCHANGED <<current, got, process>>
  /\ Add(s, [v \in VirtualAddresses |-> UNMAPPED])

Map(s, v) ==
  /\ Running
  /\ s \in Created
  /\ UNCHANGED <<current, got, process>>
  /\ spaces[s][v] = UNMAPPED
  /\ \E r, w \in BOOLEAN :
       spaces' = [spaces EXCEPT ![s][v] =
                    [UNMAPPED EXCEPT !.readable = r, !.writable = w]]

Unmap(s, v) ==
  /\ Running
  /\ UNCHANGED <<current, got, process>>
  /\ s \in Created
  /\ spaces[s][v] # UNMAPPED
  /\ spaces' = [spaces EXCEPT ![s][v] = UNMAPPED]

Switch(s) ==
  /\ Running
  /\ current' = s
  /\ s \in Created
  /\ UNCHANGED <<got, process>>
  /\ UNCHANGED spaces

Fork(s) ==
  /\ Running
  /\ UNCHANGED <<current, got, process>>
  /\ current \in Created
  /\ Add(s, spaces[current])

Write(v, o, x) ==
  /\ Running
  /\ UNCHANGED <<current, got, process>>
  /\ current \in Created
  /\ spaces[current][v].writable
  /\ spaces' = [spaces EXCEPT ![current][v].ints[o] = x]

Read(v, o) ==
  /\ Running
  /\ UNCHANGED <<current, process>>
  /\ current \in Created
  /\ spaces[current][v].readable
  /\ got' = spaces[current][v].ints[o]
  /\ UNCHANGED spaces

(* An access that the current space does not permit ends the process.      *)
Fault(v) ==
  /\ Running
  /\ process' = "EFAULT"
  /\ current \in Created
  /\ ~(spaces[current][v].readable /\ spaces[current][v].writable)
  /\ UNCHANGED <<spaces, current, got>>

(* So may an operation that needs more memory than there is.               *)
Exhausted ==
  /\ Running
  /\ process' = "ENOMEM"
  /\ UNCHANGED <<spaces, current, got>>

Next ==
  \/ \E v \in VirtualAddresses, o \in Offsets :
       Read(v, o) \/ \E x \in Values : Write(v, o, x)
  \/ \E v \in VirtualAddresses : Fault(v)
  \/ Exhausted
  \/ \E s \in Created : Switch(s)
  \/ \E s \in Created' \ Created : Create(s) \/ Fork(s)
  \/ \E s \in Created, v \in VirtualAddresses : Unmap(s, v) \/ Map(s, v)

Spec == Init /\ [][Next]_vars
==============================================================================
