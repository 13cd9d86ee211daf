----------------------------- MODULE KeyValueMap -----------------------------
(***************************************************************************)
(* What a hash table of pht promises the threads that fill it: a map into  *)
(* which each adds its entries in order, every addition at one instant.    *)
(* No buckets, lists, nodes or locks.                                      *)
(***************************************************************************)
EXTENDS Naturals, Sequences

CONSTANTS Keys, Threads, Work, Size, NoValue

VARIABLES
  map,     \* key -> value
  added    \* thread -> how many of its entries are in

vars == <<map, added>>

Init ==
  /\ map = [k \in Keys |-> NoValue]
  /\ added = [t \in Threads |-> 0]

Add(t) ==
  /\ added[t] < Size
  /\ map' = [map EXCEPT ![Work[t][added[t] + 1]] = t * Size + added[t]]
  /\ added' = [added EXCEPT ![t] = added[t] + 1]

(* The next table starts empty, after every entry went into this one. *)
Renew ==
  /\ \A t \in Threads : added[t] = Size
  /\ map' = [k \in Keys |-> NoValue]
  /\ added' = [t \in Threads |-> 0]

Next == (\E t \in Threads : Add(t)) \/ Renew

Spec == Init /\ [][Next]_vars
==============================================================================
