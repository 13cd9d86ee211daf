-------------------------------- MODULE MCVms --------------------------------
(* Instances of Vms small enough for TLC.                                  *)
EXTENDS Vms

OneAddress == {<<0, 0, 0>>}

(* Two addresses that share only the root. *)
TwoTrees == {<<0, 0, 1>>, <<1, 0, 0>>}

(* What the last read returned decides nothing later, nor does the memory  *)
(* of a process that has ended, which is as its last call found it.        *)
Future ==
  IF Running
  THEN <<allocated, ref_track, memory, root_page_table, roots, process>>
  ELSE <<process>>

(* A page that is read and written, or only read. *)
ReadOrWrite == [v \in OneAddress |-> {<<TRUE, TRUE>>, <<TRUE, FALSE>>}]

(* All the permissions that let an access through. *)
AllModes == [v \in TwoTrees |-> {<<TRUE, TRUE>>, <<TRUE, FALSE>>, <<FALSE, TRUE>>}]
==============================================================================
