-------------------------------- MODULE MCWut --------------------------------
(* Wut for TLC.                                                             *)
EXTENDS Wut, TLC

(* wut_exit stores the low byte of its argument.  Stored unmasked, -1 would  *)
(* be the mark of a live thread and 256 a status that no wait can report.    *)
MCExitArgs == {0, -1}
MCWideExitArg == {256}

(* Every thread may do everything. *)
AllCalls ==
  [t \in 0..3 |->
     {"create", "yield", "join", "cancel", "exit", "return", "quit"}]

(* Five threads with roles: main creates, joins and cancels, the others      *)
(* join, cancel, yield and return.                                           *)
RoleCalls ==
  (0 :> {"create", "yield", "join", "cancel", "exit"}) @@
  (1 :> {"join", "yield", "cancel", "return"}) @@
  (2 :> {"yield", "return"}) @@
  (3 :> {"cancel", "yield", "return"}) @@
  (4 :> {"join", "yield", "return"})

(* Ended processes are told apart by how they ended only: nothing follows. *)
RunningView == IF process = "running" THEN vars ELSE <<process>>
=============================================================================
