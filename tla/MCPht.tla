-------------------------------- MODULE MCPht --------------------------------
(* Three threads, three entries each: strings that several threads add, and  *)
(* strings of one bucket and of another.                                   *)
EXTENDS Pht

CONSTANTS k1, k2, k3

Strings == {k1, k2, k3}
Hash == [k \in Strings |-> IF k = k3 THEN 1 ELSE IF k = k1 THEN 2 ELSE 4]
Additions ==
  [t \in Threads |-> CASE t = 0 -> <<k1, k2, k3>>
                     [] t = 1 -> <<k2, k3, k1>>
                     [] OTHER -> <<k2, k1, k2>>]
==============================================================================
