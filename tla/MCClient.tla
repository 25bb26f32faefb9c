------------------------------ MODULE MCClient ------------------------------
(* Small instances of Client for TLC.                                      *)
EXTENDS Client

CONSTANTS t1, t2, t3, l1, l2

OneLamp == [t \in Calls |-> CHOOSE k \in Keys : TRUE]
TwoLamps == [t \in Calls |-> IF t = t3 THEN l2 ELSE l1]
CallSymmetry == Permutations({t1, t2})

(* An application that makes no more calls once it has called close().     *)
CloseIsLast ==
    (\E x \in Closers : closer[x] # "idle")
      => \A t \in Calls : pc[t] = "new" => pc'[t] = "new"
CloseLastSpec == Init /\ [][Next /\ CloseIsLast]_vars
=============================================================================
