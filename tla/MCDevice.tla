------------------------------ MODULE MCDevice ------------------------------
(***************************************************************************)
(* Instances of Device for TLC: the operations one at a time, with every   *)
(* failure; several at once, with none; and two ways in which the code     *)
(* does what its documentation excludes.                                   *)
(***************************************************************************)
EXTENDS Device

Interchangeable == Permutations(Ops) \cup Permutations(Levels) \cup Permutations(Temperatures)

(* Nothing fails and nothing is cancelled.                                 *)
Smooth ==
    \/ \E o \in Ops : Start(o) \/ SceneEnds(o) \/ WakesUp(o)
    \/ \E r \in Requests : TaskStarts(r) \/ LampServes(r) \/ Succeeds(r)
    \/ \E s \in {Deaf, Silent} : Listen(s)
SmoothSpec == Init /\ [][Smooth]_vars

(* A scene, or a query for the state, does not meet another operation.     *)
Apart ==
    \A o \in Running' :
      name'[o] = "scene" \/ (name'[o] # "ask" /\ cmd'[<<o, 1>>] = Query) => Running' = {o}

(* The lamp reports its state when asked.                                  *)
Reporting ==
    \A r \in Requests : cmd[r] = Query /\ req'[r] = "served" => reply'[Operation(r)] # Empty

(* Commands only, several at once; they may fail, but are not cancelled.   *)
Racing ==
    \/ \E o \in Ops : Command(o)
    \/ \E r \in Requests : LampServes(r) \/ BacksOff(r) \/ Retries(r) \/ Succeeds(r) \/ Fails(r)
    \/ \E c \in late : LateRuns(c)
RacingSpec == Init /\ [][Racing]_vars
=============================================================================
