-------------------------------- MODULE Census --------------------------------
(***************************************************************************)
(* What a discovery promises its caller: it is told of devices in the      *)
(* order in which they made themselves heard, of each address once, and of *)
(* nothing else; and when the discovery says that it is complete it has    *)
(* told everything it heard.  Module Discovery implements it.              *)
(***************************************************************************)
EXTENDS Naturals, SequencesExt

CONSTANTS Streams, Addresses

VARIABLES
    heard,  \* per discovery: the addresses a device answered from
    told,   \* the addresses its caller was given
    fate    \* "running", "complete", or "cut": failed, closed, cancelled

censusVars == <<heard, told, fate>>

Init ==
    /\ heard = [s \in Streams |-> <<>>]
    /\ told = [s \in Streams |-> <<>>]
    /\ fate = [s \in Streams |-> "running"]

Hear(s) ==
    /\ fate[s] = "running"
    /\ \E a \in Addresses \ Range(heard[s]) :
         heard' = [heard EXCEPT ![s] = Append(@, a)]
    /\ UNCHANGED <<told, fate>>

Tell(s) ==
    /\ fate[s] = "running" /\ Len(told[s]) < Len(heard[s])
    /\ told' = [told EXCEPT ![s] = Append(@, heard[s][Len(@) + 1])]
    /\ UNCHANGED <<heard, fate>>

End(s) ==
    /\ fate[s] = "running"
    /\ \/ told[s] = heard[s] /\ fate' = [fate EXCEPT ![s] = "complete"]
       \/ fate' = [fate EXCEPT ![s] = "cut"]
    /\ UNCHANGED <<heard, told>>

Next == \E s \in Streams : Hear(s) \/ Tell(s) \/ End(s)
Spec == Init /\ [][Next]_censusVars
=============================================================================
