------------------------------ MODULE Delivery ------------------------------
(***************************************************************************)
(* What AsyncDLightClient promises of a command, without connections,      *)
(* locks or timeouts: it is tried at most MaxTries times and takes effect  *)
(* at most once per try (docs/user-guide/connections.md, "Retries"); a     *)
(* call succeeds only if its command has taken effect; a failed call may   *)
(* have taken effect, and may still do so later; and every call ends.      *)
(***************************************************************************)
EXTENDS Naturals

CONSTANTS Calls, MaxTries

VARIABLES phase, tries, effects

vars == <<phase, tries, effects>>

Init ==
    /\ phase = [t \in Calls |-> "idle"]
    /\ tries = [t \in Calls |-> 0]
    /\ effects = [t \in Calls |-> 0]

Begin(t) ==
    /\ phase[t] = "idle"
    /\ phase' = [phase EXCEPT ![t] = "active"]
    /\ tries' = [tries EXCEPT ![t] = 1]
    /\ UNCHANGED effects

Retry(t) ==
    /\ phase[t] = "active"
    /\ tries[t] < MaxTries
    /\ tries' = [tries EXCEPT ![t] = @ + 1]
    /\ UNCHANGED <<phase, effects>>

TakeEffect(t) ==
    /\ effects[t] < tries[t]
    /\ effects' = [effects EXCEPT ![t] = @ + 1]
    /\ UNCHANGED <<phase, tries>>

Succeed(t) ==
    /\ phase[t] = "active"
    /\ effects[t] > 0
    /\ phase' = [phase EXCEPT ![t] = "ok"]
    /\ UNCHANGED <<tries, effects>>

Fail(t) ==
    /\ phase[t] = "active"
    /\ phase' = [phase EXCEPT ![t] = "failed"]
    /\ UNCHANGED <<tries, effects>>

Conclude(t) == Retry(t) \/ Succeed(t) \/ Fail(t)

Next == \E t \in Calls : Begin(t) \/ TakeEffect(t) \/ Conclude(t)

Spec ==
    /\ Init
    /\ [][Next]_vars
    /\ \A t \in Calls : WF_vars(Conclude(t))
=============================================================================
