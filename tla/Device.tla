-------------------------------- MODULE Device --------------------------------
(***************************************************************************)
(* DLightDevice (src/dlightclient/device.py): the state cache of one lamp, *)
(* its optimistic updates and rollbacks, the listeners told of changes,    *)
(* and the operations built on them.  An operation is a coroutine; it      *)
(* runs without yielding from one await of the client to the next.  The    *)
(* client is modelled by what the facade can tell of it (module Client has *)
(* the details): the exchanges of one lamp exclude each other in the order *)
(* of the lock's queue, a failed command may be retried at the queue's     *)
(* end, and a command given up may still reach the lamp.                   *)
(***************************************************************************)
EXTENDS Naturals, SequencesExt

CONSTANTS Ops,          \* invocations of the operations of one DLightDevice
          Levels,       \* values of brightness
          Temperatures, \* values of the colour's temperature
          Flashes,      \* the argument of flash()
          MaxLate,      \* bound on the commands given up but still on their way
          Absent,       \* a key the cache does not have
          Deaf, Silent  \* no listener; a listener that was told nothing yet

ASSUME DeviceAssumption ==
    /\ Flashes \in Nat \ {0} /\ MaxLate \in Nat
    /\ Absent \notin BOOLEAN \cup Levels \cup Temperatures

VARIABLES
    cache,      \* _state
    seen,       \* the new state the listener was last called with
    lamp,       \* the state of the lamp itself
    late,       \* commands given up that the lamp may still execute
    line,       \* the requests at the lamp's lock, its holder first
    req, cmd,   \* per request: where it is, and its command
    reply,      \* per operation: the state the lamp reported to its query
    pc, name,   \* per operation: where it is, and which one it is
    before,     \* _old, the clone of the cache its current command began with
    script,     \* flash(): the commands left, the current one first
    blinks,     \* flash(): how many of them belong to the flashing proper
    result,     \* "none" until something went wrong, or the operation returned
    original,   \* flash(): original_state
    found,      \* history: the lamp when the operation began
    unsure      \* history: fields whose last command ended without an answer

locals == <<name, before, script, blinks, original, found>>
vars == <<cache, seen, lamp, late, line, req, cmd, reply, pc, result, locals, unsure>>

Fields == {"on", "brightness", "color"}
Values(f) ==
    CASE f = "on" -> BOOLEAN [] f = "brightness" -> Levels [] f = "color" -> Temperatures
States == [Fields -> BOOLEAN \cup Levels \cup Temperatures \cup {Absent}]
Empty == [f \in Fields |-> Absent]
Set(f, v) == [field |-> f, value |-> v]
Query == Set("states", Absent)
Settings == UNION {{Set(f, v) : v \in Values(f)} : f \in Fields}

(* apply_scene() has two requests under way, every other operation one.    *)
Requests == Ops \X {1, 2}
Operation(r) == r[1]
Own(o) == {o} \X {1, 2}
Running == {o \in Ops : pc[o] \notin {"new", "done"}}

Init ==
    /\ cache = Empty
    /\ seen \in {Deaf, Silent}
    /\ lamp \in {s \in States : \A f \in Fields : s[f] \in Values(f)}
    /\ late = {} /\ line = <<>>
    /\ req = [r \in Requests |-> "none"]
    /\ cmd = [r \in Requests |-> Query]
    /\ reply = [o \in Ops |-> Empty]
    /\ pc = [o \in Ops |-> "new"]
    /\ name = [o \in Ops |-> "none"]
    /\ before = [o \in Ops |-> Empty]
    /\ script = [o \in Ops |-> <<>>]
    /\ blinks = [o \in Ops |-> 0]
    /\ result = [o \in Ops |-> "none"]
    /\ original = [o \in Ops |-> Empty]
    /\ found = [o \in Ops |-> Empty]
    /\ unsure = {}

(********************************** pieces *********************************)
(* Mutant of Emit: the clones share the nested colour.                     *)
EmitShallow(old, new) ==
    seen' = IF seen # Deaf /\ \E f \in Fields \ {"color"} : old[f] # new[f] THEN new ELSE seen

(* _emit_state_change: the listener is called if the state did change.     *)
Emit(old, new) == seen' = IF seen # Deaf /\ old # new THEN new ELSE seen

(* Mutant of Freed: the lock is never released.                            *)
FreedNot == line

(* The lock is released to the next in the queue.                          *)
Freed == Tail(line)

(* A command begins: the cache as it is, base, is cloned, the new value is *)
(* put into it, and the client queues for the lock behind those in ln.     *)
Issue(o, c, base, ln) ==
    /\ before' = [before EXCEPT ![o] = base]
    /\ cache' = [base EXCEPT ![c.field] = c.value]
    /\ req' = [req EXCEPT ![<<o, 1>>] = "queued"]
    /\ cmd' = [cmd EXCEPT ![<<o, 1>>] = c]
    /\ line' = Append(ln, <<o, 1>>)
    /\ pc' = [pc EXCEPT ![o] = "call"]
    /\ UNCHANGED reply

(* It asks for the lamp's state instead.                                   *)
IssueQuery(o) ==
    /\ before' = [before EXCEPT ![o] = cache]
    /\ req' = [req EXCEPT ![<<o, 1>>] = "queued"]
    /\ cmd' = [cmd EXCEPT ![<<o, 1>>] = Query]
    /\ line' = Append(line, <<o, 1>>)
    /\ pc' = [pc EXCEPT ![o] = "call"]
    /\ UNCHANGED <<cache, reply>>

(* The operation is over, and its local variables are gone.                *)
Return(o, how, ln) ==
    /\ pc' = [pc EXCEPT ![o] = "done"]
    /\ result' = [result EXCEPT ![o] = IF @ = "none" \/ how = "cancelled" THEN how ELSE @]
    /\ req' = [r \in Requests |-> IF r \in Own(o) THEN "none" ELSE req[r]]
    /\ cmd' = [r \in Requests |-> IF r \in Own(o) THEN Query ELSE cmd[r]]
    /\ reply' = [reply EXCEPT ![o] = Empty]
    /\ name' = [name EXCEPT ![o] = "none"]
    /\ before' = [before EXCEPT ![o] = Empty]
    /\ script' = [script EXCEPT ![o] = <<>>]
    /\ blinks' = [blinks EXCEPT ![o] = 0]
    /\ original' = [original EXCEPT ![o] = Empty]
    /\ found' = [found EXCEPT ![o] = Empty]
    /\ line' = ln

(* toggle(): turn_off() if "on" is in the state and true, else turn_on().  *)
Flip(state) == Set("on", state["on"] # TRUE)

(* Mutant of Restore: a light known to be off counts as unknown.           *)
RestoreIfTrue(s) ==
    LET known(f) == IF s[f] = Absent THEN <<>> ELSE <<Set(f, s[f])>>
    IN  known("brightness") \o known("color") \o <<Set("on", s["on"] = TRUE \/ s # Empty)>>

(* flash(): off and on for every flash, and what restores the state s.     *)
Blinking == [i \in 1..2 * Flashes |-> Set("on", i % 2 = 0)]
Restore(s) ==
    LET known(f) == IF s[f] = Absent THEN <<>> ELSE <<Set(f, s[f])>>
        on == IF s["on"] = Absent THEN s # Empty ELSE s["on"]
    IN  known("brightness") \o known("color") \o <<Set("on", on)>>
StartFlashing(o, s, ln) ==
    /\ original' = [original EXCEPT ![o] = s]
    /\ script' = [script EXCEPT ![o] = Blinking \o Restore(s)]
    /\ blinks' = [blinks EXCEPT ![o] = 2 * Flashes]
    /\ Issue(o, Blinking[1], s, ln)

(* The flashing went wrong in state s: flash() restores at once.           *)
StartRestoring(o, s, ln) ==
    LET rest == SubSeq(script[o], blinks[o] + 1, Len(script[o]))
    IN  /\ script' = [script EXCEPT ![o] = rest]
        /\ blinks' = [blinks EXCEPT ![o] = 0]
        /\ Issue(o, Head(rest), s, ln)

(******************************* operations ********************************)
Begin(o, which) ==
    /\ pc[o] = "new"
    /\ name' = [name EXCEPT ![o] = which]
    /\ found' = [found EXCEPT ![o] = lamp]
    /\ UNCHANGED <<seen, lamp, late, result, unsure>>

(* turn_on, turn_off, set_brightness, set_color_temperature.               *)
Command(o) ==
    /\ Begin(o, "command")
    /\ \E c \in Settings : Issue(o, c, cache, line)
    /\ UNCHANGED <<script, blinks, original>>

(* The client finds the value out of range: ValueError before any await,   *)
(* so that the update and its rollback are one step that nobody sees.      *)
Refused(o) ==
    /\ pc[o] = "new"
    /\ Return(o, "error", line)
    /\ UNCHANGED <<cache, seen, lamp, late, unsure>>

(* get_state: the cache unless it is empty or an update is forced.         *)
Refresh(o) == Begin(o, "get") /\ IssueQuery(o) /\ UNCHANGED <<script, blinks, original>>
GetCached(o) ==
    /\ pc[o] = "new" /\ cache # Empty
    /\ Return(o, "ok", line)
    /\ UNCHANGED <<cache, seen, lamp, late, unsure>>

(* get_info and ping: a query whose answer the cache has no part in; ping  *)
(* turns a failure into False.                                             *)
Ask(o) == Begin(o, "ask") /\ IssueQuery(o) /\ UNCHANGED <<script, blinks, original>>

Toggle(o) ==
    /\ Begin(o, "toggle")
    /\ \/ cache = Empty /\ IssueQuery(o)
       \/ cache # Empty /\ Issue(o, Flip(cache), cache, line)
    /\ UNCHANGED <<script, blinks, original>>

(* apply_scene: gather() makes a task of each of the two requests.         *)
ApplyScene(o) ==
    /\ Begin(o, "scene")
    /\ \E b \in Levels, t \in Temperatures :
         /\ cache' = [cache EXCEPT !["brightness"] = b, !["color"] = t]
         /\ cmd' = [cmd EXCEPT ![<<o, 1>>] = Set("brightness", b), ![<<o, 2>>] = Set("color", t)]
    /\ before' = [before EXCEPT ![o] = cache]
    /\ req' = [req EXCEPT ![<<o, 1>>] = "spawned", ![<<o, 2>>] = "spawned"]
    /\ pc' = [pc EXCEPT ![o] = "call"]
    /\ UNCHANGED <<line, reply, script, blinks, original>>

Flash(o) ==
    /\ Begin(o, "flash")
    /\ \/ cache = Empty /\ IssueQuery(o) /\ UNCHANGED <<script, blinks, original>>
       \/ cache # Empty /\ StartFlashing(o, cache, line)

(* The tasks of a scene run in the order they were made.                   *)
TaskStarts(r) ==
    /\ req[r] = "spawned"
    /\ r[2] = 2 => req[<<r[1], 1>>] # "spawned"
    /\ req' = [req EXCEPT ![r] = "queued"]
    /\ line' = Append(line, r)
    /\ UNCHANGED <<cache, seen, lamp, late, cmd, reply, pc, result, locals, unsure>>

(* Or one finds its value out of range.                                    *)
TaskRefused(r) ==
    /\ req[r] = "spawned"
    /\ r[2] = 2 => req[<<r[1], 1>>] # "spawned"
    /\ req' = [req EXCEPT ![r] = "error"]
    /\ UNCHANGED <<cache, seen, lamp, late, line, cmd, reply, pc, result, locals, unsure>>

(**************************** the client, the lamp **************************)
(* Mutant of AtLamp: exchanges with one lamp do not exclude each other.    *)
AtLampUnlocked(r) == r \in Range(line)

(* r holds the lamp's lock.                                                *)
AtLamp(r) == line # <<>> /\ Head(line) = r

(* The lamp executes the command, or takes the state it will report.  A    *)
(* response without "states" reads as an empty one, as device information. *)
LampServes(r) ==
    /\ AtLamp(r) /\ req[r] = "queued"
    /\ req' = [req EXCEPT ![r] = "served"]
    /\ \/ /\ cmd[r] = Query
          /\ \E s \in {lamp, Empty} :
               /\ name[Operation(r)] = "ask" => s = Empty
               /\ reply' = [reply EXCEPT ![Operation(r)] = s]
          /\ UNCHANGED <<lamp, unsure>>
       \/ /\ cmd[r] # Query
          /\ lamp' = [lamp EXCEPT ![cmd[r].field] = cmd[r].value]
          /\ unsure' = unsure \ {cmd[r].field}
          /\ UNCHANGED reply
    /\ UNCHANGED <<cache, seen, late, line, cmd, pc, result, locals>>

LateRuns(c) ==
    /\ late' = late \ {c}
    /\ lamp' = [lamp EXCEPT ![c.field] = c.value]
    /\ unsure' = unsure \cup {c.field}
    /\ UNCHANGED <<cache, seen, line, req, cmd, reply, pc, result, locals>>

(* Of the commands in w, each may or may not be on its way to the lamp.    *)
MayStillRun(w) ==
    \E some \in SUBSET (w \cap Settings) :
        late' = late \cup some /\ (some = {} \/ Cardinality(late') <= MaxLate)

(* An attempt of r ends without an answer: the lamp has executed the       *)
(* command, or may still do so, or never will.                             *)
GivenUp(r) ==
    \/ /\ req[r] = "served"
       /\ unsure' = unsure \cup ({cmd[r].field} \cap Fields)
       /\ UNCHANGED late
    \/ /\ req[r] = "queued"
       /\ MayStillRun({cmd[r]})
       /\ UNCHANGED unsure

(* A transient failure with a retry left; the lock is released meanwhile.  *)
BacksOff(r) ==
    /\ AtLamp(r) /\ GivenUp(r)
    /\ req' = [req EXCEPT ![r] = "backoff"]
    /\ line' = Freed
    /\ reply' = [reply EXCEPT ![Operation(r)] = Empty]
    /\ UNCHANGED <<cache, seen, lamp, cmd, pc, result, locals>>

Retries(r) ==
    /\ req[r] = "backoff"
    /\ req' = [req EXCEPT ![r] = "queued"]
    /\ line' = Append(line, r)
    /\ UNCHANGED <<cache, seen, lamp, late, cmd, reply, pc, result, locals, unsure>>

(***************************** what comes back *****************************)
(* A request of apply_scene returned or raised: gather() keeps the result. *)
TaskEnds(r, how) ==
    /\ name[Operation(r)] = "scene"
    /\ req' = [req EXCEPT ![r] = how]
    /\ line' = Freed
    /\ UNCHANGED <<cache, seen, cmd, reply, pc, result, locals>>

(* A command of o was answered; flash() sleeps before its next one.        *)
Answered(o) ==
    /\ name[o] # "scene" /\ cmd[<<o, 1>>] # Query
    /\ Emit(before[o], cache)
    /\ UNCHANGED cache
    /\ \/ Len(script[o]) <= 1 /\ Return(o, "ok", Freed)
       \/ /\ Len(script[o]) > 1
          /\ pc' = [pc EXCEPT ![o] = "pause"]
          /\ req' = [req EXCEPT ![<<o, 1>>] = "none"]
          /\ line' = Freed
          /\ UNCHANGED <<cmd, reply, result, locals>>

(* A query of o was answered: get_state replaces the cache; toggle and     *)
(* flash go on from there.                                                 *)
Reported(o) ==
    LET state == reply[o]
    IN  /\ cmd[<<o, 1>>] = Query
        /\ IF name[o] = "ask" THEN UNCHANGED seen ELSE Emit(before[o], state)
        /\ \/ name[o] = "ask" /\ UNCHANGED cache /\ Return(o, "ok", Freed)
           \/ name[o] = "get" /\ cache' = state /\ Return(o, "ok", Freed)
           \/ /\ name[o] = "toggle" /\ Issue(o, Flip(state), state, Freed)
              /\ UNCHANGED <<name, script, blinks, result, original, found>>
           \/ /\ name[o] = "flash" /\ StartFlashing(o, state, Freed)
              /\ UNCHANGED <<name, result, found>>

Succeeds(r) ==
    /\ AtLamp(r) /\ req[r] = "served"
    /\ TaskEnds(r, "ok") \/ Answered(Operation(r)) \/ Reported(Operation(r))
    /\ UNCHANGED <<lamp, late, unsure>>

(* Mutant of RolledBack: one failure takes the whole state back.           *)
RolledBackWhole(o, failed) == IF failed = {} THEN cache ELSE before[o]

(* The fields that failed go back to what they were, or are deleted.       *)
RolledBack(o, failed) ==
    [f \in Fields |-> IF f \in failed THEN before[o][f] ELSE cache[f]]

(* The command of o raised, leaving the cache as in state: the listener is *)
(* told, the exception goes on.  flash() catches it: while flashing, it    *)
(* then restores; a cancellation or a failing restoration ends it.         *)
Raised(o, how, state, ln) ==
    /\ Emit(before[o], state)
    /\ \/ blinks[o] = 0 /\ cache' = state /\ Return(o, how, ln)
       \/ /\ blinks[o] > 0 /\ StartRestoring(o, state, ln)
          /\ result' = [result EXCEPT ![o] = how]
          /\ UNCHANGED <<name, original, found>>

Fails(r) ==
    LET o == Operation(r)
    IN  /\ AtLamp(r) /\ GivenUp(r)
        /\ \/ TaskEnds(r, "error")
           \/ /\ name[o] # "scene" /\ cmd[r] # Query
              /\ Raised(o, "error", RolledBack(o, {cmd[r].field}), Freed)
           \/ /\ cmd[r] = Query
              /\ Return(o, "error", Freed)
              /\ UNCHANGED <<cache, seen>>
        /\ UNCHANGED lamp

(* apply_scene resumes: only the fields that failed are rolled back.       *)
SceneEnds(o) ==
    LET failed == {cmd[r].field : r \in {q \in Own(o) : req[q] = "error"}}
    IN  /\ name[o] = "scene"
        /\ \A r \in Own(o) : req[r] \in {"ok", "error"}
        /\ cache' = RolledBack(o, failed)
        /\ Emit(before[o], RolledBack(o, failed))
        /\ Return(o, IF failed = {} THEN "ok" ELSE "error", line)
        /\ UNCHANGED <<lamp, late, unsure>>

(* flash() wakes up and goes on with its next command.                     *)
WakesUp(o) ==
    /\ pc[o] = "pause"
    /\ script' = [script EXCEPT ![o] = Tail(@)]
    /\ blinks' = [blinks EXCEPT ![o] = IF @ = 0 THEN 0 ELSE @ - 1]
    /\ Issue(o, script[o][2], cache, line)
    /\ UNCHANGED <<seen, lamp, late, name, result, original, found, unsure>>

(* The task is cancelled: no except clause of a command catches that, so   *)
(* nothing is rolled back; the listener is told, and flash() restores if   *)
(* it was flashing.  Requests not yet served are taken off the line.       *)
Cancel(o) ==
    LET at(places) == {cmd[r] : r \in {q \in Own(o) : req[q] \in places}}
        holding == {cmd[r] : r \in {q \in Own(o) : AtLamp(q) /\ req[q] = "queued"}}
        others == RemoveFirst(RemoveFirst(line, <<o, 1>>), <<o, 2>>)
    IN  /\ unsure' = unsure \cup ({c.field : c \in at({"spawned", "queued", "backoff", "error"})}
                                  \cap Fields)
        /\ MayStillRun(holding)
        /\ \/ pc[o] = "call" /\ cmd[<<o, 1>>] # Query /\ Raised(o, "cancelled", cache, others)
           \/ /\ pc[o] = "call" /\ cmd[<<o, 1>>] = Query
              /\ Return(o, "cancelled", others)
              /\ UNCHANGED <<cache, seen>>
           \/ /\ pc[o] = "pause" /\ blinks[o] > 0
              /\ StartRestoring(o, cache, others)
              /\ result' = [result EXCEPT ![o] = "cancelled"]
              /\ UNCHANGED <<seen, name, original, found>>
           \/ /\ pc[o] = "pause" /\ blinks[o] = 0
              /\ Return(o, "cancelled", others)
              /\ UNCHANGED <<cache, seen>>
        /\ UNCHANGED lamp

(* on_state_change and remove_state_listener.                              *)
Listen(s) ==
    /\ (s = Deaf) # (seen = Deaf)
    /\ seen' = s
    /\ UNCHANGED <<cache, lamp, late, line, req, cmd, reply, pc, result, locals, unsure>>

(****************************** specification ******************************)
Start(o) ==
    Command(o) \/ Refresh(o) \/ GetCached(o) \/ Ask(o) \/ Toggle(o) \/ ApplyScene(o) \/ Flash(o)

ClientStep(r) ==
    \/ TaskStarts(r) \/ TaskRefused(r) \/ LampServes(r) \/ BacksOff(r) \/ Retries(r)
    \/ Succeeds(r) \/ Fails(r)

Next ==
    \/ \E o \in Ops : Start(o) \/ Refused(o) \/ SceneEnds(o) \/ WakesUp(o) \/ Cancel(o)
    \/ \E r \in Requests : ClientStep(r)
    \/ \E c \in late : LateRuns(c)
    \/ \E s \in {Deaf, Silent} : Listen(s)

Spec == Init /\ [][Next]_vars

(* An operation begins when the one before it is over.                     *)
OneAtATime == \A o \in Ops : pc[o] = "new" /\ pc'[o] # "new" => Running = {}
SerialSpec == Init /\ [][Next /\ OneAtATime]_vars

(******************************** properties *******************************)
Quiet == Running = {}

(* The fields of commands that ended without an answer: the lamp may have  *)
(* executed such a command, and may yet.                                   *)
Doubted == unsure \cup {c.field : c \in late}

(* The values of the variables; the lock's queue holds each request that   *)
(* waits for the lamp or is with it, once.                                 *)
TypeOK ==
    /\ cache \in States /\ lamp \in States /\ seen \in States \cup {Deaf, Silent}
    /\ \A f \in Fields : lamp[f] \in Values(f) /\ cache[f] \in Values(f) \cup {Absent}
    /\ late \subseteq Settings
    /\ \A r \in Requests : cmd[r] \in Settings \cup {Query}
    /\ Range(line) = {r \in Requests : req[r] \in {"queued", "served"}}
    /\ IsInjective(line)

(* Once no operation is under way, what the cache says of a field is what  *)
(* the lamp is, unless a command for that field ended without an answer:   *)
(* every rollback, of a command, a scene or a flash, took back exactly     *)
(* what the lamp did not do.                                               *)
CacheTracksLamp == Quiet => \A f \in Fields \ Doubted : cache[f] \in {Absent, lamp[f]}

(* Once no operation is under way, a listener that was told anything was   *)
(* last told the state the cache is in: no change goes unreported, and no  *)
(* rollback leaves it with a state that was taken back.                    *)
ListenerSettled == Quiet /\ seen \notin {Deaf, Silent} => seen = cache

(* When flash() returns True, the lamp is as original_state said it was,   *)
(* in every field that said anything (and that no lost command disturbs).  *)
FlashRestores ==
    [][\A o \in Ops : name[o] = "flash" /\ result[o] = "none" /\ result'[o] = "ok" =>
         \A f \in {g \in Fields \ Doubted' : original[o][g] # Absent} :
             lamp'[f] = original[o][f]]_vars

(* A toggle that succeeds turns the lamp from on to off or from off to on. *)
(* The code does not: a command before it that put only its own field into *)
(* the cache makes toggle() take the unknown "on" for off.                 *)
ToggleInverts ==
    [][\A o \in Ops : name[o] = "toggle" /\ result'[o] = "ok" /\ "on" \notin Doubted' =>
         lamp'["on"] # found[o]["on"]]_vars
=============================================================================
