-------------------------- MODULE DeviceSerialProofs --------------------------
(***************************************************************************)
(* Theorems about module Device when operations come one at a time: the    *)
(* cache follows the lamp, the listener follows the cache, and flash()     *)
(* restores what it found, whatever fails or is cancelled on the way.      *)
(***************************************************************************)
EXTENDS DeviceProofs

(*************************** the inductive invariant ***********************)
Executed == {"served", "ok"}

(* What is known of the lamp where no lost command is in doubt.            *)
Agrees(s) == \A f \in Fields \ Doubted : s[f] \in {Absent, lamp[f]}
Heard(s) == seen \in {Deaf, Silent, s}

Alone == \A o, d \in Running : o = d
Between == (\A o \in Ops : pc[o] # "call") => Agrees(cache) /\ Heard(cache)

(* The commands an operation has under way.                                *)
Live(o) == {r \in Own(o) : req[r] # "none" /\ cmd[r] # Query}

(* The cache is ahead of the lamp by the commands not executed yet; what   *)
(* it was before them is what the lamp still is.                           *)
Follows(o, r) ==
    LET f == cmd[r].field
    IN  /\ cache[f] = cmd[r].value
        /\ f \notin Doubted => IF req[r] \in Executed THEN lamp[f] = cmd[r].value
                                                      ELSE before[o][f] \in {Absent, lamp[f]}
Within(o) ==
    /\ Heard(before[o])
    /\ \A r \in Live(o) : Follows(o, r)
    /\ \A f \in Fields \ Doubted :
         (\A r \in Live(o) : cmd[r].field # f) => cache[f] \in {Absent, lamp[f]}
    /\ cmd[<<o, 1>>] = Query =>
         before[o] = cache /\ (req[<<o, 1>>] = "served" => Agrees(reply[o]))

(* A flash nothing went wrong with: only "on" differs from what it found,  *)
(* and what is left of its script leads back there.                        *)
Flashing(o) == script[o] # <<>> /\ result[o] = "none"
FlashKeeps(o) ==
    /\ \A f \in Fields \ {"on"} : cache[f] = original[o][f]
    /\ script[o] \in Seq(Faithful(original[o]))
    /\ original[o]["on"] # Absent => script[o][Len(script[o])] = Set("on", original[o]["on"])

OneInv(o) == (pc[o] = "call" => Within(o)) /\ (Flashing(o) => FlashKeeps(o))
SerialInv == BaseInv /\ Alone /\ Between /\ \A o \in Ops : OneInv(o)

(***************************** pieces of a step ****************************)
(* A state and the listener after a step.                                  *)
Settles(s) == \A f \in Fields \ Doubted' : s[f] \in {Absent, lamp'[f]}
Hears(s) == seen' \in {Deaf, Silent, s}

(* Only o takes part in the step, and no other operation is under way.     *)
StepOf(o) ==
    \A d \in Ops \ {o} : pc[d] \in {"new", "done"} /\ pc'[d] = pc[d]

LEMMA SerialTogether ==
    ASSUME NEW o \in Ops, BaseInv', StepOf(o),
           pc'[o] # "call" => Settles(cache') /\ Hears(cache'),
           pc'[o] = "call" => Within(o)',
           Flashing(o)' => FlashKeeps(o)'
    PROVE  SerialInv'
<1>1. ASSUME NEW d \in Ops \ {o}
      PROVE  pc'[d] \in {"new", "done"} /\ script'[d] = <<>>
  <2>1. pc'[d] \in {"new", "done"}
    BY DEF StepOf
  <2>2. Shape(d)'
    BY DEF BaseInv
  <2> QED
    BY <2>1, <2>2 DEF Shape
<1>2. \A d \in Ops : OneInv(d)'
  <2>1. ASSUME NEW d \in Ops \ {o}
        PROVE  OneInv(d)'
    <3>1. pc'[d] # "call" /\ ~Flashing(d)'
      BY <1>1 DEF Flashing
    <3> QED
      BY <3>1 DEF OneInv
  <2>2. OneInv(o)'
    BY DEF OneInv
  <2> QED
    BY <2>1, <2>2
<1>3. Alone'
  BY <1>1 DEF Alone, Running
<1>4. Between'
  BY DEF Between, Settles, Hears, Agrees, Heard
<1> QED
  BY <1>2, <1>3, <1>4 DEF SerialInv

(* The other operations while one is under way, and when none is.          *)
LEMMA OthersIdle ==
    ASSUME SerialInv, NEW o \in Ops, pc[o] \notin {"new", "done"},
           \A d \in Ops \ {o} : pc'[d] = pc[d]
    PROVE  StepOf(o)
BY DEF SerialInv, Alone, Running, StepOf

LEMMA AllIdle ==
    ASSUME Running = {}, NEW o \in Ops, \A d \in Ops \ {o} : pc'[d] = pc[d]
    PROVE  StepOf(o)
BY DEF Running, StepOf

(* The listener after a change from one state to another.                  *)
LEMMA EmitHears ==
    ASSUME NEW old, NEW new, seen \in {Deaf, Silent, old}, Emit(old, new)
    PROVE  Hears(new)
BY DEF Emit, Hears

(* A step after which as much or more is in doubt, and the lamp is as it   *)
(* was elsewhere.                                                          *)
DoubtGrows == Doubted \subseteq Doubted' /\ \A f \in Fields \ Doubted' : lamp'[f] = lamp[f]

LEMMA SettlesStill ==
    ASSUME DoubtGrows, NEW s, \A f \in Fields \ Doubted : s[f] \in {Absent, lamp[f]}
    PROVE  Settles(s)
BY DEF DoubtGrows, Settles

LEMMA NothingNew ==
    ASSUME UNCHANGED <<lamp, late, unsure>>
    PROVE  DoubtGrows /\ Doubted' = Doubted
BY DEF DoubtGrows, Doubted

(* A command issued from a settled state.                                  *)
LEMMA IssueWithin ==
    ASSUME BaseInv, NEW o \in Ops, NEW c \in Settings, NEW s \in Known, NEW ln,
           FreeOf(o, ln), req[<<o, 2>>] = "none", Issue(o, c, s, ln),
           Settles(s), Hears(s)
    PROVE  /\ Within(o)' /\ cache'[c.field] = c.value
           /\ \A f \in Fields : f # c.field => cache'[f] = s[f]
           /\ pc'[o] = "call" /\ \A d \in Ops \ {o} : pc'[d] = pc[d]
<1>1. /\ before'[o] = s /\ cache'[c.field] = c.value
      /\ \A f \in Fields : f # c.field => cache'[f] = s[f]
      /\ pc'[o] = "call" /\ cmd'[<<o, 1>>] = c
      /\ req'[<<o, 1>>] = "queued" /\ req'[<<o, 2>>] = "none" /\ RequestsKept(o)
  BY IssueBase DEF BaseInv
<1>2. c.field \in Fields /\ c # Query
  BY SettingType
<1>3. Own(o) = {<<o, 1>>, <<o, 2>>}
  BY OwnRequests
<1>4. Live(o)' = {<<o, 1>>}
  BY <1>1, <1>2, <1>3 DEF Live
<1>5. Heard(before[o])'
  BY <1>1 DEF Hears, Heard
<1>6. \A r \in Live(o)' : Follows(o, r)'
  <2>1. c.field \notin Doubted' => s[c.field] \in {Absent, lamp'[c.field]}
    BY <1>2 DEF Settles
  <2> QED
    BY <1>1, <1>4, <2>1 DEF Follows, Executed
<1>7. \A f \in Fields \ Doubted' :
        (\A r \in Live(o)' : cmd'[r].field # f) => cache'[f] \in {Absent, lamp'[f]}
  BY <1>1, <1>4 DEF Settles
<1>8. Within(o)'
  BY <1>1, <1>2, <1>5, <1>6, <1>7 DEF Within
<1> QED
  BY <1>1, <1>8 DEF RequestsKept

(* A query issued from a settled state.                                    *)
LEMMA QueryWithin ==
    ASSUME BaseInv, NEW o \in Ops, pc[o] = "new", IssueQuery(o), Settles(cache), Hears(cache)
    PROVE  Within(o)' /\ pc'[o] = "call" /\ \A d \in Ops \ {o} : pc'[d] = pc[d]
<1>1. /\ before'[o] = cache /\ cache' = cache
      /\ pc'[o] = "call" /\ cmd'[<<o, 1>>] = Query
      /\ req'[<<o, 1>>] = "queued" /\ req'[<<o, 2>>] = "none" /\ RequestsKept(o)
  BY QueryBase
<1>2. Live(o)' = {}
  BY <1>1, OwnRequests DEF Live
<1>3. Heard(before[o])'
  BY <1>1 DEF Hears, Heard
<1>4. \A f \in Fields \ Doubted' : cache'[f] \in {Absent, lamp'[f]}
  BY <1>1 DEF Settles
<1> QED
  BY <1>1, <1>2, <1>3, <1>4 DEF Within, RequestsKept

(* What an operation that returns leaves.                                  *)
LEMMA ReturnSettled ==
    ASSUME BaseInv, BaseInv', NEW o \in Ops, NEW how, NEW ln, Return(o, how, ln), StepOf(o),
           Settles(cache'), Hears(cache')
    PROVE  SerialInv'
<1>1. pc'[o] = "done" /\ script'[o] = <<>>
  BY DEF Return, BaseInv, StateTypes, RequestTypes, LocalTypes
<1>2. ~Flashing(o)'
  BY <1>1 DEF Flashing
<1> QED
  BY <1>1, <1>2, SerialTogether

(* The flashing begins in a settled state.                                 *)
LEMMA FlashWithin ==
    ASSUME BaseInv, NEW o \in Ops, NEW s \in Known, NEW ln, FreeOf(o, ln),
           req[<<o, 2>>] = "none", StartFlashing(o, s, ln), name'[o] = "flash",
           Settles(s), Hears(s)
    PROVE  /\ Within(o)' /\ FlashKeeps(o)'
           /\ pc'[o] = "call" /\ \A d \in Ops \ {o} : pc'[d] = pc[d]
<1> DEFINE c == Blinking[1]
           sc == Blinking \o Restore(s)
<1>1. Issue(o, c, s, ln) /\ c \in Settings /\ c.field = "on" /\ original'[o] = s /\ script'[o] = sc
  BY FlashBase DEF BaseInv
<1>2. sc \in Seq(Faithful(s)) /\ (s["on"] # Absent => sc[Len(sc)] = Set("on", s["on"]))
  BY ScriptType
<1> HIDE DEF c, sc
<1>3. /\ Within(o)'
      /\ \A f \in Fields : f # c.field => cache'[f] = s[f]
      /\ pc'[o] = "call" /\ \A d \in Ops \ {o} : pc'[d] = pc[d]
  BY <1>1, IssueWithin
<1>4. FlashKeeps(o)'
  <2>1. \A f \in Fields \ {"on"} : cache'[f] = original'[o][f]
    BY <1>1, <1>3
  <2>2. script'[o] \in Seq(Faithful(original'[o]))
    BY <1>1, <1>2
  <2>3. original'[o]["on"] # Absent => script'[o][Len(script'[o])] = Set("on", original'[o]["on"])
    BY <1>1, <1>2
  <2>4. Faithful(original[o])' = Faithful(original'[o])
    BY DEF Faithful, Settings, Values, Set, Fields
  <2> QED
    BY <2>1, <2>2, <2>3, <2>4 DEF FlashKeeps, Fields, Set
<1> QED
  BY <1>3, <1>4

(**************************** operations begin *****************************)
LEMMA StartSerial ==
    ASSUME SerialInv, BaseInv', Running = {}, NEW o \in Ops, Start(o) \/ Refused(o)
    PROVE  SerialInv'
<1>1. /\ pc[o] = "new" /\ UNCHANGED <<seen, lamp, late, unsure>>
      /\ \A d \in Ops : pc[d] # "call"
  BY DEF Start, Refused, Command, Refresh, GetCached, Ask, Toggle, ApplyScene, Flash, Begin,
         Running
<1> DEFINE s == cache
           ln == line
<1>2. Settles(cache) /\ Hears(cache) /\ DoubtGrows
  <2>1. Agrees(cache) /\ Heard(cache)
    BY <1>1 DEF SerialInv, Between
  <2>2. DoubtGrows
    BY <1>1, NothingNew
  <2> QED
    BY <1>1, <2>1, <2>2 DEF Agrees, Heard, Hears, DoubtGrows, Settles
<1>3. /\ BaseInv /\ FreeOf(o, ln) /\ req[<<o, 2>>] = "none" /\ script[o] = <<>>
      /\ s \in Known /\ Settles(s) /\ Hears(s)
  BY <1>1, <1>2, NewOperation DEF SerialInv, BaseInv, StateTypes, ValueTypes
<1>4. ASSUME NEW c \in Settings, Issue(o, c, s, ln), UNCHANGED script
      PROVE  SerialInv'
  <2> HIDE DEF s, ln
  <2>1. Within(o)' /\ pc'[o] = "call" /\ \A d \in Ops \ {o} : pc'[d] = pc[d]
    BY <1>3, <1>4, IssueWithin
  <2>2. StepOf(o)
    BY <2>1, AllIdle
  <2>3. ~Flashing(o)'
    BY <1>3, <1>4 DEF Flashing
  <2> QED
    BY <2>1, <2>2, <2>3, SerialTogether
<1>5. ASSUME IssueQuery(o), UNCHANGED script
      PROVE  SerialInv'
  <2>1. Within(o)' /\ pc'[o] = "call" /\ \A d \in Ops \ {o} : pc'[d] = pc[d]
    BY <1>1, <1>2, <1>3, <1>5, QueryWithin
  <2>2. StepOf(o)
    BY <2>1, AllIdle
  <2>3. ~Flashing(o)'
    BY <1>3, <1>5 DEF Flashing
  <2> QED
    BY <2>1, <2>2, <2>3, SerialTogether
<1>6. ASSUME NEW how, Return(o, how, ln), UNCHANGED cache
      PROVE  SerialInv'
  <2>1. \A d \in Ops \ {o} : pc'[d] = pc[d]
    BY <1>3, <1>6 DEF Return, BaseInv, StateTypes, RequestTypes
  <2>2. StepOf(o)
    BY <2>1, AllIdle
  <2>3. Settles(cache') /\ Hears(cache')
    BY <1>2, <1>6 DEF Settles, Hears
  <2> HIDE DEF ln
  <2> QED
    BY <1>3, <1>6, <2>2, <2>3, ReturnSettled
<1>7. ASSUME ApplyScene(o)
      PROVE  SerialInv'
  <2>1. PICK b \in Levels, t \in Temperatures :
          /\ cache' = [cache EXCEPT !["brightness"] = b, !["color"] = t]
          /\ cmd'[<<o, 1>>] = Set("brightness", b) /\ cmd'[<<o, 2>>] = Set("color", t)
    BY <1>3, <1>7, SceneBase
  <2>2. before'[o] = cache /\ req'[<<o, 1>>] = "spawned" /\ req'[<<o, 2>>] = "spawned"
    BY <1>3, <1>7, SceneBase
  <2> DEFINE x == Set("brightness", b)
             y == Set("color", t)
  <2>3. /\ x \in Settings /\ x.field = "brightness" /\ x.value = b /\ x # Query
        /\ y \in Settings /\ y.field = "color" /\ y.value = t /\ y # Query
    <3>1. b \in Values("brightness") /\ t \in Values("color")
      BY DEF Values
    <3>2. "brightness" \in Fields /\ "color" \in Fields
      BY DEF Fields
    <3>3. /\ x \in Settings /\ x.field = "brightness" /\ x.value = b
          /\ y \in Settings /\ y.field = "color" /\ y.value = t
      BY <3>1, <3>2, SetType
    <3> HIDE DEF x, y
    <3> QED
      BY <3>3, QueryIsNoSetting
  <2>4. cmd'[<<o, 1>>] = x /\ cmd'[<<o, 2>>] = y
    BY <2>1
  <2> HIDE DEF x, y
  <2>5. /\ cache'["brightness"] = b /\ cache'["color"] = t /\ cache'["on"] = cache["on"]
        /\ "on" \in Fields /\ "brightness" \in Fields /\ "color" \in Fields
        /\ \A f \in Fields : f = "on" \/ f = "brightness" \/ f = "color"
    <3>1. cache \in [Fields -> BOOLEAN \cup Levels \cup Temperatures \cup {Absent}]
      BY <1>3 DEF BaseInv, StateTypes, ValueTypes, Known, States
    <3>2. /\ "on" \in Fields /\ "brightness" \in Fields /\ "color" \in Fields
          /\ \A f \in Fields : f = "on" \/ f = "brightness" \/ f = "color"
      BY DEF Fields
    <3> QED
      BY <2>1, <3>1, <3>2
  <2>6. Live(o)' = {<<o, 1>>, <<o, 2>>}
    BY <2>2, <2>3, <2>4, OwnRequests DEF Live
  <2>7. \A f \in Fields \ Doubted' : cache[f] \in {Absent, lamp'[f]}
    BY <1>2 DEF Settles
  <2>8. Follows(o, <<o, 1>>)' /\ Follows(o, <<o, 2>>)'
    BY <2>2, <2>3, <2>4, <2>5, <2>7 DEF Follows, Executed
  <2>9. \A f \in Fields \ Doubted' :
          (\A r \in Live(o)' : cmd'[r].field # f) => cache'[f] \in {Absent, lamp'[f]}
    <3> SUFFICES ASSUME NEW f \in Fields \ Doubted', \A r \in Live(o)' : cmd'[r].field # f
                 PROVE  cache'[f] \in {Absent, lamp'[f]}
      OBVIOUS
    <3>1. f # "brightness" /\ f # "color"
      BY <2>3, <2>4, <2>6
    <3>2. f = "on"
      BY <2>5, <3>1
    <3> QED
      BY <2>5, <2>7, <3>2
  <2>10. Heard(before[o])'
    BY <1>2, <2>2 DEF Heard, Hears
  <2>11. Within(o)'
    BY <2>3, <2>4, <2>6, <2>8, <2>9, <2>10 DEF Within
  <2>12. pc' = [pc EXCEPT ![o] = "call"] /\ script' = script
    BY <1>7 DEF ApplyScene
  <2>13. StepOf(o) /\ ~Flashing(o)'
    <3>1. \A d \in Ops \ {o} : pc'[d] = pc[d]
      BY <1>3, <2>12 DEF BaseInv, StateTypes, RequestTypes
    <3> QED
      BY <1>3, <2>12, <3>1, AllIdle DEF Flashing
  <2>14. pc'[o] = "call"
    BY <1>3, <2>12 DEF BaseInv, StateTypes, RequestTypes
  <2> QED
    BY <2>11, <2>13, <2>14, SerialTogether
<1>8. ASSUME Begin(o, "flash"), StartFlashing(o, s, ln)
      PROVE  SerialInv'
  <2>1. name'[o] = "flash"
    BY <1>3, <1>8, BeginBase, NamesListed
  <2> HIDE DEF s, ln
  <2>2. /\ Within(o)' /\ FlashKeeps(o)'
        /\ pc'[o] = "call" /\ \A d \in Ops \ {o} : pc'[d] = pc[d]
    BY <1>3, <1>8, <2>1, FlashWithin
  <2>3. StepOf(o)
    BY <2>2, AllIdle
  <2> QED
    BY <2>2, <2>3, SerialTogether
<1>9. CASE Command(o)
  <2>1. PICK c \in Settings : Issue(o, c, cache, line)
    BY <1>9 DEF Command
  <2> QED
    BY <1>4, <1>9, <2>1 DEF Command
<1>10. CASE Refresh(o)
  BY <1>5, <1>10 DEF Refresh
<1>11. CASE Ask(o)
  BY <1>5, <1>11 DEF Ask
<1>12. CASE GetCached(o)
  BY <1>6, <1>12 DEF GetCached
<1>13. CASE Refused(o)
  BY <1>6, <1>13 DEF Refused
<1>14. CASE Toggle(o)
  <2>1. CASE IssueQuery(o)
    BY <1>5, <1>14, <2>1 DEF Toggle
  <2>2. CASE Issue(o, Flip(cache), cache, line)
    BY <1>4, <1>14, <2>2, FlipType DEF Toggle
  <2> QED
    BY <1>14, <2>1, <2>2 DEF Toggle
<1>15. CASE Flash(o)
  <2>1. CASE IssueQuery(o) /\ UNCHANGED <<script, blinks, original>>
    BY <1>5, <2>1
  <2>2. CASE StartFlashing(o, cache, line)
    BY <1>8, <1>15, <2>2 DEF Flash
  <2> QED
    BY <1>15, <2>1, <2>2 DEF Flash
<1> QED
  BY <1>7, <1>9, <1>10, <1>11, <1>12, <1>13, <1>14, <1>15 DEF Start

(************************ the requests under way ***************************)
(* The commands of one operation are for different fields, and it does not *)
(* ask anything at the same time.                                          *)
LEMMA LiveCommands ==
    ASSUME BaseInv, NEW o \in Ops
    PROVE  /\ \A r \in Live(o) : /\ r \in Requests /\ Operation(r) = o
                                 /\ cmd[r] \in Settings /\ cmd[r].field \in Fields
                                 /\ pc[o] = "call" /\ cmd[<<o, 1>>] # Query
           /\ \A q, r \in Live(o) : q # r => cmd[q].field # cmd[r].field
<1>1. Shape(o) /\ cmd \in [Requests -> Settings \cup {Query}]
  BY DEF BaseInv, StateTypes, RequestTypes
<1>2. /\ Own(o) = {<<o, 1>>, <<o, 2>>} /\ Own(o) \subseteq Requests
      /\ \A r \in Own(o) : Operation(r) = o
  BY OwnRequests
<1>3. \A r \in Live(o) : cmd[r] \in Settings /\ cmd[r].field \in Fields
  <2>1. \A r \in Live(o) : cmd[r] \in Settings
    BY <1>1, <1>2 DEF Live
  <2> QED
    BY <2>1, SettingType
<1>4. <<o, 2>> \in Live(o) => name[o] = "scene"
  BY <1>1 DEF Live, Shape
<1>5. name[o] = "scene" => /\ cmd[<<o, 1>>].field = "brightness" /\ cmd[<<o, 2>>].field = "color"
                           /\ cmd[<<o, 1>>] # Query
  BY <1>1, QueryIsNoSetting DEF Shape
<1>6. \A r \in Live(o) : pc[o] = "call" /\ cmd[<<o, 1>>] # Query
  BY <1>1, <1>2, <1>4, <1>5 DEF Live, Shape
<1>7. \A q, r \in Live(o) : q # r => <<o, 2>> \in Live(o)
  BY <1>2 DEF Live
<1>8. \A q, r \in Live(o) : q # r => cmd[q].field # cmd[r].field
  BY <1>2, <1>4, <1>5, <1>7 DEF Live
<1>9. \A r \in Live(o) : r \in Requests /\ Operation(r) = o
  BY <1>2 DEF Live
<1> QED
  BY <1>3, <1>6, <1>8, <1>9

(* A request of an operation is under way.                                 *)
LEMMA RequestOf ==
    ASSUME BaseInv, NEW r \in Requests, req[r] # "none"
    PROVE  \E o \in Ops : /\ o = Operation(r) /\ r \in Own(o) /\ pc[o] = "call"
                          /\ cmd[r] # Query => r \in Live(o)
<1>1. PICK o \in Ops : o = Operation(r) /\ r \in Own(o)
  BY OwnRequests DEF Requests, Operation
<1>2. Shape(o) /\ (r = <<o, 1>> \/ r = <<o, 2>>)
  BY <1>1, OwnRequests DEF BaseInv
<1>3. pc[o] = "call"
  BY <1>2 DEF Shape
<1> QED
  BY <1>1, <1>3 DEF Live

(* The cache and the flash are left alone.                                 *)
LEMMA FlashUndisturbed ==
    ASSUME NEW o \in Ops, OneInv(o), UNCHANGED <<cache, script, original, result>>
    PROVE  Flashing(o)' => FlashKeeps(o)'
BY DEF OneInv, Flashing, FlashKeeps, Faithful, Settings, Values, Set, Fields

(* A request goes on, and the lamp does nothing.                           *)
LEMMA MoveSerial ==
    ASSUME SerialInv, BaseInv', NEW r \in Requests, NEW stage, req[r] # "none",
           stage \notin {"none", "served"}, req' = [req EXCEPT ![r] = stage], DoubtGrows,
           UNCHANGED <<cache, seen, cmd, pc, before, script, original, result>>,
           stage \in Executed => req[r] \in Executed,
           stage \notin Executed /\ req[r] \in Executed /\ cmd[r] # Query
             => cmd[r].field \in Doubted'
    PROVE  SerialInv'
<1>1. BaseInv /\ \A o \in Ops : OneInv(o)
  BY DEF SerialInv
<1>2. PICK o \in Ops : /\ o = Operation(r) /\ r \in Own(o) /\ pc[o] = "call"
                       /\ cmd[r] # Query => r \in Live(o)
  BY <1>1, RequestOf
<1>3. Within(o)
  BY <1>1, <1>2 DEF OneInv
<1>4. StepOf(o)
  BY <1>2, OthersIdle
<1>5. req'[r] = stage /\ \A q \in Requests \ {r} : req'[q] = req[q]
  BY <1>1 DEF BaseInv, StateTypes, RequestTypes
<1>6. Own(o) = {<<o, 1>>, <<o, 2>>} /\ Own(o) \subseteq Requests
  BY OwnRequests
<1>7. Live(o)' = Live(o)
  BY <1>5, <1>6 DEF Live
<1>8. \A q \in Live(o) : cmd[q].field \in Fields
  BY <1>1, LiveCommands
<1>9. \A q \in Live(o) : Follows(o, q)'
  <2> SUFFICES ASSUME NEW q \in Live(o) PROVE Follows(o, q)'
    OBVIOUS
  <2> DEFINE f == cmd[q].field
             v == cmd[q].value
  <2>1. cache[f] = v /\ (f \notin Doubted => IF req[q] \in Executed THEN lamp[f] = v
                                             ELSE before[o][f] \in {Absent, lamp[f]})
    BY <1>3 DEF Within, Follows
  <2>2. f \in Fields /\ q \in Requests /\ q \in Own(o) /\ cmd[q] # Query
    BY <1>6, <1>8 DEF Live
  <2>3. f \notin Doubted' => f \notin Doubted /\ lamp'[f] = lamp[f]
    BY <2>2 DEF DoubtGrows
  <2>4. f \notin Doubted' => (req'[q] \in Executed <=> req[q] \in Executed)
                             \/ (req[q] \notin Executed)
    <3>1. CASE q = r
      BY <3>1, <2>2
    <3>2. CASE q # r
      BY <1>5, <2>2, <3>2
    <3> QED
      BY <3>1, <3>2
  <2>5. req'[q] \in Executed => req[q] \in Executed
    BY <1>5, <2>2
  <2> QED
    BY <2>1, <2>3, <2>4, <2>5 DEF Follows
<1>10. \A f \in Fields \ Doubted' :
         (\A q \in Live(o) : cmd[q].field # f) => cache[f] \in {Absent, lamp'[f]}
  BY <1>3 DEF Within, DoubtGrows
<1>11. cmd[<<o, 1>>] = Query => before[o] = cache /\ req'[<<o, 1>>] # "served"
  <2>1. ASSUME cmd[<<o, 1>>] = Query
        PROVE  r = <<o, 1>>
    <3>1. r # <<o, 2>>
      <4>1. CASE r = <<o, 2>>
        <5>1. Shape(o)
          BY <1>1 DEF BaseInv
        <5> QED
          BY <1>2, <2>1, <4>1, <5>1, QueryIsNoSetting DEF Shape
      <4> QED
        BY <4>1
    <3> QED
      BY <1>2, <1>6, <3>1
  <2> QED
    BY <1>3, <1>5, <2>1 DEF Within
<1>12. Heard(before[o])'
  BY <1>3 DEF Within, Heard
<1>13. Within(o)'
  BY <1>7, <1>9, <1>10, <1>11, <1>12 DEF Within
<1>14. Flashing(o)' => FlashKeeps(o)'
  BY <1>1, FlashUndisturbed
<1> QED
  BY <1>2, <1>4, <1>13, <1>14, SerialTogether

(* The lamp answers a query, or executes a command.                        *)
LEMMA ServeSerial ==
    ASSUME SerialInv, BaseInv', NEW r \in Requests, LampServes(r)
    PROVE  SerialInv'
<1>1. BaseInv /\ \A o \in Ops : OneInv(o)
  BY DEF SerialInv
<1>2. /\ req[r] = "queued" /\ req' = [req EXCEPT ![r] = "served"]
      /\ UNCHANGED <<cache, seen, late, line, cmd, pc, result, name, before, script, original>>
  BY DEF LampServes, locals
<1>3. PICK o \in Ops : /\ o = Operation(r) /\ r \in Own(o) /\ pc[o] = "call"
                       /\ cmd[r] # Query => r \in Live(o)
  BY <1>1, <1>2, RequestOf
<1>4. Within(o) /\ StepOf(o) /\ (Flashing(o)' => FlashKeeps(o)')
  BY <1>1, <1>2, <1>3, OthersIdle, FlashUndisturbed DEF OneInv
<1>5. /\ req \in [Requests -> Stages] /\ lamp \in Known /\ reply \in [Ops -> Known]
  BY <1>1 DEF BaseInv, StateTypes, ValueTypes, RequestTypes
<1>6. req'[r] = "served" /\ \A q \in Requests \ {r} : req'[q] = req[q]
  BY <1>2, <1>5
<1>7. Own(o) = {<<o, 1>>, <<o, 2>>} /\ Own(o) \subseteq Requests
  BY OwnRequests
<1>8. Live(o)' = Live(o)
  BY <1>2, <1>6, <1>7 DEF Live
<1>9. Heard(before[o])'
  BY <1>2, <1>4 DEF Within, Heard
<1>10. CASE /\ cmd[r] = Query
            /\ \E s \in {lamp, Empty} :
                 /\ name[Operation(r)] = "ask" => s = Empty
                 /\ reply' = [reply EXCEPT ![Operation(r)] = s]
            /\ UNCHANGED <<lamp, unsure>>
  <2>1. PICK s \in {lamp, Empty} : reply'[o] = s
    BY <1>3, <1>5, <1>10
  <2>2. Doubted' = Doubted /\ lamp' = lamp
    BY <1>2, <1>10, NothingNew
  <2>3. Agrees(reply[o])'
    BY <2>1, <2>2 DEF Agrees, Empty
  <2>4. Live(o) = {}
    <3>1. Shape(o)
      BY <1>1 DEF BaseInv
    <3>2. name[o] # "scene"
      BY <1>3, <1>7, <1>10, <3>1, QueryIsNoSetting DEF Shape
    <3>3. r = <<o, 1>> /\ req[<<o, 2>>] = "none"
      BY <1>2, <1>3, <1>7, <3>1, <3>2 DEF Shape
    <3> QED
      BY <1>7, <1>10, <3>3 DEF Live
  <2>5. \A f \in Fields \ Doubted' : cache'[f] \in {Absent, lamp'[f]}
    BY <1>2, <1>4, <2>2, <2>4 DEF Within
  <2>6. cmd'[<<o, 1>>] = Query => before'[o] = cache'
    BY <1>2, <1>4 DEF Within
  <2>7. Within(o)'
    BY <1>8, <1>9, <2>3, <2>4, <2>5, <2>6 DEF Within
  <2> QED
    BY <1>2, <1>3, <1>4, <2>7, SerialTogether
<1>11. CASE /\ cmd[r] # Query
            /\ lamp' = [lamp EXCEPT ![cmd[r].field] = cmd[r].value]
            /\ unsure' = unsure \ {cmd[r].field}
            /\ UNCHANGED reply
  <2> DEFINE g == cmd[r].field
             w == cmd[r].value
  <2>1. /\ r \in Live(o) /\ g \in Fields /\ cmd[<<o, 1>>] # Query
        /\ \A q \in Live(o) : q # r => cmd[q].field # g
        /\ \A q \in Live(o) : cmd[q].field \in Fields
    BY <1>1, <1>3, <1>11, LiveCommands
  <2>2. lamp'[g] = w /\ \A f \in Fields : f # g => lamp'[f] = lamp[f]
    BY <1>5, <1>11, <2>1 DEF Known, States
  <2>3. \A f : f # g /\ f \notin Doubted' => f \notin Doubted
    BY <1>2, <1>11 DEF Doubted
  <2>4. \A q \in Live(o) : Follows(o, q)'
    <3> SUFFICES ASSUME NEW q \in Live(o) PROVE Follows(o, q)'
      OBVIOUS
    <3>1. Follows(o, q) /\ q \in Requests
      BY <1>4, <1>7 DEF Within, Live
    <3>2. CASE q = r
      BY <1>2, <1>6, <2>2, <3>1, <3>2 DEF Follows, Executed
    <3>3. CASE q # r
      <4>1. cmd[q].field # g /\ cmd[q].field \in Fields /\ req'[q] = req[q]
        BY <1>6, <2>1, <3>1, <3>3
      <4> QED
        BY <1>2, <2>2, <2>3, <3>1, <4>1 DEF Follows
    <3> QED
      BY <3>2, <3>3
  <2>5. \A f \in Fields \ Doubted' :
          (\A q \in Live(o) : cmd[q].field # f) => cache[f] \in {Absent, lamp'[f]}
    <3> SUFFICES ASSUME NEW f \in Fields \ Doubted', \A q \in Live(o) : cmd[q].field # f
                 PROVE  cache[f] \in {Absent, lamp'[f]}
      OBVIOUS
    <3>1. f # g
      BY <2>1
    <3> QED
      BY <1>4, <2>2, <2>3, <3>1 DEF Within
  <2>6. Within(o)'
    BY <1>2, <1>8, <1>9, <2>1, <2>4, <2>5 DEF Within
  <2> QED
    BY <1>2, <1>3, <1>4, <2>6, SerialTogether
<1> QED
  BY <1>10, <1>11 DEF LampServes

(* An attempt given up puts its field in doubt, if the lamp executed it.   *)
LEMMA DoubtLeft ==
    /\ \A w : MayStillRun(w) => late \subseteq late'
    /\ \A r : GivenUp(r) /\ lamp' = lamp =>
                /\ DoubtGrows
                /\ req[r] = "served" /\ cmd[r].field \in Fields => cmd[r].field \in Doubted'
                /\ req[r] \in {"queued", "served"}
<1>1. \A w : MayStillRun(w) => late \subseteq late'
  BY DEF MayStillRun
<1>2. ASSUME NEW r, GivenUp(r), lamp' = lamp
      PROVE  /\ DoubtGrows
             /\ req[r] = "served" /\ cmd[r].field \in Fields => cmd[r].field \in Doubted'
             /\ req[r] \in {"queued", "served"}
  <2> DEFINE f == {cmd[r].field} \cap Fields
             w == {cmd[r]}
  <2>1. CASE req[r] = "served" /\ unsure' = unsure \cup f /\ late' = late
    BY <1>2, <2>1 DEF DoubtGrows, Doubted
  <2>2. CASE req[r] = "queued" /\ MayStillRun(w) /\ unsure' = unsure
    <3>1. late \subseteq late'
      BY <1>1, <2>2
    <3> QED
      BY <1>2, <2>2, <3>1 DEF DoubtGrows, Doubted
  <2> QED
    BY <1>2, <2>1, <2>2 DEF GivenUp
<1> QED
  BY <1>1, <1>2

LEMMA FieldInDoubt ==
    ASSUME BaseInv, NEW r \in Requests, cmd[r] # Query
    PROVE  cmd[r].field \in Fields
<1>1. cmd[r] \in Settings
  BY DEF BaseInv, StateTypes, RequestTypes
<1> QED
  BY <1>1, SettingType

LEMMA RequestSerial ==
    ASSUME SerialInv, BaseInv', NEW r \in Requests,
           \/ TaskStarts(r) \/ TaskRefused(r) \/ BacksOff(r) \/ Retries(r)
           \/ /\ req[r] = "served" /\ TaskEnds(r, "ok") /\ UNCHANGED <<lamp, late, unsure>>
           \/ GivenUp(r) /\ TaskEnds(r, "error") /\ UNCHANGED lamp
    PROVE  SerialInv'
<1>1. UNCHANGED <<cache, seen, cmd, pc, before, script, original, result>>
  BY DEF TaskStarts, TaskRefused, BacksOff, Retries, TaskEnds, locals
<1>2. BaseInv
  BY DEF SerialInv
<1>3. CASE TaskStarts(r) \/ Retries(r)
  <2>1. /\ req[r] \in {"spawned", "backoff"} /\ req' = [req EXCEPT ![r] = "queued"]
        /\ UNCHANGED <<lamp, late, unsure>>
    BY <1>3 DEF TaskStarts, Retries
  <2>2. DoubtGrows
    BY <2>1, NothingNew
  <2> QED
    BY <1>1, <2>1, <2>2, MoveSerial DEF Executed
<1>4. CASE TaskRefused(r)
  <2>1. /\ req[r] = "spawned" /\ req' = [req EXCEPT ![r] = "error"]
        /\ UNCHANGED <<lamp, late, unsure>>
    BY <1>4 DEF TaskRefused
  <2>2. DoubtGrows
    BY <2>1, NothingNew
  <2> QED
    BY <1>1, <2>1, <2>2, MoveSerial DEF Executed
<1>5. CASE req[r] = "served" /\ TaskEnds(r, "ok") /\ UNCHANGED <<lamp, late, unsure>>
  <2>1. req' = [req EXCEPT ![r] = "ok"]
    BY <1>5 DEF TaskEnds
  <2>2. DoubtGrows
    BY <1>5, NothingNew
  <2> QED
    BY <1>1, <1>5, <2>1, <2>2, MoveSerial DEF Executed
<1>6. ASSUME NEW stage \in {"backoff", "error"}, GivenUp(r), UNCHANGED lamp,
             req' = [req EXCEPT ![r] = stage]
      PROVE  SerialInv'
  <2>1. /\ DoubtGrows /\ req[r] \in {"queued", "served"}
        /\ req[r] = "served" /\ cmd[r].field \in Fields => cmd[r].field \in Doubted'
    BY <1>6, DoubtLeft
  <2>2. cmd[r] # Query => cmd[r].field \in Fields
    BY <1>2, FieldInDoubt
  <2>3. stage \notin {"none", "served"} /\ stage \notin Executed
    BY DEF Executed
  <2>4. req[r] \in Executed /\ cmd[r] # Query => cmd[r].field \in Doubted'
    BY <2>1, <2>2 DEF Executed
  <2> QED
    BY <1>1, <1>6, <2>1, <2>3, <2>4, MoveSerial
<1>7. CASE BacksOff(r)
  BY <1>6, <1>7 DEF BacksOff
<1>8. CASE GivenUp(r) /\ TaskEnds(r, "error") /\ UNCHANGED lamp
  BY <1>6, <1>8 DEF TaskEnds
<1> QED
  BY <1>3, <1>4, <1>5, <1>7, <1>8

(************************** what comes back ********************************)
(* The cache is settled when every command under way was executed, or may  *)
(* have been; a rollback is, of the commands that were not.                *)
LEMMA CacheSettles ==
    ASSUME BaseInv, NEW o \in Ops, Within(o), DoubtGrows,
           \A r \in Live(o) : req[r] \in Executed \/ cmd[r].field \in Doubted'
    PROVE  Settles(cache)
<1> SUFFICES ASSUME NEW f \in Fields \ Doubted' PROVE cache[f] \in {Absent, lamp'[f]}
  BY DEF Settles
<1>1. f \notin Doubted /\ lamp'[f] = lamp[f]
  BY DEF DoubtGrows
<1>2. CASE \A r \in Live(o) : cmd[r].field # f
  BY <1>1, <1>2 DEF Within
<1>3. CASE \E r \in Live(o) : cmd[r].field = f
  <2>1. PICK r \in Live(o) : cmd[r].field = f
    BY <1>3
  <2>2. Follows(o, r) /\ req[r] \in Executed
    BY <2>1 DEF Within
  <2> QED
    BY <1>1, <2>1, <2>2 DEF Follows
<1> QED
  BY <1>2, <1>3

LEMMA RollbackSettles ==
    ASSUME BaseInv, NEW o \in Ops, Within(o), DoubtGrows, NEW F,
           \A r \in Live(o) : cmd[r].field \in Doubted' \/ (cmd[r].field \in F <=> req[r] \notin Executed),
           \A f \in F : \E r \in Live(o) : cmd[r].field = f
    PROVE  Settles(RolledBack(o, F))
<1> SUFFICES ASSUME NEW f \in Fields \ Doubted' PROVE RolledBack(o, F)[f] \in {Absent, lamp'[f]}
  BY DEF Settles
<1>1. f \notin Doubted /\ lamp'[f] = lamp[f]
  BY DEF DoubtGrows
<1>2. RolledBack(o, F)[f] = IF f \in F THEN before[o][f] ELSE cache[f]
  BY DEF RolledBack
<1>3. CASE \A r \in Live(o) : cmd[r].field # f
  BY <1>1, <1>2, <1>3 DEF Within
<1>4. CASE \E r \in Live(o) : cmd[r].field = f
  <2>1. PICK r \in Live(o) : cmd[r].field = f
    BY <1>4
  <2>2. Follows(o, r) /\ (f \in F <=> req[r] \notin Executed)
    BY <2>1 DEF Within
  <2> QED
    BY <1>1, <1>2, <2>1, <2>2 DEF Follows
<1> QED
  BY <1>3, <1>4

(* flash() restores from a settled state.                                  *)
LEMMA RestoreSerial ==
    ASSUME SerialInv, BaseInv', NEW o \in Ops, pc[o] \notin {"new", "done"},
           NEW how \in {"error", "cancelled"}, NEW s \in Known, NEW ln,
           FreeOf(o, ln), blinks[o] > 0, StartRestoring(o, s, ln), name' = name,
           result' = [result EXCEPT ![o] = how], Settles(s), Hears(s)
    PROVE  SerialInv'
<1>1. BaseInv /\ StateTypes /\ Shape(o) /\ req[<<o, 2>>] = "none"
  BY OneRequest DEF SerialInv, BaseInv
<1>2. PICK c \in Settings : Issue(o, c, s, ln)
  BY <1>1, RestoreBase
<1>3. Within(o)' /\ pc'[o] = "call" /\ \A d \in Ops \ {o} : pc'[d] = pc[d]
  BY <1>1, <1>2, IssueWithin
<1>4. StepOf(o)
  BY <1>3, OthersIdle
<1>5. ~Flashing(o)'
  BY <1>1 DEF Flashing, StateTypes, LocalTypes
<1> QED
  BY <1>3, <1>4, <1>5, SerialTogether

(* Or the operation returns.                                               *)
LEMMA ReturnSerial ==
    ASSUME SerialInv, BaseInv', NEW o \in Ops, pc[o] \notin {"new", "done"},
           NEW how, NEW ln, Return(o, how, ln), Settles(cache'), Hears(cache')
    PROVE  SerialInv'
<1>1. BaseInv
  BY DEF SerialInv
<1>2. \A d \in Ops \ {o} : pc'[d] = pc[d]
  BY <1>1 DEF Return, BaseInv, StateTypes, RequestTypes
<1>3. StepOf(o)
  BY <1>2, OthersIdle
<1> QED
  BY <1>1, <1>3, ReturnSettled

LEMMA RaisedSerial ==
    ASSUME SerialInv, BaseInv', NEW o \in Ops, pc[o] = "call",
           NEW how \in {"error", "cancelled"}, NEW s \in Known, NEW ln,
           FreeOf(o, ln), Raised(o, how, s, ln), Settles(s)
    PROVE  SerialInv'
<1>1. Heard(before[o])
  BY DEF SerialInv, OneInv, Within
<1>2. Hears(s)
  <2> DEFINE old == before[o]
  <2>1. Emit(old, s) /\ seen \in {Deaf, Silent, old}
    BY <1>1 DEF Raised, Heard
  <2> HIDE DEF old
  <2> QED
    BY <2>1, EmitHears
<1>3. CASE cache' = s /\ Return(o, how, ln)
  <2>1. Settles(cache') /\ Hears(cache')
    BY <1>2, <1>3 DEF Settles, Hears
  <2> QED
    BY <1>3, <2>1, ReturnSerial
<1>4. CASE /\ blinks[o] > 0 /\ StartRestoring(o, s, ln)
           /\ result' = [result EXCEPT ![o] = how]
           /\ UNCHANGED <<name, original, found>>
  BY <1>2, <1>4, RestoreSerial
<1> QED
  BY <1>3, <1>4 DEF Raised

(* What holds of an operation whose only request is with the lamp.         *)
LEMMA OneAtLamp ==
    ASSUME SerialInv, NEW r \in Requests, AtLamp(r), req[r] # "none",
           name[Operation(r)] # "scene" \/ cmd[r] = Query
    PROVE  \E o \in Ops : /\ o = Operation(r) /\ r = <<o, 1>> /\ req[<<o, 2>>] = "none"
                          /\ pc[o] = "call" /\ FreeOf(o, Freed) /\ name[o] # "scene"
                          /\ Within(o) /\ Live(o) = IF cmd[r] = Query THEN {} ELSE {r}
<1>1. BaseInv /\ \A o \in Ops : OneInv(o)
  BY DEF SerialInv
<1>2. PICK o \in Ops : o = Operation(r)
  BY DEF Requests, Operation
<1>3. /\ r = <<o, 1>> /\ req[<<o, 2>>] = "none" /\ pc[o] = "call" /\ FreeOf(o, Freed)
      /\ name[o] # "scene"
  BY <1>1, <1>2, FreeOne
<1>4. Live(o) = IF cmd[r] = Query THEN {} ELSE {r}
  BY <1>3, OwnRequests DEF Live
<1> QED
  BY <1>1, <1>2, <1>3, <1>4 DEF OneInv

LEMMA AnsweredSerial ==
    ASSUME SerialInv, BaseInv', NEW r \in Requests, AtLamp(r), req[r] = "served",
           Answered(Operation(r)), UNCHANGED <<lamp, late, unsure>>
    PROVE  SerialInv'
<1>1. PICK o \in Ops : /\ o = Operation(r) /\ r = <<o, 1>>
                       /\ pc[o] = "call" /\ name[o] # "scene"
                       /\ Within(o) /\ Live(o) = IF cmd[r] = Query THEN {} ELSE {r}
  BY OneAtLamp DEF Answered
<1>2. BaseInv /\ DoubtGrows
  BY NothingNew DEF SerialInv
<1>3. Settles(cache)
  BY <1>1, <1>2, CacheSettles DEF Executed
<1>4. Hears(cache) /\ cache' = cache
  <2> DEFINE new == cache
             old == before[o]
  <2>1. Emit(old, new) /\ seen \in {Deaf, Silent, old} /\ cache' = cache
    BY <1>1 DEF Answered, Within, Heard
  <2> HIDE DEF new, old
  <2>2. Hears(new)
    BY <2>1, EmitHears
  <2> QED
    BY <2>1, <2>2 DEF new
<1>5. Settles(cache') /\ Hears(cache')
  BY <1>3, <1>4 DEF Settles, Hears
<1>6. CASE Return(o, "ok", Freed)
  <2> DEFINE ln == Freed
  <2>1. Return(o, "ok", ln)
    BY <1>6
  <2> HIDE DEF ln
  <2> QED
    BY <1>1, <1>5, <2>1, ReturnSerial
<1>7. CASE /\ pc' = [pc EXCEPT ![o] = "pause"]
           /\ UNCHANGED <<cmd, reply, result, locals>>
  <2>1. pc'[o] = "pause" /\ \A d \in Ops \ {o} : pc'[d] = pc[d]
    BY <1>2, <1>7 DEF BaseInv, StateTypes, RequestTypes
  <2>2. StepOf(o)
    BY <1>1, <2>1, OthersIdle
  <2>3. Flashing(o)' => FlashKeeps(o)'
    BY <1>4, <1>7, FlashUndisturbed DEF SerialInv, locals
  <2> QED
    BY <1>5, <2>1, <2>2, <2>3, SerialTogether
<1> QED
  BY <1>1, <1>6, <1>7 DEF Answered

LEMMA ReportedSerial ==
    ASSUME SerialInv, BaseInv', NEW r \in Requests, AtLamp(r), req[r] = "served",
           Reported(Operation(r)), UNCHANGED <<lamp, late, unsure>>
    PROVE  SerialInv'
<1>1. /\ Operation(r) \in Ops /\ name[Operation(r)] \in {"ask", "get", "toggle", "flash"}
      /\ cmd[<<Operation(r), 1>>] = Query
  BY DEF Reported, Requests, Operation
<1>2. PICK o \in Ops : /\ o = Operation(r) /\ r = <<o, 1>> /\ req[<<o, 2>>] = "none"
                       /\ pc[o] = "call" /\ FreeOf(o, Freed)
                       /\ Within(o) /\ Live(o) = IF cmd[r] = Query THEN {} ELSE {r}
  BY <1>1, OneAtLamp
<1>3. BaseInv /\ DoubtGrows
  BY NothingNew DEF SerialInv
<1> DEFINE s == reply[o]
           ln == Freed
           old == before[o]
<1>4. /\ IF name[o] = "ask" THEN UNCHANGED seen ELSE Emit(old, s)
      /\ \/ name[o] = "ask" /\ UNCHANGED cache /\ Return(o, "ok", ln)
         \/ name[o] = "get" /\ cache' = s /\ Return(o, "ok", ln)
         \/ /\ name[o] = "toggle" /\ Issue(o, Flip(s), s, ln)
            /\ UNCHANGED <<name, script, blinks, result, original, found>>
         \/ /\ name[o] = "flash" /\ StartFlashing(o, s, ln)
            /\ UNCHANGED <<name, result, found>>
  BY <1>2 DEF Reported
<1>5. /\ FreeOf(o, ln) /\ old = cache /\ seen \in {Deaf, Silent, old}
      /\ \A f \in Fields \ Doubted : s[f] \in {Absent, lamp[f]}
  BY <1>1, <1>2 DEF Within, Heard, Agrees
<1>6. Settles(cache)
  BY <1>1, <1>2, <1>3, CacheSettles
<1>7. s \in Known
  BY <1>3 DEF BaseInv, StateTypes, RequestTypes
<1> HIDE DEF s, ln, old
<1>8. Settles(s)
  BY <1>3, <1>5, SettlesStill
<1>9. name[o] # "ask" => Hears(s)
  BY <1>4, <1>5, EmitHears
<1>10. CASE name[o] = "ask" /\ UNCHANGED cache /\ Return(o, "ok", ln)
  <2>1. Settles(cache') /\ Hears(cache')
    BY <1>4, <1>5, <1>6, <1>10 DEF Settles, Hears
  <2> QED
    BY <1>2, <1>10, <2>1, ReturnSerial
<1>11. CASE name[o] = "get" /\ cache' = s /\ Return(o, "ok", ln)
  <2>1. Settles(cache') /\ Hears(cache')
    BY <1>8, <1>9, <1>11 DEF Settles, Hears
  <2> QED
    BY <1>2, <1>11, <2>1, ReturnSerial
<1>12. CASE /\ name[o] = "toggle" /\ Issue(o, Flip(s), s, ln)
            /\ UNCHANGED <<name, script, blinks, result, original, found>>
  <2> DEFINE c == Flip(s)
  <2>1. c \in Settings /\ Issue(o, c, s, ln)
    BY <1>12, FlipType
  <2> HIDE DEF c
  <2>2. Within(o)' /\ pc'[o] = "call" /\ \A d \in Ops \ {o} : pc'[d] = pc[d]
    BY <1>2, <1>3, <1>5, <1>7, <1>8, <1>9, <1>12, <2>1, IssueWithin
  <2>3. StepOf(o)
    BY <1>2, <2>2, OthersIdle
  <2>4. ~Flashing(o)'
    <3>1. Shape(o)
      BY <1>3 DEF BaseInv
    <3>2. script'[o] = <<>>
      BY <1>12, <3>1 DEF Shape
    <3> QED
      BY <3>2 DEF Flashing
  <2> QED
    BY <2>2, <2>3, <2>4, SerialTogether
<1>13. CASE name[o] = "flash" /\ StartFlashing(o, s, ln) /\ UNCHANGED <<name, result, found>>
  <2>1. name'[o] = "flash"
    BY <1>13
  <2>2. /\ Within(o)' /\ FlashKeeps(o)'
        /\ pc'[o] = "call" /\ \A d \in Ops \ {o} : pc'[d] = pc[d]
    BY <1>2, <1>3, <1>5, <1>7, <1>8, <1>9, <1>13, <2>1, FlashWithin
  <2>3. StepOf(o)
    BY <1>2, <2>2, OthersIdle
  <2> QED
    BY <2>2, <2>3, SerialTogether
<1> QED
  BY <1>4, <1>10, <1>11, <1>12, <1>13

LEMMA SucceedsSerial ==
    ASSUME SerialInv, BaseInv', NEW r \in Requests, Succeeds(r)
    PROVE  SerialInv'
<1>1. AtLamp(r) /\ req[r] = "served" /\ UNCHANGED <<lamp, late, unsure>>
  BY DEF Succeeds
<1>2. CASE TaskEnds(r, "ok")
  BY <1>1, <1>2, RequestSerial
<1>3. CASE Answered(Operation(r))
  BY <1>1, <1>3, AnsweredSerial
<1>4. CASE Reported(Operation(r))
  BY <1>1, <1>4, ReportedSerial
<1> QED
  BY <1>2, <1>3, <1>4 DEF Succeeds

LEMMA FailsSerial ==
    ASSUME SerialInv, BaseInv', NEW r \in Requests, Fails(r)
    PROVE  SerialInv'
<1>1. AtLamp(r) /\ GivenUp(r) /\ UNCHANGED lamp
  BY DEF Fails
<1>2. BaseInv
  BY DEF SerialInv
<1>3. /\ DoubtGrows /\ req[r] \in {"queued", "served"}
      /\ req[r] = "served" /\ cmd[r].field \in Fields => cmd[r].field \in Doubted'
  BY <1>1, DoubtLeft
<1>4. req[r] # "none" /\ (req[r] \in Executed => req[r] = "served")
  BY <1>3 DEF Executed
<1>5. CASE TaskEnds(r, "error")
  BY <1>1, <1>5, RequestSerial
<1>6. CASE /\ name[Operation(r)] # "scene" /\ cmd[r] # Query
           /\ Raised(Operation(r), "error", RolledBack(Operation(r), {cmd[r].field}), Freed)
  <2>1. PICK o \in Ops : /\ o = Operation(r) /\ pc[o] = "call" /\ FreeOf(o, Freed)
                         /\ Within(o) /\ Live(o) = {r}
    BY <1>1, <1>4, <1>6, OneAtLamp
  <2> DEFINE F == {cmd[r].field}
             s == RolledBack(o, F)
             ln == Freed
  <2>2. Raised(o, "error", s, ln) /\ FreeOf(o, ln)
    BY <1>6, <2>1
  <2>3. cmd[r].field \in Fields
    BY <1>2, <1>6, FieldInDoubt
  <2>4. /\ \A q \in Live(o) : cmd[q].field \in Doubted' \/ (cmd[q].field \in F <=> req[q] \notin Executed)
        /\ \A f \in F : \E q \in Live(o) : cmd[q].field = f
    BY <1>3, <1>4, <2>1, <2>3
  <2> HIDE DEF F
  <2>5. s \in Known /\ Settles(s)
    BY <1>2, <1>3, <2>1, <2>4, RollbackType, RollbackSettles
  <2> HIDE DEF s, ln
  <2> QED
    BY <2>1, <2>2, <2>5, RaisedSerial
<1>7. CASE cmd[r] = Query /\ Return(Operation(r), "error", Freed) /\ UNCHANGED <<cache, seen>>
  <2>1. PICK o \in Ops : /\ o = Operation(r) /\ pc[o] = "call" /\ r = <<o, 1>>
                         /\ Within(o) /\ Live(o) = {}
    BY <1>1, <1>4, <1>7, OneAtLamp
  <2>2. Settles(cache)
    BY <1>2, <1>3, <2>1, CacheSettles
  <2>3. Settles(cache') /\ Hears(cache')
    BY <1>7, <2>1, <2>2 DEF Settles, Hears, Within, Heard
  <2> DEFINE ln == Freed
  <2>4. Return(o, "error", ln)
    BY <1>7, <2>1
  <2> HIDE DEF ln
  <2> QED
    BY <2>1, <2>3, <2>4, ReturnSerial
<1> QED
  BY <1>5, <1>6, <1>7 DEF Fails

LEMMA SceneEndSerial ==
    ASSUME SerialInv, BaseInv', NEW o \in Ops, SceneEnds(o)
    PROVE  SerialInv'
<1> DEFINE F == {cmd[r].field : r \in {q \in Own(o) : req[q] = "error"}}
           s == RolledBack(o, F)
           how == IF F = {} THEN "ok" ELSE "error"
           ln == line
           old == before[o]
<1>1. /\ \A r \in Own(o) : req[r] \in {"ok", "error"}
      /\ cache' = s /\ Emit(old, s) /\ Return(o, how, ln) /\ UNCHANGED <<lamp, late, unsure>>
      /\ name[o] = "scene"
  BY DEF SceneEnds
<1>2. BaseInv /\ DoubtGrows /\ Shape(o)
  BY <1>1, NothingNew DEF SerialInv, BaseInv
<1>3. pc[o] = "call" /\ Within(o)
  BY <1>1, <1>2 DEF Shape, SerialInv, OneInv
<1>4. Live(o) = Own(o)
  BY <1>1, <1>2, QueryIsNoSetting, OwnRequests DEF Shape, Live
<1>5. /\ \A r \in Live(o) : cmd[r].field \in F <=> req[r] \notin Executed
      /\ \A f \in F : \E r \in Live(o) : cmd[r].field = f
  <2>1. \A q, r \in Live(o) : q # r => cmd[q].field # cmd[r].field
    BY <1>2, LiveCommands
  <2> QED
    BY <1>1, <1>4, <2>1 DEF Executed
<1> HIDE DEF F
<1>6. Settles(s)
  BY <1>2, <1>3, <1>5, RollbackSettles
<1>7. seen \in {Deaf, Silent, old}
  BY <1>3 DEF Within, Heard
<1> HIDE DEF s, how, ln, old
<1>8. Hears(s)
  BY <1>1, <1>7, EmitHears
<1>9. Settles(cache') /\ Hears(cache')
  BY <1>1, <1>6, <1>8 DEF Settles, Hears
<1> QED
  BY <1>1, <1>3, <1>9, ReturnSerial

(* Between two commands of a flash the cache is settled, and told.         *)
LEMMA PauseSettled ==
    ASSUME SerialInv, NEW o \in Ops, pc[o] = "pause"
    PROVE  Agrees(cache) /\ Heard(cache)
<1>1. \A d \in Ops : pc[d] # "call"
  BY DEF SerialInv, Alone, Running
<1> QED
  BY <1>1 DEF SerialInv, Between

LEMMA WakeSerial ==
    ASSUME SerialInv, BaseInv', NEW o \in Ops, WakesUp(o)
    PROVE  SerialInv'
<1>1. BaseInv /\ LocalTypes /\ Shape(o) /\ pc[o] = "pause" /\ OneInv(o) /\ ValueTypes
  BY DEF SerialInv, BaseInv, StateTypes, WakesUp
<1>2. /\ req[<<o, 1>>] = "none" /\ req[<<o, 2>>] = "none" /\ Len(script[o]) > 1
      /\ script[o] # <<>>
  BY <1>1, OneRequest DEF Shape
<1> DEFINE sc == script[o]
           c == sc[2]
           s == cache
           ln == line
           u == original[o]
           G == Faithful(u)
<1>3. /\ script' = [script EXCEPT ![o] = Tail(sc)] /\ Issue(o, c, s, ln)
      /\ UNCHANGED <<seen, lamp, late, name, result, original, unsure>>
  BY DEF WakesUp
<1>4. /\ sc \in Seq(Settings) /\ s \in Known /\ Len(sc) > 1 /\ c \in Settings
  <2>1. sc \in Seq(Settings) /\ s \in Known /\ Len(sc) > 1
    BY <1>1, <1>2 DEF LocalTypes, ValueTypes
  <2> HIDE DEF sc
  <2> QED
    BY <2>1, TailOfScript
<1>5. FreeOf(o, ln)
  <2>1. \A r \in Own(o) : req[r] \notin {"queued", "served"}
    BY <1>2, OwnRequests
  <2> QED
    BY <1>1, <2>1, FreeLine
<1>6. Settles(s) /\ Hears(s)
  <2>1. Agrees(cache) /\ Heard(cache) /\ DoubtGrows
    BY <1>1, <1>3, PauseSettled, NothingNew
  <2> QED
    BY <1>3, <2>1 DEF Agrees, Heard, Hears, DoubtGrows, Settles
<1>7. result[o] = "none" => FlashKeeps(o)
  BY <1>1, <1>2 DEF OneInv, Flashing
<1> HIDE DEF s, ln
<1>8. /\ Within(o)' /\ cache'[c.field] = c.value
      /\ \A f \in Fields : f # c.field => cache'[f] = s[f]
      /\ pc'[o] = "call" /\ \A d \in Ops \ {o} : pc'[d] = pc[d]
  <2> HIDE DEF c
  <2> QED
    BY <1>1, <1>2, <1>3, <1>4, <1>5, <1>6, IssueWithin
<1>9. StepOf(o)
  BY <1>1, <1>8, OthersIdle
<1>10. ASSUME result[o] = "none"
       PROVE  FlashKeeps(o)'
  <2>1. /\ \A f \in Fields \ {"on"} : s[f] = u[f]
        /\ sc \in Seq(G)
        /\ u["on"] # Absent => sc[Len(sc)] = Set("on", u["on"])
    BY <1>7, <1>10 DEF FlashKeeps, s
  <2> HIDE DEF sc, G
  <2>2. /\ Tail(sc) \in Seq(G) /\ Tail(sc)[Len(Tail(sc))] = sc[Len(sc)] /\ c \in G
    BY <1>4, <2>1, TailOfScript
  <2>3. original'[o] = u /\ script'[o] = Tail(sc)
    BY <1>1, <1>3 DEF LocalTypes
  <2>4. c.field # "on" => c.value = u[c.field]
    BY <2>2 DEF G, Faithful
  <2> HIDE DEF c, u
  <2>5. \A f \in Fields \ {"on"} : cache'[f] = original'[o][f]
    BY <1>8, <2>1, <2>3, <2>4
  <2>6. Faithful(original[o])' = G
    BY <2>3 DEF G, Faithful, Settings, Values, Set, Fields
  <2> QED
    BY <2>1, <2>2, <2>3, <2>5, <2>6 DEF FlashKeeps, Fields, Set
<1>11. Flashing(o)' => FlashKeeps(o)'
  BY <1>3, <1>10 DEF Flashing
<1> QED
  BY <1>8, <1>9, <1>11, SerialTogether

LEMMA CancelSerial ==
    ASSUME SerialInv, BaseInv', NEW o \in Ops, Cancel(o)
    PROVE  SerialInv'
<1> DEFINE places == {"spawned", "queued", "backoff", "error"}
           lost == {c.field : c \in {cmd[r] : r \in {q \in Own(o) : req[q] \in places}}}
           holding == {cmd[r] : r \in {q \in Own(o) : AtLamp(q) /\ req[q] = "queued"}}
           ln == RemoveFirst(RemoveFirst(line, <<o, 1>>), <<o, 2>>)
           s == cache
<1>1. /\ unsure' = unsure \cup (lost \cap Fields) /\ MayStillRun(holding) /\ UNCHANGED lamp
      /\ \/ pc[o] = "call" /\ cmd[<<o, 1>>] # Query /\ Raised(o, "cancelled", s, ln)
         \/ /\ pc[o] = "call" /\ cmd[<<o, 1>>] = Query
            /\ Return(o, "cancelled", ln)
            /\ UNCHANGED <<cache, seen>>
         \/ /\ pc[o] = "pause" /\ blinks[o] > 0
            /\ StartRestoring(o, s, ln)
            /\ result' = [result EXCEPT ![o] = "cancelled"]
            /\ UNCHANGED <<seen, name, original, found>>
         \/ /\ pc[o] = "pause" /\ blinks[o] = 0
            /\ Return(o, "cancelled", ln)
            /\ UNCHANGED <<cache, seen>>
  BY DEF Cancel
<1>2. BaseInv /\ FreeOf(o, ln) /\ s \in Known
  BY FreeOthers DEF SerialInv, BaseInv, StateTypes, ValueTypes
<1>3. \A r \in Live(o) : req[r] \in places => cmd[r].field \in lost \cap Fields
  <2>1. \A r \in Live(o) : r \in Own(o) /\ cmd[r].field \in Fields
    BY <1>2, LiveCommands DEF Live
  <2> QED
    BY <2>1
<1>4. \A r \in Live(o) : req[r] \in Executed \/ req[r] \in places
  <2>1. \A r \in Live(o) : req[r] \in Stages \ {"none"}
    BY <1>2, LiveCommands DEF Live, BaseInv, StateTypes, RequestTypes
  <2> QED
    BY <2>1 DEF Stages, Executed
<1> HIDE DEF places, lost, holding, ln
<1>5. DoubtGrows /\ lost \cap Fields \subseteq Doubted'
  <2>1. late \subseteq late'
    BY <1>1, DoubtLeft
  <2> QED
    BY <1>1, <2>1 DEF DoubtGrows, Doubted
<1>6. \A r \in Live(o) : req[r] \in Executed \/ cmd[r].field \in Doubted'
  BY <1>3, <1>4, <1>5
<1>7. Settles(cache) /\ pc[o] \in {"call", "pause"}
  <2>1. CASE pc[o] = "call"
    <3>1. Within(o)
      BY <2>1 DEF SerialInv, OneInv
    <3> QED
      BY <1>2, <1>5, <1>6, <2>1, <3>1, CacheSettles
  <2>2. CASE pc[o] = "pause"
    <3>1. Agrees(cache)
      BY <2>2, PauseSettled
    <3> QED
      BY <1>5, <2>2, <3>1 DEF Agrees, DoubtGrows, Settles
  <2> QED
    BY <1>1, <2>1, <2>2
<1>8. Settles(s)
  BY <1>7
<1>9. CASE pc[o] = "call" /\ cmd[<<o, 1>>] # Query /\ Raised(o, "cancelled", s, ln)
  <2> HIDE DEF s
  <2> QED
    BY <1>2, <1>8, <1>9, RaisedSerial
<1>10. CASE /\ pc[o] = "call" /\ cmd[<<o, 1>>] = Query
            /\ Return(o, "cancelled", ln)
            /\ UNCHANGED <<cache, seen>>
  <2>1. Heard(before[o]) /\ before[o] = cache
    BY <1>10 DEF SerialInv, OneInv, Within
  <2>2. Settles(cache') /\ Hears(cache')
    BY <1>7, <1>10, <2>1 DEF Settles, Hears, Heard
  <2> QED
    BY <1>10, <2>2, ReturnSerial
<1>11. CASE pc[o] = "pause"
  <2>1. Heard(cache)
    BY <1>11, PauseSettled
  <2>2. CASE /\ blinks[o] > 0
             /\ StartRestoring(o, s, ln)
             /\ result' = [result EXCEPT ![o] = "cancelled"]
             /\ UNCHANGED <<seen, name, original, found>>
    <3>1. Hears(s) /\ name' = name /\ pc[o] \notin {"new", "done"}
      BY <1>11, <2>1, <2>2 DEF Heard, Hears
    <3> HIDE DEF s
    <3> QED
      BY <1>2, <1>8, <2>2, <3>1, RestoreSerial
  <2>3. CASE Return(o, "cancelled", ln) /\ UNCHANGED <<cache, seen>>
    <3>1. Settles(cache') /\ Hears(cache')
      BY <1>7, <2>1, <2>3 DEF Settles, Hears, Heard
    <3> QED
      BY <1>11, <2>3, <3>1, ReturnSerial
  <2> QED
    BY <1>1, <1>11, <2>2, <2>3
<1> QED
  BY <1>1, <1>9, <1>10, <1>11

(* A command given up earlier runs, a listener comes or goes, or nothing   *)
(* happens.                                                                *)
LEMMA OutsideSerial ==
    ASSUME SerialInv, BaseInv',
           \/ \E c \in late : LateRuns(c)
           \/ \E w \in {Deaf, Silent} : Listen(w)
           \/ UNCHANGED vars
    PROVE  SerialInv'
<1>1. UNCHANGED <<cache, req, cmd, reply, pc, before, script, original, result>>
  BY DEF LateRuns, Listen, vars, locals
<1>2. seen' = seen \/ seen' \in {Deaf, Silent}
  BY DEF LateRuns, Listen, vars
<1>3. DoubtGrows
  <2>1. ASSUME NEW c \in late, LateRuns(c)
        PROVE  DoubtGrows
    <3>1. Doubted \subseteq Doubted' /\ c.field \in Doubted'
      BY <2>1 DEF LateRuns, Doubted
    <3>2. lamp \in Known
      BY DEF SerialInv, BaseInv, StateTypes, ValueTypes
    <3>3. \A f \in Fields : f # c.field => lamp'[f] = lamp[f]
      BY <2>1, <3>2 DEF LateRuns, Known, States
    <3> QED
      BY <3>1, <3>3 DEF DoubtGrows
  <2>2. CASE (\E w \in {Deaf, Silent} : Listen(w)) \/ UNCHANGED vars
    <3>1. UNCHANGED <<lamp, late, unsure>>
      BY <2>2 DEF Listen, vars
    <3> QED
      BY <3>1, NothingNew
  <2> QED
    BY <2>1, <2>2
<1>4. BaseInv /\ Alone' /\ \A o \in Ops : OneInv(o)
  BY <1>1 DEF SerialInv, Alone, Running
<1>5. Between'
  BY <1>1, <1>2, <1>3 DEF SerialInv, Between, Agrees, Heard, DoubtGrows
<1>6. ASSUME NEW o \in Ops
      PROVE  OneInv(o)'
  <2>1. Flashing(o)' => FlashKeeps(o)'
    BY <1>1, <1>4, FlashUndisturbed
  <2>2. ASSUME Within(o)
        PROVE  Within(o)'
    <3>1. Heard(before[o])'
      BY <1>1, <1>2, <2>2 DEF Within, Heard
    <3>2. Live(o)' = Live(o)
      BY <1>1 DEF Live
    <3>3. \A r \in Live(o) : Follows(o, r)'
      <4>1. \A r \in Live(o) : cmd[r].field \in Fields /\ Follows(o, r)
        BY <1>4, <2>2, LiveCommands DEF Within
      <4> QED
        BY <1>1, <1>3, <4>1 DEF Follows, DoubtGrows
    <3>4. \A f \in Fields \ Doubted' :
            (\A r \in Live(o) : cmd[r].field # f) => cache[f] \in {Absent, lamp'[f]}
      BY <1>3, <2>2 DEF Within, DoubtGrows
    <3>5. cmd[<<o, 1>>] = Query =>
            before[o] = cache /\ (req[<<o, 1>>] = "served" => Agrees(reply[o])')
      BY <1>1, <1>3, <2>2 DEF Within, Agrees, DoubtGrows
    <3> QED
      BY <1>1, <3>1, <3>2, <3>3, <3>4, <3>5 DEF Within
  <2> QED
    BY <1>1, <1>4, <2>1, <2>2 DEF OneInv
<1> QED
  BY <1>4, <1>5, <1>6 DEF SerialInv

(****************************** the theorems *******************************)
(* An operation begins when no other is under way.                         *)
LEMMA StartsAlone ==
    ASSUME BaseInv, OneAtATime, NEW o \in Ops, Start(o) \/ Refused(o)
    PROVE  Running = {}
<1>1. /\ pc[o] = "new"
      /\ \E p \in {"call", "done"} : pc' = [pc EXCEPT ![o] = p]
  BY DEF Start, Refused, Command, Refresh, GetCached, Ask, Toggle, ApplyScene, Flash, Begin,
         Issue, IssueQuery, StartFlashing, Return
<1>2. pc \in [Ops -> {"new", "call", "pause", "done"}]
  BY DEF BaseInv, StateTypes, RequestTypes
<1>3. pc'[o] # "new"
  BY <1>1, <1>2
<1> QED
  BY <1>1, <1>3 DEF OneAtATime

LEMMA SerialStep == SerialInv /\ [Next /\ OneAtATime]_vars => SerialInv'
<1> SUFFICES ASSUME SerialInv, [Next /\ OneAtATime]_vars PROVE SerialInv'
  OBVIOUS
<1>1. BaseInv /\ BaseInv'
  BY BaseStep DEF SerialInv
<1>2. ASSUME NEW o \in Ops, Start(o) \/ Refused(o), OneAtATime
      PROVE  SerialInv'
  BY <1>1, <1>2, StartsAlone, StartSerial
<1>3. ASSUME NEW o \in Ops, SceneEnds(o) \/ WakesUp(o) \/ Cancel(o)
      PROVE  SerialInv'
  BY <1>1, <1>3, SceneEndSerial, WakeSerial, CancelSerial
<1>4. ASSUME NEW r \in Requests, ClientStep(r)
      PROVE  SerialInv'
  BY <1>1, <1>4, RequestSerial, ServeSerial, SucceedsSerial, FailsSerial DEF ClientStep
<1>5. CASE \/ \E c \in late : LateRuns(c)
           \/ \E w \in {Deaf, Silent} : Listen(w)
           \/ UNCHANGED vars
  BY <1>1, <1>5, OutsideSerial
<1> QED
  BY <1>2, <1>3, <1>4, <1>5 DEF Next

LEMMA SerialInit == Init => SerialInv
<1> SUFFICES ASSUME Init PROVE SerialInv
  OBVIOUS
<1>1. BaseInv
  BY BaseInit
<1>2. Alone
  BY DEF Init, Alone, Running
<1>3. Between
  BY DEF Init, Between, Agrees, Heard, Empty
<1>4. \A o \in Ops : OneInv(o)
  BY DEF Init, OneInv, Flashing
<1> QED
  BY <1>1, <1>2, <1>3, <1>4 DEF SerialInv

(* When operations come one at a time: while one is under way, the cache   *)
(* is ahead of the lamp by exactly its commands the lamp has not executed, *)
(* it and the listener began where the cache was, and a flash nothing went *)
(* wrong with can still restore everything; when none is, cache, lamp and  *)
(* listener agree.                                                         *)
THEOREM SerialHolds == SerialSpec => []SerialInv
<1>1. Init => SerialInv
  BY SerialInit
<1>2. SerialInv /\ [Next /\ OneAtATime]_vars => SerialInv'
  BY SerialStep
<1> QED
  BY <1>1, <1>2, PTL DEF SerialSpec

LEMMA QuietBetween ==
    ASSUME SerialInv, Quiet
    PROVE  Agrees(cache) /\ Heard(cache)
<1>1. \A o \in Ops : pc[o] # "call"
  BY DEF Quiet, Running
<1> QED
  BY <1>1 DEF SerialInv, Between

(* Between operations the cache says of the lamp what the lamp is, except  *)
(* of fields a lost command left in doubt (Device.CacheTracksLamp): no     *)
(* failure, retry, cancellation or late command makes a rollback of        *)
(* device.py take back what the lamp did, or keep what it did not.         *)
THEOREM CacheFollowsLamp == SerialSpec => []CacheTracksLamp
<1>1. SerialInv => CacheTracksLamp
  BY QuietBetween DEF CacheTracksLamp, Agrees
<1> QED
  BY <1>1, SerialHolds, PTL

(* Between operations the listener was last told the state the cache is in *)
(* (Device.ListenerSettled).                                               *)
THEOREM ListenerFollowsCache == SerialSpec => []ListenerSettled
<1>1. SerialInv => ListenerSettled
  BY QuietBetween DEF ListenerSettled, Heard
<1> QED
  BY <1>1, SerialHolds, PTL

(* What a step that returns does to the results.                           *)
LEMMA ReturnResult ==
    ASSUME BaseInv, NEW d \in Ops, NEW how, NEW ln, Return(d, how, ln), NEW o \in Ops,
           result[o] = "none", result'[o] = "ok"
    PROVE  o = d /\ how = "ok"
BY DEF Return, BaseInv, StateTypes, LocalTypes

(* flash() returns True only when the last command of its script was       *)
(* answered.                                                               *)
LEMMA FlashReturns ==
    ASSUME BaseInv, Next, NEW o \in Ops, name[o] = "flash", result[o] = "none", result'[o] = "ok"
    PROVE  /\ AtLamp(<<o, 1>>) /\ req[<<o, 1>>] = "served" /\ cmd[<<o, 1>>] # Query
           /\ Len(script[o]) <= 1 /\ UNCHANGED <<lamp, late, unsure>> /\ pc[o] = "call"
<1>1. result' # result /\ result \in [Ops -> {"none", "ok", "error", "cancelled"}]
  BY DEF BaseInv, StateTypes, LocalTypes
<1>2. ASSUME NEW d \in Ops, NEW how, NEW ln, Return(d, how, ln)
      PROVE  o = d /\ how = "ok" /\ name[d] = "flash"
  BY <1>2, ReturnResult
<1>3. ASSUME NEW d \in Ops, NEW how \in {"error", "cancelled"}
      PROVE  result' # [result EXCEPT ![d] = how]
  BY <1>1
<1>4. ASSUME NEW d \in Ops, Start(d) \/ Refused(d)
      PROVE  FALSE
  <2>1. pc[d] = "new" /\ name[d] = "none"
    BY <1>4, NewOperation
       DEF Start, Refused, Command, Refresh, GetCached, Ask, Toggle, ApplyScene, Flash, Begin
  <2>2. GetCached(d) \/ Refused(d)
    BY <1>1, <1>4 DEF Start, Command, Refresh, Ask, Toggle, ApplyScene, Flash, Begin
  <2> QED
    BY <1>2, <2>1, <2>2 DEF GetCached, Refused
<1>5. ASSUME NEW d \in Ops, SceneEnds(d)
      PROVE  FALSE
  <2>1. name[d] = "scene" /\ \E how : Return(d, how, line)
    BY <1>5 DEF SceneEnds
  <2> QED
    BY <1>2, <2>1
<1>6. ASSUME NEW d \in Ops, WakesUp(d)
      PROVE  FALSE
  BY <1>1, <1>6 DEF WakesUp
<1>7. ASSUME NEW d \in Ops, NEW how \in {"error", "cancelled"}, NEW s, NEW ln, Raised(d, how, s, ln)
      PROVE  FALSE
  BY <1>2, <1>3, <1>7 DEF Raised
<1>8. ASSUME NEW d \in Ops, Cancel(d)
      PROVE  FALSE
  <2> DEFINE ln == RemoveFirst(RemoveFirst(line, <<d, 1>>), <<d, 2>>)
  <2>1. \/ Raised(d, "cancelled", cache, ln) \/ Return(d, "cancelled", ln)
        \/ result' = [result EXCEPT ![d] = "cancelled"]
    BY <1>8 DEF Cancel
  <2> HIDE DEF ln
  <2>2. CASE Raised(d, "cancelled", cache, ln)
    BY <1>7, <2>2
  <2>3. CASE Return(d, "cancelled", ln)
    BY <1>2, <2>3
  <2> QED
    BY <1>3, <2>1, <2>2, <2>3
<1>9. (\E c \in late : LateRuns(c)) \/ (\E w \in {Deaf, Silent} : Listen(w)) => FALSE
  BY <1>1 DEF LateRuns, Listen
<1>10. PICK r \in Requests : ClientStep(r)
  BY <1>4, <1>5, <1>6, <1>8, <1>9 DEF Next
<1>11. Succeeds(r) \/ Fails(r)
  BY <1>1, <1>10 DEF ClientStep, TaskStarts, TaskRefused, LampServes, BacksOff, Retries
<1>12. ~(\E how : TaskEnds(r, how)) /\ Operation(r) \in Ops
  BY <1>1 DEF TaskEnds, Requests, Operation
<1>13. ~Fails(r)
  <2> SUFFICES ASSUME Fails(r) PROVE FALSE
    OBVIOUS
  <2> DEFINE d == Operation(r)
             s == RolledBack(d, {cmd[r].field})
             ln == Freed
  <2>1. Raised(d, "error", s, ln) \/ Return(d, "error", ln)
    BY <1>12 DEF Fails
  <2>2. d \in Ops
    BY <1>12
  <2> HIDE DEF d, s, ln
  <2>3. CASE Raised(d, "error", s, ln)
    BY <1>7, <2>2, <2>3
  <2>4. CASE Return(d, "error", ln)
    BY <1>2, <2>2, <2>4
  <2> QED
    BY <2>1, <2>3, <2>4
<1>14. /\ Answered(Operation(r)) \/ Reported(Operation(r))
       /\ AtLamp(r) /\ req[r] = "served" /\ UNCHANGED <<lamp, late, unsure>>
  BY <1>11, <1>12, <1>13 DEF Succeeds
<1>15. ~Reported(Operation(r))
  <2> SUFFICES ASSUME Reported(Operation(r)) PROVE FALSE
    OBVIOUS
  <2> DEFINE d == Operation(r)
             ln == Freed
  <2>1. d \in Ops /\ name[d] # "flash" /\ Return(d, "ok", ln)
    BY <1>1, <1>12 DEF Reported
  <2> HIDE DEF d, ln
  <2> QED
    BY <1>2, <2>1
<1>16. PICK d \in Ops : d = Operation(r) /\ Answered(d) /\ Return(d, "ok", Freed) /\ Len(script[d]) <= 1
  BY <1>1, <1>12, <1>14, <1>15 DEF Answered
<1>17. d = o
  <2> DEFINE ln == Freed
  <2>1. Return(d, "ok", ln)
    BY <1>16
  <2> HIDE DEF ln
  <2> QED
    BY <1>2, <2>1
<1>18. r = <<o, 1>> /\ pc[o] = "call"
  BY <1>14, <1>16, <1>17, FreeOne DEF Answered
<1> QED
  BY <1>14, <1>16, <1>17, <1>18 DEF Answered

(* When it does, the lamp is as it was found.                              *)
LEMMA FlashRestored ==
    ASSUME SerialInv, Next, NEW o \in Ops,
           name[o] = "flash", result[o] = "none", result'[o] = "ok",
           NEW f \in Fields \ Doubted', original[o][f] # Absent
    PROVE  lamp'[f] = original[o][f]
<1>1. BaseInv /\ OneInv(o) /\ Shape(o) /\ LocalTypes
  BY DEF SerialInv, BaseInv, StateTypes
<1> DEFINE r == <<o, 1>>
           c == cmd[r]
           sc == script[o]
           u == original[o]
<1>2. /\ req[r] = "served" /\ c # Query /\ Len(sc) <= 1 /\ pc[o] = "call"
      /\ UNCHANGED <<lamp, late, unsure>>
  BY <1>1, FlashReturns
<1>3. f \notin Doubted /\ lamp' = lamp
  BY <1>2, NothingNew
<1>4. Within(o) /\ sc # <<>> /\ FlashKeeps(o)
  BY <1>1, <1>2 DEF OneInv, Flashing, Shape
<1>5. /\ Live(o) = {r} /\ c \in Settings
  <2>1. req[<<o, 2>>] = "none"
    BY <1>1 DEF Shape
  <2>2. Live(o) = {r}
    BY <1>2, <2>1, OwnRequests DEF Live
  <2> QED
    BY <1>1, <2>2, LiveCommands
<1>6. /\ cache[c.field] = c.value
      /\ c.field = f => lamp[f] = c.value
  BY <1>2, <1>3, <1>4, <1>5 DEF Within, Follows, Executed
<1>7. c.field # f => cache[f] \in {Absent, lamp[f]}
  BY <1>3, <1>4, <1>5 DEF Within
<1>8. Len(sc) = 1 /\ c = sc[1] /\ c = sc[Len(sc)]
  <2>1. sc \in Seq(Settings) /\ c = sc[1]
    BY <1>1, <1>4 DEF LocalTypes, Shape
  <2> HIDE DEF sc, c
  <2>2. Len(sc) \in Nat \ {0}
    BY <1>4, <2>1, EmptySeq
  <2>3. Len(sc) <= 1
    BY <1>2
  <2>4. Len(sc) = 1
    <3> DEFINE n == Len(sc)
    <3>1. n \in Nat \ {0} /\ n <= 1
      BY <2>2, <2>3
    <3> HIDE DEF n
    <3>2. n = 1
      BY <3>1
    <3> QED
      BY <3>2 DEF n
  <2> QED
    BY <2>1, <2>4
<1>9. /\ \A g \in Fields \ {"on"} : cache[g] = u[g]
      /\ sc \in Seq(Faithful(u))
      /\ u["on"] # Absent => sc[Len(sc)] = Set("on", u["on"])
  BY <1>4 DEF FlashKeeps
<1>10. CASE f = "on"
  <2>1. c = Set("on", u["on"])
    BY <1>8, <1>9, <1>10
  <2>2. c.field = "on" /\ c.value = u["on"]
    BY <2>1 DEF Set
  <2> QED
    BY <1>3, <1>6, <1>10, <2>2
<1>11. CASE f # "on"
  <2>1. cache[f] = u[f]
    BY <1>9, <1>11
  <2> QED
    BY <1>3, <1>6, <1>7, <2>1
<1> QED
  BY <1>10, <1>11

(* A flash() that returns True leaves the lamp as original_state said it   *)
(* was (Device.FlashRestores).                                             *)
THEOREM FlashLeavesNoTrace == SerialSpec => FlashRestores
<1>1. ASSUME SerialInv, [Next /\ OneAtATime]_vars
      PROVE  \A o \in Ops : name[o] = "flash" /\ result[o] = "none" /\ result'[o] = "ok" =>
               \A f \in {g \in Fields \ Doubted' : original[o][g] # Absent} :
                   lamp'[f] = original[o][f]
  <2>1. CASE Next
    BY <1>1, <2>1, FlashRestored
  <2>2. CASE UNCHANGED vars
    BY <2>2 DEF vars
  <2> QED
    BY <1>1, <2>1, <2>2
<1> QED
  BY <1>1, SerialHolds, PTL DEF SerialSpec, FlashRestores

=============================================================================
