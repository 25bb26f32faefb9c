----------------------------- MODULE DeviceProofs -----------------------------
(***************************************************************************)
(* Theorems about module Device, for every set of operations, of values    *)
(* and of flashes: whose requests are in the queue of the lamp's lock; and *)
(* that, when operations come one at a time, the cache follows the lamp,   *)
(* the listener follows the cache, and flash() restores what it found.     *)
(***************************************************************************)
EXTENDS Device, SequenceLemmas

(*************************** the inductive invariants **********************)
Known == {s \in States : \A f \in Fields : s[f] \in Values(f) \cup {Absent}}
Stages == {"none", "spawned", "queued", "served", "backoff", "ok", "error"}
Names == {"none", "command", "get", "ask", "toggle", "scene", "flash"}

(* The values of all variables.                                            *)
ValueTypes ==
    /\ cache \in Known /\ lamp \in Known /\ \A f \in Fields : lamp[f] \in Values(f)
    /\ seen \in Known \cup {Deaf, Silent}
    /\ late \subseteq Settings /\ unsure \subseteq Fields
RequestTypes ==
    /\ line \in Seq(Requests)
    /\ req \in [Requests -> Stages] /\ cmd \in [Requests -> Settings \cup {Query}]
    /\ reply \in [Ops -> Known]
    /\ pc \in [Ops -> {"new", "call", "pause", "done"}]
LocalTypes ==
    /\ name \in [Ops -> Names]
    /\ before \in [Ops -> Known] /\ original \in [Ops -> Known]
    /\ script \in [Ops -> Seq(Settings)] /\ blinks \in [Ops -> Nat]
    /\ result \in [Ops -> {"none", "ok", "error", "cancelled"}]
StateTypes == ValueTypes /\ RequestTypes /\ LocalTypes

(* The lock's queue holds each request that waits or is with the lamp.     *)
Waiting == {r \in Requests : req[r] \in {"queued", "served"}}
LineHolds == Range(line) = Waiting /\ IsInjective(line)

(* An operation has requests while it is at an await of the client, two of *)
(* them only in a scene; its script is the commands flash() has left, more *)
(* than it has flashing to do.                                             *)
Shape(o) ==
    /\ pc[o] # "call" => req[<<o, 1>>] = "none" /\ req[<<o, 2>>] = "none"
    /\ pc[o] = "call" /\ name[o] # "scene" =>
         req[<<o, 1>>] \in {"queued", "served", "backoff"} /\ req[<<o, 2>>] = "none"
    /\ name[o] = "scene" =>
         /\ pc[o] = "call" /\ req[<<o, 1>>] # "none" /\ req[<<o, 2>>] # "none"
         /\ cmd[<<o, 1>>] \in Settings /\ cmd[<<o, 1>>].field = "brightness"
         /\ cmd[<<o, 2>>] \in Settings /\ cmd[<<o, 2>>].field = "color"
    /\ pc[o] \in {"new", "done"} <=> name[o] = "none"
    /\ name[o] \in {"get", "ask"} => cmd[<<o, 1>>] = Query
    /\ blinks[o] > 0 => script[o] # <<>> /\ blinks[o] < Len(script[o])
    /\ script[o] # <<>> => name[o] = "flash" /\ cmd[<<o, 1>>] = script[o][1]
    /\ name[o] = "flash" /\ script[o] = <<>> => pc[o] = "call" /\ cmd[<<o, 1>>] = Query
    /\ pc[o] = "pause" => Len(script[o]) > 1

BaseInv == StateTypes /\ LineHolds /\ \A o \in Ops : Shape(o)

(******************************** the data *********************************)
LEMMA SetType ==
    ASSUME NEW f \in Fields, NEW v \in Values(f)
    PROVE  /\ Set(f, v) \in Settings
           /\ Set(f, v).field = f /\ Set(f, v).value = v
BY DEF Settings, Set

LEMMA SettingType ==
    ASSUME NEW c \in Settings
    PROVE  c.field \in Fields /\ c.value \in Values(c.field) /\ c # Query
<1>0. PICK f \in Fields : \E v \in Values(f) : c = Set(f, v)
  BY DEF Settings
<1>1. PICK v \in Values(f) : c = Set(f, v)
  BY <1>0
<1>2. "states" \notin Fields
  BY DEF Fields
<1>3. c.field = f /\ c.value = v /\ Query.field = "states"
  BY <1>1 DEF Set, Query
<1> QED
  BY <1>2, <1>3

LEMMA QueryIsNoSetting == Query \notin Settings /\ Query.field \notin Fields
BY SettingType DEF Query, Set, Fields

(* A value put into a known state.                                         *)
LEMMA KnownPut ==
    ASSUME NEW s \in Known, NEW c \in Settings
    PROVE  /\ [s EXCEPT ![c.field] = c.value] \in Known
           /\ [s EXCEPT ![c.field] = c.value][c.field] = c.value
           /\ \A f \in Fields : f # c.field => [s EXCEPT ![c.field] = c.value][f] = s[f]
<1>1. c.field \in Fields /\ c.value \in Values(c.field)
  BY SettingType
<1>2. s \in [Fields -> BOOLEAN \cup Levels \cup Temperatures \cup {Absent}]
      /\ \A f \in Fields : s[f] \in Values(f) \cup {Absent}
  BY DEF Known, States
<1>3. \A f \in Fields : Values(f) \subseteq BOOLEAN \cup Levels \cup Temperatures
  BY DEF Values, Fields
<1> QED
  BY <1>1, <1>2, <1>3 DEF Known, States

(* Fields taken from one known state or another.                           *)
LEMMA KnownMix ==
    ASSUME NEW s \in Known, NEW u \in Known, NEW F
    PROVE  [f \in Fields |-> IF f \in F THEN u[f] ELSE s[f]] \in Known
BY DEF Known, States

LEMMA EmptyKnown == Empty \in Known
BY DEF Known, States, Empty

LEMMA FlipType == \A s : Flip(s) \in Settings /\ Flip(s).field = "on"
<1> SUFFICES ASSUME NEW s PROVE Flip(s) \in Settings /\ Flip(s).field = "on"
  OBVIOUS
<1>1. "on" \in Fields /\ (s["on"] # TRUE) \in Values("on")
  BY DEF Fields, Values
<1> QED
  BY <1>1, SetType DEF Flip

(* What flash() goes through.                                              *)
LEMMA BlinkingType ==
    /\ Blinking \in Seq(Settings) /\ Len(Blinking) = 2 * Flashes /\ 2 * Flashes \in Nat \ {0, 1}
    /\ Blinking[1] \in Settings
    /\ \A i \in 1..2 * Flashes : Blinking[i].field = "on"
<1>1. 2 * Flashes \in Nat \ {0, 1} /\ 1 \in 1..2 * Flashes
  BY DeviceAssumption
<1>2. \A i \in 1..2 * Flashes : Set("on", i % 2 = 0) \in Settings /\ Set("on", i % 2 = 0).field = "on"
  <2>1. \A i \in 1..2 * Flashes : "on" \in Fields /\ (i % 2 = 0) \in Values("on")
    BY DEF Fields, Values
  <2> QED
    BY <2>1, SetType
<1>3. Blinking \in Seq(Settings) /\ Len(Blinking) = 2 * Flashes
  BY <1>1, <1>2, IsASeq DEF Blinking
<1> QED
  BY <1>1, <1>2, <1>3 DEF Blinking

(* Commands that leave every field but "on" as in the state s.             *)
Faithful(s) == {c \in Settings : c.field # "on" => c.value = s[c.field]}

LEMMA RestoreType ==
    ASSUME NEW s \in Known
    PROVE  /\ Restore(s) \in Seq(Faithful(s)) /\ Len(Restore(s)) \in Nat \ {0}
           /\ s["on"] # Absent => Restore(s)[Len(Restore(s))] = Set("on", s["on"])
<1> DEFINE G == Faithful(s)
           on == IF s["on"] = Absent THEN s # Empty ELSE s["on"]
           u == IF s["brightness"] = Absent THEN <<>> ELSE <<Set("brightness", s["brightness"])>>
           v == IF s["color"] = Absent THEN <<>> ELSE <<Set("color", s["color"])>>
           x == <<Set("on", on)>>
<1>1. /\ \A f \in Fields : s[f] \in Values(f) \cup {Absent}
      /\ "on" \in Fields /\ "brightness" \in Fields /\ "color" \in Fields
      /\ Values("on") = BOOLEAN
  BY DEF Known, Fields, Values
<1>2. \A f \in Fields : s[f] # Absent => Set(f, s[f]) \in G
  BY <1>1, SetType DEF Faithful
<1>3. on \in BOOLEAN
  BY <1>1
<1>4. Set("on", on) \in G
  BY <1>1, <1>3, SetType DEF Faithful
<1>5. Restore(s) = (u \o v) \o x
  BY DEF Restore
<1>6. s["on"] # Absent => on = s["on"]
  OBVIOUS
<1>7. u \in Seq(G) /\ v \in Seq(G) /\ x \in Seq(G) /\ Len(x) = 1 /\ x[1] = Set("on", on)
  BY <1>1, <1>2, <1>4
<1> HIDE DEF G, on, u, v, x
<1>8. u \o v \in Seq(G)
  BY <1>7, ConcatProperties
<1> DEFINE y == u \o v
<1>9. y \in Seq(G) /\ Len(y) \in Nat
  BY <1>8, LenProperties
<1> HIDE DEF y
<1>10. /\ y \o x \in Seq(G) /\ Len(y \o x) = Len(y) + 1
       /\ (y \o x)[Len(y) + 1] = x[1]
  <2>1. /\ y \o x \in Seq(G) /\ Len(y \o x) = Len(y) + Len(x)
        /\ \A i \in 1..Len(y) + Len(x) : (y \o x)[i] = IF i <= Len(y) THEN y[i] ELSE x[i - Len(y)]
    BY <1>7, <1>9, ConcatProperties
  <2>2. /\ Len(y) + 1 \in 1..Len(y) + Len(x) /\ ~(Len(y) + 1 <= Len(y))
        /\ (Len(y) + 1) - Len(y) = 1
    BY <1>7, <1>9
  <2> QED
    BY <1>7, <2>1, <2>2
<1> QED
  BY <1>5, <1>6, <1>7, <1>9, <1>10 DEF y, G

(* The whole script: the flashing, then the restoring.                     *)
LEMMA ScriptType ==
    ASSUME NEW s \in Known
    PROVE  LET sc == Blinking \o Restore(s)
           IN  /\ sc \in Seq(Faithful(s)) /\ sc \in Seq(Settings)
               /\ Len(sc) \in Nat /\ Len(sc) > 2 * Flashes /\ Len(sc) > 1
               /\ sc[1] = Blinking[1]
               /\ s["on"] # Absent => sc[Len(sc)] = Set("on", s["on"])
<1> DEFINE b == Blinking
           r == Restore(s)
           G == Faithful(s)
           n == 2 * Flashes
<1>1. /\ r \in Seq(G) /\ Len(r) \in Nat \ {0}
      /\ s["on"] # Absent => r[Len(r)] = Set("on", s["on"])
  BY RestoreType
<1>2. b \in Seq(Settings) /\ Len(b) = n /\ n \in Nat \ {0, 1}
  BY BlinkingType
<1>3. b \in Seq(G)
  <2>1. \A i \in 1..n : b[i] \in G
    <3>1. \A i \in 1..n : b[i] \in Settings /\ b[i].field = "on"
      BY BlinkingType, ElementOfSeq
    <3> QED
      BY <3>1 DEF Faithful
  <2>2. b = [i \in 1..n |-> b[i]]
    BY <1>2, LenProperties
  <2> HIDE DEF b, n
  <2> QED
    BY <1>2, <2>1, <2>2, IsASeq
<1>4. G \subseteq Settings
  BY DEF Faithful
<1> HIDE DEF b, r, G, n
<1> DEFINE z == b \o r
<1>5. /\ z \in Seq(G) /\ Len(z) = Len(b) + Len(r)
      /\ \A i \in 1..Len(b) + Len(r) : z[i] = IF i <= Len(b) THEN b[i] ELSE r[i - Len(b)]
  BY <1>1, <1>3, ConcatProperties
<1> HIDE DEF z
<1>6. z \in Seq(Settings)
  BY <1>4, <1>5, SeqMonotonic
<1>7. Len(z) \in Nat /\ Len(z) > n /\ Len(z) > 1
  BY <1>1, <1>2, <1>5
<1>8. z[1] = b[1]
  <2>1. 1 \in 1..Len(b) + Len(r) /\ 1 <= Len(b)
    BY <1>1, <1>2
  <2> QED
    BY <1>5, <2>1
<1>9. z[Len(z)] = r[Len(r)]
  <2>1. /\ Len(z) \in 1..Len(b) + Len(r) /\ ~(Len(z) <= Len(b))
        /\ Len(z) - Len(b) = Len(r)
    BY <1>1, <1>2, <1>5
  <2> QED
    BY <1>5, <2>1
<1> QED
  BY <1>1, <1>5, <1>6, <1>7, <1>8, <1>9 DEF b, r, G, n, z

(* What is left of a script when the flashing is skipped, and when the     *)
(* current command is.                                                     *)
LEMMA SkipType ==
    ASSUME NEW sc \in Seq(Settings), NEW n \in Nat, n < Len(sc)
    PROVE  LET rest == SubSeq(sc, n + 1, Len(sc))
           IN  /\ rest \in Seq(Settings) /\ rest # <<>>
               /\ Head(rest) = rest[1] /\ Head(rest) \in Settings
<1> DEFINE r == SubSeq(sc, n + 1, Len(sc))
           l == Len(sc)
<1>1. l \in Nat /\ \A j \in 1..l : sc[j] \in Settings
  BY ElementOfSeq, LenProperties
<1>2. \A j \in n+1..l : sc[j] \in Settings
  BY <1>1
<1>3. r \in Seq(Settings) /\ Len(r) = IF n+1 <= l THEN l-(n+1)+1 ELSE 0
  BY <1>1, <1>2, SubSeqProperties
<1>4. n < l
  OBVIOUS
<1> HIDE DEF r, l
<1>5. r # <<>>
  BY <1>1, <1>3, <1>4, EmptySeq
<1>6. Head(r) = r[1] /\ Head(r) \in Settings
  BY <1>3, <1>5, HeadTailProperties
<1> QED
  BY <1>3, <1>5, <1>6 DEF r, l

LEMMA TailOfScript ==
    ASSUME NEW S, NEW sc \in Seq(S), Len(sc) > 1
    PROVE  /\ Tail(sc) \in Seq(S) /\ Tail(sc) # <<>> /\ Len(Tail(sc)) = Len(sc) - 1
           /\ Tail(sc)[1] = sc[2] /\ sc[2] \in S
           /\ Tail(sc)[Len(Tail(sc))] = sc[Len(sc)]
<1>1. Len(sc) \in Nat /\ sc # <<>> /\ 2 \in 1..Len(sc)
  BY LenProperties, EmptySeq
<1>2. /\ Tail(sc) \in Seq(S) /\ Len(Tail(sc)) = Len(sc) - 1
      /\ \A i \in 1..Len(Tail(sc)) : Tail(sc)[i] = sc[i + 1]
  BY <1>1, HeadTailProperties
<1> DEFINE a == Tail(sc)
<1>3. a \in Seq(S) /\ Len(a) = Len(sc) - 1 /\ \A i \in 1..Len(a) : a[i] = sc[i + 1]
  BY <1>2
<1> HIDE DEF a
<1>4. /\ 1 \in 1..Len(a) /\ 1 + 1 = 2 /\ Len(a) \in 1..Len(a) /\ Len(a) + 1 = Len(sc)
      /\ Len(a) # 0
  BY <1>1, <1>3
<1>5. a[1] = sc[2] /\ a[Len(a)] = sc[Len(sc)]
  BY <1>3, <1>4
<1>6. sc[2] \in S
  BY <1>1, ElementOfSeq
<1>7. a # <<>>
  BY <1>3, <1>4, EmptySeq
<1> QED
  BY <1>3, <1>5, <1>6, <1>7 DEF a

(******************************** the queue ********************************)
LEMMA OwnRequests ==
    ASSUME NEW o \in Ops
    PROVE  /\ Own(o) = {<<o, 1>>, <<o, 2>>} /\ <<o, 1>> \in Requests /\ <<o, 2>> \in Requests
           /\ \A r \in Own(o) : Operation(r) = o
           /\ \A r \in Requests : Operation(r) = o => r \in Own(o)
           /\ \A r \in Requests : Operation(r) \in Ops
           /\ \A d \in Ops \ {o}, i \in {1, 2} :
                <<d, i>> \in Requests /\ <<d, i>> # <<o, 1>> /\ <<d, i>> # <<o, 2>>
                /\ <<d, i>> \notin Own(o)
           /\ <<o, 1>> # <<o, 2>> /\ Own(o) \subseteq Requests
<1>1. Own(o) = {<<o, 1>>, <<o, 2>>}
  BY DEF Own
<1>2. /\ \A r \in Own(o) : Operation(r) = o
      /\ \A r \in Requests : Operation(r) = o => r \in Own(o)
      /\ \A r \in Requests : Operation(r) \in Ops
  BY DEF Own, Requests, Operation
<1>3. \A d \in Ops, i \in {1, 2} : <<d, i>> \in Requests
  BY DEF Requests
<1>4. \A d \in Ops \ {o}, i \in {1, 2} : <<d, i>> # <<o, 1>> /\ <<d, i>> # <<o, 2>>
  OBVIOUS
<1>5. <<o, 1>> # <<o, 2>>
  OBVIOUS
<1>6. Own(o) \subseteq Requests
  BY DEF Own, Requests
<1> QED
  BY <1>1, <1>2, <1>3, <1>4, <1>5, <1>6

(* A queue in which everyone waits but o.                                  *)
FreeOf(o, ln) ==
    ln \in Seq(Requests) /\ IsInjective(ln) /\ Range(ln) = Waiting \ Own(o)

LEMMA FreeLine ==
    ASSUME BaseInv, NEW o \in Ops,
           \A r \in Own(o) : req[r] \notin {"queued", "served"}
    PROVE  FreeOf(o, line)
BY DEF FreeOf, BaseInv, StateTypes, RequestTypes, LineHolds, Waiting

LEMMA FreeFreed ==
    ASSUME BaseInv, NEW o \in Ops, NEW r \in Own(o), AtLamp(r),
           \A q \in Own(o) : q = r \/ req[q] \notin {"queued", "served"}
    PROVE  FreeOf(o, Freed)
<1>1. line \in Seq(Requests) /\ IsInjective(line) /\ line # <<>> /\ Head(line) = r
      /\ Range(line) = Waiting
  BY DEF BaseInv, StateTypes, RequestTypes, LineHolds, AtLamp
<1>2. Tail(line) \in Seq(Requests) /\ IsInjective(Tail(line)) /\ Range(Tail(line)) = Waiting \ {r}
  BY <1>1, TailLeaves
<1>3. Waiting \ {r} = Waiting \ Own(o)
  BY DEF Waiting
<1> QED
  BY <1>2, <1>3 DEF FreeOf, Freed

LEMMA FreeOthers ==
    ASSUME BaseInv, NEW o \in Ops
    PROVE  FreeOf(o, RemoveFirst(RemoveFirst(line, <<o, 1>>), <<o, 2>>))
<1>1. line \in Seq(Requests) /\ IsInjective(line) /\ Range(line) = Waiting
  BY DEF BaseInv, StateTypes, RequestTypes, LineHolds
<1> DEFINE a == <<o, 1>>
           b == <<o, 2>>
           x == RemoveFirst(line, a)
<1>2. Own(o) = {a, b}
  BY OwnRequests
<1> HIDE DEF a, b
<1>3. x \in Seq(Requests) /\ IsInjective(x) /\ Range(x) = Waiting \ {a}
  BY <1>1, RemoveFirstLeaves
<1> HIDE DEF x
<1>4. /\ RemoveFirst(x, b) \in Seq(Requests) /\ IsInjective(RemoveFirst(x, b))
      /\ Range(RemoveFirst(x, b)) = (Waiting \ {a}) \ {b}
  BY <1>3, RemoveFirstLeaves
<1> QED
  BY <1>2, <1>4 DEF FreeOf, x, a, b

(* What a step of o leaves to the other operations.                        *)
RequestsKept(o) ==
    \A d \in Ops \ {o} :
      /\ pc'[d] = pc[d]
      /\ req'[<<d, 1>>] = req[<<d, 1>>] /\ req'[<<d, 2>>] = req[<<d, 2>>]
      /\ cmd'[<<d, 1>>] = cmd[<<d, 1>>] /\ cmd'[<<d, 2>>] = cmd[<<d, 2>>]
LocalsKept(o) ==
    \A d \in Ops \ {o} :
      name'[d] = name[d] /\ script'[d] = script[d] /\ blinks'[d] = blinks[d]

LEMMA ShapeKept ==
    ASSUME NEW o \in Ops, RequestsKept(o), LocalsKept(o), \A d \in Ops : Shape(d), Shape(o)'
    PROVE  \A d \in Ops : Shape(d)'
<1>1. ASSUME NEW d \in Ops \ {o}
      PROVE  Shape(d)'
  <2>1. /\ pc'[d] = pc[d] /\ name'[d] = name[d] /\ script'[d] = script[d] /\ blinks'[d] = blinks[d]
        /\ req'[<<d, 1>>] = req[<<d, 1>>] /\ req'[<<d, 2>>] = req[<<d, 2>>]
        /\ cmd'[<<d, 1>>] = cmd[<<d, 1>>] /\ cmd'[<<d, 2>>] = cmd[<<d, 2>>]
    BY DEF RequestsKept, LocalsKept
  <2>2. Shape(d)
    OBVIOUS
  <2> QED
    BY <2>1, <2>2 DEF Shape
<1> QED
  BY <1>1

(* A request joins the end of a queue in which its operation has none.     *)
LEMMA JoinsLine ==
    ASSUME StateTypes, NEW o \in Ops, NEW ln, FreeOf(o, ln),
           req[<<o, 2>>] \notin {"queued", "served"},
           req' = [req EXCEPT ![<<o, 1>>] = "queued"],
           line' = Append(ln, <<o, 1>>)
    PROVE  line' \in Seq(Requests) /\ LineHolds' /\ req' \in [Requests -> Stages]
<1> DEFINE r == <<o, 1>>
<1>1. Own(o) = {r, <<o, 2>>} /\ r \in Requests /\ <<o, 2>> # r
  BY OwnRequests
<1>2. ln \in Seq(Requests) /\ IsInjective(ln) /\ Range(ln) = Waiting \ Own(o)
  BY DEF FreeOf
<1>3. req \in [Requests -> Stages] /\ req' = [req EXCEPT ![r] = "queued"]
  BY DEF StateTypes, RequestTypes
<1>4. line' = Append(ln, r)
  OBVIOUS
<1> HIDE DEF r
<1>5. r \notin Range(ln)
  BY <1>1, <1>2
<1>6. /\ Append(ln, r) \in Seq(Requests) /\ IsInjective(Append(ln, r))
      /\ Range(Append(ln, r)) = Range(ln) \cup {r}
  BY <1>1, <1>2, <1>5, AppendNew, AppendProperties
<1>7. Waiting' = (Waiting \ Own(o)) \cup {r}
  BY <1>1, <1>3 DEF Waiting
<1>8. req' \in [Requests -> Stages]
  BY <1>3 DEF Stages
<1> QED
  BY <1>2, <1>4, <1>6, <1>7, <1>8 DEF LineHolds

(***************************** pieces of a step ****************************)
(* A command is issued in place of what the operation did before.          *)
LEMMA IssueBase ==
    ASSUME StateTypes, NEW o \in Ops, NEW c \in Settings, NEW base \in Known, NEW ln,
           FreeOf(o, ln), req[<<o, 2>>] = "none", Issue(o, c, base, ln)
    PROVE  /\ RequestTypes' /\ LineHolds' /\ RequestsKept(o)
           /\ cache' \in Known /\ before' \in [Ops -> Known] /\ before'[o] = base
           /\ cache'[c.field] = c.value
           /\ \A f \in Fields : f # c.field => cache'[f] = base[f]
           /\ pc'[o] = "call" /\ cmd'[<<o, 1>>] = c
           /\ req'[<<o, 1>>] = "queued" /\ req'[<<o, 2>>] = "none"
<1>1. RequestTypes /\ LocalTypes
  BY DEF StateTypes
<1>2. line' \in Seq(Requests) /\ LineHolds' /\ req' \in [Requests -> Stages]
  BY JoinsLine DEF Issue
<1>3. /\ cache' \in Known /\ cache'[c.field] = c.value
      /\ \A f \in Fields : f # c.field => cache'[f] = base[f]
  BY KnownPut DEF Issue
<1>4. /\ <<o, 1>> \in Requests /\ <<o, 2>> \in Requests /\ <<o, 1>> # <<o, 2>>
      /\ \A d \in Ops \ {o}, i \in {1, 2} : <<d, i>> \in Requests /\ <<d, i>> # <<o, 1>>
  BY OwnRequests
<1>5. /\ req' = [req EXCEPT ![<<o, 1>>] = "queued"] /\ cmd' = [cmd EXCEPT ![<<o, 1>>] = c]
      /\ pc' = [pc EXCEPT ![o] = "call"] /\ before' = [before EXCEPT ![o] = base]
      /\ reply' = reply
  BY DEF Issue
<1>6. cmd' \in [Requests -> Settings \cup {Query}] /\ cmd'[<<o, 1>>] = c
  BY <1>1, <1>4, <1>5 DEF RequestTypes
<1>7. /\ pc' \in [Ops -> {"new", "call", "pause", "done"}] /\ pc'[o] = "call"
      /\ \A d \in Ops \ {o} : pc'[d] = pc[d]
  BY <1>1, <1>5 DEF RequestTypes
<1>8. before' \in [Ops -> Known] /\ before'[o] = base
  BY <1>1, <1>5 DEF LocalTypes
<1>9. req'[<<o, 1>>] = "queued" /\ req'[<<o, 2>>] = "none"
  BY <1>1, <1>4, <1>5 DEF RequestTypes
<1>10. \A d \in Ops \ {o}, i \in {1, 2} :
         req'[<<d, i>>] = req[<<d, i>>] /\ cmd'[<<d, i>>] = cmd[<<d, i>>]
  BY <1>1, <1>4, <1>5 DEF RequestTypes
<1>11. RequestsKept(o)
  BY <1>7, <1>10 DEF RequestsKept
<1>12. RequestTypes'
  BY <1>1, <1>2, <1>5, <1>6, <1>7 DEF RequestTypes
<1> QED
  BY <1>2, <1>3, <1>6, <1>7, <1>8, <1>9, <1>11, <1>12

(* Or a query is.                                                          *)
LEMMA QueryBase ==
    ASSUME BaseInv, NEW o \in Ops, pc[o] = "new", IssueQuery(o)
    PROVE  /\ RequestTypes' /\ LineHolds' /\ RequestsKept(o)
           /\ before' \in [Ops -> Known] /\ before'[o] = cache /\ cache' = cache
           /\ pc'[o] = "call" /\ cmd'[<<o, 1>>] = Query
           /\ req'[<<o, 1>>] = "queued" /\ req'[<<o, 2>>] = "none"
<1>1. StateTypes /\ ValueTypes /\ RequestTypes /\ LocalTypes
      /\ req[<<o, 1>>] = "none" /\ req[<<o, 2>>] = "none"
  BY DEF BaseInv, StateTypes, Shape
<1>2. FreeOf(o, line)
  <2>1. \A r \in Own(o) : req[r] \notin {"queued", "served"}
    BY <1>1, OwnRequests
  <2> QED
    BY <2>1, FreeLine
<1>3. line' \in Seq(Requests) /\ LineHolds' /\ req' \in [Requests -> Stages]
  BY <1>1, <1>2, JoinsLine DEF IssueQuery
<1>4. /\ <<o, 1>> \in Requests /\ <<o, 2>> \in Requests /\ <<o, 1>> # <<o, 2>>
      /\ \A d \in Ops \ {o}, i \in {1, 2} : <<d, i>> \in Requests /\ <<d, i>> # <<o, 1>>
  BY OwnRequests
<1>5. /\ req' = [req EXCEPT ![<<o, 1>>] = "queued"] /\ cmd' = [cmd EXCEPT ![<<o, 1>>] = Query]
      /\ pc' = [pc EXCEPT ![o] = "call"] /\ before' = [before EXCEPT ![o] = cache]
      /\ reply' = reply /\ cache' = cache
  BY DEF IssueQuery
<1>6. cmd' \in [Requests -> Settings \cup {Query}] /\ cmd'[<<o, 1>>] = Query
  BY <1>1, <1>4, <1>5 DEF RequestTypes
<1>7. /\ pc' \in [Ops -> {"new", "call", "pause", "done"}] /\ pc'[o] = "call"
      /\ \A d \in Ops \ {o} : pc'[d] = pc[d]
  BY <1>1, <1>5 DEF RequestTypes
<1>8. before' \in [Ops -> Known] /\ before'[o] = cache
  BY <1>1, <1>5 DEF LocalTypes, ValueTypes
<1>9. req'[<<o, 1>>] = "queued" /\ req'[<<o, 2>>] = "none"
  BY <1>1, <1>4, <1>5 DEF RequestTypes
<1>10. \A d \in Ops \ {o}, i \in {1, 2} :
         req'[<<d, i>>] = req[<<d, i>>] /\ cmd'[<<d, i>>] = cmd[<<d, i>>]
  BY <1>1, <1>4, <1>5 DEF RequestTypes
<1>11. RequestsKept(o)
  BY <1>7, <1>10 DEF RequestsKept
<1>12. RequestTypes'
  BY <1>1, <1>3, <1>5, <1>6, <1>7 DEF RequestTypes
<1> QED
  BY <1>3, <1>5, <1>6, <1>7, <1>8, <1>9, <1>11, <1>12

(* The operation returns, and nothing of it is left.                       *)
LEMMA ReturnBase ==
    ASSUME StateTypes, NEW o \in Ops, NEW how \in {"ok", "error", "cancelled"}, NEW ln,
           FreeOf(o, ln), Return(o, how, ln)
    PROVE  /\ RequestTypes' /\ LocalTypes' /\ LineHolds' /\ RequestsKept(o) /\ LocalsKept(o)
           /\ Shape(o)' /\ pc'[o] = "done"
           /\ \A d \in Ops \ {o} : result'[d] = result[d] /\ original'[d] = original[d]
<1>1. RequestTypes /\ LocalTypes
  BY DEF StateTypes
<1>2. /\ Own(o) = {<<o, 1>>, <<o, 2>>} /\ Own(o) \subseteq Requests
      /\ \A d \in Ops \ {o}, i \in {1, 2} : <<d, i>> \in Requests /\ <<d, i>> \notin Own(o)
  BY OwnRequests
<1>3. /\ req' = [r \in Requests |-> IF r \in Own(o) THEN "none" ELSE req[r]]
      /\ cmd' = [r \in Requests |-> IF r \in Own(o) THEN Query ELSE cmd[r]]
      /\ line' = ln
  BY DEF Return
<1>4. req' \in [Requests -> Stages] /\ cmd' \in [Requests -> Settings \cup {Query}]
  BY <1>1, <1>3 DEF RequestTypes, Stages
<1>5. line' \in Seq(Requests) /\ LineHolds'
  <2>1. Waiting' = Waiting \ Own(o)
    BY <1>3 DEF Waiting
  <2> QED
    BY <1>3, <2>1 DEF FreeOf, LineHolds
<1>6. /\ reply' = [reply EXCEPT ![o] = Empty] /\ pc' = [pc EXCEPT ![o] = "done"]
      /\ name' = [name EXCEPT ![o] = "none"] /\ before' = [before EXCEPT ![o] = Empty]
      /\ script' = [script EXCEPT ![o] = <<>>] /\ blinks' = [blinks EXCEPT ![o] = 0]
      /\ original' = [original EXCEPT ![o] = Empty]
      /\ result' = [result EXCEPT ![o] = IF result[o] = "none" \/ how = "cancelled"
                                            THEN how ELSE result[o]]
  BY DEF Return
<1>7. RequestTypes'
  BY <1>1, <1>4, <1>5, <1>6, EmptyKnown DEF RequestTypes
<1>8. LocalTypes'
  <2>1. <<>> \in Seq(Settings) /\ "none" \in Names
    BY EmptySeq DEF Names
  <2>2. name' \in [Ops -> Names] /\ before' \in [Ops -> Known] /\ original' \in [Ops -> Known]
    BY <1>1, <1>6, <2>1, EmptyKnown DEF LocalTypes
  <2>3. script' \in [Ops -> Seq(Settings)] /\ blinks' \in [Ops -> Nat]
    BY <1>1, <1>6, <2>1 DEF LocalTypes
  <2>4. result' \in [Ops -> {"none", "ok", "error", "cancelled"}]
    BY <1>1, <1>6 DEF LocalTypes
  <2> QED
    BY <2>2, <2>3, <2>4 DEF LocalTypes
<1>9. RequestsKept(o) /\ LocalsKept(o)
  <2>1. \A d \in Ops \ {o}, i \in {1, 2} :
          req'[<<d, i>>] = req[<<d, i>>] /\ cmd'[<<d, i>>] = cmd[<<d, i>>]
    BY <1>2, <1>3
  <2>2. \A d \in Ops \ {o} : /\ pc'[d] = pc[d] /\ name'[d] = name[d]
                              /\ script'[d] = script[d] /\ blinks'[d] = blinks[d]
    BY <1>1, <1>6 DEF RequestTypes, LocalTypes
  <2> QED
    BY <2>1, <2>2 DEF RequestsKept, LocalsKept
<1>10. /\ pc'[o] = "done" /\ name'[o] = "none" /\ script'[o] = <<>> /\ blinks'[o] = 0
       /\ req'[<<o, 1>>] = "none" /\ req'[<<o, 2>>] = "none"
  BY <1>1, <1>2, <1>3, <1>6 DEF RequestTypes, LocalTypes
<1>11. Shape(o)'
  BY <1>10 DEF Shape
<1>12. \A d \in Ops \ {o} : result'[d] = result[d] /\ original'[d] = original[d]
  BY <1>1, <1>6 DEF LocalTypes
<1> QED
  BY <1>5, <1>7, <1>8, <1>9, <1>10, <1>11, <1>12

(* flash() begins, and begins to restore.                                  *)
LEMMA FlashBase ==
    ASSUME StateTypes, NEW o \in Ops, NEW s \in Known, NEW ln, FreeOf(o, ln),
           req[<<o, 2>>] = "none", StartFlashing(o, s, ln), name'[o] = "flash"
    PROVE  /\ Issue(o, Blinking[1], s, ln) /\ Blinking[1] \in Settings
           /\ Blinking[1].field = "on"
           /\ script' \in [Ops -> Seq(Settings)] /\ blinks' \in [Ops -> Nat]
           /\ original' \in [Ops -> Known] /\ original'[o] = s
           /\ script'[o] = Blinking \o Restore(s)
           /\ \A d \in Ops \ {o} : script'[d] = script[d] /\ blinks'[d] = blinks[d]
                                   /\ original'[d] = original[d]
           /\ Shape(o)'
<1> DEFINE sc == Blinking \o Restore(s)
           n == 2 * Flashes
<1>1. /\ sc \in Seq(Settings) /\ Len(sc) \in Nat /\ Len(sc) > n /\ Len(sc) > 1
      /\ sc[1] = Blinking[1]
  BY ScriptType
<1>2. n \in Nat /\ Blinking[1] \in Settings /\ Blinking[1].field = "on"
  <2>1. 1 \in 1..2 * Flashes
    BY BlinkingType
  <2> QED
    BY <2>1, BlinkingType
<1>3. /\ original' = [original EXCEPT ![o] = s] /\ script' = [script EXCEPT ![o] = sc]
      /\ blinks' = [blinks EXCEPT ![o] = n] /\ Issue(o, Blinking[1], s, ln)
  BY DEF StartFlashing
<1> HIDE DEF sc, n
<1>4. LocalTypes
  BY DEF StateTypes
<1>5. /\ script' \in [Ops -> Seq(Settings)] /\ script'[o] = sc
      /\ \A d \in Ops \ {o} : script'[d] = script[d]
  BY <1>1, <1>3, <1>4 DEF LocalTypes
<1>6. /\ blinks' \in [Ops -> Nat] /\ blinks'[o] = n
      /\ \A d \in Ops \ {o} : blinks'[d] = blinks[d]
  BY <1>2, <1>3, <1>4 DEF LocalTypes
<1>7. /\ original' \in [Ops -> Known] /\ original'[o] = s
      /\ \A d \in Ops \ {o} : original'[d] = original[d]
  BY <1>3, <1>4 DEF LocalTypes
<1>8. /\ pc'[o] = "call" /\ cmd'[<<o, 1>>] = Blinking[1]
      /\ req'[<<o, 1>>] = "queued" /\ req'[<<o, 2>>] = "none"
  BY <1>2, <1>3, IssueBase
<1>9. sc # <<>>
  BY <1>1, EmptySeq
<1>10. Shape(o)'
  BY <1>1, <1>5, <1>6, <1>8, <1>9 DEF Shape
<1> QED
  BY <1>2, <1>3, <1>5, <1>6, <1>7, <1>10 DEF sc

LEMMA RestoreBase ==
    ASSUME StateTypes, NEW o \in Ops, Shape(o), blinks[o] > 0, NEW s \in Known, NEW ln,
           FreeOf(o, ln), req[<<o, 2>>] = "none", StartRestoring(o, s, ln), name' = name
    PROVE  /\ script' \in [Ops -> Seq(Settings)] /\ blinks' \in [Ops -> Nat]
           /\ \A d \in Ops \ {o} : script'[d] = script[d] /\ blinks'[d] = blinks[d]
           /\ \E c \in Settings : Issue(o, c, s, ln)
           /\ script'[o] # <<>> /\ Shape(o)'
<1> DEFINE sc == script[o]
           n == blinks[o]
           rest == SubSeq(sc, n + 1, Len(sc))
<1>1. sc \in Seq(Settings) /\ n \in Nat /\ n < Len(sc) /\ name[o] = "flash" /\ LocalTypes
  BY DEF StateTypes, LocalTypes, Shape
<1>2. /\ script' = [script EXCEPT ![o] = rest] /\ blinks' = [blinks EXCEPT ![o] = 0]
      /\ Issue(o, Head(rest), s, ln)
  BY DEF StartRestoring
<1> HIDE DEF sc, n
<1>3. /\ rest \in Seq(Settings) /\ rest # <<>>
      /\ Head(rest) = rest[1] /\ Head(rest) \in Settings
  BY <1>1, SkipType
<1> HIDE DEF rest
<1>4. /\ script' \in [Ops -> Seq(Settings)] /\ script'[o] = rest
      /\ \A d \in Ops \ {o} : script'[d] = script[d]
  BY <1>1, <1>2, <1>3 DEF LocalTypes
<1>5. /\ blinks' \in [Ops -> Nat] /\ blinks'[o] = 0
      /\ \A d \in Ops \ {o} : blinks'[d] = blinks[d]
  BY <1>1, <1>2 DEF LocalTypes
<1> DEFINE c == Head(rest)
<1>6. c \in Settings /\ Issue(o, c, s, ln)
  BY <1>2, <1>3
<1> HIDE DEF c
<1>7. /\ pc'[o] = "call" /\ cmd'[<<o, 1>>] = c
      /\ req'[<<o, 1>>] = "queued" /\ req'[<<o, 2>>] = "none"
  BY <1>6, IssueBase
<1>8. Shape(o)'
  BY <1>1, <1>3, <1>4, <1>5, <1>7 DEF Shape, c
<1> QED
  BY <1>3, <1>4, <1>5, <1>6, <1>8

(* The parts of the invariant put together.                                *)
LEMMA BaseTogether ==
    ASSUME BaseInv, NEW o \in Ops, ValueTypes', RequestTypes', LocalTypes', LineHolds',
           RequestsKept(o), LocalsKept(o), Shape(o)'
    PROVE  BaseInv'
BY ShapeKept DEF BaseInv, StateTypes

(**************************** the base invariant ***************************)
(* What holds of an operation that has not begun.                          *)
LEMMA NewOperation ==
    ASSUME BaseInv, NEW o \in Ops, pc[o] = "new"
    PROVE  /\ FreeOf(o, line) /\ req[<<o, 1>>] = "none" /\ req[<<o, 2>>] = "none"
           /\ script[o] = <<>> /\ blinks[o] = 0 /\ name[o] = "none"
<1>1. /\ req[<<o, 1>>] = "none" /\ req[<<o, 2>>] = "none" /\ Shape(o) /\ blinks[o] \in Nat
      /\ name[o] = "none"
  BY DEF BaseInv, Shape, StateTypes, LocalTypes
<1>2. script[o] = <<>> /\ blinks[o] = 0
  BY <1>1 DEF Shape
<1>3. \A r \in Own(o) : req[r] \notin {"queued", "served"}
  BY <1>1, OwnRequests
<1> QED
  BY <1>1, <1>2, <1>3, FreeLine

(* The parts that begin an operation.                                      *)
LEMMA BeginBase ==
    ASSUME BaseInv, NEW o \in Ops, NEW which \in Names, Begin(o, which)
    PROVE  /\ pc[o] = "new" /\ name' \in [Ops -> Names] /\ name'[o] = which
           /\ \A d \in Ops \ {o} : name'[d] = name[d]
           /\ UNCHANGED <<seen, lamp, late, result, unsure>>
BY DEF Begin, BaseInv, StateTypes, LocalTypes

LEMMA NamesListed ==
    /\ "command" \in Names /\ "get" \in Names /\ "ask" \in Names /\ "toggle" \in Names
    /\ "scene" \in Names /\ "flash" \in Names
BY DEF Names

(* A query begins an operation.                                            *)
LEMMA AskBase ==
    ASSUME BaseInv, NEW o \in Ops, NEW which \in {"get", "ask", "toggle", "flash"},
           Begin(o, which), IssueQuery(o), UNCHANGED <<script, blinks, original>>
    PROVE  BaseInv'
<1>1. /\ pc[o] = "new" /\ name' \in [Ops -> Names] /\ name'[o] = which
      /\ \A d \in Ops \ {o} : name'[d] = name[d]
      /\ UNCHANGED <<seen, lamp, late, result, unsure>>
  BY BeginBase, NamesListed
<1>2. /\ RequestTypes' /\ LineHolds' /\ RequestsKept(o)
      /\ before' \in [Ops -> Known] /\ cache' = cache
      /\ pc'[o] = "call" /\ cmd'[<<o, 1>>] = Query
      /\ req'[<<o, 1>>] = "queued" /\ req'[<<o, 2>>] = "none"
  BY <1>1, QueryBase
<1>3. ValueTypes' /\ LocalTypes' /\ LocalsKept(o)
  BY <1>1, <1>2 DEF BaseInv, StateTypes, ValueTypes, LocalTypes, LocalsKept
<1>4. Shape(o)'
  BY <1>1, <1>2, NewOperation DEF Shape
<1> QED
  BY <1>2, <1>3, <1>4, BaseTogether

(* A command begins one.                                                   *)
LEMMA CommandBase ==
    ASSUME BaseInv, NEW o \in Ops, NEW which \in {"command", "toggle"}, NEW c \in Settings,
           Begin(o, which), Issue(o, c, cache, line), UNCHANGED <<script, blinks, original>>
    PROVE  BaseInv'
<1>1. /\ pc[o] = "new" /\ name' \in [Ops -> Names] /\ name'[o] = which
      /\ \A d \in Ops \ {o} : name'[d] = name[d]
      /\ UNCHANGED <<seen, lamp, late, result, unsure>>
  BY BeginBase, NamesListed
<1>2. FreeOf(o, line) /\ req[<<o, 2>>] = "none" /\ script[o] = <<>> /\ blinks[o] = 0
  BY <1>1, NewOperation
<1> DEFINE s == cache
<1>3. s \in Known /\ StateTypes /\ Issue(o, c, s, line)
  BY DEF BaseInv, StateTypes, ValueTypes
<1> HIDE DEF s
<1>4. /\ RequestTypes' /\ LineHolds' /\ RequestsKept(o)
      /\ cache' \in Known /\ before' \in [Ops -> Known] /\ pc'[o] = "call"
      /\ req'[<<o, 1>>] = "queued" /\ req'[<<o, 2>>] = "none"
  BY <1>2, <1>3, IssueBase
<1>5. ValueTypes' /\ LocalTypes' /\ LocalsKept(o)
  BY <1>1, <1>3, <1>4 DEF StateTypes, ValueTypes, LocalTypes, LocalsKept
<1>6. Shape(o)'
  BY <1>1, <1>2, <1>4 DEF Shape
<1> QED
  BY <1>4, <1>5, <1>6, BaseTogether

(* The two requests of a scene.                                            *)
LEMMA SceneBase ==
    ASSUME BaseInv, NEW o \in Ops, ApplyScene(o)
    PROVE  /\ BaseInv'
           /\ before'[o] = cache
           /\ \E b \in Levels, t \in Temperatures :
                /\ cache' = [cache EXCEPT !["brightness"] = b, !["color"] = t]
                /\ cmd'[<<o, 1>>] = Set("brightness", b) /\ cmd'[<<o, 2>>] = Set("color", t)
           /\ req'[<<o, 1>>] = "spawned" /\ req'[<<o, 2>>] = "spawned"
<1>1. /\ pc[o] = "new" /\ name' \in [Ops -> Names] /\ name'[o] = "scene"
      /\ \A d \in Ops \ {o} : name'[d] = name[d]
      /\ UNCHANGED <<seen, lamp, late, result, unsure>>
  BY BeginBase, NamesListed DEF ApplyScene
<1>2. /\ req[<<o, 1>>] = "none" /\ req[<<o, 2>>] = "none" /\ script[o] = <<>> /\ blinks[o] = 0
  BY <1>1, NewOperation
<1>3. /\ before' = [before EXCEPT ![o] = cache]
      /\ req' = [req EXCEPT ![<<o, 1>>] = "spawned", ![<<o, 2>>] = "spawned"]
      /\ pc' = [pc EXCEPT ![o] = "call"]
      /\ UNCHANGED <<line, reply, script, blinks, original>>
  BY DEF ApplyScene
<1>4. PICK b \in Levels, t \in Temperatures :
        /\ cache' = [cache EXCEPT !["brightness"] = b, !["color"] = t]
        /\ cmd' = [cmd EXCEPT ![<<o, 1>>] = Set("brightness", b), ![<<o, 2>>] = Set("color", t)]
  BY DEF ApplyScene
<1> DEFINE x == Set("brightness", b)
           y == Set("color", t)
<1>5. x \in Settings /\ x.field = "brightness" /\ y \in Settings /\ y.field = "color"
  BY SetType DEF Fields, Values
<1>6. StateTypes /\ ValueTypes /\ RequestTypes /\ LocalTypes
  BY DEF BaseInv, StateTypes
<1>7. cache' \in Known
  <2>1. b \in Values("brightness") /\ t \in Values("color")
    BY DEF Values
  <2>2. cache \in [Fields -> BOOLEAN \cup Levels \cup Temperatures \cup {Absent}]
        /\ \A f \in Fields : cache[f] \in Values(f) \cup {Absent}
    BY <1>6 DEF ValueTypes, Known, States
  <2> QED
    BY <1>4, <2>1, <2>2 DEF Known, States
<1>8. cmd' = [cmd EXCEPT ![<<o, 1>>] = x, ![<<o, 2>>] = y]
  BY <1>4
<1> HIDE DEF x, y
<1> DEFINE r == <<o, 1>>
           q == <<o, 2>>
<1>9. /\ r \in Requests /\ q \in Requests /\ r # q
      /\ \A d \in Ops \ {o}, i \in {1, 2} : <<d, i>> \in Requests /\ <<d, i>> # r /\ <<d, i>> # q
  BY OwnRequests
<1>10. /\ cmd' = [cmd EXCEPT ![r] = x, ![q] = y]
       /\ req' = [req EXCEPT ![r] = "spawned", ![q] = "spawned"]
       /\ req[r] = "none" /\ req[q] = "none"
  BY <1>2, <1>3, <1>8
<1> HIDE DEF r, q
<1>11. /\ req' \in [Requests -> Stages] /\ req'[r] = "spawned" /\ req'[q] = "spawned"
       /\ cmd' \in [Requests -> Settings \cup {Query}] /\ cmd'[r] = x /\ cmd'[q] = y
  BY <1>5, <1>6, <1>9, <1>10 DEF RequestTypes, Stages
<1>12. Waiting' = Waiting
  BY <1>6, <1>9, <1>10 DEF Waiting, RequestTypes
<1>13. LineHolds'
  BY <1>3, <1>12 DEF BaseInv, LineHolds
<1>14. RequestsKept(o)
  <2>1. \A d \in Ops \ {o}, i \in {1, 2} :
          req'[<<d, i>>] = req[<<d, i>>] /\ cmd'[<<d, i>>] = cmd[<<d, i>>]
    BY <1>6, <1>9, <1>10 DEF RequestTypes
  <2> QED
    BY <1>3, <1>6, <2>1 DEF RequestsKept, RequestTypes
<1>15. ValueTypes' /\ RequestTypes' /\ LocalTypes' /\ LocalsKept(o) /\ before'[o] = cache
  BY <1>1, <1>3, <1>6, <1>7, <1>11 DEF ValueTypes, RequestTypes, LocalTypes, LocalsKept
<1>16. pc'[o] = "call"
  BY <1>3, <1>6 DEF RequestTypes
<1>17. Shape(o)'
  <2>1. /\ req'[<<o, 1>>] = "spawned" /\ req'[<<o, 2>>] = "spawned"
        /\ cmd'[<<o, 1>>] = x /\ cmd'[<<o, 2>>] = y
    BY <1>11 DEF r, q
  <2>2. name'[o] = "scene" /\ script'[o] = <<>> /\ blinks'[o] = 0
    BY <1>1, <1>2, <1>3
  <2> QED
    BY <1>5, <1>16, <2>1, <2>2 DEF Shape
<1>18. BaseInv'
  BY <1>13, <1>14, <1>15, <1>17, BaseTogether
<1> QED
  BY <1>4, <1>11, <1>15, <1>18 DEF r, q, x, y

(* An operation may also return as it begins.                              *)
LEMMA ReturnAtOnce ==
    ASSUME BaseInv, NEW o \in Ops, NEW how \in {"ok", "error"}, pc[o] = "new",
           Return(o, how, line), UNCHANGED <<cache, seen, lamp, late, unsure>>
    PROVE  BaseInv' /\ pc'[o] = "done" /\ RequestsKept(o)
<1> DEFINE ln == line
<1>1. StateTypes /\ ValueTypes /\ FreeOf(o, ln) /\ Return(o, how, ln)
  BY NewOperation DEF BaseInv, StateTypes
<1> HIDE DEF ln
<1>2. /\ RequestTypes' /\ LocalTypes' /\ LineHolds' /\ RequestsKept(o) /\ LocalsKept(o)
      /\ Shape(o)' /\ pc'[o] = "done"
  BY <1>1, ReturnBase
<1>3. ValueTypes'
  BY <1>1 DEF ValueTypes
<1> QED
  BY <1>2, <1>3, BaseTogether

LEMMA FlashBegins ==
    ASSUME BaseInv, NEW o \in Ops, Begin(o, "flash"), StartFlashing(o, cache, line)
    PROVE  BaseInv'
<1>1. /\ pc[o] = "new" /\ name' \in [Ops -> Names] /\ name'[o] = "flash"
      /\ \A d \in Ops \ {o} : name'[d] = name[d]
      /\ UNCHANGED <<seen, lamp, late, result, unsure>>
  BY BeginBase, NamesListed
<1> DEFINE s == cache
           ln == line
           c == Blinking[1]
<1>2. FreeOf(o, ln) /\ req[<<o, 2>>] = "none" /\ s \in Known /\ StateTypes
      /\ StartFlashing(o, s, ln)
  BY <1>1, NewOperation DEF BaseInv, StateTypes, ValueTypes
<1> HIDE DEF s, ln
<1>3. /\ Issue(o, c, s, ln) /\ c \in Settings
      /\ script' \in [Ops -> Seq(Settings)] /\ blinks' \in [Ops -> Nat]
      /\ original' \in [Ops -> Known]
      /\ \A d \in Ops \ {o} : script'[d] = script[d] /\ blinks'[d] = blinks[d]
      /\ Shape(o)'
  BY <1>1, <1>2, FlashBase
<1> HIDE DEF c
<1>4. /\ RequestTypes' /\ LineHolds' /\ RequestsKept(o)
      /\ cache' \in Known /\ before' \in [Ops -> Known]
  BY <1>2, <1>3, IssueBase
<1>5. ValueTypes' /\ LocalTypes' /\ LocalsKept(o)
  BY <1>1, <1>2, <1>3, <1>4 DEF StateTypes, ValueTypes, LocalTypes, LocalsKept
<1> QED
  BY <1>3, <1>4, <1>5, BaseTogether

LEMMA StartBase ==
    ASSUME BaseInv, NEW o \in Ops, Start(o) \/ Refused(o)
    PROVE  BaseInv'
<1>1. CASE Command(o)
  <2>1. PICK c \in Settings : Issue(o, c, cache, line)
    BY <1>1 DEF Command
  <2> QED
    BY <1>1, <2>1, CommandBase DEF Command
<1>2. CASE Refresh(o)
  BY <1>2, AskBase DEF Refresh
<1>3. CASE Ask(o)
  BY <1>3, AskBase DEF Ask
<1>4. CASE GetCached(o) \/ Refused(o)
  BY <1>4, ReturnAtOnce DEF GetCached, Refused
<1>5. CASE Toggle(o)
  <2>1. CASE IssueQuery(o)
    BY <1>5, <2>1, AskBase DEF Toggle
  <2>2. CASE Issue(o, Flip(cache), cache, line)
    <3> DEFINE c == Flip(cache)
    <3>1. c \in Settings /\ Issue(o, c, cache, line) /\ Begin(o, "toggle")
          /\ UNCHANGED <<script, blinks, original>>
      BY <1>5, <2>2, FlipType DEF Toggle
    <3> HIDE DEF c
    <3> QED
      BY <3>1, CommandBase
  <2> QED
    BY <1>5, <2>1, <2>2 DEF Toggle
<1>6. CASE ApplyScene(o)
  BY <1>6, SceneBase
<1>7. CASE Flash(o)
  <2>1. CASE IssueQuery(o) /\ UNCHANGED <<script, blinks, original>>
    BY <1>7, <2>1, AskBase DEF Flash
  <2>2. CASE StartFlashing(o, cache, line)
    BY <1>7, <2>2, FlashBegins DEF Flash
  <2> QED
    BY <1>7, <2>1, <2>2 DEF Flash
<1> QED
  BY <1>1, <1>2, <1>3, <1>4, <1>5, <1>6, <1>7 DEF Start

(* One request goes on: it stays in the queue or outside, joins at the     *)
(* end, or leaves from the head.                                           *)
RequestMoves(r, stage) ==
    /\ req' = [req EXCEPT ![r] = stage]
    /\ \/ /\ line' = line
          /\ req[r] \in {"queued", "served"} <=> stage \in {"queued", "served"}
       \/ /\ line' = Append(line, r)
          /\ req[r] \notin {"queued", "served"} /\ stage \in {"queued", "served"}
       \/ /\ AtLamp(r) /\ line' = Freed /\ stage \notin {"queued", "served"}

LEMMA MoveBase ==
    ASSUME BaseInv, NEW r \in Requests, NEW stage \in Stages \ {"none"}, RequestMoves(r, stage),
           req[r] # "none",
           name[Operation(r)] = "scene" \/ stage \in {"queued", "served", "backoff"},
           ValueTypes', reply' \in [Ops -> Known], UNCHANGED <<cmd, pc, result, locals>>
    PROVE  BaseInv'
<1>1. /\ StateTypes /\ RequestTypes /\ LocalTypes /\ LineHolds
      /\ line \in Seq(Requests) /\ IsInjective(line) /\ Range(line) = Waiting
      /\ req \in [Requests -> Stages]
  BY DEF BaseInv, StateTypes, RequestTypes, LineHolds
<1>2. req' = [req EXCEPT ![r] = stage]
  BY DEF RequestMoves
<1>3. req' \in [Requests -> Stages] /\ req'[r] = stage /\ \A q \in Requests \ {r} : req'[q] = req[q]
  BY <1>1, <1>2
<1>4. line' \in Seq(Requests) /\ LineHolds'
  <2>1. CASE /\ line' = line
             /\ req[r] \in {"queued", "served"} <=> stage \in {"queued", "served"}
    <3>1. Waiting' = Waiting
      BY <1>3, <2>1 DEF Waiting
    <3> QED
      BY <1>1, <2>1, <3>1 DEF LineHolds
  <2>2. CASE /\ line' = Append(line, r)
             /\ req[r] \notin {"queued", "served"} /\ stage \in {"queued", "served"}
    <3>1. Waiting' = Waiting \cup {r} /\ r \notin Waiting
      BY <1>3, <2>2 DEF Waiting
    <3> DEFINE ln == line
    <3>2. ln \in Seq(Requests) /\ IsInjective(ln) /\ Range(ln) = Waiting
      BY <1>1
    <3> HIDE DEF ln
    <3>3. /\ Append(ln, r) \in Seq(Requests) /\ IsInjective(Append(ln, r))
          /\ Range(Append(ln, r)) = Waiting \cup {r}
      BY <3>1, <3>2, AppendNew, AppendProperties
    <3>4. line' = Append(ln, r)
      BY <2>2 DEF ln
    <3> QED
      BY <3>1, <3>3, <3>4 DEF LineHolds
  <2>3. CASE AtLamp(r) /\ line' = Freed /\ stage \notin {"queued", "served"}
    <3>1. Waiting' = Waiting \ {r}
      BY <1>3, <2>3 DEF Waiting
    <3> DEFINE ln == line
    <3>2. ln \in Seq(Requests) /\ IsInjective(ln) /\ Range(ln) = Waiting
          /\ ln # <<>> /\ Head(ln) = r /\ line' = Tail(ln)
      BY <1>1, <2>3 DEF AtLamp, Freed
    <3> HIDE DEF ln
    <3>3. Tail(ln) \in Seq(Requests) /\ IsInjective(Tail(ln)) /\ Range(Tail(ln)) = Waiting \ {r}
      BY <3>2, TailLeaves
    <3> QED
      BY <3>1, <3>2, <3>3 DEF LineHolds
  <2> QED
    BY <2>1, <2>2, <2>3 DEF RequestMoves
<1>5. PICK o \in Ops : Operation(r) = o /\ r \in Own(o)
  <2>1. Operation(r) \in Ops
    BY DEF Requests, Operation
  <2> QED
    BY <2>1, OwnRequests
<1>6. UNCHANGED <<cmd, pc, result, name, before, script, blinks, original>>
  BY DEF locals
<1>7. RequestTypes' /\ LocalTypes' /\ LocalsKept(o)
  BY <1>1, <1>3, <1>4, <1>6 DEF RequestTypes, LocalTypes, LocalsKept
<1>8. RequestsKept(o)
  <2>1. \A d \in Ops \ {o}, i \in {1, 2} : <<d, i>> \in Requests /\ <<d, i>> # r
    BY <1>5, OwnRequests
  <2>2. \A d \in Ops \ {o}, i \in {1, 2} : req'[<<d, i>>] = req[<<d, i>>]
    BY <1>3, <2>1
  <2> QED
    BY <1>6, <2>2 DEF RequestsKept
<1>9. Shape(o)'
  <2>1. Shape(o) /\ name'[o] = name[o] /\ script'[o] = script[o] /\ blinks'[o] = blinks[o]
        /\ pc'[o] = pc[o] /\ cmd'[<<o, 1>>] = cmd[<<o, 1>>] /\ cmd'[<<o, 2>>] = cmd[<<o, 2>>]
    BY <1>6 DEF BaseInv
  <2>2. /\ <<o, 1>> \in Requests /\ <<o, 2>> \in Requests /\ <<o, 1>> # <<o, 2>>
        /\ r = <<o, 1>> \/ r = <<o, 2>>
    BY <1>5, OwnRequests
  <2>3. CASE r = <<o, 1>>
    <3>1. req'[<<o, 1>>] = stage /\ req'[<<o, 2>>] = req[<<o, 2>>] /\ req[<<o, 1>>] # "none"
      BY <1>3, <2>2, <2>3
    <3>2. name[o] = "scene" \/ stage \in {"queued", "served", "backoff"}
      BY <1>5
    <3>3. stage # "none"
      OBVIOUS
    <3> QED
      BY <2>1, <3>1, <3>2, <3>3 DEF Shape
  <2>4. CASE r = <<o, 2>>
    <3>1. req'[<<o, 2>>] = stage /\ req'[<<o, 1>>] = req[<<o, 1>>] /\ req[<<o, 2>>] # "none"
      BY <1>3, <2>2, <2>4
    <3>2. stage # "none"
      OBVIOUS
    <3> QED
      BY <2>1, <3>1, <3>2 DEF Shape
  <2> QED
    BY <2>2, <2>3, <2>4
<1> QED
  BY <1>4, <1>7, <1>8, <1>9, BaseTogether

(* What giving up an attempt may leave behind.                             *)
LEMMA LeftBehind ==
    /\ \A w : MayStillRun(w) /\ late \subseteq Settings => late' \subseteq Settings
    /\ \A r : GivenUp(r) /\ late \subseteq Settings /\ unsure \subseteq Fields =>
                late' \subseteq Settings /\ unsure' \subseteq Fields
<1>1. ASSUME NEW w, MayStillRun(w), late \subseteq Settings
      PROVE  late' \subseteq Settings
  BY <1>1 DEF MayStillRun
<1>2. ASSUME NEW r, GivenUp(r), late \subseteq Settings, unsure \subseteq Fields
      PROVE  late' \subseteq Settings /\ unsure' \subseteq Fields
  <2> DEFINE f == {cmd[r].field} \cap Fields
             w == {cmd[r]}
  <2>1. CASE req[r] = "served" /\ unsure' = unsure \cup f /\ late' = late
    BY <1>2, <2>1
  <2>2. CASE req[r] = "queued" /\ MayStillRun(w) /\ unsure' = unsure
    BY <1>1, <1>2, <2>2
  <2> QED
    BY <1>2, <2>1, <2>2 DEF GivenUp
<1> QED
  BY <1>1, <1>2

LEMMA StagesListed ==
    /\ "none" \in Stages /\ "spawned" \in Stages /\ "queued" \in Stages /\ "served" \in Stages
    /\ "backoff" \in Stages /\ "ok" \in Stages /\ "error" \in Stages
BY DEF Stages

(* A request of an operation that makes only one is the first.             *)
LEMMA OnlyOne ==
    ASSUME BaseInv, NEW r \in Requests, req[r] # "none", name[Operation(r)] # "scene"
    PROVE  /\ r = <<Operation(r), 1>> /\ req[<<Operation(r), 2>>] = "none"
           /\ pc[Operation(r)] = "call"
<1>1. PICK o \in Ops : Operation(r) = o /\ (r = <<o, 1>> \/ r = <<o, 2>>)
  BY DEF Requests, Operation
<1>2. Shape(o) /\ name[o] # "scene"
  BY <1>1 DEF BaseInv
<1> QED
  BY <1>1, <1>2 DEF Shape

(* The tasks of a scene exist in a scene only.                             *)
LEMMA OnlyInScene ==
    ASSUME BaseInv, NEW r \in Requests, req[r] \in {"spawned", "ok", "error"}
    PROVE  name[Operation(r)] = "scene"
<1>1. PICK o \in Ops : Operation(r) = o /\ (r = <<o, 1>> \/ r = <<o, 2>>)
  BY DEF Requests, Operation
<1>2. Shape(o)
  BY <1>1 DEF BaseInv
<1> QED
  BY <1>1, <1>2 DEF Shape

(* The steps of a request under way.                                       *)
LEMMA TaskBase ==
    ASSUME BaseInv, NEW r \in Requests, TaskStarts(r) \/ TaskRefused(r)
    PROVE  BaseInv'
<1>1. StateTypes /\ ValueTypes /\ RequestTypes
  BY DEF BaseInv, StateTypes
<1>2. req[r] = "spawned" /\ UNCHANGED <<cache, seen, lamp, late, cmd, reply, pc, result, locals, unsure>>
  BY DEF TaskStarts, TaskRefused
<1>3. name[Operation(r)] = "scene"
  BY <1>2, OnlyInScene
<1>4. ValueTypes' /\ reply' \in [Ops -> Known]
  BY <1>1, <1>2 DEF ValueTypes, RequestTypes
<1>5. CASE TaskStarts(r)
  <2>1. RequestMoves(r, "queued")
    BY <1>2, <1>5 DEF TaskStarts, RequestMoves
  <2> QED
    BY <1>2, <1>3, <1>4, <2>1, StagesListed, MoveBase
<1>6. CASE TaskRefused(r)
  <2>1. RequestMoves(r, "error")
    BY <1>2, <1>6 DEF TaskRefused, RequestMoves
  <2> QED
    BY <1>2, <1>3, <1>4, <2>1, StagesListed, MoveBase
<1> QED
  BY <1>5, <1>6

LEMMA ServeBase ==
    ASSUME BaseInv, NEW r \in Requests, LampServes(r)
    PROVE  BaseInv'
<1>1. StateTypes /\ ValueTypes /\ RequestTypes
  BY DEF BaseInv, StateTypes
<1>2. req[r] = "queued" /\ req' = [req EXCEPT ![r] = "served"]
      /\ UNCHANGED <<cache, seen, late, line, cmd, pc, result, locals>>
  BY DEF LampServes
<1>3. RequestMoves(r, "served")
  BY <1>2 DEF RequestMoves
<1>4. lamp' \in Known /\ (\A f \in Fields : lamp'[f] \in Values(f)) /\ unsure' \subseteq Fields
      /\ reply' \in [Ops -> Known]
  <2>1. CASE /\ \E s \in {lamp, Empty} :
                  /\ name[Operation(r)] = "ask" => s = Empty
                  /\ reply' = [reply EXCEPT ![Operation(r)] = s]
             /\ UNCHANGED <<lamp, unsure>>
    <3>1. PICK s \in {lamp, Empty} : reply' = [reply EXCEPT ![Operation(r)] = s]
      BY <2>1
    <3>2. s \in Known
      BY <1>1, EmptyKnown DEF ValueTypes
    <3>3. reply' \in [Ops -> Known]
      BY <1>1, <3>1, <3>2 DEF RequestTypes
    <3> QED
      BY <1>1, <2>1, <3>3 DEF ValueTypes
  <2>2. CASE /\ cmd[r] # Query
             /\ lamp' = [lamp EXCEPT ![cmd[r].field] = cmd[r].value]
             /\ unsure' = unsure \ {cmd[r].field}
             /\ UNCHANGED reply
    <3> DEFINE c == cmd[r]
               s == lamp
    <3>1. c \in Settings
      BY <1>1, <2>2 DEF RequestTypes
    <3>2. s \in Known /\ (\A f \in Fields : s[f] \in Values(f)) /\ lamp' = [s EXCEPT ![c.field] = c.value]
      BY <1>1, <2>2 DEF ValueTypes
    <3> HIDE DEF c, s
    <3>3. /\ lamp' \in Known /\ lamp'[c.field] = c.value
          /\ \A f \in Fields : f # c.field => lamp'[f] = s[f]
      BY <3>1, <3>2, KnownPut
    <3>4. c.value \in Values(c.field)
      BY <3>1, SettingType
    <3>5. \A f \in Fields : lamp'[f] \in Values(f)
      BY <3>2, <3>3, <3>4
    <3> QED
      BY <1>1, <2>2, <3>3, <3>5 DEF ValueTypes, RequestTypes
  <2> QED
    BY <2>1, <2>2 DEF LampServes
<1>5. ValueTypes'
  BY <1>1, <1>2, <1>4 DEF ValueTypes
<1> QED
  BY <1>2, <1>3, <1>4, <1>5, StagesListed, MoveBase

LEMMA RetryBase ==
    ASSUME BaseInv, NEW r \in Requests, BacksOff(r) \/ Retries(r)
    PROVE  BaseInv'
<1>1. StateTypes /\ ValueTypes /\ RequestTypes
  BY DEF BaseInv, StateTypes
<1>2. CASE BacksOff(r)
  <2>1. /\ AtLamp(r) /\ GivenUp(r) /\ req' = [req EXCEPT ![r] = "backoff"] /\ line' = Freed
        /\ reply' = [reply EXCEPT ![Operation(r)] = Empty]
        /\ UNCHANGED <<cache, seen, lamp, cmd, pc, result, locals>>
    BY <1>2 DEF BacksOff
  <2>2. RequestMoves(r, "backoff") /\ req[r] # "none"
    BY <2>1 DEF RequestMoves, GivenUp
  <2>3. ValueTypes'
    BY <1>1, <2>1, LeftBehind DEF ValueTypes
  <2>4. reply' \in [Ops -> Known]
    BY <1>1, <2>1, EmptyKnown DEF RequestTypes
  <2> QED
    BY <2>1, <2>2, <2>3, <2>4, StagesListed, MoveBase
<1>3. CASE Retries(r)
  <2>1. /\ req[r] = "backoff" /\ req' = [req EXCEPT ![r] = "queued"] /\ line' = Append(line, r)
        /\ UNCHANGED <<cache, seen, lamp, late, cmd, reply, pc, result, locals, unsure>>
    BY <1>3 DEF Retries
  <2>2. RequestMoves(r, "queued")
    BY <2>1 DEF RequestMoves
  <2>3. ValueTypes' /\ reply' \in [Ops -> Known]
    BY <1>1, <2>1 DEF ValueTypes, RequestTypes
  <2> QED
    BY <2>1, <2>2, <2>3, StagesListed, MoveBase
<1> QED
  BY <1>2, <1>3

LEMMA TaskEndBase ==
    ASSUME BaseInv, NEW r \in Requests, NEW how \in {"ok", "error"}, AtLamp(r), req[r] # "none",
           TaskEnds(r, how), lamp' = lamp, late' \subseteq Settings, unsure' \subseteq Fields
    PROVE  BaseInv'
<1>1. StateTypes /\ ValueTypes /\ RequestTypes
  BY DEF BaseInv, StateTypes
<1>2. /\ name[Operation(r)] = "scene" /\ req' = [req EXCEPT ![r] = how] /\ line' = Freed
      /\ UNCHANGED <<cache, seen, cmd, reply, pc, result, locals>>
  BY DEF TaskEnds
<1>3. RequestMoves(r, how)
  BY <1>2 DEF RequestMoves
<1>4. ValueTypes' /\ reply' \in [Ops -> Known]
  BY <1>1, <1>2 DEF ValueTypes, RequestTypes
<1> QED
  BY <1>2, <1>3, <1>4, StagesListed, MoveBase

(* What the listener is told.                                              *)
LEMMA EmitType ==
    ASSUME seen \in Known \cup {Deaf, Silent}, NEW old, NEW new \in Known, Emit(old, new)
    PROVE  seen' \in Known \cup {Deaf, Silent}
BY DEF Emit

(* An operation returns, restores, or issues its next command.             *)
LEMMA Returns ==
    ASSUME BaseInv, NEW o \in Ops, NEW how \in {"ok", "error", "cancelled"}, NEW ln,
           FreeOf(o, ln), Return(o, how, ln), ValueTypes'
    PROVE  BaseInv'
<1>1. StateTypes
  BY DEF BaseInv
<1>2. /\ RequestTypes' /\ LocalTypes' /\ LineHolds' /\ RequestsKept(o) /\ LocalsKept(o)
      /\ Shape(o)'
  BY <1>1, ReturnBase
<1> QED
  BY <1>2, BaseTogether

(* An operation with a script has one request at most.                     *)
LEMMA OneRequest ==
    ASSUME BaseInv, NEW o \in Ops, blinks[o] > 0 \/ script[o] # <<>> \/ pc[o] = "pause"
    PROVE  /\ req[<<o, 2>>] = "none" /\ name[o] = "flash" /\ script[o] # <<>>
<1>1. Shape(o) /\ script[o] \in Seq(Settings)
  BY DEF BaseInv, StateTypes, LocalTypes
<1>2. script[o] # <<>>
  <2>1. CASE pc[o] = "pause"
    <3>1. Len(script[o]) > 1
      BY <1>1, <2>1 DEF Shape
    <3> QED
      BY <1>1, <3>1, EmptySeq
  <2>2. CASE pc[o] # "pause"
    BY <1>1, <2>2 DEF Shape
  <2> QED
    BY <2>1, <2>2
<1>3. name[o] = "flash"
  BY <1>1, <1>2 DEF Shape
<1>4. req[<<o, 2>>] = "none"
  BY <1>1, <1>3 DEF Shape
<1> QED
  BY <1>2, <1>3, <1>4

LEMMA Restores ==
    ASSUME BaseInv, NEW o \in Ops, NEW how \in {"error", "cancelled"}, NEW s \in Known, NEW ln,
           FreeOf(o, ln), blinks[o] > 0, StartRestoring(o, s, ln),
           result' = [result EXCEPT ![o] = how], name' = name, original' = original,
           seen' \in Known \cup {Deaf, Silent}, lamp' = lamp,
           late' \subseteq Settings, unsure' \subseteq Fields
    PROVE  BaseInv'
<1>1. StateTypes /\ ValueTypes /\ LocalTypes /\ Shape(o) /\ req[<<o, 2>>] = "none"
  BY OneRequest DEF BaseInv, StateTypes
<1>2. /\ script' \in [Ops -> Seq(Settings)] /\ blinks' \in [Ops -> Nat]
      /\ \A d \in Ops \ {o} : script'[d] = script[d] /\ blinks'[d] = blinks[d]
      /\ \E c \in Settings : Issue(o, c, s, ln)
      /\ Shape(o)'
  BY <1>1, RestoreBase
<1>3. PICK c \in Settings : Issue(o, c, s, ln)
  BY <1>2
<1>4. /\ RequestTypes' /\ LineHolds' /\ RequestsKept(o)
      /\ cache' \in Known /\ before' \in [Ops -> Known]
  BY <1>1, <1>3, IssueBase
<1>5. ValueTypes'
  BY <1>1, <1>4 DEF ValueTypes
<1>6. result' \in [Ops -> {"none", "ok", "error", "cancelled"}]
  BY <1>1 DEF LocalTypes
<1>7. LocalTypes' /\ LocalsKept(o)
  BY <1>1, <1>2, <1>4, <1>6 DEF LocalTypes, LocalsKept
<1> QED
  BY <1>2, <1>4, <1>5, <1>7, BaseTogether

LEMMA RaisedBase ==
    ASSUME BaseInv, NEW o \in Ops, NEW how \in {"error", "cancelled"}, NEW s \in Known, NEW ln,
           FreeOf(o, ln), Raised(o, how, s, ln), lamp' = lamp,
           late' \subseteq Settings, unsure' \subseteq Fields
    PROVE  BaseInv'
<1>1. ValueTypes
  BY DEF BaseInv, StateTypes
<1>2. seen' \in Known \cup {Deaf, Silent}
  <2> DEFINE old == before[o]
  <2>1. Emit(old, s)
    BY DEF Raised
  <2> HIDE DEF old
  <2> QED
    BY <1>1, <2>1, EmitType DEF ValueTypes
<1>3. CASE cache' = s /\ Return(o, how, ln)
  <2>1. ValueTypes'
    BY <1>1, <1>2, <1>3 DEF ValueTypes
  <2> QED
    BY <1>3, <2>1, Returns
<1>4. CASE /\ blinks[o] > 0 /\ StartRestoring(o, s, ln)
           /\ result' = [result EXCEPT ![o] = how]
           /\ UNCHANGED <<name, original, found>>
  BY <1>2, <1>4, Restores
<1> QED
  BY <1>3, <1>4 DEF Raised

(* The lock is released by an operation with one request.                  *)
LEMMA FreeOne ==
    ASSUME BaseInv, NEW r \in Requests, AtLamp(r), req[r] # "none",
           name[Operation(r)] # "scene" \/ cmd[r] = Query
    PROVE  /\ FreeOf(Operation(r), Freed) /\ name[Operation(r)] # "scene"
           /\ r = <<Operation(r), 1>> /\ req[<<Operation(r), 2>>] = "none"
           /\ pc[Operation(r)] = "call" /\ Operation(r) \in Ops
<1>1. PICK o \in Ops : Operation(r) = o /\ (r = <<o, 1>> \/ r = <<o, 2>>)
  BY DEF Requests, Operation
<1>2. Shape(o)
  BY DEF BaseInv
<1>3. name[o] # "scene"
  BY <1>1, <1>2, QueryIsNoSetting DEF Shape
<1>4. r = <<o, 1>> /\ req[<<o, 2>>] = "none" /\ pc[o] = "call"
  BY <1>1, <1>2, <1>3 DEF Shape
<1>5. r \in Own(o) /\ \A q \in Own(o) : q = r \/ req[q] \notin {"queued", "served"}
  BY <1>4, OwnRequests
<1>6. FreeOf(o, Freed)
  BY <1>5, FreeFreed
<1> QED
  BY <1>1, <1>3, <1>4, <1>6

(* flash() sleeps.                                                         *)
LEMMA PauseBase ==
    ASSUME BaseInv, NEW o \in Ops, FreeOf(o, Freed), req[<<o, 2>>] = "none", pc[o] = "call",
           name[o] # "scene", Len(script[o]) > 1, ValueTypes',
           pc' = [pc EXCEPT ![o] = "pause"], req' = [req EXCEPT ![<<o, 1>>] = "none"],
           line' = Freed, UNCHANGED <<cmd, reply, result, locals>>
    PROVE  BaseInv'
<1>1. StateTypes /\ RequestTypes /\ LocalTypes /\ Shape(o)
  BY DEF BaseInv, StateTypes
<1>2. /\ Own(o) = {<<o, 1>>, <<o, 2>>} /\ <<o, 1>> \in Requests /\ <<o, 2>> \in Requests
      /\ <<o, 1>> # <<o, 2>>
      /\ \A d \in Ops \ {o}, i \in {1, 2} : <<d, i>> \in Requests /\ <<d, i>> # <<o, 1>>
  BY OwnRequests
<1>3. /\ req' \in [Requests -> Stages] /\ req'[<<o, 1>>] = "none" /\ req'[<<o, 2>>] = "none"
      /\ \A q \in Requests \ {<<o, 1>>} : req'[q] = req[q]
  BY <1>1, <1>2, StagesListed DEF RequestTypes
<1>4. Waiting' = Waiting \ Own(o)
  BY <1>2, <1>3 DEF Waiting
<1>5. line' \in Seq(Requests) /\ LineHolds'
  BY <1>4 DEF FreeOf, LineHolds
<1>6. UNCHANGED <<cmd, reply, result, name, before, script, blinks, original>>
  BY DEF locals
<1>7. /\ pc' \in [Ops -> {"new", "call", "pause", "done"}] /\ pc'[o] = "pause"
      /\ \A d \in Ops \ {o} : pc'[d] = pc[d]
  BY <1>1 DEF RequestTypes
<1>8. RequestTypes' /\ LocalTypes' /\ LocalsKept(o)
  BY <1>1, <1>3, <1>5, <1>6, <1>7 DEF RequestTypes, LocalTypes, LocalsKept
<1>9. RequestsKept(o)
  <2>1. \A d \in Ops \ {o}, i \in {1, 2} : req'[<<d, i>>] = req[<<d, i>>]
    BY <1>2, <1>3
  <2> QED
    BY <1>6, <1>7, <2>1 DEF RequestsKept
<1>10. Shape(o)'
  <2>1. script[o] # <<>>
    BY <1>1, EmptySeq DEF LocalTypes
  <2>2. name[o] = "flash" /\ cmd[<<o, 1>>] = script[o][1]
    BY <1>1, <2>1 DEF Shape
  <2> QED
    BY <1>1, <1>3, <1>6, <1>7, <2>1, <2>2 DEF Shape
<1> QED
  BY <1>5, <1>8, <1>9, <1>10, BaseTogether

LEMMA AnsweredBase ==
    ASSUME BaseInv, NEW r \in Requests, AtLamp(r), req[r] = "served",
           Answered(Operation(r)), UNCHANGED <<lamp, late, unsure>>
    PROVE  BaseInv'
<1>1. PICK o \in Ops : o = Operation(r)
  BY DEF Requests, Operation
<1>2. /\ name[o] # "scene" /\ FreeOf(o, Freed) /\ req[<<o, 2>>] = "none" /\ pc[o] = "call"
      /\ Answered(o)
  BY <1>1, FreeOne DEF Answered
<1>3. ValueTypes'
  <2>1. ValueTypes
    BY DEF BaseInv, StateTypes
  <2> DEFINE new == cache
             old == before[o]
  <2>2. Emit(old, new) /\ new \in Known /\ cache' = cache
    BY <1>2, <2>1 DEF Answered, ValueTypes
  <2> HIDE DEF new, old
  <2>3. seen' \in Known \cup {Deaf, Silent}
    BY <2>1, <2>2, EmitType DEF ValueTypes
  <2> QED
    BY <2>1, <2>2, <2>3 DEF ValueTypes
<1>4. CASE Return(o, "ok", Freed)
  <2> DEFINE ln == Freed
  <2>1. FreeOf(o, ln) /\ Return(o, "ok", ln)
    BY <1>2, <1>4
  <2> HIDE DEF ln
  <2> QED
    BY <1>3, <2>1, Returns
<1>5. CASE /\ Len(script[o]) > 1
           /\ pc' = [pc EXCEPT ![o] = "pause"]
           /\ req' = [req EXCEPT ![<<o, 1>>] = "none"]
           /\ line' = Freed
           /\ UNCHANGED <<cmd, reply, result, locals>>
  BY <1>2, <1>3, <1>5, PauseBase
<1> QED
  BY <1>2, <1>4, <1>5 DEF Answered

(* The next command of an operation whose script does not begin or end.    *)
LEMMA GoesOn ==
    ASSUME BaseInv, NEW o \in Ops, NEW c \in Settings, NEW s \in Known, NEW ln,
           FreeOf(o, ln), req[<<o, 2>>] = "none", Issue(o, c, s, ln), name[o] = "toggle",
           UNCHANGED <<name, script, blinks, result, original>>,
           seen' \in Known \cup {Deaf, Silent}, UNCHANGED <<lamp, late, unsure>>
    PROVE  BaseInv'
<1>1. StateTypes /\ ValueTypes /\ LocalTypes /\ Shape(o)
  BY DEF BaseInv, StateTypes
<1>2. /\ RequestTypes' /\ LineHolds' /\ RequestsKept(o)
      /\ cache' \in Known /\ before' \in [Ops -> Known]
      /\ pc'[o] = "call" /\ cmd'[<<o, 1>>] = c
      /\ req'[<<o, 1>>] = "queued" /\ req'[<<o, 2>>] = "none"
  BY <1>1, IssueBase
<1>3. ValueTypes' /\ LocalTypes' /\ LocalsKept(o)
  BY <1>1, <1>2 DEF ValueTypes, LocalTypes, LocalsKept
<1>4. Shape(o)'
  BY <1>1, <1>2 DEF Shape
<1> QED
  BY <1>2, <1>3, <1>4, BaseTogether

LEMMA FlashGoesOn ==
    ASSUME BaseInv, NEW o \in Ops, NEW s \in Known, NEW ln,
           FreeOf(o, ln), req[<<o, 2>>] = "none", StartFlashing(o, s, ln), name[o] = "flash",
           UNCHANGED <<name, result>>,
           seen' \in Known \cup {Deaf, Silent}, UNCHANGED <<lamp, late, unsure>>
    PROVE  BaseInv'
<1> DEFINE c == Blinking[1]
<1>1. StateTypes /\ ValueTypes /\ LocalTypes /\ name'[o] = "flash"
  BY DEF BaseInv, StateTypes
<1>2. /\ Issue(o, c, s, ln) /\ c \in Settings
      /\ script' \in [Ops -> Seq(Settings)] /\ blinks' \in [Ops -> Nat]
      /\ original' \in [Ops -> Known]
      /\ \A d \in Ops \ {o} : script'[d] = script[d] /\ blinks'[d] = blinks[d]
      /\ Shape(o)'
  BY <1>1, FlashBase
<1> HIDE DEF c
<1>3. /\ RequestTypes' /\ LineHolds' /\ RequestsKept(o)
      /\ cache' \in Known /\ before' \in [Ops -> Known]
  BY <1>1, <1>2, IssueBase
<1>4. ValueTypes' /\ LocalTypes' /\ LocalsKept(o)
  BY <1>1, <1>2, <1>3 DEF ValueTypes, LocalTypes, LocalsKept
<1> QED
  BY <1>2, <1>3, <1>4, BaseTogether

LEMMA ReportedBase ==
    ASSUME BaseInv, NEW r \in Requests, AtLamp(r), req[r] = "served",
           Reported(Operation(r)), UNCHANGED <<lamp, late, unsure>>
    PROVE  BaseInv'
<1>1. PICK o \in Ops : o = Operation(r)
  BY DEF Requests, Operation
<1> DEFINE s == reply[o]
           ln == Freed
           old == before[o]
<1>2. /\ name[o] \in {"ask", "get", "toggle", "flash"}
      /\ IF name[o] = "ask" THEN UNCHANGED seen ELSE Emit(old, s)
      /\ \/ name[o] = "ask" /\ UNCHANGED cache /\ Return(o, "ok", ln)
         \/ name[o] = "get" /\ cache' = s /\ Return(o, "ok", ln)
         \/ /\ name[o] = "toggle" /\ Issue(o, Flip(s), s, ln)
            /\ UNCHANGED <<name, script, blinks, result, original, found>>
         \/ /\ name[o] = "flash" /\ StartFlashing(o, s, ln)
            /\ UNCHANGED <<name, result, found>>
  BY <1>1 DEF Reported
<1>3. FreeOf(o, ln) /\ req[<<o, 2>>] = "none"
  BY <1>1, <1>2, FreeOne
<1>4. ValueTypes /\ s \in Known
  BY DEF BaseInv, StateTypes, RequestTypes
<1> HIDE DEF s, ln, old
<1>5. seen' \in Known \cup {Deaf, Silent}
  BY <1>2, <1>4, EmitType DEF ValueTypes
<1>6. CASE (cache' = cache \/ cache' = s) /\ Return(o, "ok", ln)
  <2>1. ValueTypes'
    BY <1>4, <1>5, <1>6 DEF ValueTypes
  <2> QED
    BY <1>3, <1>6, <2>1, Returns
<1>7. CASE /\ name[o] = "toggle" /\ Issue(o, Flip(s), s, ln)
           /\ UNCHANGED <<name, script, blinks, result, original, found>>
  <2> DEFINE c == Flip(s)
  <2>1. c \in Settings /\ Issue(o, c, s, ln)
    BY <1>7, FlipType
  <2> HIDE DEF c
  <2> QED
    BY <1>3, <1>4, <1>5, <1>7, <2>1, GoesOn
<1>8. CASE name[o] = "flash" /\ StartFlashing(o, s, ln) /\ UNCHANGED <<name, result, found>>
  BY <1>3, <1>4, <1>5, <1>8, FlashGoesOn
<1> QED
  BY <1>2, <1>6, <1>7, <1>8

LEMMA SucceedsBase ==
    ASSUME BaseInv, NEW r \in Requests, Succeeds(r)
    PROVE  BaseInv'
<1>1. AtLamp(r) /\ req[r] = "served" /\ UNCHANGED <<lamp, late, unsure>>
  BY DEF Succeeds
<1>2. CASE TaskEnds(r, "ok")
  <2>1. late \subseteq Settings /\ unsure \subseteq Fields
    BY DEF BaseInv, StateTypes, ValueTypes
  <2> QED
    BY <1>1, <1>2, <2>1, TaskEndBase
<1>3. CASE Answered(Operation(r))
  BY <1>1, <1>3, AnsweredBase
<1>4. CASE Reported(Operation(r))
  BY <1>1, <1>4, ReportedBase
<1> QED
  BY <1>2, <1>3, <1>4 DEF Succeeds

(* A rollback leaves a state of the cache.                                 *)
LEMMA RollbackType ==
    ASSUME BaseInv, NEW o \in Ops, NEW F
    PROVE  RolledBack(o, F) \in Known
<1>1. cache \in Known /\ before[o] \in Known
  BY DEF BaseInv, StateTypes, ValueTypes, LocalTypes
<1> QED
  BY <1>1, KnownMix DEF RolledBack

LEMMA FailsBase ==
    ASSUME BaseInv, NEW r \in Requests, Fails(r)
    PROVE  BaseInv'
<1>1. PICK o \in Ops : o = Operation(r)
  BY DEF Requests, Operation
<1>2. AtLamp(r) /\ GivenUp(r) /\ UNCHANGED lamp /\ req[r] # "none"
  BY DEF Fails, GivenUp
<1>3. late' \subseteq Settings /\ unsure' \subseteq Fields
  BY <1>2, LeftBehind DEF BaseInv, StateTypes, ValueTypes
<1> DEFINE ln == Freed
           s == RolledBack(o, {cmd[r].field})
<1>4. CASE TaskEnds(r, "error")
  BY <1>2, <1>3, <1>4, TaskEndBase
<1>5. CASE name[o] # "scene" /\ cmd[r] # Query /\ Raised(o, "error", s, ln)
  <2>1. FreeOf(o, ln)
    BY <1>1, <1>2, <1>5, FreeOne
  <2>2. s \in Known /\ Raised(o, "error", s, ln)
    BY <1>5, RollbackType
  <2> HIDE DEF ln, s
  <2> QED
    BY <1>2, <1>3, <2>1, <2>2, RaisedBase
<1>6. CASE cmd[r] = Query /\ Return(o, "error", ln) /\ UNCHANGED <<cache, seen>>
  <2>1. FreeOf(o, ln)
    BY <1>1, <1>2, <1>6, FreeOne
  <2>2. ValueTypes'
    BY <1>2, <1>3, <1>6 DEF BaseInv, StateTypes, ValueTypes
  <2> HIDE DEF ln
  <2> QED
    BY <1>6, <2>1, <2>2, Returns
<1> QED
  BY <1>1, <1>4, <1>5, <1>6 DEF Fails

LEMMA SceneEndBase ==
    ASSUME BaseInv, NEW o \in Ops, SceneEnds(o)
    PROVE  BaseInv'
<1> DEFINE F == {cmd[r].field : r \in {q \in Own(o) : req[q] = "error"}}
           s == RolledBack(o, F)
           how == IF F = {} THEN "ok" ELSE "error"
           ln == line
           old == before[o]
<1>1. /\ \A r \in Own(o) : req[r] \in {"ok", "error"}
      /\ cache' = s /\ Emit(old, s) /\ Return(o, how, ln) /\ UNCHANGED <<lamp, late, unsure>>
  BY DEF SceneEnds
<1>2. FreeOf(o, ln)
  BY <1>1, FreeLine
<1>3. how \in {"ok", "error", "cancelled"}
  OBVIOUS
<1>4. s \in Known
  <2> HIDE DEF F
  <2> QED
    BY RollbackType
<1>5. ValueTypes
  BY DEF BaseInv, StateTypes
<1> HIDE DEF F, s, how, ln, old
<1>6. seen' \in Known \cup {Deaf, Silent}
  BY <1>1, <1>4, <1>5, EmitType DEF ValueTypes
<1>7. ValueTypes'
  BY <1>1, <1>4, <1>5, <1>6 DEF ValueTypes
<1> QED
  BY <1>1, <1>2, <1>3, <1>7, Returns

LEMMA WakeBase ==
    ASSUME BaseInv, NEW o \in Ops, WakesUp(o)
    PROVE  BaseInv'
<1>1. StateTypes /\ ValueTypes /\ LocalTypes /\ Shape(o) /\ pc[o] = "pause"
  BY DEF BaseInv, StateTypes, WakesUp
<1>2. /\ req[<<o, 1>>] = "none" /\ req[<<o, 2>>] = "none" /\ Len(script[o]) > 1
      /\ name[o] = "flash"
  BY <1>1, OneRequest DEF Shape
<1> DEFINE sc == script[o]
           c == sc[2]
           s == cache
           ln == line
           n == blinks[o]
<1>3. /\ script' = [script EXCEPT ![o] = Tail(sc)]
      /\ blinks' = [blinks EXCEPT ![o] = IF n = 0 THEN 0 ELSE n - 1]
      /\ Issue(o, c, s, ln)
      /\ UNCHANGED <<seen, lamp, late, name, result, original, unsure>>
  BY DEF WakesUp
<1>4. sc \in Seq(Settings) /\ n \in Nat /\ s \in Known /\ (n > 0 => n < Len(sc)) /\ Len(sc) > 1
  BY <1>1, <1>2 DEF LocalTypes, ValueTypes, Shape
<1>5. FreeOf(o, ln)
  <2>1. \A r \in Own(o) : req[r] \notin {"queued", "served"}
    BY <1>2, OwnRequests
  <2> QED
    BY <2>1, FreeLine
<1> HIDE DEF sc, s, ln, n
<1>6. /\ Tail(sc) \in Seq(Settings) /\ Tail(sc) # <<>> /\ Len(Tail(sc)) = Len(sc) - 1
      /\ Tail(sc)[1] = c /\ c \in Settings
  BY <1>4, TailOfScript
<1> HIDE DEF c
<1> DEFINE z == Tail(sc)
           m == IF n = 0 THEN 0 ELSE n - 1
<1>7. /\ z \in Seq(Settings) /\ z # <<>> /\ z[1] = c /\ m \in Nat
      /\ script' = [script EXCEPT ![o] = z] /\ blinks' = [blinks EXCEPT ![o] = m]
  BY <1>3, <1>4, <1>6
<1>8. m > 0 => m < Len(z)
  <2>1. Len(sc) \in Nat /\ Len(z) = Len(sc) - 1
    BY <1>4, <1>6, LenProperties
  <2> QED
    BY <1>4, <2>1
<1> HIDE DEF z, m
<1>9. /\ RequestTypes' /\ LineHolds' /\ RequestsKept(o)
      /\ cache' \in Known /\ before' \in [Ops -> Known]
      /\ pc'[o] = "call" /\ cmd'[<<o, 1>>] = c
      /\ req'[<<o, 1>>] = "queued" /\ req'[<<o, 2>>] = "none"
  BY <1>1, <1>2, <1>3, <1>4, <1>5, <1>6, IssueBase
<1>10. /\ script' \in [Ops -> Seq(Settings)] /\ blinks' \in [Ops -> Nat]
       /\ script'[o] = z /\ blinks'[o] = m
       /\ \A d \in Ops \ {o} : script'[d] = script[d] /\ blinks'[d] = blinks[d]
  BY <1>1, <1>7 DEF LocalTypes
<1>11. ValueTypes' /\ LocalTypes' /\ LocalsKept(o)
  BY <1>1, <1>3, <1>9, <1>10 DEF ValueTypes, LocalTypes, LocalsKept
<1>12. Shape(o)'
  BY <1>2, <1>3, <1>7, <1>8, <1>9, <1>10 DEF Shape
<1> QED
  BY <1>9, <1>11, <1>12, BaseTogether

LEMMA CancelBase ==
    ASSUME BaseInv, NEW o \in Ops, Cancel(o)
    PROVE  BaseInv'
<1> DEFINE places == {"spawned", "queued", "backoff", "error"}
           lost == {c.field : c \in {cmd[r] : r \in {q \in Own(o) : req[q] \in places}}}
           holding == {cmd[r] : r \in {q \in Own(o) : AtLamp(q) /\ req[q] = "queued"}}
           ln == RemoveFirst(RemoveFirst(line, <<o, 1>>), <<o, 2>>)
           s == cache
<1>1. /\ unsure' = unsure \cup (lost \cap Fields) /\ MayStillRun(holding) /\ UNCHANGED lamp
      /\ \/ pc[o] = "call" /\ cmd[<<o, 1>>] # Query /\ Raised(o, "cancelled", s, ln)
         \/ /\ pc[o] = "call" /\ cmd[<<o, 1>>] = Query
            /\ Return(o, "cancelled", ln)
            /\ UNCHANGED <<cache, seen>>
         \/ /\ pc[o] = "pause" /\ blinks[o] > 0
            /\ StartRestoring(o, s, ln)
            /\ result' = [result EXCEPT ![o] = "cancelled"]
            /\ UNCHANGED <<seen, name, original, found>>
         \/ /\ pc[o] = "pause" /\ blinks[o] = 0
            /\ Return(o, "cancelled", ln)
            /\ UNCHANGED <<cache, seen>>
  BY DEF Cancel
<1>2. FreeOf(o, ln)
  BY FreeOthers
<1>3. ValueTypes /\ s \in Known
  BY DEF BaseInv, StateTypes, ValueTypes
<1> HIDE DEF lost, holding, ln, s
<1>4. late' \subseteq Settings /\ unsure' \subseteq Fields
  BY <1>1, <1>3, LeftBehind DEF ValueTypes
<1>5. CASE Raised(o, "cancelled", s, ln)
  BY <1>1, <1>2, <1>3, <1>4, <1>5, RaisedBase
<1>6. CASE Return(o, "cancelled", ln) /\ UNCHANGED <<cache, seen>>
  <2>1. ValueTypes'
    BY <1>1, <1>3, <1>4, <1>6 DEF ValueTypes
  <2> QED
    BY <1>2, <1>6, <2>1, Returns
<1>7. CASE /\ blinks[o] > 0 /\ StartRestoring(o, s, ln)
           /\ result' = [result EXCEPT ![o] = "cancelled"]
           /\ UNCHANGED <<seen, name, original, found>>
  <2>1. seen' \in Known \cup {Deaf, Silent} /\ name' = name /\ original' = original
    BY <1>3, <1>7 DEF ValueTypes
  <2> QED
    BY <1>1, <1>2, <1>3, <1>4, <1>7, <2>1, Restores
<1> QED
  BY <1>1, <1>5, <1>6, <1>7

LEMMA OutsideBase ==
    ASSUME BaseInv, (\E c \in late : LateRuns(c)) \/ (\E s \in {Deaf, Silent} : Listen(s))
    PROVE  BaseInv'
<1>1. StateTypes /\ ValueTypes /\ RequestTypes /\ LocalTypes
  BY DEF BaseInv, StateTypes
<1>2. UNCHANGED <<cache, line, req, cmd, reply, pc, name, before, script, blinks, result, original>>
  BY DEF LateRuns, Listen, locals
<1>3. ValueTypes'
  <2>1. ASSUME NEW c \in late, LateRuns(c)
        PROVE  ValueTypes'
    <3>1. c \in Settings
      BY <1>1, <2>1 DEF ValueTypes
    <3> DEFINE s == lamp
    <3>2. /\ s \in Known /\ (\A f \in Fields : s[f] \in Values(f))
          /\ lamp' = [s EXCEPT ![c.field] = c.value]
          /\ late' = late \ {c} /\ unsure' = unsure \cup {c.field} /\ cache' = cache /\ seen' = seen
      BY <1>1, <2>1 DEF ValueTypes, LateRuns
    <3> HIDE DEF s
    <3>3. /\ lamp' \in Known /\ lamp'[c.field] = c.value
          /\ \A f \in Fields : f # c.field => lamp'[f] = s[f]
      BY <3>1, <3>2, KnownPut
    <3>4. c.field \in Fields /\ c.value \in Values(c.field)
      BY <3>1, SettingType
    <3>5. \A f \in Fields : lamp'[f] \in Values(f)
      BY <3>2, <3>3, <3>4
    <3> QED
      BY <1>1, <3>2, <3>3, <3>4, <3>5 DEF ValueTypes
  <2>2. ASSUME NEW s \in {Deaf, Silent}, Listen(s)
        PROVE  ValueTypes'
    BY <1>1, <2>2 DEF ValueTypes, Listen
  <2> QED
    BY <2>1, <2>2
<1>4. RequestTypes' /\ LocalTypes' /\ LineHolds'
  BY <1>1, <1>2 DEF RequestTypes, LocalTypes, LineHolds, Waiting, BaseInv
<1>5. \A o \in Ops : Shape(o)'
  BY <1>2 DEF Shape, BaseInv
<1> QED
  BY <1>3, <1>4, <1>5 DEF BaseInv, StateTypes

LEMMA BaseStep == BaseInv /\ [Next]_vars => BaseInv'
<1> SUFFICES ASSUME BaseInv, [Next]_vars PROVE BaseInv'
  OBVIOUS
<1>1. ASSUME NEW o \in Ops, Start(o) \/ Refused(o)
      PROVE  BaseInv'
  BY <1>1, StartBase
<1>2. ASSUME NEW o \in Ops, SceneEnds(o)
      PROVE  BaseInv'
  BY <1>2, SceneEndBase
<1>3. ASSUME NEW o \in Ops, WakesUp(o)
      PROVE  BaseInv'
  BY <1>3, WakeBase
<1>4. ASSUME NEW o \in Ops, Cancel(o)
      PROVE  BaseInv'
  BY <1>4, CancelBase
<1>5. ASSUME NEW r \in Requests, ClientStep(r)
      PROVE  BaseInv'
  BY <1>5, TaskBase, ServeBase, RetryBase, SucceedsBase, FailsBase DEF ClientStep
<1>6. CASE UNCHANGED vars
  BY <1>6 DEF vars, locals, BaseInv, StateTypes, ValueTypes, RequestTypes, LocalTypes,
              LineHolds, Waiting, Shape
<1> QED
  BY <1>1, <1>2, <1>3, <1>4, <1>5, <1>6, OutsideBase DEF Next

LEMMA BaseInit == Init => BaseInv
<1> SUFFICES ASSUME Init PROVE BaseInv
  OBVIOUS
<1>1. ValueTypes
  BY EmptyKnown DEF Init, ValueTypes, Known, States
<1>2. RequestTypes
  BY EmptyKnown, EmptySeq DEF Init, RequestTypes, Stages
<1>3. LocalTypes
  BY EmptyKnown, EmptySeq DEF Init, LocalTypes, Names
<1>4. LineHolds
  <2>1. IsInjective(<<>>) /\ Range(<<>>) = {}
    BY EmptySeq DEF IsInjective, Range
  <2>2. Waiting = {}
    BY DEF Init, Waiting
  <2> QED
    BY <2>1, <2>2 DEF Init, LineHolds
<1>5. ASSUME NEW o \in Ops
      PROVE  Shape(o)
  <2>1. <<o, 1>> \in Requests /\ <<o, 2>> \in Requests
    BY OwnRequests
  <2>2. /\ pc[o] = "new" /\ name[o] = "none" /\ blinks[o] = 0 /\ script[o] = <<>>
        /\ req[<<o, 1>>] = "none" /\ req[<<o, 2>>] = "none"
    BY <2>1 DEF Init
  <2> QED
    BY <2>2 DEF Shape
<1> QED
  BY <1>1, <1>2, <1>3, <1>4, <1>5 DEF BaseInv, StateTypes

(* The queue of the lamp's lock holds each request that waits for the lamp *)
(* or is with it, once; an operation has as many requests as its coroutine *)
(* awaits, and flash() as many commands left as its loop has iterations.   *)
THEOREM BaseHolds == Spec => []BaseInv
<1>1. Init => BaseInv
  BY BaseInit
<1>2. BaseInv /\ [Next]_vars => BaseInv'
  BY BaseStep
<1> QED
  BY <1>1, <1>2, PTL DEF Spec

(* The values of the variables, and the queue, as the runs check them.     *)
THEOREM TypeCorrect == Spec => []TypeOK
<1>1. BaseInv => TypeOK
  <2> SUFFICES ASSUME BaseInv PROVE TypeOK
    OBVIOUS
  <2>1. /\ cache \in States /\ lamp \in States /\ seen \in States \cup {Deaf, Silent}
        /\ \A f \in Fields : lamp[f] \in Values(f) /\ cache[f] \in Values(f) \cup {Absent}
        /\ late \subseteq Settings
    BY DEF BaseInv, StateTypes, ValueTypes, Known
  <2>2. \A r \in Requests : cmd[r] \in Settings \cup {Query}
    BY DEF BaseInv, StateTypes, RequestTypes
  <2>3. Range(line) = {r \in Requests : req[r] \in {"queued", "served"}} /\ IsInjective(line)
    BY DEF BaseInv, LineHolds, Waiting
  <2> QED
    BY <2>1, <2>2, <2>3 DEF TypeOK
<1> QED
  BY <1>1, BaseHolds, PTL

=============================================================================
