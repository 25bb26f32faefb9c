--------------------------- MODULE DeliveryProofs ---------------------------
(***************************************************************************)
(* More theorems about module Client, resting on those of ClientProofs:    *)
(* what the queues of the locks hold, how often a lamp executes a command, *)
(* and that the client implements the safety part of module Delivery.      *)
(***************************************************************************)
EXTENDS ClientProofs, FiniteSetTheorems

(***************************** the lock queues *****************************)
(* A key's queue holds exactly the calls that wait for its lock, each at   *)
(* one place.                                                              *)
Queued(k, t) == \E i \in 1..Len(waiters[k]) : waiters[k][i] = t
QueueInv ==
    /\ \A k \in Keys : IsInjective(waiters[k])
    /\ \A k \in Keys, t \in Calls : Queued(k, t) <=> KeyOf[t] = k /\ pc[t] = "acquire"

(* How a step of t may change its place in its lamp's queue: it joins at   *)
(* the end, is served at the head, leaves from anywhere, or stays outside. *)
QueueMove(t) ==
    LET k == KeyOf[t]
    IN  \/ /\ pc[t] # "acquire" /\ pc'[t] = "acquire"
           /\ waiters' = [waiters EXCEPT ![k] = Append(@, t)]
        \/ /\ pc[t] = "acquire" /\ pc'[t] # "acquire"
           /\ \E i \in 1..Len(waiters[k]) :
                /\ waiters[k][i] = t
                /\ waiters' = [waiters EXCEPT ![k] = RemoveAt(@, i)]
        \/ /\ pc[t] # "acquire" /\ pc'[t] # "acquire"
           /\ waiters' = waiters

(* How a call's step moves its lamp's queue along with its program counter.*)
LEMMA CallQueueMove ==
    ASSUME TypeInv, NEW t \in Calls, CallStep(t)
    PROVE  QueueMove(t)
<1> USE DEF TypeInv, TypeOK, GoTo, QueueMove
<1> DEFINE k == KeyOf[t]
<1>0. k \in Keys /\ waiters[k] \in Seq(Calls)
  BY PoolAssumption DEF PoolTypeOK
<1>1. ASSUME NEW out, EndAttempt(t, out) PROVE pc'[t] \in {"backoff", "done"}
  BY <1>1 DEF EndAttempt
<1>2. ASSUME NEW out, Fail(t, out), pc[t] \in InUse PROVE QueueMove(t)
  BY <1>1, <1>2 DEF Fail, Evict, AwaitClosed, InUse
<1>3. ASSUME Accept(t), pc[t] \in InUse PROVE QueueMove(t)
  BY <1>1, <1>3 DEF Accept, ReturnOrClose, AwaitClosed, InUse
<1>4. ASSUME Checkout(t) PROVE pc'[t] \in {"drain", "discard", "dial"}
  BY <1>4 DEF Checkout, StartExchange
<1>5. ASSUME EnterPool(t), pc[t] # "acquire" PROVE QueueMove(t)
  BY <1>4, <1>5 DEF EnterPool, Enqueue
<1>6. CASE Start(t)
  BY <1>5, <1>6 DEF Start
<1>7. CASE Acquire(t)
  <2>1. /\ waiters[k] # <<>> /\ Head(waiters[k]) = t /\ pc[t] = "acquire"
        /\ waiters' = [waiters EXCEPT ![k] = Tail(@)] /\ pc'[t] # "acquire"
    BY <1>4, <1>7 DEF Acquire, LockGranted
  <2>2. /\ 1 \in 1..Len(waiters[k]) /\ waiters[k][1] = t
        /\ Tail(waiters[k]) = RemoveAt(waiters[k], 1)
    BY <1>0, <2>1, TailIsRemoveAt
  <2> QED
    BY <2>1, <2>2
<1>8. CASE Resume(t) /\ ~Acquire(t)
  <2>1. CASE DiscardDone(t) \/ Drained(t)
    BY <2>1 DEF DiscardDone, Drained, poolVars
  <2>2. CASE DialSucceeds(t)
    BY <2>2 DEF DialSucceeds, StartExchange, poolVars
  <2>3. CASE DialFails(t)
    BY <1>1, <2>3 DEF DialFails
  <2>4. CASE CloseDone(t)
    BY <1>1, <2>4 DEF CloseDone
  <2>5. CASE ReadHeader(t)
    BY <1>2, <1>3, <2>5 DEF ReadHeader, InUse, poolVars
  <2>6. CASE ReadPayload(t)
    BY <1>2, <1>3, <2>6 DEF ReadPayload, InUse
  <2>7. CASE ExchangeTimesOut(t) \/ ExchangeLost(t) \/ ReadEof(t)
    BY <1>2, <2>7 DEF ExchangeTimesOut, ExchangeLost, ReadEof, InUse
  <2>8. CASE BackoffDone(t)
    BY <1>5, <2>8 DEF BackoffDone
  <2> QED
    BY <1>8, <2>1, <2>2, <2>3, <2>4, <2>5, <2>6, <2>7, <2>8 DEF Resume
<1>9. CASE Cancel(t)
  <2>1. CASE pc[t] \in InUse /\ Fail(t, "cancelled")
    BY <1>2, <2>1
  <2>2. CASE /\ pc[t] \in Holding \ InUse /\ EndAttempt(t, "cancelled")
             /\ UNCHANGED waiters
    BY <1>1, <2>2 DEF Holding
  <2>3. CASE /\ pc[t] \in {"acquire", "backoff"} /\ GoTo(t, "done")
             /\ IF pc[t] = "acquire" THEN LeaveQueue(k, t) ELSE UNCHANGED waiters
    BY <2>3 DEF LeaveQueue
  <2> QED
    BY <1>9, <2>1, <2>2, <2>3 DEF Cancel
<1> QED
  BY <1>6, <1>7, <1>8, <1>9 DEF CallStep

LEMMA QueueInvStep ==
    ASSUME TypeInv, QueueInv, [Next]_vars
    PROVE  QueueInv'
<1>0. waiters \in [Keys -> Seq(Calls)] /\ pc \in [Calls -> PcStates]
  BY DEF TypeInv, TypeOK, PoolTypeOK
<1>1. ASSUME NEW t \in Calls, CallStep(t) PROVE QueueInv'
  <2> DEFINE k == KeyOf[t]
             w == waiters[k]
  <2>0. /\ QueueMove(t) /\ k \in Keys /\ w \in Seq(Calls) /\ IsInjective(w)
        /\ \A u \in Calls \ {t} : pc'[u] = pc[u]
    BY <1>0, <1>1, CallQueueMove, OthersUntouched, PoolAssumption DEF OthersKept, QueueInv
  <2>1. ASSUME NEW z, waiters' = [waiters EXCEPT ![k] = z], IsInjective(z),
               \A u \in Calls \ {t} : (\E j \in 1..Len(z) : z[j] = u) <=> Queued(k, u),
               (\E j \in 1..Len(z) : z[j] = t) <=> pc'[t] = "acquire"
        PROVE  QueueInv'
    <3>1. waiters'[k] = z /\ \A l \in Keys \ {k} : waiters'[l] = waiters[l]
      BY <1>0, <2>0, <2>1
    <3>2. ASSUME NEW l \in Keys PROVE IsInjective(waiters'[l])
      BY <2>1, <3>1 DEF QueueInv
    <3>3. ASSUME NEW l \in Keys, NEW u \in Calls
          PROVE  Queued(l, u)' <=> KeyOf[u] = l /\ pc'[u] = "acquire"
      <4>1. CASE l # k
        <5>1. Queued(l, u)' <=> Queued(l, u)
          BY <3>1, <4>1 DEF Queued
        <5> QED
          BY <2>0, <4>1, <5>1 DEF QueueInv
      <4>2. CASE l = k /\ u # t
        <5>1. Queued(k, u)' <=> Queued(k, u)
          BY <2>1, <3>1, <4>2 DEF Queued
        <5> QED
          BY <2>0, <4>2, <5>1 DEF QueueInv
      <4>3. CASE l = k /\ u = t
        <5>1. Queued(k, t)' <=> pc'[t] = "acquire"
          BY <2>1, <3>1 DEF Queued
        <5> QED
          BY <4>3, <5>1
      <4> QED
        BY <4>1, <4>2, <4>3
    <3> QED
      BY <3>2, <3>3 DEF QueueInv
  <2>2. CASE /\ pc[t] # "acquire" /\ pc'[t] = "acquire"
             /\ waiters' = [waiters EXCEPT ![k] = Append(@, t)]
    <3>1. ~\E j \in 1..Len(w) : w[j] = t
      BY <2>0, <2>2 DEF QueueInv, Queued
    <3>2. \A u : Queued(k, u) <=> \E j \in 1..Len(w) : w[j] = u
      BY DEF Queued
    <3>3. waiters' = [waiters EXCEPT ![k] = Append(w, t)]
      BY <2>2
    <3> HIDE DEF w
    <3>4. /\ IsInjective(Append(w, t))
          /\ \A f : (\E j \in 1..Len(Append(w, t)) : Append(w, t)[j] = f)
                      <=> f = t \/ \E j \in 1..Len(w) : w[j] = f
      BY <2>0, <3>1, AppendPlaces
    <3> DEFINE z == Append(w, t)
    <3>5. /\ waiters' = [waiters EXCEPT ![k] = z] /\ IsInjective(z)
          /\ \A f : (\E j \in 1..Len(z) : z[j] = f) <=> f = t \/ Queued(k, f)
      BY <3>2, <3>3, <3>4
    <3> HIDE DEF z
    <3> QED
      BY <2>1, <2>2, <3>5
  <2>3. CASE /\ pc[t] = "acquire" /\ pc'[t] # "acquire"
             /\ \E i \in 1..Len(w) :
                  w[i] = t /\ waiters' = [waiters EXCEPT ![k] = RemoveAt(@, i)]
    <3>1. PICK i \in 1..Len(w) : w[i] = t /\ waiters' = [waiters EXCEPT ![k] = RemoveAt(w, i)]
      BY <2>3
    <3>2. \A u : Queued(k, u) <=> \E j \in 1..Len(w) : w[j] = u
      BY DEF Queued
    <3> HIDE DEF w
    <3>3. /\ IsInjective(RemoveAt(w, i))
          /\ \A e : (\E j \in 1..Len(RemoveAt(w, i)) : RemoveAt(w, i)[j] = e)
                      <=> e # w[i] /\ \E j \in 1..Len(w) : w[j] = e
      BY <2>0, <3>1, RemoveAtInjective
    <3> DEFINE z == RemoveAt(w, i)
    <3>4. /\ waiters' = [waiters EXCEPT ![k] = z] /\ IsInjective(z)
          /\ \A e : (\E j \in 1..Len(z) : z[j] = e) <=> e # t /\ Queued(k, e)
      BY <3>1, <3>2, <3>3
    <3> HIDE DEF z
    <3> QED
      BY <2>1, <2>3, <3>4
  <2>4. CASE /\ pc[t] # "acquire" /\ pc'[t] # "acquire" /\ waiters' = waiters
    BY <2>0, <2>4 DEF QueueInv, Queued
  <2> QED
    BY <2>0, <2>2, <2>3, <2>4 DEF QueueMove
<1>2. CASE UNCHANGED <<waiters, pc>>
  BY <1>2 DEF QueueInv, Queued
<1> QED
  BY <1>1, <1>2
     DEF Next, CallStep, Flush, CancelFlush, WireNext, PoolNext, Tick, SetPersistent,
         SetIdleTimeout, poolVars, callVars, vars

THEOREM QueuesHold == Spec => []QueueInv
<1>1. Init => QueueInv
  BY DEF Init, PoolInit, QueueInv, Queued, IsInjective
<1>2. TypeInv /\ QueueInv /\ [Next]_vars => QueueInv'
  BY QueueInvStep
<1> QED
  BY <1>1, <1>2, TypeCorrect, PTL DEF Spec

(* The lock of a lamp is held by the call that is inside its async with,   *)
(* and its queue holds exactly the calls that wait, each once: a call that *)
(* ended, failed, backs off or was cancelled blocks nobody.                *)
THEOREM LocksAgree == Spec => []LocksMatchCalls
<1>1. ASSUME LockInv, QueueInv, NEW k \in Keys, NEW t \in Calls
      PROVE  LET places == {i \in 1..Len(waiters[k]) : waiters[k][i] = t}
             IN  Cardinality(places) =
                   IF KeyOf[t] = k /\ pc[t] = "acquire" THEN 1 ELSE 0
  <2> DEFINE places == {i \in 1..Len(waiters[k]) : waiters[k][i] = t}
  <2>1. CASE Queued(k, t)
    <3>1. PICK i \in 1..Len(waiters[k]) : waiters[k][i] = t
      BY <2>1 DEF Queued
    <3>2. places = {i}
      BY <1>1, <3>1 DEF QueueInv, IsInjective
    <3> QED
      BY <1>1, <2>1, <3>2, FS_Singleton DEF QueueInv
  <2>2. CASE ~Queued(k, t)
    <3>1. places = {}
      BY <2>2 DEF Queued
    <3> QED
      BY <1>1, <2>2, <3>1, FS_EmptySet DEF QueueInv
  <2> QED
    BY <2>1, <2>2
<1>2. LockInv /\ QueueInv => LocksMatchCalls
  BY <1>1 DEF LockInv, LocksMatchCalls
<1> QED
  BY <1>2, LocksHold, QueuesHold, PTL

(****************************** how often ********************************)
(* Each connection has at most one command under way at its lamp: a        *)
(* command is only ever written to a connection without traffic.           *)
OneCommand == \A c \in Conns : sent[c] = <<>> \/ \E t \in Calls : sent[c] = <<t>>

(* Where a call's command still is at a lamp that has not taken it, on     *)
(* connections perhaps long given up.                                      *)
AtLamp(t) == {c \in Conns : sent[c] = <<t>>}

(* How often a call has written its command at most: once in every attempt *)
(* that ended or has come to its exchange.                                 *)
Entering == {"acquire", "discard", "dial"}
Written(t) ==
    IF pc[t] = "new" THEN 0
    ELSE IF pc[t] \in Entering THEN attempt[t] ELSE attempt[t] + 1

(* What was executed and what may still be does not exceed what was        *)
(* written.                                                                *)
CountOf(t) ==
    /\ pc[t] = "new" => attempt[t] = 0
    /\ IsFiniteSet(AtLamp(t))
    /\ Cardinality(AtLamp(t)) + execs[t] <= Written(t)

CountInv == OneCommand /\ \A t \in Calls : CountOf(t)

(* How a step of t moves along the retry loop: it makes the first attempt, *)
(* or the next, or goes on with, or ends, the one it is in.                *)
LoopMove(t) ==
    \/ /\ pc[t] = "new" /\ pc'[t] \in Entering \cup {"drain"}
       /\ attempt' = attempt
    \/ /\ pc[t] = "backoff" /\ pc'[t] \in Entering \cup {"drain"}
       /\ attempt' = [attempt EXCEPT ![t] = @ + 1]
    \/ /\ pc[t] \in Suspended /\ pc'[t] \in Suspended \cup {"done"}
       /\ pc'[t] \in Entering => pc[t] \in Entering
       /\ pc[t] = "backoff" => pc'[t] = "done"
       /\ attempt' = attempt

LEMMA CallLoopMove ==
    ASSUME TypeInv, NEW t \in Calls, CallStep(t)
    PROVE  LoopMove(t)
<1> USE DEF TypeInv, TypeOK, GoTo, LoopMove, Suspended, Holding, InUse, Entering
<1>1. ASSUME NEW out, EndAttempt(t, out) PROVE pc'[t] \in {"backoff", "done"}
  BY <1>1 DEF EndAttempt
<1>2. ASSUME NEW out, Fail(t, out), pc[t] \in InUse PROVE LoopMove(t)
  BY <1>1, <1>2 DEF Fail, Evict, AwaitClosed
<1>3. ASSUME Accept(t), pc[t] \in InUse PROVE LoopMove(t)
  BY <1>1, <1>3 DEF Accept, ReturnOrClose, AwaitClosed
<1>4. ASSUME Checkout(t) PROVE pc'[t] \in {"drain", "discard", "dial"}
  BY <1>4 DEF Checkout, StartExchange
<1>5. ASSUME EnterPool(t) PROVE pc'[t] \in {"acquire", "drain", "discard", "dial"}
  BY <1>4, <1>5 DEF EnterPool
<1>6. CASE Start(t)
  BY <1>5, <1>6 DEF Start
<1>7. CASE Acquire(t)
  BY <1>4, <1>7 DEF Acquire
<1>8. CASE Resume(t) /\ ~Acquire(t)
  <2>1. CASE DiscardDone(t) \/ Drained(t)
    BY <2>1 DEF DiscardDone, Drained
  <2>2. CASE DialSucceeds(t)
    BY <2>2 DEF DialSucceeds, StartExchange
  <2>3. CASE DialFails(t)
    BY <1>1, <2>3 DEF DialFails
  <2>4. CASE CloseDone(t)
    BY <1>1, <2>4 DEF CloseDone
  <2>5. CASE ReadHeader(t)
    BY <1>2, <1>3, <2>5 DEF ReadHeader
  <2>6. CASE ReadPayload(t)
    BY <1>2, <1>3, <2>6 DEF ReadPayload
  <2>7. CASE ExchangeTimesOut(t) \/ ExchangeLost(t) \/ ReadEof(t)
    BY <1>2, <2>7 DEF ExchangeTimesOut, ExchangeLost, ReadEof
  <2>8. CASE BackoffDone(t)
    BY <1>5, <2>8 DEF BackoffDone
  <2> QED
    BY <1>8, <2>1, <2>2, <2>3, <2>4, <2>5, <2>6, <2>7, <2>8 DEF Resume
<1>9. CASE Cancel(t)
  <2>1. CASE pc[t] \in InUse /\ Fail(t, "cancelled")
    BY <1>2, <2>1
  <2>2. CASE /\ pc[t] \in Holding \ InUse /\ EndAttempt(t, "cancelled")
             /\ UNCHANGED attempt
    BY <1>1, <2>2
  <2>3. CASE /\ pc[t] \in {"acquire", "backoff"} /\ GoTo(t, "done")
             /\ UNCHANGED attempt
    BY <2>3
  <2> QED
    BY <1>9, <2>1, <2>2, <2>3 DEF Cancel
<1> QED
  BY <1>6, <1>7, <1>8, <1>9 DEF CallStep

(* A step of a call writes nothing, or its command to a connection without *)
(* traffic, as the first thing of an exchange.                             *)
SentMove(t) ==
    \/ sent' = sent
    \/ /\ pc[t] \in Entering \cup {"new", "backoff"} /\ pc'[t] \in InUse
       /\ \E c \in Conns : /\ sent[c] = <<>>
                           /\ sent' = [sent EXCEPT ![c] = <<t>>]

LEMMA CallSentMove ==
    ASSUME TypeInv, QuietInv, NEW t \in Calls, ConnMove(t), LoopMove(t)
    PROVE  SentMove(t)
<1>1. pc[t] \notin Holding => pc[t] \in Entering \cup {"new", "backoff"}
  BY DEF LoopMove, Suspended, Entering
<1>2. ASSUME NEW c \in Conns, sent[c] = <<>>, sent' = [sent EXCEPT ![c] = Append(@, t)]
      PROVE  sent' = [sent EXCEPT ![c] = <<t>>]
  BY <1>2, AppendToEmpty
<1>3. CASE Idles(t) \/ Discards(t) \/ Drops(t) \/ Stores(t)
  BY <1>3 DEF Idles, Discards, Drops, Stores, SentMove
<1>4. CASE Dials(t)
  <2>1. PICK c \in Conns : /\ pc[t] = "dial" /\ pc'[t] \in InUse /\ link[c] = "unused"
                           /\ sent' = [sent EXCEPT ![c] = Append(@, t)]
    BY <1>4 DEF Dials
  <2>2. sent[c] = <<>>
    BY <2>1 DEF QuietInv, Unused
  <2> QED
    BY <1>2, <2>1, <2>2 DEF SentMove, Entering
<1>5. CASE Reuses(t)
  <2> DEFINE c == cached[KeyOf[t]]
  <2>1. /\ c \in Conns /\ pc[t] \notin Holding /\ pc'[t] \in InUse
        /\ sent' = sent \/ sent' = [sent EXCEPT ![c] = Append(@, t)]
    BY <1>5 DEF Reuses
  <2>2. sent[c] = <<>>
    BY <2>1, PoolAssumption DEF QuietInv, PooledIsClean, Pooled
  <2> QED
    BY <1>1, <1>2, <2>1, <2>2 DEF SentMove
<1> QED
  BY <1>3, <1>4, <1>5 DEF ConnMove

(* One command alone on a connection is told apart from another, and from  *)
(* none.                                                                   *)
LEMMA Alone ==
    ASSUME NEW d, NEW e
    PROVE  <<d>> # <<>> /\ (<<d>> = <<e>> <=> d = e) /\ Tail(<<d>>) = <<>> /\ Head(<<d>>) = d
OBVIOUS

(* A step of a call keeps the account: a write is one more, in an attempt  *)
(* that had not written yet.                                               *)
LEMMA CountCallStep ==
    ASSUME TypeInv, TypeInv', CountInv, NEW t \in Calls,
           OthersKept(t), LoopMove(t), SentMove(t), execs' = execs
    PROVE  CountInv'
<1>1. /\ sent \in [Conns -> Seq(Calls)] /\ execs \in [Calls -> Nat]
      /\ attempt \in [Calls -> 0..MaxRetries] /\ MaxRetries \in Nat
  BY ClientAssumption DEF TypeInv, TypeOK, WireTypeOK
<1>2. \A u \in Calls : Written(u) \in Nat /\ CountOf(u)
  BY <1>1 DEF CountInv, Written
<1>3. \A u \in Calls \ {t} : Written(u)' = Written(u)
  BY DEF OthersKept, Written
<1>4. /\ Written(t)' >= Written(t)
      /\ pc[t] \in Entering \cup {"new", "backoff"} /\ pc'[t] \in InUse
           => Written(t)' >= Written(t) + 1
      /\ pc'[t] # "new"
  <2> DEFINE First == pc[t] = "new" /\ attempt[t] = 0 /\ attempt'[t] = attempt[t]
             Another == pc[t] = "backoff" /\ attempt'[t] = attempt[t] + 1
             Same == /\ pc[t] \in Suspended /\ attempt'[t] = attempt[t]
                     /\ pc'[t] \in Entering => pc[t] \in Entering
                     /\ pc[t] = "backoff" => pc'[t] = "done"
  <2>1. attempt[t] \in Nat /\ pc'[t] # "new" /\ (First \/ Another \/ Same)
    BY <1>1, <1>2 DEF LoopMove, CountOf, Entering, Suspended, Holding, InUse
  <2>2. CASE First
    BY <2>1, <2>2 DEF Written, Entering, InUse
  <2>3. CASE Another
    BY <2>1, <2>3 DEF Written, Entering, InUse
  <2>4. CASE Same
    BY <2>1, <2>4 DEF Written, Entering, Suspended, Holding, InUse
  <2> QED
    BY <2>1, <2>2, <2>3, <2>4
<1>5. CASE sent' = sent
  <2>1. OneCommand' /\ \A u \in Calls : AtLamp(u)' = AtLamp(u)
    BY <1>5 DEF CountInv, OneCommand, AtLamp
  <2>2. \A u \in Calls : Cardinality(AtLamp(u)) \in Nat
    BY <1>2, FS_CardinalityType DEF CountOf
  <2>3. CountOf(t)'
    <3>1. Written(t)' \in Nat
      BY <1>1 DEF Written, TypeInv, TypeOK
    <3> QED
      BY <1>1, <1>2, <1>4, <2>1, <2>2, <3>1 DEF CountOf
  <2>4. ASSUME NEW u \in Calls \ {t} PROVE CountOf(u)'
    BY <1>2, <1>3, <2>1 DEF CountOf, OthersKept
  <2> QED
    BY <2>1, <2>3, <2>4 DEF CountInv
<1>6. ASSUME NEW c \in Conns, sent[c] = <<>>, sent' = [sent EXCEPT ![c] = <<t>>],
             pc[t] \in Entering \cup {"new", "backoff"}, pc'[t] \in InUse
      PROVE  CountInv'
  <2>1. sent'[c] = <<t>> /\ \A d \in Conns \ {c} : sent'[d] = sent[d]
    BY <1>1, <1>6
  <2>2. OneCommand'
    BY <2>1 DEF CountInv, OneCommand
  <2>3. AtLamp(t)' = AtLamp(t) \cup {c} /\ c \notin AtLamp(t)
    BY <1>6, <2>1, Alone DEF AtLamp
  <2>4. \A u \in Calls \ {t} : AtLamp(u)' = AtLamp(u)
    BY <1>6, <2>1, Alone DEF AtLamp
  <2>5. /\ IsFiniteSet(AtLamp(t)')
        /\ Cardinality(AtLamp(t)') = Cardinality(AtLamp(t)) + 1
        /\ Cardinality(AtLamp(t)) \in Nat
    BY <1>2, <2>3, FS_AddElement, FS_CardinalityType DEF CountOf
  <2>6. CountOf(t)'
    <3>1. Written(t)' \in Nat
      BY <1>1 DEF Written, TypeInv, TypeOK
    <3> QED
      BY <1>1, <1>2, <1>4, <1>6, <2>5, <3>1 DEF CountOf
  <2>7. ASSUME NEW u \in Calls \ {t} PROVE CountOf(u)'
    BY <1>2, <1>3, <2>4 DEF CountOf, OthersKept
  <2> QED
    BY <2>2, <2>6, <2>7 DEF CountInv
<1> QED
  BY <1>5, <1>6 DEF SentMove

(* What a lamp takes of a connection, executed or not, leaves it empty.    *)
Takes(c) ==
    \E t \in Calls, executed \in {0, 1} :
      /\ sent[c] = <<t>> /\ sent' = [sent EXCEPT ![c] = <<>>]
      /\ execs' = [execs EXCEPT ![t] = @ + executed]

LEMMA LampTakesOne ==
    ASSUME TypeInv, OneCommand, NEW c \in Conns, NEW executed \in {0, 1},
           LampTakes(c, executed)
    PROVE  Takes(c)
<1>1. PICK t \in Calls : sent[c] = <<t>>
  BY DEF OneCommand, LampTakes
<1>2. Head(sent[c]) = t /\ Tail(sent[c]) = <<>>
  BY <1>1, Alone
<1> QED
  BY <1>1, <1>2 DEF LampTakes, Takes

(* What the lamp or the network takes off a connection is under way no     *)
(* longer; it may have been executed once.                                 *)
LEMMA CountTakes ==
    ASSUME TypeInv, CountInv, UNCHANGED <<pc, attempt>>, NEW c \in Conns,
           Takes(c) \/ (execs' = execs /\ sent' = [sent EXCEPT ![c] = <<>>])
    PROVE  CountInv'
<1>1. /\ sent \in [Conns -> Seq(Calls)] /\ execs \in [Calls -> Nat]
      /\ attempt \in [Calls -> 0..MaxRetries] /\ MaxRetries \in Nat
  BY ClientAssumption DEF TypeInv, TypeOK, WireTypeOK
<1>2. \A u \in Calls : /\ Written(u) \in Nat /\ CountOf(u) /\ Written(u)' = Written(u)
                       /\ Cardinality(AtLamp(u)) \in Nat
  BY <1>1, FS_CardinalityType DEF CountInv, CountOf, Written
<1>3. sent'[c] = <<>> /\ \A d \in Conns \ {c} : sent'[d] = sent[d]
  BY <1>1 DEF Takes
<1>4. OneCommand'
  BY <1>3 DEF CountInv, OneCommand
<1>5. ASSUME NEW u \in Calls
      PROVE  /\ AtLamp(u)' = AtLamp(u) \ {c} /\ IsFiniteSet(AtLamp(u)')
             /\ Cardinality(AtLamp(u)') =
                  IF c \in AtLamp(u) THEN Cardinality(AtLamp(u)) - 1 ELSE Cardinality(AtLamp(u))
  <2>1. ASSUME NEW d \in Conns
        PROVE  sent'[d] = <<u>> <=> sent[d] = <<u>> /\ d # c
    BY <1>3, Alone
  <2>2. AtLamp(u)' = AtLamp(u) \ {c}
    BY <2>1 DEF AtLamp
  <2> QED
    BY <1>2, <2>2, FS_RemoveElement DEF CountOf
<1>6. ASSUME NEW u \in Calls PROVE CountOf(u)'
  <2>1. execs'[u] = execs[u] \/ (c \in AtLamp(u) /\ execs'[u] = execs[u] + 1)
    BY <1>1, Alone DEF Takes, AtLamp
  <2> QED
    BY <1>1, <1>2, <1>5, <2>1 DEF CountOf
<1> QED
  BY <1>4, <1>6 DEF CountInv

(* All that happens on the wire by itself.                                 *)
LEMMA WireTakes ==
    ASSUME TypeInv, OneCommand, WireNext
    PROVE  \/ sent' = sent /\ execs' = execs
           \/ \E c \in Conns : \/ Takes(c)
                               \/ execs' = execs /\ sent' = [sent EXCEPT ![c] = <<>>]
<1>1. ASSUME NEW c \in Conns, LampReplies(c) \/ LampStaysSilent(c) PROVE Takes(c)
  BY <1>1, LampTakesOne DEF LampReplies, LampStaysSilent
<1>2. ASSUME NEW c \in Conns, NEW how \in Departed, PeerDeparts(c, how)
      PROVE  execs' = execs /\ sent' = [sent EXCEPT ![c] = <<>>]
  BY <1>2 DEF PeerDeparts
<1>3. ASSUME NEW c \in Conns, LoopNotices(c) PROVE sent' = sent /\ execs' = execs
  BY <1>3 DEF LoopNotices
<1>4. PICK c \in Conns : \/ LampReplies(c) \/ LampStaysSilent(c) \/ LoopNotices(c)
                        \/ \E how \in Departed : PeerDeparts(c, how)
  BY DEF WireNext
<1>5. CASE LampReplies(c) \/ LampStaysSilent(c)
  <2>1. Takes(c)
    BY <1>1, <1>5
  <2> QED
    BY <2>1
<1>6. CASE LoopNotices(c)
  BY <1>3, <1>6
<1>7. CASE \E how \in Departed : PeerDeparts(c, how)
  <2>1. execs' = execs /\ sent' = [sent EXCEPT ![c] = <<>>]
    BY <1>2, <1>7
  <2> QED
    BY <2>1
<1> QED
  BY <1>4, <1>5, <1>6, <1>7

(* What else happens leaves calls, commands and executions alone.          *)
LEMMA OtherSteps ==
    ASSUME [Next]_vars
    PROVE  \/ \E t \in Calls : CallStep(t)
           \/ WireNext /\ UNCHANGED callVars
           \/ UNCHANGED <<callVars, sent, execs>>
BY DEF Next, CallStep, Flush, CancelFlush, vars, wireVars

LEMMA CountInvStep ==
    ASSUME TypeInv, TypeInv', LockInv, OwnerInv, TrafficInv, CountInv, [Next]_vars
    PROVE  CountInv'
<1>1. ASSUME NEW t \in Calls, CallStep(t) PROVE CountInv'
  <2>1. OthersKept(t) /\ ConnMove(t) /\ LoopMove(t) /\ execs' = execs
    BY <1>1, OthersUntouched, CallConnMove, CallLoopMove, ExecsKept DEF OwnerInv
  <2>2. SentMove(t)
    BY <2>1, CallSentMove DEF TrafficInv
  <2> QED
    BY <2>1, <2>2, CountCallStep
<1>2. ASSUME UNCHANGED <<callVars, sent, execs>> PROVE CountInv'
  BY <1>2 DEF CountInv, OneCommand, CountOf, AtLamp, Written, callVars
<1>3. CASE WireNext /\ UNCHANGED callVars
  <2>1. UNCHANGED <<pc, attempt>> /\ OneCommand
    BY <1>3 DEF callVars, CountInv
  <2>2. CASE sent' = sent /\ execs' = execs
    BY <1>2, <1>3, <2>2
  <2>3. ASSUME NEW c \in Conns,
               Takes(c) \/ (execs' = execs /\ sent' = [sent EXCEPT ![c] = <<>>])
        PROVE  CountInv'
    BY <2>1, <2>3, CountTakes
  <2> QED
    BY <1>3, <2>1, <2>2, <2>3, WireTakes
<1> QED
  BY <1>1, <1>2, <1>3, OtherSteps

THEOREM CountsHold == Spec => []CountInv
<1>1. Init => CountInv
  <2> SUFFICES ASSUME Init PROVE CountInv
    OBVIOUS
  <2>1. ASSUME NEW t \in Calls PROVE AtLamp(t) = {}
    BY Alone DEF AtLamp, Init, WireInit
  <2>2. ASSUME NEW t \in Calls PROVE CountOf(t)
    <3>1. attempt[t] = 0 /\ execs[t] = 0 /\ Written(t) = 0
      BY DEF Init, WireInit, Written
    <3> QED
      BY <2>1, <3>1, FS_EmptySet DEF CountOf
  <2> QED
    BY <2>2 DEF CountInv, OneCommand, Init, WireInit
<1>2. TypeInv /\ TypeInv' /\ LockInv /\ OwnerInv /\ TrafficInv /\ CountInv /\ [Next]_vars
        => CountInv'
  BY CountInvStep
<1> QED
  BY <1>1, <1>2, TypeCorrect, LocksHold, OwnersHold, TrafficHolds, PTL DEF Spec

(* A lamp executes a command at most once per attempt of its call, those   *)
(* included that it takes from connections long given up.                  *)
THEOREM OncePerAttempt == Spec => []AtMostOncePerAttempt
<1>1. ASSUME TypeInv, CountInv, NEW t \in Calls
      PROVE  execs[t] <= attempt[t] + 1
  <2>1. Cardinality(AtLamp(t)) \in Nat /\ CountOf(t)
    BY <1>1, FS_CardinalityType DEF CountInv, CountOf
  <2>2. /\ execs[t] \in Nat /\ attempt[t] \in Nat
    BY <1>1, ClientAssumption DEF TypeInv, TypeOK, WireTypeOK
  <2> QED
    BY <2>1, <2>2 DEF CountOf, Written
<1>2. TypeInv /\ CountInv => AtMostOncePerAttempt
  BY <1>1 DEF AtMostOncePerAttempt
<1> QED
  BY <1>2, TypeCorrect, CountsHold, PTL

(****************************** the delivery *******************************)
(* The refinement mapping of Client: what of a call Delivery sees.         *)
Phases == [t \in Calls |-> PhaseOf(t)]
TriesOf(t) == IF pc[t] = "new" THEN 0 ELSE attempt[t] + 1
Tries == [t \in Calls |-> TriesOf(t)]

LEMMA DeliveryInit ==
    ASSUME Init
    PROVE  D!Init
BY DEF Init, WireInit, D!Init, PhaseOf

(* A step of a call begins it, retries, ends it, or is none of Delivery's. *)
LEMMA DeliveryCallStep ==
    ASSUME TypeInv, TypeInv', CountInv, AnswerIsOwn', NEW t \in Calls, CallStep(t)
    PROVE  [D!Next]_(D!vars)
<1>1. /\ LoopMove(t) /\ OthersKept(t) /\ execs' = execs
      /\ attempt \in [Calls -> 0..MaxRetries] /\ MaxRetries \in Nat
      /\ pc \in [Calls -> PcStates]
  BY CallLoopMove, OthersUntouched, ExecsKept, ClientAssumption DEF TypeInv, TypeOK
<1>2. \A u \in Calls \ {t} : PhaseOf(u)' = PhaseOf(u) /\ TriesOf(u)' = TriesOf(u)
  BY <1>1 DEF OthersKept, PhaseOf, TriesOf
<1>3. /\ \A x : PhaseOf(t)' = x => Phases' = [Phases EXCEPT ![t] = x]
      /\ \A n : TriesOf(t)' = n => Tries' = [Tries EXCEPT ![t] = n]
  BY <1>2 DEF Phases, Tries
<1>4. /\ \A u \in Calls : Phases[u] = PhaseOf(u) /\ Tries[u] = TriesOf(u)
      /\ PhaseOf(t)' = PhaseOf(t) => Phases' = Phases
      /\ TriesOf(t)' = TriesOf(t) => Tries' = Tries
  BY <1>2 DEF Phases, Tries
<1>5. /\ \A u \in Calls : pc[u] \in Suspended => PhaseOf(u) = "active"
      /\ \A u \in Calls : pc'[u] \in Suspended => PhaseOf(u)' = "active"
      /\ Entering \cup {"drain", "backoff"} \subseteq Suspended
      /\ "new" \notin Suspended /\ "done" \notin Suspended
  BY DEF PhaseOf, Suspended, Holding, InUse, Entering
<1>6. CASE pc[t] = "new" /\ pc'[t] \in Entering \cup {"drain"} /\ attempt' = attempt
  <2>1. PhaseOf(t) = "idle" /\ PhaseOf(t)' = "active"
    BY <1>5, <1>6 DEF PhaseOf
  <2>2. attempt[t] = 0
    BY <1>6 DEF CountInv, CountOf
  <2>3. TriesOf(t)' = 1
    BY <1>5, <1>6, <2>2 DEF TriesOf
  <2>4. D!Begin(t)
    BY <1>1, <1>3, <1>4, <2>1, <2>3 DEF D!Begin, Phases, Tries, TriesOf
  <2> QED
    BY <2>4 DEF D!Next
<1>7. CASE /\ pc[t] = "backoff" /\ pc'[t] \in Entering \cup {"drain"}
           /\ attempt' = [attempt EXCEPT ![t] = @ + 1]
  <2>1. PhaseOf(t) = "active" /\ PhaseOf(t)' = "active"
    BY <1>5, <1>7
  <2>2. TriesOf(t) < MaxRetries + 1
    BY <1>1, <1>7 DEF TypeInv, RetryLeft, TriesOf
  <2>3. TriesOf(t)' = TriesOf(t) + 1
    BY <1>1, <1>5, <1>7 DEF TriesOf
  <2>4. D!Retry(t)
    BY <1>1, <1>3, <1>4, <2>1, <2>2, <2>3 DEF D!Retry, Phases, Tries, TriesOf
  <2> QED
    BY <2>4 DEF D!Next, D!Conclude
<1>8. CASE /\ pc[t] \in Suspended /\ pc'[t] \in Suspended \cup {"done"}
           /\ attempt' = attempt
  <2>1. TriesOf(t)' = TriesOf(t) /\ PhaseOf(t) = "active"
    BY <1>5, <1>8 DEF TriesOf
  <2>2. CASE pc'[t] \in Suspended
    <3>1. Phases' = Phases /\ Tries' = Tries
      BY <1>4, <1>5, <2>1, <2>2
    <3> QED
      BY <1>1, <3>1 DEF D!vars, Phases, Tries, TriesOf
  <2>3. CASE pc'[t] = "done" /\ outcome'[t] = "ok"
    <3>1. PhaseOf(t)' = "ok"
      BY <2>3 DEF PhaseOf
    <3>2. execs[t] > 0
      BY <1>1, <2>3 DEF AnswerIsOwn
    <3>3. D!Succeed(t)
      BY <1>1, <1>3, <1>4, <2>1, <3>1, <3>2 DEF D!Succeed, Phases, Tries, TriesOf
    <3> QED
      BY <3>3 DEF D!Next, D!Conclude
  <2>4. CASE pc'[t] = "done" /\ outcome'[t] # "ok"
    <3>1. PhaseOf(t)' = "failed"
      BY <2>4 DEF PhaseOf
    <3>2. D!Fail(t)
      BY <1>1, <1>3, <1>4, <2>1, <3>1 DEF D!Fail, Phases, Tries, TriesOf
    <3> QED
      BY <3>2 DEF D!Next, D!Conclude
  <2> QED
    BY <1>8, <2>2, <2>3, <2>4
<1> QED
  BY <1>1, <1>6, <1>7, <1>8 DEF LoopMove

(* A lamp that executes a command gives it an effect that its call's tries *)
(* have paid for.                                                          *)
LEMMA DeliveryTakes ==
    ASSUME TypeInv, CountInv, UNCHANGED callVars, NEW c \in Conns, Takes(c)
    PROVE  [D!Next]_(D!vars)
<1>1. PICK t \in Calls, executed \in {0, 1} :
             sent[c] = <<t>> /\ execs' = [execs EXCEPT ![t] = @ + executed]
  BY DEF Takes
<1>2. /\ execs \in [Calls -> Nat] /\ attempt \in [Calls -> 0..MaxRetries]
      /\ MaxRetries \in Nat
  BY ClientAssumption DEF TypeInv, TypeOK, WireTypeOK
<1>3. Phases' = Phases /\ Tries' = Tries
  BY DEF Phases, Tries, PhaseOf, TriesOf, callVars
<1>4. CASE executed = 0
  <2>1. execs' = execs
    BY <1>1, <1>2, <1>4
  <2> QED
    BY <1>3, <2>1 DEF D!vars, Phases, Tries, TriesOf
<1>5. CASE executed = 1
  <2>1. c \in AtLamp(t) /\ CountOf(t)
    BY <1>1 DEF AtLamp, CountInv
  <2>2. Cardinality(AtLamp(t)) \in Nat /\ Cardinality(AtLamp(t)) # 0
    BY <2>1, FS_CardinalityType, FS_EmptySet DEF CountOf
  <2>3. execs[t] < TriesOf(t)
    BY <1>2, <2>1, <2>2 DEF CountOf, Written, TriesOf
  <2>4. D!TakeEffect(t)
    BY <1>1, <1>3, <1>5, <2>3 DEF D!TakeEffect, Phases, Tries, TriesOf
  <2> QED
    BY <2>4 DEF D!Next
<1> QED
  BY <1>4, <1>5

LEMMA DeliveryStep ==
    ASSUME TypeInv, TypeInv', CountInv, AnswerIsOwn', [Next]_vars
    PROVE  [D!Next]_(D!vars)
<1>1. ASSUME UNCHANGED <<callVars, execs>> PROVE [D!Next]_(D!vars)
  <2>1. Phases' = Phases /\ Tries' = Tries
    BY <1>1 DEF Phases, Tries, PhaseOf, TriesOf, callVars
  <2> QED
    BY <1>1, <2>1 DEF D!vars, Phases, Tries, TriesOf
<1>2. CASE WireNext /\ UNCHANGED callVars
  BY <1>1, <1>2, WireTakes, DeliveryTakes DEF CountInv
<1> QED
  BY <1>1, <1>2, OtherSteps, DeliveryCallStep

(* The safety part of ImplementsDelivery: a command is tried at most       *)
(* MaxRetries + 1 times, has no more effects than tries, and a call        *)
(* succeeds only if its command took effect.                               *)
DeliverySafety == D!Init /\ [][D!Next]_(D!vars)

THEOREM DeliversSafely == Spec => DeliverySafety
<1>1. Init => D!Init
  BY DeliveryInit
<1>2. TypeInv /\ TypeInv' /\ CountInv /\ AnswerIsOwn' /\ [Next]_vars => [D!Next]_(D!vars)
  BY DeliveryStep
<1> QED
  BY <1>1, <1>2, TypeCorrect, CountsHold, AnswersAreOwn, PTL DEF Spec, DeliverySafety
=============================================================================
