---------------------------- MODULE ClientProofs ----------------------------
(***************************************************************************)
(* Theorems about module Client, for every set of calls, lamps and         *)
(* connections, every number of retries and every lamp.                    *)
(***************************************************************************)
EXTENDS Client, SequenceLemmas

(****************************** type correctness ***************************)
(* The pieces of the pool's coroutine preserve the types of what they      *)
(* assign.                                                                 *)
LEMMA StartExchangeType ==
    ASSUME TypeOK, NEW t \in Calls, NEW c \in Conns, StartExchange(t, c)
    PROVE  /\ pc' \in [Calls -> PcStates]
           /\ conn' \in [Calls -> Conns \cup {NoConn}]
           /\ sent' \in [Conns -> Seq(Calls)]
<1>1. Append(sent[c], t) \in Seq(Calls)
  BY DEF TypeOK, WireTypeOK
<1> QED
  BY <1>1 DEF TypeOK, WireTypeOK, StartExchange, GoTo, Write, PcStates, Suspended,
              Holding, InUse

(* Taking a connection out of the pool, or turning to the dial, keeps them. *)
LEMMA CheckoutType ==
    ASSUME TypeOK, NEW t \in Calls, Checkout(t)
    PROVE  /\ pc' \in [Calls -> PcStates]
           /\ conn' \in [Calls -> Conns \cup {NoConn}]
           /\ sent' \in [Conns -> Seq(Calls)]
           /\ wire' \in [Conns -> Seq(Frames)]
           /\ link' \in [Conns -> LinkStates]
           /\ cached' \in [Keys -> Conns \cup {NoConn}]
           /\ age' \in [Keys -> 0..MaxAge]
<1> DEFINE k == KeyOf[t]
           c == cached[k]
<1>1. k \in Keys /\ c \in Conns \cup {NoConn} /\ MaxAge \in Nat
  BY PoolAssumption DEF TypeOK, PoolTypeOK
<1>2. cached' \in [Keys -> Conns \cup {NoConn}] /\ age' \in [Keys -> 0..MaxAge]
  BY <1>1 DEF Checkout, PopSlots, TypeOK, PoolTypeOK
<1>3. CASE Reusable(k) /\ StartExchange(t, c) /\ UNCHANGED <<link, wire>>
  BY <1>1, <1>2, <1>3, StartExchangeType DEF Reusable, TypeOK, WireTypeOK
<1>4. CASE /\ c # NoConn
           /\ CloseWriter(c) /\ GoTo(t, "discard") /\ UNCHANGED <<conn, sent>>
  BY <1>1, <1>2, <1>4, EmptySeq
     DEF CloseWriter, GoTo, TypeOK, WireTypeOK, LinkStates, Closing, PcStates,
         Suspended, Holding
<1>5. CASE GoTo(t, "dial") /\ UNCHANGED <<conn, sent, link, wire>>
  BY <1>2, <1>5 DEF GoTo, TypeOK, WireTypeOK, PcStates, Suspended, Holding
<1> QED
  BY <1>3, <1>4, <1>5 DEF Checkout

(* So does connection() up to its first await.                             *)
LEMMA EnterPoolType ==
    ASSUME TypeOK, NEW t \in Calls, EnterPool(t)
    PROVE  /\ pc' \in [Calls -> PcStates]
           /\ conn' \in [Calls -> Conns \cup {NoConn}]
           /\ sent' \in [Conns -> Seq(Calls)]
           /\ wire' \in [Conns -> Seq(Frames)]
           /\ link' \in [Conns -> LinkStates]
           /\ cached' \in [Keys -> Conns \cup {NoConn}]
           /\ age' \in [Keys -> 0..MaxAge]
           /\ holder' \in [Keys -> Calls \cup {NoCall}]
           /\ waiters' \in [Keys -> Seq(Calls)]
<1>1. KeyOf[t] \in Keys
  BY PoolAssumption
<1>2. CASE /\ TakeLock(KeyOf[t], t) /\ Checkout(t) /\ UNCHANGED waiters
  BY <1>1, <1>2, CheckoutType DEF TakeLock, TypeOK, PoolTypeOK
<1>3. CASE /\ Enqueue(KeyOf[t], t) /\ GoTo(t, "acquire")
           /\ UNCHANGED <<holder, cached, age, conn, sent, link, wire>>
  <2>1. Append(waiters[KeyOf[t]], t) \in Seq(Calls)
    BY <1>1 DEF TypeOK, PoolTypeOK
  <2> QED
    BY <1>1, <1>3, <2>1 DEF Enqueue, GoTo, TypeOK, WireTypeOK, PoolTypeOK,
                           PcStates, Suspended
<1> QED
  BY <1>2, <1>3 DEF EnterPool

(* Leaving the async with keeps the types of what it assigns.              *)
LEMMA EndAttemptType ==
    ASSUME TypeOK, NEW t \in Calls, NEW out \in Outcomes \cup {"none"},
           EndAttempt(t, out)
    PROVE  /\ pc' \in [Calls -> PcStates]
           /\ conn' \in [Calls -> Conns \cup {NoConn}]
           /\ outcome' \in [Calls -> Outcomes \cup {"none"}]
           /\ holder' \in [Keys -> Calls \cup {NoCall}]
BY DEF EndAttempt, ReleaseLock, GoTo, TypeOK, PoolTypeOK, PcStates, Suspended

(* So does closing a connection,                                           *)
LEMMA CloseWriterType ==
    ASSUME TypeOK, NEW c \in Conns, CloseWriter(c)
    PROVE  link' \in [Conns -> LinkStates] /\ wire' \in [Conns -> Seq(Frames)]
<1>1. <<>> \in Seq(Frames)
  BY EmptySeq
<1> QED
  BY <1>1 DEF CloseWriter, TypeOK, WireTypeOK, LinkStates, Closing

(* suspending at wait_closed(),                                            *)
LEMMA AwaitClosedType ==
    ASSUME TypeOK, NEW t \in Calls, conn[t] \in Conns,
           NEW where \in PcStates, NEW out \in Outcomes, AwaitClosed(t, where, out)
    PROVE  /\ link' \in [Conns -> LinkStates] /\ wire' \in [Conns -> Seq(Frames)]
           /\ pc' \in [Calls -> PcStates]
           /\ conn' \in [Calls -> Conns \cup {NoConn}]
           /\ outcome' \in [Calls -> Outcomes \cup {"none"}]
           /\ holder' \in [Keys -> Calls \cup {NoCall}]
BY CloseWriterType DEF AwaitClosed, GoTo, TypeOK, PoolTypeOK

(* A call inside the async with has a connection; a call that backs off    *)
(* has a retry left.  Types alone are not inductive without these two.     *)
ConnInUse == \A t \in Calls : pc[t] \in InUse => conn[t] \in Conns
RetryLeft == \A t \in Calls : pc[t] = "backoff" => attempt[t] < MaxRetries

TypeInv == TypeOK /\ ConnInUse /\ RetryLeft

(* leaving an exchange with an exception,                                  *)
LEMMA FailType ==
    ASSUME TypeInv, NEW t \in Calls, pc[t] \in InUse,
           NEW out \in Outcomes, Fail(t, out)
    PROVE  TypeOK'
<1>1. conn[t] \in Conns
  BY DEF TypeInv, ConnInUse
<1>2. CASE AwaitClosed(t, "evict", out)
  <2>1. "evict" \in PcStates
    BY DEF PcStates, Suspended, Holding
  <2> QED
    BY <1>1, <1>2, <2>1, AwaitClosedType
       DEF Fail, TypeInv, TypeOK, WireTypeOK, PoolTypeOK
<1>3. CASE EndAttempt(t, out) /\ UNCHANGED <<link, wire>>
  BY <1>3, EndAttemptType DEF Fail, TypeInv, TypeOK, WireTypeOK, PoolTypeOK
<1> QED
  BY <1>2, <1>3 DEF Fail, Evict

(* and leaving it with a response.                                         *)
LEMMA AcceptType ==
    ASSUME TypeInv, NEW t \in Calls, pc[t] \in InUse, wire[conn[t]] # <<>>,
           Accept(t)
    PROVE  TypeOK'
<1> DEFINE c == conn[t]
           consumed == wire' = [wire EXCEPT ![c] = Tail(@)]
<1>1. c \in Conns /\ KeyOf[t] \in Keys /\ "ok" \in Outcomes
  BY PoolAssumption DEF TypeInv, ConnInUse, Outcomes
<1>2. Head(wire[c]) \in Frames /\ Tail(wire[c]) \in Seq(Frames)
  BY <1>1, HeadTailProperties DEF TypeInv, TypeOK, WireTypeOK
<1>3. answer' \in [Calls -> Calls \cup {NoCall}]
  BY <1>1, <1>2 DEF Accept, TypeInv, TypeOK, Frames
<1>4. /\ UNCHANGED <<lampOf, sent, execs, persistent, idleTimeout, waiters,
                     attempt, closer>>
  BY DEF Accept
<1>5. ASSUME consumed PROVE wire' \in [Conns -> Seq(Frames)]
  BY <1>1, <1>2, <1>5 DEF TypeInv, TypeOK, WireTypeOK
<1>6. CASE /\ StoreSlot(KeyOf[t], c) /\ consumed
           /\ EndAttempt(t, "ok") /\ UNCHANGED link
  <2>1. cached' \in [Keys -> Conns \cup {NoConn}] /\ age' \in [Keys -> 0..MaxAge]
    BY <1>1, <1>6, PoolAssumption DEF StoreSlot, TypeInv, TypeOK, PoolTypeOK
  <2> QED
    BY <1>1, <1>3, <1>4, <1>5, <1>6, <2>1, EndAttemptType
       DEF TypeInv, TypeOK, WireTypeOK, PoolTypeOK
<1>7. CASE AwaitClosed(t, "release", "ok") /\ UNCHANGED <<cached, age>>
  <2>1. "release" \in PcStates
    BY DEF PcStates, Suspended, Holding
  <2> QED
    BY <1>1, <1>3, <1>4, <1>7, <2>1, AwaitClosedType
       DEF TypeInv, TypeOK, WireTypeOK, PoolTypeOK
<1>8. CASE consumed /\ EndAttempt(t, "ok") /\ UNCHANGED <<link, cached, age>>
  BY <1>1, <1>3, <1>4, <1>5, <1>8, EndAttemptType
     DEF TypeInv, TypeOK, WireTypeOK, PoolTypeOK
<1> QED
  BY <1>6, <1>7, <1>8 DEF Accept, ReturnOrClose

(* What each kind of step does to the types.                               *)
LEMMA WireStepType ==
    ASSUME TypeOK, WireNext
    PROVE  WireTypeOK'
<1>1. ASSUME NEW c \in Conns, LampReplies(c) PROVE WireTypeOK'
  <2> PICK executed \in {0, 1}, kind \in LampKinds :
        /\ LampTakes(c, executed)
        /\ wire' = [wire EXCEPT ![c] =
                      Append(@, [for |-> Head(sent[c]), kind |-> kind])]
    BY <1>1 DEF LampReplies
  <2>1. Head(sent[c]) \in Calls /\ Tail(sent[c]) \in Seq(Calls)
    BY HeadTailProperties DEF LampTakes, TypeOK, WireTypeOK
  <2>2. [for |-> Head(sent[c]), kind |-> kind] \in Frames
    BY <2>1, WireAssumption DEF Frames
  <2>3. Append(wire[c], [for |-> Head(sent[c]), kind |-> kind]) \in Seq(Frames)
    BY <2>2 DEF TypeOK, WireTypeOK
  <2> QED
    BY <2>1, <2>3 DEF LampTakes, TypeOK, WireTypeOK
<1>2. ASSUME NEW c \in Conns, LampStaysSilent(c) PROVE WireTypeOK'
  <2> PICK executed \in {0, 1} : LampTakes(c, executed) /\ UNCHANGED wire
    BY <1>2 DEF LampStaysSilent
  <2>1. Head(sent[c]) \in Calls /\ Tail(sent[c]) \in Seq(Calls)
    BY HeadTailProperties DEF LampTakes, TypeOK, WireTypeOK
  <2> QED
    BY <2>1 DEF LampTakes, TypeOK, WireTypeOK
<1>3. ASSUME NEW c \in Conns, NEW how \in Departed, PeerDeparts(c, how)
      PROVE  WireTypeOK'
  BY <1>3, EmptySeq DEF PeerDeparts, Departed, TypeOK, WireTypeOK, LinkStates, Open
<1>4. ASSUME NEW c \in Conns, LoopNotices(c) PROVE WireTypeOK'
  <2>1. <<>> \in Seq(Frames)
    BY EmptySeq
  <2> QED
    BY <1>4, <2>1 DEF LoopNotices, TypeOK, WireTypeOK, LinkStates, Closing
<1> QED
  BY <1>1, <1>2, <1>3, <1>4 DEF WireNext

(* A tick of the clock, a setter of the client.                            *)
LEMMA PoolStepType ==
    ASSUME TypeOK, PoolNext
    PROVE  PoolTypeOK'
<1>1. MaxAge \in Nat
  BY PoolAssumption
<1>2. CASE Tick
  BY <1>1, <1>2 DEF Tick, TypeOK, PoolTypeOK
<1>3. ASSUME NEW b \in BOOLEAN, SetPersistent(b) PROVE PoolTypeOK'
  BY <1>3 DEF SetPersistent, TypeOK, PoolTypeOK
<1>4. ASSUME NEW v \in IdleTimeouts, SetIdleTimeout(v) PROVE PoolTypeOK'
  BY <1>4 DEF SetIdleTimeout, TypeOK, PoolTypeOK
<1> QED
  BY <1>2, <1>3, <1>4 DEF PoolNext

(* A coroutine is resumed at its await.                                    *)
LEMMA ResumeType ==
    ASSUME TypeInv, NEW t \in Calls, Resume(t)
    PROVE  TypeOK'
<1> KeyOf[t] \in Keys
  BY PoolAssumption
<1> USE DEF TypeInv
<1>1. CASE Acquire(t)
  <2>1. Tail(waiters[KeyOf[t]]) \in Seq(Calls)
    BY <1>1, HeadTailProperties DEF Acquire, LockGranted, TypeOK, PoolTypeOK
  <2> QED
    BY <1>1, <2>1, CheckoutType
       DEF Acquire, TakeLock, TypeOK, WireTypeOK, PoolTypeOK
<1>2. CASE DiscardDone(t)
  BY <1>2 DEF DiscardDone, GoTo, wireVars, poolVars, TypeOK, WireTypeOK, PoolTypeOK,
              PcStates, Suspended, Holding
<1>3. CASE DialSucceeds(t)
  <2> DEFINE c == CHOOSE c \in Unused : TRUE
  <2>1. c \in Conns
    BY <1>3 DEF DialSucceeds, Unused
  <2>2. Dial(c, KeyOf[t]) /\ StartExchange(t, c)
    BY <1>3 DEF DialSucceeds
  <2> HIDE DEF c
  <2>3. /\ link' \in [Conns -> LinkStates]
        /\ lampOf' \in [Conns -> Keys \cup {NoKey}]
    BY <2>1, <2>2 DEF Dial, TypeOK, WireTypeOK, LinkStates, Open
  <2> QED
    BY <1>3, <2>1, <2>2, <2>3, StartExchangeType
       DEF DialSucceeds, poolVars, TypeOK, WireTypeOK, PoolTypeOK
<1>4. CASE DialFails(t)
  BY <1>4, EndAttemptType
     DEF DialFails, Outcomes, wireVars, TypeOK, WireTypeOK, PoolTypeOK
<1>5. CASE Drained(t)
  BY <1>5 DEF Drained, GoTo, wireVars, poolVars, TypeOK, WireTypeOK, PoolTypeOK,
              PcStates, Suspended, Holding, InUse
<1>6. CASE ReadHeader(t)
  <2>1. pc[t] \in InUse /\ wire[conn[t]] # <<>>
    BY <1>6 DEF ReadHeader, InUse
  <2>2. CASE Accept(t)
    BY <2>1, <2>2, AcceptType
  <2>3. CASE Fail(t, "response")
    BY <2>1, <2>3, FailType DEF Outcomes
  <2>4. CASE GoTo(t, "payload") /\ UNCHANGED <<wireVars, poolVars, attempt, conn,
                                               outcome, answer, closer>>
    BY <2>4 DEF GoTo, wireVars, poolVars, TypeOK, WireTypeOK, PoolTypeOK,
                PcStates, Suspended, Holding, InUse
  <2> QED
    BY <1>6, <2>2, <2>3, <2>4 DEF ReadHeader
<1>7. CASE ReadPayload(t)
  <2>1. pc[t] \in InUse /\ wire[conn[t]] # <<>>
    BY <1>7 DEF ReadPayload, InUse
  <2>2. CASE Accept(t)
    BY <2>1, <2>2, AcceptType
  <2>3. CASE Fail(t, "response") \/ Fail(t, "other")
    BY <2>1, <2>3, FailType DEF Outcomes
  <2> QED
    BY <1>7, <2>2, <2>3 DEF ReadPayload
<1>8. CASE ExchangeTimesOut(t) \/ ExchangeLost(t)
  BY <1>8, FailType DEF ExchangeTimesOut, ExchangeLost, Outcomes, Transient
<1>9. CASE ReadEof(t)
  BY <1>9, FailType DEF ReadEof, Outcomes, InUse
<1>10. CASE CloseDone(t)
  BY <1>10, EndAttemptType
     DEF CloseDone, wireVars, TypeOK, WireTypeOK, PoolTypeOK
<1>11. CASE BackoffDone(t)
  <2>1. attempt' \in [Calls -> 0..MaxRetries]
    BY <1>11, ClientAssumption DEF BackoffDone, TypeOK, RetryLeft
  <2> QED
    BY <1>11, <2>1, EnterPoolType
       DEF BackoffDone, TypeOK, WireTypeOK, PoolTypeOK
<1> QED
  BY <1>1, <1>2, <1>3, <1>4, <1>5, <1>6, <1>7, <1>8, <1>9, <1>10, <1>11 DEF Resume

(* A task is cancelled.                                                    *)
LEMMA CancelType ==
    ASSUME TypeInv, NEW t \in Calls, Cancel(t)
    PROVE  TypeOK'
<1> USE DEF TypeInv
<1> KeyOf[t] \in Keys /\ "cancelled" \in Outcomes
  BY PoolAssumption DEF Outcomes
<1>1. CASE pc[t] \in InUse /\ Fail(t, "cancelled")
  BY <1>1, FailType
<1>2. CASE /\ EndAttempt(t, "cancelled")
           /\ UNCHANGED <<wireVars, persistent, idleTimeout, cached, age, waiters,
                          attempt, answer, closer>>
  BY <1>2, EndAttemptType DEF wireVars, TypeOK, WireTypeOK, PoolTypeOK
<1>3. CASE /\ IF pc[t] = "acquire" THEN LeaveQueue(KeyOf[t], t)
                                   ELSE UNCHANGED waiters
           /\ GoTo(t, "done")
           /\ outcome' = [outcome EXCEPT ![t] = "cancelled"]
           /\ UNCHANGED <<wireVars, persistent, idleTimeout, cached, age, holder,
                          attempt, conn, answer, closer>>
  <2>1. waiters' \in [Keys -> Seq(Calls)]
    <3>1. CASE LeaveQueue(KeyOf[t], t)
      <4> PICK i \in 1..Len(waiters[KeyOf[t]]) :
                 waiters' = [waiters EXCEPT ![KeyOf[t]] = RemoveAt(@, i)]
        BY <3>1 DEF LeaveQueue
      <4>1. RemoveAt(waiters[KeyOf[t]], i) \in Seq(Calls)
        BY RemoveAtType DEF TypeOK, PoolTypeOK
      <4> QED
        BY <4>1 DEF TypeOK, PoolTypeOK
    <3>2. CASE UNCHANGED waiters
      BY <3>2 DEF TypeOK, PoolTypeOK
    <3> QED
      BY <1>3, <3>1, <3>2
  <2> QED
    BY <1>3, <2>1 DEF GoTo, wireVars, TypeOK, WireTypeOK, PoolTypeOK, PcStates
<1> QED
  BY <1>1, <1>2, <1>3 DEF Cancel

(* close() runs to its next await, or is cancelled there.                  *)
LEMMA CloserType ==
    ASSUME TypeOK, NEW x \in Closers, Flush(x) \/ CancelFlush(x)
    PROVE  TypeOK'
<1> MaxAge \in Nat
  BY PoolAssumption
<1>1. ASSUME NEW ks, PopSlots(ks)
      PROVE  /\ cached' \in [Keys -> Conns \cup {NoConn}]
             /\ age' \in [Keys -> 0..MaxAge]
  BY <1>1 DEF PopSlots, TypeOK, PoolTypeOK
<1>2. ASSUME NEW k \in Pooled, NEW ks, PopSlots(ks \cup {k}), CloseWriter(cached[k]),
             closer' = [closer EXCEPT ![x] = "flush"], Flush(x)
      PROVE  TypeOK'
  <2>1. cached[k] \in Conns
    BY DEF Pooled, TypeOK, PoolTypeOK
  <2> QED
    BY <1>1, <1>2, <2>1, CloseWriterType
       DEF Flush, callVars, TypeOK, WireTypeOK, PoolTypeOK
<1>3. CASE /\ Flush(x) /\ PopSlots(Pooled)
           /\ closer' = [closer EXCEPT ![x] = "closed"]
           /\ UNCHANGED <<link, wire>>
  BY <1>1, <1>3 DEF Flush, callVars, TypeOK, WireTypeOK, PoolTypeOK
<1>4. CASE CancelFlush(x)
  BY <1>4 DEF CancelFlush, wireVars, poolVars, callVars, TypeOK, WireTypeOK,
              PoolTypeOK
<1> QED
  BY <1>2, <1>3, <1>4 DEF Flush

(* A step of one call leaves every other call where it is.                 *)
CallStep(t) == Start(t) \/ Resume(t) \/ Cancel(t)

OthersKept(t) ==
    \A u \in Calls \ {t} :
      /\ pc'[u] = pc[u] /\ conn'[u] = conn[u] /\ attempt'[u] = attempt[u]
      /\ outcome'[u] = outcome[u] /\ answer'[u] = answer[u]

(* What a call does to its program counter, its loop variable and its      *)
(* connection, it does to its own.                                         *)
LEMMA OthersUntouched ==
    ASSUME TypeInv, NEW t \in Calls, CallStep(t)
    PROVE  OthersKept(t)
<1> USE DEF TypeInv, TypeOK, OthersKept, GoTo
<1>1. ASSUME NEW out, EndAttempt(t, out), UNCHANGED <<attempt, answer>>
      PROVE  OthersKept(t)
  BY <1>1 DEF EndAttempt
<1>2. ASSUME NEW out, Fail(t, out) PROVE OthersKept(t)
  BY <1>2 DEF Fail, Evict, EndAttempt, AwaitClosed
<1>3. ASSUME Accept(t) PROVE OthersKept(t)
  BY <1>3 DEF Accept, ReturnOrClose, EndAttempt, AwaitClosed
<1>4. ASSUME Checkout(t), UNCHANGED <<attempt, outcome, answer>>
      PROVE  OthersKept(t)
  BY <1>4 DEF Checkout, StartExchange
<1>5. ASSUME EnterPool(t), UNCHANGED <<outcome, answer>>,
             attempt' = attempt \/ attempt' = [attempt EXCEPT ![t] = @ + 1]
      PROVE  OthersKept(t)
  BY <1>5 DEF EnterPool, Checkout, StartExchange
<1>6. CASE Resume(t)
  <2>1. CASE DialSucceeds(t)
    BY <2>1 DEF DialSucceeds, StartExchange
  <2>2. CASE \/ DiscardDone(t) \/ Drained(t) \/ Acquire(t) \/ BackoffDone(t)
             \/ CloseDone(t) \/ DialFails(t)
    BY <2>2, <1>1, <1>4, <1>5
       DEF DiscardDone, Drained, Acquire, BackoffDone, CloseDone, DialFails
  <2>3. CASE \/ ReadHeader(t) \/ ReadPayload(t) \/ ExchangeTimesOut(t)
             \/ ExchangeLost(t) \/ ReadEof(t)
    BY <2>3, <1>2, <1>3
       DEF ReadHeader, ReadPayload, ExchangeTimesOut, ExchangeLost, ReadEof
  <2> QED
    BY <1>6, <2>1, <2>2, <2>3 DEF Resume
<1>7. CASE Start(t)
  BY <1>5, <1>7 DEF Start
<1>8. CASE Cancel(t)
  BY <1>1, <1>2, <1>8 DEF Cancel
<1> QED
  BY <1>6, <1>7, <1>8 DEF CallStep

(* The call that moves has a connection when it is in an exchange, and a   *)
(* retry left when it backs off.                                           *)
LEMMA CallStepLocal ==
    ASSUME TypeInv, TypeOK', NEW t \in Calls, CallStep(t)
    PROVE  /\ pc'[t] \in InUse => conn'[t] \in Conns
           /\ pc'[t] = "backoff" => attempt'[t] < MaxRetries
<1> DEFINE Local == /\ pc'[t] \in InUse => conn'[t] \in Conns
                    /\ pc'[t] = "backoff" => attempt'[t] < MaxRetries
<1> USE DEF TypeInv, TypeOK, GoTo
<1>1. ASSUME NEW out, EndAttempt(t, out), UNCHANGED attempt PROVE Local
  BY <1>1 DEF EndAttempt, InUse
<1>2. ASSUME NEW out, Fail(t, out) PROVE Local
  BY <1>1, <1>2 DEF Fail, Evict, AwaitClosed, InUse
<1>3. ASSUME Accept(t) PROVE Local
  BY <1>1, <1>3 DEF Accept, ReturnOrClose, AwaitClosed, InUse
<1>4. ASSUME NEW c \in Conns, StartExchange(t, c) PROVE Local
  BY <1>4 DEF StartExchange, InUse
<1>5. ASSUME Checkout(t) PROVE Local
  <2>1. KeyOf[t] \in Keys
    BY PoolAssumption
  <2> QED
    BY <1>4, <1>5, <2>1 DEF Checkout, InUse, Reusable, PoolTypeOK
<1>6. ASSUME EnterPool(t) PROVE Local
  BY <1>5, <1>6 DEF EnterPool, InUse
<1>7. CASE Resume(t)
  <2>1. CASE DialSucceeds(t)
    BY <2>1, <1>4 DEF DialSucceeds, Unused
  <2>2. CASE \/ DiscardDone(t) \/ Drained(t) \/ Acquire(t) \/ BackoffDone(t)
             \/ CloseDone(t) \/ DialFails(t)
    BY <2>2, <1>1, <1>5, <1>6
       DEF DiscardDone, Drained, Acquire, BackoffDone, CloseDone, DialFails,
           ConnInUse, InUse
  <2>3. CASE ReadHeader(t)
    BY <2>3, <1>2, <1>3 DEF ReadHeader, ConnInUse, InUse
  <2>4. CASE \/ ReadPayload(t) \/ ExchangeTimesOut(t) \/ ExchangeLost(t)
             \/ ReadEof(t)
    BY <2>4, <1>2, <1>3
       DEF ReadPayload, ExchangeTimesOut, ExchangeLost, ReadEof
  <2> QED
    BY <1>7, <2>1, <2>2, <2>3, <2>4 DEF Resume
<1>8. CASE Start(t)
  BY <1>6, <1>8 DEF Start
<1>9. CASE Cancel(t)
  <2>1. CASE pc[t] \in {"acquire", "backoff"} /\ GoTo(t, "done")
    BY <2>1 DEF InUse
  <2> QED
    BY <1>1, <1>2, <1>9, <2>1 DEF Cancel
<1> QED
  BY <1>7, <1>8, <1>9 DEF CallStep

(* Every step preserves the type invariant.                                *)
LEMMA TypeInvStep ==
    ASSUME TypeInv, [Next]_vars
    PROVE  TypeInv'
<1> USE DEF TypeInv
<1>1. ASSUME NEW t \in Calls, Start(t) PROVE TypeOK'
  BY <1>1, EnterPoolType DEF Start, TypeOK, WireTypeOK, PoolTypeOK
<1>2. ASSUME WireNext, UNCHANGED <<poolVars, callVars, closer>> PROVE TypeOK'
  BY <1>2, WireStepType DEF poolVars, callVars, TypeOK, PoolTypeOK
<1>3. ASSUME PoolNext, UNCHANGED <<wireVars, callVars, closer>> PROVE TypeOK'
  BY <1>3, PoolStepType DEF wireVars, callVars, TypeOK, WireTypeOK
<1>4. ASSUME UNCHANGED vars PROVE TypeOK'
  BY <1>4 DEF vars, wireVars, poolVars, callVars, TypeOK, WireTypeOK, PoolTypeOK
<1>5. TypeOK'
  BY <1>1, <1>2, <1>3, <1>4, ResumeType, CancelType, CloserType DEF Next
<1>6. ASSUME NEW t \in Calls, CallStep(t) PROVE ConnInUse' /\ RetryLeft'
  <2>1. OthersKept(t)
    BY <1>6, OthersUntouched
  <2>2. /\ pc'[t] \in InUse => conn'[t] \in Conns
        /\ pc'[t] = "backoff" => attempt'[t] < MaxRetries
    BY <1>5, <1>6, CallStepLocal
  <2> QED
    BY <2>1, <2>2 DEF OthersKept, ConnInUse, RetryLeft
<1>7. ASSUME UNCHANGED callVars PROVE ConnInUse' /\ RetryLeft'
  BY <1>7 DEF callVars, ConnInUse, RetryLeft
<1> QED
  BY <1>5, <1>6, <1>7 DEF Next, CallStep, Flush, CancelFlush, vars

(* Every reachable state is well typed.                                    *)
THEOREM TypeCorrect == Spec => []TypeInv
<1>1. Init => TypeInv
  BY EmptySeq, PoolAssumption, ClientAssumption
     DEF Init, WireInit, PoolInit, TypeInv, TypeOK, WireTypeOK, PoolTypeOK, ConnInUse,
         RetryLeft, LinkStates, PcStates, InUse
<1>2. TypeInv /\ [Next]_vars => TypeInv'
  BY TypeInvStep
<1> QED
  BY <1>1, <1>2, PTL DEF Spec

(* The type invariant the runs check: the values of every variable, the    *)
(* loop variable of the retries within its range.                          *)
THEOREM TypesHold == Spec => []TypeOK
BY TypeCorrect, PTL DEF TypeInv

(***************************** mutual exclusion ****************************)
(* A key's lock is held by exactly the call inside its async with.         *)
LockInv ==
    \A k \in Keys, t \in Calls :
      holder[k] = t <=> KeyOf[t] = k /\ pc[t] \in Holding

(* How a step of t may change t's own side of that equivalence: it takes   *)
(* the free lock, keeps it, releases it, or stays outside.                 *)
LockMove(t) ==
    LET k == KeyOf[t]
    IN  \/ /\ holder[k] = NoCall /\ holder' = [holder EXCEPT ![k] = t]
           /\ pc'[t] \in Holding
        \/ /\ pc[t] \in Holding /\ holder' = holder /\ pc'[t] \in Holding
        \/ /\ pc[t] \in Holding /\ holder' = [holder EXCEPT ![k] = NoCall]
           /\ pc'[t] \notin Holding
        \/ /\ pc[t] \notin Holding /\ holder' = holder /\ pc'[t] \notin Holding

(* How a call's step moves its lamp's lock along with its program counter. *)
LEMMA CallLockMove ==
    ASSUME TypeInv, NEW t \in Calls, CallStep(t)
    PROVE  LockMove(t)
<1> USE DEF TypeInv, TypeOK, GoTo, Holding, InUse, LockMove
<1>1. ASSUME NEW out, EndAttempt(t, out), pc[t] \in Holding PROVE LockMove(t)
  BY <1>1 DEF EndAttempt, ReleaseLock
<1>2. ASSUME NEW out, Fail(t, out), pc[t] \in InUse PROVE LockMove(t)
  BY <1>1, <1>2 DEF Fail, Evict, AwaitClosed
<1>3. ASSUME Accept(t), pc[t] \in InUse PROVE LockMove(t)
  BY <1>1, <1>3 DEF Accept, ReturnOrClose, AwaitClosed
<1>4. ASSUME Checkout(t) PROVE pc'[t] \in Holding
  BY <1>4 DEF Checkout, StartExchange
<1>5. ASSUME EnterPool(t), pc[t] \notin Holding PROVE LockMove(t)
  BY <1>4, <1>5 DEF EnterPool, TakeLock, LockFree
<1>6. CASE Resume(t)
  <2>1. CASE Acquire(t)
    BY <2>1, <1>4 DEF Acquire, LockGranted, TakeLock
  <2>2. CASE DiscardDone(t) \/ Drained(t)
    BY <2>2 DEF DiscardDone, Drained, poolVars
  <2>3. CASE DialSucceeds(t)
    BY <2>3 DEF DialSucceeds, StartExchange, poolVars
  <2>4. CASE DialFails(t) \/ CloseDone(t)
    BY <2>4, <1>1 DEF DialFails, CloseDone
  <2>5. CASE BackoffDone(t)
    BY <2>5, <1>5 DEF BackoffDone
  <2>6. CASE ReadHeader(t) \/ ReadPayload(t)
    BY <2>6, <1>2, <1>3 DEF ReadHeader, ReadPayload, poolVars
  <2>7. CASE ExchangeTimesOut(t) \/ ExchangeLost(t) \/ ReadEof(t)
    BY <2>7, <1>2 DEF ExchangeTimesOut, ExchangeLost, ReadEof
  <2> QED
    BY <1>6, <2>1, <2>2, <2>3, <2>4, <2>5, <2>6, <2>7 DEF Resume
<1>7. CASE Start(t)
  BY <1>5, <1>7 DEF Start
<1>8. CASE Cancel(t)
  BY <1>1, <1>2, <1>8 DEF Cancel
<1> QED
  BY <1>6, <1>7, <1>8 DEF CallStep

(* Every step preserves the agreement of locks and calls.                  *)
LEMMA LockInvStep ==
    ASSUME TypeInv, LockInv, [Next]_vars
    PROVE  LockInv'
<1>1. ASSUME NEW t \in Calls, CallStep(t) PROVE LockInv'
  <2>1. LockMove(t) /\ OthersKept(t)
    BY <1>1, CallLockMove, OthersUntouched
  <2>2. KeyOf[t] \in Keys /\ NoCall \notin Calls
    BY PoolAssumption
  <2> QED
    BY <2>1, <2>2 DEF LockMove, OthersKept, LockInv, TypeInv, TypeOK, PoolTypeOK
<1>2. ASSUME UNCHANGED <<holder, callVars>> PROVE LockInv'
  BY <1>2 DEF callVars, LockInv
<1>3. ASSUME NEW x \in Closers, Flush(x) \/ CancelFlush(x)
      PROVE  UNCHANGED <<holder, callVars>>
  BY <1>3 DEF Flush, CancelFlush, poolVars
<1>4. ASSUME PoolNext, UNCHANGED callVars PROVE UNCHANGED <<holder, callVars>>
  BY <1>4 DEF PoolNext, Tick, SetPersistent, SetIdleTimeout
<1> QED
  BY <1>1, <1>2, <1>3, <1>4 DEF Next, CallStep, vars, poolVars

(* Two calls for one lamp are never both inside the pool's async with.     *)
THEOREM LocksHold == Spec => []LockInv
<1>1. Init => LockInv
  BY PoolAssumption DEF Init, PoolInit, LockInv, Holding, InUse
<1>2. TypeInv /\ LockInv /\ [Next]_vars => LockInv'
  BY LockInvStep
<1> QED
  BY <1>1, <1>2, TypeCorrect, PTL DEF Spec

(************************* ownership of connections ************************)
(* While a call holds a key's lock the key's slot is empty.                *)
SlotInv == \A t \in Calls : pc[t] \in Holding => cached[KeyOf[t]] = NoConn

(* A connection in use or pooled was dialled to the lamp it serves; with   *)
(* LockInv and SlotInv, no two owners can then share it.                   *)
LampInv ==
    /\ \A t \in Calls : pc[t] \in InUse =>
         lampOf[conn[t]] = KeyOf[t] /\ link[conn[t]] # "unused"
    /\ \A k \in Keys : cached[k] # NoConn =>
         lampOf[cached[k]] = k /\ link[cached[k]] # "unused"

(* An open connection has an owner.                                        *)
OpenInv ==
    \A c \in Conns : link[c] \in Open =>
      \/ \E k \in Keys : cached[k] = c
      \/ \E t \in Calls : pc[t] \in InUse /\ conn[t] = c

OwnerInv == SlotInv /\ LampInv /\ OpenInv

(* All that a step of a call can do to connections and their traffic.      *)
Idles(t) ==      \* nothing
    /\ UNCHANGED <<link, lampOf, cached, sent, wire>>
    /\ pc[t] \in InUse <=> pc'[t] \in InUse
    /\ pc'[t] \in Holding => pc[t] \in Holding \/ cached[KeyOf[t]] = NoConn
    /\ pc[t] \in InUse => conn'[t] = conn[t]
Dials(t) ==      \* open one nobody has used
    \E c \in Conns :
      /\ pc[t] = "dial" /\ pc'[t] \in InUse /\ conn'[t] = c
      /\ link[c] = "unused"
      /\ link' = [link EXCEPT ![c] = "up"]
      /\ lampOf' = [lampOf EXCEPT ![c] = KeyOf[t]]
      /\ sent' = [sent EXCEPT ![c] = Append(@, t)]
      /\ UNCHANGED <<cached, wire>>
Reuses(t) ==     \* take the pooled one
    /\ pc[t] \notin Holding /\ pc'[t] \in InUse
    /\ cached[KeyOf[t]] \in Conns /\ conn'[t] = cached[KeyOf[t]]
    /\ cached' = [cached EXCEPT ![KeyOf[t]] = NoConn]
    /\ \/ UNCHANGED sent
       \/ sent' = [sent EXCEPT ![cached[KeyOf[t]]] = Append(@, t)]
    /\ UNCHANGED <<link, lampOf, wire>>
Discards(t) ==   \* drop the pooled one, closing it if it is open
    LET c == cached[KeyOf[t]]
    IN  /\ pc[t] \notin Holding /\ pc'[t] \notin InUse
        /\ c \in Conns
        /\ cached' = [cached EXCEPT ![KeyOf[t]] = NoConn]
        /\ \/ link[c] \in Closing /\ UNCHANGED <<link, wire>>
           \/ /\ link' = [link EXCEPT ![c] = "closed"]
              /\ wire' = [wire EXCEPT ![c] = <<>>]
        /\ UNCHANGED <<lampOf, sent>>
Drops(t) ==      \* leave the exchange, the connection being closed
    /\ pc[t] \in InUse /\ pc'[t] \notin InUse
    /\ \/ link[conn[t]] \in Closing /\ UNCHANGED link
       \/ link' = [link EXCEPT ![conn[t]] = "closed"]
    /\ \E left : wire' = [wire EXCEPT ![conn[t]] = left]
    /\ UNCHANGED <<lampOf, cached, sent>>
Stores(t) ==     \* leave the exchange, the connection going to the pool
    /\ pc[t] \in InUse /\ pc'[t] \notin Holding
    /\ cached' = [cached EXCEPT ![KeyOf[t]] = conn[t]]
    /\ wire[conn[t]] # <<>>
    /\ wire' = [wire EXCEPT ![conn[t]] = Tail(@)]
    /\ UNCHANGED <<link, lampOf, sent>>

ConnMove(t) ==
    Idles(t) \/ Dials(t) \/ Reuses(t) \/ Discards(t) \/ Drops(t) \/ Stores(t)

(* What _checkout() leaves behind: the slot is empty, and what was in it   *)
(* is the call's, or closed.                                               *)
LEMMA CheckoutMove ==
    ASSUME TypeInv, NEW t \in Calls, Checkout(t), UNCHANGED lampOf,
           pc[t] \notin Holding
    PROVE  ConnMove(t)
<1> DEFINE k == KeyOf[t]
           c == cached[k]
<1>1. k \in Keys /\ c \in Conns \cup {NoConn}
  BY PoolAssumption DEF TypeInv, TypeOK, PoolTypeOK
<1>2. cached' = [cached EXCEPT ![k] = NoConn]
  BY <1>1 DEF Checkout, PopSlots, TypeInv, TypeOK, PoolTypeOK
<1>3. CASE Reusable(k) /\ StartExchange(t, c) /\ UNCHANGED <<link, wire>>
  <2>1. Reuses(t)
    BY <1>1, <1>2, <1>3
       DEF Reuses, Reusable, StartExchange, Write, GoTo, InUse, TypeInv, TypeOK,
           WireTypeOK
  <2> QED
    BY <2>1 DEF ConnMove
<1>4. CASE c # NoConn /\ CloseWriter(c) /\ GoTo(t, "discard") /\ UNCHANGED sent
  <2>1. Discards(t)
    BY <1>1, <1>2, <1>4
       DEF Discards, CloseWriter, GoTo, InUse, TypeInv, TypeOK
  <2> QED
    BY <2>1 DEF ConnMove
<1>5. CASE /\ c # NoConn /\ link[c] \in Closing /\ GoTo(t, "dial")
           /\ UNCHANGED <<link, sent, wire>>
  <2>1. Discards(t)
    BY <1>1, <1>2, <1>5 DEF Discards, GoTo, InUse, TypeInv, TypeOK
  <2> QED
    BY <2>1 DEF ConnMove
<1>6. CASE c = NoConn /\ GoTo(t, "dial") /\ UNCHANGED <<link, sent, wire>>
  <2>1. cached' = cached
    BY <1>1, <1>2, <1>6 DEF TypeInv, TypeOK, PoolTypeOK
  <2>2. Idles(t)
    BY <1>6, <2>1 DEF Idles, GoTo, InUse, Holding, TypeInv, TypeOK
  <2> QED
    BY <2>2 DEF ConnMove
<1> QED
  BY <1>3, <1>4, <1>5, <1>6 DEF Checkout

(* How a call's step moves connections between it and its lamp's slot.     *)
LEMMA CallConnMove ==
    ASSUME TypeInv, LockInv, SlotInv, NEW t \in Calls, CallStep(t)
    PROVE  ConnMove(t)
<1> USE DEF TypeInv, TypeOK, GoTo
<1> conn[t] \in Conns \cup {NoConn} /\ KeyOf[t] \in Keys
  BY PoolAssumption
<1>1. ASSUME NEW out, EndAttempt(t, out), pc[t] \notin InUse,
             UNCHANGED <<link, lampOf, cached, sent, wire>>
      PROVE  ConnMove(t)
  BY <1>1 DEF EndAttempt, ConnMove, Idles, InUse, Holding
<1>2. ASSUME NEW out, Fail(t, out), pc[t] \in InUse PROVE ConnMove(t)
  <2>1. wire = [wire EXCEPT ![conn[t]] = wire[conn[t]]]
    BY DEF WireTypeOK
  <2>2. Drops(t)
    BY <1>2, <2>1
       DEF Fail, Evict, AwaitClosed, CloseWriter, EndAttempt, Drops, InUse
  <2> QED
    BY <2>2 DEF ConnMove
<1>3. ASSUME Accept(t), pc[t] \in InUse, wire[conn[t]] # <<>> PROVE ConnMove(t)
  <2> DEFINE consumed == wire' = [wire EXCEPT ![conn[t]] = Tail(@)]
  <2>1. CASE /\ StoreSlot(KeyOf[t], conn[t]) /\ consumed /\ EndAttempt(t, "ok")
             /\ UNCHANGED link
    BY <1>3, <2>1 DEF Accept, StoreSlot, EndAttempt, Stores, ConnMove, Holding, InUse
  <2>2. CASE AwaitClosed(t, "release", "ok") /\ UNCHANGED cached
    BY <1>3, <2>2 DEF Accept, AwaitClosed, CloseWriter, Drops, ConnMove, InUse
  <2>3. CASE /\ link[conn[t]] \in Closing /\ consumed /\ EndAttempt(t, "ok")
             /\ UNCHANGED <<link, cached>>
    BY <1>3, <2>3 DEF Accept, EndAttempt, Drops, ConnMove, InUse
  <2> QED
    BY <1>3, <2>1, <2>2, <2>3 DEF Accept, ReturnOrClose
<1>4. ASSUME EnterPool(t), pc[t] \notin Holding, UNCHANGED lampOf
      PROVE  ConnMove(t)
  <2>1. CASE GoTo(t, "acquire") /\ UNCHANGED <<link, cached, sent, wire>>
    BY <1>4, <2>1 DEF Idles, ConnMove, InUse, Holding
  <2> QED
    BY <1>4, <2>1, CheckoutMove DEF EnterPool
<1>5. CASE Resume(t)
  <2>1. CASE Acquire(t)
    BY <2>1, CheckoutMove DEF Acquire, Holding, InUse
  <2>2. CASE DiscardDone(t) \/ Drained(t)
    BY <2>2 DEF DiscardDone, Drained, wireVars, poolVars, Idles, ConnMove, InUse,
                Holding
  <2>3. CASE DialSucceeds(t)
    <3>1. PICK c \in Unused : Dial(c, KeyOf[t]) /\ StartExchange(t, c)
      BY <2>3 DEF DialSucceeds
    <3>2. Dials(t)
      BY <2>3, <3>1 DEF DialSucceeds, Dials, Dial, StartExchange, Write, Unused,
                        poolVars, InUse
    <3> QED
      BY <3>2 DEF ConnMove
  <2>4. CASE DialFails(t) \/ CloseDone(t)
    BY <2>4, <1>1 DEF DialFails, CloseDone, wireVars, InUse
  <2>5. CASE BackoffDone(t)
    BY <2>5, <1>4 DEF BackoffDone, Holding, InUse
  <2>6. CASE ReadHeader(t)
    <3>1. CASE GoTo(t, "payload") /\ UNCHANGED <<wireVars, poolVars, conn>>
      BY <2>6, <3>1 DEF ReadHeader, wireVars, poolVars, Idles, ConnMove, InUse, Holding
    <3> QED
      BY <2>6, <3>1, <1>2, <1>3 DEF ReadHeader, InUse
  <2>7. CASE ReadPayload(t)
    BY <2>7, <1>2, <1>3 DEF ReadPayload, InUse
  <2>8. CASE ExchangeTimesOut(t) \/ ExchangeLost(t) \/ ReadEof(t)
    BY <2>8, <1>2 DEF ExchangeTimesOut, ExchangeLost, ReadEof, InUse
  <2> QED
    BY <1>5, <2>1, <2>2, <2>3, <2>4, <2>5, <2>6, <2>7, <2>8 DEF Resume
<1>6. CASE Start(t)
  BY <1>4, <1>6 DEF Start, Holding, InUse
<1>7. CASE Cancel(t)
  <2>1. CASE pc[t] \in {"acquire", "backoff"}
    BY <1>7, <2>1 DEF Cancel, wireVars, Idles, ConnMove, InUse, Holding
  <2> QED
    BY <1>1, <1>2, <1>7, <2>1 DEF Cancel, wireVars, Holding, InUse
<1> QED
  BY <1>5, <1>6, <1>7 DEF CallStep

(* A call's step leaves every open connection with one owner.              *)
LEMMA OwnerCallStep ==
    ASSUME TypeInv, TypeInv', LockInv, LockInv', OwnerInv, NEW t \in Calls,
           OthersKept(t), ConnMove(t), LockMove(t)
    PROVE  OwnerInv'
<1> DEFINE k == KeyOf[t]
<1>1. /\ k \in Keys /\ NoConn \notin Conns /\ NoCall \notin Calls
      /\ KeyOf \in [Calls -> Keys]
  BY PoolAssumption
<1>2. /\ link \in [Conns -> LinkStates] /\ lampOf \in [Conns -> Keys \cup {NoKey}]
      /\ cached \in [Keys -> Conns \cup {NoConn}] /\ conn \in [Calls -> Conns \cup {NoConn}]
      /\ holder \in [Keys -> Calls \cup {NoCall}]
  BY DEF TypeInv, TypeOK, WireTypeOK, PoolTypeOK
<1>3. \A u \in Calls \ {t} : /\ pc'[u] = pc[u] /\ conn'[u] = conn[u]
                             /\ pc[u] \in Holding /\ pc[t] \in Holding => KeyOf[u] # k
                             /\ pc[u] \in Holding /\ pc'[t] \in Holding => KeyOf[u] # k
  BY <1>1 DEF OthersKept, LockInv
<1>4. \A u \in Calls : pc[u] \in InUse => conn[u] \in Conns /\ pc[u] \in Holding
  BY DEF TypeInv, ConnInUse, Holding
<1>5. pc[t] = "dial" => pc[t] \in Holding /\ pc[t] \notin InUse
  BY DEF Holding, InUse
<1>6. pc'[t] \in InUse => pc'[t] \in Holding
  BY DEF Holding
<1>7. "up" \in Open /\ "up" # "unused" /\ "closed" # "unused" /\ "closed" \notin Open
      /\ Closing \cap Open = {} /\ "unused" \notin Open
  BY DEF Open, Departed, Closing
<1> HIDE DEF k
<1> USE <1>1, <1>2, <1>3, <1>4, <1>5, <1>6, <1>7
<1>8. CASE Idles(t)
  <2>1. SlotInv'
    BY <1>8 DEF Idles, OwnerInv, SlotInv, k
  <2>2. LampInv'
    BY <1>8 DEF Idles, OwnerInv, LampInv
  <2>3. OpenInv'
    BY <1>8 DEF Idles, OwnerInv, OpenInv
  <2> QED
    BY <2>1, <2>2, <2>3 DEF OwnerInv
<1>9. CASE Dials(t)
  <2>1. SlotInv'
    BY <1>9 DEF Dials, OwnerInv, SlotInv, k
  <2>2. LampInv'
    BY <1>9 DEF Dials, OwnerInv, LampInv, k
  <2>3. OpenInv'
    BY <1>9 DEF Dials, OwnerInv, OpenInv
  <2> QED
    BY <2>1, <2>2, <2>3 DEF OwnerInv
<1>10. CASE Reuses(t)
  <2>1. SlotInv'
    BY <1>10 DEF Reuses, OwnerInv, SlotInv, k
  <2>2. LampInv'
    BY <1>10 DEF Reuses, OwnerInv, LampInv, k
  <2>3. OpenInv'
    BY <1>10 DEF Reuses, OwnerInv, OpenInv, k
  <2> QED
    BY <2>1, <2>2, <2>3 DEF OwnerInv
<1>11. CASE Discards(t)
  <2>1. SlotInv'
    BY <1>11 DEF Discards, OwnerInv, SlotInv, k
  <2>2. LampInv'
    BY <1>11 DEF Discards, OwnerInv, LampInv, k
  <2>3. OpenInv'
    BY <1>11 DEF Discards, OwnerInv, OpenInv, k
  <2> QED
    BY <2>1, <2>2, <2>3 DEF OwnerInv
<1>12. CASE Drops(t)
  <2>1. SlotInv'
    BY <1>12 DEF Drops, OwnerInv, SlotInv, k
  <2>2. LampInv'
    BY <1>12 DEF Drops, OwnerInv, LampInv
  <2>3. OpenInv'
    BY <1>12 DEF Drops, OwnerInv, OpenInv
  <2> QED
    BY <2>1, <2>2, <2>3 DEF OwnerInv
<1>13. CASE Stores(t)
  <2>1. SlotInv'
    BY <1>13 DEF Stores, OwnerInv, SlotInv, k
  <2>2. LampInv'
    BY <1>13 DEF Stores, OwnerInv, LampInv, k
  <2>3. OpenInv'
    BY <1>13 DEF Stores, OwnerInv, OpenInv, SlotInv, k
  <2> QED
    BY <2>1, <2>2, <2>3 DEF OwnerInv
<1> QED
  BY <1>8, <1>9, <1>10, <1>11, <1>12, <1>13 DEF ConnMove

(* So does every other step.                                               *)
LEMMA OwnerInvStep ==
    ASSUME TypeInv, TypeInv', LockInv, LockInv', OwnerInv, [Next]_vars
    PROVE  OwnerInv'
<1> USE DEF OwnerInv
<1>1. ASSUME NEW t \in Calls, CallStep(t) PROVE OwnerInv'
  BY <1>1, OwnerCallStep, OthersUntouched, CallConnMove, CallLockMove
<1>2. ASSUME NEW x \in Closers, Flush(x) PROVE OwnerInv'
  <2> UNCHANGED <<lampOf, pc, conn>> /\ KeyOf \in [Calls -> Keys] /\ NoConn \notin Conns
    BY <1>2, PoolAssumption DEF Flush, callVars
  <2>1. ASSUME NEW ks, PopSlots(ks)
        PROVE  \A k \in Keys : cached'[k] \in {cached[k], NoConn}
    BY <2>1 DEF PopSlots
  <2>2. \A k \in Keys : cached'[k] \in {cached[k], NoConn}
    BY <1>2, <2>1 DEF Flush
  <2>3. CASE UNCHANGED link /\ PopSlots(Pooled)
             /\ \A k \in Pooled : link[cached[k]] \in Closing
    <3>1. \A c \in Conns, k \in Keys : link[c] \in Open => cached[k] # c
      BY <2>3, PoolAssumption DEF Pooled, Closing, Open, Departed
    <3>2. SlotInv'
      BY <2>2 DEF SlotInv
    <3>3. LampInv'
      BY <2>2, <2>3 DEF LampInv
    <3>4. OpenInv'
      BY <2>3, <3>1 DEF OpenInv
    <3> QED
      BY <3>2, <3>3, <3>4
  <2>4. ASSUME NEW k \in Pooled,
               NEW ks \in SUBSET {j \in Pooled : link[cached[j]] \in Closing},
               PopSlots(ks \cup {k}), CloseWriter(cached[k])
        PROVE  OwnerInv'
    <3>1. /\ cached[k] \in Conns
          /\ link' = [link EXCEPT ![cached[k]] = "closed"]
          /\ link \in [Conns -> LinkStates]
          /\ "closed" # "unused" /\ "closed" \notin Open /\ Closing \cap Open = {}
      BY <2>4 DEF Pooled, CloseWriter, TypeInv, TypeOK, WireTypeOK, PoolTypeOK, Open,
                  Departed, Closing
    <3>2. SlotInv'
      BY <2>2 DEF SlotInv
    <3>5. \A c : link[c] # "unused" => link'[c] # "unused"
      BY <3>1
    <3>6. LampInv'
      BY <2>2, <3>5 DEF LampInv
    <3>3. \A c \in Conns, j \in Keys :
            link'[c] \in Open /\ cached[j] = c => cached'[j] = c
      BY <2>4, <3>1 DEF PopSlots
    <3>4. OpenInv'
      BY <3>1, <3>3 DEF OpenInv
    <3> QED
      BY <3>2, <3>4, <3>6
  <2> QED
    BY <1>2, <2>3, <2>4 DEF Flush
<1>3. ASSUME WireNext, UNCHANGED <<poolVars, callVars, closer>> PROVE OwnerInv'
  <2>1. /\ lampOf' = lampOf
        /\ \A c \in Conns : /\ link'[c] \in Open => link[c] \in Open
                            /\ link[c] # "unused" => link'[c] # "unused"
    <3>1. link \in [Conns -> LinkStates]
      BY DEF TypeInv, TypeOK, WireTypeOK
    <3>2. ASSUME NEW c \in Conns, LampReplies(c) \/ LampStaysSilent(c)
          PROVE  UNCHANGED <<link, lampOf>>
      BY <3>2 DEF LampReplies, LampStaysSilent, LampTakes
    <3>3. ASSUME NEW c \in Conns, NEW how \in Departed, PeerDeparts(c, how)
          PROVE  /\ UNCHANGED lampOf
                 /\ link' = [link EXCEPT ![c] = how] /\ link[c] \in Open
      BY <3>3 DEF PeerDeparts, Open, Departed
    <3>4. ASSUME NEW c \in Conns, LoopNotices(c)
          PROVE  /\ UNCHANGED lampOf
                 /\ \E to \in Closing : link' = [link EXCEPT ![c] = to]
      BY <3>4 DEF LoopNotices, Closing
    <3> QED
      BY <1>3, <3>1, <3>2, <3>3, <3>4 DEF WireNext, Open, Departed, Closing
  <2>2. \A k \in Keys : cached[k] # NoConn => cached[k] \in Conns
    BY DEF TypeInv, TypeOK, PoolTypeOK
  <2> QED
    BY <1>3, <2>1, <2>2
       DEF poolVars, callVars, SlotInv, LampInv, OpenInv, TypeInv, ConnInUse
<1>4. ASSUME UNCHANGED <<link, lampOf, cached, callVars>> PROVE OwnerInv'
  BY <1>4 DEF callVars, SlotInv, LampInv, OpenInv
<1>5. ASSUME NEW x \in Closers, CancelFlush(x)
      PROVE  UNCHANGED <<link, lampOf, cached, callVars>>
  BY <1>5 DEF CancelFlush, wireVars, poolVars
<1>6. ASSUME PoolNext, UNCHANGED <<wireVars, callVars, closer>>
      PROVE  UNCHANGED <<link, lampOf, cached, callVars>>
  BY <1>6 DEF PoolNext, Tick, SetPersistent, SetIdleTimeout, wireVars
<1> QED
  BY <1>1, <1>2, <1>3, <1>4, <1>5, <1>6 DEF Next, CallStep, vars, wireVars, poolVars

(* Every open connection always belongs to one call's exchange or to one   *)
(* key's slot.                                                             *)
THEOREM OwnersHold == Spec => []OwnerInv
<1>1. Init => OwnerInv
  BY PoolAssumption
     DEF Init, WireInit, PoolInit, OwnerInv, SlotInv, LampInv, OpenInv, Holding, InUse,
         Open, Departed
<1>2. TypeInv /\ TypeInv' /\ LockInv /\ LockInv' /\ OwnerInv /\ [Next]_vars => OwnerInv'
  BY OwnerInvStep
<1> QED
  BY <1>1, <1>2, TypeCorrect, LocksHold, PTL DEF Spec

(* Two owners never share a connection.                                    *)
LEMMA OwnersDisjoint ==
    ASSUME TypeInv, LockInv, OwnerInv
    PROVE  OneOwner
<1>1. KeyOf \in [Calls -> Keys] /\ NoConn \notin Conns /\ InUse \subseteq Holding
  BY PoolAssumption DEF Holding
<1>2. \A t \in Calls : pc[t] \in InUse => conn[t] \in Conns
  BY DEF TypeInv, ConnInUse
<1>3. \A c \in Conns : link[c] \in Open => SlotsOf(c) # {} \/ UsersOf(c) # {}
  BY DEF OwnerInv, OpenInv, SlotsOf, UsersOf
<1>4. \A c \in Conns : SlotsOf(c) = {} \/ UsersOf(c) = {}
  BY <1>1, <1>2 DEF OwnerInv, LampInv, SlotInv, SlotsOf, UsersOf
<1>5. \A k, l \in Keys : cached[k] # NoConn /\ cached[k] = cached[l] => k = l
  BY DEF OwnerInv, LampInv
<1>6. \A t, u \in Calls :
        pc[t] \in InUse /\ pc[u] \in InUse /\ conn[t] = conn[u] => t = u
  BY <1>1 DEF OwnerInv, LampInv, LockInv
<1> QED
  BY <1>3, <1>4, <1>5, <1>6 DEF OneOwner

(* No connection is shared and no open connection leaks, whatever fails,   *)
(* times out, is cancelled or is closed meanwhile.                         *)
THEOREM OwnersAreUnique == Spec => []OneOwner
BY OwnersDisjoint, TypeCorrect, LocksHold, OwnersHold, PTL

(* Calls for one lamp exclude each other, and none of them checks a        *)
(* connection into a slot that holds one.                                  *)
THEOREM LampsAreExclusive == Spec => []OneConnectionPerLamp
<1>1. LockInv /\ OwnerInv => OneConnectionPerLamp
  BY PoolAssumption DEF LockInv, OwnerInv, SlotInv, OneConnectionPerLamp
<1> QED
  BY <1>1, LocksHold, OwnersHold, PTL

(************************** traffic on connections *************************)
(* Nothing is under way on a connection that is pooled or was never used.  *)
QuietInv ==
    /\ \A c \in Unused : sent[c] = <<>> /\ wire[c] = <<>>
    /\ PooledIsClean

(* On the connection of an exchange there is nothing, or the call's own    *)
(* command, or the one response to it.                                     *)
OwnTraffic(t, s, w, n) ==
    \/ w = <<>> /\ s \in {<<>>, <<t>>}
    \/ /\ s = <<>>
       /\ \E f \in Frames : w = <<f>> /\ f.for = t /\ (f.kind \in Accepting => n > 0)

ExchangeInv ==
    \A t \in Calls : pc[t] \in InUse =>
      OwnTraffic(t, sent[conn[t]], wire[conn[t]], execs[t])

TrafficInv == QuietInv /\ ExchangeInv

(* A call's step executes nothing: only the lamp does.                     *)
LEMMA ExecsKept ==
    ASSUME NEW t \in Calls, CallStep(t)
    PROVE  execs' = execs
BY DEF CallStep, Start, Resume, Cancel, Acquire, DiscardDone, DialSucceeds, DialFails,
       Drained, ReadHeader, ReadPayload, ExchangeTimesOut, ExchangeLost, ReadEof,
       CloseDone, BackoffDone, Accept, Fail, wireVars

(* A call's step leaves the traffic of every connection its user's own.    *)
LEMMA TrafficCallStep ==
    ASSUME TypeInv, TypeInv', LockInv, OwnerInv, TrafficInv, NEW t \in Calls,
           OthersKept(t), ConnMove(t), execs' = execs
    PROVE  TrafficInv'
<1> DEFINE k == KeyOf[t]
<1>1. OneOwner
  BY OwnersDisjoint
<1>2. k \in Keys /\ NoConn \notin Conns
  BY PoolAssumption
<1>3. /\ sent \in [Conns -> Seq(Calls)] /\ wire \in [Conns -> Seq(Frames)]
      /\ link \in [Conns -> LinkStates]
      /\ cached \in [Keys -> Conns \cup {NoConn}]
  BY DEF TypeInv, TypeOK, WireTypeOK, PoolTypeOK
<1>4. \A u \in Calls \ {t} : /\ pc'[u] = pc[u] /\ conn'[u] = conn[u]
                             /\ pc[u] \in InUse => conn[u] \in Conns
                             /\ pc[u] \in InUse => link[conn[u]] # "unused"
                             /\ pc[u] \in InUse /\ pc[t] \in InUse
                                  => conn[u] # conn[t]
                             /\ \A l \in Keys : pc[u] \in InUse => cached[l] # conn[u]
  BY <1>1 DEF OthersKept, OneOwner, SlotsOf, UsersOf, TypeInv, ConnInUse, OwnerInv,
              LampInv
<1>5. pc[t] \in InUse =>
        /\ conn[t] \in Conns /\ link[conn[t]] # "unused" /\ pc[t] \in Holding
        /\ \A l \in Keys : cached[l] # conn[t]
  BY <1>1 DEF OneOwner, SlotsOf, UsersOf, TypeInv, ConnInUse, OwnerInv, LampInv, Holding
<1>6. \A l \in Keys : cached[l] # NoConn =>
        /\ cached[l] \in Conns /\ link[cached[l]] # "unused"
        /\ sent[cached[l]] = <<>> /\ wire[cached[l]] = <<>>
        /\ \A m \in Keys : cached[l] = cached[m] => l = m
  BY <1>1, <1>3 DEF OneOwner, OwnerInv, LampInv, TrafficInv, QuietInv, PooledIsClean,
                    Pooled
<1>7. \A c \in Conns : link[c] = "unused" => sent[c] = <<>> /\ wire[c] = <<>>
  BY DEF TrafficInv, QuietInv, Unused
<1>8. SUFFICES /\ \A c \in Conns : link'[c] = "unused" => sent'[c] = <<>> /\ wire'[c] = <<>>
               /\ \A l \in Keys : cached'[l] # NoConn =>
                    sent'[cached'[l]] = <<>> /\ wire'[cached'[l]] = <<>>
               /\ ExchangeInv'
  BY DEF TrafficInv, QuietInv, PooledIsClean, Pooled, Unused
<1>9. ExchangeInv
  BY DEF TrafficInv
<1>10. ASSUME \A u \in Calls \ {t} : pc[u] \in InUse =>
                sent'[conn[u]] = sent[conn[u]] /\ wire'[conn[u]] = wire[conn[u]],
              pc'[t] \in InUse =>
                OwnTraffic(t, sent'[conn'[t]], wire'[conn'[t]], execs'[t])
       PROVE  ExchangeInv'
  BY <1>4, <1>9, <1>10 DEF ExchangeInv
<1> HIDE DEF k
<1> USE <1>2, <1>3, <1>4, <1>5, <1>6, <1>7
<1>11. CASE Idles(t)
  <2>1. pc'[t] \in InUse => OwnTraffic(t, sent'[conn'[t]], wire'[conn'[t]], execs'[t])
    BY <1>9, <1>11 DEF Idles, ExchangeInv
  <2>2. ExchangeInv'
    BY <1>11, <1>10, <2>1 DEF Idles
  <2> QED
    BY <1>11, <2>2 DEF Idles
<1>12. CASE Dials(t)
  <2> PICK c \in Conns :
        /\ pc'[t] \in InUse /\ conn'[t] = c
        /\ link[c] = "unused"
        /\ link' = [link EXCEPT ![c] = "up"]
        /\ sent' = [sent EXCEPT ![c] = Append(@, t)]
        /\ UNCHANGED <<cached, wire>>
    BY <1>12 DEF Dials
  <2>1. sent'[c] = <<t>> /\ wire'[c] = <<>>
    BY AppendToEmpty
  <2>2. \A d \in Conns \ {c} : sent'[d] = sent[d] /\ link'[d] = link[d]
    OBVIOUS
  <2>3. link'[c] # "unused"
    OBVIOUS
  <2>4. OwnTraffic(t, sent'[conn'[t]], wire'[conn'[t]], execs'[t])
    BY <2>1 DEF OwnTraffic
  <2>5. ExchangeInv'
    BY <1>10, <2>2, <2>4
  <2> QED
    BY <2>2, <2>3, <2>5
<1>13. CASE Reuses(t)
  <2> DEFINE c == cached[k]
  <2>1. c \in Conns /\ sent[c] = <<>> /\ wire'[c] = <<>> /\ conn'[t] = c
    BY <1>13 DEF Reuses, k
  <2>2. UNCHANGED sent \/ sent'[c] = Append(sent[c], t)
    BY <1>13, <2>1 DEF Reuses, k
  <2>3. c \in Conns /\ sent'[c] \in {<<>>, <<t>>} /\ wire'[c] = <<>> /\ conn'[t] = c
    BY <2>1, <2>2, AppendToEmpty
  <2>4. wire' = wire /\ link' = link /\ \A d \in Conns \ {c} : sent'[d] = sent[d]
    BY <1>13 DEF Reuses, k
  <2>5. OwnTraffic(t, sent'[conn'[t]], wire'[conn'[t]], execs'[t])
    BY <2>3 DEF OwnTraffic
  <2>6. ExchangeInv'
    BY <1>10, <2>3, <2>4, <2>5
  <2>7. cached' = [cached EXCEPT ![k] = NoConn]
    BY <1>13 DEF Reuses, k
  <2> QED
    BY <2>3, <2>4, <2>6, <2>7
<1>14. CASE Discards(t)
  <2> DEFINE c == cached[k]
  <2>1. /\ c \in Conns /\ wire'[c] = <<>> /\ sent' = sent /\ pc'[t] \notin InUse
        /\ \A d \in Conns \ {c} : wire'[d] = wire[d] /\ link'[d] = link[d]
        /\ link'[c] # "unused"
    BY <1>14 DEF Discards, k
  <2>2. ExchangeInv'
    BY <1>10, <2>1
  <2>3. cached' = [cached EXCEPT ![k] = NoConn]
    BY <1>14 DEF Discards, k
  <2> QED
    BY <2>1, <2>2, <2>3
<1>15. CASE Drops(t)
  <2>1. /\ sent' = sent /\ cached' = cached /\ pc[t] \in InUse /\ pc'[t] \notin InUse
        /\ \A d \in Conns \ {conn[t]} : wire'[d] = wire[d] /\ link'[d] = link[d]
        /\ link'[conn[t]] # "unused"
    BY <1>15 DEF Drops, Closing
  <2>2. ExchangeInv'
    BY <1>10, <2>1
  <2> QED
    BY <2>1, <2>2
<1>16. CASE Stores(t)
  <2> DEFINE c == conn[t]
  <2>1. /\ c \in Conns /\ pc[t] \in InUse /\ pc'[t] \notin InUse /\ wire[c] # <<>>
        /\ sent' = sent /\ link' = link /\ wire' = [wire EXCEPT ![c] = Tail(@)]
        /\ cached' = [cached EXCEPT ![k] = c]
    BY <1>16 DEF Stores, k, Holding
  <2>2. sent[c] = <<>> /\ \E f : wire[c] = <<f>>
    BY <1>9, <2>1 DEF ExchangeInv, OwnTraffic
  <2>3. wire'[c] = <<>> /\ \A d \in Conns \ {c} : wire'[d] = wire[d]
    BY <2>1, <2>2, AppendToEmpty
  <2>4. ExchangeInv'
    BY <1>10, <2>1, <2>3
  <2> QED
    BY <2>1, <2>2, <2>3, <2>4
<1> QED
  BY <1>11, <1>12, <1>13, <1>14, <1>15, <1>16 DEF ConnMove

(* Traffic stays the user's own when the lamp executes more.               *)
LEMMA OwnTrafficGrows ==
    ASSUME NEW t, NEW s, NEW w, NEW m \in Nat, NEW n \in Nat, n >= m,
           OwnTraffic(t, s, w, m)
    PROVE  OwnTraffic(t, s, w, n)
<1>1. m > 0 => n > 0
  OBVIOUS
<1> QED
  BY <1>1, Zenon DEF OwnTraffic

(* What the lamp and the network do to the connection of an exchange.      *)
LEMMA TrafficWireStep ==
    ASSUME TypeInv, OwnerInv, TrafficInv, WireNext,
           UNCHANGED <<poolVars, callVars, closer>>
    PROVE  TrafficInv'
<1>1. /\ sent \in [Conns -> Seq(Calls)] /\ wire \in [Conns -> Seq(Frames)]
      /\ link \in [Conns -> LinkStates] /\ execs \in [Calls -> Nat]
      /\ UNCHANGED <<cached, pc, conn>>
  BY DEF TypeInv, TypeOK, WireTypeOK, poolVars, callVars
<1>2. \A t \in Calls : pc[t] \in InUse => conn[t] \in Conns
  BY DEF TypeInv, ConnInUse
<1>3. \A k \in Keys : cached[k] # NoConn =>
        cached[k] \in Conns /\ sent[cached[k]] = <<>> /\ wire[cached[k]] = <<>>
  BY DEF TypeInv, TypeOK, PoolTypeOK, TrafficInv, QuietInv, PooledIsClean, Pooled
<1>4. \A c \in Conns : link[c] = "unused" => sent[c] = <<>> /\ wire[c] = <<>>
  BY DEF TrafficInv, QuietInv, Unused
<1>5. ExchangeInv
  BY DEF TrafficInv
<1>6. ASSUME \A c \in Conns : link'[c] = "unused" => sent'[c] = <<>> /\ wire'[c] = <<>>,
             \A k \in Keys : cached[k] # NoConn =>
               sent'[cached[k]] = <<>> /\ wire'[cached[k]] = <<>>,
             ExchangeInv'
      PROVE  TrafficInv'
  BY <1>1, <1>6 DEF TrafficInv, QuietInv, PooledIsClean, Pooled, Unused
<1>7. ASSUME NEW c \in Conns, NEW executed \in {0, 1}, LampTakes(c, executed)
      PROVE  /\ sent[c] # <<>> /\ sent' = [sent EXCEPT ![c] = Tail(@)] /\ link' = link
             /\ Head(sent[c]) \in Calls
             /\ execs' = [execs EXCEPT ![Head(sent[c])] = @ + executed]
             /\ \A t \in Calls : execs'[t] \in Nat /\ execs'[t] >= execs[t]
             /\ \A t \in Calls : pc[t] \in InUse /\ conn[t] = c =>
                  sent[c] = <<t>> /\ sent'[c] = <<>> /\ wire[c] = <<>>
  <2>1. sent[c] # <<>> /\ Head(sent[c]) \in Calls
    BY <1>1, <1>7, HeadTailProperties DEF LampTakes
  <2>2. \A t \in Calls : pc[t] \in InUse /\ conn[t] = c => sent[c] = <<t>> /\ wire[c] = <<>>
    BY <1>5, <2>1 DEF ExchangeInv, OwnTraffic
  <2>3. \A t \in Calls : pc[t] \in InUse /\ conn[t] = c => sent'[c] = <<>>
    BY <1>1, <1>7, <2>2, AppendToEmpty DEF LampTakes
  <2>4. /\ sent' = [sent EXCEPT ![c] = Tail(@)] /\ link' = link
        /\ execs' = [execs EXCEPT ![Head(sent[c])] = @ + executed]
    BY <1>7 DEF LampTakes
  <2>5. \A t \in Calls : execs'[t] \in Nat /\ execs'[t] >= execs[t]
    BY <1>1, <1>7, <2>1, <2>4
  <2> QED
    BY <2>1, <2>2, <2>3, <2>4, <2>5
<1>8. ASSUME NEW c \in Conns, LampReplies(c) PROVE TrafficInv'
  <2> PICK executed \in {0, 1}, kind \in LampKinds :
        /\ kind \in Accepting => executed = 1
        /\ LampTakes(c, executed)
        /\ wire' = [wire EXCEPT ![c] =
                      Append(@, [for |-> Head(sent[c]), kind |-> kind])]
    BY <1>8 DEF LampReplies
  <2> DEFINE f == [for |-> Head(sent[c]), kind |-> kind]
  <2>1. f \in Frames /\ f.for = Head(sent[c]) /\ f.kind = kind
    BY <1>7, WireAssumption DEF Frames
  <2>2. ASSUME NEW t \in Calls, pc[t] \in InUse
        PROVE  OwnTraffic(t, sent'[conn[t]], wire'[conn[t]], execs'[t])
    <3>1. CASE conn[t] = c
      <4>1. sent[c] = <<t>> /\ sent'[c] = <<>> /\ wire[c] = <<>>
        BY <1>7, <2>2, <3>1
      <4>2. Head(sent[c]) = t /\ wire'[c] = <<f>>
        BY <1>1, <4>1, AppendToEmpty
      <4>3. kind \in Accepting => execs'[t] > 0
        BY <1>1, <1>7, <4>2
      <4> HIDE DEF f
      <4> QED
        BY <2>1, <3>1, <4>1, <4>2, <4>3 DEF OwnTraffic
    <3>2. CASE conn[t] # c
      <4>1. /\ sent'[conn[t]] = sent[conn[t]] /\ wire'[conn[t]] = wire[conn[t]]
            /\ execs'[t] >= execs[t] /\ execs'[t] \in Nat /\ execs[t] \in Nat
        BY <1>1, <1>2, <1>7, <2>2, <3>2
      <4> QED
        BY <1>5, <2>2, <4>1, OwnTrafficGrows DEF ExchangeInv
    <3> QED
      BY <3>1, <3>2
  <2>3. ExchangeInv'
    BY <1>1, <2>2 DEF ExchangeInv
  <2>4. sent[c] # <<>> /\ link' = link
    BY <1>7
  <2>5. \A d \in Conns \ {c} : sent'[d] = sent[d] /\ wire'[d] = wire[d]
    BY <1>1, <1>7
  <2>6. \A d \in Conns : link'[d] = "unused" => sent'[d] = <<>> /\ wire'[d] = <<>>
    BY <1>4, <2>4, <2>5
  <2>7. \A k \in Keys : cached[k] # NoConn => sent'[cached[k]] = <<>> /\ wire'[cached[k]] = <<>>
    BY <1>3, <2>4, <2>5
  <2> QED
    BY <1>6, <2>3, <2>6, <2>7
<1>9. ASSUME NEW c \in Conns, LampStaysSilent(c) PROVE TrafficInv'
  <2> PICK executed \in {0, 1} : LampTakes(c, executed) /\ wire' = wire
    BY <1>9 DEF LampStaysSilent
  <2>1. ASSUME NEW t \in Calls, pc[t] \in InUse
        PROVE  OwnTraffic(t, sent'[conn[t]], wire'[conn[t]], execs'[t])
    <3>1. CASE conn[t] = c
      BY <1>7, <2>1, <3>1 DEF OwnTraffic
    <3>2. CASE conn[t] # c
      <4>1. /\ sent'[conn[t]] = sent[conn[t]]
            /\ execs'[t] >= execs[t] /\ execs'[t] \in Nat /\ execs[t] \in Nat
        BY <1>1, <1>2, <1>7, <2>1, <3>2
      <4> QED
        BY <1>5, <2>1, <4>1, OwnTrafficGrows DEF ExchangeInv
    <3> QED
      BY <3>1, <3>2
  <2>2. ExchangeInv'
    BY <1>1, <2>1 DEF ExchangeInv
  <2> QED
    BY <1>1, <1>3, <1>4, <1>6, <1>7, <2>2
<1>10. ASSUME NEW c \in Conns,
              UNCHANGED execs,
              sent' = sent \/ sent' = [sent EXCEPT ![c] = <<>>],
              wire' = wire \/ wire' = [wire EXCEPT ![c] = <<>>],
              sent' = sent \/ wire' = wire,
              \A d \in Conns : link'[d] = "unused" => link[d] = "unused"
       PROVE  TrafficInv'
  <2>1. ASSUME NEW t \in Calls, pc[t] \in InUse
        PROVE  OwnTraffic(t, sent'[conn[t]], wire'[conn[t]], execs'[t])
    <3>1. OwnTraffic(t, sent[conn[t]], wire[conn[t]], execs[t])
      BY <1>5, <2>1 DEF ExchangeInv
    <3>2. /\ sent'[conn[t]] \in {sent[conn[t]], <<>>}
          /\ wire'[conn[t]] \in {wire[conn[t]], <<>>}
          /\ execs'[t] = execs[t]
      BY <1>1, <1>2, <1>10, <2>1
    <3> QED
      BY <3>1, <3>2 DEF OwnTraffic
  <2>2. ExchangeInv'
    BY <1>1, <2>1 DEF ExchangeInv
  <2> QED
    BY <1>1, <1>3, <1>4, <1>6, <1>10, <2>2
<1>11. ASSUME NEW c \in Conns, NEW how \in Departed, PeerDeparts(c, how)
       PROVE  TrafficInv'
  BY <1>1, <1>10, <1>11 DEF PeerDeparts, Departed
<1>12. ASSUME NEW c \in Conns, LoopNotices(c) PROVE TrafficInv'
  BY <1>1, <1>10, <1>12 DEF LoopNotices
<1> QED
  BY <1>8, <1>9, <1>11, <1>12 DEF WireNext

(* Every step leaves it so.                                                *)
LEMMA TrafficInvStep ==
    ASSUME TypeInv, TypeInv', LockInv, OwnerInv, TrafficInv, [Next]_vars
    PROVE  TrafficInv'
<1>1. ASSUME NEW t \in Calls, CallStep(t) PROVE TrafficInv'
  BY <1>1, TrafficCallStep, OthersUntouched, CallConnMove, ExecsKept DEF OwnerInv
<1>2. ASSUME NEW x \in Closers, Flush(x) PROVE TrafficInv'
  <2>1. /\ UNCHANGED <<sent, execs, pc, conn>> /\ NoConn \notin Conns
        /\ wire \in [Conns -> Seq(Frames)] /\ link \in [Conns -> LinkStates]
    BY <1>2, PoolAssumption DEF Flush, callVars, TypeInv, TypeOK, WireTypeOK
  <2>2. \A k \in Keys : cached'[k] \in {cached[k], NoConn}
    BY <1>2 DEF Flush, PopSlots
  <2>3. \/ UNCHANGED <<link, wire>>
        \/ \E k \in Pooled : CloseWriter(cached[k])
    BY <1>2 DEF Flush
  <2>4. \A k \in Pooled : cached[k] \in Conns /\ wire[cached[k]] = <<>>
    BY DEF Pooled, TrafficInv, QuietInv, PooledIsClean, TypeInv, TypeOK, PoolTypeOK
  <2>5. wire' = wire /\ \A c \in Conns : link'[c] = "unused" => link[c] = "unused"
    BY <2>1, <2>3, <2>4 DEF CloseWriter
  <2> QED
    BY <2>1, <2>2, <2>5 DEF TrafficInv, QuietInv, PooledIsClean, Pooled, Unused,
                            ExchangeInv
<1>3. ASSUME UNCHANGED <<wireVars, cached, callVars>> PROVE TrafficInv'
  BY <1>3 DEF wireVars, callVars, TrafficInv, QuietInv, PooledIsClean, Pooled, Unused,
              ExchangeInv
<1>4. ASSUME NEW x \in Closers, CancelFlush(x)
      PROVE  UNCHANGED <<wireVars, cached, callVars>>
  BY <1>4 DEF CancelFlush, poolVars
<1>5. ASSUME PoolNext, UNCHANGED <<wireVars, callVars, closer>>
      PROVE  UNCHANGED <<wireVars, cached, callVars>>
  BY <1>5 DEF PoolNext, Tick, SetPersistent, SetIdleTimeout
<1> QED
  BY <1>1, <1>2, <1>3, <1>4, <1>5, TrafficWireStep DEF Next, CallStep, vars, poolVars

(* On a connection in use there is only the command of its user or the     *)
(* response to it; on a pooled one there is nothing.                       *)
THEOREM TrafficHolds == Spec => []TrafficInv
<1>1. Init => TrafficInv
  BY PoolAssumption
     DEF Init, WireInit, PoolInit, TrafficInv, QuietInv, PooledIsClean, Pooled,
         Unused, ExchangeInv, InUse
<1>2. TypeInv /\ TypeInv' /\ LockInv /\ OwnerInv /\ TrafficInv /\ [Next]_vars
        => TrafficInv'
  BY TrafficInvStep
<1> QED
  BY <1>1, <1>2, TypeCorrect, LocksHold, OwnersHold, PTL DEF Spec

(* A connection goes to the pool, and is taken from it, with no command    *)
(* unserved and no response unread: exchanges cannot get out of step.      *)
THEOREM PoolStaysClean == Spec => []PooledIsClean
BY TrafficHolds, PTL DEF TrafficInv, QuietInv

(********************************* answers *********************************)
(* How a step of t may touch its result: it is not a success, it is the    *)
(* one t has already, or it is the response at the front of t's connection.*)
AnswerMove(t) ==
    \/ outcome'[t] # "ok"
    \/ outcome'[t] = outcome[t] /\ answer'[t] = answer[t]
    \/ /\ pc[t] \in InUse /\ wire[conn[t]] # <<>> /\ Kind(t) \in Accepting
       /\ answer'[t] = Head(wire[conn[t]]).for

(* Where a call's answer and its success come from.                        *)
LEMMA CallAnswerMove ==
    ASSUME TypeInv, NEW t \in Calls, CallStep(t)
    PROVE  AnswerMove(t)
<1> USE DEF TypeInv, TypeOK, AnswerMove
<1>1. ASSUME NEW out, EndAttempt(t, out), out # "ok" PROVE outcome'[t] # "ok"
  BY <1>1 DEF EndAttempt
<1>2. ASSUME NEW out, Fail(t, out), out # "ok" PROVE outcome'[t] # "ok"
  BY <1>1, <1>2 DEF Fail, Evict, AwaitClosed
<1>3. ASSUME Accept(t), Kind(t) \in Accepting, pc[t] \in InUse, wire[conn[t]] # <<>>
      PROVE  AnswerMove(t)
  BY <1>3 DEF Accept
<1>4. CASE Resume(t)
  <2>1. CASE CloseDone(t)
    <3>1. EndAttempt(t, outcome[t]) /\ answer' = answer
      BY <2>1 DEF CloseDone
    <3>2. outcome'[t] \in {"none", outcome[t]}
      BY <3>1 DEF EndAttempt
    <3> QED
      BY <3>1, <3>2
  <2>2. CASE DialFails(t)
    BY <2>2, <1>1 DEF DialFails, Transient
  <2>3. CASE DiscardDone(t) \/ Drained(t) \/ Acquire(t) \/ DialSucceeds(t) \/ BackoffDone(t)
    BY <2>3 DEF DiscardDone, Drained, Acquire, DialSucceeds, BackoffDone
  <2>4. CASE ReadHeader(t)
    BY <2>4, <1>2, <1>3 DEF ReadHeader, Accepting, InUse
  <2>5. CASE ReadPayload(t)
    BY <2>5, <1>2, <1>3 DEF ReadPayload, Accepting, InUse
  <2>6. CASE ExchangeTimesOut(t) \/ ExchangeLost(t) \/ ReadEof(t)
    BY <2>6, <1>2 DEF ExchangeTimesOut, ExchangeLost, ReadEof
  <2> QED
    BY <1>4, <2>1, <2>2, <2>3, <2>4, <2>5, <2>6 DEF Resume
<1>5. CASE Start(t)
  BY <1>5 DEF Start
<1>6. CASE Cancel(t)
  BY <1>1, <1>2, <1>6 DEF Cancel
<1> QED
  BY <1>4, <1>5, <1>6 DEF CallStep

(* The lamp never undoes an execution.                                     *)
LEMMA ExecsGrow ==
    ASSUME TypeInv, [Next]_vars
    PROVE  \A t \in Calls : execs[t] > 0 => execs'[t] > 0
<1>1. execs \in [Calls -> Nat] /\ sent \in [Conns -> Seq(Calls)]
  BY DEF TypeInv, TypeOK, WireTypeOK
<1>2. ASSUME execs' = execs PROVE \A t \in Calls : execs[t] > 0 => execs'[t] > 0
  BY <1>2
<1>3. ASSUME NEW c \in Conns, NEW executed \in {0, 1}, LampTakes(c, executed)
      PROVE  \A t \in Calls : execs[t] > 0 => execs'[t] > 0
  BY <1>1, <1>3 DEF LampTakes
<1>4. ASSUME WireNext PROVE \A t \in Calls : execs[t] > 0 => execs'[t] > 0
  BY <1>2, <1>3, <1>4
     DEF WireNext, LampReplies, LampStaysSilent, PeerDeparts, LoopNotices
<1>5. ASSUME NEW x \in Closers, Flush(x) \/ CancelFlush(x) PROVE execs' = execs
  BY <1>5 DEF Flush, CancelFlush, wireVars
<1>6. ASSUME NEW t \in Calls, CallStep(t) PROVE execs' = execs
  BY <1>6, ExecsKept
<1> QED
  BY <1>2, <1>4, <1>5, <1>6 DEF Next, CallStep, vars, wireVars

(* Every step keeps the answers of successful calls their own.             *)
LEMMA AnswerStep ==
    ASSUME TypeInv, TrafficInv, AnswerIsOwn, [Next]_vars
    PROVE  AnswerIsOwn'
<1>1. \A t \in Calls : execs[t] > 0 => execs'[t] > 0
  BY ExecsGrow
<1>2. ASSUME NEW t \in Calls, CallStep(t) PROVE AnswerIsOwn'
  <2>1. OthersKept(t) /\ AnswerMove(t)
    BY <1>2, OthersUntouched, CallAnswerMove
  <2>2. ASSUME pc[t] \in InUse, wire[conn[t]] # <<>>, Kind(t) \in Accepting
        PROVE  Head(wire[conn[t]]).for = t /\ execs[t] > 0
    <3>1. PICK f \in Frames : /\ wire[conn[t]] = <<f>> /\ f.for = t
                             /\ (f.kind \in Accepting => execs[t] > 0)
      BY <2>2 DEF TrafficInv, ExchangeInv, OwnTraffic
    <3>2. Head(wire[conn[t]]) = f
      BY <3>1, AppendToEmpty
    <3> QED
      BY <2>2, <3>1, <3>2 DEF Kind
  <2> QED
    BY <1>1, <2>1, <2>2 DEF OthersKept, AnswerMove, AnswerIsOwn
<1>3. ASSUME UNCHANGED callVars PROVE AnswerIsOwn'
  BY <1>1, <1>3 DEF callVars, AnswerIsOwn
<1> QED
  BY <1>2, <1>3 DEF Next, CallStep, Flush, CancelFlush, vars

(* A call that succeeds returns the response to its own command, and the   *)
(* lamp has executed that command.                                         *)
THEOREM AnswersAreOwn == Spec => []AnswerIsOwn
<1>1. Init => AnswerIsOwn
  BY DEF Init, AnswerIsOwn
<1>2. TypeInv /\ TrafficInv /\ AnswerIsOwn /\ [Next]_vars => AnswerIsOwn'
  BY AnswerStep
<1> QED
  BY <1>1, <1>2, TypeCorrect, TrafficHolds, PTL DEF Spec

(************************ exchanges are left alone *************************)
(* No step of another call or of close() closes a connection in use.       *)
LEMMA SpareStep ==
    ASSUME TypeInv, LockInv, OwnerInv, [Next]_vars, NEW t \in Calls,
           pc[t] \in InUse, pc'[t] = pc[t],
           link[conn[t]] \in Open, link'[conn[t]] \in Closing
    PROVE  link[conn[t]] \in Departed
<1> DEFINE c == conn[t]
<1>1. /\ c \in Conns /\ link \in [Conns -> LinkStates] /\ Open \cap Closing = {}
      /\ Departed \cap Closing = {} /\ "up" \notin Closing
      /\ pc[t] \in Holding /\ pc[t] # "dial"
  BY DEF TypeInv, ConnInUse, TypeOK, WireTypeOK, Open, Departed, Closing, Holding, InUse
<1>2. /\ \A k \in Keys : cached[k] # c
      /\ \A u \in Calls : pc[u] \in InUse /\ conn[u] = c => u = t
  BY <1>1, OwnersDisjoint DEF OneOwner, SlotsOf, UsersOf
<1>3. ASSUME NEW u \in Calls, CallStep(u) PROVE FALSE
  <2>1. ConnMove(u) /\ KeyOf[u] \in Keys
    BY <1>3, CallConnMove, PoolAssumption DEF OwnerInv
  <2>2. link'[c] = link[c] \/ link'[c] = "up"
    BY <1>1, <1>2, <2>1
       DEF ConnMove, Idles, Dials, Reuses, Discards, Drops, Stores
  <2> QED
    BY <1>1, <2>2
<1>4. ASSUME NEW x \in Closers, Flush(x) PROVE FALSE
  <2>1. link'[c] = link[c]
    BY <1>1, <1>2, <1>4 DEF Flush, CloseWriter, Pooled
  <2> QED
    BY <1>1, <2>1
<1>5. ASSUME link' = link PROVE FALSE
  BY <1>1, <1>5
<1>6. ASSUME WireNext PROVE link[c] \in Departed
  <2>1. ASSUME NEW d \in Conns, LampReplies(d) \/ LampStaysSilent(d) PROVE FALSE
    BY <1>5, <2>1 DEF LampReplies, LampStaysSilent, LampTakes
  <2>2. ASSUME NEW d \in Conns, NEW how \in Departed, PeerDeparts(d, how) PROVE FALSE
    BY <1>1, <2>2 DEF PeerDeparts
  <2>3. ASSUME NEW d \in Conns, LoopNotices(d) PROVE link[c] \in Departed
    BY <1>1, <2>3 DEF LoopNotices
  <2> QED
    BY <1>6, <2>1, <2>2, <2>3 DEF WireNext
<1> QED
  BY <1>3, <1>4, <1>5, <1>6 DEF Next, CallStep, CancelFlush, vars, wireVars

(* Neither close() nor another call closes a connection under a running    *)
(* exchange.                                                               *)
THEOREM ExchangesAreSpared == Spec => OthersSpareExchange
<1>1. ASSUME TypeInv, LockInv, OwnerInv, [Next]_vars
      PROVE  \A t \in Calls :
               (/\ pc[t] \in InUse /\ pc'[t] = pc[t]
                /\ link[conn[t]] \in Open /\ link'[conn[t]] \in Closing)
               => link[conn[t]] \in Departed
  BY <1>1, SpareStep
<1> QED
  BY <1>1, TypeCorrect, LocksHold, OwnersHold, PTL DEF Spec, OthersSpareExchange

(************************ commands reach their lamp ************************)
(* A call writes only to a connection of its own lamp.                     *)
LEMMA ReachCallStep ==
    ASSUME TypeInv, OwnerInv, TrafficInv, ReachesItsLamp, NEW t \in Calls, ConnMove(t)
    PROVE  ReachesItsLamp'
<1>1. /\ sent \in [Conns -> Seq(Calls)] /\ lampOf \in [Conns -> Keys \cup {NoKey}]
      /\ KeyOf[t] \in Keys /\ NoConn \notin Conns
  BY PoolAssumption DEF TypeInv, TypeOK, WireTypeOK
<1>2. ASSUME NEW c \in Conns, sent[c] = <<>>, lampOf'[c] = KeyOf[t],
             sent' = sent \/ sent' = [sent EXCEPT ![c] = Append(@, t)],
             \A d \in Conns \ {c} : lampOf'[d] = lampOf[d]
      PROVE  ReachesItsLamp'
  <2>1. sent'[c] = <<>> \/ sent'[c] = <<t>>
    BY <1>1, <1>2, AppendToEmpty
  <2>2. \A i \in 1..Len(sent'[c]) : sent'[c][i] = t
    BY <2>1
  <2> QED
    BY <1>1, <1>2, <2>2 DEF ReachesItsLamp
<1>3. CASE Dials(t)
  <2> PICK c \in Conns :
        /\ link[c] = "unused"
        /\ lampOf' = [lampOf EXCEPT ![c] = KeyOf[t]]
        /\ sent' = [sent EXCEPT ![c] = Append(@, t)]
    BY <1>3 DEF Dials
  <2>1. sent[c] = <<>>
    BY DEF TrafficInv, QuietInv, Unused
  <2> QED
    BY <1>1, <1>2, <2>1
<1>4. CASE Reuses(t)
  <2>1. /\ cached[KeyOf[t]] \in Conns /\ sent[cached[KeyOf[t]]] = <<>>
        /\ lampOf[cached[KeyOf[t]]] = KeyOf[t]
    BY <1>1, <1>4 DEF Reuses, OwnerInv, LampInv, TrafficInv, QuietInv, PooledIsClean,
                      Pooled
  <2> QED
    BY <1>2, <1>4, <2>1 DEF Reuses
<1>5. CASE Idles(t) \/ Discards(t) \/ Drops(t) \/ Stores(t)
  BY <1>5 DEF Idles, Discards, Drops, Stores, ReachesItsLamp
<1> QED
  BY <1>3, <1>4, <1>5 DEF ConnMove

(* Every step leaves each command on a connection to its own lamp.         *)
LEMMA ReachStep ==
    ASSUME TypeInv, LockInv, OwnerInv, TrafficInv, ReachesItsLamp, [Next]_vars
    PROVE  ReachesItsLamp'
<1>1. ASSUME NEW t \in Calls, CallStep(t) PROVE ReachesItsLamp'
  BY <1>1, CallConnMove, ReachCallStep DEF OwnerInv
<1>2. ASSUME UNCHANGED <<sent, lampOf>> PROVE ReachesItsLamp'
  BY <1>2 DEF ReachesItsLamp
<1>3. ASSUME NEW c \in Conns, UNCHANGED lampOf,
             \/ sent' = [sent EXCEPT ![c] = <<>>]
             \/ sent[c] # <<>> /\ sent' = [sent EXCEPT ![c] = Tail(@)]
      PROVE  ReachesItsLamp'
  <2>1. sent \in [Conns -> Seq(Calls)]
    BY DEF TypeInv, TypeOK, WireTypeOK
  <2>2. sent[c] # <<>> => \A i \in 1..Len(Tail(sent[c])) :
          i + 1 \in 1..Len(sent[c]) /\ Tail(sent[c])[i] = sent[c][i + 1]
    BY <2>1, HeadTailProperties
  <2>3. \A i \in 1..Len(sent'[c]) : \E j \in 1..Len(sent[c]) : sent'[c][i] = sent[c][j]
    <3>1. CASE sent' = [sent EXCEPT ![c] = <<>>]
      <4>1. sent'[c] = <<>>
        BY <2>1, <3>1
      <4> QED
        BY <4>1
    <3>2. CASE sent[c] # <<>> /\ sent' = [sent EXCEPT ![c] = Tail(@)]
      <4>1. sent'[c] = Tail(sent[c])
        BY <2>1, <3>2
      <4> QED
        BY <2>2, <3>2, <4>1
    <3> QED
      BY <1>3, <3>1, <3>2
  <2>4. \A b \in Conns \ {c} : sent'[b] = sent[b]
    BY <1>3, <2>1
  <2>5. ASSUME NEW b \in Conns, NEW i \in 1..Len(sent'[b])
        PROVE  \E j \in 1..Len(sent[b]) : sent'[b][i] = sent[b][j]
    <3>1. CASE b = c
      BY <2>3, <2>5, <3>1
    <3>2. CASE b # c
      BY <2>4, <2>5, <3>2
    <3> QED
      BY <3>1, <3>2
  <2>6. \A b \in Conns : \A i \in 1..Len(sent'[b]) : lampOf[b] = KeyOf[sent'[b][i]]
    <3>1. TAKE b \in Conns
    <3>2. TAKE i \in 1..Len(sent'[b])
    <3>3. PICK j \in 1..Len(sent[b]) : sent'[b][i] = sent[b][j]
      BY <2>5
    <3>4. lampOf[b] = KeyOf[sent[b][j]]
      BY DEF ReachesItsLamp
    <3> QED
      BY <3>3, <3>4
  <2> QED
    BY <1>3, <2>6 DEF ReachesItsLamp
<1>4. ASSUME WireNext PROVE ReachesItsLamp'
  <2>1. ASSUME NEW c \in Conns, LampReplies(c) \/ LampStaysSilent(c)
        PROVE  ReachesItsLamp'
    <3>1. PICK executed \in {0, 1} : LampTakes(c, executed)
      BY <2>1 DEF LampReplies, LampStaysSilent
    <3>2. /\ UNCHANGED lampOf /\ sent[c] # <<>>
          /\ sent' = [sent EXCEPT ![c] = Tail(@)]
      BY <3>1 DEF LampTakes
    <3> QED
      BY <1>3, <3>2
  <2>2. ASSUME NEW c \in Conns, NEW how \in Departed, PeerDeparts(c, how)
        PROVE  ReachesItsLamp'
    BY <1>3, <2>2 DEF PeerDeparts
  <2>3. ASSUME NEW c \in Conns, LoopNotices(c) PROVE ReachesItsLamp'
    BY <1>2, <2>3 DEF LoopNotices
  <2> QED
    BY <1>4, <2>1, <2>2, <2>3 DEF WireNext
<1> QED
  BY <1>1, <1>2, <1>4 DEF Next, CallStep, Flush, CancelFlush, vars, wireVars

(* No command is ever written to a connection that leads to another lamp.  *)
THEOREM CommandsReachTheirLamp == Spec => []ReachesItsLamp
<1>1. Init => ReachesItsLamp
  BY DEF Init, WireInit, ReachesItsLamp
<1>2. TypeInv /\ LockInv /\ OwnerInv /\ TrafficInv /\ ReachesItsLamp /\ [Next]_vars
        => ReachesItsLamp'
  BY ReachStep
<1> QED
  BY <1>1, <1>2, TypeCorrect, LocksHold, OwnersHold, TrafficHolds, PTL DEF Spec

=============================================================================
