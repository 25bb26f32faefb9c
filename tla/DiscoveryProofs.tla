--------------------------- MODULE DiscoveryProofs ---------------------------
(***************************************************************************)
(* Theorems about module Discovery, for every set of discoveries and of    *)
(* addresses: both sockets of a discovery are closed whichever way it      *)
(* ends, and what its caller is told is what module Census promises.       *)
(***************************************************************************)
EXTENDS Discovery, SequenceLemmas

(*************************** the inductive invariants **********************)
(* The values of all variables; TypeOK says it of two sequences together.  *)
StateTypes ==
    /\ pc \in [Streams -> PcStates]
    /\ listener \in [Streams -> {"none", "open", "closing", "closed"}]
    /\ sender \in [Streams -> {"none", "open", "closed"}]
    /\ expired \in [Streams -> BOOLEAN]
    /\ discovered \in [Streams -> SUBSET Addresses]
    /\ queue \in [Streams -> Seq(Addresses)]
    /\ yielded \in [Streams -> Seq(Addresses)]
    /\ ending \in [Streams -> Endings]
    /\ heard \in [Streams -> Seq(Addresses)]

(* Where the generator is says which sockets it holds, and whether its     *)
(* finally block was entered.                                              *)
Before == {"new", "opening"}
Looping == {"probing", "waiting"} \cup AtYield
SocketsAt(s) ==
    /\ pc[s] = "new" => listener[s] = "none"
    /\ pc[s] \in Looping \cup {"opening"} => listener[s] = "open"
    /\ pc[s] \in {"closing", "left"} => listener[s] \in {"closing", "closed"}
    /\ pc[s] = "done" => listener[s] \in {"none", "closed"}
    /\ pc[s] \in Looping <=> sender[s] = "open"
    /\ ending[s] = "none" <=> pc[s] \in Before \cup Looping

SocketInv == StateTypes /\ \A s \in Streams : SocketsAt(s)

(* The queue is what was heard and not yet yielded; the callback's set     *)
(* holds exactly the addresses heard, so that none is heard twice; and a   *)
(* generator that completed left nothing in the queue.                     *)
TaleOf(s) ==
    /\ heard[s] = yielded[s] \o queue[s]
    /\ discovered[s] = Range(heard[s])
    /\ IsInjective(heard[s])
    /\ ending[s] = "complete" => queue[s] = <<>>

TaleInv == SocketInv /\ \A s \in Streams : TaleOf(s)

(***************************** type correctness ****************************)
(* Yielding takes the head of the queue.                                   *)
LEMMA YieldType ==
    ASSUME StateTypes, NEW s \in Streams, Yield(s)
    PROVE  /\ queue' \in [Streams -> Seq(Addresses)]
           /\ yielded' \in [Streams -> Seq(Addresses)]
<1>1. /\ Head(queue[s]) \in Addresses /\ Tail(queue[s]) \in Seq(Addresses)
      /\ yielded[s] \in Seq(Addresses)
  BY HeadTailProperties DEF StateTypes, Yield
<1>2. Append(yielded[s], Head(queue[s])) \in Seq(Addresses)
  BY <1>1, AppendProperties
<1> QED
  BY <1>1, <1>2 DEF StateTypes, Yield

(* The finally block assigns sockets, ending and pc.                       *)
LEMMA FinallyType ==
    ASSUME StateTypes, NEW s \in Streams, NEW how \in Endings, Finally(s, how)
    PROVE  /\ pc' \in [Streams -> PcStates]
           /\ listener' \in [Streams -> {"none", "open", "closing", "closed"}]
           /\ sender' \in [Streams -> {"none", "open", "closed"}]
           /\ ending' \in [Streams -> Endings]
BY DEF StateTypes, Finally, Goto, PcStates, Awaiting, Over

(* So does what comes after the loop.                                      *)
LEMMA DrainType ==
    ASSUME StateTypes, NEW s \in Streams, Drain(s)
    PROVE  /\ pc' \in [Streams -> PcStates]
           /\ listener' \in [Streams -> {"none", "open", "closing", "closed"}]
           /\ sender' \in [Streams -> {"none", "open", "closed"}]
           /\ ending' \in [Streams -> Endings]
           /\ queue' \in [Streams -> Seq(Addresses)]
           /\ yielded' \in [Streams -> Seq(Addresses)]
<1>1. CASE Yield(s) /\ Goto(s, "draining") /\ UNCHANGED sockets
  BY <1>1, YieldType DEF StateTypes, Goto, sockets, PcStates, AtYield
<1>2. CASE queue[s] = <<>> /\ Finally(s, "complete") /\ UNCHANGED items
  <2>1. "complete" \in Endings
    BY DEF Endings
  <2> QED
    BY <1>2, <2>1, FinallyType DEF StateTypes, items
<1> QED
  BY <1>1, <1>2 DEF Drain

(* Every step of a discovery keeps the types.                              *)
StreamStep(s) ==
    \/ Open(s) \/ OpenSender(s) \/ Probe(s) \/ Receives(s) \/ TimesOut(s) \/ Finish(s)
    \/ Resumes(s) \/ Close(s) \/ Cancel(s)
    \/ CloseTimesOut(s) \/ ConnectionLost(s) \/ Expire(s)
    \/ \E a \in Addresses, good \in BOOLEAN : Datagram(s, a, good)

LEMMA StepOfOne == Next <=> \E s \in Streams : StreamStep(s)
BY DEF Next, StreamStep, Generator

LEMMA StateTypesStep ==
    ASSUME StateTypes, [Next]_vars
    PROVE  StateTypes'
<1>1. CASE UNCHANGED vars
  BY <1>1 DEF StateTypes, vars
<1>2. ASSUME NEW s \in Streams, StreamStep(s)
      PROVE  StateTypes'
  <2>0. {"complete", "failed", "closed", "cancelled"} \subseteq Endings
    BY DEF Endings
  <2>1. CASE Open(s)
    <3>1. CASE Finally(s, "failed")
      BY <2>0, <2>1, <3>1, FinallyType DEF StateTypes, Open, traffic, items
    <3> QED
      BY <2>1, <3>1 DEF StateTypes, Open, Goto, traffic, items, PcStates, Awaiting
  <2>2. CASE OpenSender(s)
    <3>1. CASE Finally(s, "failed")
      BY <2>0, <2>2, <3>1, FinallyType DEF StateTypes, OpenSender, traffic, items
    <3> QED
      BY <2>2, <3>1 DEF StateTypes, OpenSender, Goto, traffic, items, PcStates, Awaiting
  <2>3. CASE Probe(s)
    <3>1. CASE expired' = [expired EXCEPT ![s] = TRUE] /\ Drain(s)
      BY <2>3, <3>1, DrainType DEF StateTypes, Probe, traffic
    <3> QED
      BY <2>3, <3>1 DEF StateTypes, Probe, Goto, sockets, traffic, items, PcStates, Awaiting
  <2>4. CASE Receives(s)
    BY <2>4, YieldType DEF StateTypes, Receives, Goto, sockets, traffic, PcStates, AtYield
  <2>5. CASE TimesOut(s)
    BY <2>5, DrainType DEF StateTypes, TimesOut, traffic
  <2>6. CASE Finish(s) \/ CloseTimesOut(s)
    BY <2>6 DEF StateTypes, Finish, CloseTimesOut, Goto, sockets, traffic, items,
                PcStates, Over
  <2>7. CASE Resumes(s)
    <3>1. CASE Drain(s)
      BY <2>7, <3>1, DrainType DEF StateTypes, Resumes, traffic
    <3> QED
      BY <2>7, <3>1 DEF StateTypes, Resumes, Goto, sockets, traffic, items, PcStates, Awaiting
  <2>8. CASE Close(s)
    BY <2>0, <2>8, FinallyType DEF StateTypes, Close, traffic, items
  <2>9. CASE Cancel(s)
    <3>1. CASE Finally(s, "cancelled")
      BY <2>0, <2>9, <3>1, FinallyType DEF StateTypes, Cancel, traffic, items
    <3>2. CASE pc[s] = "opening"
      <4>1. /\ pc' = [pc EXCEPT ![s] = "left"]
            /\ listener' = [listener EXCEPT ![s] = "closing"]
            /\ ending' = [ending EXCEPT ![s] = "cancelled"]
            /\ UNCHANGED <<sender, expired, discovered, heard, queue, yielded>>
        BY <2>9, <3>2 DEF Cancel, Goto, traffic, items
      <4> QED
        BY <2>0, <4>1 DEF StateTypes, PcStates, Over
    <3>3. CASE pc[s] = "closing" /\ Goto(s, "left") /\ UNCHANGED sockets
      BY <2>9, <3>3 DEF StateTypes, Cancel, Goto, sockets, traffic, items, PcStates, Over
    <3> QED
      BY <2>9, <3>1, <3>2, <3>3 DEF Cancel
  <2>10. CASE ConnectionLost(s) \/ Expire(s)
    BY <2>10 DEF StateTypes, ConnectionLost, Expire, sockets, traffic, items
  <2>11. ASSUME NEW a \in Addresses, NEW good \in BOOLEAN, Datagram(s, a, good)
         PROVE  StateTypes'
    <3>1. /\ Append(queue[s], a) \in Seq(Addresses)
          /\ Append(heard[s], a) \in Seq(Addresses)
      BY AppendProperties DEF StateTypes
    <3> QED
      BY <2>11, <3>1 DEF StateTypes, Datagram, Accept, sockets
  <2> QED
    BY <1>2, <2>1, <2>2, <2>3, <2>4, <2>5, <2>6, <2>7, <2>8, <2>9, <2>10, <2>11
       DEF StreamStep
<1> QED
  BY <1>1, <1>2, StepOfOne

(****************************** both sockets *******************************)
(* The finally block leaves the sockets as the place it leads to says.     *)
LEMMA FinallySockets ==
    ASSUME SocketInv, NEW s \in Streams, NEW how \in Endings \ {"none"}, Finally(s, how),
           pc[s] \notin {"closing", "done", "left"}
    PROVE  \A t \in Streams : SocketsAt(t)'
BY DEF SocketInv, StateTypes, SocketsAt, Finally, Goto, PcStates, Before, Looping,
       Awaiting, AtYield, Over

(* So does the code after the loop.                                        *)
LEMMA DrainSockets ==
    ASSUME SocketInv, NEW s \in Streams, Drain(s), pc[s] \in Looping
    PROVE  \A t \in Streams : SocketsAt(t)'
<1>1. CASE Yield(s) /\ Goto(s, "draining") /\ UNCHANGED sockets
  BY <1>1 DEF SocketInv, StateTypes, SocketsAt, Goto, sockets, Before, Looping, AtYield
<1>2. CASE Finally(s, "complete")
  BY <1>2, FinallySockets DEF Endings, Looping, AtYield
<1> QED
  BY <1>1, <1>2 DEF Drain

LEMMA SocketInvInit == Init => SocketInv
<1> SUFFICES ASSUME Init PROVE SocketInv
  OBVIOUS
<1>1. <<>> \in Seq(Addresses)
  BY EmptySeq
<1> QED
  BY <1>1 DEF Init, SocketInv, StateTypes, SocketsAt, PcStates, Endings, Before, Looping,
              AtYield

LEMMA SocketInvStep ==
    ASSUME SocketInv, [Next]_vars
    PROVE  SocketInv'
<1> USE DEF SocketInv
<1>1. StateTypes'
  BY StateTypesStep
<1>2. CASE UNCHANGED vars
  BY <1>1, <1>2 DEF SocketsAt, vars
<1>3. ASSUME NEW s \in Streams, StreamStep(s)
      PROVE  \A t \in Streams : SocketsAt(t)'
  <2> USE DEF StateTypes, SocketsAt, Goto, sockets, Before, Looping, AtYield
  <2>0. {"complete", "failed", "closed", "cancelled"} \subseteq Endings \ {"none"}
    BY DEF Endings
  <2>1. CASE Open(s)
    <3>1. CASE Finally(s, "failed")
      BY <2>0, <2>1, <3>1, FinallySockets DEF Open
    <3>2. CASE /\ listener' = [listener EXCEPT ![s] = "open"]
               /\ Goto(s, "opening")
               /\ UNCHANGED <<sender, ending>>
      BY <2>1, <3>2 DEF Open
    <3> QED
      BY <2>1, <3>1, <3>2 DEF Open
  <2>2. CASE OpenSender(s)
    <3>1. CASE Finally(s, "failed")
      BY <2>0, <2>2, <3>1, FinallySockets DEF OpenSender
    <3>2. CASE /\ sender' = [sender EXCEPT ![s] = "open"]
               /\ Goto(s, "probing")
               /\ UNCHANGED <<listener, ending>>
      BY <2>2, <3>2 DEF OpenSender
    <3> QED
      BY <2>2, <3>1, <3>2 DEF OpenSender
  <2>3. CASE Probe(s)
    <3>1. CASE Drain(s)
      BY <2>3, <3>1, DrainSockets DEF Probe
    <3>2. CASE Goto(s, "waiting") /\ UNCHANGED sockets
      BY <2>3, <3>2 DEF Probe
    <3> QED
      BY <2>3, <3>1, <3>2 DEF Probe
  <2>4. CASE Receives(s)
    BY <2>4 DEF Receives
  <2>5. CASE TimesOut(s)
    BY <2>5, DrainSockets DEF TimesOut
  <2>6. CASE Finish(s) \/ CloseTimesOut(s)
    <3>1. CASE Finish(s)
      BY <3>1 DEF Finish
    <3>2. CASE CloseTimesOut(s)
      BY <3>2 DEF CloseTimesOut
    <3> QED
      BY <2>6, <3>1, <3>2
  <2>7. CASE Resumes(s)
    <3>1. CASE Drain(s)
      BY <2>7, <3>1, DrainSockets DEF Resumes
    <3>2. CASE pc[s] = "paused" /\ Goto(s, "waiting") /\ UNCHANGED sockets
      BY <3>2
    <3> QED
      BY <2>7, <3>1, <3>2 DEF Resumes
  <2>8. CASE Close(s)
    BY <2>0, <2>8, FinallySockets DEF Close
  <2>9. CASE Cancel(s)
    <3>1. CASE pc[s] \in {"probing", "waiting"} /\ Finally(s, "cancelled")
      BY <2>0, <3>1, FinallySockets
    <3>2. CASE /\ pc[s] = "opening"
               /\ listener' = [listener EXCEPT ![s] = "closing"]
               /\ ending' = [ending EXCEPT ![s] = "cancelled"]
               /\ Goto(s, "left")
               /\ UNCHANGED sender
      BY <3>2
    <3>3. CASE pc[s] = "closing" /\ Goto(s, "left") /\ UNCHANGED sockets
      BY <3>3
    <3> QED
      BY <2>9, <3>1, <3>2, <3>3 DEF Cancel
  <2>10. CASE ConnectionLost(s)
    BY <2>10 DEF ConnectionLost
  <2>11. CASE Expire(s)
    BY <2>11 DEF Expire
  <2>12. CASE \E a \in Addresses, good \in BOOLEAN : Datagram(s, a, good)
    BY <2>12 DEF Datagram
  <2> QED
    BY <1>3, <2>1, <2>2, <2>3, <2>4, <2>5, <2>6, <2>7, <2>8, <2>9, <2>10, <2>11, <2>12
       DEF StreamStep
<1> QED
  BY <1>1, <1>2, <1>3, StepOfOne

(* A discovery holds the sockets of the place it is suspended at.          *)
THEOREM SocketsInvariant == Spec => []SocketInv
BY SocketInvInit, SocketInvStep, PTL DEF Spec

(* The variables keep their types, and a suspended generator has the       *)
(* sockets that its next statements use.                                   *)
THEOREM TypeCorrect == Spec => []TypeOK
<1>1. SocketInv => TypeOK
  BY ConcatProperties DEF SocketInv, StateTypes, SocketsAt, TypeOK, Looping, AtYield
<1> QED
  BY <1>1, SocketsInvariant, PTL

(* Whichever way a discovery ends, cancelled at any await, refused by the  *)
(* network, closed or forgotten by its caller, both sockets are closed.    *)
THEOREM BothSocketsClosed == Spec => []NothingLeftOpen
<1>1. SocketInv => NothingLeftOpen
  BY DEF SocketInv, SocketsAt, NothingLeftOpen, Looping, AtYield, Over
<1> QED
  BY <1>1, SocketsInvariant, PTL

(* A discovery that ran to its end, or whose aclose() returned, has given  *)
(* the response port back, unless the wait for the listener to close timed *)
(* out or was cancelled.                                                   *)
THEOREM PortGivenBack == Spec => []Released
<1>1. SocketInv => Released
  BY DEF SocketInv, SocketsAt, Released, Bound
<1> QED
  BY <1>1, SocketsInvariant, PTL

(****************************** what is told *******************************)
(* What a step of a discovery may do to the tale: yield the head of the    *)
(* queue, hear a new address, end, or none of these.                       *)
Tells(s) == ending[s] = "none" /\ Yield(s) /\ UNCHANGED <<traffic, ending>>
Hears(s) ==
    /\ ending[s] = "none"
    /\ \E a \in Addresses \ discovered[s] :
         /\ discovered' = [discovered EXCEPT ![s] = @ \cup {a}]
         /\ queue' = [queue EXCEPT ![s] = Append(@, a)]
         /\ heard' = [heard EXCEPT ![s] = Append(@, a)]
    /\ UNCHANGED <<yielded, ending>>
Ends(s) ==
    /\ ending[s] = "none"
    /\ \E how \in Endings \ {"none"} :
         /\ how = "complete" => queue[s] = <<>>
         /\ ending' = [ending EXCEPT ![s] = how]
    /\ UNCHANGED <<traffic, items>>
Rests == UNCHANGED <<traffic, items, ending>>
TaleMove(s) == Tells(s) \/ Hears(s) \/ Ends(s) \/ Rests

LEMMA DrainTale ==
    ASSUME SocketInv, NEW s \in Streams, pc[s] \in Looping, Drain(s), UNCHANGED traffic
    PROVE  TaleMove(s)
<1>1. ending[s] = "none" /\ "complete" \in Endings \ {"none"}
  BY DEF SocketInv, SocketsAt, Endings
<1>2. CASE Yield(s) /\ UNCHANGED sockets
  BY <1>1, <1>2 DEF TaleMove, Tells, sockets
<1>3. CASE queue[s] = <<>> /\ Finally(s, "complete") /\ UNCHANGED items
  BY <1>1, <1>3 DEF TaleMove, Ends, Finally
<1> QED
  BY <1>2, <1>3 DEF Drain

LEMMA StepTale ==
    ASSUME TaleInv, NEW s \in Streams, StreamStep(s)
    PROVE  TaleMove(s)
<1> USE DEF TaleInv, SocketInv
<1>0. {"failed", "closed", "cancelled"} \subseteq Endings \ {"none", "complete"}
  BY DEF Endings
<1>1. SocketsAt(s) /\ pc[s] \in PcStates
  BY DEF StateTypes
<1>2. ASSUME NEW how \in Endings \ {"none", "complete"}, Finally(s, how),
             pc[s] \in Before \cup Looping, UNCHANGED <<traffic, items>>
      PROVE  TaleMove(s)
  BY <1>1, <1>2 DEF TaleMove, Ends, Finally, SocketsAt
<1>3. CASE Open(s)
  <2>1. CASE Finally(s, "failed")
    BY <1>0, <1>2, <1>3, <2>1 DEF Open, Before
  <2> QED
    BY <1>3, <2>1 DEF Open, TaleMove, Rests
<1>4. CASE OpenSender(s)
  <2>1. CASE Finally(s, "failed")
    BY <1>0, <1>2, <1>4, <2>1 DEF OpenSender, Before
  <2> QED
    BY <1>4, <2>1 DEF OpenSender, TaleMove, Rests
<1>5. CASE Probe(s)
  <2>1. CASE Drain(s)
    BY <1>5, <2>1, DrainTale DEF Probe, Looping
  <2> QED
    BY <1>5, <2>1 DEF Probe, TaleMove, Rests, sockets
<1>6. CASE Receives(s)
  BY <1>1, <1>6 DEF Receives, TaleMove, Tells, sockets, SocketsAt, Looping
<1>7. CASE TimesOut(s)
  BY <1>7, DrainTale DEF TimesOut, Looping
<1>8. CASE Finish(s) \/ CloseTimesOut(s)
  BY <1>8 DEF Finish, CloseTimesOut, TaleMove, Rests, sockets
<1>9. CASE Resumes(s)
  <2>1. CASE Drain(s)
    BY <1>9, <2>1, DrainTale DEF Resumes, Looping, AtYield
  <2> QED
    BY <1>9, <2>1 DEF Resumes, TaleMove, Rests, sockets
<1>10. CASE Close(s)
  BY <1>0, <1>2, <1>10 DEF Close, Before, Looping, AtYield
<1>11. CASE Cancel(s)
  <2>1. CASE pc[s] = "opening"
    BY <1>0, <1>1, <1>11, <2>1 DEF Cancel, TaleMove, Ends, Finally, SocketsAt, Before, Looping
  <2>2. CASE pc[s] \in {"probing", "waiting"}
    BY <1>0, <1>2, <1>11, <2>2 DEF Cancel, Looping
  <2>3. CASE pc[s] = "closing" /\ UNCHANGED sockets
    BY <1>11, <2>3 DEF Cancel, TaleMove, Rests, sockets
  <2> QED
    BY <1>11, <2>1, <2>2, <2>3 DEF Cancel
<1>12. CASE ConnectionLost(s) \/ Expire(s)
  BY <1>12 DEF ConnectionLost, Expire, TaleMove, Rests, sockets
<1>13. ASSUME NEW a \in Addresses, NEW good \in BOOLEAN, Datagram(s, a, good)
       PROVE  TaleMove(s)
  <2>1. ending[s] = "none"
    BY <1>1, <1>13
       DEF Datagram, SocketsAt, PcStates, Before, Looping, Awaiting, AtYield, Over
  <2>2. Contains(heard[s], a) <=> a \in discovered[s]
    <3>1. heard[s] \in Seq(Addresses) /\ discovered[s] = Range(heard[s])
      BY DEF StateTypes, TaleOf
    <3>2. DOMAIN heard[s] = 1..Len(heard[s])
      BY <3>1, LenProperties
    <3> QED
      BY <3>1, <3>2 DEF Contains, Range
  <2>3. CASE good /\ a \notin discovered[s]
    BY <1>13, <2>1, <2>2, <2>3 DEF Datagram, Accept, TaleMove, Hears, sockets
  <2>4. CASE ~(good /\ a \notin discovered[s])
    BY <1>13, <2>2, <2>4 DEF Datagram, Accept, TaleMove, Rests, sockets, traffic, items,
                             StateTypes
  <2> QED
    BY <2>3, <2>4
<1> QED
  BY <1>3, <1>4, <1>5, <1>6, <1>7, <1>8, <1>9, <1>10, <1>11, <1>12, <1>13 DEF StreamStep

LEMMA TaleInvInit == Init => TaleInv
<1> SUFFICES ASSUME Init PROVE TaleInv
  OBVIOUS
<1>1. <<>> \o <<>> = <<>>
  BY EmptySeq, ConcatEmptySeq
<1>2. Range(<<>>) = {} /\ IsInjective(<<>>)
  BY DEF Range, IsInjective
<1> QED
  BY <1>1, <1>2, SocketInvInit DEF Init, TaleInv, TaleOf

LEMMA TaleInvStep ==
    ASSUME TaleInv, [Next]_vars
    PROVE  TaleInv'
<1>1. SocketInv'
  BY SocketInvStep DEF TaleInv
<1>2. CASE UNCHANGED vars
  BY <1>1, <1>2 DEF TaleInv, TaleOf, vars
<1>3. ASSUME NEW s \in Streams, StreamStep(s), NEW t \in Streams
      PROVE  TaleOf(t)'
  <2>1. TaleOf(t) /\ StateTypes /\ StateTypes'
    BY <1>1 DEF TaleInv, SocketInv
  <2>2. CASE Tells(s)
    <3>1. /\ queue[s] \in Seq(Addresses) /\ yielded[s] \in Seq(Addresses)
          /\ queue[s] # <<>>
      BY <2>1, <2>2 DEF StateTypes, Tells, Yield
    <3>2. Append(yielded[s], Head(queue[s])) \o Tail(queue[s]) = yielded[s] \o queue[s]
      BY <3>1, HeadMoves
    <3>3. /\ yielded[s]' = Append(yielded[s], Head(queue[s])) /\ queue[s]' = Tail(queue[s])
          /\ t # s => yielded[t]' = yielded[t] /\ queue[t]' = queue[t]
      BY <2>1, <2>2 DEF StateTypes, Tells, Yield
    <3>4. yielded[t]' \o queue[t]' = yielded[t] \o queue[t]
      BY <3>2, <3>3
    <3> QED
      BY <2>1, <2>2, <3>4 DEF StateTypes, TaleOf, Tells, Yield, traffic
  <2>3. CASE Hears(s)
    <3>1. PICK a \in Addresses \ discovered[s] :
                 /\ discovered' = [discovered EXCEPT ![s] = @ \cup {a}]
                 /\ queue' = [queue EXCEPT ![s] = Append(@, a)]
                 /\ heard' = [heard EXCEPT ![s] = Append(@, a)]
      BY <2>3 DEF Hears
    <3>2. CASE t = s
      <4>0. a \in Addresses /\ a \notin discovered[s]
        BY <3>1
      <4>1. /\ heard[s] = yielded[s] \o queue[s] /\ discovered[s] = Range(heard[s])
            /\ IsInjective(heard[s]) /\ ending[s]' = "none"
            /\ heard[s] \in Seq(Addresses) /\ queue[s] \in Seq(Addresses)
            /\ yielded[s] \in Seq(Addresses)
        BY <2>1, <2>3, <3>2 DEF StateTypes, TaleOf, Hears
      <4>2. /\ heard[s]' = Append(heard[s], a) /\ queue[s]' = Append(queue[s], a)
            /\ discovered[s]' = discovered[s] \cup {a} /\ yielded[s]' = yielded[s]
        BY <2>1, <2>3, <3>1 DEF StateTypes, Hears
      <4> DEFINE y == yielded[s]
                 q == queue[s]
                 h == heard[s]
      <4>3. /\ y \in Seq(Addresses) /\ q \in Seq(Addresses) /\ h \in Seq(Addresses)
            /\ IsInjective(h) /\ a \notin Range(h)
        BY <4>0, <4>1
      <4> HIDE DEF y, q, h
      <4>4. y \o Append(q, a) = Append(y \o q, a)
        BY <4>0, <4>3, AppendBehind
      <4>5. Range(Append(h, a)) = Range(h) \cup {a} /\ IsInjective(Append(h, a))
        BY <4>0, <4>3, AppendNew
      <4> QED
        BY <3>2, <4>1, <4>2, <4>4, <4>5 DEF TaleOf, y, q, h
    <3> QED
      BY <2>1, <2>3, <3>1, <3>2 DEF StateTypes, TaleOf, Hears
  <2>4. CASE Ends(s) \/ Rests
    BY <2>1, <2>4 DEF StateTypes, TaleOf, Ends, Rests, traffic, items
  <2> QED
    BY <1>3, <2>2, <2>3, <2>4, StepTale DEF TaleMove
<1> QED
  BY <1>1, <1>2, <1>3, StepOfOne DEF TaleInv

(* What was heard and not yet told waits in the queue.                     *)
THEOREM NothingLost == Spec => []TaleInv
BY TaleInvInit, TaleInvStep, PTL DEF Spec

(* No device is reported twice, however often it answers.                  *)
ToldOnce == \A s \in Streams : IsInjective(yielded[s])

THEOREM EachToldOnce == Spec => []ToldOnce
<1>1. ASSUME TaleInv, NEW s \in Streams
      PROVE  IsInjective(yielded[s])
  <2> DEFINE y == yielded[s]
             q == queue[s]
  <2>1. y \in Seq(Addresses) /\ q \in Seq(Addresses) /\ IsInjective(y \o q)
    BY <1>1 DEF TaleInv, SocketInv, StateTypes, TaleOf
  <2> HIDE DEF y, q
  <2>2. /\ y \o q \in Seq(Addresses) /\ Len(y \o q) = Len(y) + Len(q)
        /\ \A i \in 1..Len(y) + Len(q) :
             (y \o q)[i] = IF i <= Len(y) THEN y[i] ELSE q[i - Len(y)]
    BY <2>1, ConcatProperties
  <2>3. /\ Len(y) \in Nat /\ Len(q) \in Nat /\ DOMAIN y = 1..Len(y)
        /\ DOMAIN (y \o q) = 1..Len(y \o q)
    BY <2>1, <2>2, LenProperties
  <2>4. IsInjective(y)
    BY <2>1, <2>2, <2>3 DEF IsInjective
  <2> QED
    BY <2>4 DEF y
<1>2. TaleInv => ToldOnce
  BY <1>1 DEF ToldOnce
<1> QED
  BY <1>2, NothingLost, PTL

(**************************** the census it takes **************************)
(* A discovery's fate is decided by its ending.                            *)
LEMMA FateOfEnding ==
    ASSUME NEW s \in Streams, ending[s] \in Endings
    PROVE  /\ ending[s] = "none" => Fate(s) = "running"
           /\ ending[s] = "complete" => Fate(s) = "complete"
           /\ ending[s] \notin {"none", "complete"} => Fate(s) = "cut"
BY DEF Fate

LEMMA CensusInit ==
    ASSUME Init
    PROVE  C!Init
BY DEF Init, C!Init, Fate

(* Each move of the tale is one of the census, or none.                    *)
LEMMA CensusMove ==
    ASSUME TaleInv, TaleInv', NEW s \in Streams, TaleMove(s)
    PROVE  [C!Next]_(C!censusVars)
<1> DEFINE fate == [t \in Streams |-> Fate(t)]
<1>0. StateTypes /\ StateTypes' /\ TaleOf(s)
  BY DEF TaleInv, SocketInv
<1>1. \A t \in Streams : ending[t]' = ending[t] => Fate(t)' = Fate(t)
  BY DEF Fate
<1>2. fate[s] = "running" <=> ending[s] = "none"
  BY <1>0, FateOfEnding DEF StateTypes, Endings, Fate
<1>3. CASE Tells(s)
  <2>1. fate' = fate
    BY <1>1, <1>3 DEF Tells
  <2> DEFINE y == yielded[s]
             q == queue[s]
  <2>2. y \in Seq(Addresses) /\ q \in Seq(Addresses) /\ q # <<>> /\ heard[s] = y \o q
    BY <1>0, <1>3 DEF StateTypes, TaleOf, Tells, Yield
  <2>3. yielded' = [yielded EXCEPT ![s] = Append(y, Head(q))]
    BY <1>3 DEF Tells, Yield
  <2> HIDE DEF y, q
  <2>4. Head(q) = heard[s][Len(y) + 1] /\ Len(y) < Len(heard[s])
    BY <2>2, HeadMoves
  <2>5. C!Tell(s)
    BY <1>2, <1>3, <2>1, <2>3, <2>4 DEF C!Tell, Tells, traffic, y
  <2> QED
    BY <2>5 DEF C!Next
<1>4. CASE Hears(s)
  <2>1. fate' = fate
    BY <1>1, <1>4 DEF Hears
  <2>2. \E a \in Addresses \ Range(heard[s]) : heard' = [heard EXCEPT ![s] = Append(@, a)]
    BY <1>0, <1>4 DEF Hears, TaleOf
  <2>3. fate[s] = "running" /\ yielded' = yielded
    BY <1>2, <1>4 DEF Hears
  <2>4. C!Hear(s)
    BY <2>1, <2>2, <2>3 DEF C!Hear, C!Range, Range
  <2> QED
    BY <2>4 DEF C!Next
<1>5. CASE Ends(s)
  <2>1. PICK how \in Endings \ {"none"} :
               /\ how = "complete" => queue[s] = <<>>
               /\ ending' = [ending EXCEPT ![s] = how]
    BY <1>5 DEF Ends
  <2>2. ending[s]' = how /\ \A t \in Streams \ {s} : ending[t]' = ending[t]
    BY <1>0, <2>1 DEF StateTypes
  <2>3. Fate(s)' = IF how = "complete" THEN "complete" ELSE "cut"
    BY <2>1, <2>2 DEF Fate
  <2>4. fate' = [fate EXCEPT ![s] = IF how = "complete" THEN "complete" ELSE "cut"]
    BY <1>1, <2>2, <2>3
  <2>5. how = "complete" => yielded[s] = heard[s]
    BY <1>0, <2>1, ConcatEmptySeq DEF StateTypes, TaleOf
  <2>6. C!End(s)
    BY <1>2, <1>5, <2>4, <2>5 DEF C!End, Ends, traffic, items
  <2> QED
    BY <2>6 DEF C!Next
<1>6. CASE Rests
  BY <1>1, <1>6 DEF Rests, C!censusVars, traffic, items
<1> QED
  BY <1>3, <1>4, <1>5, <1>6 DEF TaleMove

LEMMA CensusStep ==
    ASSUME TaleInv, TaleInv', [Next]_vars
    PROVE  [C!Next]_(C!censusVars)
<1>1. CASE UNCHANGED vars
  BY <1>1 DEF vars, C!censusVars, Fate
<1>2. CASE Next
  BY <1>2, StepOfOne, StepTale, CensusMove
<1> QED
  BY <1>1, <1>2

(* Every discovery is a census: its caller is told of what was heard, in   *)
(* that order, each address once, and of everything if it completes; no    *)
(* race of timeout and queue, pause of the caller or malformed datagram    *)
(* changes that.                                                           *)
THEOREM TakesACensus == Spec => ImplementsCensus
<1>1. Init => C!Init
  BY CensusInit
<1>2. TaleInv /\ TaleInv' /\ [Next]_vars => [C!Next]_(C!censusVars)
  BY CensusStep
<1> QED
  BY <1>1, <1>2, NothingLost, PTL DEF Spec, C!Spec, ImplementsCensus
=============================================================================
