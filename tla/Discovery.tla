------------------------------ MODULE Discovery ------------------------------
(***************************************************************************)
(* UDP discovery (src/dlightclient/discovery.py): the generator            *)
(* discover_devices_stream, the datagram callback that feeds its queue,    *)
(* and discover_devices, which collects it.  Several of them share one     *)
(* response port, one after another or at once.  The generator runs        *)
(* without yielding from one await, or one yield, to the next; in between  *)
(* come datagrams, the end of the window, cancellation, and a caller who   *)
(* asks for the next device, closes the generator, or forgets it.          *)
(***************************************************************************)
EXTENDS Naturals, SequencesExt

CONSTANTS Streams,    \* invocations of discover_devices_stream
          Collected,  \* those made by discover_devices, which never pauses
          Addresses   \* the addresses datagrams come from

ASSUME DiscoveryAssumption == Collected \subseteq Streams

VARIABLES
    pc,          \* where the generator is suspended
    listener,    \* its listening socket, bound to the response port
    sender,      \* its sending socket
    expired,     \* whether the window is over
    discovered,  \* discovered_devices_set
    queue,       \* devices decoded and not yet yielded, by address
    yielded,     \* what the caller was given
    ending,      \* why the finally block was entered
    heard        \* history: addresses that sent a well-formed answer

vars == <<pc, listener, sender, expired, discovered, queue, yielded, ending, heard>>
traffic == <<discovered, heard>>
items == <<queue, yielded>>
sockets == <<listener, sender, ending>>

(* "opening", "probing": awaiting the listening, the sending endpoint.     *)
(* "waiting": for the queue.  "paused", "draining": at a yield, in the     *)
(* loop or after it.  "closing": for the listener to be closed.  "left":   *)
(* ended without waiting for that.                                         *)
Awaiting == {"opening", "probing", "waiting", "closing"}
AtYield == {"paused", "draining"}
Over == {"done", "left"}
PcStates == {"new"} \cup Awaiting \cup AtYield \cup Over

(* The port is free once the event loop has closed the socket.             *)
Bound == {"open", "closing"}
Endings == {"none", "complete", "failed", "closed", "cancelled"}

Init ==
    /\ pc = [s \in Streams |-> "new"]
    /\ listener = [s \in Streams |-> "none"]
    /\ sender = [s \in Streams |-> "none"]
    /\ expired = [s \in Streams |-> FALSE]
    /\ discovered = [s \in Streams |-> {}]
    /\ queue = [s \in Streams |-> <<>>]
    /\ yielded = [s \in Streams |-> <<>>]
    /\ ending = [s \in Streams |-> "none"]
    /\ heard = [s \in Streams |-> <<>>]

Goto(s, to) == pc' = [pc EXCEPT ![s] = to]

(* Mutant of Finally: the sockets are closed where the loop ends, not in a *)
(* finally block.                                                          *)
FinallyOnSuccess(s, how) ==
    LET closes == how = "complete" /\ listener[s] = "open"
    IN  /\ ending' = [ending EXCEPT ![s] = how]
        /\ sender' = [sender EXCEPT ![s] = IF closes THEN "closed" ELSE @]
        /\ listener' = [listener EXCEPT ![s] = IF closes THEN "closing" ELSE @]
        /\ Goto(s, IF closes THEN "closing" ELSE "done")

(* Mutant of Finally: the generator does not wait for the port.            *)
FinallyAtOnce(s, how) ==
    /\ ending' = [ending EXCEPT ![s] = how]
    /\ sender' = [sender EXCEPT ![s] = IF @ = "open" THEN "closed" ELSE @]
    /\ listener' = [listener EXCEPT ![s] = IF @ = "open" THEN "closing" ELSE @]
    /\ Goto(s, "done")

(* The finally block, up to its await: both sockets are closed; the        *)
(* listening one goes away on a later turn of the event loop.              *)
Finally(s, how) ==
    LET listening == listener[s] = "open"
    IN  /\ ending' = [ending EXCEPT ![s] = how]
        /\ sender' = [sender EXCEPT ![s] = IF @ = "open" THEN "closed" ELSE @]
        /\ listener' = [listener EXCEPT ![s] = IF listening THEN "closing" ELSE @]
        /\ Goto(s, IF listening THEN "closing" ELSE "done")

(******************************* the generator ******************************)
(* The first __anext__: the port is bound, or it is not (taken by another  *)
(* discovery or program, or forbidden), and nothing is ever yielded.       *)
Open(s) ==
    /\ pc[s] = "new"
    /\ \/ /\ \A t \in Streams : listener[t] \notin Bound
          /\ listener' = [listener EXCEPT ![s] = "open"]
          /\ Goto(s, "opening")
          /\ UNCHANGED <<sender, ending>>
       \/ Finally(s, "failed")
    /\ UNCHANGED <<expired, traffic, items>>

(* The sending endpoint is made; that may fail with the listener open.     *)
OpenSender(s) ==
    /\ pc[s] = "opening"
    /\ \/ /\ sender' = [sender EXCEPT ![s] = "open"]
          /\ Goto(s, "probing")
          /\ UNCHANGED <<listener, ending>>
       \/ Finally(s, "failed")
    /\ UNCHANGED <<expired, traffic, items>>

Yield(s) ==
    /\ queue[s] # <<>>
    /\ yielded' = [yielded EXCEPT ![s] = Append(@, Head(queue[s]))]
    /\ queue' = [queue EXCEPT ![s] = Tail(@)]

(* Mutant of Drain: the end of the window is the end of the generator.     *)
DrainNothing(s) == Finally(s, "complete") /\ UNCHANGED items

(* After the loop: what is still in the queue is yielded, then the end.    *)
Drain(s) ==
    \/ Yield(s) /\ Goto(s, "draining") /\ UNCHANGED sockets
    \/ queue[s] = <<>> /\ Finally(s, "complete") /\ UNCHANGED items

(* The probe is sent and the window begins; it is empty if timeout is not  *)
(* positive.                                                               *)
Probe(s) ==
    /\ pc[s] = "probing"
    /\ \/ Goto(s, "waiting") /\ UNCHANGED <<sockets, expired, items>>
       \/ expired' = [expired EXCEPT ![s] = TRUE] /\ Drain(s)
    /\ UNCHANGED traffic

(* wait_for(queue.get()) returns a device.                                 *)
Receives(s) ==
    /\ pc[s] = "waiting"
    /\ Yield(s)
    /\ Goto(s, "paused")
    /\ UNCHANGED <<sockets, expired, traffic>>

(* Mutant of TimesOut: the clock is looked at when a device arrives.       *)
TimesOutBusy(s) ==
    /\ pc[s] = "waiting" /\ expired[s] /\ queue[s] # <<>>
    /\ Drain(s)
    /\ UNCHANGED <<expired, traffic>>

(* It times out, perhaps while a device has just been put into the queue:  *)
(* the cancelled get() leaves it there.                                    *)
TimesOut(s) ==
    /\ pc[s] = "waiting" /\ expired[s]
    /\ Drain(s)
    /\ UNCHANGED <<expired, traffic>>

(* The caller asks for the next device.                                    *)
Resumes(s) ==
    /\ \/ /\ pc[s] = "paused" /\ ~expired[s]
          /\ Goto(s, "waiting")
          /\ UNCHANGED <<sockets, items>>
       \/ /\ pc[s] = "draining" \/ (pc[s] = "paused" /\ expired[s])
          /\ Drain(s)
    /\ UNCHANGED <<expired, traffic>>

(* aclose(), by the caller or, once the generator was forgotten and        *)
(* collected as garbage, by the event loop.                                *)
Close(s) ==
    /\ pc[s] \in AtYield \cup {"new"} /\ s \notin Collected
    /\ Finally(s, "closed")
    /\ UNCHANGED <<expired, traffic, items>>

(* The task that runs the generator is cancelled at one of its awaits.  An *)
(* endpoint half made is closed by asyncio, and nobody waits for that.     *)
Cancel(s) ==
    /\ \/ /\ pc[s] = "opening"
          /\ listener' = [listener EXCEPT ![s] = "closing"]
          /\ ending' = [ending EXCEPT ![s] = "cancelled"]
          /\ Goto(s, "left")
          /\ UNCHANGED sender
       \/ pc[s] \in {"probing", "waiting"} /\ Finally(s, "cancelled")
       \/ pc[s] = "closing" /\ Goto(s, "left") /\ UNCHANGED sockets
    /\ UNCHANGED <<expired, traffic, items>>

Finish(s) ==
    /\ pc[s] = "closing" /\ listener[s] = "closed"
    /\ Goto(s, "done")
    /\ UNCHANGED <<sockets, expired, traffic, items>>

(* _LISTENER_CLOSE_TIMEOUT is over before the socket is closed.            *)
CloseTimesOut(s) ==
    /\ pc[s] = "closing" /\ listener[s] = "closing"
    /\ Goto(s, "left")
    /\ UNCHANGED <<sockets, expired, traffic, items>>

(******************************* the callbacks ******************************)
(* Mutant of Accept: the sender's address is not added to the result.     *)
AcceptAsIs(s, a, good) ==
    LET new == good /\ a \notin discovered[s]
    IN  /\ discovered' = [discovered EXCEPT ![s] = IF new THEN @ \cup {a} ELSE @]
        /\ queue' = [queue EXCEPT ![s] = IF new THEN Append(@, good) ELSE @]

(* datagram_received: an address that is known, and a datagram that is no  *)
(* JSON object, are ignored.                                               *)
Accept(s, a, good) ==
    LET new == good /\ a \notin discovered[s]
    IN  /\ discovered' = [discovered EXCEPT ![s] = IF new THEN @ \cup {a} ELSE @]
        /\ queue' = [queue EXCEPT ![s] = IF new THEN Append(@, a) ELSE @]

(* Anyone may send anything, at any time and any number of times.          *)
Datagram(s, a, good) ==
    /\ listener[s] = "open"
    /\ Accept(s, a, good)
    /\ heard' = [heard EXCEPT ![s] = IF good /\ ~Contains(@, a) THEN Append(@, a) ELSE @]
    /\ UNCHANGED <<pc, sockets, expired, yielded>>

(* connection_lost, after which asyncio closes the socket.                 *)
ConnectionLost(s) ==
    /\ listener[s] = "closing"
    /\ listener' = [listener EXCEPT ![s] = "closed"]
    /\ UNCHANGED <<pc, sender, ending, expired, traffic, items>>

Expire(s) ==
    /\ pc[s] \in {"waiting", "paused"} /\ ~expired[s]
    /\ expired' = [expired EXCEPT ![s] = TRUE]
    /\ UNCHANGED <<pc, sockets, traffic, items>>

(****************************** specification ******************************)
Generator(s) == OpenSender(s) \/ Probe(s) \/ Receives(s) \/ TimesOut(s) \/ Finish(s)

Next ==
    \E s \in Streams :
      \/ Open(s) \/ Generator(s) \/ Resumes(s) \/ Close(s) \/ Cancel(s)
      \/ CloseTimesOut(s) \/ ConnectionLost(s) \/ Expire(s)
      \/ \E a \in Addresses, good \in BOOLEAN : Datagram(s, a, good)

Spec == Init /\ [][Next]_vars

(* The event loop resumes what can go on and runs what is queued, time     *)
(* passes, and discover_devices asks for device after device.              *)
FairSpec ==
    /\ Spec
    /\ \A s \in Streams : WF_vars(Generator(s)) /\ WF_vars(ConnectionLost(s)) /\ WF_vars(Expire(s))
    /\ \A s \in Collected : WF_vars(Resumes(s))

(******************************** properties *******************************)
(* The values of the variables, and what ties them: a suspended generator  *)
(* between its first await and its end has its listener, and then its      *)
(* sender too.                                                             *)
TypeOK ==
    /\ pc \in [Streams -> PcStates]
    /\ listener \in [Streams -> {"none", "open", "closing", "closed"}]
    /\ sender \in [Streams -> {"none", "open", "closed"}]
    /\ expired \in [Streams -> BOOLEAN]
    /\ discovered \in [Streams -> SUBSET Addresses]
    /\ \A s \in Streams : queue[s] \o yielded[s] \in Seq(Addresses)
    /\ ending \in [Streams -> Endings]
    /\ \A s \in Streams :
         /\ pc[s] \in {"opening", "probing", "waiting"} \cup AtYield => listener[s] = "open"
         /\ pc[s] \in {"probing", "waiting"} \cup AtYield => sender[s] = "open"

(* Whichever way a discovery ended (sender refused, closed early,          *)
(* cancelled at any of its awaits), it has closed both of its sockets.     *)
NothingLeftOpen ==
    \A s \in Streams : pc[s] \in Over => listener[s] # "open" /\ sender[s] # "open"

(* When a discovery returned, or its generator was closed, the response    *)
(* port is free of it, so that a discovery started then can bind it; only  *)
(* a cancellation, or the timeout on closing, does not wait for that.      *)
Released == \A s \in Streams : pc[s] = "done" => listener[s] \notin Bound

(* What the caller was given is what was heard, in that order and each     *)
(* address once; a discovery that ends by itself loses nothing: not to a   *)
(* timeout that races the queue, nor to datagrams that come while the      *)
(* caller pauses, nor to a malformed datagram before a good one.           *)
Fate(s) ==
    CASE ending[s] = "none" -> "running"
      [] ending[s] = "complete" -> "complete"
      [] OTHER -> "cut"
C == INSTANCE Census WITH told <- yielded, fate <- [s \in Streams |-> Fate(s)]
ImplementsCensus == C!Spec

(* Every __anext__ and every aclose() comes back, whatever the network     *)
(* sends.                                                                  *)
EveryRequestReturns == \A s \in Streams : pc[s] \in Awaiting ~> pc[s] \notin Awaiting

(* discover_devices returns, even if datagrams never cease, and its port   *)
(* becomes free.                                                           *)
DiscoveryReturns ==
    \A s \in Collected : pc[s] # "new" ~> pc[s] \in Over /\ listener[s] \notin Bound

(* Once a discovery entered its finally block, or was cancelled before it  *)
(* had a socket to close there, the port becomes free, although the wait   *)
(* for that may time out or be cancelled itself, so that the discovery is  *)
(* over before it.                                                         *)
PortComesBack ==
    \A s \in Streams : ending[s] # "none" ~> pc[s] \in Over /\ listener[s] \notin Bound
=============================================================================
