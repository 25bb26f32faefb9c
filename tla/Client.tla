------------------------------- MODULE Client -------------------------------
(***************************************************************************)
(* AsyncDLightClient over its ConnectionPool over the wire: every call of  *)
(* _async_send_tcp_command is a coroutine that runs, without yielding,     *)
(* from one await to the next.  An action is such a run; pc names the      *)
(* await the coroutine is suspended at:                                    *)
(*   acquire   Lock.acquire() of the key          (connection(), _pool.py) *)
(*   discard   wait_closed() of a stale pooled connection    (_checkout)   *)
(*   dial      open_connection() under wait_for              (_checkout)   *)
(*   drain     writer.drain() under wait_for           (the retry loop)    *)
(*   header, payload   readexactly() under wait_for    (read_response)     *)
(*   evict     wait_closed() after an exception        (connection())      *)
(*   release   wait_closed() after a success           (connection())      *)
(*   backoff   asyncio.sleep() before a retry          (the retry loop)    *)
(* Tasks may be cancelled at every one of them.                            *)
(***************************************************************************)
EXTENDS ConnectionPool

CONSTANTS MaxRetries,  \* the client's max_retries
          Closers      \* invocations of close()

ASSUME ClientAssumption == MaxRetries \in Nat

VARIABLES
    pc, attempt,  \* per call: where it is, and the loop variable
    conn,         \* the connection the call has checked out, or NoConn
    outcome,      \* the result or exception being propagated, or "none"
    answer,       \* the call whose response frame was returned, or NoCall
    closer        \* per close(): "idle", "flush" at its await, or how it ended

callVars == <<pc, attempt, conn, outcome, answer>>
vars == <<wireVars, poolVars, callVars, closer>>

(* What ends an attempt.  "timeout" and "conn" are DLightTimeoutError and   *)
(* DLightConnectionError, "response" DLightResponseError, "other" an        *)
(* unforeseen exception, "cancelled" CancelledError (a BaseException).      *)
Transient == {"timeout", "conn"}
Outcomes == Transient \cup {"ok", "response", "other", "cancelled"}
InUse == {"drain", "header", "payload"}            \* inside the async with
Holding == InUse \cup {"discard", "dial", "evict", "release"}
Suspended == Holding \cup {"acquire", "backoff"}
PcStates == Suspended \cup {"new", "done"}

Init ==
    /\ WireInit
    /\ PoolInit
    /\ pc = [t \in Calls |-> "new"]
    /\ attempt = [t \in Calls |-> 0]
    /\ conn = [t \in Calls |-> NoConn]
    /\ outcome = [t \in Calls |-> "none"]
    /\ answer = [t \in Calls |-> NoCall]
    /\ closer = [x \in Closers |-> "idle"]

GoTo(t, where) == pc' = [pc EXCEPT ![t] = where]

(**************************** entering the pool ****************************)
StartExchangeReplayed(t, c) ==  \* mutant: the pool re-sends (before 2.1.0)
    /\ GoTo(t, "drain")
    /\ conn' = [conn EXCEPT ![t] = c]
    /\ sent' = [sent EXCEPT ![c] = @ \o <<t, t>>]

(* The call owns c from here on; its command is written at once.           *)
StartExchange(t, c) ==
    /\ GoTo(t, "drain")
    /\ conn' = [conn EXCEPT ![t] = c]
    /\ Write(t, c)

CheckoutUnpopped(t) ==  \* mutant: get() where the code has pop()
    LET k == KeyOf[t]
    IN  /\ UNCHANGED <<cached, age, link, wire>>
        /\ \/ Reusable(k) /\ StartExchange(t, cached[k])
           \/ ~Reusable(k) /\ GoTo(t, "dial") /\ UNCHANGED <<conn, sent>>

(* _checkout up to its first await, the lock having just been taken.       *)
Checkout(t) ==
    LET k == KeyOf[t]
        c == cached[k]
    IN  /\ PopSlots({k})
        /\ \/ /\ Reusable(k)
              /\ StartExchange(t, c)
              /\ UNCHANGED <<link, wire>>
           \/ /\ c # NoConn /\ ~Reusable(k) /\ link[c] \in Open
              /\ CloseWriter(c)
              /\ GoTo(t, "discard")
              /\ UNCHANGED <<conn, sent>>
           \/ /\ c # NoConn => ~Reusable(k) /\ link[c] \in Closing
              /\ GoTo(t, "dial")
              /\ UNCHANGED <<conn, sent, link, wire>>

(* connection() up to its first await: take the lock or queue for it.      *)
EnterPool(t) ==
    LET k == KeyOf[t]
    IN  \/ /\ LockFree(k)
           /\ TakeLock(k, t)
           /\ Checkout(t)
           /\ UNCHANGED waiters
        \/ /\ ~LockFree(k)
           /\ Enqueue(k, t)
           /\ GoTo(t, "acquire")
           /\ UNCHANGED <<holder, cached, age, conn, sent, link, wire>>

Start(t) ==
    /\ pc[t] = "new"
    /\ EnterPool(t)
    /\ UNCHANGED <<lampOf, execs, persistent, idleTimeout, attempt, outcome,
                   answer, closer>>

Acquire(t) ==
    LET k == KeyOf[t]
    IN  /\ pc[t] = "acquire"
        /\ LockGranted(k, t)
        /\ TakeLock(k, t)
        /\ waiters' = [waiters EXCEPT ![k] = Tail(@)]
        /\ Checkout(t)
        /\ UNCHANGED <<lampOf, execs, persistent, idleTimeout, attempt, outcome,
                       answer, closer>>

(* The stale connection is closed, or the 2 s allowed for it are over.     *)
DiscardDone(t) ==
    /\ pc[t] = "discard"
    /\ GoTo(t, "dial")
    /\ UNCHANGED <<wireVars, poolVars, attempt, conn, outcome, answer, closer>>

(***************************** leaving the pool ****************************)
EndAttemptOnceMore(t, out) ==  \* mutant: <= for <
    /\ ReleaseLock(KeyOf[t])
    /\ conn' = [conn EXCEPT ![t] = NoConn]
    /\ IF out \in Transient /\ attempt[t] <= MaxRetries
         THEN GoTo(t, "backoff") /\ outcome' = [outcome EXCEPT ![t] = "none"]
         ELSE GoTo(t, "done") /\ outcome' = [outcome EXCEPT ![t] = out]

EndAttemptLocked(t, out) ==  \* mutant: no release when the task is cancelled
    /\ IF out = "cancelled" THEN UNCHANGED holder ELSE ReleaseLock(KeyOf[t])
    /\ conn' = [conn EXCEPT ![t] = NoConn]
    /\ IF out \in Transient /\ attempt[t] < MaxRetries
         THEN GoTo(t, "backoff") /\ outcome' = [outcome EXCEPT ![t] = "none"]
         ELSE GoTo(t, "done") /\ outcome' = [outcome EXCEPT ![t] = out]

(* The async with is left: the lock is released, and a transient failure   *)
(* is retried while retries remain.                                        *)
EndAttempt(t, out) ==
    /\ ReleaseLock(KeyOf[t])
    /\ conn' = [conn EXCEPT ![t] = NoConn]
    /\ IF out \in Transient /\ attempt[t] < MaxRetries
         THEN GoTo(t, "backoff") /\ outcome' = [outcome EXCEPT ![t] = "none"]
         ELSE GoTo(t, "done") /\ outcome' = [outcome EXCEPT ![t] = out]

(* The await of _close_writer, with out to be raised or returned after it. *)
AwaitClosed(t, where, out) ==
    /\ CloseWriter(conn[t])
    /\ GoTo(t, where)
    /\ outcome' = [outcome EXCEPT ![t] = out]
    /\ UNCHANGED <<holder, conn>>

(* connection()'s except BaseException: the exchange failed with out.      *)
Evict(t, out) ==
    \/ /\ link[conn[t]] \in Open
       /\ AwaitClosed(t, "evict", out)
    \/ /\ link[conn[t]] \in Closing
       /\ EndAttempt(t, out)
       /\ UNCHANGED <<link, wire>>

(* connection()'s else branch: the exchange returned a response.  The      *)
(* connection is pooled, or closed by this call, or was lost meanwhile.    *)
ReturnOrClose(t) ==
    LET k == KeyOf[t]
        c == conn[t]
        consumed == wire' = [wire EXCEPT ![c] = Tail(@)]
    IN  \/ /\ persistent /\ link[c] \in Open
           /\ StoreSlot(k, c)
           /\ consumed
           /\ EndAttempt(t, "ok")
           /\ UNCHANGED link
        \/ /\ ~persistent /\ link[c] \in Open
           /\ AwaitClosed(t, "release", "ok")
           /\ UNCHANGED <<cached, age>>
        \/ /\ link[c] \in Closing
           /\ consumed
           /\ EndAttempt(t, "ok")
           /\ UNCHANGED <<link, cached, age>>

(********************** one exchange, await by await ***********************)
DialSucceeds(t) ==
    /\ pc[t] = "dial"
    /\ Unused # {}
    /\ LET c == CHOOSE c \in Unused : TRUE
       IN  Dial(c, KeyOf[t]) /\ StartExchange(t, c)
    /\ UNCHANGED <<poolVars, wire, execs, attempt, outcome, answer, closer>>

(* It times out or raises an OSError, which is tried again, or raises      *)
(* anything else (a host name that cannot be encoded), which is not.       *)
DialFails(t) ==
    /\ pc[t] = "dial"
    /\ \E out \in Transient \cup {"other"} : EndAttempt(t, out)
    /\ UNCHANGED <<wireVars, persistent, idleTimeout, cached, age, waiters,
                   attempt, answer, closer>>

Drained(t) ==
    /\ pc[t] = "drain"
    /\ link[conn[t]] \in Open
    /\ GoTo(t, "header")
    /\ UNCHANGED <<wireVars, poolVars, attempt, conn, outcome, answer, closer>>

(* The next frame on the connection, its header read in one await and its  *)
(* payload in another.                                                     *)
Kind(t) == Head(wire[conn[t]]).kind

Accept(t) ==
    /\ answer' = [answer EXCEPT ![t] = Head(wire[conn[t]]).for]
    /\ ReturnOrClose(t)
    /\ UNCHANGED <<lampOf, sent, execs, persistent, idleTimeout, waiters,
                   attempt, closer>>

Fail(t, out) ==
    /\ Evict(t, out)
    /\ UNCHANGED <<lampOf, sent, execs, persistent, idleTimeout, cached, age,
                   waiters, attempt, answer, closer>>

ReadHeader(t) ==
    /\ pc[t] = "header"
    /\ wire[conn[t]] # <<>>
    /\ \/ Kind(t) = "ack" /\ Accept(t)
       \/ Kind(t) = "oversized" /\ Fail(t, "response")
       \/ /\ Kind(t) \notin {"ack", "oversized"}
          /\ GoTo(t, "payload")
          /\ UNCHANGED <<wireVars, poolVars, attempt, conn, outcome, answer, closer>>

ReadPayload(t) ==
    /\ pc[t] = "payload"
    /\ wire[conn[t]] # <<>>
    /\ \/ Kind(t) = "success" /\ Accept(t)
       \/ Kind(t) = "rejected" /\ Fail(t, "response")
       \/ Kind(t) = "malformed" /\ Fail(t, "other")

TimeoutKeepsConnection(t) ==  \* mutant: a timeout does not evict
    /\ pc[t] \in InUse
    /\ IF link[conn[t]] \in Open THEN StoreSlot(KeyOf[t], conn[t])
                                 ELSE UNCHANGED <<cached, age>>
    /\ EndAttempt(t, "timeout")
    /\ UNCHANGED <<wireVars, persistent, idleTimeout, waiters, attempt, answer,
                   closer>>

(* wait_for gives up on the drain, the header or the payload.              *)
ExchangeTimesOut(t) == pc[t] \in InUse /\ Fail(t, "timeout")

(* The transport was lost: drain() and a read after a reset raise OSError. *)
ExchangeLost(t) ==
    /\ pc[t] \in InUse
    /\ \/ link[conn[t]] = "lost"
       \/ link[conn[t]] = "eof" /\ pc[t] = "drain"
    /\ Fail(t, "conn")

(* IncompleteReadError: EOF before a header, or inside a payload.          *)
ReadEof(t) ==
    /\ pc[t] = "payload" \/ (pc[t] = "header" /\ wire[conn[t]] = <<>>)
    /\ link[conn[t]] \in {"fin", "eof"}
    /\ Fail(t, "response")

(* wait_closed() returned, or its 2 s are over: the exception goes on.     *)
CloseDone(t) ==
    /\ pc[t] \in {"evict", "release"}
    /\ EndAttempt(t, outcome[t])
    /\ UNCHANGED <<wireVars, persistent, idleTimeout, cached, age, waiters,
                   attempt, answer, closer>>

BackoffDone(t) ==
    /\ pc[t] = "backoff"
    /\ attempt' = [attempt EXCEPT ![t] = @ + 1]
    /\ EnterPool(t)
    /\ UNCHANGED <<lampOf, execs, persistent, idleTimeout, outcome, answer, closer>>

(******************************* cancellation ******************************)
(* CancelledError is raised at the await.  Inside the exchange it evicts   *)
(* the connection first; at the other awaits of the pool it only releases  *)
(* the lock.  No except clause of the retry loop catches it.               *)
Cancel(t) ==
    \/ pc[t] \in InUse /\ Fail(t, "cancelled")
    \/ /\ pc[t] \in Holding \ InUse
       /\ EndAttempt(t, "cancelled")
       /\ UNCHANGED <<wireVars, persistent, idleTimeout, cached, age, waiters,
                      attempt, answer, closer>>
    \/ /\ pc[t] \in {"acquire", "backoff"}
       /\ IF pc[t] = "acquire" THEN LeaveQueue(KeyOf[t], t) ELSE UNCHANGED waiters
       /\ GoTo(t, "done")
       /\ outcome' = [outcome EXCEPT ![t] = "cancelled"]
       /\ UNCHANGED <<wireVars, persistent, idleTimeout, cached, age, holder,
                      attempt, conn, answer, closer>>

(********************************* close() *********************************)
FlushClosesOne(x) ==  \* mutant: clear() after closing the first connection
    /\ closer[x] = "idle"
    /\ PopSlots(Keys)
    /\ IF Pooled = {} THEN UNCHANGED <<link, wire>>
         ELSE \E k \in Pooled : CloseWriter(cached[k])
    /\ closer' = [closer EXCEPT ![x] = "closed"]
    /\ UNCHANGED <<lampOf, sent, execs, persistent, idleTimeout, holder,
                   waiters, callVars>>

FlushUnpopped(x) ==  \* mutant: entries are closed but stay in the dictionary
    /\ closer[x] \in {"idle", "flush"}
    /\ \/ /\ \E k \in Pooled : link[cached[k]] \in Open /\ CloseWriter(cached[k])
          /\ closer' = [closer EXCEPT ![x] = "flush"]
       \/ /\ Pooled = {}
          /\ closer' = [closer EXCEPT ![x] = "closed"]
          /\ UNCHANGED <<link, wire>>
    /\ UNCHANGED <<lampOf, sent, execs, poolVars, callVars>>

(* close_all() up to its next await.  popitem() order is left open.        *)
(* Connections whose transport is already closing are popped without an    *)
(* await; the first open one is closed and awaited; the loop ends when     *)
(* nothing is pooled.                                                      *)
Flush(x) ==
    LET dead == {k \in Pooled : link[cached[k]] \in Closing}
    IN  /\ closer[x] \in {"idle", "flush"}
        /\ \/ \E k \in Pooled \ dead, ks \in SUBSET dead :
                /\ PopSlots(ks \cup {k})
                /\ CloseWriter(cached[k])
                /\ closer' = [closer EXCEPT ![x] = "flush"]
           \/ /\ Pooled = dead
              /\ PopSlots(Pooled)
              /\ closer' = [closer EXCEPT ![x] = "closed"]
              /\ UNCHANGED <<link, wire>>
        /\ UNCHANGED <<lampOf, sent, execs, persistent, idleTimeout, holder,
                       waiters, callVars>>

CancelFlush(x) ==
    /\ closer[x] = "flush"
    /\ closer' = [closer EXCEPT ![x] = "cancelled"]
    /\ UNCHANGED <<wireVars, poolVars, callVars>>

(****************************** specification ******************************)
Resume(t) ==
    \/ Acquire(t) \/ DiscardDone(t) \/ DialSucceeds(t) \/ DialFails(t)
    \/ Drained(t) \/ ReadHeader(t) \/ ReadPayload(t)
    \/ ExchangeTimesOut(t) \/ ExchangeLost(t) \/ ReadEof(t)
    \/ CloseDone(t) \/ BackoffDone(t)

PoolNext ==
    \/ Tick
    \/ \E b \in BOOLEAN : SetPersistent(b)
    \/ \E v \in IdleTimeouts : SetIdleTimeout(v)

Next ==
    \/ \E t \in Calls : Start(t) \/ Resume(t) \/ Cancel(t)
    \/ \E x \in Closers : Flush(x) \/ CancelFlush(x)
    \/ WireNext /\ UNCHANGED <<poolVars, callVars, closer>>
    \/ PoolNext /\ UNCHANGED <<wireVars, callVars, closer>>

Spec == Init /\ [][Next]_vars

(* The event loop resumes every suspended coroutine: each await either     *)
(* completes or runs into its timeout, and asyncio.Lock is FIFO.  Nothing  *)
(* is assumed of the lamp, of the network, or of when calls are made.      *)
FairSpec ==
    /\ Spec
    /\ \A t \in Calls : WF_vars(Resume(t))
    /\ \A x \in Closers : WF_vars(closer[x] = "flush" /\ Flush(x))

(******************************** properties *******************************)
(* Every variable keeps its type, the loop variable its range.             *)
TypeOK ==
    /\ WireTypeOK
    /\ PoolTypeOK
    /\ pc \in [Calls -> PcStates]
    /\ attempt \in [Calls -> 0..MaxRetries]
    /\ conn \in [Calls -> Conns \cup {NoConn}]
    /\ outcome \in [Calls -> Outcomes \cup {"none"}]
    /\ answer \in [Calls -> Calls \cup {NoCall}]
    /\ closer \in [Closers -> {"idle", "flush", "closed", "cancelled"}]

(* Who answers for an open connection: a key's slot in the pool, or a call *)
(* inside the pool's async with.                                           *)
SlotsOf(c) == {k \in Keys : cached[k] = c}
UsersOf(c) == {t \in Calls : pc[t] \in InUse /\ conn[t] = c}

(* Every open connection has exactly one owner (so none leaks, whatever    *)
(* fails or is cancelled), and a connection in use or pooled is not shared *)
(* (_pool.py:40, "Entries are checked out (removed) while in use").        *)
OneOwner ==
    /\ \A c \in Conns : link[c] \in Open => SlotsOf(c) # {} \/ UsersOf(c) # {}
    /\ \A c \in Conns : SlotsOf(c) = {} \/ UsersOf(c) = {}
    /\ \A k, l \in Keys : cached[k] # NoConn /\ cached[k] = cached[l] => k = l
    /\ \A t, u \in Calls :
         pc[t] \in InUse /\ pc[u] \in InUse /\ conn[t] = conn[u] => t = u

(* To one lamp there is never more than one connection in use or pooled:   *)
(* calls for a key exclude each other, and a key whose lock is held has an *)
(* empty slot, so that nothing checked in is overwritten and leaked.       *)
OneConnectionPerLamp ==
    /\ \A t, u \in Calls :
         pc[t] \in Holding /\ pc[u] \in Holding /\ KeyOf[t] = KeyOf[u] => t = u
    /\ \A t \in Calls : pc[t] \in Holding => cached[KeyOf[t]] = NoConn

(* A pooled connection carries no trace of the exchange before: no command *)
(* the lamp still has to serve, no response nobody has read.  It is what   *)
(* "making desync structurally impossible" (docs/ARCHITECTURE.md:78) rests *)
(* on, evicting on any exception being the mechanism.                      *)
PooledIsClean ==
    \A k \in Pooled : sent[cached[k]] = <<>> /\ wire[cached[k]] = <<>>

(* A call that succeeds returns the response to its own command, and the   *)
(* lamp has executed that command.                                         *)
AnswerIsOwn ==
    \A t \in Calls : outcome[t] = "ok" => answer[t] = t /\ execs[t] > 0

(* "The lamp receives the command at most three times" for two retries     *)
(* (docs/user-guide/connections.md): late executions of commands on        *)
(* connections long given up included.                                     *)
AtMostOncePerAttempt == \A t \in Calls : execs[t] <= attempt[t] + 1

(* The locks agree with what the calls are doing: a key's lock is held by  *)
(* exactly the call that is inside its async with, and its queue holds     *)
(* exactly the calls that wait, each once.  So a call that ended, failed,  *)
(* backs off or was cancelled blocks nobody, and no wake-up is lost.       *)
LocksMatchCalls ==
    \A k \in Keys, t \in Calls :
      LET mine == KeyOf[t] = k
          places == {i \in 1..Len(waiters[k]) : waiters[k][i] = t}
      IN  /\ holder[k] = t <=> mine /\ pc[t] \in Holding
          /\ Cardinality(places) = IF mine /\ pc[t] = "acquire" THEN 1 ELSE 0

(* Whatever connection a command is written to, it leads to the lamp the   *)
(* command is for: a key's slot only ever holds connections of that key.   *)
ReachesItsLamp ==
    \A c \in Conns : \A i \in 1..Len(sent[c]) : lampOf[c] = KeyOf[sent[c][i]]

(* close() and other calls never close a connection under a running        *)
(* exchange: it closes when its own call moves on or its peer departed.    *)
OthersSpareExchange ==
    [][\A t \in Calls :
         LET c == conn[t]
         IN  (/\ pc[t] \in InUse /\ pc'[t] = pc[t]
              /\ link[c] \in Open /\ link'[c] \in Closing)
             => link[c] \in Departed]_vars

(* docs/user-guide/connections.md:41: after the async with block, that is  *)
(* after close(), "all TCP connections closed".  Said here of the moment   *)
(* when no call is running any more.                                       *)
AllClosedAfterClose ==
    /\ \E x \in Closers : closer[x] = "closed"
    /\ \A t \in Calls : pc[t] \in {"new", "done"}
    => \A c \in Conns : link[c] \notin Open

(* docs/user-guide/connections.md:74: "Each retry gets a fresh TCP         *)
(* connection, even in persistent mode."                                   *)
RetriesDialAfresh ==
    [][\A t \in Calls :
         attempt'[t] > 0 /\ pc[t] # "drain" /\ pc'[t] = "drain"
           => conn'[t] \in Unused]_vars

(* docs/user-guide/connections.md:61: "Setting idle_timeout=0 disables     *)
(* idle eviction."  A call then never discards a live pooled connection.   *)
ZeroNeverEvicts ==
    [][\A t \in Calls :
         idleTimeout = 0 /\ pc'[t] = "discard" /\ pc[t] # "discard"
           => ~IsLive(cached[KeyOf[t]])]_vars

(* The client implements Delivery: a call that waits, dials, reads or      *)
(* backs off is active, and each pass of the retry loop is one try.        *)
PhaseOf(t) ==
    CASE pc[t] = "new" -> "idle"
      [] pc[t] = "done" -> IF outcome[t] = "ok" THEN "ok" ELSE "failed"
      [] OTHER -> "active"

D == INSTANCE Delivery WITH
       MaxTries <- MaxRetries + 1,
       phase <- [t \in Calls |-> PhaseOf(t)],
       tries <- [t \in Calls |-> IF pc[t] = "new" THEN 0 ELSE attempt[t] + 1],
       effects <- execs

ImplementsDelivery == D!Spec

(* Every call comes back, whatever the lamp does: every await of the code  *)
(* is bounded by a timeout, and every path out of the pool releases the    *)
(* lock.                                                                   *)
EveryCallReturns == \A t \in Calls : pc[t] # "new" ~> pc[t] = "done"

(* So does close(), although calls check connections in and out while      *)
(* close_all() awaits: as Calls is finite, they cease.  (Calls that never  *)
(* cease can keep it in its loop.)                                         *)
EveryCloseReturns ==
    \A x \in Closers : closer[x] = "flush" ~> closer[x] \in {"closed", "cancelled"}
=============================================================================
