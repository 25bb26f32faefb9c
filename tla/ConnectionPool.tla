--------------------------- MODULE ConnectionPool ---------------------------
(***************************************************************************)
(* src/dlightclient/_pool.py: the pool's state and the pieces its          *)
(* coroutines are made of.  connection() is an async context manager whose *)
(* body is the caller's exchange, so the coroutine that runs these pieces  *)
(* is the call itself (module Client); close_all() is a coroutine of its   *)
(* own (module Client composes both).                                      *)
(***************************************************************************)
EXTENDS Wire, SequencesExt

CONSTANTS KeyOf,         \* the key, _key(host, port, ssl), each call is for
          NoConn, NoCall,
          IdleTimeouts,  \* values the idle_timeout property is given
          MaxAge         \* bound: an idle connection's age saturates here

ASSUME PoolAssumption ==
    /\ KeyOf \in [Calls -> Keys]
    /\ NoKey \notin Keys
    /\ NoConn \notin Conns
    /\ NoCall \notin Calls
    /\ IdleTimeouts \subseteq Nat /\ IdleTimeouts # {}
    /\ MaxAge \in Nat /\ \A v \in IdleTimeouts : v < MaxAge

VARIABLES
    persistent,   \* the public attribute of that name
    idleTimeout,  \* the public attribute of that name
    cached,       \* _connections: the idle connection of each key, or NoConn
    age,          \* time.time() - last_activity_time of that connection
    holder,       \* _locks: the call that holds each key's asyncio.Lock
    waiters       \* the FIFO of calls waiting in Lock.acquire()

poolVars == <<persistent, idleTimeout, cached, age, holder, waiters>>

PoolInit ==
    /\ persistent \in BOOLEAN
    /\ idleTimeout \in IdleTimeouts
    /\ cached = [k \in Keys |-> NoConn]
    /\ age = [k \in Keys |-> 0]
    /\ holder = [k \in Keys |-> NoCall]
    /\ waiters = [k \in Keys |-> <<>>]

Pooled == {k \in Keys : cached[k] # NoConn}

(*************************** the per-key asyncio.Lock **********************)
(* Lock.acquire() returns at once only if the lock is free and nobody is   *)
(* queued; release() wakes the first waiter, which takes the lock when it  *)
(* runs.  A cancelled waiter leaves the queue.                             *)
LockFreeUnqueued(k) == waiters[k] = <<>>  \* mutant: forgets the holder
LockFree(k) == holder[k] = NoCall /\ waiters[k] = <<>>
LockGranted(k, t) == holder[k] = NoCall /\ waiters[k] # <<>> /\ Head(waiters[k]) = t
TakeLock(k, t) == holder' = [holder EXCEPT ![k] = t]
ReleaseLock(k) == holder' = [holder EXCEPT ![k] = NoCall]
Enqueue(k, t) == waiters' = [waiters EXCEPT ![k] = Append(@, t)]
LeaveQueue(k, t) ==
    \E i \in 1..Len(waiters[k]) :
      /\ waiters[k][i] = t
      /\ waiters' = [waiters EXCEPT ![k] = RemoveAt(@, i)]

(******************************* connections *******************************)
(* _is_live: the stream flags and the MSG_PEEK probe together see every    *)
(* departure the kernel knows of.  Bytes still pending in front of an EOF  *)
(* make the peek non-empty, and the connection passes for live.            *)
IsLive(c) == link[c] = "up" \/ (link[c] = "fin" /\ wire[c] # <<>>)

(* The guard of _checkout on the connection it popped.                     *)
Reusable(k) ==
    /\ cached[k] # NoConn
    /\ age[k] <= idleTimeout
    /\ IsLive(cached[k])

(* Entries are checked out: removed while in use.                          *)
PopSlots(ks) ==
    /\ cached' = [k \in Keys |-> IF k \in ks THEN NoConn ELSE cached[k]]
    /\ age' = [k \in Keys |-> IF k \in ks THEN 0 ELSE age[k]]

StoreSlotOfAny(k, c) ==  \* mutant: the key does not tell lamps apart
    \E l \in Keys : /\ cached' = [cached EXCEPT ![l] = c]
                   /\ age' = [age EXCEPT ![l] = 0]

StoreSlot(k, c) ==
    /\ cached' = [cached EXCEPT ![k] = c]
    /\ age' = [age EXCEPT ![k] = 0]

(* _close_writer on an open connection.  Unread frames are gone with it;   *)
(* commands already written are flushed to the peer and may still run.     *)
CloseWriter(c) ==
    /\ link' = [link EXCEPT ![c] = "closed"]
    /\ wire' = [wire EXCEPT ![c] = <<>>]

(******************************* other actions *****************************)
(* The clock: idle connections grow older.  Ages beyond every timeout are  *)
(* not told apart.                                                         *)
Tick ==
    /\ \E k \in Pooled : age[k] < MaxAge
    /\ age' = [k \in Keys |-> IF k \in Pooled /\ age[k] < MaxAge
                                THEN age[k] + 1 ELSE age[k]]
    /\ UNCHANGED <<persistent, idleTimeout, cached, holder, waiters>>

(* The property setters of AsyncDLightClient, usable at any time.          *)
SetPersistent(b) ==
    /\ persistent' = b
    /\ UNCHANGED <<idleTimeout, cached, age, holder, waiters>>

SetIdleTimeout(v) ==
    /\ idleTimeout' = v
    /\ UNCHANGED <<persistent, cached, age, holder, waiters>>

PoolTypeOK ==
    /\ persistent \in BOOLEAN
    /\ idleTimeout \in IdleTimeouts
    /\ cached \in [Keys -> Conns \cup {NoConn}]
    /\ age \in [Keys -> 0..MaxAge]
    /\ holder \in [Keys -> Calls \cup {NoCall}]
    /\ waiters \in [Keys -> Seq(Calls)]
=============================================================================
