-------------------------------- MODULE Wire --------------------------------
(***************************************************************************)
(* The environment of the dLight TCP client: the TCP connections it opens  *)
(* and the lamp at their other end.  None of this is code of the client;   *)
(* it is modelled from what src/dlightclient/_pool.py and _frame.py        *)
(* observe of it, and from the two lamps the repository ships              *)
(* (tools/fake_dlight_server.py, tests/fake_server.py).                    *)
(*                                                                         *)
(* A call stands for one invocation of _async_send_tcp_command, and also   *)
(* for the command it writes: the payload is never looked at.  The lamp    *)
(* never pushes unsolicited TCP data (docs/ARCHITECTURE.md section 2), so  *)
(* every frame on a connection answers one command written to it.          *)
(***************************************************************************)
EXTENDS Naturals, Sequences

CONSTANTS Keys,     \* lamps: the (host, port, ssl) keys of the pool
          NoKey,
          Calls,    \* invocations of _async_send_tcp_command
          Conns,    \* TCP connections the client may come to open
          LampKinds \* the kinds of response this lamp gives

VARIABLES
    lampOf,   \* the lamp each connection was dialled to, or NoKey
    link,     \* the state of each connection, as the client's host has it
    sent,     \* commands written to the connection and not yet served
    wire,     \* response frames not yet consumed by the client
    execs     \* how often the lamp has executed each call's command

wireVars == <<lampOf, link, sent, wire, execs>>

(* While the transport is open: "up", or the kernel has been told of the   *)
(* peer's clean close ("fin") or reset ("rst").  Once writer.is_closing(): *)
(* "eof" and "lost" if the event loop did it after an EOF or a reset,      *)
(* "closed" if the client did.                                             *)
Departed == {"fin", "rst"}
Open == {"up"} \cup Departed
Closing == {"eof", "lost", "closed"}
LinkStates == {"unused"} \cup Open \cup Closing

(* "ack": zero-length frame.  "success": framed SUCCESS.  "oversized": a    *)
(* length above MAX_PAYLOAD_SIZE.  "rejected": non-SUCCESS status, echo of  *)
(* the command, or undecodable.  "malformed": JSON that is not an object.   *)
Accepting == {"ack", "success"}
ReplyKinds == Accepting \cup {"oversized", "rejected", "malformed"}
ASSUME WireAssumption == LampKinds \subseteq ReplyKinds

Frames == [for : Calls, kind : ReplyKinds]

WireInit ==
    /\ lampOf = [c \in Conns |-> NoKey]
    /\ link = [c \in Conns |-> "unused"]
    /\ sent = [c \in Conns |-> <<>>]
    /\ wire = [c \in Conns |-> <<>>]
    /\ execs = [t \in Calls |-> 0]

(* The lamp takes the next command off a connection and executes it, or    *)
(* does not.  It may do so after the client has given the connection up:   *)
(* the bytes were delivered.                                               *)
LampTakes(c, executed) ==
    /\ sent[c] # <<>>
    /\ sent' = [sent EXCEPT ![c] = Tail(@)]
    /\ execs' = [execs EXCEPT ![Head(sent[c])] = @ + executed]
    /\ UNCHANGED <<lampOf, link>>

(* It answers; only a command it executed is acknowledged.                 *)
LampReplies(c) ==
    \E executed \in {0, 1}, kind \in LampKinds :
      /\ kind \in Accepting => executed = 1
      /\ link[c] = "up"
      /\ LampTakes(c, executed)
      /\ wire' = [wire EXCEPT ![c] =
                    Append(@, [for |-> Head(sent[c]), kind |-> kind])]

(* It does not answer, or its answer is lost on the way: the lamp hangs,   *)
(* the path is dead, or the client has closed its end.                     *)
LampStaysSilent(c) ==
    /\ \E executed \in {0, 1} : LampTakes(c, executed)
    /\ UNCHANGED wire

(* The lamp closes the connection, or resets it.  It serves nothing that   *)
(* it has not taken by then.                                               *)
PeerDeparts(c, how) ==
    /\ link[c] = "up" \/ (link[c] = "fin" /\ how = "rst")
    /\ link' = [link EXCEPT ![c] = how]
    /\ sent' = [sent EXCEPT ![c] = <<>>]
    /\ UNCHANGED <<lampOf, wire, execs>>

(* The event loop processes the departure and closes the transport: always *)
(* after a reset, which also makes buffered bytes unreadable (the reader   *)
(* then raises before it returns any), and under TLS after an EOF.  On     *)
(* plain TCP an EOF leaves the transport half open: the step is not taken. *)
LoopNotices(c) ==
    /\ link[c] \in Departed
    /\ \/ link[c] = "fin" /\ link' = [link EXCEPT ![c] = "eof"] /\ UNCHANGED wire
       \/ /\ link[c] = "rst"
          /\ link' = [link EXCEPT ![c] = "lost"]
          /\ wire' = [wire EXCEPT ![c] = <<>>]
    /\ UNCHANGED <<lampOf, sent, execs>>

WireNext ==
    \E c \in Conns : \/ LampReplies(c)
                     \/ LampStaysSilent(c)
                     \/ \E how \in Departed : PeerDeparts(c, how)
                     \/ LoopNotices(c)

(* What the client does to a connection.  Unused connections are all       *)
(* alike; a write is not delivered once the peer has departed.             *)
Unused == {c \in Conns : link[c] = "unused"}
Dial(c, k) ==
    /\ link' = [link EXCEPT ![c] = "up"]
    /\ lampOf' = [lampOf EXCEPT ![c] = k]

Write(t, c) ==
    sent' = [sent EXCEPT ![c] = IF link[c] \in {"unused", "up"}
                                  THEN Append(@, t) ELSE @]

WireTypeOK ==
    /\ lampOf \in [Conns -> Keys \cup {NoKey}]
    /\ link \in [Conns -> LinkStates]
    /\ sent \in [Conns -> Seq(Calls)]
    /\ wire \in [Conns -> Seq(Frames)]
    /\ execs \in [Calls -> Nat]
=============================================================================
