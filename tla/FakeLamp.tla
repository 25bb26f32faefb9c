------------------------------- MODULE FakeLamp -------------------------------
(***************************************************************************)
(* The development tool tools/fake_dlight_server.py: its TCP handler, one  *)
(* coroutine per connection, with decode_command (_frame.py), and the      *)
(* failure modes that the control port sets and all connections share.     *)
(* Module Wire is what the rest of this project assumes of a lamp; this    *)
(* one shows that the fake lamp is such a lamp.                            *)
(*                                                                         *)
(* A command is two pieces of bytes, since it has no delimiter and may     *)
(* arrive in parts; what it does to the light is not looked at.            *)
(***************************************************************************)
EXTENDS Naturals, SequencesExt

CONSTANTS Commands, NoCommand,
          Conns,    \* accepted connections
          Torn,     \* commands whose first piece ends within a character
          Broken,   \* commands that make the handler raise
          Counts,   \* arguments given to "hang", "reset", "drop"
          NoCount   \* none given

ASSUME FakeLampAssumption ==
    /\ Torn \subseteq Commands /\ Broken \subseteq Commands
    /\ NoCommand \notin Commands
    /\ Counts \subseteq Nat /\ NoCount \notin Nat

VARIABLES
    written,   \* the pieces each client has sent
    got,       \* how many of them the handler has read
    buf,       \* buf: those not decoded yet
    at,        \* where the handler is suspended
    taken,     \* the command it is about to execute after a delay
    link,      \* the connection, as in Wire
    mode, remaining, delay,  \* FailureModes
    replies,   \* the responses sent
    execs,     \* history: how often each command was executed
    pending,   \* history: commands sent whole and not yet answered
    tally      \* history: since a mode was last set

vars == <<written, got, buf, at, taken, link, mode, remaining, delay,
          replies, execs, pending, tally>>
handler == <<got, buf, at, taken, link, replies, execs, pending>>
failures == <<mode, remaining, delay>>

Faults == {"hang", "reset", "drop"}

(* "serving": reading, or at an await that does not last.                  *)
Places == {"serving", "sleeping", "hanging", "closed"}

Init ==
    /\ written = [c \in Conns |-> <<>>]
    /\ got = [c \in Conns |-> 0]
    /\ buf = [c \in Conns |-> <<>>]
    /\ at = [c \in Conns |-> "serving"]
    /\ taken = [c \in Conns |-> NoCommand]
    /\ link = [c \in Conns |-> "up"]
    /\ mode = "normal" /\ remaining = NoCount /\ delay = FALSE
    /\ replies = [c \in Conns |-> <<>>]
    /\ execs = [t \in Commands |-> 0]
    /\ pending = [c \in Conns |-> <<>>]
    /\ tally = [mode |-> "normal", count |-> NoCount, taken |-> 0, struck |-> 0]

(********************************** clients ********************************)
Pieces(t) == <<<<t, 1>>, <<t, 2>>>>
MidCommand(pieces) == Len(pieces) % 2 = 1

(* A client sends a command, in two parts, once the one before is sent.    *)
SendsPart(c, t) ==
    /\ link[c] = "up"
    /\ \/ ~MidCommand(written[c]) /\ \A d \in Conns : ~Contains(written[d], Pieces(t)[1])
       \/ MidCommand(written[c]) /\ Last(written[c])[1] = t
    /\ written' = [written EXCEPT ![c] = Append(@, Pieces(t)[1 + (Len(@) % 2)])]
    /\ pending' = [pending EXCEPT ![c] = IF MidCommand(written[c]) THEN Append(@, t) ELSE @]
    /\ UNCHANGED <<got, buf, at, taken, link, replies, execs, failures, tally>>

HangsUp(c) ==
    /\ link[c] = "up"
    /\ link' = [link EXCEPT ![c] = "closed"]
    /\ UNCHANGED <<written, got, buf, at, taken, replies, execs, pending, failures, tally>>

(********************************* the codec *******************************)
(* The buffer is no UTF-8 while it ends within a character.                *)
EndsTorn(b) == MidCommand(b) /\ Last(b)[1] \in Torn

(* Mutant of Decodable: the whole buffer must be one JSON text.            *)
DecodableAlone(b) == Len(b) = 2

(* Mutant of Rest: as many bytes go as the command has characters.         *)
RestByCharacter(b) == IF b[1][1] \in Torn THEN Tail(b) ELSE SubSeq(b, 3, Len(b))

(* decode_command: the first command of the buffer, and what it leaves.    *)
Decodable(b) == Len(b) >= 2 /\ ~EndsTorn(b)
Decoded(b) == b[1][1]
Rest(b) == SubSeq(b, 3, Len(b))

(******************************** the handler ******************************)
(* Mutant of LastOfCount: a counted mode strikes once too often.           *)
LastOfCountLate == mode # "normal" /\ remaining # NoCount /\ remaining = 0

(* FailureModes.take: the command at hand uses up the count.               *)
LastOfCount == mode # "normal" /\ remaining # NoCount /\ remaining <= 1
CountDown ==
    /\ mode' = IF LastOfCount THEN "normal" ELSE mode
    /\ remaining' = IF LastOfCount \/ remaining = NoCount THEN NoCount ELSE remaining - 1

(* The handler returns, or raises, and its connection is closed.           *)
Leave(c, how) ==
    /\ at' = [at EXCEPT ![c] = "closed"]
    /\ link' = [link EXCEPT ![c] = IF @ = "up" THEN how ELSE @]
    /\ pending' = [pending EXCEPT ![c] = IF link[c] = "up" THEN <<>> ELSE @]
    /\ UNCHANGED <<replies, execs>>

(* handle_command and the response; a response to a client that is gone is *)
(* lost, and may raise.                                                    *)
Handle(c, t) ==
    \/ t \in Broken /\ Leave(c, "fin")
    \/ /\ t \notin Broken
       /\ execs' = [execs EXCEPT ![t] = @ + 1]
       /\ pending' = [pending EXCEPT ![c] = RemoveFirst(@, t)]
       /\ replies' = [replies EXCEPT ![c] =
                        IF link[c] = "up" THEN Append(@, [for |-> t, kind |-> "success"]) ELSE @]
       /\ \/ at' = [at EXCEPT ![c] = "serving"]
          \/ link[c] = "closed" /\ at' = [at EXCEPT ![c] = "closed"]
       /\ UNCHANGED link

(* What becomes of a decoded command in the current mode.                  *)
Obey(c, t) ==
    \/ /\ mode = "hang"
       /\ at' = [at EXCEPT ![c] = "hanging"]
       /\ UNCHANGED <<taken, link, replies, execs, pending>>
    \/ mode = "reset" /\ Leave(c, "rst") /\ UNCHANGED taken
    \/ mode = "drop" /\ Leave(c, "fin") /\ UNCHANGED taken
    \/ /\ mode = "normal" /\ delay
       /\ at' = [at EXCEPT ![c] = "sleeping"]
       /\ taken' = [taken EXCEPT ![c] = t]
       /\ UNCHANGED <<link, replies, execs, pending>>
    \/ mode = "normal" /\ ~delay /\ Handle(c, t) /\ UNCHANGED taken

TakeCommand(c) ==
    /\ at[c] = "serving" /\ Decodable(buf[c])
    /\ buf' = [buf EXCEPT ![c] = Rest(@)]
    /\ CountDown
    /\ Obey(c, Decoded(buf[c]))
    /\ tally' = [tally EXCEPT !.taken = @ + 1,
                              !.struck = IF mode = "normal" THEN @ ELSE @ + 1]
    /\ UNCHANGED <<written, got, delay>>

(* Mutant of Wakes: the delayed command stays with the handler.            *)
WakesAndKeeps(c) ==
    /\ at[c] = "sleeping"
    /\ Handle(c, taken[c])
    /\ UNCHANGED <<written, got, buf, taken, failures, tally>>

(* The delay is over, whatever it was set to since.                        *)
Wakes(c) ==
    /\ at[c] = "sleeping"
    /\ Handle(c, taken[c])
    /\ taken' = [taken EXCEPT ![c] = NoCommand]
    /\ UNCHANGED <<written, got, buf, failures, tally>>

(* read() returns all that has arrived; a connection that hangs drops it.  *)
Reads(c) ==
    /\ got[c] < Len(written[c])
    /\ \/ /\ at[c] = "serving" /\ ~Decodable(buf[c])
          /\ buf' = [buf EXCEPT ![c] = @ \o SubSeq(written[c], got[c] + 1, Len(written[c]))]
       \/ at[c] = "hanging" /\ UNCHANGED buf
    /\ got' = [got EXCEPT ![c] = Len(written[c])]
    /\ UNCHANGED <<written, at, taken, link, replies, execs, pending, failures, tally>>

(* read() finds that the client has gone: by a clean close once everything *)
(* was read, or by a reset, which discards what was not.                   *)
SeesDeparture(c) ==
    /\ link[c] = "closed"
    /\ at[c] = "hanging" \/ (at[c] = "serving" /\ ~Decodable(buf[c]))
    /\ Leave(c, "fin")
    /\ UNCHANGED <<written, got, buf, taken, failures, tally>>

(* The server is stopped: its handlers are cancelled where they are.       *)
Cancelled(c) ==
    /\ at[c] # "closed"
    /\ Leave(c, "fin")
    /\ taken' = [taken EXCEPT ![c] = NoCommand]
    /\ UNCHANGED <<written, got, buf, failures, tally>>

(***************************** the control port ****************************)
(* "hang", "reset", "drop", with or without a count; "normal" clears.      *)
SetMode(m, n) ==
    /\ mode' = m
    /\ remaining' = IF m = "normal" THEN NoCount ELSE n
    /\ delay' = (delay /\ m # "normal")
    /\ tally' = [mode |-> m, count |-> remaining', taken |-> 0, struck |-> 0]
    /\ UNCHANGED <<written, handler>>

SetDelay(d) ==
    /\ delay' = d
    /\ UNCHANGED <<written, handler, mode, remaining, tally>>

(****************************** specification ******************************)
Handler(c) == TakeCommand(c) \/ Wakes(c) \/ Reads(c) \/ SeesDeparture(c)

Next ==
    \/ \E c \in Conns : \/ \E t \in Commands : SendsPart(c, t)
                        \/ HangsUp(c) \/ Handler(c) \/ Cancelled(c)
    \/ SetMode("normal", NoCount)
    \/ \E m \in Faults, n \in Counts \cup {NoCount} : SetMode(m, n)
    \/ \E d \in BOOLEAN : SetDelay(d)

Spec == Init /\ [][Next]_vars

(* The event loop resumes every handler that can go on.                    *)
FairSpec == Spec /\ \A c \in Conns : WF_vars(Handler(c))

(******************************** properties *******************************)
(* The values of the variables; a delayed command is held exactly while    *)
(* its handler sleeps, and a mode has a count only if it is no "normal".   *)
TypeOK ==
    /\ \A c \in Conns :
         /\ written[c] \in Seq(Commands \X {1, 2}) /\ buf[c] \in Seq(Commands \X {1, 2})
         /\ got[c] \in 0..Len(written[c]) /\ pending[c] \in Seq(Commands)
         /\ at[c] \in Places
         /\ taken[c] \in IF at[c] = "sleeping" THEN Commands ELSE {NoCommand}
    /\ link \in [Conns -> {"up", "fin", "rst", "closed"}]
    /\ mode \in Faults \cup {"normal"} /\ remaining \in Nat \cup {NoCount} /\ delay \in BOOLEAN
    /\ mode = "normal" => remaining = NoCount

(* A mode set with a count strikes the next so many commands, whichever    *)
(* connections they come on, and no others; without a count, all.  (The    *)
(* code lets "hang 0" strike once.)                                        *)
StrikesTheNext ==
    tally.count # 0 =>
      tally.struck =
        CASE tally.mode = "normal" -> 0
          [] tally.mode # "normal" /\ tally.count = NoCount -> tally.taken
          [] OTHER -> Min({tally.count, tally.taken})

W == INSTANCE Wire WITH
        Keys <- {"lamp"}, NoKey <- "none", Calls <- Commands, LampKinds <- {"success"},
        lampOf <- [c \in Conns |-> "lamp"], sent <- pending,
        wire <- replies

(* The fake lamp is a lamp of module Wire: however the bytes arrive, it    *)
(* takes the commands of a connection one by one in their order, answers   *)
(* each at most once and only if it executed it, and otherwise departs.    *)
WireStep ==
    \E c \in Conns :
      \/ W!LampReplies(c) \/ W!LampStaysSilent(c)
      \/ \E how \in W!Departed : W!PeerDeparts(c, how)
      \/ (\E t \in Commands : W!Write(t, c)) /\ UNCHANGED <<link, replies, execs>>
      \/ /\ link' = [link EXCEPT ![c] = "closed"]
         /\ UNCHANGED <<pending, replies, execs>>
ImplementsWire == [][WireStep]_(W!wireVars)

(* A command that has been sent whole is executed, unless its connection   *)
(* is closed or made to hang; a client that has sent part of a character   *)
(* more may wait for as long as it does not send the rest.                 *)
EveryCommandServed ==
    \A t \in Commands :
      (\E c \in Conns : t \in Range(pending[c]))
        ~> \A c \in Conns : t \in Range(pending[c]) =>
             at[c] \in {"hanging", "closed"} \/ EndsTorn(buf[c])
=============================================================================
