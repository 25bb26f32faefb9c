----------------------------- MODULE MCFakeLamp -----------------------------
(***************************************************************************)
(* Instance of FakeLamp for TLC: two connections share the failure modes.  *)
(***************************************************************************)
EXTENDS FakeLamp

(* The control port is used when a command is about to be taken, and a     *)
(* fault is not replaced before it struck: nothing else looks at what the  *)
(* port sets, and so its steps commute with all others.                    *)
WhenItMatters ==
    UNCHANGED <<written, handler>> =>
      /\ \E c \in Conns : at[c] = "serving" /\ Decodable(buf[c])
      /\ tally' # tally => tally.mode = "normal" \/ tally.taken > 0

(* Commands are begun in the order of their numbers, on any connections.   *)
Begun(t) == \E c \in Conns : Contains(written[c], Pieces(t)[1])
InTurn == \A t \in Commands : Begun(t)' => \A u \in Commands : u < t => Begun(u)
=============================================================================
