---------------------------- MODULE FakeLampProofs ----------------------------
(***************************************************************************)
(* Theorems about module FakeLamp, for every set of commands, connections  *)
(* and counts: which commands a failure mode strikes, and that the fake    *)
(* lamp is a lamp of module Wire.                                          *)
(***************************************************************************)
EXTENDS FakeLamp, SequenceLemmas

(*************************** the inductive invariants **********************)
(* The values of all variables; TypeOK says it of two of them together.    *)
StateTypes ==
    /\ written \in [Conns -> Seq(Commands \X {1, 2})]
    /\ buf \in [Conns -> Seq(Commands \X {1, 2})]
    /\ got \in [Conns -> Nat]
    /\ at \in [Conns -> Places]
    /\ taken \in [Conns -> Commands \cup {NoCommand}]
    /\ link \in [Conns -> {"up", "fin", "rst", "closed"}]
    /\ mode \in Faults \cup {"normal"} /\ remaining \in Nat \cup {NoCount} /\ delay \in BOOLEAN
    /\ replies \in [Conns -> Seq([for : Commands, kind : {"success"}])]
    /\ execs \in [Commands -> Nat]
    /\ pending \in [Conns -> Seq(Commands)]

TypeInv ==
    /\ StateTypes
    /\ \A c \in Conns : got[c] <= Len(written[c])
    /\ \A c \in Conns : taken[c] # NoCommand <=> at[c] = "sleeping"
    /\ mode = "normal" => remaining = NoCount

(* While a handler serves, its buffer holds the pieces from the last one   *)
(* decoded to the last one read, and the commands pending are those whose  *)
(* first pieces are every second one from there; the command a sleeping    *)
(* handler has in hand comes before them.                                  *)
InHand(c) == IF at[c] = "sleeping" THEN 1 ELSE 0
Consumed(c) == got[c] - Len(buf[c])
Owes(c) ==
    /\ Len(buf[c]) <= got[c]
    /\ \A i \in 1..Len(buf[c]) : buf[c][i] = written[c][Consumed(c) + i]
    /\ InHand(c) <= Len(pending[c])
    /\ Len(written[c]) =
         Consumed(c) + 2 * (Len(pending[c]) - InHand(c)) + (Len(written[c]) % 2)
    /\ \A i \in 1..Len(pending[c]) - InHand(c) :
         pending[c][InHand(c) + i] = written[c][Consumed(c) + 2 * i - 1][1]
    /\ at[c] = "sleeping" => pending[c][1] = taken[c]
OwesInv == TypeInv /\ \A c \in Conns : at[c] \in {"serving", "sleeping"} => Owes(c)

(* A mode in force is the one last set, and has struck every command taken *)
(* since; a counted one has what is missing to its count left, or is over, *)
(* having struck as often as it should.                                    *)
InForce == mode = tally.mode /\ tally.struck = tally.taken
Counting ==
    /\ tally.count \in Nat \ {0}
    /\ \/ /\ InForce
          /\ remaining \in Nat \ {0} /\ tally.taken + remaining = tally.count
       \/ /\ mode = "normal"
          /\ tally.struck = tally.count /\ tally.taken >= tally.count
TallyInv ==
    /\ TypeInv
    /\ tally \in [mode : Faults \cup {"normal"}, count : Counts \cup {NoCount},
                  taken : Nat, struck : Nat]
    /\ tally.mode = "normal" => mode = "normal" /\ tally.struck = 0 /\ tally.count = NoCount
    /\ tally.mode # "normal" =>
         \/ tally.count = 0
         \/ tally.count = NoCount /\ InForce /\ remaining = NoCount
         \/ Counting

(***************************** type correctness ****************************)
(* The pieces of the handler keep the types of what they assign.           *)
HandlerTypes ==
    /\ at' \in [Conns -> Places]
    /\ link' \in [Conns -> {"up", "fin", "rst", "closed"}]
    /\ pending' \in [Conns -> Seq(Commands)]
    /\ replies' \in [Conns -> Seq([for : Commands, kind : {"success"}])]
    /\ execs' \in [Commands -> Nat]

LEMMA LeaveType ==
    ASSUME StateTypes, NEW c \in Conns, NEW how \in {"fin", "rst"}, Leave(c, how)
    PROVE  /\ HandlerTypes
           /\ at' = [at EXCEPT ![c] = "closed"]
<1>1. <<>> \in Seq(Commands)
  BY EmptySeq
<1>2. pending' \in [Conns -> Seq(Commands)]
  BY <1>1 DEF StateTypes, Leave
<1>3. link' \in [Conns -> {"up", "fin", "rst", "closed"}]
  BY DEF StateTypes, Leave
<1> QED
  BY <1>2, <1>3 DEF StateTypes, Leave, HandlerTypes, Places

(* The commands pending include the one the handler has taken.             *)
LEMMA HandleType ==
    ASSUME StateTypes, NEW c \in Conns, NEW t \in Commands, Handle(c, t),
           pending[c] # <<>>, pending[c][1] = t
    PROVE  /\ HandlerTypes
           /\ \E p \in {"serving", "closed"} : at' = [at EXCEPT ![c] = p]
<1>1. CASE t \in Broken /\ Leave(c, "fin")
  BY <1>1, LeaveType
<1>2. CASE t \notin Broken
  <2>1. Tail(pending[c]) \in Seq(Commands) /\ RemoveFirst(pending[c], t) = Tail(pending[c])
    BY RemoveHead, HeadTailProperties DEF StateTypes
  <2>2. [for |-> t, kind |-> "success"] \in [for : Commands, kind : {"success"}]
    OBVIOUS
  <2>3. Append(replies[c], [for |-> t, kind |-> "success"])
          \in Seq([for : Commands, kind : {"success"}])
    BY <2>2, AppendProperties DEF StateTypes
  <2>4. /\ pending' = [pending EXCEPT ![c] = Tail(pending[c])]
        /\ execs' = [execs EXCEPT ![t] = @ + 1]
    BY <1>2, <2>1 DEF Handle
  <2>5. replies' \in [Conns -> Seq([for : Commands, kind : {"success"}])]
    BY <1>2, <2>3 DEF Handle, Leave, StateTypes
  <2>6. /\ link' \in [Conns -> {"up", "fin", "rst", "closed"}]
        /\ \E p \in {"serving", "closed"} : at' = [at EXCEPT ![c] = p]
    BY <1>2 DEF Handle, StateTypes
  <2>7. at' \in [Conns -> Places]
    BY <2>6 DEF StateTypes, Places
  <2>8. pending' \in [Conns -> Seq(Commands)]
    BY <2>1, <2>4 DEF StateTypes
  <2>9. execs' \in [Commands -> Nat]
    BY <2>4 DEF StateTypes
  <2> QED
    BY <2>5, <2>6, <2>7, <2>8, <2>9 DEF HandlerTypes
<1> QED
  BY <1>1, <1>2 DEF Handle

(* What is left of a buffer when its first command is decoded.             *)
LEMMA RestPlaces ==
    ASSUME NEW S, NEW b \in Seq(S), Len(b) >= 2
    PROVE  /\ Rest(b) \in Seq(S) /\ Len(Rest(b)) = Len(b) - 2
           /\ \A i \in 1..Len(b) - 2 : Rest(b)[i] = b[i + 2]
<1>1. Len(b) \in Nat /\ \A j \in 1..Len(b) : b[j] \in S
  BY ElementOfSeq, LenProperties
<1>2. \A j \in 3..Len(b) : b[j] \in S
  BY <1>1
<1>3. /\ SubSeq(b, 3, Len(b)) \in Seq(S)
      /\ Len(SubSeq(b, 3, Len(b))) = IF 3 <= Len(b) THEN Len(b)-3+1 ELSE 0
      /\ \A j \in 1..Len(b)-3+1 : SubSeq(b, 3, Len(b))[j] = b[3+j-1]
  BY <1>1, <1>2, SubSeqProperties
<1>4. Len(b)-3+1 = Len(b)-2 /\ \A j \in 1..Len(b)-2 : 3+j-1 = j + 2
  BY <1>1
<1> DEFINE r == SubSeq(b, 3, Len(b))
           n == Len(b)
<1>5. r \in Seq(S) /\ n \in Nat /\ n >= 2 /\ Len(r) = IF 3 <= n THEN n-3+1 ELSE 0
  BY <1>1, <1>3
<1> HIDE DEF r, n
<1>6. Len(r) = n - 2
  BY <1>5
<1> QED
  BY <1>3, <1>4, <1>6 DEF Rest, r, n

(* The command decoded is the first of those pending.                      *)
LEMMA DecodesFirst ==
    ASSUME OwesInv, NEW c \in Conns, at[c] = "serving", Decodable(buf[c])
    PROVE  /\ Decoded(buf[c]) \in Commands
           /\ pending[c] # <<>> /\ pending[c][1] = Decoded(buf[c])
<1>1. /\ Owes(c) /\ InHand(c) = 0
      /\ buf[c] \in Seq(Commands \X {1, 2}) /\ pending[c] \in Seq(Commands)
      /\ Len(buf[c]) \in Nat /\ Len(pending[c]) \in Nat /\ Len(written[c]) \in Nat
      /\ got[c] \in Nat /\ got[c] <= Len(written[c]) /\ Len(buf[c]) >= 2
  BY LenProperties DEF OwesInv, TypeInv, StateTypes, InHand, Decodable
<1>2. /\ buf[c][1] \in Commands \X {1, 2}
      /\ buf[c][1] = written[c][Consumed(c) + 1]
  <2>1. 1 \in 1..Len(buf[c])
    BY <1>1
  <2> QED
    BY <1>1, <2>1, ElementOfSeq DEF Owes
<1>3. Len(pending[c]) >= 1
  <2> DEFINE l == Len(written[c])
             p == Len(pending[c])
             b == Len(buf[c])
             g == got[c]
  <2>1. l = (g - b) + 2 * (p - 0) + (l % 2) /\ b <= g
    BY <1>1 DEF Owes, Consumed
  <2>2. l \in Nat /\ p \in Nat /\ b \in Nat /\ g \in Nat /\ g <= l /\ b >= 2
    BY <1>1
  <2> HIDE DEF l, p, b, g
  <2>3. l % 2 <= 1
    BY <2>2
  <2>4. p >= 1
    BY <2>1, <2>2, <2>3
  <2> QED
    BY <2>4 DEF p
<1>4. pending[c][1] = written[c][Consumed(c) + 1][1]
  <2>1. 1 \in 1..Len(pending[c]) - 0 /\ Consumed(c) + 2 * 1 - 1 = Consumed(c) + 1 /\ 0 + 1 = 1
    BY <1>1, <1>3 DEF Consumed
  <2>2. \A i \in 1..Len(pending[c]) - 0 :
          pending[c][0 + i] = written[c][Consumed(c) + 2 * i - 1][1]
    BY <1>1 DEF Owes
  <2>3. pending[c][0 + 1] = written[c][Consumed(c) + 2 * 1 - 1][1]
    BY <2>1, <2>2
  <2> QED
    BY <2>1, <2>3
<1>5. pending[c] # <<>>
  BY <1>1, <1>3
<1> QED
  BY <1>2, <1>4, <1>5 DEF Decoded

(* What becomes of a decoded command.                                      *)
LEMMA ObeyType ==
    ASSUME TypeInv, NEW c \in Conns, NEW t \in Commands, Obey(c, t),
           pending[c] # <<>>, pending[c][1] = t
    PROVE  /\ HandlerTypes
           /\ \/ /\ taken' = taken
                 /\ \E p \in {"serving", "hanging", "closed"} : at' = [at EXCEPT ![c] = p]
              \/ /\ at' = [at EXCEPT ![c] = "sleeping"]
                 /\ taken' = [taken EXCEPT ![c] = t]
<1>1. StateTypes
  BY DEF TypeInv
<1>2. CASE mode = "reset" /\ Leave(c, "rst") /\ UNCHANGED taken
  BY <1>1, <1>2, LeaveType
<1>3. CASE mode = "drop" /\ Leave(c, "fin") /\ UNCHANGED taken
  BY <1>1, <1>3, LeaveType
<1>4. CASE mode = "normal" /\ ~delay /\ Handle(c, t) /\ UNCHANGED taken
  BY <1>1, <1>4, HandleType
<1>5. CASE /\ mode = "hang"
           /\ at' = [at EXCEPT ![c] = "hanging"]
           /\ UNCHANGED <<taken, link, replies, execs, pending>>
  BY <1>1, <1>5 DEF StateTypes, HandlerTypes, Places
<1>6. CASE /\ mode = "normal" /\ delay
           /\ at' = [at EXCEPT ![c] = "sleeping"]
           /\ taken' = [taken EXCEPT ![c] = t]
           /\ UNCHANGED <<link, replies, execs, pending>>
  BY <1>1, <1>6 DEF StateTypes, HandlerTypes, Places
<1> QED
  BY <1>2, <1>3, <1>4, <1>5, <1>6 DEF Obey

(* The parts of the specification by who takes the step.                   *)
ConnStep(c) ==
    (\E t \in Commands : SendsPart(c, t)) \/ HangsUp(c) \/ Handler(c) \/ Cancelled(c)
PortStep ==
    \/ SetMode("normal", NoCount)
    \/ \E m \in Faults, n \in Counts \cup {NoCount} : SetMode(m, n)
    \/ \E d \in BOOLEAN : SetDelay(d)

LEMMA StepOfOne == Next <=> (\E c \in Conns : ConnStep(c)) \/ PortStep
BY DEF Next, ConnStep, PortStep

(* The two pieces a command is sent in.                                    *)
LEMMA PieceType ==
    ASSUME NEW t \in Commands, NEW n \in Nat
    PROVE  /\ Pieces(t)[1 + (n % 2)] \in Commands \X {1, 2}
           /\ Pieces(t)[1 + (n % 2)][1] = t
<1>1. n % 2 = 0 \/ n % 2 = 1
  OBVIOUS
<1>2. CASE n % 2 = 0
  BY <1>2 DEF Pieces
<1>3. CASE n % 2 = 1
  BY <1>3 DEF Pieces
<1> QED
  BY <1>1, <1>2, <1>3

(* Every step keeps the types, because the command a handler has taken is  *)
(* among those pending.                                                    *)
LEMMA SendsType ==
    ASSUME TypeInv, NEW c \in Conns, NEW t \in Commands, SendsPart(c, t)
    PROVE  TypeInv'
<1> DEFINE piece == Pieces(t)[1 + (Len(written[c]) % 2)]
<1>1. /\ written[c] \in Seq(Commands \X {1, 2}) /\ Len(written[c]) \in Nat
      /\ piece \in Commands \X {1, 2}
  BY LenProperties, PieceType DEF TypeInv, StateTypes
<1>2. /\ Append(written[c], piece) \in Seq(Commands \X {1, 2})
      /\ Len(Append(written[c], piece)) = Len(written[c]) + 1
  <2> DEFINE S == Commands \X {1, 2}
             w == written[c]
  <2>1. w \in Seq(S) /\ piece \in S
    BY <1>1
  <2> HIDE DEF S, w, piece
  <2>2. Append(w, piece) \in Seq(S) /\ Len(Append(w, piece)) = Len(w) + 1
    BY <2>1, AppendProperties
  <2> QED
    BY <2>2 DEF S, w
<1>3. /\ written' = [written EXCEPT ![c] = Append(written[c], piece)]
      /\ pending' = [pending EXCEPT ![c] =
                       IF MidCommand(written[c]) THEN Append(pending[c], t) ELSE pending[c]]
      /\ UNCHANGED <<got, buf, at, taken, link, replies, execs, mode, remaining, delay>>
  BY DEF SendsPart, failures
<1> HIDE DEF piece
<1>4. written' \in [Conns -> Seq(Commands \X {1, 2})]
  BY <1>2, <1>3 DEF TypeInv, StateTypes
<1>5. pending' \in [Conns -> Seq(Commands)]
  <2>1. pending[c] \in Seq(Commands) /\ Append(pending[c], t) \in Seq(Commands)
    BY AppendProperties DEF TypeInv, StateTypes
  <2> QED
    BY <1>3, <2>1 DEF TypeInv, StateTypes
<1>6. \A d \in Conns : got'[d] <= Len(written'[d])
  <2>1. ASSUME NEW d \in Conns
        PROVE  got'[d] <= Len(written'[d])
    <3>1. CASE d = c
      <4>1. got[c] \in Nat /\ got[c] <= Len(written[c]) /\ got'[c] = got[c]
            /\ written'[c] = Append(written[c], piece)
        BY <1>3 DEF TypeInv, StateTypes
      <4> QED
        BY <1>1, <1>2, <3>1, <4>1
    <3>2. CASE d # c
      BY <1>3, <3>2 DEF TypeInv, StateTypes
    <3> QED
      BY <3>1, <3>2
  <2> QED
    BY <2>1
<1> QED
  BY <1>3, <1>4, <1>5, <1>6 DEF TypeInv, StateTypes

(* Reading joins what has arrived to the buffer.                           *)
Unread(c) == SubSeq(written[c], got[c] + 1, Len(written[c]))
LEMMA UnreadPlaces ==
    ASSUME NEW S, NEW w \in Seq(S), NEW g \in Nat, g <= Len(w)
    PROVE  /\ SubSeq(w, g + 1, Len(w)) \in Seq(S)
           /\ Len(SubSeq(w, g + 1, Len(w))) = Len(w) - g
           /\ \A i \in 1..Len(w) - g : SubSeq(w, g + 1, Len(w))[i] = w[g + i]
<1>1. Len(w) \in Nat /\ \A j \in 1..Len(w) : w[j] \in S
  BY ElementOfSeq, LenProperties
<1>2. \A j \in g+1..Len(w) : w[j] \in S
  BY <1>1
<1> DEFINE r == SubSeq(w, g + 1, Len(w))
           n == Len(w)
<1>3. /\ r \in Seq(S)
      /\ Len(r) = IF g+1 <= n THEN n-(g+1)+1 ELSE 0
      /\ \A j \in 1..n-(g+1)+1 : r[j] = w[(g+1)+j-1]
  BY <1>1, <1>2, SubSeqProperties
<1>4. n \in Nat /\ g <= n
  BY <1>1
<1> HIDE DEF r, n
<1>5. Len(r) = n - g /\ n-(g+1)+1 = n - g /\ \A j \in 1..n-g : (g+1)+j-1 = g + j
  BY <1>3, <1>4
<1> QED
  BY <1>3, <1>5 DEF r, n

LEMMA ReadsType ==
    ASSUME TypeInv, NEW c \in Conns, Reads(c)
    PROVE  /\ buf' \in [Conns -> Seq(Commands \X {1, 2})]
           /\ got' = [got EXCEPT ![c] = Len(written[c])]
           /\ got' \in [Conns -> Nat]
           /\ at[c] = "serving" =>
                /\ Len(buf'[c]) = Len(buf[c]) + (Len(written[c]) - got[c])
                /\ \A i \in 1..Len(buf[c]) : buf'[c][i] = buf[c][i]
                /\ \A i \in 1..Len(written[c]) - got[c] :
                     buf'[c][Len(buf[c]) + i] = written[c][got[c] + i]
<1> DEFINE S == Commands \X {1, 2}
           w == written[c]
           b == buf[c]
           r == Unread(c)
           g == got[c]
<1>1. w \in Seq(S) /\ b \in Seq(S) /\ g \in Nat /\ g <= Len(w)
  BY DEF TypeInv, StateTypes
<1>2. r = SubSeq(w, g + 1, Len(w))
  BY DEF Unread
<1>3. /\ got' = [got EXCEPT ![c] = Len(w)]
      /\ at[c] = "serving" => buf' = [buf EXCEPT ![c] = b \o r]
      /\ at[c] # "serving" => buf' = buf
  BY DEF Reads, Unread
<1>4. buf \in [Conns -> Seq(S)] /\ got \in [Conns -> Nat]
  BY DEF TypeInv, StateTypes
<1> HIDE DEF S, w, b, r, g
<1>5. r \in Seq(S) /\ Len(r) = Len(w) - g /\ \A i \in 1..Len(w) - g : r[i] = w[g + i]
  BY <1>1, <1>2, UnreadPlaces
<1>6. /\ b \o r \in Seq(S) /\ Len(b \o r) = Len(b) + Len(r)
      /\ \A i \in 1..Len(b) + Len(r) :
           (b \o r)[i] = IF i <= Len(b) THEN b[i] ELSE r[i - Len(b)]
  BY <1>1, <1>5, ConcatProperties
<1>7. Len(w) \in Nat /\ Len(b) \in Nat
  BY <1>1, LenProperties
<1>8. \A i \in 1..Len(b) : (b \o r)[i] = b[i]
  BY <1>1, <1>5, <1>6, <1>7
<1>9. \A i \in 1..Len(w) - g : (b \o r)[Len(b) + i] = w[g + i]
  <2>1. ASSUME NEW i \in 1..Len(w) - g
        PROVE  (b \o r)[Len(b) + i] = w[g + i]
    <3>1. /\ Len(b) + i \in 1..Len(b) + Len(r) /\ ~(Len(b) + i <= Len(b))
          /\ (Len(b) + i) - Len(b) = i
      BY <1>1, <1>5, <1>7
    <3> QED
      BY <1>5, <1>6, <3>1
  <2> QED
    BY <2>1
<1>10. buf' \in [Conns -> Seq(S)]
  BY <1>3, <1>4, <1>6
<1>11. got' \in [Conns -> Nat]
  BY <1>3, <1>4, <1>7
<1>12. at[c] = "serving" => buf'[c] = b \o r
  BY <1>3, <1>4
<1> QED
  BY <1>3, <1>5, <1>6, <1>8, <1>9, <1>10, <1>11, <1>12 DEF S, w, b, g

LEMMA HandlerStepType ==
    ASSUME OwesInv, NEW c \in Conns, Handler(c) \/ HangsUp(c) \/ Cancelled(c)
    PROVE  TypeInv'
<1>1. TypeInv /\ StateTypes
  BY DEF OwesInv, TypeInv
<1>2. CASE TakeCommand(c)
  <2> DEFINE t == Decoded(buf[c])
  <2>1. t \in Commands /\ pending[c] # <<>> /\ pending[c][1] = t /\ Obey(c, t)
    BY <1>2, DecodesFirst DEF TakeCommand
  <2> HIDE DEF t
  <2>2. /\ HandlerTypes
        /\ \/ /\ taken' = taken
              /\ \E p \in {"serving", "hanging", "closed"} : at' = [at EXCEPT ![c] = p]
           \/ /\ at' = [at EXCEPT ![c] = "sleeping"]
              /\ taken' = [taken EXCEPT ![c] = t]
    BY <1>1, <2>1, ObeyType
  <2>3. /\ at[c] = "serving"
        /\ buf' = [buf EXCEPT ![c] = Rest(buf[c])]
        /\ CountDown /\ UNCHANGED <<written, got, delay>>
    BY <1>2 DEF TakeCommand
  <2>4. buf' \in [Conns -> Seq(Commands \X {1, 2})]
    <3>1. buf[c] \in Seq(Commands \X {1, 2}) /\ Len(buf[c]) >= 2
      BY <1>1, <1>2 DEF StateTypes, TakeCommand, Decodable
    <3>2. Rest(buf[c]) \in Seq(Commands \X {1, 2})
      BY <3>1, RestPlaces
    <3> QED
      BY <1>1, <2>3, <3>2 DEF StateTypes
  <2>5. /\ taken' \in [Conns -> Commands \cup {NoCommand}]
        /\ \A d \in Conns : taken'[d] # NoCommand <=> at'[d] = "sleeping"
    BY <1>1, <2>1, <2>2, <2>3, FakeLampAssumption DEF TypeInv, StateTypes
  <2>6. /\ mode' \in Faults \cup {"normal"} /\ remaining' \in Nat \cup {NoCount}
        /\ mode' = "normal" => remaining' = NoCount
    BY <1>1, <2>3 DEF TypeInv, StateTypes, CountDown, LastOfCount
  <2> QED
    BY <1>1, <2>2, <2>3, <2>4, <2>5, <2>6 DEF TypeInv, StateTypes, HandlerTypes
<1>3. CASE Wakes(c)
  <2> DEFINE t == taken[c]
  <2>1. /\ t \in Commands /\ pending[c] # <<>> /\ pending[c][1] = t /\ Handle(c, t)
    <3>1. t \in Commands /\ at[c] = "sleeping" /\ Handle(c, t)
      BY <1>1, <1>3 DEF TypeInv, StateTypes, Wakes
    <3>2. 1 <= Len(pending[c]) /\ pending[c][1] = t
      BY <3>1 DEF OwesInv, Owes, InHand
    <3> QED
      BY <3>1, <3>2
  <2> HIDE DEF t
  <2>2. /\ HandlerTypes
        /\ \E p \in {"serving", "closed"} : at' = [at EXCEPT ![c] = p]
    BY <1>1, <2>1, HandleType
  <2>3. /\ taken' = [taken EXCEPT ![c] = NoCommand]
        /\ UNCHANGED <<written, got, buf, mode, remaining, delay>>
    BY <1>3 DEF Wakes, failures
  <2>4. /\ taken' \in [Conns -> Commands \cup {NoCommand}]
        /\ \A d \in Conns : taken'[d] # NoCommand <=> at'[d] = "sleeping"
    BY <1>1, <2>2, <2>3 DEF TypeInv, StateTypes
  <2> QED
    BY <1>1, <2>2, <2>3, <2>4 DEF TypeInv, StateTypes, HandlerTypes
<1>4. CASE Reads(c)
  <2>1. /\ buf' \in [Conns -> Seq(Commands \X {1, 2})]
        /\ got' \in [Conns -> Nat] /\ got' = [got EXCEPT ![c] = Len(written[c])]
    BY <1>1, <1>4, ReadsType
  <2>2. UNCHANGED <<written, at, taken, link, replies, execs, pending, mode, remaining, delay>>
    BY <1>4 DEF Reads, failures
  <2>3. \A d \in Conns : got'[d] <= Len(written'[d])
    <3>1. \A d \in Conns : got'[d] = Len(written[d]) \/ got'[d] = got[d]
      BY <1>1, <2>1 DEF StateTypes
    <3>2. \A d \in Conns : Len(written[d]) \in Nat
      BY <1>1, LenProperties DEF StateTypes
    <3> QED
      BY <1>1, <2>2, <3>1, <3>2 DEF TypeInv
  <2> QED
    BY <1>1, <2>1, <2>2, <2>3 DEF TypeInv, StateTypes
<1>5. CASE SeesDeparture(c) \/ Cancelled(c)
  <2>1. /\ Leave(c, "fin") /\ at[c] # "closed"
        /\ UNCHANGED <<written, got, buf, mode, remaining, delay>>
        /\ \/ taken' = taken /\ at[c] # "sleeping"
           \/ taken' = [taken EXCEPT ![c] = NoCommand]
    BY <1>5 DEF SeesDeparture, Cancelled, failures
  <2>2. HandlerTypes /\ at' = [at EXCEPT ![c] = "closed"]
    BY <1>1, <2>1, LeaveType
  <2>3. /\ taken' \in [Conns -> Commands \cup {NoCommand}]
        /\ \A d \in Conns : taken'[d] # NoCommand <=> at'[d] = "sleeping"
    BY <1>1, <2>1, <2>2 DEF TypeInv, StateTypes
  <2> QED
    BY <1>1, <2>1, <2>2, <2>3 DEF TypeInv, StateTypes, HandlerTypes
<1>6. CASE HangsUp(c)
  BY <1>1, <1>6 DEF HangsUp, TypeInv, StateTypes, failures
<1> QED
  BY <1>2, <1>3, <1>4, <1>5, <1>6 DEF Handler

(*************************** the commands pending **************************)
(* A step on one connection leaves what the others have as it is.          *)
LEMMA OthersUntouched ==
    ASSUME TypeInv, NEW c \in Conns, NEW d \in Conns \ {c}, ConnStep(c)
    PROVE  /\ written'[d] = written[d] /\ got'[d] = got[d] /\ buf'[d] = buf[d]
           /\ at'[d] = at[d] /\ taken'[d] = taken[d] /\ pending'[d] = pending[d]
<1>1. StateTypes
  BY DEF TypeInv
<1>2. \A how \in {"fin", "rst"} : Leave(c, how) => at'[d] = at[d] /\ pending'[d] = pending[d]
  BY <1>1 DEF Leave, StateTypes
<1>3. \A t \in Commands : Handle(c, t) => at'[d] = at[d] /\ pending'[d] = pending[d]
  BY <1>1, <1>2 DEF Handle, StateTypes
<1>4. CASE \E t \in Commands : SendsPart(c, t)
  BY <1>1, <1>4 DEF SendsPart, StateTypes
<1>5. CASE HangsUp(c) \/ Reads(c)
  BY <1>1, <1>5 DEF HangsUp, Reads, StateTypes
<1>6. CASE TakeCommand(c)
  <2>1. /\ Obey(c, Decoded(buf[c]))
        /\ buf' = [buf EXCEPT ![c] = Rest(@)] /\ UNCHANGED <<written, got>>
    BY <1>6 DEF TakeCommand
  <2>2. \A t : Obey(c, t) =>
                 taken'[d] = taken[d] /\ at'[d] = at[d] /\ pending'[d] = pending[d]
    BY <1>1, <1>2 DEF Obey, Handle, Leave, StateTypes
  <2> QED
    BY <1>1, <2>1, <2>2 DEF StateTypes
<1>7. CASE Wakes(c)
  <2>1. /\ Handle(c, taken[c]) /\ taken[c] \in Commands
        /\ taken' = [taken EXCEPT ![c] = NoCommand] /\ UNCHANGED <<written, got, buf>>
    BY <1>1, <1>7 DEF Wakes, TypeInv, StateTypes
  <2> QED
    BY <1>1, <1>3, <2>1 DEF StateTypes
<1>8. CASE SeesDeparture(c) \/ Cancelled(c)
  BY <1>1, <1>2, <1>8 DEF SeesDeparture, Cancelled, StateTypes
<1> QED
  BY <1>4, <1>5, <1>6, <1>7, <1>8 DEF ConnStep, Handler

(* Every second piece ends a command.                                      *)
LEMMA EverySecondPiece ==
    ASSUME NEW l \in Nat, NEW n \in Nat, NEW q \in Nat, l = n + 2 * q + (l % 2)
    PROVE  /\ l % 2 = 1 => /\ (l + 1) % 2 = 0 /\ l >= 1
                           /\ l + 1 = n + 2 * (q + 1) + 0 /\ n + 2 * (q + 1) - 1 = l
           /\ l % 2 # 1 => /\ (l + 1) % 2 = 1
                           /\ l + 1 = n + 2 * q + 1
<1>1. l % 2 \in {0, 1} /\ (l + 1) % 2 = 1 - (l % 2)
  OBVIOUS
<1>2. CASE l % 2 = 1
  BY <1>1, <1>2
<1>3. CASE l % 2 = 0
  BY <1>1, <1>3
<1> QED
  BY <1>1, <1>2, <1>3

(* Sending the second piece of a command makes it pending.                 *)
LEMMA SendsOwes ==
    ASSUME OwesInv, NEW c \in Conns, NEW t \in Commands, SendsPart(c, t), Owes(c)
    PROVE  Owes(c)'
<1> DEFINE S == Commands \X {1, 2}
           piece == Pieces(t)[1 + (Len(written[c]) % 2)]
           w == written[c]
           w2 == written'[c]
           p == pending[c]
           p2 == pending'[c]
           b == buf[c]
           g == got[c]
           k == InHand(c)
           n == g - Len(b)
<1>1. /\ w \in Seq(S) /\ p \in Seq(Commands) /\ b \in Seq(S) /\ g \in Nat /\ g <= Len(w)
      /\ k \in {0, 1}
  BY DEF OwesInv, TypeInv, StateTypes, InHand
<1>2. /\ w2 = Append(w, piece)
      /\ MidCommand(w) => p2 = Append(p, t) /\ Last(w)[1] = t
      /\ ~MidCommand(w) => p2 = p
      /\ got'[c] = g /\ buf'[c] = b /\ InHand(c)' = k /\ taken'[c] = taken[c]
      /\ at'[c] = at[c]
  BY DEF OwesInv, TypeInv, StateTypes, SendsPart, InHand
<1>3. piece \in S
  BY <1>1, LenProperties, PieceType
<1>4. /\ Len(b) <= g
      /\ \A i \in 1..Len(b) : b[i] = w[n + i]
      /\ k <= Len(p)
      /\ Len(w) = n + 2 * (Len(p) - k) + (Len(w) % 2)
      /\ \A i \in 1..Len(p) - k : p[k + i] = w[n + 2 * i - 1][1]
      /\ at[c] = "sleeping" => k = 1 /\ p[1] = taken[c]
  BY DEF Owes, Consumed, InHand
<1> HIDE DEF S, piece, w, w2, p, p2, b, g, k
<1>5. /\ w2 \in Seq(S) /\ Len(w2) = Len(w) + 1 /\ \A i \in 1..Len(w) : w2[i] = w[i]
      /\ Len(w) \in Nat /\ Len(p) \in Nat /\ Len(b) \in Nat /\ n \in Nat
  BY <1>1, <1>2, <1>3, <1>4, AppendProperties, LenProperties
<1>6. /\ Len(Append(p, t)) = Len(p) + 1 /\ \A i \in 1..Len(p) : Append(p, t)[i] = p[i]
      /\ Append(p, t)[Len(p) + 1] = t
  BY <1>1, AppendProperties
<1> HIDE DEF n
<1>7. \A i \in 1..Len(b) : b[i] = w2[n + i]
  <2>1. \A i \in 1..Len(b) : n + i \in 1..Len(w)
    BY <1>1, <1>4, <1>5 DEF n
  <2> QED
    BY <1>4, <1>5, <2>1
<1>8. \A i \in 1..Len(p) - k : p[k + i] = w2[n + 2 * i - 1][1]
  <2>1. \A i \in 1..Len(p) - k : n + 2 * i - 1 \in 1..Len(w)
    BY <1>1, <1>4, <1>5
  <2> QED
    BY <1>4, <1>5, <2>1
<1> DEFINE l == Len(w)
           q == Len(p) - k
<1>9. /\ l \in Nat /\ n \in Nat /\ q \in Nat /\ l = n + 2 * q + (l % 2)
      /\ k + q = Len(p) /\ Len(w2) = l + 1
  BY <1>1, <1>4, <1>5
<1> HIDE DEF l, q
<1>10. /\ l % 2 = 1 => /\ (l + 1) % 2 = 0 /\ l >= 1
                       /\ l + 1 = n + 2 * (q + 1) + 0 /\ n + 2 * (q + 1) - 1 = l
       /\ l % 2 # 1 => /\ (l + 1) % 2 = 1
                       /\ l + 1 = n + 2 * q + 1
  BY <1>9, EverySecondPiece
<1>11. CASE MidCommand(w)
  <2>1. l % 2 = 1 /\ p2 = Append(p, t) /\ w[l][1] = t
    BY <1>2, <1>11 DEF MidCommand, Last, l
  <2>2. Len(p2) = Len(p) + 1 /\ Len(p2) - k = q + 1
    BY <1>1, <1>5, <1>6, <2>1 DEF q
  <2>3. Len(w2) = n + 2 * (Len(p2) - k) + (Len(w2) % 2)
    BY <1>9, <1>10, <2>1, <2>2
  <2>4. ASSUME NEW i \in 1..Len(p2) - k
        PROVE  p2[k + i] = w2[n + 2 * i - 1][1]
    <3>1. CASE i <= q
      <4>1. i \in 1..Len(p) - k /\ k + i \in 1..Len(p)
        BY <1>1, <1>5, <1>9, <3>1 DEF q
      <4> QED
        BY <1>6, <1>8, <2>1, <4>1
    <3>2. CASE i = q + 1
      <4>1. k + i = Len(p) + 1
        BY <1>1, <1>5, <1>9, <3>2
      <4>2. n + 2 * i - 1 = l /\ l \in 1..l
        BY <1>9, <1>10, <2>1, <3>2
      <4>3. p2[k + i] = t
        BY <1>6, <2>1, <4>1
      <4>4. w2[n + 2 * i - 1] = w[l]
        BY <1>5, <4>2 DEF l
      <4> QED
        BY <2>1, <4>3, <4>4
    <3>3. i <= q \/ i = q + 1
      BY <1>9, <2>2
    <3> QED
      BY <3>1, <3>2, <3>3
  <2>5. k <= Len(p2)
    BY <1>1, <1>4, <1>5, <2>2
  <2>6. at[c] = "sleeping" => p2[1] = taken[c]
    <3>1. at[c] = "sleeping" => 1 \in 1..Len(p)
      BY <1>4, <1>5
    <3> QED
      BY <1>4, <1>6, <2>1, <3>1
  <2> QED
    BY <1>2, <1>4, <1>7, <2>3, <2>4, <2>5, <2>6
    DEF Owes, Consumed, w, w2, p, p2, b, g, k, n
<1>12. CASE ~MidCommand(w)
  <2>1. l % 2 # 1
    BY <1>12 DEF MidCommand, l
  <2>2. Len(w2) = n + 2 * (Len(p) - k) + (Len(w2) % 2)
    BY <1>9, <1>10, <2>1 DEF q
  <2> QED
    BY <1>2, <1>4, <1>7, <1>8, <1>12, <2>2 DEF Owes, Consumed, w, w2, p, p2, b, g, k, n
<1> QED
  BY <1>11, <1>12

(* Reading leaves the first piece not decoded where it is.                 *)
LEMMA ReadsOwes ==
    ASSUME OwesInv, NEW c \in Conns, Reads(c), at[c] = "serving", Owes(c)
    PROVE  Owes(c)'
<1> DEFINE w == written[c]
           b == buf[c]
           b2 == buf'[c]
           g == got[c]
           n == g - Len(b)
<1>1. /\ w \in Seq(Commands \X {1, 2}) /\ b \in Seq(Commands \X {1, 2})
      /\ g \in Nat /\ g <= Len(w)
  BY DEF OwesInv, TypeInv, StateTypes
<1>2. /\ got'[c] = Len(w)
      /\ Len(b2) = Len(b) + (Len(w) - g)
      /\ \A i \in 1..Len(b) : b2[i] = b[i]
      /\ \A i \in 1..Len(w) - g : b2[Len(b) + i] = w[g + i]
  BY ReadsType DEF OwesInv, TypeInv, StateTypes
<1>3. /\ written'[c] = w /\ pending'[c] = pending[c] /\ InHand(c)' = InHand(c)
      /\ at'[c] = at[c] /\ taken'[c] = taken[c]
  BY DEF Reads, InHand
<1>4. /\ Len(b) <= g
      /\ \A i \in 1..Len(b) : b[i] = w[n + i]
      /\ InHand(c) <= Len(pending[c])
      /\ Len(w) = n + 2 * (Len(pending[c]) - InHand(c)) + (Len(w) % 2)
      /\ \A i \in 1..Len(pending[c]) - InHand(c) :
           pending[c][InHand(c) + i] = w[n + 2 * i - 1][1]
      /\ at[c] = "sleeping" => pending[c][1] = taken[c]
  BY DEF Owes, Consumed
<1> HIDE DEF w, b, b2, g
<1>5. Len(w) \in Nat /\ Len(b) \in Nat
  BY <1>1, LenProperties
<1>6. Len(w) - Len(b2) = n /\ Len(b2) <= Len(w)
  BY <1>1, <1>2, <1>4, <1>5
<1>7. ASSUME NEW i \in 1..Len(b2)
      PROVE  b2[i] = w[n + i]
  <2>1. CASE i <= Len(b)
    BY <1>2, <1>4, <1>5, <2>1
  <2>2. CASE i > Len(b)
    <3>1. /\ i - Len(b) \in 1..Len(w) - g /\ Len(b) + (i - Len(b)) = i
          /\ g + (i - Len(b)) = n + i
      BY <1>1, <1>2, <1>4, <1>5, <2>2
    <3> QED
      BY <1>2, <3>1
  <2>3. i <= Len(b) \/ i > Len(b)
    BY <1>5
  <2> QED
    BY <2>1, <2>2, <2>3
<1> HIDE DEF n
<1> QED
  BY <1>2, <1>3, <1>4, <1>6, <1>7 DEF Owes, Consumed, w, b2

(* What the handler may do with a command it takes.                        *)
LEMMA ObeyMoves ==
    ASSUME StateTypes, NEW c \in Conns, NEW t, Obey(c, t),
           pending[c] # <<>>, pending[c][1] = t
    PROVE  \/ at'[c] \in {"hanging", "closed"}
           \/ at'[c] = "serving" /\ pending'[c] = Tail(pending[c])
           \/ at'[c] = "sleeping" /\ pending'[c] = pending[c] /\ taken'[c] = t
<1>1. RemoveFirst(pending[c], t) = Tail(pending[c])
  BY RemoveHead DEF StateTypes
<1> QED
  BY <1>1 DEF Obey, Handle, Leave, StateTypes

(* Decoding takes two pieces, of the first command pending.                *)
LEMMA TakesOwes ==
    ASSUME OwesInv, NEW c \in Conns, TakeCommand(c), Owes(c),
           at'[c] \in {"serving", "sleeping"}
    PROVE  Owes(c)'
<1> DEFINE w == written[c]
           p == pending[c]
           p2 == pending'[c]
           b == buf[c]
           b2 == buf'[c]
           g == got[c]
           n == g - Len(b)
           t == Decoded(b)
<1>1. /\ w \in Seq(Commands \X {1, 2}) /\ b \in Seq(Commands \X {1, 2})
      /\ p \in Seq(Commands) /\ g \in Nat /\ g <= Len(w)
  BY DEF OwesInv, TypeInv, StateTypes
<1>2. /\ at[c] = "serving" /\ Len(b) >= 2 /\ b2 = Rest(b)
      /\ got'[c] = g /\ written'[c] = w /\ Obey(c, t)
  BY DEF TakeCommand, Decodable, OwesInv, TypeInv, StateTypes
<1>3. p # <<>> /\ p[1] = t
  BY <1>2, DecodesFirst DEF TakeCommand
<1>4. \/ at'[c] = "serving" /\ p2 = Tail(p)
      \/ at'[c] = "sleeping" /\ p2 = p /\ taken'[c] = t
  BY <1>2, <1>3, ObeyMoves DEF OwesInv, TypeInv
<1>5. /\ Len(b) <= g
      /\ \A i \in 1..Len(b) : b[i] = w[n + i]
      /\ Len(w) = n + 2 * (Len(p) - 0) + (Len(w) % 2)
      /\ \A i \in 1..Len(p) - 0 : p[0 + i] = w[n + 2 * i - 1][1]
  BY <1>2 DEF Owes, Consumed, InHand
<1> HIDE DEF w, p, p2, b, b2, g, t
<1>6. /\ Len(b2) = Len(b) - 2 /\ \A i \in 1..Len(b) - 2 : b2[i] = b[i + 2]
      /\ Len(w) \in Nat /\ Len(b) \in Nat /\ Len(p) \in Nat \ {0} /\ n \in Nat
  <2>1. Len(b2) = Len(b) - 2 /\ \A i \in 1..Len(b) - 2 : b2[i] = b[i + 2]
    BY <1>1, <1>2, RestPlaces
  <2>2. Len(w) \in Nat /\ Len(b) \in Nat
    BY <1>1, LenProperties
  <2>3. Len(p) \in Nat \ {0}
    BY <1>1, <1>3, EmptySeq
  <2>4. n \in Nat
    BY <1>1, <1>5, <2>2
  <2> QED
    BY <2>1, <2>2, <2>3, <2>4
<1>7. g - Len(b2) = n + 2 /\ Len(b2) <= g
  BY <1>1, <1>5, <1>6
<1> HIDE DEF n
<1>8. ASSUME NEW i \in 1..Len(b2)
      PROVE  b2[i] = w[(n + 2) + i]
  <2>1. i \in 1..Len(b) - 2 /\ i + 2 \in 1..Len(b) /\ n + (i + 2) = (n + 2) + i
    BY <1>6
  <2> QED
    BY <1>5, <1>6, <2>1
<1>9. Len(w) = (n + 2) + 2 * (Len(p) - 1) + (Len(w) % 2)
  BY <1>5, <1>6
<1>10. ASSUME NEW i \in 1..Len(p) - 1
       PROVE  p[i + 1] = w[(n + 2) + 2 * i - 1][1]
  <2>1. /\ i + 1 \in 1..Len(p) - 0 /\ 0 + (i + 1) = i + 1
        /\ n + 2 * (i + 1) - 1 = (n + 2) + 2 * i - 1
    BY <1>6
  <2> QED
    BY <1>5, <2>1
<1>11. CASE at'[c] = "serving" /\ p2 = Tail(p)
  <2>1. Len(p2) - 0 = Len(p) - 1 /\ \A i \in 1..Len(p) - 1 : p2[0 + i] = p[i + 1]
    BY <1>1, <1>3, <1>6, <1>11, HeadTailProperties
  <2>2. InHand(c)' = 0 /\ 0 <= Len(p2)
    BY <1>6, <1>11, <2>1 DEF InHand
  <2>3. \A i \in 1..Len(p2) - 0 : p2[0 + i] = w[(n + 2) + 2 * i - 1][1]
    BY <1>10, <2>1
  <2>4. Len(w) = (n + 2) + 2 * (Len(p2) - 0) + (Len(w) % 2)
    BY <1>9, <2>1
  <2>5. Consumed(c)' = n + 2 /\ got'[c] = g /\ written'[c] = w
    BY <1>2, <1>7 DEF Consumed, b2
  <2> QED
    BY <1>7, <1>8, <1>11, <2>2, <2>3, <2>4, <2>5 DEF Owes, p2, b2
<1>12. CASE at'[c] = "sleeping" /\ p2 = p /\ taken'[c] = t
  <2>1. InHand(c)' = 1 /\ 1 <= Len(p2) /\ p2[1] = taken'[c]
    BY <1>3, <1>6, <1>12 DEF InHand
  <2>2. \A i \in 1..Len(p2) - 1 : p2[1 + i] = w[(n + 2) + 2 * i - 1][1]
    <3>1. \A i \in 1..Len(p) - 1 : 1 + i = i + 1
      BY <1>6
    <3> QED
      BY <1>10, <1>12, <3>1
  <2> QED
    BY <1>2, <1>7, <1>8, <1>9, <1>12, <2>1, <2>2 DEF Owes, Consumed, w, p2, b2, g
<1> QED
  BY <1>4, <1>11, <1>12

(* A handler that wakes up has executed the first of those pending.        *)
LEMMA WakesOwes ==
    ASSUME OwesInv, NEW c \in Conns, Wakes(c), Owes(c), at'[c] \in {"serving", "sleeping"}
    PROVE  Owes(c)'
<1> DEFINE w == written[c]
           p == pending[c]
           p2 == pending'[c]
           b == buf[c]
           n == got[c] - Len(b)
<1>1. p \in Seq(Commands) /\ at[c] = "sleeping" /\ InHand(c) = 1 /\ Handle(c, taken[c])
  BY DEF OwesInv, TypeInv, StateTypes, Wakes, InHand
<1>2. /\ Len(b) <= got[c] /\ \A i \in 1..Len(b) : b[i] = w[n + i]
      /\ 1 <= Len(p) /\ p[1] = taken[c]
      /\ Len(w) = n + 2 * (Len(p) - 1) + (Len(w) % 2)
      /\ \A i \in 1..Len(p) - 1 : p[1 + i] = w[n + 2 * i - 1][1]
  BY <1>1 DEF Owes, Consumed
<1>3. Len(p) \in Nat /\ p # <<>>
  BY <1>1, <1>2, LenProperties
<1>4. RemoveFirst(p, taken[c]) = Tail(p)
  BY <1>1, <1>2, <1>3, RemoveHead
<1>5. at'[c] = "serving" /\ p2 = Tail(p)
  BY <1>1, <1>4 DEF Handle, Leave, OwesInv, TypeInv, StateTypes
<1>6. got'[c] = got[c] /\ written'[c] = w /\ buf'[c] = b
  BY DEF Wakes
<1> HIDE DEF w, p, p2, b, n
<1>7. Len(p2) - 0 = Len(p) - 1 /\ \A i \in 1..Len(p) - 1 : p2[0 + i] = p[1 + i]
  <2>1. Len(p2) = Len(p) - 1 /\ \A i \in 1..Len(p2) : p2[i] = p[i + 1]
    BY <1>1, <1>3, <1>5, HeadTailProperties
  <2> QED
    BY <1>3, <2>1
<1>8. InHand(c)' = 0 /\ 0 <= Len(p2)
  BY <1>2, <1>3, <1>5, <1>7, HeadTailProperties, LenProperties DEF InHand
<1>9. /\ Len(w) = n + 2 * (Len(p2) - 0) + (Len(w) % 2)
      /\ \A i \in 1..Len(p2) - 0 : p2[0 + i] = w[n + 2 * i - 1][1]
  BY <1>2, <1>7
<1>10. Consumed(c)' = n
  BY <1>6 DEF Consumed, n, b
<1>11. /\ Len(b) <= got'[c] /\ \A i \in 1..Len(b) : b[i] = w[Consumed(c)' + i]
  BY <1>2, <1>6, <1>10
<1> QED
  BY <1>5, <1>6, <1>8, <1>9, <1>10, <1>11 DEF Owes, w, p2, b

(* The step of the whole system.                                           *)
LEMMA OwesKept ==
    ASSUME NEW d \in Conns, Owes(d),
           written'[d] = written[d], got'[d] = got[d], buf'[d] = buf[d],
           at'[d] = at[d], taken'[d] = taken[d], pending'[d] = pending[d]
    PROVE  Owes(d)'
BY DEF Owes, InHand, Consumed

LEMMA OwesInvInit == Init => OwesInv
<1> SUFFICES ASSUME Init PROVE OwesInv
  OBVIOUS
<1>1. /\ <<>> \in Seq(Commands \X {1, 2}) /\ <<>> \in Seq(Commands)
      /\ <<>> \in Seq([for : Commands, kind : {"success"}])
      /\ Len(<<>>) = 0
  BY EmptySeq
<1>2. StateTypes
  BY <1>1 DEF Init, StateTypes, Places, Faults
<1>3. TypeInv
  BY <1>1, <1>2 DEF Init, TypeInv
<1>4. ASSUME NEW c \in Conns
      PROVE  Owes(c)
  <2>1. /\ written[c] = <<>> /\ buf[c] = <<>> /\ pending[c] = <<>> /\ got[c] = 0
        /\ at[c] = "serving" /\ InHand(c) = 0
    BY DEF Init, InHand
  <2> QED
    BY <1>1, <2>1 DEF Owes, Consumed
<1> QED
  BY <1>3, <1>4 DEF OwesInv

LEMMA OwesInvStep ==
    ASSUME OwesInv, [Next]_vars
    PROVE  OwesInv'
<1>1. TypeInv /\ StateTypes
  BY DEF OwesInv, TypeInv
<1>2. CASE UNCHANGED vars
  <2>1. TypeInv'
    BY <1>1, <1>2 DEF TypeInv, StateTypes, vars
  <2>2. UNCHANGED <<written, got, buf, at, taken, pending>>
    BY <1>2 DEF vars
  <2> QED
    BY <2>1, <2>2, OwesKept DEF OwesInv
<1>3. CASE PortStep
  <2>1. UNCHANGED <<written, handler>>
    BY <1>3 DEF PortStep, SetMode, SetDelay
  <2>2. /\ mode' \in Faults \cup {"normal"} /\ remaining' \in Nat \cup {NoCount}
        /\ delay' \in BOOLEAN
        /\ mode' = "normal" => remaining' = NoCount
    BY <1>1, <1>3, FakeLampAssumption
    DEF PortStep, SetMode, SetDelay, TypeInv, StateTypes, Faults
  <2>3. TypeInv'
    <3>1. UNCHANGED <<written, got, buf, at, taken, link, replies, execs, pending>>
      BY <2>1 DEF handler
    <3>2. StateTypes'
      BY <1>1, <2>2, <3>1 DEF StateTypes
    <3>3. /\ \A c \in Conns : got'[c] <= Len(written'[c])
          /\ \A c \in Conns : taken'[c] # NoCommand <=> at'[c] = "sleeping"
      BY <1>1, <3>1 DEF TypeInv
    <3> QED
      BY <2>2, <3>2, <3>3 DEF TypeInv
  <2>4. UNCHANGED <<written, got, buf, at, taken, pending>>
    BY <2>1 DEF handler
  <2> QED
    BY <2>3, <2>4, OwesKept DEF OwesInv
<1>4. ASSUME NEW c \in Conns, ConnStep(c)
      PROVE  OwesInv'
  <2>1. TypeInv'
    BY <1>1, <1>4, SendsType, HandlerStepType DEF ConnStep
  <2>2. ASSUME NEW d \in Conns, at'[d] \in {"serving", "sleeping"}
        PROVE  Owes(d)'
    <3>1. CASE d # c
      <4>1. /\ written'[d] = written[d] /\ got'[d] = got[d] /\ buf'[d] = buf[d]
            /\ at'[d] = at[d] /\ taken'[d] = taken[d] /\ pending'[d] = pending[d]
        BY <1>1, <1>4, <3>1, OthersUntouched
      <4>2. Owes(d)
        BY <2>2, <4>1 DEF OwesInv
      <4> QED
        BY <4>1, <4>2 DEF Owes, InHand, Consumed
    <3>2. CASE d = c
      <4>1. CASE \E t \in Commands : SendsPart(c, t)
        <5>1. at'[c] = at[c]
          BY <4>1 DEF SendsPart
        <5> QED
          BY <2>2, <3>2, <4>1, <5>1, SendsOwes DEF OwesInv
      <4>2. CASE HangsUp(c)
        <5>1. UNCHANGED <<written, got, buf, at, taken, pending>>
          BY <4>2 DEF HangsUp
        <5> QED
          BY <2>2, <3>2, <5>1, OwesKept DEF OwesInv
      <4>3. CASE TakeCommand(c)
        <5>1. Owes(c)
          BY <4>3 DEF TakeCommand, OwesInv
        <5> QED
          BY <2>2, <3>2, <4>3, <5>1, TakesOwes
      <4>4. CASE Wakes(c)
        <5>1. Owes(c)
          BY <4>4 DEF Wakes, OwesInv
        <5> QED
          BY <2>2, <3>2, <4>4, <5>1, WakesOwes
      <4>5. CASE Reads(c)
        <5>1. at'[c] = at[c]
          BY <4>5 DEF Reads
        <5>2. at[c] = "serving" /\ Owes(c)
          BY <2>2, <3>2, <4>5, <5>1 DEF Reads, OwesInv
        <5> QED
          BY <3>2, <4>5, <5>2, ReadsOwes
      <4>6. CASE SeesDeparture(c) \/ Cancelled(c)
        <5>1. at'[c] = "closed"
          BY <1>1, <4>6 DEF SeesDeparture, Cancelled, Leave, StateTypes
        <5> QED
          BY <2>2, <3>2, <5>1
      <4> QED
        BY <1>4, <4>1, <4>2, <4>3, <4>4, <4>5, <4>6 DEF ConnStep, Handler
    <3> QED
      BY <3>1, <3>2
  <2> QED
    BY <2>1, <2>2 DEF OwesInv
<1> QED
  BY <1>2, <1>3, <1>4, StepOfOne

(* A handler's buffer and the commands pending agree with what was sent,   *)
(* in whatever pieces it arrived.                                          *)
THEOREM PendingAgrees == Spec => []OwesInv
<1>1. Init => OwesInv
  BY OwesInvInit
<1>2. OwesInv /\ [Next]_vars => OwesInv'
  BY OwesInvStep
<1> QED
  BY <1>1, <1>2, PTL DEF Spec

(* The variables keep their types (FakeLamp.TypeOK).                       *)
THEOREM TypeCorrect == Spec => []TypeOK
<1>1. OwesInv => TypeOK
  <2> SUFFICES ASSUME OwesInv PROVE TypeOK
    OBVIOUS
  <2>1. ASSUME NEW c \in Conns
        PROVE  /\ written[c] \in Seq(Commands \X {1, 2}) /\ buf[c] \in Seq(Commands \X {1, 2})
               /\ got[c] \in 0..Len(written[c]) /\ pending[c] \in Seq(Commands)
               /\ at[c] \in Places
               /\ taken[c] \in IF at[c] = "sleeping" THEN Commands ELSE {NoCommand}
    <3>1. /\ written[c] \in Seq(Commands \X {1, 2}) /\ got[c] \in Nat
          /\ got[c] <= Len(written[c])
      BY DEF OwesInv, TypeInv, StateTypes
    <3>2. got[c] \in 0..Len(written[c])
      BY <3>1, LenProperties
    <3> QED
      BY <3>2 DEF OwesInv, TypeInv, StateTypes
  <2> QED
    BY <2>1 DEF TypeOK, OwesInv, TypeInv, StateTypes
<1> QED
  BY <1>1, PendingAgrees, PTL

(***************************** the failure modes ***************************)
(* The smaller of two numbers, as the property says it.                    *)
LEMMA SmallerOfTwo ==
    ASSUME NEW a \in Nat, NEW b \in Nat
    PROVE  a <= b => Min({a, b}) = a /\ Min({b, a}) = a
<1> SUFFICES ASSUME a <= b PROVE Min({a, b}) = a /\ Min({b, a}) = a
  OBVIOUS
<1>1. {a, b} \in SUBSET Int /\ a \in {a, b} /\ \A i \in {a, b} : a <= i
  OBVIOUS
<1>2. Min({a, b}) = a
  BY <1>1, MinIsLeast
<1>3. {a, b} = {b, a}
  OBVIOUS
<1> QED
  BY <1>2, <1>3

(* Taking a command uses up the count of a mode in force, and is the only  *)
(* step that does.                                                         *)
LEMMA TallyInvStep ==
    ASSUME OwesInv, TallyInv, [Next]_vars
    PROVE  TallyInv'
<1>1. TypeInv'
  BY OwesInvStep DEF OwesInv
<1>2. mode \in Faults \cup {"normal"} /\ remaining \in Nat \cup {NoCount}
      /\ NoCount \notin Nat /\ "normal" \notin Faults
      /\ (mode = "normal" => remaining = NoCount) /\ Counts \subseteq Nat
  BY FakeLampAssumption DEF TallyInv, TypeInv, StateTypes, Faults
<1>3. CASE UNCHANGED <<mode, remaining, tally>>
  BY <1>1, <1>3 DEF TallyInv, InForce, Counting
<1>4. ASSUME NEW c \in Conns, TakeCommand(c)
      PROVE  TallyInv'
  <2>1. /\ mode' = IF LastOfCount THEN "normal" ELSE mode
        /\ remaining' = IF LastOfCount \/ remaining = NoCount THEN NoCount ELSE remaining - 1
        /\ tally' = [tally EXCEPT !.taken = tally.taken + 1,
                                  !.struck = IF mode = "normal" THEN tally.struck
                                                                ELSE tally.struck + 1]
    BY <1>4 DEF TakeCommand, CountDown
  <2>2. tally \in [mode : Faults \cup {"normal"}, count : Counts \cup {NoCount},
                   taken : Nat, struck : Nat]
    BY DEF TallyInv
  <2>3. /\ tally' \in [mode : Faults \cup {"normal"}, count : Counts \cup {NoCount},
                       taken : Nat, struck : Nat]
        /\ tally'.mode = tally.mode /\ tally'.count = tally.count
        /\ tally'.taken = tally.taken + 1
        /\ tally'.struck = IF mode = "normal" THEN tally.struck ELSE tally.struck + 1
    <3> DEFINE k == IF mode = "normal" THEN tally.struck ELSE tally.struck + 1
    <3>1. k \in Nat /\ tally.taken + 1 \in Nat
      BY <2>2
    <3>2. tally' = [tally EXCEPT !.taken = tally.taken + 1, !.struck = k]
      BY <2>1
    <3> HIDE DEF k
    <3>3. /\ tally'.mode = tally.mode /\ tally'.count = tally.count
          /\ tally'.taken = tally.taken + 1 /\ tally'.struck = k
      BY <2>2, <3>2
    <3>4. tally' \in [mode : Faults \cup {"normal"}, count : Counts \cup {NoCount},
                      taken : Nat, struck : Nat]
      BY <2>2, <3>1, <3>2
    <3> QED
      BY <3>3, <3>4 DEF k
  <2>4. CASE tally.mode = "normal"
    BY <1>1, <1>2, <2>1, <2>3, <2>4 DEF TallyInv, LastOfCount
  <2>5. CASE tally.mode # "normal" /\ tally.count = 0
    BY <1>1, <2>3, <2>5 DEF TallyInv
  <2>6. CASE tally.mode # "normal" /\ tally.count = NoCount /\ InForce /\ remaining = NoCount
    BY <1>1, <1>2, <2>1, <2>3, <2>6 DEF TallyInv, LastOfCount, InForce
  <2>7. CASE tally.mode # "normal" /\ Counting
    <3>1. Counting'
      <4>1. CASE /\ InForce
                 /\ remaining \in Nat \ {0} /\ tally.taken + remaining = tally.count
        <5>1. mode # "normal" /\ remaining # NoCount
          BY <1>2, <2>7, <4>1 DEF InForce
        <5>2. CASE remaining = 1
          BY <2>1, <2>2, <2>3, <2>7, <4>1, <5>1, <5>2 DEF Counting, InForce, LastOfCount
        <5>3. CASE remaining > 1
          <6>1. ~LastOfCount
            BY <4>1, <5>3 DEF LastOfCount
          <6> QED
            BY <2>1, <2>2, <2>3, <2>7, <4>1, <5>1, <5>3, <6>1 DEF Counting, InForce
        <5> QED
          BY <4>1, <5>2, <5>3
      <4>2. CASE /\ mode = "normal"
                 /\ tally.struck = tally.count /\ tally.taken >= tally.count
        BY <1>2, <2>1, <2>2, <2>3, <2>7, <4>2 DEF Counting, LastOfCount
      <4> QED
        BY <2>7, <4>1, <4>2 DEF Counting
    <3> QED
      BY <1>1, <2>3, <2>7, <3>1 DEF TallyInv
  <2> QED
    BY <2>4, <2>5, <2>6, <2>7 DEF TallyInv
<1>5. ASSUME NEW m \in Faults \cup {"normal"}, NEW n \in Counts \cup {NoCount}, SetMode(m, n),
             m = "normal" => n = NoCount
      PROVE  TallyInv'
  <2>1. /\ mode' = m /\ remaining' = n
        /\ tally' = [mode |-> m, count |-> n, taken |-> 0, struck |-> 0]
    BY <1>5 DEF SetMode
  <2>2. CASE m = "normal"
    BY <1>1, <1>2, <1>5, <2>1, <2>2 DEF TallyInv
  <2>3. CASE m # "normal" /\ n = NoCount
    BY <1>1, <1>2, <2>1, <2>3 DEF TallyInv, InForce
  <2>4. CASE m # "normal" /\ n \in Nat
    <3>1. n = 0 \/ Counting'
      BY <2>1, <2>4 DEF Counting, InForce
    <3> QED
      BY <1>1, <2>1, <2>4, <3>1 DEF TallyInv
  <2> QED
    BY <1>2, <2>2, <2>3, <2>4
<1>6. CASE PortStep
  <2>1. "normal" \in Faults \cup {"normal"} /\ NoCount \in Counts \cup {NoCount}
    OBVIOUS
  <2> QED
    BY <1>2, <1>3, <1>5, <1>6, <2>1 DEF PortStep, SetDelay
<1>7. ASSUME NEW c \in Conns, ConnStep(c), ~TakeCommand(c)
      PROVE  UNCHANGED <<mode, remaining, tally>>
  BY <1>7 DEF ConnStep, Handler, SendsPart, HangsUp, Wakes, Reads, SeesDeparture, Cancelled,
              failures
<1> QED
  BY <1>3, <1>4, <1>6, <1>7, StepOfOne DEF vars

(* The inductive invariant of the failure modes.                           *)
THEOREM ModesHold == Spec => []TallyInv
<1>1. Init => TallyInv
  <2>1. Init => TypeInv
    BY OwesInvInit DEF OwesInv
  <2> QED
    BY <2>1 DEF Init, TallyInv
<1>2. OwesInv /\ TallyInv /\ [Next]_vars => TallyInv'
  BY TallyInvStep
<1> QED
  BY <1>1, <1>2, PendingAgrees, PTL DEF Spec

(* A mode strikes the next commands taken, as many as its count says, and  *)
(* no others (FakeLamp.StrikesTheNext).                                    *)
THEOREM ModesStrikeTheNext == Spec => []StrikesTheNext
<1>1. TallyInv => StrikesTheNext
  <2> SUFFICES ASSUME TallyInv, tally.count # 0
               PROVE  tally.struck =
                        CASE tally.mode = "normal" -> 0
                          [] tally.mode # "normal" /\ tally.count = NoCount -> tally.taken
                          [] OTHER -> Min({tally.count, tally.taken})
    BY DEF StrikesTheNext
  <2>1. tally.count \in Counts \cup {NoCount} /\ tally.taken \in Nat /\ tally.struck \in Nat
        /\ NoCount \notin Nat
    BY FakeLampAssumption DEF TallyInv
  <2>2. CASE tally.mode = "normal"
    BY <2>2 DEF TallyInv
  <2>3. CASE tally.mode # "normal" /\ tally.count = NoCount
    <3>1. tally.struck = tally.taken
      BY <2>1, <2>3 DEF TallyInv, InForce, Counting
    <3> QED
      BY <2>3, <3>1
  <2>4. CASE tally.mode # "normal" /\ Counting
    <3>1. tally.count \in Nat \ {0} /\ tally.count # NoCount
      BY <2>1, <2>4 DEF Counting
    <3>2. tally.struck = Min({tally.count, tally.taken})
      <4>1. CASE tally.taken <= tally.count /\ tally.struck = tally.taken
        BY <2>1, <3>1, <4>1, SmallerOfTwo
      <4>2. CASE tally.count <= tally.taken /\ tally.struck = tally.count
        BY <2>1, <3>1, <4>2, SmallerOfTwo
      <4> QED
        BY <2>1, <2>4, <3>1, <4>1, <4>2 DEF Counting, InForce
    <3> QED
      BY <2>4, <3>1, <3>2
  <2> QED
    BY <2>1, <2>2, <2>3, <2>4 DEF TallyInv
<1> QED
  BY <1>1, ModesHold, PTL

(************************* the lamp of module Wire *************************)
(* Leaving a connection is the departure of its peer, or goes unnoticed.   *)
Unseen == UNCHANGED <<link, pending, replies, execs>>

LEMMA UnseenIsStutter == Unseen => UNCHANGED W!wireVars
BY DEF Unseen, W!wireVars

LEMMA LeaveIsDeparture ==
    ASSUME StateTypes, NEW c \in Conns, NEW how \in {"fin", "rst"}, Leave(c, how)
    PROVE  WireStep \/ Unseen
<1>1. CASE link[c] = "up"
  <2>1. /\ link' = [link EXCEPT ![c] = how] /\ pending' = [pending EXCEPT ![c] = <<>>]
        /\ UNCHANGED <<replies, execs>>
    BY <1>1 DEF Leave
  <2>2. W!PeerDeparts(c, how)
    BY <1>1, <2>1 DEF W!PeerDeparts
  <2> QED
    BY <2>2 DEF WireStep, W!Departed
<1>2. CASE link[c] # "up"
  BY <1>2 DEF Leave, StateTypes, Unseen
<1> QED
  BY <1>1, <1>2

(* Handling a command executes the first of those pending, and answers it  *)
(* if the client is still there.                                           *)
LEMMA HandleIsReply ==
    ASSUME StateTypes, NEW c \in Conns, NEW t \in Commands, Handle(c, t),
           pending[c] # <<>>, pending[c][1] = t
    PROVE  WireStep \/ Unseen
<1>1. CASE t \in Broken /\ Leave(c, "fin")
  BY <1>1, LeaveIsDeparture
<1>2. CASE t \notin Broken
  <2>1. RemoveFirst(pending[c], t) = Tail(pending[c]) /\ Head(pending[c]) = t
    BY RemoveHead, HeadTailProperties DEF StateTypes
  <2>2. /\ pending' = [pending EXCEPT ![c] = Tail(@)]
        /\ execs' = [execs EXCEPT ![Head(pending[c])] = @ + 1]
        /\ link' = link
    BY <1>2, <2>1 DEF Handle
  <2>3. W!LampTakes(c, 1)
    BY <2>2 DEF W!LampTakes
  <2>4. CASE link[c] = "up"
    <3>1. replies' = [replies EXCEPT ![c] =
                        Append(@, [for |-> Head(pending[c]), kind |-> "success"])]
      BY <1>2, <2>1, <2>4 DEF Handle
    <3>2. W!LampReplies(c)
      BY <2>3, <2>4, <3>1 DEF W!LampReplies
    <3> QED
      BY <3>2 DEF WireStep
  <2>5. CASE link[c] # "up"
    <3>1. replies' = replies
      BY <1>2, <2>5 DEF Handle, StateTypes
    <3>2. W!LampStaysSilent(c)
      BY <2>3, <3>1 DEF W!LampStaysSilent
    <3> QED
      BY <3>2 DEF WireStep
  <2> QED
    BY <2>4, <2>5
<1> QED
  BY <1>1, <1>2 DEF Handle

LEMMA WireStepOfOne ==
    ASSUME OwesInv, [Next]_vars
    PROVE  WireStep \/ Unseen
<1>1. TypeInv /\ StateTypes
  BY DEF OwesInv, TypeInv
<1>2. CASE UNCHANGED vars \/ PortStep
  BY <1>2 DEF vars, PortStep, SetMode, SetDelay, handler, Unseen
<1>3. ASSUME NEW c \in Conns, NEW t \in Commands, SendsPart(c, t)
      PROVE  WireStep \/ Unseen
  <2>1. UNCHANGED <<link, replies, execs>> /\ link[c] = "up"
    BY <1>3 DEF SendsPart
  <2>2. CASE MidCommand(written[c])
    <3>1. W!Write(t, c)
      BY <1>3, <2>1, <2>2 DEF SendsPart, W!Write
    <3> QED
      BY <2>1, <3>1 DEF WireStep
  <2>3. CASE ~MidCommand(written[c])
    BY <1>1, <1>3, <2>1, <2>3 DEF SendsPart, Unseen, StateTypes
  <2> QED
    BY <2>2, <2>3
<1>4. ASSUME NEW c \in Conns, HangsUp(c)
      PROVE  WireStep \/ Unseen
  BY <1>4 DEF HangsUp, WireStep
<1>5. ASSUME NEW c \in Conns, TakeCommand(c)
      PROVE  WireStep \/ Unseen
  <2> DEFINE t == Decoded(buf[c])
  <2>1. t \in Commands /\ pending[c] # <<>> /\ pending[c][1] = t /\ Obey(c, t)
    BY <1>5, DecodesFirst DEF TakeCommand
  <2> HIDE DEF t
  <2>2. \/ Leave(c, "rst") \/ Leave(c, "fin") \/ Handle(c, t) \/ Unseen
    BY <2>1 DEF Obey, Unseen
  <2> QED
    BY <1>1, <2>1, <2>2, LeaveIsDeparture, HandleIsReply
<1>6. ASSUME NEW c \in Conns, Wakes(c)
      PROVE  WireStep \/ Unseen
  <2>1. taken[c] \in Commands /\ at[c] = "sleeping" /\ Handle(c, taken[c])
    BY <1>1, <1>6 DEF TypeInv, StateTypes, Wakes
  <2>2. pending[c] # <<>> /\ pending[c][1] = taken[c]
    <3>1. 1 <= Len(pending[c]) /\ pending[c][1] = taken[c]
      BY <2>1 DEF OwesInv, Owes, InHand
    <3> QED
      BY <3>1
  <2> QED
    BY <1>1, <2>1, <2>2, HandleIsReply
<1>7. ASSUME NEW c \in Conns, Reads(c)
      PROVE  WireStep \/ Unseen
  BY <1>7 DEF Reads, Unseen
<1>8. ASSUME NEW c \in Conns, SeesDeparture(c) \/ Cancelled(c)
      PROVE  WireStep \/ Unseen
  BY <1>1, <1>8, LeaveIsDeparture DEF SeesDeparture, Cancelled
<1> QED
  BY <1>2, <1>3, <1>4, <1>5, <1>6, <1>7, <1>8, StepOfOne DEF ConnStep, Handler

(* The fake lamp is a lamp of module Wire (FakeLamp.ImplementsWire): what  *)
(* the client assumes of a lamp, this one does, however the bytes of its   *)
(* commands arrive and whatever the control port has set.                  *)
THEOREM IsALamp == Spec => ImplementsWire
<1>1. OwesInv /\ [Next]_vars => [WireStep]_(W!wireVars)
  BY WireStepOfOne, UnseenIsStutter
<1> QED
  BY <1>1, PendingAgrees, PTL DEF Spec, ImplementsWire
=============================================================================
