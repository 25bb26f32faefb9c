---------------------------- MODULE SequenceLemmas ----------------------------
(***************************************************************************)
(* Facts about sequences that the proofs of this project share: what is at *)
(* which place when an element joins a queue, leaves it, or moves from one *)
(* sequence to the end of another.                                         *)
(***************************************************************************)
EXTENDS Naturals, SequencesExt, SequenceTheorems, TLAPS

(* Leaving a queue keeps it a sequence.                                    *)
LEMMA RemoveAtType ==
    ASSUME NEW S, NEW s \in Seq(S), NEW i \in 1..Len(s)
    PROVE  RemoveAt(s, i) \in Seq(S)
<1>1. \A j \in 1..Len(s) : s[j] \in S
  BY ElementOfSeq
<1>2. SubSeq(s, 1, i-1) \in Seq(S) /\ SubSeq(s, i+1, Len(s)) \in Seq(S)
  BY <1>1, SubSeqProperties, LenProperties
<1> QED
  BY <1>2, ConcatProperties DEF RemoveAt

(* The places of what remains when one element is removed.                 *)
LEMMA RemoveAtPlaces ==
    ASSUME NEW S, NEW s \in Seq(S), NEW i \in 1..Len(s)
    PROVE  /\ RemoveAt(s, i) \in Seq(S)
           /\ Len(RemoveAt(s, i)) = Len(s) - 1
           /\ \A j \in 1..Len(s) - 1 :
                RemoveAt(s, i)[j] = IF j < i THEN s[j] ELSE s[j + 1]
<1>1. Len(s) \in Nat /\ \A j \in 1..Len(s) : s[j] \in S
  BY ElementOfSeq, LenProperties
<1> DEFINE u == SubSeq(s, 1, i-1)
           v == SubSeq(s, i+1, Len(s))
<1>2. /\ u \in Seq(S) /\ Len(u) = i - 1
      /\ \A j \in 1..i-1 : u[j] = s[j]
  <2>1. \A j \in 1..i-1 : s[j] \in S
    BY <1>1
  <2>2. /\ u \in Seq(S) /\ Len(u) = IF 1 <= i-1 THEN (i-1)-1+1 ELSE 0
        /\ \A j \in 1..(i-1)-1+1 : u[j] = s[1+j-1]
    BY <1>1, <2>1, SubSeqProperties
  <2> QED
    BY <1>1, <2>2
<1>3. /\ v \in Seq(S) /\ Len(v) = Len(s) - i
      /\ \A j \in 1..Len(s)-i : v[j] = s[i+j]
  <2>1. \A j \in i+1..Len(s) : s[j] \in S
    BY <1>1
  <2>2. /\ v \in Seq(S) /\ Len(v) = IF i+1 <= Len(s) THEN Len(s)-(i+1)+1 ELSE 0
        /\ \A j \in 1..Len(s)-(i+1)+1 : v[j] = s[(i+1)+j-1]
    BY <1>1, <2>1, SubSeqProperties
  <2> QED
    BY <1>1, <2>2
<1>4. RemoveAt(s, i) = u \o v
  BY DEF RemoveAt
<1> HIDE DEF u, v
<1>5. /\ u \o v \in Seq(S) /\ Len(u \o v) = Len(u) + Len(v)
      /\ \A j \in 1..Len(u) + Len(v) :
           (u \o v)[j] = IF j <= Len(u) THEN u[j] ELSE v[j - Len(u)]
  BY <1>2, <1>3, ConcatProperties
<1>6. ASSUME NEW j \in 1..Len(s) - 1
      PROVE  (u \o v)[j] = IF j < i THEN s[j] ELSE s[j + 1]
  <2>1. CASE j < i
    BY <1>1, <1>2, <1>3, <1>5, <2>1
  <2>2. CASE j >= i
    <3>1. j - Len(u) \in 1..Len(s)-i /\ i + (j - Len(u)) = j + 1 /\ ~(j <= Len(u))
      BY <1>1, <1>2, <2>2
    <3>2. (u \o v)[j] = v[j - Len(u)]
      BY <1>1, <1>2, <1>3, <1>5, <3>1
    <3>3. v[j - Len(u)] = s[j + 1]
      BY <1>3, <3>1
    <3> QED
      BY <1>1, <2>2, <3>2, <3>3
  <2>3. j < i \/ j >= i
    BY <1>1
  <2> QED
    BY <2>1, <2>2, <2>3
<1> QED
  BY <1>1, <1>2, <1>3, <1>4, <1>5, <1>6

(* A queue without repetitions from which one place is removed holds the   *)
(* others, without repetitions.                                            *)
LEMMA RemoveAtInjective ==
    ASSUME NEW S, NEW s \in Seq(S), NEW i \in 1..Len(s), IsInjective(s)
    PROVE  /\ IsInjective(RemoveAt(s, i))
           /\ \A e : (\E j \in 1..Len(RemoveAt(s, i)) : RemoveAt(s, i)[j] = e)
                       <=> e # s[i] /\ \E j \in 1..Len(s) : s[j] = e
<1> DEFINE r == RemoveAt(s, i)
<1>1. /\ r \in Seq(S) /\ Len(r) = Len(s) - 1
      /\ \A j \in 1..Len(s) - 1 : r[j] = IF j < i THEN s[j] ELSE s[j + 1]
  BY RemoveAtPlaces
<1>2. /\ Len(s) \in Nat /\ DOMAIN s = 1..Len(s) /\ DOMAIN r = 1..Len(r)
      /\ \A j, l \in 1..Len(s) : s[j] = s[l] => j = l
  BY <1>1, LenProperties DEF IsInjective
<1> HIDE DEF r
<1>3. IsInjective(r)
  BY <1>1, <1>2 DEF IsInjective
<1>4. ASSUME NEW j \in 1..Len(r)
      PROVE  r[j] # s[i] /\ \E l \in 1..Len(s) : s[l] = r[j]
  BY <1>1, <1>2
<1>5. ASSUME NEW j \in 1..Len(s), s[j] # s[i]
      PROVE  \E l \in 1..Len(r) : r[l] = s[j]
  <2>1. CASE j < i
    <3>1. j \in 1..Len(r) /\ r[j] = s[j]
      BY <1>1, <1>2, <2>1
    <3> QED
      BY <3>1
  <2>2. CASE j > i
    <3>1. j - 1 \in 1..Len(r) /\ r[j - 1] = s[j]
      BY <1>1, <1>2, <2>2
    <3> QED
      BY <3>1
  <2> QED
    BY <1>2, <1>5, <2>1, <2>2
<1> QED
  BY <1>3, <1>4, <1>5 DEF r

(* The head is at the first place.                                         *)
LEMMA TailIsRemoveAt ==
    ASSUME NEW S, NEW s \in Seq(S), s # <<>>
    PROVE  /\ 1 \in 1..Len(s) /\ Head(s) = s[1]
           /\ Tail(s) = RemoveAt(s, 1)
<1>1. /\ Tail(s) \in Seq(S) /\ Len(Tail(s)) = Len(s) - 1
      /\ \A j \in 1..Len(Tail(s)) : Tail(s)[j] = s[j + 1]
      /\ Len(s) \in Nat \ {0} /\ Head(s) = s[1]
  BY HeadTailProperties, EmptySeq
<1>2. 1 \in 1..Len(s)
  BY <1>1
<1>3. /\ RemoveAt(s, 1) \in Seq(S) /\ Len(RemoveAt(s, 1)) = Len(s) - 1
      /\ \A j \in 1..Len(s) - 1 :
           RemoveAt(s, 1)[j] = IF j < 1 THEN s[j] ELSE s[j + 1]
  BY <1>2, RemoveAtPlaces
<1> DEFINE a == Tail(s)
           b == RemoveAt(s, 1)
<1>4. /\ a \in Seq(S) /\ b \in Seq(S) /\ Len(a) = Len(b)
      /\ \A j \in 1..Len(a) : a[j] = b[j]
  BY <1>1, <1>3
<1> HIDE DEF a, b
<1>5. a = b
  BY <1>4, SeqEqual
<1> QED
  BY <1>1, <1>2, <1>5 DEF a, b

(* One who was not in the queue joins it at the end.                       *)
LEMMA AppendPlaces ==
    ASSUME NEW S, NEW s \in Seq(S), NEW e \in S, IsInjective(s),
           ~\E j \in 1..Len(s) : s[j] = e
    PROVE  /\ IsInjective(Append(s, e))
           /\ \A f : (\E j \in 1..Len(Append(s, e)) : Append(s, e)[j] = f)
                       <=> f = e \/ \E j \in 1..Len(s) : s[j] = f
<1> DEFINE r == Append(s, e)
<1>1. /\ Len(s) \in Nat /\ DOMAIN s = 1..Len(s) /\ r \in Seq(S)
      /\ Len(r) = Len(s) + 1 /\ r[Len(s) + 1] = e
      /\ \A i \in 1..Len(s) : r[i] = s[i]
  BY AppendProperties, LenProperties
<1> HIDE DEF r
<1>2. DOMAIN r = 1..Len(r)
  BY <1>1, LenProperties
<1>3. IsInjective(r)
  BY <1>1, <1>2 DEF IsInjective
<1>4. Len(s) + 1 \in 1..Len(r) /\ \A j \in 1..Len(s) : j \in 1..Len(r)
  BY <1>1
<1>5. \A f : (\E j \in 1..Len(r) : r[j] = f) <=> f = e \/ \E j \in 1..Len(s) : s[j] = f
  BY <1>1, <1>4
<1> QED
  BY <1>3, <1>5 DEF r

(* A sequence with one element.                                            *)
LEMMA AppendToEmpty ==
    ASSUME NEW e
    PROVE  Append(<<>>, e) = <<e>> /\ Tail(<<e>>) = <<>> /\ Head(<<e>>) = e
OBVIOUS

(* The head of what follows may be moved to the end of what precedes.      *)
LEMMA HeadMoves ==
    ASSUME NEW S, NEW u \in Seq(S), NEW v \in Seq(S), v # <<>>
    PROVE  /\ Append(u, Head(v)) \o Tail(v) = u \o v
           /\ Head(v) = (u \o v)[Len(u) + 1]
           /\ Len(u) < Len(u \o v)
<1>1. /\ Head(v) \in S /\ Tail(v) \in Seq(S) /\ Len(Tail(v)) = Len(v) - 1
      /\ Head(v) = v[1] /\ \A i \in 1..Len(Tail(v)) : Tail(v)[i] = v[i + 1]
      /\ Len(v) \in Nat \ {0} /\ Len(u) \in Nat
  BY HeadTailProperties, EmptySeq, LenProperties
<1> DEFINE w == Append(u, Head(v))
<1>2. /\ w \in Seq(S) /\ Len(w) = Len(u) + 1
      /\ \A i \in 1..Len(u) : w[i] = u[i]
      /\ w[Len(u) + 1] = v[1]
  BY <1>1, AppendProperties
<1>3. /\ u \o v \in Seq(S) /\ Len(u \o v) = Len(u) + Len(v)
      /\ \A i \in 1..Len(u) + Len(v) :
           (u \o v)[i] = IF i <= Len(u) THEN u[i] ELSE v[i - Len(u)]
  BY ConcatProperties
<1> HIDE DEF w
<1>4. /\ w \o Tail(v) \in Seq(S) /\ Len(w \o Tail(v)) = Len(w) + Len(Tail(v))
      /\ \A i \in 1..Len(w) + Len(Tail(v)) :
           (w \o Tail(v))[i] = IF i <= Len(w) THEN w[i] ELSE Tail(v)[i - Len(w)]
  BY <1>1, <1>2, ConcatProperties
<1>5. ASSUME NEW i \in 1..Len(u \o v)
      PROVE  (w \o Tail(v))[i] = (u \o v)[i]
  <2>1. CASE i <= Len(u)
    BY <1>1, <1>2, <1>3, <1>4, <2>1
  <2>2. CASE i = Len(u) + 1
    BY <1>1, <1>2, <1>3, <1>4, <2>2
  <2>3. CASE i > Len(u) + 1
    <3>1. i - Len(w) \in 1..Len(Tail(v)) /\ (i - Len(w)) + 1 = i - Len(u)
      BY <1>1, <1>2, <1>3, <2>3
    <3>2. (w \o Tail(v))[i] = Tail(v)[i - Len(w)]
      BY <1>1, <1>2, <1>3, <1>4, <2>3
    <3>3. (u \o v)[i] = v[i - Len(u)]
      BY <1>1, <1>3, <2>3
    <3> QED
      BY <1>1, <3>1, <3>2, <3>3
  <2>4. i <= Len(u) \/ i = Len(u) + 1 \/ i > Len(u) + 1
    BY <1>1, <1>3
  <2> QED
    BY <2>1, <2>2, <2>3, <2>4
<1>6. w \o Tail(v) = u \o v
  <2>1. Len(w \o Tail(v)) = Len(u \o v)
    BY <1>1, <1>2, <1>3, <1>4
  <2> QED
    BY <1>3, <1>4, <1>5, <2>1, SeqEqual
<1>7. (u \o v)[Len(u) + 1] = v[1] /\ Len(u) < Len(u \o v)
  BY <1>1, <1>3
<1> QED
  BY <1>1, <1>6, <1>7 DEF w

(* What is appended to the second of two is appended to their join.        *)
LEMMA AppendBehind ==
    ASSUME NEW S, NEW u \in Seq(S), NEW v \in Seq(S), NEW e \in S
    PROVE  u \o Append(v, e) = Append(u \o v, e)
<1>1. <<e>> \in Seq(S) /\ u \o v \in Seq(S)
  BY ConcatProperties
<1>2. Append(u \o v, e) = (u \o v) \o <<e>> /\ Append(v, e) = v \o <<e>>
  BY <1>1, AppendIsConcat
<1> QED
  BY <1>1, <1>2, ConcatAssociative

(* A sequence that holds each thing once does so when a new one follows.   *)
LEMMA AppendNew ==
    ASSUME NEW S, NEW u \in Seq(S), NEW e \in S
    PROVE  /\ Range(Append(u, e)) = Range(u) \cup {e}
           /\ IsInjective(u) /\ e \notin Range(u) => IsInjective(Append(u, e))
<1>1. /\ Append(u, e) \in Seq(S) /\ Len(Append(u, e)) = Len(u) + 1
      /\ \A i \in 1..Len(u) : Append(u, e)[i] = u[i]
      /\ Append(u, e)[Len(u) + 1] = e
      /\ Len(u) \in Nat /\ DOMAIN u = 1..Len(u)
      /\ DOMAIN Append(u, e) = 1..Len(u) + 1
  BY AppendProperties, LenProperties
<1>2. Range(Append(u, e)) = Range(u) \cup {e}
  BY <1>1 DEF Range
<1>3. ASSUME IsInjective(u), e \notin Range(u)
      PROVE  IsInjective(Append(u, e))
  BY <1>1, <1>3 DEF IsInjective, Range
<1> QED
  BY <1>2, <1>3

(* The least of a set of numbers that has a least one.                     *)
LEMMA MinIsLeast ==
    ASSUME NEW S \in SUBSET Int, NEW m \in S, \A i \in S : m <= i
    PROVE  Min(S) = m
<1>1. /\ Min(S) \in S /\ \A i \in S : Min(S) <= i
  BY DEF Min
<1>2. Min(S) <= m /\ m <= Min(S) /\ Min(S) \in Int /\ m \in Int
  BY <1>1
<1> QED
  BY <1>2

(* The first occurrence of the head is the head.                           *)
LEMMA RemoveHead ==
    ASSUME NEW S, NEW s \in Seq(S), s # <<>>
    PROVE  RemoveFirst(s, s[1]) = Tail(s)
<1>1. 1 \in 1..Len(s) /\ Tail(s) = RemoveAt(s, 1) /\ Len(s) \in Nat
  BY TailIsRemoveAt, LenProperties
<1> DEFINE I == {i \in 1..Len(s) : s[i] = s[1]}
<1>2. I \in SUBSET Int /\ 1 \in I /\ \A i \in I : 1 <= i
  BY <1>1
<1>3. Min(I) = 1
  BY <1>2, MinIsLeast
<1>4. SelectInSeq(s, LAMBDA v : v = s[1]) = 1
  BY <1>2, <1>3 DEF SelectInSeq
<1> QED
  BY <1>1, <1>4 DEF RemoveFirst

(* Who leaves a queue without repetitions is no longer in it; the others   *)
(* are, without repetitions.                                               *)
LEMMA RemoveAtLeaves ==
    ASSUME NEW S, NEW s \in Seq(S), IsInjective(s), NEW i \in 1..Len(s)
    PROVE  /\ RemoveAt(s, i) \in Seq(S) /\ IsInjective(RemoveAt(s, i))
           /\ Range(RemoveAt(s, i)) = Range(s) \ {s[i]}
<1> DEFINE r == RemoveAt(s, i)
<1>1. /\ r \in Seq(S) /\ IsInjective(r)
      /\ \A e : (\E j \in 1..Len(r) : r[j] = e) <=> e # s[i] /\ \E j \in 1..Len(s) : s[j] = e
  BY RemoveAtType, RemoveAtInjective
<1> HIDE DEF r
<1>2. DOMAIN r = 1..Len(r) /\ DOMAIN s = 1..Len(s)
  BY <1>1, LenProperties
<1>3. Range(r) = Range(s) \ {s[i]}
  BY <1>1, <1>2 DEF Range
<1> QED
  BY <1>1, <1>3 DEF r

LEMMA TailLeaves ==
    ASSUME NEW S, NEW s \in Seq(S), IsInjective(s), s # <<>>
    PROVE  /\ Tail(s) \in Seq(S) /\ IsInjective(Tail(s))
           /\ Range(Tail(s)) = Range(s) \ {Head(s)}
<1>1. 1 \in 1..Len(s) /\ Head(s) = s[1] /\ Tail(s) = RemoveAt(s, 1)
  BY TailIsRemoveAt
<1>2. /\ RemoveAt(s, 1) \in Seq(S) /\ IsInjective(RemoveAt(s, 1))
      /\ Range(RemoveAt(s, 1)) = Range(s) \ {s[1]}
  BY <1>1, RemoveAtLeaves
<1> QED
  BY <1>1, <1>2

LEMMA RemoveFirstLeaves ==
    ASSUME NEW S, NEW s \in Seq(S), IsInjective(s), NEW e
    PROVE  /\ RemoveFirst(s, e) \in Seq(S) /\ IsInjective(RemoveFirst(s, e))
           /\ Range(RemoveFirst(s, e)) = Range(s) \ {e}
<1>1. DOMAIN s = 1..Len(s) /\ Len(s) \in Nat
  BY LenProperties
<1>2. CASE \E i \in 1..Len(s) : s[i] = e
  <2>1. PICK i \in 1..Len(s) : s[i] = e
    BY <1>2
  <2> DEFINE I == {j \in 1..Len(s) : s[j] = e}
  <2>2. I \in SUBSET Int /\ i \in I /\ \A j \in I : i <= j
    BY <1>1, <2>1 DEF IsInjective
  <2>3. Min(I) = i
    BY <2>2, MinIsLeast
  <2>4. SelectInSeq(s, LAMBDA v : v = e) = i
    BY <2>2, <2>3 DEF SelectInSeq
  <2>5. RemoveFirst(s, e) = RemoveAt(s, i)
    BY <1>2, <2>4 DEF RemoveFirst
  <2> QED
    BY <2>1, <2>5, RemoveAtLeaves
<1>3. CASE ~\E i \in 1..Len(s) : s[i] = e
  BY <1>1, <1>3 DEF RemoveFirst, Range
<1> QED
  BY <1>2, <1>3
=============================================================================
