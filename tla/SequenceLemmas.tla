--------------------------- MODULE SequenceLemmas ---------------------------
(***************************************************************************)
(* What the proofs of the other modules need to know of FlattenSeq and of  *)
(* IsPrefix, for sequences of any length.                                  *)
(***************************************************************************)
EXTENDS Integers, Sequences, SequencesExt, SequenceTheorems,
        WellFoundedInduction, TLAPS

-----------------------------------------------------------------------------
(* Induction over the natural numbers, for a set in place of a predicate.   *)

LEMMA Least ==
  ASSUME NEW T, T \subseteq Nat, T # {}
  PROVE  \E n \in T : \A m \in T : n <= m
<1>1. IsWellFoundedOn(OpToRel(<, Nat), Nat)
  BY NatLessThanWellFounded
<1>2. PICK n \in T : \A m \in T : ~(<<m, n>> \in OpToRel(<, Nat))
  BY <1>1, WFMin
<1>3. ASSUME NEW m \in T PROVE n <= m
  <2>1. ~(m < n)
    BY <1>2 DEF OpToRel
  <2>2. m \in Nat /\ n \in Nat
    OBVIOUS
  <2> QED BY <2>1, <2>2
<1> QED BY <1>3

LEMMA Induction ==
  ASSUME NEW T, 0 \in T, \A n \in Nat : n \in T => n + 1 \in T
  PROVE  Nat \subseteq T
<1> SUFFICES ASSUME Nat \ T # {} PROVE FALSE
  OBVIOUS
<1>1. PICK n \in Nat \ T : \A m \in Nat \ T : n <= m
  <2>1. Nat \ T \subseteq Nat
    OBVIOUS
  <2> QED BY <2>1, Least
<1>2. n # 0 /\ n \in Nat
  BY <1>1
<1>3. n - 1 \in Nat
  BY <1>2
<1>4. n - 1 \in T
  BY <1>1, <1>2, <1>3
<1> QED BY <1>2, <1>3, <1>4

-----------------------------------------------------------------------------
(* The recursive function that FlattenSeq takes its value from.             *)

Flattens(g, ss) ==
    g = [i \in 1..Len(ss) |-> IF i = 1 THEN ss[i] ELSE g[i-1] \o ss[i]]

LEMMA FlattensStep ==
  ASSUME NEW S, NEW ss \in Seq(Seq(S)), NEW s \in Seq(S),
         NEW g \in [1..Len(ss) -> Seq(S)], Flattens(g, ss)
  PROVE  \E h \in [1..Len(ss) + 1 -> Seq(S)] :
             /\ Flattens(h, Append(ss, s))
             /\ h[Len(ss) + 1] = IF Len(ss) = 0 THEN s ELSE g[Len(ss)] \o s
<1>0. PICK n \in Nat : n = Len(ss)
  OBVIOUS
<1> DEFINE h == [i \in 1..n + 1 |-> IF i = n + 1 THEN IF i = 1 THEN s ELSE g[n] \o s
                                    ELSE g[i]]
<1>1. /\ Len(Append(ss, s)) = n + 1
      /\ Append(ss, s)[n + 1] = s
      /\ \A i \in 1..n : Append(ss, s)[i] = ss[i]
  BY <1>0
<1>2. ASSUME NEW i \in 1..n + 1
      PROVE  /\ h[i] = IF i = 1 THEN Append(ss, s)[i] ELSE h[i-1] \o Append(ss, s)[i]
             /\ h[i] \in Seq(S)
  <2>1. CASE i = n + 1 /\ i = 1
    BY <2>1, <1>1
  <2>2. CASE i = n + 1 /\ i # 1
    <3>1. n \in 1..n /\ i - 1 = n /\ n \in 1..n + 1 /\ n # n + 1
      BY <2>2
    <3>2. h[i] = g[n] \o s /\ h[i-1] = g[n]
      BY <3>1, <2>2
    <3>3. g[n] \in Seq(S)
      BY <3>1, <1>0
    <3>4. g[n] \o s \in Seq(S)
      BY <3>3
    <3> HIDE DEF h
    <3> QED BY <3>2, <3>4, <2>2, <1>1
  <2>3. CASE i # n + 1
    <3>1. i \in 1..n
      BY <2>3
    <3>2. h[i] = g[i] /\ g[i] \in Seq(S)
      BY <2>3, <3>1, <1>0
    <3>3. g[i] = IF i = 1 THEN ss[i] ELSE g[i-1] \o ss[i]
      BY <3>1, <1>0 DEF Flattens
    <3>4. i # 1 => h[i-1] = g[i-1]
      BY <3>1
    <3> HIDE DEF h
    <3> QED BY <3>1, <3>2, <3>3, <3>4, <1>1
  <2> QED BY <2>1, <2>2, <2>3
<1>3. h = [i \in 1..n + 1 |-> IF i = 1 THEN Append(ss, s)[i] ELSE h[i-1] \o Append(ss, s)[i]]
  BY <1>2
<1>4. h[n + 1] = IF n = 0 THEN s ELSE g[n] \o s
  OBVIOUS
<1>5. h \in [1..n + 1 -> Seq(S)]
  BY <1>2
<1> HIDE DEF h
<1>6. Flattens(h, Append(ss, s))
  BY <1>1, <1>3 DEF Flattens
<1> QED BY <1>0, <1>4, <1>5, <1>6

\* It exists.
LEMMA FlattensExists ==
  ASSUME NEW S, NEW ss \in Seq(Seq(S))
  PROVE  \E g \in [1..Len(ss) -> Seq(S)] : Flattens(g, ss)
<1> DEFINE T == {n \in Nat : \A tt \in Seq(Seq(S)) : Len(tt) = n =>
                     \E g \in [1..n -> Seq(S)] : Flattens(g, tt)}
<1>1. 0 \in T
  <2> SUFFICES ASSUME NEW tt \in Seq(Seq(S)), Len(tt) = 0
               PROVE  \E g \in [1..0 -> Seq(S)] : Flattens(g, tt)
    OBVIOUS
  <2>1. Flattens([i \in 1..0 |-> <<>>], tt)
    BY DEF Flattens
  <2>2. [i \in 1..0 |-> <<>>] \in [1..0 -> Seq(S)]
    OBVIOUS
  <2> QED BY <2>1, <2>2
<1>2. ASSUME NEW n \in Nat, n \in T PROVE n + 1 \in T
  <2> SUFFICES ASSUME NEW tt \in Seq(Seq(S)), Len(tt) = n + 1
               PROVE  \E g \in [1..n + 1 -> Seq(S)] : Flattens(g, tt)
    OBVIOUS
  <2>1. PICK rr \in Seq(Seq(S)), s \in Seq(S) : tt = Append(rr, s) /\ Len(rr) = n
    <3>1. SubSeq(tt, 1, n) \in Seq(Seq(S)) /\ tt[n + 1] \in Seq(S)
          /\ Len(SubSeq(tt, 1, n)) = n /\ tt = Append(SubSeq(tt, 1, n), tt[n + 1])
      OBVIOUS
    <3> QED BY <3>1
  <2>2. PICK g \in [1..n -> Seq(S)] : Flattens(g, rr)
    BY <2>1, <1>2
  <2> QED BY <2>1, <2>2, FlattensStep
<1> HIDE DEF T
<1>3. Nat \subseteq T
  BY <1>1, <1>2, Induction
<1>4. Len(ss) \in Nat
  OBVIOUS
<1> QED BY <1>3, <1>4 DEF T

\* It is the only one, and the one of a longer sequence extends it.
LEMMA FlattensAgree ==
  ASSUME NEW ss, NEW tt, Len(ss) \in Nat, Len(tt) \in Nat, Len(ss) <= Len(tt),
         \A i \in 1..Len(ss) : ss[i] = tt[i],
         NEW g, Flattens(g, ss), NEW h, Flattens(h, tt)
  PROVE  \A i \in 1..Len(ss) : g[i] = h[i]
<1> DEFINE T == {n \in Nat : n + 1 \in 1..Len(ss) => g[n + 1] = h[n + 1]}
<1>1. 0 \in T
  BY DEF Flattens
<1>2. ASSUME NEW n \in Nat, n \in T PROVE n + 1 \in T
  <2> SUFFICES ASSUME NEW k, k = n + 1 + 1, k \in 1..Len(ss) PROVE g[k] = h[k]
    OBVIOUS
  <2>1. k - 1 \in 1..Len(ss) /\ k \in 1..Len(tt) /\ k # 1 /\ k - 1 = n + 1
    OBVIOUS
  <2>2. g[k] = g[k-1] \o ss[k] /\ h[k] = h[k-1] \o tt[k]
    BY <2>1 DEF Flattens
  <2>3. g[k-1] = h[k-1]
    BY <2>1, <1>2
  <2> QED BY <2>2, <2>3
<1> HIDE DEF T
<1>3. Nat \subseteq T
  BY <1>1, <1>2, Induction
<1>4. ASSUME NEW i \in 1..Len(ss) PROVE g[i] = h[i]
  <2>1. i - 1 \in T /\ i - 1 + 1 = i
    BY <1>3
  <2> QED BY <2>1 DEF T
<1> QED BY <1>4

LEMMA FlattenByRecursion ==
  ASSUME NEW S, NEW ss \in Seq(Seq(S)), Len(ss) # 0,
         NEW g \in [1..Len(ss) -> Seq(S)], Flattens(g, ss)
  PROVE  FlattenSeq(ss) = g[Len(ss)]
<1> DEFINE f == CHOOSE f : Flattens(f, ss)
<1>1. FlattenSeq(ss) = f[Len(ss)]
  BY DEF FlattenSeq, Flattens
<1>2. Flattens(f, ss)
  OBVIOUS
<1> HIDE DEF f
<1>3. Len(ss) \in 1..Len(ss) /\ Len(ss) \in Nat
  OBVIOUS
<1> QED BY <1>1, <1>2, <1>3, FlattensAgree

-----------------------------------------------------------------------------
(* FlattenSeq.                                                              *)

LEMMA FlattenEmpty == FlattenSeq(<<>>) = <<>>
BY DEF FlattenSeq

LEMMA FlattenType ==
  ASSUME NEW S, NEW ss \in Seq(Seq(S))
  PROVE  FlattenSeq(ss) \in Seq(S)
<1>1. CASE Len(ss) = 0
  BY <1>1 DEF FlattenSeq
<1>2. CASE Len(ss) # 0
  <2>1. PICK g \in [1..Len(ss) -> Seq(S)] : Flattens(g, ss)
    BY FlattensExists
  <2>2. FlattenSeq(ss) = g[Len(ss)]
    BY <1>2, <2>1, FlattenByRecursion
  <2>3. Len(ss) \in 1..Len(ss)
    BY <1>2
  <2> QED BY <2>2, <2>3
<1> QED BY <1>1, <1>2

LEMMA FlattenAppend ==
  ASSUME NEW S, NEW ss \in Seq(Seq(S)), NEW s \in Seq(S)
  PROVE  FlattenSeq(Append(ss, s)) = FlattenSeq(ss) \o s
<1>1. PICK g \in [1..Len(ss) -> Seq(S)] : Flattens(g, ss)
  BY FlattensExists
<1>2. PICK h \in [1..Len(ss) + 1 -> Seq(S)] :
             /\ Flattens(h, Append(ss, s))
             /\ h[Len(ss) + 1] = IF Len(ss) = 0 THEN s ELSE g[Len(ss)] \o s
  BY <1>1, FlattensStep
<1>3. Append(ss, s) \in Seq(Seq(S)) /\ Len(Append(ss, s)) = Len(ss) + 1 /\ Len(ss) \in Nat
  OBVIOUS
<1>4. FlattenSeq(Append(ss, s)) = h[Len(ss) + 1]
  <2>1. Len(Append(ss, s)) # 0
    BY <1>3
  <2>2. h \in [1..Len(Append(ss, s)) -> Seq(S)] /\ Flattens(h, Append(ss, s))
    BY <1>2, <1>3
  <2> QED BY <1>3, <2>1, <2>2, FlattenByRecursion
<1>5. CASE Len(ss) = 0
  <2>1. FlattenSeq(ss) = <<>>
    BY <1>5 DEF FlattenSeq
  <2> QED BY <1>4, <1>2, <1>5, <2>1
<1>6. CASE Len(ss) # 0
  <2>1. FlattenSeq(ss) = g[Len(ss)]
    BY <1>1, <1>6, FlattenByRecursion
  <2> QED BY <1>4, <1>2, <1>6, <2>1
<1> QED BY <1>5, <1>6

LEMMA ConcatAppend ==
  ASSUME NEW S, NEW s \in Seq(S), NEW t \in Seq(S), NEW e \in S
  PROVE  s \o Append(t, e) = Append(s \o t, e)
<1>1. <<e>> \in Seq(S) /\ s \o t \in Seq(S)
  OBVIOUS
<1>2. Append(t, e) = t \o <<e>>
  BY AppendIsConcat
<1>3. Append(s \o t, e) = (s \o t) \o <<e>>
  BY <1>1, AppendIsConcat
<1> QED BY <1>1, <1>2, <1>3, ConcatAssociative

LEMMA FlattenConcat ==
  ASSUME NEW S, NEW ss \in Seq(Seq(S)), NEW tt \in Seq(Seq(S))
  PROVE  FlattenSeq(ss \o tt) = FlattenSeq(ss) \o FlattenSeq(tt)
<1> DEFINE T == {n \in Nat : \A uu \in Seq(Seq(S)) : Len(uu) = n =>
                     FlattenSeq(ss \o uu) = FlattenSeq(ss) \o FlattenSeq(uu)}
<1>1. 0 \in T
  <2> SUFFICES ASSUME NEW uu \in Seq(Seq(S)), Len(uu) = 0
               PROVE  FlattenSeq(ss \o uu) = FlattenSeq(ss) \o FlattenSeq(uu)
    OBVIOUS
  <2>1. ss \o uu = ss /\ uu = <<>>
    OBVIOUS
  <2>2. FlattenSeq(ss) \in Seq(S)
    BY FlattenType
  <2>3. FlattenSeq(ss) \o <<>> = FlattenSeq(ss)
    BY <2>2
  <2> QED BY <2>1, <2>3, FlattenEmpty
<1>2. ASSUME NEW n \in Nat, n \in T PROVE n + 1 \in T
  <2> SUFFICES ASSUME NEW uu \in Seq(Seq(S)), Len(uu) = n + 1
               PROVE  FlattenSeq(ss \o uu) = FlattenSeq(ss) \o FlattenSeq(uu)
    OBVIOUS
  <2>1. PICK rr \in Seq(Seq(S)), s \in Seq(S) : uu = Append(rr, s) /\ Len(rr) = n
    <3>1. SubSeq(uu, 1, n) \in Seq(Seq(S)) /\ uu[n + 1] \in Seq(S)
          /\ Len(SubSeq(uu, 1, n)) = n /\ uu = Append(SubSeq(uu, 1, n), uu[n + 1])
      OBVIOUS
    <3> QED BY <3>1
  <2>2. ss \o Append(rr, s) = Append(ss \o rr, s) /\ ss \o rr \in Seq(Seq(S))
    <3>1. /\ ss \o rr \in Seq(Seq(S)) /\ <<s>> \in Seq(Seq(S))
          /\ rr \in Seq(Seq(S)) /\ s \in Seq(S)
      BY <2>1
    <3> QED BY <3>1, ConcatAppend, SMTT(30)
  <2>3. FlattenSeq(ss \o uu) = FlattenSeq(ss \o rr) \o s
    BY <2>1, <2>2, FlattenAppend
  <2>4. FlattenSeq(ss \o rr) = FlattenSeq(ss) \o FlattenSeq(rr)
    BY <2>1, <1>2
  <2>5. FlattenSeq(uu) = FlattenSeq(rr) \o s
    BY <2>1, FlattenAppend
  <2>6. FlattenSeq(ss) \in Seq(S) /\ FlattenSeq(rr) \in Seq(S)
    BY FlattenType
  <2>7. (FlattenSeq(ss) \o FlattenSeq(rr)) \o s = FlattenSeq(ss) \o (FlattenSeq(rr) \o s)
    BY <2>1, <2>6, ConcatAssociative, SMTT(30)
  <2> QED BY <2>3, <2>4, <2>5, <2>7
<1> HIDE DEF T
<1>3. Nat \subseteq T
  BY <1>1, <1>2, Induction
<1>4. Len(tt) \in Nat
  OBVIOUS
<1> QED BY <1>3, <1>4 DEF T

\* The first sequence is the first part.
LEMMA FlattenHead ==
  ASSUME NEW S, NEW ss \in Seq(Seq(S)), ss # <<>>
  PROVE  FlattenSeq(ss) = Head(ss) \o FlattenSeq(Tail(ss))
<1>1. /\ Head(ss) \in Seq(S) /\ Tail(ss) \in Seq(Seq(S))
      /\ <<Head(ss)>> \in Seq(Seq(S)) /\ ss = <<Head(ss)>> \o Tail(ss)
  OBVIOUS
<1>2. FlattenSeq(ss) = FlattenSeq(<<Head(ss)>>) \o FlattenSeq(Tail(ss))
  BY <1>1, FlattenConcat
<1>3. <<Head(ss)>> = Append(<<>>, Head(ss)) /\ <<>> \in Seq(Seq(S))
  OBVIOUS
<1>4. FlattenSeq(<<Head(ss)>>) = <<>> \o Head(ss)
  BY <1>1, <1>3, FlattenAppend, FlattenEmpty
<1> QED BY <1>1, <1>2, <1>4, ConcatEmptySeq

-----------------------------------------------------------------------------
(* Concatenation and prefixes.                                              *)

\* The two parts of a concatenation.
LEMMA Cut ==
  ASSUME NEW S, NEW s \in Seq(S), NEW t \in Seq(S)
  PROVE  /\ Len(s \o t) = Len(s) + Len(t) /\ Len(s \o t) - Len(t) = Len(s)
         /\ SubSeq(s \o t, 1, Len(s)) = s
         /\ SubSeq(s \o t, Len(s) + 1, Len(s \o t)) = t
<1>1. /\ s \o t \in Seq(S)
      /\ Len(s \o t) = Len(s) + Len(t)
      /\ \A i \in 1..Len(s \o t) :
            (s \o t)[i] = IF i <= Len(s) THEN s[i] ELSE t[i - Len(s)]
  BY ConcatProperties
<1>2. /\ Len(s) \in Nat /\ Len(t) \in Nat
      /\ Len(s \o t) - Len(t) = Len(s)
  BY <1>1
<1>3. SubSeq(s \o t, 1, Len(s)) = s
  <2>1. /\ SubSeq(s \o t, 1, Len(s)) \in Seq(S)
        /\ Len(SubSeq(s \o t, 1, Len(s))) = Len(s)
        /\ \A i \in 1..Len(s) : SubSeq(s \o t, 1, Len(s))[i] = (s \o t)[i]
    BY <1>1, <1>2, SubSeqProperties
  <2> QED BY <2>1, <1>1, <1>2, SeqEqual
<1>4. SubSeq(s \o t, Len(s) + 1, Len(s \o t)) = t
  <2> DEFINE u == SubSeq(s \o t, Len(s) + 1, Len(s \o t))
  <2>1. /\ u \in Seq(S) /\ Len(u) = Len(t)
        /\ \A i \in 1..Len(t) : u[i] = (s \o t)[Len(s) + i]
    BY <1>1, <1>2, SubSeqProperties
  <2>2. \A i \in 1..Len(t) : u[i] = t[i]
    BY <2>1, <1>1, <1>2
  <2> HIDE DEF u
  <2>3. u = t
    BY <2>1, <2>2, SeqEqual
  <2> QED BY <2>3 DEF u
<1> QED BY <1>1, <1>2, <1>3, <1>4

\* Two concatenations that are equal, and whose first parts are as long.
LEMMA SameCut ==
  ASSUME NEW S, NEW s \in Seq(S), NEW t \in Seq(S), NEW u \in Seq(S), NEW v \in Seq(S),
         s \o t = u \o v, Len(s) = Len(u)
  PROVE  s = u /\ t = v
<1>1. /\ SubSeq(s \o t, 1, Len(s)) = s
      /\ SubSeq(s \o t, Len(s) + 1, Len(s \o t)) = t
  BY Cut
<1>2. /\ SubSeq(u \o v, 1, Len(u)) = u
      /\ SubSeq(u \o v, Len(u) + 1, Len(u \o v)) = v
  BY Cut
<1> QED BY <1>1, <1>2

\* Concatenation is associative, said in one word.
Grouped(s, t, u) == (s \o t) \o u = s \o (t \o u)

LEMMA Associates ==
  ASSUME NEW S, NEW s \in Seq(S), NEW t \in Seq(S), NEW u \in Seq(S)
  PROVE  Grouped(s, t, u)
BY ConcatAssociative DEF Grouped

LEMMA Regroup ==
  ASSUME NEW S, NEW w \in Seq(S), NEW x \in Seq(S), NEW y \in Seq(S), NEW z \in Seq(S)
  PROVE  w \o (x \o (y \o z)) = (w \o (x \o y)) \o z
<1>1. x \o (y \o z) = (x \o y) \o z
  BY ConcatAssociative, SMTT(60)
<1>2. x \o y \in Seq(S)
  OBVIOUS
<1>3. PICK p \in Seq(S) : p = x \o y
  BY <1>2
<1>4. w \o (p \o z) = (w \o p) \o z
  BY ConcatAssociative, SMTT(60)
<1> QED BY <1>1, <1>3, <1>4, Zenon

LEMMA HeadMoves ==
  ASSUME NEW S, NEW s \in Seq(S), NEW t \in Seq(S), t # <<>>
  PROVE  s \o t = Append(s, Head(t)) \o Tail(t)
<1>1. PICK e \in S, r \in Seq(S) : e = Head(t) /\ r = Tail(t)
  <2>1. Head(t) \in S /\ Tail(t) \in Seq(S)
    OBVIOUS
  <2> QED BY <2>1
<1>2. <<e>> \in Seq(S) /\ t = <<e>> \o r
  BY <1>1
<1>3. PICK h \in Seq(S) : h = <<e>>
  BY <1>2
<1>4. s \o (h \o r) = (s \o h) \o r
  BY ConcatAssociative, SMTT(30)
<1>5. Append(s, e) = s \o h
  BY <1>3, AppendIsConcat
<1> QED BY <1>1, <1>2, <1>3, <1>4, <1>5

\* A sequence cut in two.
LEMMA Joined ==
  ASSUME NEW S, NEW s \in Seq(S), NEW n \in 0..Len(s)
  PROVE  /\ SubSeq(s, 1, n) \in Seq(S) /\ Len(SubSeq(s, 1, n)) = n
         /\ SubSeq(s, n + 1, Len(s)) \in Seq(S)
         /\ s = SubSeq(s, 1, n) \o SubSeq(s, n + 1, Len(s))
<1>1. Len(s) \in Nat /\ 1 \in 1..Len(s) + 1 /\ n \in 1 - 1..Len(s) /\ Len(s) \in n..Len(s)
  OBVIOUS
<1>2. SubSeq(s, 1, n) \o SubSeq(s, n + 1, Len(s)) = SubSeq(s, 1, Len(s))
  BY <1>1, ConcatAdjacentSubSeq
<1>3. SubSeq(s, 1, Len(s)) = s
  BY SubSeqFull
<1>4. /\ \A i \in 1..n : s[i] \in S
      /\ \A i \in n + 1..Len(s) : s[i] \in S
  BY <1>1
<1>5. SubSeq(s, 1, n) \in Seq(S) /\ Len(SubSeq(s, 1, n)) = n
  BY <1>1, <1>4, SubSeqProperties
<1>6. SubSeq(s, n + 1, Len(s)) \in Seq(S)
  BY <1>1, <1>4, SubSeqProperties
<1> QED BY <1>2, <1>3, <1>5, <1>6

LEMMA PrefixOfConcat ==
  ASSUME NEW S, NEW s \in Seq(S), NEW t \in Seq(S)
  PROVE  IsPrefix(s, s \o t)
<1>1. SubSeq(s \o t, 1, Len(s)) = s /\ Len(s \o t) = Len(s) + Len(t)
  BY Cut
<1>2. SubSeq(s, 1, Len(s)) = s
  BY SubSeqFull
<1> QED BY <1>1, <1>2 DEF IsPrefix

LEMMA PrefixIsPart ==
  ASSUME NEW S, NEW s \in Seq(S), NEW t \in Seq(S), IsPrefix(s, t)
  PROVE  \E u \in Seq(S) : t = s \o u
<1>1. Len(s) \in 0..Len(t) /\ SubSeq(t, 1, Len(s)) = s
  BY SubSeqFull DEF IsPrefix
<1>2. /\ SubSeq(t, Len(s) + 1, Len(t)) \in Seq(S)
      /\ t = SubSeq(t, 1, Len(s)) \o SubSeq(t, Len(s) + 1, Len(t))
  BY <1>1, Joined
<1> QED BY <1>1, <1>2

\* What is added to the end leaves a prefix one.
LEMMA PrefixGrows ==
  ASSUME NEW S, NEW s \in Seq(S), NEW t \in Seq(S), NEW u \in Seq(S), IsPrefix(s, t)
  PROVE  IsPrefix(s, t \o u)
<1>1. PICK v \in Seq(S) : t = s \o v
  BY PrefixIsPart
<1>2. t \o u = s \o (v \o u) /\ v \o u \in Seq(S)
  BY <1>1, ConcatAssociative
<1> QED BY <1>2, PrefixOfConcat

-----------------------------------------------------------------------------
(* The concatenation of what a function makes of each element.               *)

Maps(F, A, S) == F \in [A -> Seq(S)]
Each(F, q) == [i \in DOMAIN q |-> F[q[i]]]
Mapped(F, q) == FlattenSeq(Each(F, q))

LEMMA MapType ==
  ASSUME NEW A, NEW S, NEW F, Maps(F, A, S), NEW q \in Seq(A)
  PROVE  /\ Each(F, q) \in Seq(Seq(S)) /\ Len(Each(F, q)) = Len(q)
         /\ \A i \in 1..Len(q) : Each(F, q)[i] = F[q[i]]
<1>1. Len(q) \in Nat /\ DOMAIN q = 1..Len(q)
  OBVIOUS
<1>2. \A i \in 1..Len(q) : F[q[i]] \in Seq(S)
  BY DEF Maps
<1> QED BY <1>1, <1>2 DEF Each

LEMMA MappedType ==
  ASSUME NEW A, NEW S, NEW F, Maps(F, A, S), NEW q \in Seq(A)
  PROVE  Mapped(F, q) \in Seq(S)
BY MapType, FlattenType DEF Mapped

LEMMA MappedEmpty == ASSUME NEW F PROVE Mapped(F, <<>>) = <<>>
<1>1. Each(F, <<>>) = <<>>
  BY DEF Each
<1> QED BY <1>1, FlattenEmpty DEF Mapped

LEMMA Elements ==
  ASSUME NEW S, NEW s \in Seq(S), NEW t \in Seq(S)
  PROVE  /\ s \o t \in Seq(S) /\ Len(s \o t) = Len(s) + Len(t)
         /\ \A i \in 1..Len(s) : (s \o t)[i] = s[i]
         /\ \A i \in 1..Len(t) : (s \o t)[Len(s) + i] = t[i]
OBVIOUS

LEMMA FirstPart ==
  ASSUME NEW S, NEW T, NEW s \in Seq(S), NEW t \in Seq(S), s \o t \in Seq(T)
  PROVE  s \in Seq(T)
<1>1. \A i \in 1..Len(s) : s[i] \in T
  <2> SUFFICES ASSUME NEW i \in 1..Len(s) PROVE s[i] \in T
    OBVIOUS
  <2>1. (s \o t)[i] = s[i] /\ i \in 1..Len(s \o t)
    BY Elements
  <2>2. PICK u \in Seq(T) : u = s \o t
    OBVIOUS
  <2> QED BY <2>1, <2>2
<1>2. Len(s) \in Nat /\ s = [i \in 1..Len(s) |-> s[i]]
  OBVIOUS
<1> QED BY <1>1, <1>2

LEMMA SecondPart ==
  ASSUME NEW S, NEW T, NEW s \in Seq(S), NEW t \in Seq(S), s \o t \in Seq(T)
  PROVE  t \in Seq(T)
<1>1. \A i \in 1..Len(t) : t[i] \in T
  <2> SUFFICES ASSUME NEW i \in 1..Len(t) PROVE t[i] \in T
    OBVIOUS
  <2>1. (s \o t)[Len(s) + i] = t[i] /\ Len(s) + i \in 1..Len(s \o t)
    BY Elements
  <2>2. PICK u \in Seq(T) : u = s \o t
    OBVIOUS
  <2> QED BY <2>1, <2>2
<1>2. Len(t) \in Nat /\ t = [i \in 1..Len(t) |-> t[i]]
  OBVIOUS
<1> QED BY <1>1, <1>2

LEMMA MappedConcat ==
  ASSUME NEW A, NEW S, NEW F, Maps(F, A, S), NEW q \in Seq(A), NEW r \in Seq(A)
  PROVE  Mapped(F, q \o r) = Mapped(F, q) \o Mapped(F, r)
<1>1. PICK s \in Seq(A) :
          /\ s = q \o r /\ Len(s) = Len(q) + Len(r)
          /\ \A i \in 1..Len(q) : s[i] = q[i]
          /\ \A i \in 1..Len(r) : s[Len(q) + i] = r[i]
  <2>1. q \o r \in Seq(A) /\ Len(q \o r) = Len(q) + Len(r)
    BY Elements
  <2>2. /\ \A i \in 1..Len(q) : (q \o r)[i] = q[i]
        /\ \A i \in 1..Len(r) : (q \o r)[Len(q) + i] = r[i]
    BY Elements
  <2> QED BY <2>1, <2>2
<1>2. /\ Each(F, q) \in Seq(Seq(S)) /\ Len(Each(F, q)) = Len(q)
      /\ \A i \in 1..Len(q) : Each(F, q)[i] = F[q[i]]
  BY MapType
<1>3. /\ Each(F, r) \in Seq(Seq(S)) /\ Len(Each(F, r)) = Len(r)
      /\ \A i \in 1..Len(r) : Each(F, r)[i] = F[r[i]]
  BY MapType
<1>4. /\ Each(F, s) \in Seq(Seq(S)) /\ Len(Each(F, s)) = Len(s)
      /\ \A i \in 1..Len(s) : Each(F, s)[i] = F[s[i]]
  BY MapType
<1>5. PICK f \in Seq(Seq(S)), g \in Seq(Seq(S)), h \in Seq(Seq(S)) :
          f = Each(F, q) /\ g = Each(F, r) /\ h = Each(F, s)
  BY <1>2, <1>3, <1>4
<1>10. Len(f) = Len(q) /\ Len(g) = Len(r)
  BY <1>2, <1>3, <1>5
<1>6. /\ f \o g \in Seq(Seq(S)) /\ Len(f \o g) = Len(q) + Len(r)
      /\ \A i \in 1..Len(q) : (f \o g)[i] = f[i]
      /\ \A i \in 1..Len(r) : (f \o g)[Len(q) + i] = g[i]
  <2>1. PICK T : T = Seq(S)
    OBVIOUS
  <2>2. f \in Seq(T) /\ g \in Seq(T)
    BY <2>1
  <2>3. f \o g \in Seq(T) /\ Len(f \o g) = Len(f) + Len(g)
    BY <2>2, Elements
  <2>4. /\ \A i \in 1..Len(f) : (f \o g)[i] = f[i]
        /\ \A i \in 1..Len(g) : (f \o g)[Len(f) + i] = g[i]
    BY <2>2, Elements
  <2> QED BY <1>10, <2>1, <2>3, <2>4
<1>7. ASSUME NEW i \in 1..Len(q) + Len(r) PROVE h[i] = (f \o g)[i]
  <2>1. h[i] = F[s[i]] /\ Len(q) \in Nat /\ Len(r) \in Nat
    BY <1>1, <1>4, <1>5, SMTT(20)
  <2>2. CASE i <= Len(q)
    <3>1. i \in 1..Len(q)
      BY <2>1, <2>2
    <3> QED BY <1>1, <1>2, <1>5, <1>6, <2>1, <3>1
  <2>3. CASE ~(i <= Len(q))
    <3>1. PICK k \in 1..Len(r) : i = Len(q) + k
      <4>1. i - Len(q) \in 1..Len(r) /\ i = Len(q) + (i - Len(q))
        BY <2>1, <2>3
      <4> QED BY <4>1
    <3> QED BY <1>1, <1>3, <1>5, <1>6, <2>1, <3>1
  <2> QED BY <2>2, <2>3
<1>8. h = f \o g
  <2>1. Len(h) = Len(f \o g) /\ Len(h) = Len(q) + Len(r)
    BY <1>1, <1>4, <1>5, <1>6
  <2>2. PICK T : T = Seq(S)
    OBVIOUS
  <2>3. PICK u \in Seq(T) : u = f \o g
    BY <1>6, <2>2
  <2>4. h \in Seq(T) /\ \A i \in 1..Len(h) : h[i] = u[i]
    BY <1>7, <2>1, <2>2, <2>3
  <2> QED BY <2>1, <2>3, <2>4, SeqEqual
<1>9. FlattenSeq(f \o g) = FlattenSeq(f) \o FlattenSeq(g)
  BY FlattenConcat
<1> QED BY <1>1, <1>5, <1>8, <1>9 DEF Mapped

LEMMA MappedOne ==
  ASSUME NEW A, NEW S, NEW F, Maps(F, A, S), NEW a \in A
  PROVE  Mapped(F, <<a>>) = F[a]
<1>1. PICK s \in Seq(S) : s = F[a]
  <2>1. F[a] \in Seq(S)
    BY DEF Maps
  <2> QED BY <2>1
<1>2. Each(F, <<a>>) = <<s>>
  BY <1>1 DEF Each
<1>3. <<s>> \in Seq(Seq(S)) /\ <<s>> # <<>> /\ Head(<<s>>) = s /\ Tail(<<s>>) = <<>>
  OBVIOUS
<1>4. FlattenSeq(<<s>>) = s \o FlattenSeq(<<>>)
  BY <1>3, FlattenHead
<1> QED BY <1>1, <1>2, <1>4, FlattenEmpty, ConcatEmptySeq DEF Mapped

LEMMA MappedAppend ==
  ASSUME NEW A, NEW S, NEW F, Maps(F, A, S), NEW q \in Seq(A), NEW a \in A
  PROVE  Mapped(F, Append(q, a)) = Mapped(F, q) \o F[a]
<1>1. PICK s \in Seq(A) : s = <<a>>
  <2>1. <<a>> \in Seq(A)
    OBVIOUS
  <2> QED BY <2>1
<1>2. Append(q, a) = q \o s
  BY <1>1, AppendIsConcat
<1>3. Mapped(F, s) = F[a]
  BY <1>1, MappedOne
<1>4. Mapped(F, q \o s) = Mapped(F, q) \o Mapped(F, s)
  BY MappedConcat
<1> QED BY <1>2, <1>3, <1>4

LEMMA MappedHead ==
  ASSUME NEW A, NEW S, NEW F, Maps(F, A, S), NEW q \in Seq(A), q # <<>>
  PROVE  Mapped(F, q) = F[Head(q)] \o Mapped(F, Tail(q))
<1>1. PICK a \in A, r \in Seq(A) : a = Head(q) /\ r = Tail(q) /\ q = <<a>> \o r
  <2>1. Head(q) \in A /\ Tail(q) \in Seq(A) /\ q = <<Head(q)>> \o Tail(q)
    OBVIOUS
  <2> QED BY <2>1
<1>2. PICK s \in Seq(A) : s = <<a>>
  <2>1. <<a>> \in Seq(A)
    OBVIOUS
  <2> QED BY <2>1
<1>3. Mapped(F, s \o r) = Mapped(F, s) \o Mapped(F, r)
  BY MappedConcat
<1>4. Mapped(F, s) = F[a]
  BY <1>2, MappedOne
<1> QED BY <1>1, <1>2, <1>3, <1>4
=============================================================================
