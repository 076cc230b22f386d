----------------------------- MODULE Paths_proofs -----------------------------
(***************************************************************************)
(* Theorems about Paths, for every text, alphabet, delimiter and working    *)
(* directory.  The loops of helpers.cpp are recursive functions on the      *)
(* positions of a string; what holds at every position is proved from the   *)
(* last position down.                                                      *)
(***************************************************************************)
EXTENDS Paths, SequenceTheorems, WellFoundedInduction, TLAPS

-----------------------------------------------------------------------------
(* Positions.                                                              *)

\* A set of numbers that is not empty has a least one.
LEMMA LeastOf ==
    ASSUME NEW L, L \subseteq Nat, L # {}
    PROVE  \E m \in L : \A n \in L : m <= n
  <1> DEFINE Less == {ss \in Nat \X Nat : ss[1] < ss[2]}
  <1>1. IsWellFoundedOn(Less, Nat)
    BY NatLessThanWellFounded DEF OpToRel
  <1> HIDE DEF Less
  <1>2. PICK m \in L : \A n \in Nat : <<n, m>> \in Less => n \notin L
    BY <1>1, WFMin
  <1>3. \A n \in L : ~(n < m)
    BY <1>2 DEF Less
  <1>4. \A n \in L : m <= n
    BY <1>3
  <1>5. QED
    BY <1>4

\* What holds at a position whenever it holds at all the later ones holds at
\* every position.
LEMMA FromTheLast ==
    ASSUME NEW n \in Nat, NEW P,
           \A i \in 1..n : (\A j \in (i + 1)..n : j \in P) => i \in P
    PROVE  1..n \subseteq P
  <1> SUFFICES ASSUME NEW bad \in 1..n, bad \notin P
               PROVE  FALSE
    OBVIOUS
  <1> DEFINE L == {k \in Nat : \E i \in 1..n : i \notin P /\ k = n - i}
  <1>1. L \subseteq Nat /\ n - bad \in L
    OBVIOUS
  <1> HIDE DEF L
  <1>2. PICK m \in L : \A k \in L : m <= k
    BY <1>1, LeastOf
  <1>3. PICK i \in 1..n : i \notin P /\ m = n - i
    BY <1>2 DEF L
  <1>4. \A j \in (i + 1)..n : j \in P
    BY <1>2, <1>3 DEF L
  <1>5. QED
    BY <1>3, <1>4

\* The least and the greatest of some positions.
LEMMA MinPosition ==
    ASSUME NEW S, S # {}, \A i \in S : i \in Nat
    PROVE  Min(S) \in S /\ \A i \in S : Min(S) <= i
  <1>1. \E m \in S : \A i \in S : m <= i
    BY LeastOf
  <1>2. QED
    BY <1>1 DEF Min

LEMMA MaxPosition ==
    ASSUME NEW n \in Nat, NEW S, S # {}, \A i \in S : i \in 0..n
    PROVE  Max(S) \in S /\ \A i \in S : i <= Max(S)
  <1> DEFINE L == {k \in Nat : \E i \in S : k = n - i}
  <1>1. L \subseteq Nat /\ L # {}
    OBVIOUS
  <1> HIDE DEF L
  <1>2. PICK k \in L : \A j \in L : k <= j
    BY <1>1, LeastOf
  <1>3. PICK m \in S : k = n - m
    BY <1>2 DEF L
  <1>4. \A i \in S : m >= i
    BY <1>2, <1>3 DEF L
  <1>5. QED
    BY <1>3, <1>4 DEF Max

-----------------------------------------------------------------------------
(* Sequences.                                                              *)

\* One element before a sequence.
LEMMA OneBefore ==
    ASSUME NEW S, NEW e \in S, NEW q \in Seq(S)
    PROVE  /\ <<e>> \o q \in Seq(S)
           /\ Len(<<e>> \o q) = 1 + Len(q)
           /\ (<<e>> \o q)[1] = e
           /\ Tail(<<e>> \o q) = q
  <1> DEFINE one == <<e>>
             all == one \o q
  <1>1. one \in Seq(S) /\ Len(one) = 1 /\ one[1] = e
    OBVIOUS
  <1> HIDE DEF one
  <1>2. Len(q) \in Nat
    BY LenProperties
  <1>3. /\ all \in Seq(S) /\ Len(all) = 1 + Len(q)
        /\ \A i \in 1..(1 + Len(q)) : all[i] = IF i <= 1 THEN one[i] ELSE q[i - 1]
    <2>1. /\ all \in Seq(S) /\ Len(all) = Len(one) + Len(q)
          /\ \A i \in 1..(Len(one) + Len(q)) : all[i] = IF i <= Len(one) THEN one[i] ELSE q[i - Len(one)]
      BY <1>1, ConcatProperties
    <2> HIDE DEF all
    <2>2. QED
      BY <1>1, <2>1
  <1> HIDE DEF all
  <1>4. all[1] = e
    BY <1>1, <1>2, <1>3
  <1>5. /\ Tail(all) \in Seq(S) /\ Len(Tail(all)) = Len(q)
        /\ \A i \in 1..Len(q) : Tail(all)[i] = all[i + 1]
    <2>1. all # <<>>
      BY <1>2, <1>3, EmptySeq
    <2>2. /\ Tail(all) \in Seq(S) /\ Len(Tail(all)) = Len(all) - 1
          /\ \A i \in 1..Len(Tail(all)) : Tail(all)[i] = all[i + 1]
      BY <1>3, <2>1, HeadTailProperties
    <2>3. QED
      BY <1>2, <1>3, <2>2
  <1>6. Tail(all) = q
    <2>1. \A i \in 1..Len(q) : Tail(all)[i] = q[i]
      BY <1>2, <1>3, <1>5
    <2>2. QED
      BY <1>5, <2>1, SeqEqual
  <1>7. QED
    BY <1>3, <1>4, <1>6 DEF one, all

LEMMA TailOfOne ==
    ASSUME NEW e
    PROVE  Tail(<<e>>) = <<>>
  <1>1. <<e>> \in Seq({e}) /\ <<e>> # <<>> /\ Len(<<e>>) = 1
    OBVIOUS
  <1>2. Tail(<<e>>) \in Seq({e}) /\ Len(Tail(<<e>>)) = 0
    BY <1>1, HeadTailProperties
  <1>3. QED
    BY <1>2, EmptySeq

\* Three sequences, joined in either order.
Associates(p, q, r) == (p \o q) \o r = p \o (q \o r)

LEMMA ConcatAssociates ==
    ASSUME NEW S, NEW p \in Seq(S), NEW q \in Seq(S), NEW r \in Seq(S)
    PROVE  Associates(p, q, r)
  BY ConcatAssociative, SMTT(30) DEF Associates

-----------------------------------------------------------------------------
(* The loops.  Each appends something at a position and goes on at a later   *)
(* one, or ends.                                                           *)

IsLoop(n, T, next, last, part) ==
    /\ next \in [1..n -> 0..n]
    /\ last \in [1..n -> Seq(T)]
    /\ part \in [1..n -> Seq(T)]
    /\ \A i \in 1..n : next[i] = 0 \/ next[i] > i

Runs(f, n, next, last, part) ==
    f = [i \in 1..n |-> IF next[i] = 0 THEN last[i] ELSE part[i] \o f[next[i]]]

\* A loop that goes on at later positions only has a result.
LEMMA LoopEnds ==
    ASSUME NEW n \in Nat \ {0}, NEW T, NEW next, NEW last, NEW part,
           IsLoop(n, T, next, last, part)
    PROVE  \E f : Runs(f, n, next, last, part)
  <1> DEFINE
        At(f, i) == IF next[i] = 0 THEN last[i] ELSE part[i] \o f[next[i]]
        From(m) == \E f : f = [i \in m..n |-> At(f, i)]
        P == {m \in 1..n : From(m)}
  <1>1. \A i \in 1..n : next[i] # 0 => next[i] \in (i + 1)..n
    BY DEF IsLoop
  <1>2. From(n)
    <2> DEFINE f == [i \in n..n |-> last[i]]
    <2>1. \A i \in n..n : last[i] = At(f, i)
      BY <1>1
    <2>2. f = [i \in n..n |-> At(f, i)]
      BY <2>1
    <2>3. QED
      BY <2>2
  <1>3. ASSUME NEW m \in 1..n, NEW f, f = [i \in (m + 1)..n |-> At(f, i)]
        PROVE  From(m)
    <2> DEFINE g == [i \in m..n |-> At(f, i)]
    <2> HIDE DEF At
    <2>1. \A i \in (m + 1)..n : f[i] = At(f, i)
      BY <1>3
    <2>2. \A i \in (m + 1)..n : g[i] = At(f, i)
      OBVIOUS
    <2>3. \A i \in (m + 1)..n : g[i] = f[i]
      BY <2>1, <2>2
    <2> HIDE DEF g
    <2>4. \A i \in m..n : next[i] # 0 => g[next[i]] = f[next[i]]
      BY <1>1, <2>3
    <2>5. \A i \in m..n : At(f, i) = At(g, i)
      BY <2>4 DEF At
    <2>6. g = [i \in m..n |-> At(g, i)]
      BY <2>5 DEF g
    <2>7. QED
      BY <2>6
  <1> HIDE DEF At
  <1>4. \A m \in 1..n : (\A j \in (m + 1)..n : j \in P) => m \in P
    <2> SUFFICES ASSUME NEW m \in 1..n, \A j \in (m + 1)..n : j \in P
                 PROVE  From(m)
      OBVIOUS
    <2>1. CASE m = n
      BY <1>2, <2>1
    <2>2. CASE m # n
      <3>1. From(m + 1)
        BY <2>2
      <3>2. QED
        BY <1>3, <3>1
    <2>3. QED
      BY <2>1, <2>2
  <1> HIDE DEF P
  <1>5. 1 \in P
    <2>1. 1..n \subseteq P
      BY <1>4, FromTheLast
    <2>2. QED
      BY <2>1
  <1>6. PICK f : f = [i \in 1..n |-> At(f, i)]
    BY <1>5 DEF P
  <1>7. Runs(f, n, next, last, part)
    BY <1>6 DEF Runs, At
  <1>8. QED
    BY <1>7

\* What a loop has appended, at each position, and that it is a sequence.
LEMMA LoopStep ==
    ASSUME NEW n \in Nat \ {0}, NEW T, NEW next, NEW last, NEW part,
           IsLoop(n, T, next, last, part),
           NEW f, Runs(f, n, next, last, part)
    PROVE  \A i \in 1..n :
             /\ f[i] = IF next[i] = 0 THEN last[i] ELSE part[i] \o f[next[i]]
             /\ f[i] \in Seq(T)
  <1> DEFINE At(i) == IF next[i] = 0 THEN last[i] ELSE part[i] \o f[next[i]]
  <1>1. \A i \in 1..n : f[i] = At(i)
    <2> HIDE DEF At
    <2>1. f = [i \in 1..n |-> At(i)]
      BY DEF Runs, At
    <2>2. QED
      BY <2>1
  <1> DEFINE P == {i \in 1..n : f[i] \in Seq(T)}
  <1>2. \A i \in 1..n : (\A j \in (i + 1)..n : j \in P) => i \in P
    <2> SUFFICES ASSUME NEW i \in 1..n, \A j \in (i + 1)..n : j \in P
                 PROVE  f[i] \in Seq(T)
      OBVIOUS
    <2>1. next[i] # 0 => f[next[i]] \in Seq(T)
      BY SMTT(30) DEF IsLoop
    <2>2. last[i] \in Seq(T) /\ part[i] \in Seq(T)
      BY DEF IsLoop
    <2>3. next[i] # 0 => part[i] \o f[next[i]] \in Seq(T)
      BY <2>1, <2>2, ConcatProperties
    <2>4. QED
      BY <1>1, <2>2, <2>3
  <1>3. 1..n \subseteq P
    BY <1>2, FromTheLast
  <1>4. QED
    BY <1>1, <1>3

-----------------------------------------------------------------------------
(* std::string::substr and std::string::find.                              *)

\* The part of a string from i to j.
LEMMA Slice ==
    ASSUME NEW T, NEW s \in Seq(T), NEW i \in 1..(Len(s) + 1), NEW j \in (i - 1)..Len(s)
    PROVE  /\ SubSeq(s, i, j) \in Seq(T)
           /\ Len(SubSeq(s, i, j)) = j - i + 1
           /\ \A l \in 1..(j - i + 1) : SubSeq(s, i, j)[l] = s[i + l - 1]
  <1>1. Len(s) \in Nat
    BY LenProperties
  <1>2. \A l \in i..j : s[l] \in T
    BY <1>1, ElementOfSeq
  <1>3. /\ SubSeq(s, i, j) \in Seq(T)
        /\ Len(SubSeq(s, i, j)) = IF i <= j THEN j - i + 1 ELSE 0
        /\ \A l \in 1..(j - i + 1) : SubSeq(s, i, j)[l] = s[i + l - 1]
    BY <1>1, <1>2, SubSeqProperties
  <1>4. QED
    BY <1>1, <1>3

Occurs(s, d, i) == i \in 1..(Len(s) - Len(d) + 1) /\ SubSeq(s, i, i + Len(d) - 1) = d

\* Find is the first occurrence, and 0 if there is none.
LEMMA FindIs ==
    ASSUME NEW T, NEW s \in Seq(T), NEW d \in Seq(T), d # <<>>,
           NEW from \in 1..(Len(s) + 1)
    PROVE  /\ Find(s, d, from) \in 0..Len(s)
           /\ Find(s, d, from) = 0 => \A i \in from..Len(s) : ~Occurs(s, d, i)
           /\ Find(s, d, from) # 0 =>
                /\ Find(s, d, from) \in from..Len(s)
                /\ Find(s, d, from) + Len(d) <= Len(s) + 1
                /\ Occurs(s, d, Find(s, d, from))
                /\ \A i \in from..(Find(s, d, from) - 1) : ~Occurs(s, d, i)
  <1> DEFINE at == {i \in from..(Len(s) - Len(d) + 1) : SubSeq(s, i, i + Len(d) - 1) = d}
  <1>1. Len(s) \in Nat /\ Len(d) \in Nat \ {0}
    BY EmptySeq, LenProperties
  <1>2. \A i \in at : i \in from..Len(s) /\ i + Len(d) <= Len(s) + 1 /\ Occurs(s, d, i)
    BY <1>1 DEF Occurs
  <1>3. \A i \in from..Len(s) : Occurs(s, d, i) => i \in at
    BY <1>1 DEF Occurs
  <1>4. Find(s, d, from) = IF at = {} THEN 0 ELSE Min(at)
    BY DEF Find
  <1> HIDE DEF at
  <1>5. CASE at = {}
    BY <1>1, <1>3, <1>4, <1>5
  <1>6. CASE at # {}
    <2>1. Min(at) \in at /\ \A i \in at : Min(at) <= i
      BY <1>2, <1>6, MinPosition
    <2>2. Min(at) \in from..Len(s)
      BY <1>2, <2>1
    <2>3. \A i \in from..(Min(at) - 1) : ~Occurs(s, d, i)
      BY <1>1, <1>3, <2>1, <2>2
    <2>4. QED
      BY <1>1, <1>2, <1>4, <1>6, <2>1, <2>2, <2>3
  <1>7. QED
    BY <1>5, <1>6

-----------------------------------------------------------------------------
(* string_split.                                                           *)

\* What the loop of string_split adds at each position.
LEMMA PiecesStep ==
    ASSUME NEW T, NEW s \in Seq(T), NEW d \in Seq(T), d # <<>>
    PROVE  \A from \in 1..(Len(s) + 1) :
             /\ Pieces(s, d)[from] \in Seq(Seq(T))
             /\ Pieces(s, d)[from] # <<>>
             /\ Find(s, d, from) = 0 => Pieces(s, d)[from] = <<SubSeq(s, from, Len(s))>>
             /\ Find(s, d, from) # 0 =>
                  Pieces(s, d)[from] = <<SubSeq(s, from, Find(s, d, from) - 1)>>
                                          \o Pieces(s, d)[Find(s, d, from) + Len(d)]
  <1> DEFINE
        n == Len(s) + 1
        next == [i \in 1..n |-> IF Find(s, d, i) = 0 THEN 0 ELSE Find(s, d, i) + Len(d)]
        last == [i \in 1..n |-> <<SubSeq(s, i, Len(s))>>]
        part == [i \in 1..n |-> IF Find(s, d, i) = 0 THEN <<>>
                               ELSE <<SubSeq(s, i, Find(s, d, i) - 1)>>]
        At(f, i) == IF Find(s, d, i) = 0 THEN <<SubSeq(s, i, Len(s))>>
                    ELSE <<SubSeq(s, i, Find(s, d, i) - 1)>> \o f[Find(s, d, i) + Len(d)]
  <1>1. Len(s) \in Nat /\ Len(d) \in Nat \ {0}
    BY EmptySeq, LenProperties
  <1>2. \A i \in 1..n : /\ Find(s, d, i) \in 0..Len(s)
                        /\ Find(s, d, i) # 0 => /\ Find(s, d, i) >= i
                                                /\ Find(s, d, i) + Len(d) <= n
    BY <1>1, FindIs
  <1>3. IsLoop(n, Seq(T), next, last, part)
    <2>1. \A i \in 1..n : SubSeq(s, i, Len(s)) \in Seq(T)
      BY <1>1, Slice
    <2>2. \A i \in 1..n : Find(s, d, i) # 0 => SubSeq(s, i, Find(s, d, i) - 1) \in Seq(T)
      BY <1>1, <1>2, Slice
    <2>3. /\ next \in [1..n -> 0..n]
          /\ \A i \in 1..n : next[i] = 0 \/ next[i] > i
      BY <1>1, <1>2
    <2>4. QED
      BY <2>1, <2>2, <2>3 DEF IsLoop
  <1>4. \A f : Runs(f, n, next, last, part) <=> f = [i \in 1..n |-> At(f, i)]
    <2> SUFFICES ASSUME NEW f
                 PROVE  \A i \in 1..n :
                          (IF next[i] = 0 THEN last[i] ELSE part[i] \o f[next[i]]) = At(f, i)
      BY DEF Runs
    <2>1. QED
      BY <1>1, <1>2
  <1>5. Runs(Pieces(s, d), n, next, last, part)
    <2>1. Pieces(s, d) = CHOOSE f : f = [i \in 1..n |-> At(f, i)]
      BY DEF Pieces
    <2> HIDE DEF At
    <2>2. \E f : f = [i \in 1..n |-> At(f, i)]
      <3> HIDE DEF next, last, part
      <3>1. n \in Nat \ {0}
        BY <1>1
      <3>2. QED
        BY <1>3, <1>4, <3>1, LoopEnds
    <2>3. Pieces(s, d) = [i \in 1..n |-> At(Pieces(s, d), i)]
      BY <2>1, <2>2
    <2>4. QED
      BY <1>4, <2>3
  <1>6. SUFFICES ASSUME NEW from \in 1..n
                 PROVE  /\ Pieces(s, d)[from] \in Seq(Seq(T))
                        /\ Pieces(s, d)[from] # <<>>
                        /\ Find(s, d, from) = 0 => Pieces(s, d)[from] = <<SubSeq(s, from, Len(s))>>
                        /\ Find(s, d, from) # 0 =>
                             Pieces(s, d)[from] = <<SubSeq(s, from, Find(s, d, from) - 1)>>
                                                     \o Pieces(s, d)[Find(s, d, from) + Len(d)]
    OBVIOUS
  <1>7. \A i \in 1..n : /\ Pieces(s, d)[i] = IF next[i] = 0 THEN last[i]
                                             ELSE part[i] \o Pieces(s, d)[next[i]]
                        /\ Pieces(s, d)[i] \in Seq(Seq(T))
    <2> HIDE DEF next, last, part
    <2>1. n \in Nat \ {0}
      BY <1>1
    <2>2. QED
      BY <1>3, <1>5, <2>1, LoopStep
  <1>8. Find(s, d, from) = 0 => /\ Pieces(s, d)[from] = <<SubSeq(s, from, Len(s))>>
                                /\ Pieces(s, d)[from] # <<>>
    <2>1. Find(s, d, from) = 0 => Pieces(s, d)[from] = <<SubSeq(s, from, Len(s))>>
      BY <1>7
    <2>2. <<SubSeq(s, from, Len(s))>> # <<>>
      OBVIOUS
    <2>3. QED
      BY <2>1, <2>2
  <1>9. ASSUME Find(s, d, from) # 0
        PROVE  /\ Pieces(s, d)[from] = <<SubSeq(s, from, Find(s, d, from) - 1)>>
                                         \o Pieces(s, d)[Find(s, d, from) + Len(d)]
               /\ Pieces(s, d)[from] # <<>>
    <2>1. next[from] = Find(s, d, from) + Len(d) /\ next[from] # 0 /\ next[from] \in 1..n
      BY <1>1, <1>2, <1>9
    <2>2. part[from] = <<SubSeq(s, from, Find(s, d, from) - 1)>>
      BY <1>9
    <2>3. Pieces(s, d)[next[from]] \in Seq(Seq(T))
      BY <1>7, <2>1
    <2>4. part[from] \in Seq(Seq(T)) /\ part[from] # <<>>
      BY <1>3, <2>2 DEF IsLoop
    <2>5. part[from] \o Pieces(s, d)[next[from]] # <<>>
      <3> HIDE DEF part, next
      <3>1. QED
        BY <2>3, <2>4, ConcatSimplifications
    <2>6. QED
      BY <1>7, <2>1, <2>2, <2>5
  <1>10. Pieces(s, d)[from] \in Seq(Seq(T))
    BY <1>7
  <1> HIDE DEF n, next, last, part, At
  <1>11. QED
    BY <1>8, <1>9, <1>10

\* The last piece, and a piece before others.
LEMMA PiecesEnd ==
    ASSUME NEW T, NEW s \in Seq(T), NEW d \in Seq(T), d # <<>>,
           NEW from \in 1..(Len(s) + 1), Find(s, d, from) = 0
    PROVE  Pieces(s, d)[from] = <<SubSeq(s, from, Len(s))>>
  <1>1. /\ Find(s, d, from) = 0 => Pieces(s, d)[from] = <<SubSeq(s, from, Len(s))>>
        /\ Find(s, d, from) # 0 =>
                  Pieces(s, d)[from] = <<SubSeq(s, from, Find(s, d, from) - 1)>>
                                          \o Pieces(s, d)[Find(s, d, from) + Len(d)]
    BY PiecesStep, ZenonT(60)
  <1>2. QED
    BY <1>1

-----------------------------------------------------------------------------
(* string_join.                                                            *)

\* What the loop of string_join adds at each piece.
LEMMA JoinedStep ==
    ASSUME NEW T, NEW ps \in Seq(Seq(T)), ps # <<>>, NEW sep \in Seq(T)
    PROVE  \A i \in 1..Len(ps) :
             /\ Joined(ps, sep)[i] \in Seq(T)
             /\ Joined(ps, sep)[i] = IF i = Len(ps) THEN ps[i]
                                     ELSE (ps[i] \o sep) \o Joined(ps, sep)[i + 1]
  <1> DEFINE
        n == Len(ps)
        next == [i \in 1..n |-> IF i = n THEN 0 ELSE i + 1]
        last == [i \in 1..n |-> ps[i]]
        part == [i \in 1..n |-> ps[i] \o sep]
        At(f, i) == IF i = n THEN ps[i] ELSE (ps[i] \o sep) \o f[i + 1]
  <1>1. n \in Nat \ {0} /\ \A i \in 1..n : ps[i] \in Seq(T)
    BY EmptySeq, ElementOfSeq
  <1>2. \A i \in 1..n : ps[i] \o sep \in Seq(T)
    BY <1>1, ConcatProperties
  <1>3. IsLoop(n, T, next, last, part)
    <2>1. /\ next \in [1..n -> 0..n]
          /\ \A i \in 1..n : next[i] = 0 \/ next[i] > i
      BY <1>1
    <2>2. QED
      BY <1>1, <1>2, <2>1 DEF IsLoop
  <1>4. \A f : Runs(f, n, next, last, part) <=> f = [i \in 1..n |-> At(f, i)]
    <2> SUFFICES ASSUME NEW f
                 PROVE  \A i \in 1..n :
                          (IF next[i] = 0 THEN last[i] ELSE part[i] \o f[next[i]]) = At(f, i)
      BY DEF Runs
    <2>1. QED
      BY <1>1
  <1>5. Runs(Joined(ps, sep), n, next, last, part)
    <2>1. Joined(ps, sep) = CHOOSE f : f = [i \in 1..n |-> At(f, i)]
      BY DEF Joined
    <2> HIDE DEF At
    <2>2. \E f : f = [i \in 1..n |-> At(f, i)]
      <3> HIDE DEF next, last, part
      <3>1. QED
        BY <1>1, <1>3, <1>4, LoopEnds
    <2>3. Joined(ps, sep) = [i \in 1..n |-> At(Joined(ps, sep), i)]
      BY <2>1, <2>2
    <2>4. QED
      BY <1>4, <2>3
  <1>6. \A i \in 1..n : /\ Joined(ps, sep)[i] = IF next[i] = 0 THEN last[i]
                                               ELSE part[i] \o Joined(ps, sep)[next[i]]
                        /\ Joined(ps, sep)[i] \in Seq(T)
    <2> HIDE DEF next, last, part
    <2>1. QED
      BY <1>1, <1>3, <1>5, LoopStep
  <1>7. QED
    BY <1>1, <1>6

\* One piece is joined to itself.
LEMMA JoinOne ==
    ASSUME NEW T, NEW sep \in Seq(T), NEW p \in Seq(T)
    PROVE  StringJoin(<<p>>, sep) = p
  <1> DEFINE one == <<p>>
  <1>1. one \in Seq(Seq(T)) /\ one # <<>> /\ Len(one) = 1 /\ one[1] = p
    OBVIOUS
  <1> HIDE DEF one
  <1>2. \A i \in 1..Len(one) :
           Joined(one, sep)[i] = IF i = Len(one) THEN one[i]
                                 ELSE (one[i] \o sep) \o Joined(one, sep)[i + 1]
    BY <1>1, JoinedStep
  <1>3. StringJoin(one, sep) = p
    BY <1>1, <1>2 DEF StringJoin
  <1>4. QED
    BY <1>3 DEF one

\* A piece before others is joined to them with one separator.
LEMMA JoinCons ==
    ASSUME NEW T, NEW sep \in Seq(T), NEW p \in Seq(T), NEW ps \in Seq(Seq(T)), ps # <<>>
    PROVE  StringJoin(<<p>> \o ps, sep) = (p \o sep) \o StringJoin(ps, sep)
  <1> DEFINE n == Len(ps)
             qs == <<p>> \o ps
  <1>1. /\ n \in Nat \ {0} /\ qs \in Seq(Seq(T)) /\ qs # <<>> /\ Len(qs) = n + 1
        /\ qs[1] = p /\ \A i \in 1..n : qs[i + 1] = ps[i]
    <2>1. <<p>> \in Seq(Seq(T)) /\ Len(<<p>>) = 1 /\ <<p>>[1] = p
      OBVIOUS
    <2>2. n \in Nat \ {0}
      BY EmptySeq
    <2>3. /\ qs \in Seq(Seq(T)) /\ Len(qs) = 1 + n
          /\ \A i \in 1..(1 + n) : qs[i] = IF i <= 1 THEN <<p>>[i] ELSE ps[i - 1]
      BY <2>1, ConcatProperties
    <2> HIDE DEF qs, n
    <2>4. QED
      BY <2>1, <2>2, <2>3, EmptySeq, SMTT(30)
  <1> HIDE DEF qs, n
  <1> DEFINE P == {i \in 1..n : Joined(qs, sep)[i + 1] = Joined(ps, sep)[i]}
  <1>2. \A i \in 1..n : /\ Joined(ps, sep)[i] = IF i = n THEN ps[i]
                                                ELSE (ps[i] \o sep) \o Joined(ps, sep)[i + 1]
    BY JoinedStep DEF n
  <1>3. \A i \in 1..(n + 1) :
           Joined(qs, sep)[i] = IF i = n + 1 THEN qs[i]
                                ELSE (qs[i] \o sep) \o Joined(qs, sep)[i + 1]
    <2>1. \A i \in 1..Len(qs) :
             Joined(qs, sep)[i] = IF i = Len(qs) THEN qs[i]
                                  ELSE (qs[i] \o sep) \o Joined(qs, sep)[i + 1]
      <3>1. qs \in Seq(Seq(T)) /\ qs # <<>>
        BY <1>1
      <3>2. QED
        BY <3>1, JoinedStep
    <2>2. Len(qs) = n + 1
      BY <1>1
    <2>3. QED
      BY <2>1, <2>2
  <1>4. \A i \in 1..n : (\A j \in (i + 1)..n : j \in P) => i \in P
    <2> SUFFICES ASSUME NEW i \in 1..n, \A j \in (i + 1)..n : j \in P
                 PROVE  Joined(qs, sep)[i + 1] = Joined(ps, sep)[i]
      OBVIOUS
    <2>1. CASE i = n
      BY <1>1, <1>2, <1>3, <2>1
    <2>2. CASE i # n
      <3>1. Joined(qs, sep)[i + 1 + 1] = Joined(ps, sep)[i + 1]
        BY <1>1, <2>2
      <3>2. Joined(ps, sep)[i] = (ps[i] \o sep) \o Joined(ps, sep)[i + 1]
        BY <1>2, <2>2
      <3>3. Joined(qs, sep)[i + 1] = (qs[i + 1] \o sep) \o Joined(qs, sep)[i + 1 + 1]
        <4>1. i + 1 \in 1..(n + 1) /\ i + 1 # n + 1
          BY <1>1, <2>2
        <4>2. QED
          BY <1>3, <4>1
      <3>4. QED
        BY <1>1, <3>1, <3>2, <3>3
    <2>3. QED
      BY <2>1, <2>2
  <1>5. Joined(qs, sep)[1 + 1] = Joined(ps, sep)[1]
    <2> HIDE DEF P
    <2>1. 1..n \subseteq P
      BY <1>1, <1>4, FromTheLast
    <2>2. QED
      BY <1>1, <2>1 DEF P
  <1>6. Joined(qs, sep)[1] = (p \o sep) \o Joined(qs, sep)[1 + 1]
    <2>1. 1 \in 1..(n + 1) /\ 1 # n + 1 /\ qs[1] = p
      BY <1>1
    <2>2. QED
      BY <1>3, <2>1
  <1>7. QED
    BY <1>1, <1>5, <1>6 DEF StringJoin, qs

\* Pieces are joined to a string.
LEMMA JoinType ==
    ASSUME NEW T, NEW sep \in Seq(T), NEW ps \in Seq(Seq(T))
    PROVE  StringJoin(ps, sep) \in Seq(T)
  BY JoinedStep, EmptySeq DEF StringJoin

-----------------------------------------------------------------------------
(* Splitting and joining.                                                  *)

\* The parts of a string between two positions, put together.
LEMMA Glue ==
    ASSUME NEW T, NEW s \in Seq(T), NEW i \in 1..(Len(s) + 1),
           NEW j \in (i - 1)..Len(s), NEW k \in j..Len(s)
    PROVE  SubSeq(s, i, j) \o SubSeq(s, j + 1, k) = SubSeq(s, i, k)
  BY LenProperties, ConcatAdjacentSubSeq

\* The pieces from a position on, joined with the delimiter, are the string from
\* there on.
LEMMA JoinPieces ==
    ASSUME NEW T, NEW s \in Seq(T), NEW d \in Seq(T), d # <<>>
    PROVE  \A from \in 1..(Len(s) + 1) :
             StringJoin(Pieces(s, d)[from], d) = SubSeq(s, from, Len(s))
  <1> DEFINE n == Len(s) + 1
             P == {i \in 1..n : StringJoin(Pieces(s, d)[i], d) = SubSeq(s, i, Len(s))}
  <1>1. Len(s) \in Nat /\ Len(d) \in Nat \ {0}
    BY EmptySeq, LenProperties
  <1>2. \A i \in 1..n : (\A j \in (i + 1)..n : j \in P) => i \in P
    <2> SUFFICES ASSUME NEW i \in 1..n, \A j \in (i + 1)..n : j \in P
                 PROVE  StringJoin(Pieces(s, d)[i], d) = SubSeq(s, i, Len(s))
      OBVIOUS
    <2> DEFINE k == Find(s, d, i)
               before == SubSeq(s, i, k - 1)
               after == Pieces(s, d)[k + Len(d)]
    <2>1. CASE k = 0
      <3>1. Pieces(s, d)[i] = <<SubSeq(s, i, Len(s))>>
        BY <2>1, PiecesEnd
      <3>2. SubSeq(s, i, Len(s)) \in Seq(T)
        BY <1>1, Slice
      <3>3. QED
        BY <3>1, <3>2, JoinOne, ZenonT(60)
    <2>2. CASE k # 0
      <3>1. /\ k \in i..Len(s) /\ k + Len(d) <= Len(s) + 1
            /\ SubSeq(s, k, k + Len(d) - 1) = d
        BY <2>2, FindIs DEF Occurs
      <3>2. Pieces(s, d)[i] = <<before>> \o after
        BY <2>2, PiecesStep
      <3>3. after \in Seq(Seq(T)) /\ after # <<>>
        <4>1. k + Len(d) \in 1..n
          BY <1>1, <3>1
        <4> HIDE DEF k
        <4>2. QED
          BY <4>1, PiecesStep
      <3>4. before \in Seq(T)
        BY <1>1, <3>1, Slice
      <3>5. StringJoin(after, d) = SubSeq(s, k + Len(d), Len(s))
        BY <1>1, <3>1, SMTT(30)
      <3>6. StringJoin(<<before>> \o after, d) = (before \o d) \o StringJoin(after, d)
        <4> HIDE DEF before, after, k
        <4>1. QED
          BY <3>3, <3>4, JoinCons
      <3>7. before \o SubSeq(s, k, k + Len(d) - 1) = SubSeq(s, i, k + Len(d) - 1)
        <4>1. k - 1 \in (i - 1)..Len(s) /\ k + Len(d) - 1 \in (k - 1)..Len(s) /\ k - 1 + 1 = k
          BY <1>1, <3>1
        <4>2. QED
          BY <4>1, Glue
      <3>8. SubSeq(s, i, k + Len(d) - 1) \o SubSeq(s, k + Len(d), Len(s)) = SubSeq(s, i, Len(s))
        <4>1. /\ k + Len(d) - 1 \in (i - 1)..Len(s) /\ Len(s) \in (k + Len(d) - 1)..Len(s)
              /\ k + Len(d) - 1 + 1 = k + Len(d)
          BY <1>1, <3>1
        <4>2. QED
          BY <4>1, Glue
      <3> HIDE DEF before, after, k
      <3>9. QED
        BY <3>1, <3>2, <3>5, <3>6, <3>7, <3>8
    <2>3. QED
      BY <2>1, <2>2
  <1> HIDE DEF P
  <1>3. 1..n \subseteq P
    <2>1. n \in Nat
      BY <1>1
    <2> HIDE DEF n
    <2>2. QED
      BY <1>2, <2>1, FromTheLast
  <1>4. QED
    BY <1>3 DEF P

\* A part in which the delimiter occurs nowhere.
LEMMA NoOccurrence ==
    ASSUME NEW T, NEW s \in Seq(T), NEW d \in Seq(T), d # <<>>,
           NEW i \in 1..(Len(s) + 1), NEW j \in (i - 1)..Len(s),
           \A l \in i..j : ~Occurs(s, d, l)
    PROVE  Find(SubSeq(s, i, j), d, 1) = 0
  <1> DEFINE part == SubSeq(s, i, j)
  <1>1. Len(s) \in Nat /\ Len(d) \in Nat \ {0}
    BY EmptySeq, LenProperties
  <1>2. part \in Seq(T) /\ Len(part) = j - i + 1 /\ \A l \in 1..(j - i + 1) : part[l] = s[i + l - 1]
    BY <1>1, Slice
  <1> SUFFICES ASSUME Find(part, d, 1) # 0
               PROVE  FALSE
    OBVIOUS
  <1> DEFINE k == Find(part, d, 1)
  <1> HIDE DEF part
  <1>3. k \in 1..Len(part) /\ k + Len(d) <= Len(part) + 1 /\ Occurs(part, d, k)
    <2>1. part \in Seq(T) /\ 1 \in 1..(Len(part) + 1)
      BY <1>1, <1>2
    <2>2. QED
      BY <2>1, FindIs
  <1> HIDE DEF k
  <1>4. SubSeq(part, k, k + Len(d) - 1) = d
    BY <1>3 DEF Occurs
  <1>5. \A l \in 1..Len(d) : d[l] = part[k + l - 1]
    <2>1. k \in 1..(Len(part) + 1) /\ k + Len(d) - 1 \in (k - 1)..Len(part)
      BY <1>1, <1>2, <1>3
    <2>2. \A l \in 1..(k + Len(d) - 1 - k + 1) : SubSeq(part, k, k + Len(d) - 1)[l] = part[k + l - 1]
      BY <1>2, <2>1, Slice
    <2>3. k + Len(d) - 1 - k + 1 = Len(d)
      BY <1>1, <1>2, <1>3
    <2>4. QED
      BY <1>4, <2>2, <2>3
  <1> DEFINE m == i + k - 1
  <1>6. m \in i..j /\ m \in 1..(Len(s) - Len(d) + 1)
    BY <1>1, <1>2, <1>3
  <1>7. \A l \in 1..Len(d) : d[l] = s[m + l - 1]
    <2>1. \A l \in 1..Len(d) : k + l - 1 \in 1..(j - i + 1) /\ i + (k + l - 1) - 1 = m + l - 1
      BY <1>1, <1>2, <1>3
    <2> HIDE DEF m
    <2>2. QED
      BY <1>2, <1>5, <2>1
  <1> HIDE DEF m
  <1>8. SubSeq(s, m, m + Len(d) - 1) = d
    <2>1. m \in 1..(Len(s) + 1) /\ m + Len(d) - 1 \in (m - 1)..Len(s) /\ m + Len(d) - 1 - m + 1 = Len(d)
      BY <1>1, <1>6
    <2>2. /\ SubSeq(s, m, m + Len(d) - 1) \in Seq(T)
          /\ Len(SubSeq(s, m, m + Len(d) - 1)) = Len(d)
          /\ \A l \in 1..Len(d) : SubSeq(s, m, m + Len(d) - 1)[l] = s[m + l - 1]
      BY <2>1, Slice
    <2>3. QED
      BY <1>7, <2>2, SeqEqual
  <1>9. QED
    BY <1>6, <1>8 DEF Occurs

\* No piece has the delimiter in it.
LEMMA PiecesAreClean ==
    ASSUME NEW T, NEW s \in Seq(T), NEW d \in Seq(T), d # <<>>
    PROVE  \A from \in 1..(Len(s) + 1) : \A l \in 1..Len(Pieces(s, d)[from]) :
             Find(Pieces(s, d)[from][l], d, 1) = 0
  <1> DEFINE n == Len(s) + 1
             Clean(ps) == \A l \in 1..Len(ps) : Find(ps[l], d, 1) = 0
             P == {i \in 1..n : Clean(Pieces(s, d)[i])}
  <1>1. Len(s) \in Nat /\ Len(d) \in Nat \ {0}
    BY EmptySeq, LenProperties
  <1>2. \A i \in 1..n : (\A j \in (i + 1)..n : j \in P) => i \in P
    <2> SUFFICES ASSUME NEW i \in 1..n, \A j \in (i + 1)..n : j \in P
                 PROVE  Clean(Pieces(s, d)[i])
      OBVIOUS
    <2> DEFINE k == Find(s, d, i)
    <2>1. CASE k = 0
      <3>1. Find(SubSeq(s, i, Len(s)), d, 1) = 0
        <4>1. \A l \in i..Len(s) : ~Occurs(s, d, l)
          BY <2>1, FindIs
        <4>2. Len(s) \in (i - 1)..Len(s)
          BY <1>1
        <4>3. QED
          BY <4>1, <4>2, NoOccurrence
      <3>2. Pieces(s, d)[i] = <<SubSeq(s, i, Len(s))>>
        BY <2>1, PiecesEnd
      <3> DEFINE one == <<SubSeq(s, i, Len(s))>>
      <3>3. Len(one) = 1 /\ one[1] = SubSeq(s, i, Len(s))
        OBVIOUS
      <3> HIDE DEF one
      <3>4. Clean(one)
        <4>1. Find(one[1], d, 1) = 0
          BY <3>1, <3>3
        <4>2. \A l \in 1..Len(one) : l = 1
          BY <3>3
        <4>3. QED
          BY <4>1, <4>2
      <3>5. QED
        BY <3>2, <3>4 DEF one
    <2>2. CASE k # 0
      <3> DEFINE before == SubSeq(s, i, k - 1)
                 after == Pieces(s, d)[k + Len(d)]
      <3>1. /\ k \in i..Len(s) /\ k + Len(d) <= Len(s) + 1
            /\ \A l \in i..(k - 1) : ~Occurs(s, d, l)
        BY <2>2, FindIs
      <3>2. Pieces(s, d)[i] = <<before>> \o after
        BY <2>2, PiecesStep
      <3>3. Find(before, d, 1) = 0
        <4>1. k - 1 \in (i - 1)..Len(s)
          BY <1>1, <3>1
        <4>2. QED
          BY <3>1, <4>1, NoOccurrence
      <3>4. k + Len(d) \in 1..n /\ k + Len(d) > i
        BY <1>1, <3>1
      <3>5. after \in Seq(Seq(T))
        <4> HIDE DEF k
        <4>1. QED
          BY <3>4, PiecesStep
      <3>6. Clean(after)
        BY <3>4
      <3>7. before \in Seq(T)
        BY <1>1, <3>1, Slice
      <3> HIDE DEF before, after, k
      <3>8. Clean(<<before>> \o after)
        <4>1. <<before>> \in Seq(Seq(T)) /\ Len(<<before>>) = 1 /\ <<before>>[1] = before
          BY <3>7
        <4>2. Len(after) \in Nat
          BY <3>5, LenProperties
        <4>3. /\ Len(<<before>> \o after) = 1 + Len(after)
              /\ \A l \in 1..(1 + Len(after)) :
                    (<<before>> \o after)[l] = IF l <= 1 THEN <<before>>[l] ELSE after[l - 1]
          BY <3>5, <4>1, ConcatProperties
        <4>4. QED
          BY <3>3, <3>6, <4>1, <4>2, <4>3
      <3>9. QED
        BY <3>2, <3>8
    <2>3. QED
      BY <2>1, <2>2
  <1> HIDE DEF P, Clean
  <1>3. 1..n \subseteq P
    <2>1. n \in Nat
      BY <1>1
    <2> HIDE DEF n
    <2>2. QED
      BY <1>2, <2>1, FromTheLast
  <1>4. QED
    BY <1>3 DEF P, Clean

-----------------------------------------------------------------------------
(* string_replace.                                                         *)

\* What the loop of string_replace adds at each position.
LEMMA ReplacedStep ==
    ASSUME NEW T, NEW s \in Seq(T), NEW x \in Seq(T), x # <<>>, NEW r \in Seq(T)
    PROVE  \A from \in 1..(Len(s) + 1) :
             /\ Find(s, x, from) = 0 => Replaced(s, x, r)[from] = SubSeq(s, from, Len(s))
             /\ Find(s, x, from) # 0 =>
                  Replaced(s, x, r)[from]
                    = (SubSeq(s, from, Find(s, x, from) - 1) \o r)
                         \o Replaced(s, x, r)[Find(s, x, from) + Len(x)]
  <1> DEFINE
        n == Len(s) + 1
        next == [i \in 1..n |-> IF Find(s, x, i) = 0 THEN 0 ELSE Find(s, x, i) + Len(x)]
        last == [i \in 1..n |-> SubSeq(s, i, Len(s))]
        part == [i \in 1..n |-> IF Find(s, x, i) = 0 THEN <<>>
                               ELSE SubSeq(s, i, Find(s, x, i) - 1) \o r]
        At(f, i) == IF Find(s, x, i) = 0 THEN SubSeq(s, i, Len(s))
                    ELSE (SubSeq(s, i, Find(s, x, i) - 1) \o r) \o f[Find(s, x, i) + Len(x)]
  <1>1. Len(s) \in Nat /\ Len(x) \in Nat \ {0}
    BY EmptySeq, LenProperties
  <1>2. \A i \in 1..n : /\ Find(s, x, i) \in 0..Len(s)
                        /\ Find(s, x, i) # 0 => /\ Find(s, x, i) >= i
                                                /\ Find(s, x, i) + Len(x) <= n
    BY <1>1, FindIs
  <1>3. IsLoop(n, T, next, last, part)
    <2>1. \A i \in 1..n : SubSeq(s, i, Len(s)) \in Seq(T)
      BY <1>1, Slice
    <2>2. \A i \in 1..n : Find(s, x, i) # 0 => SubSeq(s, i, Find(s, x, i) - 1) \o r \in Seq(T)
      <3>1. \A i \in 1..n : Find(s, x, i) # 0 => SubSeq(s, i, Find(s, x, i) - 1) \in Seq(T)
        BY <1>1, <1>2, Slice
      <3>2. QED
        BY <3>1, ConcatProperties
    <2>3. /\ next \in [1..n -> 0..n]
          /\ \A i \in 1..n : next[i] = 0 \/ next[i] > i
      BY <1>1, <1>2
    <2>4. QED
      BY <2>1, <2>2, <2>3 DEF IsLoop
  <1>4. \A f : Runs(f, n, next, last, part) <=> f = [i \in 1..n |-> At(f, i)]
    <2> SUFFICES ASSUME NEW f
                 PROVE  \A i \in 1..n :
                          (IF next[i] = 0 THEN last[i] ELSE part[i] \o f[next[i]]) = At(f, i)
      BY DEF Runs
    <2>1. QED
      BY <1>1, <1>2
  <1>5. Runs(Replaced(s, x, r), n, next, last, part)
    <2>1. Replaced(s, x, r) = CHOOSE f : f = [i \in 1..n |-> At(f, i)]
      BY DEF Replaced
    <2> HIDE DEF At
    <2>2. \E f : f = [i \in 1..n |-> At(f, i)]
      <3> HIDE DEF next, last, part
      <3>1. n \in Nat \ {0}
        BY <1>1
      <3>2. QED
        BY <1>3, <1>4, <3>1, LoopEnds
    <2>3. Replaced(s, x, r) = [i \in 1..n |-> At(Replaced(s, x, r), i)]
      BY <2>1, <2>2
    <2>4. QED
      BY <1>4, <2>3
  <1>6. \A i \in 1..n : Replaced(s, x, r)[i] = IF next[i] = 0 THEN last[i]
                                               ELSE part[i] \o Replaced(s, x, r)[next[i]]
    <2> HIDE DEF next, last, part
    <2>1. n \in Nat \ {0}
      BY <1>1
    <2>2. QED
      BY <1>3, <1>5, <2>1, LoopStep
  <1>7. SUFFICES ASSUME NEW from \in 1..n
                 PROVE  /\ Find(s, x, from) = 0 => Replaced(s, x, r)[from] = SubSeq(s, from, Len(s))
                        /\ Find(s, x, from) # 0 =>
                             Replaced(s, x, r)[from]
                               = (SubSeq(s, from, Find(s, x, from) - 1) \o r)
                                    \o Replaced(s, x, r)[Find(s, x, from) + Len(x)]
    OBVIOUS
  <1>8. Find(s, x, from) = 0 => Replaced(s, x, r)[from] = SubSeq(s, from, Len(s))
    BY <1>6
  <1>9. ASSUME Find(s, x, from) # 0
        PROVE  Replaced(s, x, r)[from] = (SubSeq(s, from, Find(s, x, from) - 1) \o r)
                                           \o Replaced(s, x, r)[Find(s, x, from) + Len(x)]
    <2>1. next[from] = Find(s, x, from) + Len(x) /\ next[from] # 0
      BY <1>1, <1>2, <1>9
    <2>2. part[from] = SubSeq(s, from, Find(s, x, from) - 1) \o r
      BY <1>9
    <2> HIDE DEF next, last, part
    <2>3. QED
      BY <1>6, <2>1, <2>2
  <1>10. QED
    BY <1>8, <1>9

\* string_replace is string_split and string_join.
LEMMA ReplacedIsJoined ==
    ASSUME NEW T, NEW s \in Seq(T), NEW x \in Seq(T), x # <<>>, NEW r \in Seq(T)
    PROVE  \A from \in 1..(Len(s) + 1) :
             Replaced(s, x, r)[from] = StringJoin(Pieces(s, x)[from], r)
  <1> DEFINE n == Len(s) + 1
             P == {i \in 1..n : Replaced(s, x, r)[i] = StringJoin(Pieces(s, x)[i], r)}
  <1>1. Len(s) \in Nat /\ Len(x) \in Nat \ {0}
    BY EmptySeq, LenProperties
  <1>2. \A i \in 1..n : (\A j \in (i + 1)..n : j \in P) => i \in P
    <2> SUFFICES ASSUME NEW i \in 1..n, \A j \in (i + 1)..n : j \in P
                 PROVE  Replaced(s, x, r)[i] = StringJoin(Pieces(s, x)[i], r)
      OBVIOUS
    <2> DEFINE k == Find(s, x, i)
               before == SubSeq(s, i, k - 1)
               after == Pieces(s, x)[k + Len(x)]
    <2>1. CASE k = 0
      <3>1. Pieces(s, x)[i] = <<SubSeq(s, i, Len(s))>>
        BY <2>1, PiecesEnd
      <3>2. Replaced(s, x, r)[i] = SubSeq(s, i, Len(s))
        BY <2>1, ReplacedStep
      <3>3. SubSeq(s, i, Len(s)) \in Seq(T)
        BY <1>1, Slice
      <3>4. StringJoin(<<SubSeq(s, i, Len(s))>>, r) = SubSeq(s, i, Len(s))
        BY <3>3, JoinOne
      <3>5. QED
        BY <3>1, <3>2, <3>4
    <2>2. CASE k # 0
      <3>1. k \in i..Len(s) /\ k + Len(x) <= Len(s) + 1
        BY <2>2, FindIs
      <3>2. Pieces(s, x)[i] = <<before>> \o after
        BY <2>2, PiecesStep
      <3>3. Replaced(s, x, r)[i] = (before \o r) \o Replaced(s, x, r)[k + Len(x)]
        BY <2>2, ReplacedStep, ZenonT(60)
      <3>4. k + Len(x) \in 1..n /\ k + Len(x) > i
        BY <1>1, <3>1
      <3>5. after \in Seq(Seq(T)) /\ after # <<>>
        <4> HIDE DEF k
        <4>1. QED
          BY <3>4, PiecesStep
      <3>6. before \in Seq(T)
        BY <1>1, <3>1, Slice
      <3>7. Replaced(s, x, r)[k + Len(x)] = StringJoin(after, r)
        BY <3>4
      <3> HIDE DEF before, after, k
      <3>8. StringJoin(<<before>> \o after, r) = (before \o r) \o StringJoin(after, r)
        BY <3>5, <3>6, JoinCons
      <3>9. QED
        BY <3>2, <3>3, <3>7, <3>8
    <2>3. QED
      BY <2>1, <2>2
  <1> HIDE DEF P
  <1>3. 1..n \subseteq P
    <2>1. n \in Nat
      BY <1>1
    <2> HIDE DEF n
    <2>2. QED
      BY <1>2, <2>1, FromTheLast
  <1>4. QED
    BY <1>3 DEF P

-----------------------------------------------------------------------------
(* Command lines.                                                          *)

\* An occurrence of one character.
LEMMA OccursOne ==
    ASSUME NEW T, NEW s \in Seq(T), NEW c \in T
    PROVE  \A i \in 1..Len(s) : /\ SubSeq(s, i, i) = <<s[i]>>
                                /\ Occurs(s, <<c>>, i) <=> s[i] = c
  <1> SUFFICES ASSUME NEW i \in 1..Len(s)
               PROVE  SubSeq(s, i, i) = <<s[i]>> /\ (Occurs(s, <<c>>, i) <=> s[i] = c)
    OBVIOUS
  <1>1. Len(s) \in Nat
    BY LenProperties
  <1>2. SubSeq(s, i, i) \in Seq(T) /\ Len(SubSeq(s, i, i)) = 1 /\ SubSeq(s, i, i)[1] = s[i]
    <2>1. i \in 1..(Len(s) + 1) /\ i \in (i - 1)..Len(s) /\ i - i + 1 = 1 /\ i + 1 - 1 = i
      BY <1>1
    <2>2. QED
      BY <2>1, Slice
  <1>3. SubSeq(s, i, i) = <<s[i]>>
    <2> DEFINE here == SubSeq(s, i, i)
               one == <<s[i]>>
    <2>1. one \in Seq(T) /\ Len(one) = 1 /\ one[1] = s[i]
      BY ElementOfSeq
    <2>2. here \in Seq(T) /\ Len(here) = 1 /\ here[1] = s[i]
      BY <1>2
    <2> HIDE DEF here, one
    <2>3. here = one
      BY <2>1, <2>2, SeqEqual
    <2>4. QED
      BY <2>3 DEF here, one
  <1>4. Len(<<c>>) = 1 /\ i + 1 - 1 = i /\ i \in 1..(Len(s) - 1 + 1)
    BY <1>1
  <1>5. Occurs(s, <<c>>, i) <=> SubSeq(s, i, i) = <<c>>
    BY <1>4 DEF Occurs
  <1>6. <<s[i]>> = <<c>> <=> s[i] = c
    OBVIOUS
  <1>7. QED
    BY <1>3, <1>5, <1>6

\* The upper case of a string is as long as the string.
LEMMA UpperIs ==
    ASSUME NEW T, NEW s \in Seq(T)
    PROVE  /\ Len(StringToUppercase(s)) = Len(s)
           /\ \A i \in 1..Len(s) : s[i] # " " => StringToUppercase(s)[i] # " "
  <1> DEFINE U == T \cup {Upper[c] : c \in DOMAIN Upper}
  <1>1. Len(s) \in Nat /\ DOMAIN s = 1..Len(s) /\ \A i \in 1..Len(s) : s[i] \in T
    BY LenProperties, ElementOfSeq
  <1>2. StringToUppercase(s)
          = [i \in 1..Len(s) |-> IF s[i] \in DOMAIN Upper THEN Upper[s[i]] ELSE s[i]]
    BY <1>1 DEF StringToUppercase
  <1>3. StringToUppercase(s) \in [1..Len(s) -> U]
    BY <1>1, <1>2
  <1>4. StringToUppercase(s) \in Seq(U)
    BY <1>1, <1>3, SeqDef
  <1>5. Len(StringToUppercase(s)) = Len(s)
    <2>1. DOMAIN StringToUppercase(s) = 1..Len(s)
      BY <1>3
    <2>2. QED
      BY <1>1, <1>4, <2>1, LenProperties
  <1>6. QED
    BY <1>2, <1>5, UpperAssumption

\* A line s is its first word, of length n, and the character c and a rest, if the
\* word is not all of it.
IsWordAndRest(s, c, word, n, rest) ==
    /\ word = SubSeq(s, 1, n) /\ n \in 0..Len(s)
    /\ \A i \in 1..n : word[i] # c
    /\ \/ n = Len(s) /\ rest = <<>>
       \/ SubSeq(s, n + 1, Len(s)) = <<c>> \o rest

\* So are the first piece and the others, joined, of a line split at c.
LEMMA LineIs ==
    ASSUME NEW T, NEW s \in Seq(T), s # <<>>, NEW c \in T,
           NEW words, words = StringSplit(s, <<c>>), NEW n, n = Len(words[1])
    PROVE  IsWordAndRest(s, c, words[1], n, StringJoin(Tail(words), <<c>>))
  <1> DEFINE space == <<c>>
             k == Find(s, space, 1)
             Goal == /\ words[1] = SubSeq(s, 1, n) /\ n \in 0..Len(s)
                     /\ \A i \in 1..n : words[1][i] # c
                     /\ \/ n = Len(s) /\ StringJoin(Tail(words), space) = <<>>
                        \/ SubSeq(s, n + 1, Len(s)) = space \o StringJoin(Tail(words), space)
  <1>1. Len(s) \in Nat \ {0} /\ 1 \in 1..(Len(s) + 1)
    BY EmptySeq
  <1>2. space \in Seq(T) /\ space # <<>> /\ Len(space) = 1
    OBVIOUS
  <1>3. words = Pieces(s, space)[1]
    BY DEF StringSplit
  <1>4. \A i \in 1..Len(s) : /\ SubSeq(s, i, i) = <<s[i]>>
                             /\ Occurs(s, space, i) <=> s[i] = c
    BY OccursOne
  <1>5. ASSUME NEW m \in 0..Len(s), words[1] = SubSeq(s, 1, m), \A i \in 1..m : ~Occurs(s, space, i)
        PROVE  n = m /\ \A i \in 1..n : words[1][i] # c
    <2>1. Len(SubSeq(s, 1, m)) = m /\ \A i \in 1..m : SubSeq(s, 1, m)[i] = s[i]
      <3>1. m \in (1 - 1)..Len(s) /\ m - 1 + 1 = m /\ \A i \in 1..m : 1 + i - 1 = i
        BY <1>1
      <3>2. QED
        BY <1>1, <3>1, Slice
    <2>2. n = m
      BY <1>5, <2>1
    <2>3. \A i \in 1..m : s[i] # c
      BY <1>1, <1>4, <1>5
    <2>4. QED
      BY <1>5, <2>1, <2>2, <2>3
  <1>6. ASSUME k = 0
        PROVE  Goal
    <2>1. words = <<SubSeq(s, 1, Len(s))>>
      BY <1>1, <1>2, <1>3, <1>6, PiecesEnd
    <2>2. words[1] = SubSeq(s, 1, Len(s)) /\ Tail(words) = <<>>
      <3>1. words[1] = SubSeq(s, 1, Len(s))
        BY <2>1
      <3>2. QED
        BY <2>1, <3>1, TailOfOne, Zenon
    <2>3. \A i \in 1..Len(s) : ~Occurs(s, space, i)
      BY <1>1, <1>2, <1>6, FindIs
    <2>4. n = Len(s) /\ \A i \in 1..n : words[1][i] # c
      BY <1>1, <1>5, <2>2, <2>3, SMTT(30)
    <2>5. StringJoin(Tail(words), space) = <<>>
      BY <2>2 DEF StringJoin
    <2>6. words[1] = SubSeq(s, 1, n) /\ n \in 0..Len(s)
      BY <1>1, <2>2, <2>4
    <2> HIDE DEF space
    <2>7. QED
      BY <2>4, <2>5, <2>6
  <1>7. ASSUME k # 0
        PROVE  Goal
    <2> DEFINE before == SubSeq(s, 1, k - 1)
               after == Pieces(s, space)[k + 1]
    <2>1. k \in 1..Len(s) /\ Occurs(s, space, k) /\ \A i \in 1..(k - 1) : ~Occurs(s, space, i)
      BY <1>1, <1>2, <1>7, FindIs
    <2>2. words = <<before>> \o after
      BY <1>1, <1>2, <1>3, <1>7, PiecesStep, ZenonT(60)
    <2>3. k + 1 \in 1..(Len(s) + 1)
      BY <1>1, <2>1
    <2>4. after \in Seq(Seq(T)) /\ StringJoin(after, space) = SubSeq(s, k + 1, Len(s))
      <3> HIDE DEF space, k
      <3>1. QED
        BY <1>2, <2>3, PiecesStep, JoinPieces
    <2>5. before \in Seq(T)
      BY <1>1, <2>1, Slice
    <2> HIDE DEF after, before
    <2>6. words[1] = before /\ Tail(words) = after
      BY <2>2, <2>4, <2>5, OneBefore, ZenonT(60)
    <2>7. n = k - 1 /\ \A i \in 1..n : words[1][i] # c
      <3>1. k - 1 \in 0..Len(s)
        BY <1>1, <2>1
      <3> HIDE DEF k
      <3>2. QED
        BY <1>5, <2>1, <2>6, <3>1 DEF before
    <2>8. SubSeq(s, k, Len(s)) = space \o SubSeq(s, k + 1, Len(s))
      <3>1. SubSeq(s, k, k) \o SubSeq(s, k + 1, Len(s)) = SubSeq(s, k, Len(s))
        <4>1. k \in 1..(Len(s) + 1) /\ k \in (k - 1)..Len(s) /\ Len(s) \in k..Len(s)
          BY <1>1, <2>1
        <4>2. QED
          BY <4>1, Glue
      <3>2. SubSeq(s, k, k) = space
        BY <1>4, <2>1
      <3>3. QED
        BY <3>1, <3>2
    <2>9. n + 1 = k /\ n \in 0..Len(s)
      BY <1>1, <2>1, <2>7
    <2> HIDE DEF k, space
    <2>10. words[1] = SubSeq(s, 1, n)
      BY <2>6, <2>7 DEF before
    <2>11. SubSeq(s, n + 1, Len(s)) = space \o StringJoin(Tail(words), space)
      BY <2>4, <2>6, <2>8, <2>9
    <2>12. QED
      BY <2>7, <2>9, <2>10, <2>11
  <1>8. Goal
    BY <1>6, <1>7
  <1>9. QED
    BY <1>8, Zenon DEF IsWordAndRest

-----------------------------------------------------------------------------
(* The text.                                                               *)

TextIsText == text \in Seq(Chars)

LEMMA TextIsAlwaysText == Spec => []TextIsText
  <1>1. Init => TextIsText
    BY EmptySeq DEF Init, TextIsText
  <1>2. TextIsText /\ [Next]_text => TextIsText'
    BY AppendProperties DEF TextIsText, Next, Type
  <1>3. QED
    BY <1>1, <1>2, PTL DEF Spec

\* Every text is split at every delimiter into pieces without it that join to
\* the text (string_split, string_join).
THEOREM TextsSplitAndJoin == Spec => []SplitsAndJoins
  <1>1. TextIsText => SplitsAndJoins
    <2> SUFFICES ASSUME TextIsText, NEW d \in Delims
                 PROVE  /\ StringJoin(StringSplit(text, d), d) = text
                        /\ \A i \in DOMAIN StringSplit(text, d) :
                              Find(StringSplit(text, d)[i], d, 1) = 0
      BY DEF SplitsAndJoins
    <2>1. text \in Seq(Chars) /\ d \in Seq(Chars) /\ d # <<>>
      BY DelimsAssumption DEF TextIsText
    <2>2. CASE text = <<>>
      BY <2>2 DEF StringSplit, StringJoin
    <2>3. CASE text # <<>>
      <3>1. StringSplit(text, d) = Pieces(text, d)[1]
        BY <2>3 DEF StringSplit
      <3>2. Len(text) \in Nat /\ 1 \in 1..(Len(text) + 1)
        BY <2>1, LenProperties
      <3>3. StringJoin(Pieces(text, d)[1], d) = text
        BY <2>1, <3>2, JoinPieces, SubSeqFull
      <3>4. Pieces(text, d)[1] \in Seq(Seq(Chars))
        BY <2>1, <3>2, PiecesStep
      <3>5. \A i \in 1..Len(Pieces(text, d)[1]) : Find(Pieces(text, d)[1][i], d, 1) = 0
        BY <2>1, <3>2, PiecesAreClean
      <3>6. QED
        BY <3>1, <3>3, <3>4, <3>5, LenProperties
    <2>4. QED
      BY <2>2, <2>3
  <1>2. QED
    BY <1>1, TextIsAlwaysText, PTL

\* In every text string_replace replaces exactly what string_split cuts out.
THEOREM EverythingIsReplaced == Spec => []ReplacesAll
  <1>1. TextIsText => ReplacesAll
    <2> SUFFICES ASSUME TextIsText, NEW x \in Delims, NEW r \in Delims
                 PROVE  StringReplace(text, x, r) = StringJoin(StringSplit(text, x), r)
      BY DEF ReplacesAll
    <2>1. text \in Seq(Chars) /\ x \in Seq(Chars) /\ x # <<>> /\ r \in Seq(Chars)
      BY DelimsAssumption DEF TextIsText
    <2>2. Len(text) \in Nat /\ 1 \in 1..(Len(text) + 1)
      BY <2>1, LenProperties
    <2>3. StringReplace(text, x, r) = StringJoin(Pieces(text, x)[1], r)
      BY <2>1, <2>2, ReplacedIsJoined DEF StringReplace
    <2>4. CASE text = <<>>
      <3>1. Find(text, x, 1) = 0
        <4>1. Find(text, x, 1) \in 0..Len(text)
          BY <2>1, <2>2, FindIs
        <4>2. Len(text) = 0
          BY <2>4
        <4>3. QED
          BY <4>1, <4>2
      <3>2. Replaced(text, x, r)[1] = SubSeq(text, 1, Len(text))
        BY <2>1, <2>2, <3>1, ReplacedStep
      <3>3. QED
        BY <2>1, <2>4, <3>2, SubSeqFull DEF StringReplace, StringSplit, StringJoin
    <2>5. CASE text # <<>>
      BY <2>3, <2>5 DEF StringSplit
    <2>6. QED
      BY <2>4, <2>5
  <1>2. QED
    BY <1>1, TextIsAlwaysText, PTL

\* Every command line is its command in upper case, a space and its argument as it
\* was typed (parse_buffer).
THEOREM CommandsAreRecovered == Spec => []CommandRecovered
  <1>1. TextIsText => CommandRecovered
    <2> DEFINE T == Chars \cup {"CR", "LF"}
               end == <<"CR", "LF">>
               buffer == text \o end
               line == SubSeq(buffer, 1, Len(buffer) - 2)
               words == StringSplit(text, <<" ">>)
               r == ParseBuffer(buffer)
               n == Len(words[1])
    <2> SUFFICES ASSUME TextIsText, text # <<>>
                 PROVE  LET m == Len(r.command)
                        IN  /\ ~Contains(r.command, " ")
                            /\ r.command = StringToUppercase(SubSeq(text, 1, m))
                            /\ \/ m = Len(text) /\ r.argument = <<>>
                               \/ SubSeq(text, m + 1, Len(text)) = <<" ">> \o r.argument
      BY DEF CommandRecovered
    <2>1. text \in Seq(Chars)
      BY DEF TextIsText
    <2>2. line = text
      <3>1. Chars \subseteq T /\ end \in Seq(T) /\ Len(end) = 2
        OBVIOUS
      <3> HIDE DEF T, end
      <3>2. text \in Seq(T)
        BY <2>1, <3>1, SeqMonotonic
      <3>3. Len(text) \in Nat \ {0} /\ Len(buffer) = Len(text) + 2
        <4>1. Len(buffer) = Len(text) + Len(end)
          BY <3>1, <3>2, ConcatProperties
        <4>2. QED
          BY <2>1, <3>1, <4>1, EmptySeq
      <3>4. Len(buffer) - 2 = Len(text) /\ 1 \in 1..Len(text) /\ Len(text) \in 1..Len(text)
        BY <3>3
      <3>5. SubSeq(buffer, 1, Len(text)) = SubSeq(text, 1, Len(text))
        BY <3>1, <3>2, <3>4, SubSeqOfConcat1
      <3>6. SubSeq(text, 1, Len(text)) = text
        BY <2>1, SubSeqFull
      <3>7. QED
        BY <3>4, <3>5, <3>6
    <2>3. r.command = StringToUppercase(words[1]) /\ r.argument = StringJoin(Tail(words), <<" ">>)
      BY <2>2, Zenon DEF ParseBuffer
    <2>4. /\ words[1] = SubSeq(text, 1, n) /\ n \in 0..Len(text)
          /\ \A i \in 1..n : words[1][i] # " "
          /\ \/ n = Len(text) /\ r.argument = <<>>
             \/ SubSeq(text, n + 1, Len(text)) = <<" ">> \o r.argument
      <3>1. " " \in Chars
        BY Zenon DEF Chars
      <3>2. words = StringSplit(text, <<" ">>) /\ n = Len(words[1])
        BY Zenon
      <3> HIDE DEF words, n, r
      <3>3. /\ words[1] = SubSeq(text, 1, n) /\ n \in 0..Len(text)
            /\ \A i \in 1..n : words[1][i] # " "
            /\ \/ n = Len(text) /\ StringJoin(Tail(words), <<" ">>) = <<>>
               \/ SubSeq(text, n + 1, Len(text)) = <<" ">> \o StringJoin(Tail(words), <<" ">>)
        <4>1. \A c \in Chars : words = StringSplit(text, <<c>>) =>
                 IsWordAndRest(text, c, words[1], n, StringJoin(Tail(words), <<c>>))
          <5>1. n = Len(words[1])
            BY <3>2, Zenon
          <5>2. QED
            BY <2>1, <5>1, LineIs
        <4>2. IsWordAndRest(text, " ", words[1], n, StringJoin(Tail(words), <<" ">>))
          BY <3>1, <3>2, <4>1, Zenon
        <4>3. QED
          BY <4>2, Zenon DEF IsWordAndRest
      <3>4. QED
        BY <2>3, <3>3, Zenon
    <2> HIDE DEF words, r
    <2>5. words[1] \in Seq(Chars)
      <3>1. words[1] = SubSeq(text, 1, n) /\ n \in 0..Len(text)
        BY <2>4, Zenon
      <3>2. Len(text) \in Nat /\ 1 \in 1..(Len(text) + 1) /\ n \in (1 - 1)..Len(text)
        BY <2>1, <3>1, LenProperties
      <3>3. QED
        BY <2>1, <3>1, <3>2, Slice
    <2>6. Len(r.command) = n /\ \A i \in 1..n : r.command[i] # " "
      BY <2>3, <2>4, <2>5, UpperIs, Zenon
    <2>7. ~Contains(r.command, " ")
      BY <2>6, Zenon DEF Contains
    <2>8. r.command = StringToUppercase(SubSeq(text, 1, n))
      BY <2>3, <2>4, Zenon
    <2> HIDE DEF n
    <2>9. QED
      BY <2>4, <2>6, <2>7, <2>8, Zenon
  <1>2. QED
    BY <1>1, TextIsAlwaysText, PTL

-----------------------------------------------------------------------------
(* Paths: strings split at slashes.                                        *)

\* The segments of a string, the empty string being one empty segment.
Parts(s) == Pieces(s, Slash)[1]

\* The string w has at a and on what s has from i to j, and no slash from i to j.
Agree(w, a, s, i, j) == \A l \in i..j : w[a + l] = s[l]
NoSlash(s, i, j) == \A l \in i..j : s[l] # "/"

\* The part of w from b to c and that of s from i to j; equal characters make
\* equal parts.
SamePart(w, b, c, s, i, j) == SubSeq(w, b, c) = SubSeq(s, i, j)
Copied(w, b, c, s, i, j) ==
    /\ i \in 1..(Len(s) + 1) /\ j \in (i - 1)..Len(s)
    /\ \E a \in Nat : Agree(w, a, s, i, j) /\ b = a + i /\ c = a + j /\ c <= Len(w)

LEMMA SliceCopied ==
    ASSUME NEW s \in Seq(Chars), NEW w \in Seq(Chars), NEW i, NEW j, NEW b, NEW c,
           Copied(w, b, c, s, i, j)
    PROVE  SamePart(w, b, c, s, i, j)
  <1>1. PICK a \in Nat : /\ Agree(w, a, s, i, j)
                         /\ b = a + i /\ c = a + j /\ c <= Len(w)
    BY DEF Copied
  <1>2. i \in 1..(Len(s) + 1) /\ j \in (i - 1)..Len(s)
    BY DEF Copied
  <1>3. Len(s) \in Nat /\ Len(w) \in Nat
    BY LenProperties
  <1>4. b \in 1..(Len(w) + 1) /\ c \in (b - 1)..Len(w) /\ c - b + 1 = j - i + 1
    BY <1>1, <1>2, <1>3
  <1>5. /\ SubSeq(s, i, j) \in Seq(Chars) /\ Len(SubSeq(s, i, j)) = j - i + 1
        /\ \A l \in 1..(j - i + 1) : SubSeq(s, i, j)[l] = s[i + l - 1]
    BY <1>2, <1>3, Slice
  <1>6. /\ SubSeq(w, b, c) \in Seq(Chars) /\ Len(SubSeq(w, b, c)) = c - b + 1
        /\ \A l \in 1..(c - b + 1) : SubSeq(w, b, c)[l] = w[b + l - 1]
    BY <1>4, Slice
  <1>7. \A l \in 1..(j - i + 1) : w[b + l - 1] = s[i + l - 1]
    <2>1. \A l \in 1..(j - i + 1) : i + l - 1 \in i..j /\ b + l - 1 = a + (i + l - 1)
      BY <1>1, <1>2, <1>3
    <2>2. QED
      BY <1>1, <2>1 DEF Agree
  <1> DEFINE u == SubSeq(w, b, c)
             v == SubSeq(s, i, j)
  <1>8. Len(u) = Len(v) /\ \A l \in 1..Len(u) : u[l] = v[l]
    BY <1>4, <1>5, <1>6, <1>7
  <1>9. u \in Seq(Chars) /\ v \in Seq(Chars)
    BY <1>5, <1>6
  <1> HIDE DEF u, v
  <1>10. u = v
    BY <1>8, <1>9, SeqEqual
  <1>11. QED
    BY <1>10 DEF SamePart, u, v

LEMMA SlashIs == /\ "/" \in Chars /\ Slash \in Seq(Chars) /\ Slash # <<>>
                 /\ Len(Slash) = 1 /\ Slash[1] = "/"
  <1>1. "/" \in Chars
    BY Zenon DEF Chars
  <1>2. QED
    BY <1>1 DEF Slash

\* Find stops at the first slash.
LEMMA FindSlash ==
    ASSUME NEW s \in Seq(Chars), NEW from \in 1..(Len(s) + 1), NEW k, k = Find(s, Slash, from)
    PROVE  /\ k \in 0..Len(s)
           /\ k = 0 => NoSlash(s, from, Len(s))
           /\ k # 0 => k \in from..Len(s) /\ s[k] = "/" /\ NoSlash(s, from, k - 1)
  <1>1. Len(s) \in Nat
    BY LenProperties
  <1>2. \A i \in 1..Len(s) : Occurs(s, Slash, i) <=> s[i] = "/"
    BY SlashIs, OccursOne DEF Slash
  <1>3. /\ k \in 0..Len(s)
        /\ k = 0 => \A i \in from..Len(s) : ~Occurs(s, Slash, i)
        /\ k # 0 => /\ k \in from..Len(s)
                    /\ Occurs(s, Slash, k)
                    /\ \A i \in from..(k - 1) : ~Occurs(s, Slash, i)
    BY SlashIs, FindIs
  <1>4. k = 0 => NoSlash(s, from, Len(s))
    BY <1>1, <1>2, <1>3 DEF NoSlash
  <1>5. k # 0 => k \in from..Len(s) /\ s[k] = "/" /\ NoSlash(s, from, k - 1)
    BY <1>1, <1>2, <1>3 DEF NoSlash
  <1>6. QED
    BY <1>3, <1>4, <1>5

LEMMA FindNone ==
    ASSUME NEW s \in Seq(Chars), NEW from \in 1..(Len(s) + 1), NoSlash(s, from, Len(s))
    PROVE  Find(s, Slash, from) = 0
  <1> DEFINE k == Find(s, Slash, from)
  <1>1. k # 0 => k \in from..Len(s) /\ s[k] = "/"
    BY FindSlash
  <1> HIDE DEF k
  <1>2. k = 0
    BY <1>1 DEF NoSlash
  <1>3. QED
    BY <1>2 DEF k

LEMMA FindFirst ==
    ASSUME NEW s \in Seq(Chars), NEW from \in 1..(Len(s) + 1), NEW m \in from..Len(s),
           s[m] = "/", NoSlash(s, from, m - 1)
    PROVE  Find(s, Slash, from) = m
  <1> DEFINE k == Find(s, Slash, from)
  <1>1. Len(s) \in Nat
    BY LenProperties
  <1>2. /\ k \in 0..Len(s)
        /\ k = 0 => NoSlash(s, from, Len(s))
        /\ k # 0 => k \in from..Len(s) /\ s[k] = "/" /\ NoSlash(s, from, k - 1)
    BY FindSlash
  <1> HIDE DEF k
  <1>3. k # 0
    BY <1>2 DEF NoSlash
  <1>4. ~(m < k) /\ ~(k < m)
    BY <1>1, <1>2, <1>3 DEF NoSlash
  <1>5. k = m
    BY <1>1, <1>2, <1>3, <1>4
  <1>6. QED
    BY <1>5 DEF k

\* What the loop of string_split adds at each position, for a slash.
LEMMA PartsStep ==
    ASSUME NEW s \in Seq(Chars), NEW from \in 1..(Len(s) + 1)
    PROVE  /\ Pieces(s, Slash)[from] \in Seq(Seq(Chars))
           /\ Pieces(s, Slash)[from] # <<>>
           /\ Find(s, Slash, from) = 0 => Pieces(s, Slash)[from] = <<SubSeq(s, from, Len(s))>>
           /\ Find(s, Slash, from) # 0 =>
                Pieces(s, Slash)[from] = <<SubSeq(s, from, Find(s, Slash, from) - 1)>>
                                            \o Pieces(s, Slash)[Find(s, Slash, from) + 1]
  <1>1. /\ Pieces(s, Slash)[from] \in Seq(Seq(Chars))
        /\ Pieces(s, Slash)[from] # <<>>
        /\ Find(s, Slash, from) = 0 => Pieces(s, Slash)[from] = <<SubSeq(s, from, Len(s))>>
        /\ Find(s, Slash, from) # 0 =>
             Pieces(s, Slash)[from] = <<SubSeq(s, from, Find(s, Slash, from) - 1)>>
                                         \o Pieces(s, Slash)[Find(s, Slash, from) + Len(Slash)]
    BY SlashIs, PiecesStep
  <1>2. Len(Slash) = 1
    BY SlashIs
  <1>3. QED
    BY <1>1, <1>2, Zenon

\* Two strings with a slash between them.
LEMMA JoinedAtSlash ==
    ASSUME NEW s \in Seq(Chars), NEW t \in Seq(Chars)
    PROVE  /\ (s \o Slash) \o t \in Seq(Chars)
           /\ Len((s \o Slash) \o t) = Len(s) + 1 + Len(t)
           /\ \A i \in 1..Len(s) : ((s \o Slash) \o t)[i] = s[i]
           /\ ((s \o Slash) \o t)[Len(s) + 1] = "/"
           /\ \A i \in 1..Len(t) : ((s \o Slash) \o t)[Len(s) + 1 + i] = t[i]
  <1> DEFINE u == s \o Slash
             w == u \o t
  <1>1. Len(s) \in Nat /\ Len(t) \in Nat
    BY LenProperties
  <1>2. /\ u \in Seq(Chars) /\ Len(u) = Len(s) + 1
        /\ \A i \in 1..(Len(s) + 1) : u[i] = IF i <= Len(s) THEN s[i] ELSE Slash[i - Len(s)]
    <2>1. /\ u \in Seq(Chars) /\ Len(u) = Len(s) + Len(Slash)
          /\ \A i \in 1..(Len(s) + Len(Slash)) : u[i] = IF i <= Len(s) THEN s[i] ELSE Slash[i - Len(s)]
      BY SlashIs, ConcatProperties
    <2> HIDE DEF u
    <2>2. QED
      BY <2>1, SlashIs
  <1> HIDE DEF u
  <1>3. /\ w \in Seq(Chars) /\ Len(w) = Len(u) + Len(t)
        /\ \A i \in 1..(Len(u) + Len(t)) : w[i] = IF i <= Len(u) THEN u[i] ELSE t[i - Len(u)]
    <2>1. u \in Seq(Chars)
      BY <1>2
    <2>2. QED
      BY <2>1, ConcatProperties
  <1> HIDE DEF w
  <1>4. \A i \in 1..Len(s) : w[i] = s[i]
    BY <1>1, <1>2, <1>3
  <1>5. w[Len(s) + 1] = "/"
    <2>1. w[Len(s) + 1] = u[Len(s) + 1]
      BY <1>1, <1>2, <1>3
    <2>2. u[Len(s) + 1] = Slash[Len(s) + 1 - Len(s)]
      BY <1>1, <1>2
    <2>3. Len(s) + 1 - Len(s) = 1
      BY <1>1
    <2>4. QED
      BY <2>1, <2>2, <2>3, SlashIs
  <1>6. \A i \in 1..Len(t) : w[Len(s) + 1 + i] = t[i]
    <2>1. \A i \in 1..Len(t) : /\ Len(u) + i \in 1..(Len(u) + Len(t))
                              /\ ~(Len(u) + i <= Len(u)) /\ Len(u) + i - Len(u) = i
      BY <1>1, <1>2
    <2>2. \A i \in 1..Len(t) : w[Len(u) + i] = t[i]
      BY <1>3, <2>1
    <2>3. QED
      BY <1>2, <2>2
  <1>7. QED
    BY <1>2, <1>3, <1>4, <1>5, <1>6 DEF w, u

\* After the slash between two strings the second is split as it is alone.
LEMMA PiecesAfter ==
    ASSUME NEW s \in Seq(Chars), NEW t \in Seq(Chars),
           NEW w, w = (s \o Slash) \o t
    PROVE  \A i \in 1..(Len(t) + 1) :
             Pieces(w, Slash)[Len(s) + 1 + i] = Pieces(t, Slash)[i]
  <1> DEFINE a == Len(s) + 1
             n == Len(t) + 1
             P == {i \in 1..n : Pieces(w, Slash)[a + i] = Pieces(t, Slash)[i]}
  <1>1. Len(s) \in Nat /\ Len(t) \in Nat /\ a \in Nat /\ n \in Nat
    BY LenProperties
  <1>2. w \in Seq(Chars) /\ Len(w) = a + Len(t) /\ \A i \in 1..Len(t) : w[a + i] = t[i]
    BY JoinedAtSlash
  <1> HIDE DEF a
  <1>3. \A i \in 1..n : (\A j \in (i + 1)..n : j \in P) => i \in P
    <2> SUFFICES ASSUME NEW i \in 1..n, \A j \in (i + 1)..n : j \in P
                 PROVE  Pieces(w, Slash)[a + i] = Pieces(t, Slash)[i]
      OBVIOUS
    <2> DEFINE k == Find(t, Slash, i)
               b == a + i
    <2>1. b \in 1..(Len(w) + 1)
      BY <1>1, <1>2
    <2>2. CASE k = 0
      <3> DEFINE m == Len(w)
      <3>1. NoSlash(t, i, Len(t))
        BY <2>2, FindSlash
      <3>2. NoSlash(w, b, m)
        <4> SUFFICES ASSUME NEW l \in b..m
                     PROVE  w[l] # "/"
          BY DEF NoSlash
        <4>1. l - a \in i..Len(t) /\ l - a \in 1..Len(t) /\ a + (l - a) = l
          BY <1>1, <1>2
        <4>2. w[a + (l - a)] = t[l - a]
          BY <1>2, <4>1
        <4>3. QED
          BY <3>1, <4>1, <4>2 DEF NoSlash
      <3>3. Agree(w, a, t, i, Len(t)) /\ m = a + Len(t) /\ Len(t) \in (i - 1)..Len(t) /\ m <= Len(w)
        BY <1>1, <1>2 DEF Agree
      <3>4. b = a + i
        OBVIOUS
      <3> HIDE DEF b, m
      <3>5. SubSeq(w, b, m) = SubSeq(t, i, Len(t))
        <4>1. w \in Seq(Chars) /\ a \in Nat /\ Len(t) \in (i - 1)..Len(t) /\ i \in 1..(Len(t) + 1)
          BY <1>1, <1>2, <3>3
        <4>2. Copied(w, b, m, t, i, Len(t))
          BY <3>3, <3>4, <4>1 DEF Copied
        <4>3. SamePart(w, b, m, t, i, Len(t))
          BY <4>1, <4>2, SliceCopied
        <4>4. QED
          BY <4>3 DEF SamePart
      <3>6. Find(w, Slash, b) = 0
        BY <1>2, <2>1, <3>2, FindNone DEF m
      <3>7. Pieces(w, Slash)[b] = <<SubSeq(w, b, m)>>
        BY <1>2, <2>1, <3>6, PartsStep DEF m
      <3>8. Pieces(t, Slash)[i] = <<SubSeq(t, i, Len(t))>>
        BY <2>2, PartsStep
      <3>9. QED
        BY <3>5, <3>7, <3>8 DEF b
    <2>3. CASE k # 0
      <3> DEFINE m == a + k
      <3>1. k \in i..Len(t) /\ t[k] = "/" /\ NoSlash(t, i, k - 1)
        BY <2>3, FindSlash
      <3> HIDE DEF k
      <3>2. NoSlash(w, b, m - 1)
        <4> SUFFICES ASSUME NEW l \in b..(m - 1)
                     PROVE  w[l] # "/"
          BY DEF NoSlash
        <4>1. l - a \in i..(k - 1) /\ l - a \in 1..Len(t) /\ a + (l - a) = l
          BY <1>1, <1>2, <3>1
        <4>2. w[a + (l - a)] = t[l - a]
          BY <1>2, <4>1
        <4>3. QED
          BY <3>1, <4>1, <4>2 DEF NoSlash
      <3>3. m \in b..Len(w) /\ w[m] = "/" /\ m # 0
        BY <1>1, <1>2, <3>1, SMTT(30)
      <3>4. k - 1 \in (i - 1)..Len(t) /\ m - 1 <= Len(w) /\ m - 1 = a + (k - 1)
        BY <1>1, <1>2, <3>1
      <3>5. k + 1 \in (i + 1)..n /\ a + (k + 1) = m + 1 /\ b = a + i
        BY <1>1, <3>1
      <3> HIDE DEF b, m
      <3>6. SubSeq(w, b, m - 1) = SubSeq(t, i, k - 1)
        <4> DEFINE z == k - 1
                   y == m - 1
        <4>1. \A l \in i..z : l \in 1..Len(t)
          BY <1>1, <3>1
        <4>2. Agree(w, a, t, i, z)
          BY <1>2, <4>1 DEF Agree
        <4>3. /\ w \in Seq(Chars) /\ a \in Nat /\ z \in (i - 1)..Len(t)
              /\ y = a + z /\ y <= Len(w) /\ i \in 1..(Len(t) + 1)
          BY <1>1, <1>2, <3>4
        <4> HIDE DEF y, z, P
        <4>4. Copied(w, b, y, t, i, z)
          BY <3>5, <4>2, <4>3 DEF Copied
        <4>5. SamePart(w, b, y, t, i, z)
          BY <4>3, <4>4, SliceCopied
        <4>6. QED
          BY <4>5 DEF SamePart, y, z
      <3>7. Find(w, Slash, b) = m
        BY <1>2, <2>1, <3>2, <3>3, FindFirst
      <3>8. Pieces(w, Slash)[m + 1] = Pieces(t, Slash)[k + 1]
        BY <3>5
      <3>9. Pieces(w, Slash)[b] = <<SubSeq(w, b, m - 1)>> \o Pieces(w, Slash)[m + 1]
        BY <1>2, <2>1, <3>3, <3>7, PartsStep
      <3>10. Pieces(t, Slash)[i] = <<SubSeq(t, i, k - 1)>> \o Pieces(t, Slash)[k + 1]
        BY <2>3, PartsStep DEF k
      <3>11. QED
        BY <3>6, <3>8, <3>9, <3>10 DEF b
    <2>4. QED
      BY <2>2, <2>3
  <1> HIDE DEF P, n
  <1>4. 1..n \subseteq P
    BY <1>1, <1>3, FromTheLast
  <1>5. QED
    BY <1>4 DEF P, n, a

\* A string is split at each of its slashes.
LEMMA SplitAtSlash ==
    ASSUME NEW s \in Seq(Chars), NEW t \in Seq(Chars),
           NEW w, w = (s \o Slash) \o t
    PROVE  Parts(w) = Parts(s) \o Parts(t)
  <1> DEFINE n == Len(s) + 1
             P == {i \in 1..n : Pieces(w, Slash)[i] = Pieces(s, Slash)[i] \o Parts(t)}
  <1>1. Len(s) \in Nat /\ Len(t) \in Nat /\ n \in Nat /\ n = Len(s) + 1 /\ 0 \in Nat
    BY LenProperties
  <1>2. /\ w \in Seq(Chars) /\ Len(w) = n + Len(t) /\ w[n] = "/"
        /\ \A i \in 1..Len(s) : w[i] = s[i]
    BY JoinedAtSlash
  <1>3. Parts(t) \in Seq(Seq(Chars)) /\ Pieces(w, Slash)[n + 1] = Parts(t)
    <2>1. 1 \in 1..(Len(t) + 1)
      BY <1>1
    <2>2. Pieces(w, Slash)[Len(s) + 1 + 1] = Pieces(t, Slash)[1]
      BY <2>1, PiecesAfter
    <2>3. QED
      BY <2>1, <2>2, PartsStep DEF Parts
  <1> HIDE DEF n
  <1>4. \A i \in 1..n : (\A j \in (i + 1)..n : j \in P) => i \in P
    <2> SUFFICES ASSUME NEW i \in 1..n, \A j \in (i + 1)..n : j \in P
                 PROVE  Pieces(w, Slash)[i] = Pieces(s, Slash)[i] \o Parts(t)
      OBVIOUS
    <2> DEFINE k == Find(s, Slash, i)
    <2>1. i \in 1..(Len(w) + 1) /\ i \in 1..(Len(s) + 1)
      BY <1>1, <1>2
    <2>2. CASE k = 0
      <3> DEFINE z == Len(s)
      <3>1. NoSlash(s, i, z)
        BY <2>1, <2>2, FindSlash
      <3>2. z = n - 1 /\ z \in (i - 1)..Len(s) /\ z = 0 + z /\ i = 0 + i /\ z <= Len(w)
        BY <1>1, <1>2
      <3>3. Agree(w, 0, s, i, z)
        <4>1. \A l \in i..z : l \in 1..Len(s) /\ 0 + l = l
          BY <1>1
        <4>2. QED
          BY <1>2, <4>1 DEF Agree
      <3>4. NoSlash(w, i, n - 1)
        <4>1. \A l \in i..(n - 1) : l \in 1..Len(s) /\ l \in i..z
          BY <1>1
        <4>2. QED
          BY <1>2, <3>1, <4>1 DEF NoSlash
      <3>5. n \in i..Len(w) /\ n # 0
        BY <1>1, <1>2
      <3> HIDE DEF z
      <3>6. SubSeq(w, i, z) = SubSeq(s, i, z)
        <4>1. w \in Seq(Chars) /\ 0 \in Nat /\ i \in 1..(Len(s) + 1)
          BY <1>1, <1>2, <2>1
        <4>2. Copied(w, i, z, s, i, z)
          BY <3>2, <3>3, <4>1 DEF Copied
        <4>3. SamePart(w, i, z, s, i, z)
          BY <4>1, <4>2, SliceCopied
        <4>4. QED
          BY <4>3 DEF SamePart
      <3>7. Find(w, Slash, i) = n
        BY <1>2, <2>1, <3>4, <3>5, FindFirst
      <3>8. Pieces(w, Slash)[i] = <<SubSeq(w, i, z)>> \o Parts(t)
        <4>1. Pieces(w, Slash)[i] = <<SubSeq(w, i, n - 1)>> \o Pieces(w, Slash)[n + 1]
          BY <1>2, <2>1, <3>5, <3>7, PartsStep
        <4>2. QED
          BY <1>3, <3>2, <4>1
      <3>9. Pieces(s, Slash)[i] = <<SubSeq(s, i, z)>>
        BY <2>1, <2>2, PartsStep DEF z
      <3>10. QED
        BY <3>6, <3>8, <3>9
    <2>3. CASE k # 0
      <3>1. k \in i..Len(s) /\ s[k] = "/" /\ NoSlash(s, i, k - 1)
        BY <2>1, <2>3, FindSlash
      <3> HIDE DEF k
      <3> DEFINE z == k - 1
      <3>2. /\ z \in (i - 1)..Len(s) /\ z = 0 + z /\ i = 0 + i /\ z <= Len(w)
            /\ k \in i..Len(w) /\ k \in 1..Len(s) /\ k + 1 \in (i + 1)..n
        BY <1>1, <1>2, <3>1
      <3>3. \A l \in i..z : l \in 1..Len(s) /\ 0 + l = l
        BY <1>1, <3>1
      <3> HIDE DEF z
      <3>4. Agree(w, 0, s, i, z)
        BY <1>2, <3>3 DEF Agree
      <3>5. NoSlash(w, i, z)
        <4>1. NoSlash(s, i, z)
          BY <3>1 DEF z
        <4>2. QED
          BY <1>2, <3>3, <4>1 DEF NoSlash
      <3>6. SubSeq(w, i, z) = SubSeq(s, i, z)
        <4>1. w \in Seq(Chars) /\ 0 \in Nat /\ i \in 1..(Len(s) + 1)
          BY <1>1, <1>2, <2>1
        <4>2. Copied(w, i, z, s, i, z)
          BY <3>2, <3>4, <4>1 DEF Copied
        <4>3. SamePart(w, i, z, s, i, z)
          BY <4>1, <4>2, SliceCopied
        <4>4. QED
          BY <4>3 DEF SamePart
      <3>7. Find(w, Slash, i) = k
        <4>1. w[k] = "/" /\ NoSlash(w, i, k - 1)
          BY <1>2, <3>1, <3>2, <3>5 DEF z
        <4>2. QED
          BY <1>2, <2>1, <3>2, <4>1, FindFirst
      <3>8. Pieces(w, Slash)[i] = <<SubSeq(w, i, z)>> \o Pieces(w, Slash)[k + 1]
        BY <1>2, <2>1, <2>3, <3>7, PartsStep DEF k, z
      <3>9. Pieces(s, Slash)[i] = <<SubSeq(s, i, z)>> \o Pieces(s, Slash)[k + 1]
        BY <2>1, <2>3, PartsStep DEF k, z
      <3>10. Pieces(w, Slash)[k + 1] = Pieces(s, Slash)[k + 1] \o Parts(t)
        BY <3>2
      <3> DEFINE one == <<SubSeq(s, i, z)>>
                 rest == Pieces(s, Slash)[k + 1]
      <3>11. one \in Seq(Seq(Chars)) /\ rest \in Seq(Seq(Chars))
        <4>1. k + 1 \in 1..(Len(s) + 1)
          BY <1>1, <3>2
        <4>2. SubSeq(s, i, z) \in Seq(Chars)
          BY <2>1, <3>2, Slice
        <4>3. one \in Seq(Seq(Chars))
          BY <4>2
        <4>4. rest \in Seq(Seq(Chars))
          BY <4>1, PartsStep
        <4>5. QED
          BY <4>3, <4>4
      <3> HIDE DEF one, rest
      <3>12. Associates(one, rest, Parts(t))
        BY <1>3, <3>11, ConcatAssociates
      <3>13. QED
        BY <3>6, <3>8, <3>9, <3>10, <3>12 DEF Associates, one, rest
    <2>4. QED
      BY <2>2, <2>3
  <1> HIDE DEF P
  <1>5. 1..n \subseteq P
    BY <1>1, <1>4, FromTheLast
  <1>6. 1 \in 1..n
    BY <1>1
  <1>7. QED
    BY <1>5, <1>6 DEF P, Parts

\* The last of a sequence and what comes before it.
LEMMA LastOfAppend ==
    ASSUME NEW S, NEW p \in Seq(S), NEW e \in S
    PROVE  /\ p \o <<e>> = Append(p, e)
           /\ Front(Append(p, e)) = p
           /\ Last(Append(p, e)) = e
           /\ Len(Append(p, e)) = Len(p) + 1
  <1> DEFINE q == Append(p, e)
             u == SubSeq(q, 1, Len(p))
  <1>1. p \o <<e>> = q
    BY AppendIsConcat
  <1>2. /\ q \in Seq(S) /\ Len(q) = Len(p) + 1 /\ q[Len(p) + 1] = e
        /\ \A i \in 1..Len(p) : q[i] = p[i]
    BY AppendProperties
  <1>3. Len(p) \in Nat
    BY LenProperties
  <1> HIDE DEF q
  <1>4. /\ u \in Seq(S) /\ Len(u) = Len(p)
        /\ \A i \in 1..Len(p) : u[i] = q[i]
    <2>1. 1 \in 1..(Len(q) + 1) /\ Len(p) \in (1 - 1)..Len(q) /\ Len(p) - 1 + 1 = Len(p)
      BY <1>2, <1>3
    <2>2. /\ u \in Seq(S) /\ Len(u) = Len(p) - 1 + 1
          /\ \A i \in 1..(Len(p) - 1 + 1) : u[i] = q[1 + i - 1]
      BY <1>2, <2>1, Slice
    <2>3. \A i \in 1..Len(p) : 1 + i - 1 = i
      BY <1>3
    <2> HIDE DEF u
    <2>4. QED
      BY <2>1, <2>2, <2>3
  <1> HIDE DEF u
  <1>5. u = p
    <2>1. Len(u) = Len(p) /\ \A i \in 1..Len(u) : u[i] = p[i]
      BY <1>2, <1>4
    <2>2. QED
      BY <1>4, <2>1, SeqEqual
  <1>6. Len(q) - 1 = Len(p)
    BY <1>2, <1>3
  <1>7. Front(q) = p
    BY <1>5, <1>6 DEF Front, u
  <1>8. Last(q) = e
    BY <1>2 DEF Last
  <1>9. QED
    BY <1>1, <1>2, <1>7, <1>8 DEF q

\* The parts of a string, and those of a string without a slash.
LEMMA PartsAre ==
    ASSUME NEW s \in Seq(Chars)
    PROVE  /\ Parts(s) \in Seq(Seq(Chars)) /\ Parts(s) # <<>>
           /\ s # <<>> => StringSplit(s, Slash) = Parts(s)
           /\ NoSlash(s, 1, Len(s)) => Parts(s) = <<s>>
  <1>1. 1 \in 1..(Len(s) + 1)
    BY LenProperties
  <1>2. Parts(s) \in Seq(Seq(Chars)) /\ Parts(s) # <<>>
    BY <1>1, PartsStep DEF Parts
  <1>3. s # <<>> => StringSplit(s, Slash) = Parts(s)
    BY DEF StringSplit, Parts
  <1>4. ASSUME NoSlash(s, 1, Len(s))
        PROVE  Parts(s) = <<s>>
    <2>1. Find(s, Slash, 1) = 0
      BY <1>1, <1>4, FindNone
    <2>2. Parts(s) = <<SubSeq(s, 1, Len(s))>>
      BY <1>1, <2>1, PartsStep DEF Parts
    <2>3. QED
      BY <2>2, SubSeqFull
  <1>5. QED
    BY <1>2, <1>3, <1>4

\* An empty string is one empty segment.
LEMMA PartsOfNone == Parts(<<>>) = <<<<>>>>
  <1>1. <<>> \in Seq(Chars) /\ NoSlash(<<>>, 1, Len(<<>>))
    BY DEF NoSlash
  <1>2. QED
    BY <1>1, PartsAre

\* A string has no slash or a last one.
LEMMA LastSlash ==
    ASSUME NEW s \in Seq(Chars), NEW from \in 1..(Len(s) + 1)
    PROVE  \/ NoSlash(s, from, Len(s))
           \/ \E q \in from..Len(s) : s[q] = "/" /\ NoSlash(s, q + 1, Len(s))
  <1> DEFINE n == Len(s)
             S == {i \in from..n : s[i] = "/"}
  <1>1. n \in Nat
    BY LenProperties
  <1> HIDE DEF n
  <1>2. CASE S = {}
    <2>1. NoSlash(s, from, n)
      BY <1>2 DEF NoSlash
    <2>2. QED
      BY <2>1 DEF n
  <1>3. CASE S # {}
    <2> DEFINE q == Max(S)
    <2>1. \A i \in S : i \in 0..n
      BY <1>1
    <2>2. q \in S /\ \A i \in S : i <= q
      <3> HIDE DEF S
      <3>1. QED
        BY <1>1, <1>3, <2>1, MaxPosition
    <2> HIDE DEF q
    <2>3. NoSlash(s, q + 1, n)
      BY <1>1, <2>2 DEF NoSlash
    <2>4. QED
      BY <2>2, <2>3 DEF n
  <1>4. QED
    BY <1>2, <1>3

\* The string s has its last slash at q, a before it and t behind it; t is its last
\* part.
HasLastSlash(s, q, a, t) ==
    /\ q \in 1..Len(s) /\ s[q] = "/" /\ NoSlash(s, q + 1, Len(s))
    /\ a = SubSeq(s, 1, q - 1) /\ t = SubSeq(s, q + 1, Len(s))
HasLastPart(s, a, t) ==
    /\ a \in Seq(Chars) /\ t \in Seq(Chars)
    /\ Parts(s) = Append(Parts(a), t) /\ Len(Parts(s)) > 1

LEMMA AtLastSlash ==
    ASSUME NEW s \in Seq(Chars), NEW q, NEW a, NEW t, HasLastSlash(s, q, a, t)
    PROVE  HasLastPart(s, a, t) /\ Len(a) = q - 1
  <1> SUFFICES ASSUME q \in 1..Len(s), s[q] = "/", NoSlash(s, q + 1, Len(s)),
                      a = SubSeq(s, 1, q - 1), t = SubSeq(s, q + 1, Len(s))
               PROVE  /\ a \in Seq(Chars) /\ Len(a) = q - 1 /\ t \in Seq(Chars)
                      /\ Parts(s) = Append(Parts(a), t)
                      /\ Len(Parts(s)) > 1
    BY DEF HasLastSlash, HasLastPart
  <1>1. Len(s) \in Nat
    BY LenProperties
  <1>2. a \in Seq(Chars) /\ Len(a) = q - 1 /\ \A i \in 1..(q - 1) : a[i] = s[i]
    <2> DEFINE z == q - 1
    <2>1. 1 \in 1..(Len(s) + 1) /\ z \in (1 - 1)..Len(s) /\ z - 1 + 1 = z
      BY <1>1
    <2>2. \A i \in 1..z : 1 + i - 1 = i
      BY <1>1
    <2> HIDE DEF z
    <2>3. /\ SubSeq(s, 1, z) \in Seq(Chars) /\ Len(SubSeq(s, 1, z)) = z - 1 + 1
          /\ \A i \in 1..(z - 1 + 1) : SubSeq(s, 1, z)[i] = s[1 + i - 1]
      BY <2>1, Slice, SMTT(40)
    <2>4. QED
      BY <2>1, <2>2, <2>3 DEF z
  <1>3. t \in Seq(Chars) /\ Len(t) = Len(s) - q /\ \A i \in 1..(Len(s) - q) : t[i] = s[q + i]
    <2> DEFINE z == q + 1
    <2>1. z \in 1..(Len(s) + 1) /\ Len(s) \in (z - 1)..Len(s) /\ Len(s) - z + 1 = Len(s) - q
      BY <1>1
    <2>2. \A i \in 1..(Len(s) - q) : z + i - 1 = q + i
      BY <1>1
    <2> HIDE DEF z
    <2>3. /\ SubSeq(s, z, Len(s)) \in Seq(Chars) /\ Len(SubSeq(s, z, Len(s))) = Len(s) - z + 1
          /\ \A i \in 1..(Len(s) - z + 1) : SubSeq(s, z, Len(s))[i] = s[z + i - 1]
      BY <2>1, Slice
    <2>4. QED
      BY <2>1, <2>2, <2>3, ZenonT(60) DEF z
  <1> DEFINE w == (a \o Slash) \o t
  <1>4. /\ w \in Seq(Chars) /\ Len(w) = Len(a) + 1 + Len(t)
        /\ \A i \in 1..Len(a) : w[i] = a[i]
        /\ w[Len(a) + 1] = "/"
        /\ \A i \in 1..Len(t) : w[Len(a) + 1 + i] = t[i]
    BY <1>2, <1>3, JoinedAtSlash
  <1>5. w = s
    <2> HIDE DEF w
    <2>1. Len(w) = Len(s)
      BY <1>1, <1>2, <1>3, <1>4
    <2>2. ASSUME NEW i \in 1..Len(s)
          PROVE  w[i] = s[i]
      <3>1. CASE i < q
        <4>1. i \in 1..Len(a) /\ i \in 1..(q - 1)
          BY <1>1, <1>2, <3>1
        <4>2. w[i] = a[i] /\ a[i] = s[i]
          BY <1>2, <1>4, <4>1
        <4>3. QED
          BY <4>2
      <3>2. CASE i = q
        <4>1. Len(a) + 1 = q
          BY <1>1, <1>2
        <4>2. w[q] = "/"
          BY <1>4, <4>1
        <4>3. QED
          BY <3>2, <4>2
      <3>3. CASE i > q
        <4>1. i - q \in 1..Len(t) /\ q + (i - q) = i /\ Len(a) + 1 + (i - q) = i /\ i - q \in 1..(Len(s) - q)
          BY <1>1, <1>2, <1>3, <3>3
        <4>2. w[Len(a) + 1 + (i - q)] = t[i - q] /\ t[i - q] = s[q + (i - q)]
          BY <1>3, <1>4, <4>1
        <4>3. QED
          BY <4>1, <4>2
      <3>4. QED
        BY <3>1, <3>2, <3>3
    <2>3. QED
      BY <1>4, <2>1, <2>2, SeqEqual
  <1>6. NoSlash(t, 1, Len(t))
    <2> SUFFICES ASSUME NEW i \in 1..Len(t)
                 PROVE  t[i] # "/"
      BY DEF NoSlash
    <2>1. i \in 1..(Len(s) - q) /\ q + i \in (q + 1)..Len(s)
      BY <1>1, <1>3
    <2>2. QED
      BY <1>3, <2>1 DEF NoSlash
  <1>7. Parts(s) = Parts(a) \o Parts(t)
    BY <1>2, <1>3, <1>5, SplitAtSlash
  <1>8. Parts(t) = <<t>> /\ Parts(a) \in Seq(Seq(Chars)) /\ Parts(a) # <<>>
    BY <1>2, <1>3, <1>6, PartsAre
  <1>9. Parts(s) = Append(Parts(a), t) /\ Len(Parts(s)) = Len(Parts(a)) + 1
    <2>1. /\ Parts(a) \o <<t>> = Append(Parts(a), t)
          /\ Len(Append(Parts(a), t)) = Len(Parts(a)) + 1
      BY <1>3, <1>8, LastOfAppend
    <2>2. QED
      BY <1>7, <1>8, <2>1
  <1>10. Len(Parts(a)) \in Nat /\ Len(Parts(a)) # 0
    BY <1>8, EmptySeq, LenProperties
  <1>11. QED
    BY <1>2, <1>3, <1>9, <1>10, SMTT(30)

LEMMA LastPartIs ==
    ASSUME NEW s, NEW a, NEW t, HasLastPart(s, a, t)
    PROVE  Front(Parts(s)) = Parts(a) /\ Last(Parts(s)) = t
  <1>1. a \in Seq(Chars) /\ t \in Seq(Chars) /\ Parts(s) = Append(Parts(a), t)
    BY DEF HasLastPart
  <1>2. Parts(a) \in Seq(Seq(Chars))
    BY <1>1, PartsAre
  <1> DEFINE p == Parts(a)
  <1>3. p \in Seq(Seq(Chars)) /\ p = Parts(a)
    BY <1>2
  <1> HIDE DEF p
  <1>4. Front(Append(p, t)) = p /\ Last(Append(p, t)) = t
    BY <1>1, <1>3, LastOfAppend
  <1>5. QED
    BY <1>1, <1>3, <1>4

\* A string has one part if it has no slash, and otherwise more.
LEMMA SingleIs ==
    ASSUME NEW s \in Seq(Chars)
    PROVE  /\ NoSlash(s, 1, Len(s)) => Len(Parts(s)) = 1
           /\ Len(Parts(s)) = 1 => NoSlash(s, 1, Len(s)) /\ Parts(s) = <<s>>
           /\ s # <<>> => Parts(s) # <<<<>>>>
  <1>1. 1 \in 1..(Len(s) + 1)
    BY LenProperties
  <1>2. CASE NoSlash(s, 1, Len(s))
    <2>1. Parts(s) = <<s>>
      BY <1>2, PartsAre
    <2>2. Len(<<s>>) = 1 /\ <<s>>[1] = s /\ <<<<>>>>[1] = <<>>
      OBVIOUS
    <2>3. QED
      BY <1>2, <2>1, <2>2
  <1>3. CASE ~NoSlash(s, 1, Len(s))
    <2>1. PICK q \in 1..Len(s) : s[q] = "/" /\ NoSlash(s, q + 1, Len(s))
      BY <1>1, <1>3, LastSlash
    <2> DEFINE a == SubSeq(s, 1, q - 1)
               t == SubSeq(s, q + 1, Len(s))
    <2>2. HasLastSlash(s, q, a, t)
      BY <2>1 DEF HasLastSlash
    <2> HIDE DEF a, t
    <2>3. Len(Parts(s)) > 1
      BY <2>2, AtLastSlash DEF HasLastPart
    <2>4. Len(<<<<>>>>) = 1 /\ ~(1 > 1)
      OBVIOUS
    <2>5. Parts(s) # <<<<>>>> /\ Len(Parts(s)) # 1
      BY <2>3, <2>4, Zenon
    <2>6. QED
      BY <1>3, <2>5, Zenon
  <1>4. QED
    BY <1>2, <1>3

\* get_basename gives the last part.
LEMMA BasenameIs ==
    ASSUME NEW s \in Seq(Chars)
    PROVE  GetBasename(s) = Last(Parts(s))
  <1> DEFINE S == {i \in DOMAIN s : s[i] = "/"}
  <1>1. Len(s) \in Nat /\ DOMAIN s = 1..Len(s)
    BY LenProperties
  <1>2. Contains(s, "/") <=> ~NoSlash(s, 1, Len(s))
    BY DEF Contains, NoSlash
  <1>3. CASE NoSlash(s, 1, Len(s))
    <2>1. GetBasename(s) = s
      BY <1>2, <1>3 DEF GetBasename
    <2>2. Parts(s) = <<s>>
      BY <1>3, PartsAre
    <2>3. Last(<<s>>) = s
      BY DEF Last
    <2>4. QED
      BY <2>1, <2>2, <2>3
  <1>4. CASE ~NoSlash(s, 1, Len(s))
    <2> DEFINE q == Max(S)
               a == SubSeq(s, 1, q - 1)
               t == SubSeq(s, q + 1, Len(s))
    <2>1. q \in S /\ \A i \in S : i <= q
      <3>1. S # {} /\ \A i \in S : i \in 0..Len(s)
        BY <1>1, <1>4 DEF NoSlash
      <3> HIDE DEF S
      <3>2. QED
        BY <1>1, <3>1, MaxPosition
    <2>2. GetBasename(s) = t
      BY <1>2, <1>4 DEF GetBasename
    <2> HIDE DEF q
    <2>3. q \in 1..Len(s) /\ s[q] = "/" /\ NoSlash(s, q + 1, Len(s))
      BY <1>1, <2>1 DEF NoSlash
    <2> HIDE DEF S
    <2>4. HasLastSlash(s, q, a, t)
      BY <2>3 DEF HasLastSlash
    <2> HIDE DEF a, t
    <2>5. Last(Parts(s)) = t
      BY <2>4, AtLastSlash, LastPartIs
    <2>6. QED
      BY <2>2, <2>5
  <1>5. QED
    BY <1>3, <1>4

\* A slash before a string puts an empty part before its parts.
LEMMA AfterSlash ==
    ASSUME NEW y \in Seq(Chars)
    PROVE  /\ Slash \o y \in Seq(Chars) /\ Slash \o y # <<>> /\ Tail(Slash \o y) = y
           /\ (Slash \o y)[1] = "/" /\ Len(Slash \o y) = 1 + Len(y)
           /\ Parts(Slash \o y) = <<<<>>>> \o Parts(y)
           /\ Tail(Parts(Slash \o y)) = Parts(y)
           /\ Last(Parts(Slash \o y)) = Last(Parts(y))
           /\ \A i \in 1..Len(y) : (Slash \o y)[1 + i] = y[i]
  <1> DEFINE x == Slash \o y
             none == <<>>
  <1>1. none \in Seq(Chars) /\ none = <<>> /\ Len(none) = 0
    OBVIOUS
  <1> HIDE DEF none
  <1>2. x = (none \o Slash) \o y
    <2>1. none \o Slash = Slash
      BY <1>1, SlashIs, ConcatEmptySeq
    <2>2. QED
      BY <2>1
  <1>3. Len(y) \in Nat
    BY LenProperties
  <1>4. /\ x \in Seq(Chars) /\ Len(x) = 1 + Len(y) /\ x[1] = "/"
        /\ \A i \in 1..Len(y) : x[1 + i] = y[i]
    <2> HIDE DEF x
    <2>1. /\ (none \o Slash) \o y \in Seq(Chars)
          /\ Len((none \o Slash) \o y) = Len(none) + 1 + Len(y)
          /\ ((none \o Slash) \o y)[Len(none) + 1] = "/"
          /\ \A i \in 1..Len(y) : ((none \o Slash) \o y)[Len(none) + 1 + i] = y[i]
      BY <1>1, JoinedAtSlash
    <2>2. Len(none) + 1 = 1
      BY <1>1
    <2>3. QED
      BY <1>2, <2>1, <2>2
  <1>5. x # <<>>
    BY <1>3, <1>4, EmptySeq
  <1>6. Tail(x) = y
    BY SlashIs, OneBefore DEF Slash
  <1>7. Parts(x) = Parts(none) \o Parts(y)
    <2> HIDE DEF x
    <2>1. QED
      BY <1>1, <1>2, SplitAtSlash
  <1>8. Parts(none) = <<<<>>>>
    BY <1>1, PartsOfNone
  <1> HIDE DEF x
  <1>9. Parts(y) \in Seq(Seq(Chars)) /\ Parts(y) # <<>> /\ none \in Seq(Chars)
    BY <1>1, PartsAre
  <1> DEFINE p == <<none>> \o Parts(y)
  <1>10. /\ p \in Seq(Seq(Chars)) /\ Len(p) = 1 + Len(Parts(y)) /\ Tail(p) = Parts(y)
    BY <1>9, OneBefore
  <1>11. Parts(x) = p
    BY <1>1, <1>7, <1>8
  <1> HIDE DEF p
  <1>12. Last(p) = Last(Parts(y))
    <2>1. p # <<>> /\ Len(Parts(y)) \in Nat \ {0}
      BY <1>9, <1>10, EmptySeq, LenProperties
    <2>2. \A i \in 1..Len(Tail(p)) : Tail(p)[i] = p[i + 1]
      BY <1>10, <2>1, HeadTailProperties
    <2>3. Len(Parts(y)) \in 1..Len(Tail(p)) /\ Len(Parts(y)) + 1 = Len(p)
      BY <1>10, <2>1
    <2>4. Parts(y)[Len(Parts(y))] = p[Len(p)]
      BY <1>10, <2>2, <2>3
    <2>5. QED
      BY <2>4 DEF Last
  <1>13. QED
    BY <1>1, <1>4, <1>5, <1>6, <1>10, <1>11, <1>12 DEF x, p

\* A string with a slash in front is a slash and the rest.
LEMMA StartsAtSlash ==
    ASSUME NEW s \in Seq(Chars), s # <<>>, s[1] = "/"
    PROVE  Tail(s) \in Seq(Chars) /\ s = Slash \o Tail(s) /\ (s # Slash => Tail(s) # <<>>)
  <1> DEFINE y == Tail(s)
             x == Slash \o y
  <1>1. y \in Seq(Chars) /\ Len(y) = Len(s) - 1 /\ \A i \in 1..Len(y) : y[i] = s[i + 1]
    BY HeadTailProperties
  <1>2. Len(s) \in Nat \ {0}
    BY EmptySeq, LenProperties
  <1> HIDE DEF y
  <1>3. /\ x \in Seq(Chars) /\ x[1] = "/" /\ Len(x) = 1 + Len(y)
        /\ \A i \in 1..Len(y) : x[1 + i] = y[i]
    BY <1>1, AfterSlash
  <1> HIDE DEF x
  <1>4. Len(x) = Len(s)
    BY <1>1, <1>2, <1>3
  <1>5. ASSUME NEW i \in 1..Len(s)
        PROVE  x[i] = s[i]
    <2>1. CASE i = 1
      BY <1>3, <2>1
    <2>2. CASE i # 1
      <3>1. i - 1 \in 1..Len(y) /\ 1 + (i - 1) = i /\ (i - 1) + 1 = i
        BY <1>1, <1>2, <2>2
      <3>2. x[1 + (i - 1)] = y[i - 1] /\ y[i - 1] = s[(i - 1) + 1]
        BY <1>1, <1>3, <3>1
      <3>3. QED
        BY <3>1, <3>2
    <2>3. QED
      BY <2>1, <2>2
  <1>6. x = s
    BY <1>3, <1>4, <1>5, SeqEqual
  <1>7. y = <<>> => s = Slash
    <2>1. Slash \o <<>> = Slash
      BY SlashIs, ConcatEmptySeq
    <2>2. QED
      BY <1>6, <2>1 DEF x
  <1>8. QED
    BY <1>1, <1>6, <1>7 DEF x, y

-----------------------------------------------------------------------------
(* Paths: parents and objects.                                             *)

\* PathAlgebra, with the empty string as its empty segment.
LEMMA SegIs ==
    /\ Seg!Root = <<>>
    /\ \A p : Seg!Parent(p) = IF Front(p) = <<<<>>>> THEN <<>> ELSE Front(p)
  <1>1. Seg!Root = <<>>
    BY DEF Seg!Root
  <1>2. \A p : Seg!Parent(p) = IF Front(p) = <<<<>>>> THEN <<>> ELSE Front(p)
    BY DEF Seg!Parent, Seg!Root, Seg!Front, Front
  <1>3. QED
    BY <1>1, <1>2

\* The segments of an absolute path.
LEMMA SegmentsAre ==
    ASSUME NEW y \in Seq(Chars)
    PROVE  /\ PathSegments(Slash) = <<>>
           /\ y # <<>> => PathSegments(Slash \o y) = Parts(y)
  <1>1. PathSegments(Slash) = <<>>
    BY SegIs DEF PathSegments
  <1>2. ASSUME y # <<>>
        PROVE  PathSegments(Slash \o y) = Parts(y)
    <2> DEFINE x == Slash \o y
    <2>1. /\ x \in Seq(Chars) /\ x # <<>> /\ Len(x) = 1 + Len(y)
          /\ Tail(Parts(x)) = Parts(y)
      BY AfterSlash
    <2> HIDE DEF x
    <2>2. x # Slash
      <3>1. Len(y) \in Nat \ {0}
        BY <1>2, EmptySeq, LenProperties
      <3>2. QED
        BY <2>1, <3>1, SlashIs
    <2>3. StringSplit(x, Slash) = Parts(x)
      BY <2>1, PartsAre
    <2>4. PathSegments(x) = Parts(y)
      BY <2>1, <2>2, <2>3 DEF PathSegments
    <2>5. QED
      BY <2>4 DEF x
  <1>3. QED
    BY <1>1, <1>2

\* The scan of get_parent_path stops at the last slash behind the second character.
LEMMA ParentText ==
    ASSUME NEW y \in Seq(Chars), y # <<>>
    PROVE  /\ NoSlash(y, 2, Len(y)) => GetParentPath(Slash \o y) = Slash
           /\ \A q \in 2..Len(y) : y[q] = "/" /\ NoSlash(y, q + 1, Len(y)) =>
                 GetParentPath(Slash \o y) = Slash \o SubSeq(y, 1, q - 1)
  <1> DEFINE x == Slash \o y
             S == {2} \cup {i \in 3..Len(x) : x[i] = "/"}
  <1>1. /\ x \in Seq(Chars) /\ x[1] = "/" /\ Len(x) = 1 + Len(y)
        /\ \A i \in 1..Len(y) : x[1 + i] = y[i]
    BY AfterSlash
  <1>2. Len(y) \in Nat \ {0}
    BY EmptySeq, LenProperties
  <1>3. SubSeq(x, 1, 1) = Slash
    <2>1. 1 \in 1..Len(Slash)
      BY SlashIs
    <2>2. SubSeq(x, 1, 1) = SubSeq(Slash, 1, 1)
      BY <2>1, SlashIs, SubSeqOfConcat1
    <2>3. SubSeq(Slash, 1, 1) = Slash
      BY SlashIs, SubSeqFull
    <2>4. QED
      BY <2>2, <2>3
  <1> HIDE DEF x
  <1>4. GetParentPath(x) = SubSeq(x, 1, Max(S) - 1)
    <2>1. ~(Len(x) <= 1) /\ x[1] = "/"
      BY <1>1, <1>2
    <2>2. ScanStop(x) = Max(S)
      BY Zenon DEF ScanStop
    <2> HIDE DEF S
    <2>3. GetParentPath(x) = SubSeq(x, 1, ScanStop(x) - 1)
      BY <2>1, Zenon DEF GetParentPath
    <2>4. QED
      BY <2>2, <2>3
  <1>5. \A i \in 3..Len(x) : i - 1 \in 2..Len(y) /\ i - 1 \in 1..Len(y) /\ x[i] = y[i - 1]
    <2> SUFFICES ASSUME NEW i \in 3..Len(x)
                 PROVE  i - 1 \in 2..Len(y) /\ i - 1 \in 1..Len(y) /\ x[i] = y[i - 1]
      OBVIOUS
    <2>1. i - 1 \in 2..Len(y) /\ i - 1 \in 1..Len(y) /\ 1 + (i - 1) = i
      BY <1>1, <1>2
    <2>2. x[1 + (i - 1)] = y[i - 1]
      BY <1>1, <2>1
    <2>3. QED
      BY <2>1, <2>2
  <1>6. Max(S) \in S /\ \A i \in S : i <= Max(S)
    <2>1. S # {} /\ \A i \in S : i \in 0..(Len(x) + 2)
      BY <1>1, <1>2
    <2>2. Len(x) + 2 \in Nat
      BY <1>1, <1>2
    <2> HIDE DEF S
    <2>3. QED
      BY <2>1, <2>2, MaxPosition
  <1>7. ASSUME NoSlash(y, 2, Len(y))
        PROVE  GetParentPath(x) = Slash
    <2>1. S = {2}
      BY <1>5, <1>7 DEF NoSlash
    <2> HIDE DEF S
    <2>2. Max(S) - 1 = 1
      BY <1>6, <2>1
    <2>3. QED
      BY <1>3, <1>4, <2>2
  <1>8. ASSUME NEW q \in 2..Len(y), y[q] = "/", NoSlash(y, q + 1, Len(y))
        PROVE  GetParentPath(x) = Slash \o SubSeq(y, 1, q - 1)
    <2>1. q + 1 \in S
      <3>1. q + 1 \in 3..Len(x) /\ q \in 1..Len(y) /\ 1 + q = q + 1
        BY <1>1, <1>2
      <3>2. x[q + 1] = "/"
        BY <1>1, <1>8, <3>1
      <3>3. QED
        BY <3>1, <3>2
    <2>2. \A i \in S : i \in Nat /\ i <= q + 1
      <3> SUFFICES ASSUME NEW i \in 3..Len(x), x[i] = "/", ~(i <= q + 1)
                   PROVE  FALSE
        BY <1>2
      <3>1. i - 1 \in (q + 1)..Len(y) /\ y[i - 1] = "/"
        BY <1>1, <1>2, <1>5
      <3>2. QED
        BY <1>8, <3>1 DEF NoSlash
    <2> HIDE DEF S
    <2>3. Max(S) = q + 1
      BY <1>6, <2>1, <2>2
    <2>4. Max(S) - 1 = q
      BY <2>3
    <2> DEFINE z == q - 1
    <2>5. /\ z \in (1 - 1)..Len(y) /\ 2 = 1 + 1 /\ q = 1 + z /\ q <= Len(x)
          /\ 1 \in 1..(Len(y) + 1) /\ 1 \in Nat
      BY <1>1, <1>2
    <2>6. Agree(x, 1, y, 1, z)
      <3>1. \A l \in 1..z : l \in 1..Len(y)
        BY <1>2
      <3>2. QED
        BY <1>1, <3>1 DEF Agree
    <2> HIDE DEF z
    <2>7. SubSeq(x, 2, q) = SubSeq(y, 1, z)
      <3>1. Copied(x, 2, q, y, 1, z)
        BY <2>5, <2>6 DEF Copied
      <3>2. SamePart(x, 2, q, y, 1, z)
        BY <1>1, <3>1, SliceCopied
      <3>3. QED
        BY <3>2 DEF SamePart
    <2>8. SubSeq(x, 1, 1) \o SubSeq(x, 2, q) = SubSeq(x, 1, q)
      <3>1. 1 \in 1..(Len(x) + 1) /\ 1 \in (1 - 1)..Len(x) /\ q \in 1..Len(x)
        BY <1>1, <1>2
      <3>2. SubSeq(x, 1, 1) \o SubSeq(x, 1 + 1, q) = SubSeq(x, 1, q)
        BY <1>1, <3>1, ConcatAdjacentSubSeq
      <3>3. QED
        BY <3>2
    <2>9. QED
      BY <1>3, <1>4, <2>4, <2>7, <2>8 DEF z
  <1>9. QED
    BY <1>7, <1>8 DEF x

\* get_parent_path is the parent of PathAlgebra.
LEMMA ParentIs ==
    ASSUME NEW y \in Seq(Chars), y # <<>>
    PROVE  PathSegments(GetParentPath(Slash \o y)) = Seg!Parent(Parts(y))
  <1>1. Len(y) \in Nat \ {0} /\ 2 \in 1..(Len(y) + 1)
    BY EmptySeq, LenProperties
  <1>2. PathSegments(Slash) = <<>>
    BY SegmentsAre
  <1>3. CASE NoSlash(y, 2, Len(y))
    <2>1. GetParentPath(Slash \o y) = Slash
      BY <1>3, ParentText
    <2>2. Front(Parts(y)) = <<>> \/ Front(Parts(y)) = <<<<>>>>
      <3>1. CASE y[1] = "/"
        <4> DEFINE a == SubSeq(y, 1, 1 - 1)
                   t == SubSeq(y, 1 + 1, Len(y))
        <4>1. 1 \in 1..Len(y) /\ NoSlash(y, 1 + 1, Len(y))
          BY <1>1, <1>3
        <4>2. HasLastSlash(y, 1, a, t)
          BY <3>1, <4>1 DEF HasLastSlash
        <4> HIDE DEF a, t
        <4>3. HasLastPart(y, a, t) /\ Len(a) = 1 - 1
          BY <4>2, AtLastSlash
        <4>4. a = <<>>
          BY <4>3, EmptySeq DEF HasLastPart
        <4>5. Front(Parts(y)) = Parts(a)
          BY <4>3, LastPartIs
        <4>6. QED
          BY <4>4, <4>5, PartsOfNone
      <3>2. CASE y[1] # "/"
        <4>1. NoSlash(y, 1, Len(y))
          BY <1>1, <1>3, <3>2 DEF NoSlash
        <4>2. Parts(y) = <<y>>
          BY <4>1, PartsAre
        <4> DEFINE none == <<>>
        <4>3. none \in Seq(Seq(Chars)) /\ none \o <<y>> = <<y>>
          BY ConcatEmptySeq
        <4> HIDE DEF none
        <4>4. Front(<<y>>) = none
          BY <4>3, LastOfAppend
        <4>5. QED
          BY <4>2, <4>4 DEF none
      <3>3. QED
        BY <3>1, <3>2
    <2>3. QED
      BY <1>2, <2>1, <2>2, SegIs
  <1>4. CASE ~NoSlash(y, 2, Len(y))
    <2>1. PICK q \in 2..Len(y) : y[q] = "/" /\ NoSlash(y, q + 1, Len(y))
      BY <1>1, <1>4, LastSlash
    <2> DEFINE a == SubSeq(y, 1, q - 1)
               t == SubSeq(y, q + 1, Len(y))
    <2>2. HasLastSlash(y, q, a, t)
      BY <1>1, <2>1 DEF HasLastSlash
    <2>3. GetParentPath(Slash \o y) = Slash \o a
      BY <2>1, ParentText
    <2> HIDE DEF a, t
    <2>4. HasLastPart(y, a, t) /\ Len(a) = q - 1
      BY <2>2, AtLastSlash
    <2>5. a \in Seq(Chars) /\ a # <<>>
      <3>1. Len(a) # 0
        BY <2>1, <2>4
      <3>2. QED
        BY <2>4, <3>1, EmptySeq DEF HasLastPart
    <2>6. PathSegments(Slash \o a) = Parts(a)
      BY <2>5, SegmentsAre
    <2>7. Front(Parts(y)) = Parts(a)
      BY <2>4, LastPartIs
    <2>8. Parts(a) # <<<<>>>>
      BY <2>5, SingleIs
    <2>9. QED
      BY <2>3, <2>6, <2>7, <2>8, SegIs
  <1>5. QED
    BY <1>3, <1>4

\* The object that get_parent_path and get_basename make of a string.
LEMMA ObjectIs ==
    ASSUME NEW y \in Seq(Chars), y # <<>>
    PROVE  IsAt(Object(GetParentPath(Slash \o y), GetBasename(y)), Parts(y))
  <1>1. PathSegments(GetParentPath(Slash \o y)) = Seg!Parent(Parts(y))
    BY ParentIs
  <1>2. GetBasename(y) = Last(Parts(y))
    BY BasenameIs
  <1>3. QED
    BY <1>1, <1>2, Zenon DEF IsAt, Object

\* The object at an absolute path.
LEMMA LocatedIs ==
    ASSUME NEW y \in Seq(Chars)
    PROVE  IsAt(Located(Slash \o y), Parts(y))
  <1> DEFINE x == Slash \o y
  <1>1. x \in Seq(Chars) /\ Last(Parts(x)) = Last(Parts(y))
    BY AfterSlash
  <1>2. GetBasename(x) = Last(Parts(y))
    <2> HIDE DEF x
    <2>1. QED
      BY <1>1, BasenameIs
  <1>3. PathSegments(GetParentPath(x)) = Seg!Parent(Parts(y))
    <2>1. CASE y # <<>>
      BY <2>1, ParentIs
    <2>2. CASE y = <<>>
      <3>1. x = Slash
        <4>1. Slash \o <<>> = Slash
          BY SlashIs, ConcatEmptySeq
        <4>2. QED
          BY <2>2, <4>1
      <3>2. GetParentPath(Slash) = Slash
        BY SlashIs DEF GetParentPath
      <3>3. Front(<<<<>>>>) = <<>>
        <4> DEFINE none == <<>>
        <4>1. /\ none \in Seq(Seq(Chars)) /\ none \in Seq(Chars)
              /\ none \o <<none>> = <<none>>
          BY ConcatEmptySeq
        <4> HIDE DEF none
        <4>2. Front(<<none>>) = none
          BY <4>1, LastOfAppend
        <4>3. QED
          BY <4>2 DEF none
      <3>4. Parts(y) = <<<<>>>>
        BY <2>2, PartsOfNone
      <3>5. <<>> # <<<<>>>>
        OBVIOUS
      <3>6. QED
        BY <3>1, <3>2, <3>3, <3>4, <3>5, SegIs, SegmentsAre
    <2>3. QED
      BY <2>1, <2>2
  <1> HIDE DEF x
  <1>4. IsAt(Located(x), Parts(y))
    BY <1>2, <1>3, Zenon DEF IsAt, Object, Located
  <1>5. QED
    BY <1>4 DEF x

\* A segment before a lone one does not change its object.
LEMMA LoneSegment ==
    ASSUME NEW p \in Seq(Seq(Chars)), Len(p) = 1, NEW o, IsAt(o, <<<<>>>> \o p)
    PROVE  IsAt(o, p)
  <1> DEFINE none == <<>>
             e == p[1]
  <1>1. e \in Seq(Chars) /\ p = <<e>>
    <2>1. 1 \in 1..Len(p)
      BY LenProperties
    <2>2. e \in Seq(Chars)
      BY <2>1, ElementOfSeq
    <2> HIDE DEF e
    <2>3. <<e>> \in Seq(Seq(Chars)) /\ Len(<<e>>) = 1 /\ <<e>>[1] = e
      BY <2>2
    <2>4. \A i \in 1..Len(p) : p[i] = <<e>>[i]
      BY <2>3 DEF e
    <2>5. QED
      BY <2>2, <2>3, <2>4, SeqEqual
  <1>2. /\ none \in Seq(Seq(Chars)) /\ <<none>> \in Seq(Seq(Chars))
        /\ none \o <<e>> = <<e>> /\ none # <<none>> /\ none = <<>>
    BY <1>1, ConcatEmptySeq
  <1> HIDE DEF none, e
  <1>3. Front(<<e>>) = none /\ Last(<<e>>) = e
    <2>1. /\ none \o <<e>> = Append(none, e)
          /\ Front(Append(none, e)) = none
          /\ Last(Append(none, e)) = e
      BY <1>1, <1>2, LastOfAppend
    <2>2. QED
      BY <1>2, <2>1
  <1>4. Front(<<none>> \o <<e>>) = <<none>> /\ Last(<<none>> \o <<e>>) = e
    <2>1. /\ <<none>> \o <<e>> = Append(<<none>>, e)
          /\ Front(Append(<<none>>, e)) = <<none>>
          /\ Last(Append(<<none>>, e)) = e
      BY <1>1, <1>2, LastOfAppend
    <2>2. QED
      BY <2>1
  <1>5. Seg!Parent(p) = none /\ Seg!Parent(<<none>> \o p) = none
    BY <1>1, <1>2, <1>3, <1>4, SegIs
  <1>6. Last(<<none>> \o p) = Last(p)
    BY <1>1, <1>3, <1>4
  <1>7. IsAt(o, <<none>> \o p)
    BY <1>2
  <1>8. QED
    BY <1>5, <1>6, <1>7, Zenon DEF IsAt

\* A name in a directory.
LEMMA NamedIs ==
    ASSUME NEW dir \in Seq(Chars), dir # <<>>, dir[1] = "/", NEW name \in Seq(Chars)
    PROVE  /\ PathSegments(dir) \in Seq(Seq(Chars))
           /\ IsAt(Object(dir, name), Append(PathSegments(dir), name))
  <1> DEFINE d == PathSegments(dir)
             y == Tail(dir)
  <1>1. /\ y \in Seq(Chars) /\ dir = Slash \o y /\ (dir # Slash => y # <<>>)
    BY StartsAtSlash
  <1>2. d \in Seq(Seq(Chars)) /\ d # <<<<>>>>
    <2> HIDE DEF y
    <2>1. CASE dir = Slash
      <3>1. d = <<>>
        BY <1>1, <2>1, SegmentsAre
      <3>2. QED
        BY <3>1
    <2>2. CASE dir # Slash
      <3>1. d = Parts(y)
        BY <1>1, <2>2, SegmentsAre
      <3>2. Parts(y) \in Seq(Seq(Chars)) /\ Parts(y) # <<<<>>>>
        BY <1>1, <2>2, PartsAre, SingleIs
      <3>3. QED
        BY <3>1, <3>2
    <2>3. QED
      BY <2>1, <2>2
  <1>3. d = PathSegments(dir)
    OBVIOUS
  <1> HIDE DEF d
  <1>4. Front(Append(d, name)) = d /\ Last(Append(d, name)) = name
    BY <1>2, LastOfAppend
  <1>5. Seg!Parent(Append(d, name)) = d
    BY <1>2, <1>4, SegIs
  <1>6. IsAt(Object(dir, name), Append(d, name))
    BY <1>3, <1>4, <1>5, Zenon DEF IsAt, Object
  <1>7. QED
    BY <1>2, <1>6 DEF d

\* The segments of an argument.
LEMMA ArgumentIs ==
    ASSUME NEW arg \in Seq(Chars), arg # <<>>, NEW segs, segs = ArgSegments(arg)
    PROVE  /\ segs \in Seq(Seq(Chars)) /\ segs # <<>>
           /\ Single(arg) => arg[1] # "/" /\ Len(segs) = 1 /\ segs = <<arg>>
           /\ arg[1] # "/" => segs = Parts(arg) /\ (~Single(arg) => Len(segs) # 1)
           /\ arg[1] = "/" => /\ ~Single(arg)
                              /\ Tail(arg) \in Seq(Chars) /\ arg = Slash \o Tail(arg)
                              /\ segs = Parts(Tail(arg)) /\ Parts(arg) = <<<<>>>> \o segs
  <1>1. /\ StringSplit(arg, Slash) = Parts(arg) /\ Parts(arg) \in Seq(Seq(Chars)) /\ Parts(arg) # <<>>
    BY PartsAre
  <1>2. Single(arg) <=> Len(Parts(arg)) = 1
    BY <1>1 DEF Single
  <1>3. Len(arg) \in Nat \ {0} /\ 1 \in 1..Len(arg)
    BY EmptySeq, LenProperties
  <1>4. CASE arg[1] = "/"
    <2> DEFINE y == Tail(arg)
    <2>1. y \in Seq(Chars) /\ arg = Slash \o y
      BY <1>4, StartsAtSlash
    <2>2. ~NoSlash(arg, 1, Len(arg))
      BY <1>3, <1>4 DEF NoSlash
    <2>3. ~Single(arg)
      BY <1>2, <2>2, SingleIs
    <2> HIDE DEF y
    <2>4. Tail(Parts(arg)) = Parts(y) /\ Parts(arg) = <<<<>>>> \o Parts(y)
      BY <2>1, AfterSlash
    <2>5. segs = Parts(y)
      BY <1>1, <1>4, <2>4 DEF ArgSegments
    <2>6. Parts(y) \in Seq(Seq(Chars)) /\ Parts(y) # <<>>
      BY <2>1, PartsAre
    <2>7. QED
      BY <1>4, <2>1, <2>3, <2>4, <2>5, <2>6 DEF y
  <1>5. CASE arg[1] # "/"
    <2>1. segs = Parts(arg)
      BY <1>1, <1>5 DEF ArgSegments
    <2>2. Single(arg) => segs = <<arg>>
      BY <1>2, <2>1, SingleIs
    <2>3. QED
      BY <1>1, <1>2, <1>5, <2>1, <2>2
  <1>6. QED
    BY <1>4, <1>5

\* A text that goes on after a slash starts with it.
LEMMA StartsWithSlashIs ==
    ASSUME NEW s \in Seq(Chars), s # <<>>
    PROVE  StringStartsWith(s, Slash) <=> s[1] = "/" /\ s # Slash
  <1> DEFINE u == SubSeq(s, 1, 1)
  <1>1. Len(s) \in Nat \ {0}
    BY EmptySeq, LenProperties
  <1>2. u \in Seq(Chars) /\ Len(u) = 1 /\ u[1] = s[1]
    <2>1. 1 \in 1..(Len(s) + 1) /\ 1 \in (1 - 1)..Len(s) /\ 1 \in 1..(1 - 1 + 1)
      BY <1>1
    <2>2. /\ u \in Seq(Chars) /\ Len(u) = 1 - 1 + 1
          /\ \A l \in 1..(1 - 1 + 1) : u[l] = s[1 + l - 1]
      BY <2>1, Slice
    <2> HIDE DEF u
    <2>3. u[1] = s[1 + 1 - 1]
      BY <2>1, <2>2
    <2>4. QED
      BY <2>2, <2>3
  <1>3. StringStartsWith(s, Slash) <=> Len(s) > 1 /\ u = Slash
    BY SlashIs DEF StringStartsWith
  <1> HIDE DEF u
  <1>4. u = Slash <=> s[1] = "/"
    <2>1. ASSUME s[1] = "/"
          PROVE  u = Slash
      <3>1. Len(u) = Len(Slash) /\ \A i \in 1..Len(u) : u[i] = Slash[i]
        BY <1>2, <2>1, SlashIs
      <3>2. QED
        BY <1>2, <3>1, SlashIs, SeqEqual
    <2>2. u = Slash => s[1] = "/"
      BY <1>2, SlashIs
    <2>3. QED
      BY <2>1, <2>2
  <1>5. ASSUME s[1] = "/"
        PROVE  Len(s) > 1 <=> s # Slash
    <2>1. s # Slash => Len(s) # 1
      <3> SUFFICES ASSUME Len(s) = 1
                   PROVE  s = Slash
        OBVIOUS
      <3>1. Len(s) = Len(Slash) /\ \A i \in 1..Len(s) : s[i] = Slash[i]
        BY <1>5, SlashIs
      <3>2. QED
        BY <3>1, SlashIs, SeqEqual
    <2>2. QED
      BY <1>1, <2>1, SlashIs
  <1>6. QED
    BY <1>3, <1>4, <1>5

\* What MKD, RMD, STOR and RETR make of an argument.
LEMMA CommandsAgree ==
    ASSUME NEW arg \in Seq(Chars), arg # <<>>,
           NEW dir \in Seq(Chars), dir # <<>>, dir[1] = "/",
           NEW d, d = PathSegments(dir),
           NEW abs \in BOOLEAN, abs <=> arg[1] = "/",
           NEW segs, segs = ArgSegments(arg)
    PROVE  /\ IsAt(MkdObject(dir, arg), Seg!MkdTarget(d, abs, segs))
           /\ IsAt(RmdObject(dir, arg), Seg!RmdTarget(d, abs, segs))
           /\ IsAt(StorObject(dir, arg), Seg!Resolve(d, abs, segs))
           /\ Single(arg) \/ (abs /\ arg # Slash) \/ dir = Slash =>
                IsAt(RetrObject(dir, arg), Seg!Resolve(d, abs, segs))
  <1> DEFINE behind == Object(GetParentPath(Slash \o arg), GetBasename(arg))
  <1>1. /\ segs \in Seq(Seq(Chars)) /\ segs # <<>>
        /\ Single(arg) => arg[1] # "/" /\ Len(segs) = 1 /\ segs = <<arg>>
        /\ arg[1] # "/" => segs = Parts(arg) /\ (~Single(arg) => Len(segs) # 1)
        /\ arg[1] = "/" => /\ ~Single(arg)
                           /\ Tail(arg) \in Seq(Chars) /\ arg = Slash \o Tail(arg)
                           /\ segs = Parts(Tail(arg)) /\ Parts(arg) = <<<<>>>> \o segs
    BY ArgumentIs
  <1>2. IsAt(behind, Parts(arg))
    BY ObjectIs
  <1>3. d \in Seq(Seq(Chars)) /\ IsAt(Object(dir, arg), Append(d, arg))
    BY NamedIs
  <1>4. abs => IsAt(Located(arg), segs)
    <2> SUFFICES ASSUME abs
                 PROVE  IsAt(Located(arg), segs)
      OBVIOUS
    <2>1. IsAt(Located(Slash \o Tail(arg)), Parts(Tail(arg)))
      BY <1>1, LocatedIs
    <2>2. QED
      BY <1>1, <2>1
  <1>5. abs /\ ~(Len(segs) > 1) => IsAt(behind, segs)
    <2>1. ~(Len(segs) > 1) => Len(segs) = 1
      <3> DEFINE n == Len(segs)
      <3>1. n \in Nat \ {0}
        BY <1>1, EmptySeq, LenProperties
      <3> HIDE DEF n
      <3>2. ~(n > 1) => n = 1
        BY <3>1
      <3>3. QED
        BY <3>2, Zenon DEF n
    <2> HIDE DEF behind
    <2> SUFFICES ASSUME abs, Len(segs) = 1
                 PROVE  IsAt(behind, segs)
      BY <2>1, Zenon
    <2>2. IsAt(behind, <<<<>>>> \o segs)
      BY <1>1, <1>2
    <2>3. QED
      BY <1>1, <2>2, LoneSegment
  <1>6. Single(arg) => segs[1] = arg
    BY <1>1
  <1>7. d \o <<arg>> = Append(d, arg)
    BY <1>3, AppendIsConcat
  <1>8. dir = Slash => d \o segs = segs
    <2> SUFFICES ASSUME dir = Slash
                 PROVE  d \o segs = segs
      OBVIOUS
    <2>1. d = <<>>
      BY SegmentsAre
    <2>2. QED
      BY <1>1, <2>1, ConcatEmptySeq
  <1>9. IsAt(MkdObject(dir, arg), Seg!MkdTarget(d, abs, segs))
    <2>1. MkdObject(dir, arg) = IF Single(arg) THEN Object(dir, arg) ELSE behind
      BY Zenon DEF MkdObject
    <2> HIDE DEF behind
    <2>2. CASE Single(arg)
      <3>1. ~abs /\ Len(segs) = 1 /\ segs[1] = arg
        BY <1>1, <1>6, <2>2
      <3>2. Seg!MkdTarget(d, abs, segs) = Append(d, arg)
        BY <3>1, Zenon DEF Seg!MkdTarget
      <3>3. QED
        BY <1>3, <2>1, <2>2, <3>2
    <2>3. CASE ~Single(arg) /\ ~abs
      <3>1. ~abs /\ Len(segs) # 1 /\ segs = Parts(arg)
        BY <1>1, <2>3
      <3>2. Seg!MkdTarget(d, abs, segs) = segs
        BY <3>1, Zenon DEF Seg!MkdTarget
      <3>3. QED
        BY <1>2, <2>1, <2>3, <3>1, <3>2
    <2>4. CASE abs /\ Len(segs) > 1
      <3>1. Seg!MkdTarget(d, abs, segs) = <<<<>>>> \o segs
        BY <2>4, Zenon DEF Seg!MkdTarget
      <3>2. Parts(arg) = <<<<>>>> \o segs
        BY <1>1, <2>4
      <3>3. QED
        BY <1>1, <1>2, <2>1, <2>4, <3>1, <3>2
    <2>5. CASE abs /\ ~(Len(segs) > 1)
      <3>1. Seg!MkdTarget(d, abs, segs) = segs
        BY <2>5, Zenon DEF Seg!MkdTarget
      <3>2. QED
        BY <1>1, <1>5, <2>1, <2>5, <3>1
    <2>6. QED
      BY <2>2, <2>3, <2>4, <2>5
  <1>10. IsAt(RmdObject(dir, arg), Seg!RmdTarget(d, abs, segs))
    <2>1. RmdObject(dir, arg) = IF Single(arg) THEN Object(dir, arg)
                                ELSE IF arg[1] # "/" THEN behind ELSE Located(arg)
      BY Zenon DEF RmdObject
    <2> HIDE DEF behind
    <2>2. CASE Single(arg)
      <3>1. ~abs /\ Len(segs) = 1 /\ segs[1] = arg
        BY <1>1, <1>6, <2>2
      <3>2. Seg!RmdTarget(d, abs, segs) = Append(d, arg)
        BY <3>1, Zenon DEF Seg!RmdTarget
      <3>3. QED
        BY <1>3, <2>1, <2>2, <3>2
    <2>3. CASE ~Single(arg) /\ ~abs
      <3>1. ~abs /\ Len(segs) # 1 /\ segs = Parts(arg)
        BY <1>1, <2>3
      <3>2. Seg!RmdTarget(d, abs, segs) = segs
        BY <3>1, Zenon DEF Seg!RmdTarget
      <3>3. QED
        BY <1>2, <2>1, <2>3, <3>1, <3>2
    <2>4. CASE abs
      <3>1. Seg!RmdTarget(d, abs, segs) = segs
        BY <2>4, Zenon DEF Seg!RmdTarget
      <3>2. QED
        BY <1>1, <1>4, <2>1, <2>4, <3>1
    <2>5. QED
      BY <2>2, <2>3, <2>4
  <1>11. IsAt(StorObject(dir, arg), Seg!Resolve(d, abs, segs))
    <2>1. CASE abs
      <3>1. Seg!Resolve(d, abs, segs) = segs
        BY <2>1, Zenon DEF Seg!Resolve
      <3>2. StorObject(dir, arg) = Located(arg)
        BY <2>1, Zenon DEF StorObject
      <3>3. QED
        BY <1>4, <2>1, <3>1, <3>2
    <2>2. CASE ~abs /\ dir = Slash
      <3>1. Seg!Resolve(d, abs, segs) = Parts(arg)
        <4>1. ~abs /\ segs = Parts(arg) /\ d \o segs = segs
          BY <1>1, <1>8, <2>2
        <4>2. QED
          BY <4>1, Zenon DEF Seg!Resolve
      <3>2. StorObject(dir, arg) = Located(Slash \o arg)
        BY <2>2, Zenon DEF StorObject
      <3>3. IsAt(Located(Slash \o arg), Parts(arg))
        BY LocatedIs
      <3>4. QED
        BY <3>1, <3>2, <3>3
    <2>3. CASE ~abs /\ dir # Slash
      <3> DEFINE e == Tail(dir)
                 w == (e \o Slash) \o arg
      <3>1. e \in Seq(Chars) /\ dir = Slash \o e /\ e # <<>>
        BY <2>3, StartsAtSlash
      <3> HIDE DEF e
      <3>2. d = Parts(e)
        BY <3>1, SegmentsAre
      <3>3. Seg!Resolve(d, abs, segs) = Parts(e) \o Parts(arg)
        <4>1. ~abs /\ segs = Parts(arg)
          BY <1>1, <2>3
        <4>2. QED
          BY <3>2, <4>1, Zenon DEF Seg!Resolve
      <3>4. w \in Seq(Chars) /\ Parts(w) = Parts(e) \o Parts(arg)
        <4>1. w \in Seq(Chars)
          BY <3>1, JoinedAtSlash
        <4>2. w = (e \o Slash) \o arg
          OBVIOUS
        <4> HIDE DEF w
        <4>3. Parts(w) = Parts(e) \o Parts(arg)
          BY <3>1, <4>2, SplitAtSlash
        <4>4. QED
          BY <4>1, <4>3
      <3>5. (dir \o Slash) \o arg = Slash \o w
        <4> DEFINE f == e \o Slash
        <4>1. f \in Seq(Chars)
          BY <3>1, SlashIs, ConcatProperties
        <4>2. Associates(Slash, e, Slash)
          BY <3>1, SlashIs, ConcatAssociates
        <4>3. dir \o Slash = Slash \o f
          BY <3>1, <4>2, Zenon DEF Associates
        <4> HIDE DEF f
        <4>4. Associates(Slash, f, arg)
          BY <4>1, SlashIs, ConcatAssociates
        <4>5. QED
          BY <4>3, <4>4, Zenon DEF Associates, f
      <3>6. StorObject(dir, arg) = Located((dir \o Slash) \o arg)
        BY <2>3, Zenon DEF StorObject
      <3> HIDE DEF w
      <3>7. IsAt(Located(Slash \o w), Parts(w))
        BY <3>4, LocatedIs
      <3>8. QED
        BY <3>3, <3>4, <3>5, <3>6, <3>7
    <2>4. QED
      BY <2>1, <2>2, <2>3
  <1>12. ASSUME Single(arg) \/ (abs /\ arg # Slash) \/ dir = Slash
         PROVE  IsAt(RetrObject(dir, arg), Seg!Resolve(d, abs, segs))
    <2>1. StringStartsWith(arg, Slash) <=> abs /\ arg # Slash
      BY StartsWithSlashIs
    <2>2. CASE Single(arg)
      <3>1. Seg!Resolve(d, abs, segs) = Append(d, arg)
        <4>1. ~abs /\ segs = <<arg>>
          BY <1>1, <2>2
        <4>2. QED
          BY <1>7, <4>1, Zenon DEF Seg!Resolve
      <3>2. RetrObject(dir, arg) = Object(dir, arg)
        BY <2>2, Zenon DEF RetrObject
      <3>3. QED
        BY <1>3, <3>1, <3>2
    <2>3. CASE abs /\ arg # Slash
      <3>1. Seg!Resolve(d, abs, segs) = segs
        BY <2>3, Zenon DEF Seg!Resolve
      <3>2. ~Single(arg)
        BY <1>1, <2>3
      <3>3. RetrObject(dir, arg) = Located(arg)
        BY <2>1, <2>3, <3>2, Zenon DEF RetrObject
      <3>4. QED
        BY <1>4, <2>3, <3>1, <3>3
    <2>4. CASE ~Single(arg) /\ ~(abs /\ arg # Slash)
      <3>1. dir = Slash
        BY <1>12, <2>4
      <3>2. RetrObject(dir, arg) = behind
        BY <2>1, <2>4, <3>1, Zenon DEF RetrObject
      <3> HIDE DEF behind
      <3>3. CASE ~abs
        <4>1. Seg!Resolve(d, abs, segs) = Parts(arg)
          <5>1. ~abs /\ segs = Parts(arg) /\ d \o segs = segs
            BY <1>1, <1>8, <3>1, <3>3
          <5>2. QED
            BY <5>1, Zenon DEF Seg!Resolve
        <4>2. QED
          BY <1>2, <3>2, <4>1
      <3>4. CASE abs
        <4>1. Seg!Resolve(d, abs, segs) = segs
          BY <3>4, Zenon DEF Seg!Resolve
        <4>2. ~(Len(segs) > 1)
          <5>1. arg = Slash /\ Slash = Slash \o <<>>
            BY <2>4, <3>4, SlashIs, ConcatEmptySeq
          <5>2. Tail(arg) = <<>>
            BY <5>1, TailOfOne DEF Slash
          <5>3. segs = <<<<>>>>
            BY <1>1, <3>4, <5>2, PartsOfNone
          <5>4. QED
            BY <5>3
        <4>3. QED
          BY <1>5, <3>2, <3>4, <4>1, <4>2
      <3>5. QED
        BY <3>3, <3>4
    <2>5. QED
      BY <2>2, <2>3, <2>4
  <1>13. QED
    BY <1>9, <1>10, <1>11, <1>12

\* On every absolute path get_parent_path and get_basename give the parent and the
\* last segment of PathAlgebra, with empty segments and trailing slashes too.
THEOREM ParentsAgree == Spec => []ParentAgrees
  <1>1. TextIsText => ParentAgrees
    <2> SUFFICES ASSUME TextIsText, text # <<>>, text[1] = "/", text # Slash
                 PROVE  /\ PathSegments(GetParentPath(text)) = Seg!Parent(PathSegments(text))
                        /\ GetBasename(text) = Last(PathSegments(text))
      BY DEF ParentAgrees
    <2> DEFINE y == Tail(text)
    <2>1. text \in Seq(Chars)
      BY DEF TextIsText
    <2>2. y \in Seq(Chars) /\ text = Slash \o y /\ y # <<>>
      BY <2>1, StartsAtSlash
    <2> HIDE DEF y
    <2>3. PathSegments(text) = Parts(y)
      BY <2>2, SegmentsAre
    <2>4. PathSegments(GetParentPath(text)) = Seg!Parent(Parts(y))
      BY <2>2, ParentIs
    <2>5. Last(Parts(text)) = Last(Parts(y))
      BY <2>2, AfterSlash
    <2>6. GetBasename(text) = Last(Parts(text))
      BY <2>1, BasenameIs
    <2>7. QED
      BY <2>3, <2>4, <2>5, <2>6
  <1>2. QED
    BY <1>1, TextIsAlwaysText, PTL

\* In every working directory MKD, RMD, STOR and RETR look up the object that
\* PathAlgebra makes of their argument, RETR where ArgumentsAgree says so.
THEOREM CommandsFindTheirObject == Spec => []ArgumentsAgree
  <1>1. TextIsText => ArgumentsAgree
    <2> SUFFICES ASSUME TextIsText, text # <<>>, NEW dir \in Dirs
                 PROVE  LET d == PathSegments(dir)
                            abs == text[1] = "/"
                            segs == ArgSegments(text)
                        IN  /\ IsAt(MkdObject(dir, text), Seg!MkdTarget(d, abs, segs))
                            /\ IsAt(RmdObject(dir, text), Seg!RmdTarget(d, abs, segs))
                            /\ IsAt(StorObject(dir, text), Seg!Resolve(d, abs, segs))
                            /\ Single(text) \/ (abs /\ text # Slash) \/ dir = Slash =>
                                 IsAt(RetrObject(dir, text), Seg!Resolve(d, abs, segs))
      BY Zenon DEF ArgumentsAgree
    <2> DEFINE d == PathSegments(dir)
               abs == text[1] = "/"
               segs == ArgSegments(text)
    <2>1. text \in Seq(Chars)
      BY DEF TextIsText
    <2>2. dir \in Seq(Chars) /\ dir # <<>> /\ dir[1] = "/"
      BY DirsAssumption
    <2>3. /\ d = PathSegments(dir) /\ segs = ArgSegments(text)
          /\ abs \in BOOLEAN /\ (abs <=> text[1] = "/")
      OBVIOUS
    <2> HIDE DEF d, abs, segs
    <2>4. /\ IsAt(MkdObject(dir, text), Seg!MkdTarget(d, abs, segs))
          /\ IsAt(RmdObject(dir, text), Seg!RmdTarget(d, abs, segs))
          /\ IsAt(StorObject(dir, text), Seg!Resolve(d, abs, segs))
          /\ Single(text) \/ (abs /\ text # Slash) \/ dir = Slash =>
               IsAt(RetrObject(dir, text), Seg!Resolve(d, abs, segs))
      BY <2>1, <2>2, <2>3, CommandsAgree
    <2>5. QED
      BY <2>4, Zenon DEF d, abs, segs
  <1>2. QED
    BY <1>1, TextIsAlwaysText, PTL

=============================================================================
