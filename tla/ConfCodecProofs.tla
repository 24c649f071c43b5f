-------------------------- MODULE ConfCodecProofs --------------------------
(***************************************************************************)
(* Theorems about ConfCodec for every text and every tunnel: files of any  *)
(* length, any number of peers, addresses and networks.                    *)
(***************************************************************************)
EXTENDS ConfCodec, SequenceTheorems, WellFoundedInduction, TLAPS

(***************************************************************************)
(* Induction.  What is proved by it is put as a set of numbers, since a    *)
(* statement with a formula as its parameter cannot be cited.              *)
(***************************************************************************)
Below == {p \in Nat \X Nat : p[1] < p[2]}

\* Numbers that include 0 and with each number the next are all the numbers.
LEMMA AllNumbers ==
    ASSUME NEW T \in SUBSET Nat, 0 \in T, \A n \in T : n + 1 \in T
    PROVE  T = Nat
<1>1. IsWellFoundedOn(Below, Nat)
  <2>1. OpToRel(<, Nat) = Below
    BY DEF OpToRel, Below
  <2> QED
    BY <2>1, NatLessThanWellFounded
<1>2. SUFFICES ASSUME T # Nat PROVE FALSE
  OBVIOUS
<1>3. Nat \ T \subseteq Nat /\ Nat \ T # {}
  BY <1>2
<1>4. \E n \in Nat \ T : \A m \in Nat \ T : ~(<<m, n>> \in Below)
  BY <1>1, <1>3, WFMin
<1>5. PICK n \in Nat \ T : \A m \in Nat \ T : ~(m < n)
  BY <1>4 DEF Below
<1>6. n # 0 /\ n - 1 \in Nat /\ n - 1 \in T
  BY <1>5
<1> QED
  BY <1>5, <1>6

\* Sequences that include the empty one and with each sequence the longer ones
\* are all the sequences.
LEMMA AllSequences ==
    ASSUME NEW S, NEW T \in SUBSET Seq(S), <<>> \in T,
           \A s \in T : \A e \in S : Append(s, e) \in T
    PROVE  T = Seq(S)
<1> DEFINE N == {n \in Nat : \A s \in Seq(S) : Len(s) = n => s \in T}
<1>1. 0 \in N
  BY EmptySeq
<1>2. ASSUME NEW n \in N PROVE n + 1 \in N
  <2>1. SUFFICES ASSUME NEW s \in Seq(S), Len(s) = n + 1 PROVE s \in T
    OBVIOUS
  <2> DEFINE t == SubSeq(s, 1, n)
  <2>2. t \in Seq(S) /\ Len(t) = n /\ s[n + 1] \in S
    BY <2>1
  <2>3. s = Append(t, s[n + 1])
    <3>1. \A i \in 1..n : t[i] = s[i]
      BY <2>1
    <3> HIDE DEF t
    <3>2. Append(t, s[n + 1]) \in Seq(S) /\ Len(Append(t, s[n + 1])) = n + 1
      BY <2>2
    <3>3. ASSUME NEW i \in 1..n + 1 PROVE Append(t, s[n + 1])[i] = s[i]
      <4>1. CASE i = n + 1
        BY <2>2, <4>1
      <4>2. CASE i # n + 1
        <5>1. i \in 1..n /\ i \in 1..Len(t)
          BY <2>2, <4>2
        <5>2. Append(t, s[n + 1])[i] = t[i]
          BY <2>2, <5>1
        <5> QED
          BY <3>1, <5>1, <5>2
      <4> QED
        BY <4>1, <4>2
    <3> QED
      BY <2>1, <3>2, <3>3, SeqEqual
  <2>4. t \in T
    BY <2>2
  <2> HIDE DEF t
  <2> QED
    BY <2>2, <2>3, <2>4
<1>3. N = Nat
  BY <1>1, <1>2, AllNumbers
<1>4. ASSUME NEW s \in Seq(S) PROVE s \in T
  <2>1. Len(s) \in N
    BY <1>3
  <2> QED
    BY <2>1
<1> QED
  BY <1>4

-----------------------------------------------------------------------------

(***************************************************************************)
(* What parse_conf makes of lines, from a state r on: the fold of Parse,   *)
(* one line after the other.                                               *)
(***************************************************************************)
Read(r, s) == FoldLeft(ParseLine, r, s)

\* The function that the fold is defined by, for the lines with numbers up to n.
Folds(it, r, s, n) ==
    it = [S \in SUBSET (1..n) |->
            IF S = {} THEN r ELSE ParseLine(it[S \ {Max(S)}], s[Max(S)])]

LEMMA LastLine ==
    ASSUME NEW n \in Nat, NEW S \in SUBSET (1..n), n \in S
    PROVE  Max(S) = n
<1>1. \A y \in S : n >= y
  OBVIOUS
<1>2. \A x \in S : (\A y \in S : x >= y) => x = n
  OBVIOUS
<1> QED
  BY <1>1, <1>2 DEF Max

LEMMA FoldExists ==
    ASSUME NEW r, NEW s, NEW n \in Nat
    PROVE  \E it : Folds(it, r, s, n)
<1> DEFINE T == {k \in Nat : \E it : Folds(it, r, s, k)}
<1>1. 0 \in T
  <2>1. Folds([S \in SUBSET (1..0) |-> r], r, s, 0)
    BY DEF Folds
  <2> QED
    BY <2>1
<1>2. ASSUME NEW k \in T PROVE k + 1 \in T
  <2>1. PICK it : Folds(it, r, s, k)
    OBVIOUS
  <2> DEFINE next == [S \in SUBSET (1..k + 1) |->
                        IF k + 1 \in S THEN ParseLine(it[S \ {k + 1}], s[k + 1]) ELSE it[S]]
  <2>2. ASSUME NEW S \in SUBSET (1..k + 1)
        PROVE  next[S] = IF S = {} THEN r ELSE ParseLine(next[S \ {Max(S)}], s[Max(S)])
    <3>1. CASE k + 1 \in S
      <4>1. Max(S) = k + 1
        BY <3>1, LastLine
      <4>2. S \ {k + 1} \in SUBSET (1..k + 1) /\ k + 1 \notin S \ {k + 1}
        OBVIOUS
      <4>3. next[S \ {k + 1}] = it[S \ {k + 1}]
        BY <4>2
      <4> QED
        BY <3>1, <4>1, <4>3
    <3>2. CASE k + 1 \notin S
      <4>1. S \in SUBSET (1..k)
        BY <3>2
      <4>2. it[S] = IF S = {} THEN r ELSE ParseLine(it[S \ {Max(S)}], s[Max(S)])
        BY <2>1, <4>1 DEF Folds
      <4>3. S \ {Max(S)} \in SUBSET (1..k + 1) /\ k + 1 \notin S \ {Max(S)}
        BY <3>2
      <4>4. next[S] = it[S] /\ next[S \ {Max(S)}] = it[S \ {Max(S)}]
        BY <3>2, <4>3
      <4> QED
        BY <4>2, <4>4
    <3> QED
      BY <3>1, <3>2
  <2>3. Folds(next, r, s, k + 1)
    BY <2>2 DEF Folds
  <2> QED
    BY <2>3
<1>3. T = Nat
  BY <1>1, <1>2, AllNumbers
<1> QED
  BY <1>3

\* The state after each of the lines, the last being what is read.
LEMMA ReadStates ==
    ASSUME NEW r, NEW s, Len(s) \in Nat, DOMAIN s = 1..Len(s)
    PROVE  \E f : /\ f[0] = r
                  /\ \A i \in 1..Len(s) : f[i] = ParseLine(f[i - 1], s[i])
                  /\ Read(r, s) = f[Len(s)]
<1> DEFINE it == CHOOSE g : Folds(g, r, s, Len(s))
           f == [i \in 0..Len(s) |-> it[1..i]]
<1>1. Folds(it, r, s, Len(s))
  BY FoldExists
<1>2. Read(r, s) = it[1..Len(s)]
  BY DEF Read, FoldLeft, MapThenFoldSet, Folds
<1> HIDE DEF it
<1>3. f[0] = r
  <2>1. 1..0 = {} /\ {} \in SUBSET (1..Len(s))
    OBVIOUS
  <2> QED
    BY <1>1, <2>1 DEF Folds
<1>4. ASSUME NEW i \in 1..Len(s) PROVE f[i] = ParseLine(f[i - 1], s[i])
  <2>1. /\ i \in Nat /\ i \in 1..i
        /\ 1..i \in SUBSET (1..Len(s)) /\ 1..i \in SUBSET (1..i)
    OBVIOUS
  <2>2. Max(1..i) = i
    BY <2>1, LastLine
  <2>3. /\ (1..i) \ {i} = 1..(i - 1)
        /\ i - 1 \in 0..Len(s) /\ i \in 0..Len(s)
    OBVIOUS
  <2>4. it[1..i] = ParseLine(it[(1..i) \ {i}], s[i])
    BY <1>1, <2>1, <2>2 DEF Folds
  <2> QED
    BY <2>3, <2>4
<1>5. Read(r, s) = f[Len(s)]
  BY <1>2
<1> HIDE DEF f
<1> QED
  BY <1>3, <1>4, <1>5

\* There is only one such sequence of states.
LEMMA StatesAreRead ==
    ASSUME NEW r, NEW s, Len(s) \in Nat, DOMAIN s = 1..Len(s), NEW g,
           g[0] = r, \A i \in 1..Len(s) : g[i] = ParseLine(g[i - 1], s[i])
    PROVE  Read(r, s) = g[Len(s)]
<1> DEFINE n == Len(s)
<1>1. /\ n \in Nat /\ g[0] = r
      /\ \A i \in 1..n : g[i] = ParseLine(g[i - 1], s[i])
  OBVIOUS
<1>2. \E f : /\ f[0] = r
             /\ \A i \in 1..n : f[i] = ParseLine(f[i - 1], s[i])
             /\ Read(r, s) = f[n]
  BY ReadStates
<1> HIDE DEF n
<1>3. PICK f : /\ f[0] = r
               /\ \A i \in 1..n : f[i] = ParseLine(f[i - 1], s[i])
               /\ Read(r, s) = f[n]
  BY <1>2
<1> DEFINE T == {k \in Nat : k <= n => f[k] = g[k]}
<1>4. 0 \in T
  BY <1>1, <1>3
<1>5. ASSUME NEW k \in T PROVE k + 1 \in T
  <2>1. SUFFICES ASSUME k + 1 <= n PROVE f[k + 1] = g[k + 1]
    OBVIOUS
  <2>2. f[k] = g[k] /\ k + 1 \in 1..n /\ (k + 1) - 1 = k
    BY <1>1, <2>1
  <2> QED
    BY <1>1, <1>3, <2>2
<1>6. T = Nat
  BY <1>4, <1>5, AllNumbers
<1> QED
  BY <1>1, <1>3, <1>6 DEF n

LEMMA ReadNothing == ASSUME NEW r PROVE Read(r, <<>>) = r
<1> DEFINE g == [i \in {0} |-> r]
<1>1. g[0] = r
  OBVIOUS
<1>2. Len(<<>>) = 0 /\ DOMAIN <<>> = 1..Len(<<>>) /\ Len(<<>>) \in Nat
  OBVIOUS
<1> HIDE DEF g
<1> QED
  BY <1>1, <1>2, StatesAreRead

LEMMA ReadLine == ASSUME NEW r, NEW l PROVE Read(r, <<l>>) = ParseLine(r, l)
<1> DEFINE g == [i \in 0..1 |-> IF i = 0 THEN r ELSE ParseLine(r, l)]
<1>1. g[0] = r /\ g[1] = ParseLine(r, l)
  OBVIOUS
<1>2. Len(<<l>>) = 1 /\ DOMAIN <<l>> = 1..1 /\ <<l>>[1] = l
  OBVIOUS
<1>3. \A i \in 1..1 : i = 1 /\ i - 1 = 0
  OBVIOUS
<1> QED
  BY <1>1, <1>2, <1>3, StatesAreRead

\* Reading goes on where it stopped.
LEMMA ReadBoth ==
    ASSUME NEW L, NEW s \in Seq(L), NEW t \in Seq(L), NEW r
    PROVE  Read(r, s \o t) = Read(Read(r, s), t)
<1>1. PICK f : /\ f[0] = r
               /\ \A i \in 1..Len(s) : f[i] = ParseLine(f[i - 1], s[i])
               /\ Read(r, s) = f[Len(s)]
  BY ReadStates
<1>2. PICK g : /\ g[0] = Read(r, s)
               /\ \A i \in 1..Len(t) : g[i] = ParseLine(g[i - 1], t[i])
               /\ Read(Read(r, s), t) = g[Len(t)]
  BY ReadStates
<1> DEFINE n == Len(s) + Len(t)
           h == [i \in 0..n |-> IF i <= Len(s) THEN f[i] ELSE g[i - Len(s)]]
<1>3. /\ s \o t \in Seq(L) /\ Len(s \o t) = n /\ DOMAIN (s \o t) = 1..n
      /\ \A i \in 1..n : (s \o t)[i] = IF i <= Len(s) THEN s[i] ELSE t[i - Len(s)]
  OBVIOUS
<1>4. h[0] = r
  BY <1>1
<1>5. ASSUME NEW i \in 1..n PROVE h[i] = ParseLine(h[i - 1], (s \o t)[i])
  <2>1. CASE i <= Len(s)
    <3>1. h[i] = f[i] /\ h[i - 1] = f[i - 1] /\ i \in 1..Len(s)
      BY <2>1
    <3> QED
      BY <1>1, <1>3, <2>1, <3>1
  <2>2. CASE i > Len(s)
    <3>1. h[i] = g[i - Len(s)] /\ i - Len(s) \in 1..Len(t)
      BY <2>2
    <3>2. h[i - 1] = g[(i - Len(s)) - 1]
      <4>1. CASE i = Len(s) + 1
        BY <1>1, <1>2, <4>1
      <4>2. CASE i > Len(s) + 1
        BY <4>2
      <4> QED
        BY <2>2, <4>1, <4>2
    <3> QED
      BY <1>2, <1>3, <2>2, <3>1, <3>2
  <2> QED
    BY <2>1, <2>2
<1>6. h[n] = g[Len(t)]
  <2>1. CASE Len(t) = 0
    BY <1>1, <1>2, <2>1
  <2>2. CASE Len(t) > 0
    BY <2>2
  <2> QED
    BY <2>1, <2>2
<1>7. n \in Nat
  OBVIOUS
<1> HIDE DEF h, n
<1>8. Read(r, s \o t) = h[n]
  BY <1>3, <1>4, <1>5, <1>7, StatesAreRead
<1> QED
  BY <1>2, <1>6, <1>8

-----------------------------------------------------------------------------

(***************************************************************************)
(* Sequences put one after the other.                                      *)
(***************************************************************************)
Flattens(f, ss, n) == f = [i \in 1..n |-> IF i = 1 THEN ss[i] ELSE f[i - 1] \o ss[i]]

LEMMA FlatExists == ASSUME NEW ss, NEW n \in Nat PROVE \E f : Flattens(f, ss, n)
<1> DEFINE T == {k \in Nat : \E f : Flattens(f, ss, k)}
<1>1. 0 \in T
  <2>1. Flattens([i \in 1..0 |-> ss[i]], ss, 0)
    BY DEF Flattens
  <2> QED
    BY <2>1
<1>2. ASSUME NEW k \in T PROVE k + 1 \in T
  <2>1. PICK f : Flattens(f, ss, k)
    OBVIOUS
  <2> DEFINE one(i) == IF i = 1 THEN ss[i] ELSE f[i - 1] \o ss[i]
             g == [i \in 1..k + 1 |-> one(i)]
  <2>2. \A i \in 1..k : f[i] = one(i)
    BY <2>1 DEF Flattens
  <2>3. ASSUME NEW i \in 1..k + 1 PROVE g[i] = IF i = 1 THEN ss[i] ELSE g[i - 1] \o ss[i]
    <3>1. CASE i = 1
      BY <3>1
    <3>2. CASE i # 1
      <4>1. i - 1 \in 1..k /\ i - 1 \in 1..k + 1
        BY <3>2
      <4>2. g[i - 1] = f[i - 1]
        BY <2>2, <4>1
      <4> QED
        BY <3>2, <4>2
    <3> QED
      BY <3>1, <3>2
  <2>4. Flattens(g, ss, k + 1)
    BY <2>3 DEF Flattens
  <2> QED
    BY <2>4
<1>3. T = Nat
  BY <1>1, <1>2, AllNumbers
<1> QED
  BY <1>3

LEMMA FlatStates ==
    ASSUME NEW ss, Len(ss) \in Nat \ {0}
    PROVE  \E f : /\ f[1] = ss[1]
                  /\ \A i \in 2..Len(ss) : f[i] = f[i - 1] \o ss[i]
                  /\ FlattenSeq(ss) = f[Len(ss)]
<1> DEFINE f == CHOOSE g : Flattens(g, ss, Len(ss))
<1>1. Flattens(f, ss, Len(ss))
  BY FlatExists
<1>2. FlattenSeq(ss) = f[Len(ss)]
  BY DEF FlattenSeq, Flattens
<1> HIDE DEF f
<1>3. f[1] = ss[1]
  BY <1>1 DEF Flattens
<1>4. ASSUME NEW i \in 2..Len(ss) PROVE f[i] = f[i - 1] \o ss[i]
  <2>1. i \in 1..Len(ss) /\ i # 1
    OBVIOUS
  <2> QED
    BY <1>1, <2>1 DEF Flattens
<1> QED
  BY <1>2, <1>3, <1>4

LEMMA FlatNothing == FlattenSeq(<<>>) = <<>>
  BY DEF FlattenSeq

LEMMA FlatMore ==
    ASSUME NEW X, NEW ss \in Seq(Seq(X)), NEW t \in Seq(X)
    PROVE  FlattenSeq(Append(ss, t)) = FlattenSeq(ss) \o t
<1> DEFINE n == Len(ss)
           tt == Append(ss, t)
<1>1. /\ n \in Nat /\ n = Len(ss) /\ tt = Append(ss, t)
      /\ Len(tt) = n + 1 /\ tt[n + 1] = t /\ \A i \in 1..n : tt[i] = ss[i]
  OBVIOUS
<1> HIDE DEF n, tt
<1>2. PICK g : /\ g[1] = tt[1]
               /\ \A i \in 2..Len(tt) : g[i] = g[i - 1] \o tt[i]
               /\ FlattenSeq(tt) = g[Len(tt)]
  <2>1. Len(tt) \in Nat \ {0}
    BY <1>1
  <2> QED
    BY <2>1, FlatStates
<1>3. CASE n = 0
  <2>1. ss = <<>> /\ FlattenSeq(tt) = t
    BY <1>1, <1>2, <1>3, EmptySeq
  <2> QED
    BY <1>1, <2>1, FlatNothing, ConcatEmptySeq
<1>4. CASE n # 0
  <2>1. PICK f : /\ f[1] = ss[1]
                 /\ \A i \in 2..n : f[i] = f[i - 1] \o ss[i]
                 /\ FlattenSeq(ss) = f[n]
    BY <1>1, <1>4, FlatStates
  <2> DEFINE T == {k \in Nat : k + 1 <= n => f[k + 1] = g[k + 1]}
  <2>2. 0 \in T
    BY <1>1, <1>2, <1>4, <2>1
  <2>3. ASSUME NEW k \in T PROVE k + 1 \in T
    <3>1. SUFFICES ASSUME (k + 1) + 1 <= n PROVE f[(k + 1) + 1] = g[(k + 1) + 1]
      OBVIOUS
    <3> DEFINE i == (k + 1) + 1
    <3>2. f[i - 1] = g[i - 1]
      BY <1>1, <3>1
    <3>3. i \in 2..n /\ i \in 2..Len(tt) /\ i \in 1..n
      BY <1>1, <3>1
    <3> HIDE DEF i
    <3>4. f[i] = g[i]
      BY <1>1, <1>2, <2>1, <3>2, <3>3
    <3> QED
      BY <3>4 DEF i
  <2>4. T = Nat
    BY <2>2, <2>3, AllNumbers
  <2>5. f[n] = g[n]
    <3>1. n - 1 \in Nat /\ (n - 1) + 1 <= n /\ (n - 1) + 1 = n
      BY <1>1, <1>4
    <3>2. n - 1 \in T
      BY <2>4, <3>1
    <3> QED
      BY <3>1, <3>2
  <2>6. n + 1 \in 2..Len(tt) /\ (n + 1) - 1 = n
    BY <1>1, <1>4
  <2>7. g[n + 1] = g[n] \o tt[n + 1]
    BY <1>2, <2>6
  <2>8. FlattenSeq(tt) = f[n] \o t
    BY <1>1, <1>2, <2>5, <2>7
  <2> QED
    BY <1>1, <2>1, <2>8
<1> QED
  BY <1>3, <1>4

LEMMA FlatType ==
    ASSUME NEW X, NEW ss \in Seq(Seq(X))
    PROVE  FlattenSeq(ss) \in Seq(X)
<1> DEFINE T == {uu \in Seq(Seq(X)) : FlattenSeq(uu) \in Seq(X)}
<1>1. <<>> \in T
  BY FlatNothing, EmptySeq
<1>2. ASSUME NEW uu \in T, NEW t \in Seq(X) PROVE Append(uu, t) \in T
  <2>1. FlattenSeq(uu) \o t \in Seq(X)
    OBVIOUS
  <2>2. Append(uu, t) \in Seq(Seq(X))
    OBVIOUS
  <2> QED
    BY <2>1, <2>2, FlatMore
<1>3. T = Seq(Seq(X))
  BY <1>1, <1>2, AllSequences
<1> QED
  BY <1>3

\* A sequence with a function applied to each of its elements.
Map(f, s) == [i \in DOMAIN s |-> f[s[i]]]

Maps(D, R) == [D -> R]

LEMMA MapMore ==
    ASSUME NEW D, NEW R, NEW f \in Maps(D, R), NEW s \in Seq(D), NEW e \in D
    PROVE  /\ Map(f, s) \in Seq(R)
           /\ Map(f, Append(s, e)) = Append(Map(f, s), f[e])
<1> DEFINE n == Len(s)
           more == Append(s, e)
           a == Map(f, s)
           b == Append(a, f[e])
           c == Map(f, more)
<1>1. /\ n \in Nat /\ n = Len(s) /\ DOMAIN s = 1..n
      /\ \A i \in 1..n : s[i] \in D
      /\ DOMAIN more = 1..n + 1 /\ more[n + 1] = e /\ \A i \in 1..n : more[i] = s[i]
  OBVIOUS
<1>2. \A i \in 1..n + 1 : i \in 1..n \/ i = n + 1
  BY <1>1
<1> HIDE DEF n, more
<1>3. a \in Seq(R) /\ Len(a) = n /\ \A i \in 1..n : a[i] = f[s[i]]
  BY <1>1 DEF Map, Maps
<1>4. c \in Seq(R) /\ Len(c) = n + 1 /\ \A i \in 1..n + 1 : c[i] = f[more[i]]
  BY <1>1, <1>2 DEF Map, Maps
<1> HIDE DEF a, c
<1>5. /\ b \in Seq(R) /\ Len(b) = n + 1 /\ b[n + 1] = f[e]
      /\ \A i \in 1..Len(a) : b[i] = a[i]
  <2>1. f[e] \in R
    BY DEF Maps
  <2> QED
    BY <1>3, <2>1
<1> HIDE DEF b
<1>6. ASSUME NEW i \in 1..n + 1 PROVE c[i] = b[i]
  <2>1. CASE i = n + 1
    BY <1>1, <1>4, <1>5, <2>1
  <2>2. CASE i \in 1..n
    BY <1>1, <1>3, <1>4, <1>5, <2>2
  <2> QED
    BY <1>2, <2>1, <2>2
<1>7. c = b
  BY <1>4, <1>5, <1>6, SeqEqual
<1> QED
  BY <1>3, <1>7 DEF a, b, c, more

-----------------------------------------------------------------------------

(***************************************************************************)
(* The types of what is read.                                              *)
(***************************************************************************)
ReadState ==
    [private_key : Text, address : Seq(Text), dns : Seq(Text), mtu : Number16,
     peers : Seq(Peer), current : {<<>>} \union {<<p>> : p \in Peer}]

\* The lines of files: the value of Table is not looked at.
FileKeys ==
    {"[Interface]", "PrivateKey", "Address", "DNS", "MTU", "Table", "[Peer]", "PublicKey",
     "PresharedKey", "Endpoint", "AllowedIPs", "PersistentKeepalive"}

FileLine == [key : FileKeys, value : Text \union {<<"off">>}]

LEMMA TextIsText == <<Blank>> \in Text /\ \A n \in Numerals : <<n>> \in Text
  BY CodecConstants DEF Text

LEMMA PartsType == ASSUME NEW t \in Text PROVE Parts(t) \in Seq(Text)
<1>1. t \in Seq(DOMAIN Numeral)
  BY DEF Text
<1>2. /\ Len(t) \in Nat /\ DOMAIN t = 1..Len(t)
      /\ \A i \in 1..Len(t) : <<t[i]>> \in Text
  BY <1>1 DEF Text
<1> QED
  BY <1>2 DEF Parts

LEMMA NumberType == ASSUME NEW t \in Text PROVE Number(t) \in Number16
<1>1. CASE Len(t) = 1
  <2>1. t[1] \in DOMAIN Numeral
    BY <1>1 DEF Text
  <2> QED
    BY <1>1, <2>1, CodecConstants DEF Number
<1>2. CASE Len(t) # 1
  BY <1>2 DEF Number, Number16
<1> QED
  BY <1>1, <1>2

\* Texts one after the other are not empty, save when there is none.
LEMMA FlatText ==
    ASSUME NEW ts \in Seq(Text), ts # <<>>
    PROVE  FlattenSeq(ts) \in Text
<1> DEFINE T == {uu \in Seq(Text) : uu # <<>> => FlattenSeq(uu) # <<>>}
<1>1. \A uu \in Seq(Text) : uu \in Seq(Seq(DOMAIN Numeral))
  BY DEF Text
<1>2. <<>> \in T
  BY EmptySeq
<1>3. ASSUME NEW uu \in T, NEW t \in Text PROVE Append(uu, t) \in T
  <2>1. FlattenSeq(Append(uu, t)) = FlattenSeq(uu) \o t
    BY <1>1, FlatMore DEF Text
  <2>2. FlattenSeq(uu) \in Seq(DOMAIN Numeral) /\ t \in Seq(DOMAIN Numeral) /\ t # <<>>
    BY <1>1, FlatType DEF Text
  <2>3. FlattenSeq(uu) \o t # <<>>
    BY <2>2, ConcatEqualIffEmpty
  <2>4. Append(uu, t) \in Seq(Text)
    OBVIOUS
  <2> QED
    BY <2>1, <2>3, <2>4
<1>4. T = Seq(Text)
  BY <1>2, <1>3, AllSequences
<1> QED
  BY <1>1, <1>4, FlatType DEF Text

LEMMA JoinedType == ASSUME NEW ts \in Seq(Text) PROVE Joined(ts) \in Text
  BY FlatText, TextIsText DEF Joined

LEMMA PeerLineType ==
    ASSUME NEW p \in Peer, NEW l \in TextLine
    PROVE  PeerLine(p, l) \in Peer
<1>1. /\ l.value \in Text /\ Parts(l.value) \in Seq(Text)
      /\ Number(l.value) \in Number16
  BY PartsType, NumberType DEF TextLine
<1> QED
  BY <1>1 DEF PeerLine, Peer

LEMMA CurrentType == ASSUME NEW r \in ReadState PROVE r.current \in Seq(Peer)
<1>1. \A p \in Peer : <<p>> \in Seq(Peer)
  OBVIOUS
<1>2. <<>> \in Seq(Peer)
  OBVIOUS
<1>3. r.current \in {<<>>} \union {<<p>> : p \in Peer}
  BY DEF ReadState
<1> QED
  BY <1>1, <1>2, <1>3

LEMMA ParseLineType ==
    ASSUME NEW r \in ReadState, NEW l \in TextLine
    PROVE  ParseLine(r, l) \in ReadState
<1>1. l.value \in Text /\ Number(l.value) \in Number16
  BY NumberType DEF TextLine
<1>2. Closed(r) \in ReadState /\ Closed(r).current = <<>>
  <2>1. r.peers \o r.current \in Seq(Peer)
    <3>1. r.current \in Seq(Peer)
      BY CurrentType
    <3> QED
      BY <3>1 DEF ReadState
  <2> QED
    BY <2>1 DEF Closed, ReadState
<1>3. NoPeer \in Peer
  BY TextIsText DEF NoPeer, Peer, Number16
<1>4. CASE l.key = "[Interface]"
  BY <1>2, <1>4 DEF ParseLine
<1>5. CASE l.key = "[Peer]"
  <2>1. ParseLine(r, l) = [Closed(r) EXCEPT !.current = <<NoPeer>>]
    BY <1>5 DEF ParseLine
  <2>2. <<NoPeer>> \in {<<p>> : p \in Peer}
    BY <1>3
  <2> HIDE DEF NoPeer
  <2> QED
    BY <1>2, <2>1, <2>2 DEF ReadState
<1>6. CASE l.key \notin {"[Interface]", "[Peer]"} /\ r.current = <<>>
  <2>1. ParseLine(r, l) = InterfaceLine(r, l)
    BY <1>6 DEF ParseLine
  <2>2. Append(r.address, l.value) \in Seq(Text) /\ Append(r.dns, l.value) \in Seq(Text)
    BY <1>1 DEF ReadState
  <2> QED
    BY <1>1, <2>1, <2>2 DEF InterfaceLine, ReadState
<1>7. CASE l.key \notin {"[Interface]", "[Peer]"} /\ r.current # <<>>
  <2>1. ParseLine(r, l) = [r EXCEPT !.current = <<PeerLine(r.current[1], l)>>]
    BY <1>7 DEF ParseLine, ReadState
  <2>2. PICK p \in Peer : r.current = <<p>>
    BY <1>7 DEF ReadState
  <2>3. PeerLine(r.current[1], l) \in Peer
    BY <2>2, PeerLineType
  <2> QED
    BY <2>1, <2>3 DEF ReadState
<1> QED
  BY <1>4, <1>5, <1>6, <1>7

LEMMA ReadMore ==
    ASSUME NEW L, NEW s \in Seq(L), NEW l \in L, NEW r
    PROVE  Read(r, Append(s, l)) = ParseLine(Read(r, s), l)
<1>1. Append(s, l) = s \o <<l>> /\ <<l>> \in Seq(L)
  OBVIOUS
<1>2. Read(r, s \o <<l>>) = Read(Read(r, s), <<l>>)
  BY <1>1, ReadBoth
<1> QED
  BY <1>1, <1>2, ReadLine

LEMMA FreshType == Fresh \in ReadState
  BY TextIsText, EmptySeq DEF Fresh, ReadState, Number16

\* parse_conf makes a tunnel of every text.
LEMMA ParseType == ASSUME NEW s \in Seq(TextLine) PROVE Parse(s) \in Tunnel
<1> DEFINE T == {t \in Seq(TextLine) : Read(Fresh, t) \in ReadState}
<1>1. <<>> \in T
  BY FreshType, ReadNothing, EmptySeq
<1>2. ASSUME NEW t \in T, NEW l \in TextLine PROVE Append(t, l) \in T
  BY ReadMore, ParseLineType
<1>3. T = Seq(TextLine)
  BY <1>1, <1>2, AllSequences
<1>4. Read(Fresh, s) \in ReadState
  BY <1>3
<1>5. Closed(Read(Fresh, s)) \in ReadState
  <2> DEFINE r == Read(Fresh, s)
  <2>1. r.current \in Seq(Peer) /\ r.peers \in Seq(Peer)
    BY <1>4, CurrentType DEF ReadState
  <2> HIDE DEF r
  <2>2. r.peers \o r.current \in Seq(Peer)
    BY <2>1
  <2> QED
    BY <1>4, <2>2 DEF r, Closed, ReadState
<1> QED
  BY <1>5 DEF Parse, Read, ReadState, Tunnel

LEMMA ClosedType ==
    ASSUME NEW r \in ReadState
    PROVE  /\ Closed(r) \in ReadState
           /\ Closed(r) = [r EXCEPT !.peers = r.peers \o r.current, !.current = <<>>]
<1>1. r.current \in Seq(Peer) /\ r.peers \in Seq(Peer)
  BY CurrentType DEF ReadState
<1>2. r.peers \o r.current \in Seq(Peer)
  BY <1>1
<1> QED
  BY <1>2 DEF Closed, ReadState

-----------------------------------------------------------------------------

(***************************************************************************)
(* What parse_conf reads of the lines that serialize_conf writes.          *)
(***************************************************************************)
NormalPeer(p) == [p EXCEPT !.allowed_ips = Parts(Joined(p.allowed_ips))]

\* The state of reading in the middle of a peer.
At(r, p) == [Closed(r) EXCEPT !.current = <<p>>]

LEMMA NormalPeerType == ASSUME NEW p \in Peer PROVE NormalPeer(p) \in Peer
<1>1. Parts(Joined(p.allowed_ips)) \in Seq(Text)
  BY JoinedType, PartsType DEF Peer
<1> QED
  BY <1>1 DEF NormalPeer, Peer

LEMMA AtType ==
    ASSUME NEW r \in ReadState, NEW p \in Peer
    PROVE  /\ At(r, p) \in ReadState
           /\ At(r, p).current = <<p>>
           /\ Closed(At(r, p)) = [Closed(r) EXCEPT !.peers = Closed(r).peers \o <<p>>]
<1>1. <<p>> \in {<<q>> : q \in Peer}
  OBVIOUS
<1>2. At(r, p) \in ReadState /\ At(r, p).current = <<p>>
  BY <1>1, ClosedType DEF At, ReadState
<1> DEFINE c == Closed(r)
           a == At(r, p)
<1>3. /\ c \in ReadState /\ c.current = <<>>
      /\ a = [c EXCEPT !.current = <<p>>]
  BY ClosedType DEF At, ReadState
<1>4. a \in ReadState /\ a.current = <<p>>
  BY <1>2
<1> HIDE DEF c, a
<1>5. Closed(a) = [a EXCEPT !.peers = a.peers \o <<p>>, !.current = <<>>]
  BY <1>4, ClosedType
<1>6. a.peers = c.peers
  BY <1>3 DEF ReadState
<1>7. [a EXCEPT !.peers = a.peers \o <<p>>, !.current = <<>>]
        = [c EXCEPT !.peers = c.peers \o <<p>>]
  BY <1>3, <1>4, <1>6 DEF ReadState
<1> QED
  BY <1>2, <1>5, <1>7 DEF a, c

LEMMA ReadTwo ==
    ASSUME NEW r, NEW l, NEW m
    PROVE  Read(r, <<l, m>>) = ParseLine(ParseLine(r, l), m)
<1> DEFINE g == [i \in 0..2 |-> IF i = 0 THEN r ELSE IF i = 1 THEN ParseLine(r, l)
                                 ELSE ParseLine(ParseLine(r, l), m)]
<1>1. g[0] = r /\ g[1] = ParseLine(r, l) /\ g[2] = ParseLine(g[1], m)
  OBVIOUS
<1>2. /\ Len(<<l, m>>) = 2 /\ DOMAIN <<l, m>> = 1..2
      /\ <<l, m>>[1] = l /\ <<l, m>>[2] = m
  OBVIOUS
<1>3. \A i \in 1..2 : (i = 1 /\ i - 1 = 0) \/ (i = 2 /\ i - 1 = 1)
  OBVIOUS
<1> HIDE DEF g
<1> QED
  BY <1>1, <1>2, <1>3, StatesAreRead

\* A line in the middle of a peer.
LEMMA LineAt ==
    ASSUME NEW r \in ReadState, NEW p \in Peer, NEW key, NEW value,
           key \notin {"[Interface]", "[Peer]"}
    PROVE  ParseLine(At(r, p), Line(key, value)) = At(r, PeerLine(p, Line(key, value)))
<1> DEFINE l == Line(key, value)
<1>1. l.key = key
  BY DEF Line
<1> HIDE DEF l
<1>2. ParseLine(At(r, p), l) = [At(r, p) EXCEPT !.current = <<PeerLine(p, l)>>]
  <2> DEFINE a == At(r, p)
  <2>0. a.current = <<p>>
    BY AtType
  <2>2. a \in ReadState
    BY AtType
  <2> HIDE DEF a
  <2>1. a.current # <<>> /\ a.current[1] = p
    BY <2>0
  <2>3. ParseLine(a, l) = [a EXCEPT !.current = <<PeerLine(a.current[1], l)>>]
    BY <1>1, <2>1, <2>2 DEF ParseLine, ReadState
  <2> QED
    BY <2>1, <2>3 DEF a
<1>3. Closed(r) \in ReadState
  BY ClosedType
<1>4. [At(r, p) EXCEPT !.current = <<PeerLine(p, l)>>] = At(r, PeerLine(p, l))
  BY <1>3 DEF At, ReadState
<1> QED
  BY <1>2, <1>4 DEF l

\* The lines that serialize_conf puts together can be in a file.
LEMMA LineType ==
    /\ \A key \in FileKeys : \A v \in Text : Line(key, v) \in FileLine
    /\ Line("Table", <<"off">>) \in FileLine
  BY DEF Line, FileLine, FileKeys

LEMMA NumericType ==
    ASSUME NEW key \in FileKeys, NEW n \in Number16
    PROVE  Numeric(key, n) \in Seq(FileLine)
<1>1. CASE n = None
  BY <1>1, EmptySeq DEF Numeric
<1>2. CASE n # None
  <2>1. Line(key, <<n>>) \in FileLine
    BY <1>2, TextIsText, LineType DEF Number16
  <2> QED
    BY <1>2, <2>1 DEF Numeric
<1> QED
  BY <1>1, <1>2

LEMMA PeerLinesParts ==
    ASSUME NEW p \in Peer
    PROVE  /\ <<Line("[Peer]", <<Blank>>), Line("PublicKey", p.public_key)>> \in Seq(FileLine)
           /\ Optional("PresharedKey", p.preshared_key) \in Seq(FileLine)
           /\ <<Line("Endpoint", p.endpoint), Line("AllowedIPs", Joined(p.allowed_ips))>>
                  \in Seq(FileLine)
           /\ Numeric("PersistentKeepalive", p.persistent_keepalive) \in Seq(FileLine)
<1>1. /\ Joined(p.allowed_ips) \in Text /\ <<Blank>> \in Text
      /\ p.public_key \in Text /\ p.endpoint \in Text
      /\ p.preshared_key \in Text \union {None}
      /\ p.persistent_keepalive \in Number16
  BY JoinedType, TextIsText DEF Peer
<1>2. \A l \in FileLine, m \in FileLine : <<l>> \in Seq(FileLine) /\ <<l, m>> \in Seq(FileLine)
  OBVIOUS
<1>3. Line("[Peer]", <<Blank>>) \in FileLine /\ Line("PublicKey", p.public_key) \in FileLine
  BY <1>1 DEF Line, FileLine, FileKeys
<1>4. /\ Line("Endpoint", p.endpoint) \in FileLine
      /\ Line("AllowedIPs", Joined(p.allowed_ips)) \in FileLine
  BY <1>1 DEF Line, FileLine, FileKeys
<1>5. Optional("PresharedKey", p.preshared_key) \in Seq(FileLine)
  <2>1. CASE p.preshared_key = None
    BY <2>1, EmptySeq DEF Optional
  <2>2. CASE p.preshared_key # None
    <3>1. Line("PresharedKey", p.preshared_key) \in FileLine
      BY <1>1, <2>2 DEF Line, FileLine, FileKeys
    <3> QED
      BY <1>2, <2>2, <3>1 DEF Optional
  <2> QED
    BY <2>1, <2>2
<1>6. Numeric("PersistentKeepalive", p.persistent_keepalive) \in Seq(FileLine)
  BY <1>1, NumericType DEF FileKeys
<1> QED
  BY <1>2, <1>3, <1>4, <1>5, <1>6

\* The lines of a peer are read as that peer, the one before it being complete.
LEMMA ReadPeer ==
    ASSUME NEW r \in ReadState, NEW p \in Peer
    PROVE  Read(r, SerializePeer(p)) = At(r, NormalPeer(p))
<1> DEFINE nets == Joined(p.allowed_ips)
           s1 == <<Line("[Peer]", <<Blank>>), Line("PublicKey", p.public_key)>>
           s2 == Optional("PresharedKey", p.preshared_key)
           s3 == <<Line("Endpoint", p.endpoint), Line("AllowedIPs", nets)>>
           s4 == Numeric("PersistentKeepalive", p.persistent_keepalive)
           p1 == [NoPeer EXCEPT !.public_key = p.public_key]
           p2 == [p1 EXCEPT !.preshared_key = p.preshared_key]
           p3 == [p2 EXCEPT !.endpoint = p.endpoint, !.allowed_ips = Parts(nets)]
           p4 == [p3 EXCEPT !.persistent_keepalive = p.persistent_keepalive]
<1>1. /\ nets \in Text /\ Parts(nets) \in Seq(Text)
      /\ p.public_key \in Text /\ p.endpoint \in Text
      /\ p.preshared_key \in Text \union {None}
      /\ p.persistent_keepalive \in Number16
  BY JoinedType, PartsType DEF Peer
<1>2. NoPeer \in Peer
  BY TextIsText, EmptySeq DEF NoPeer, Peer, Number16
<1> HIDE DEF nets
<1>3. p1 \in Peer /\ p2 \in Peer /\ p3 \in Peer /\ p4 \in Peer
  BY <1>1, <1>2 DEF Peer
<1>4. Read(r, s1) = At(r, p1)
  <2>1. ParseLine(r, Line("[Peer]", <<Blank>>)) = At(r, NoPeer)
    BY DEF ParseLine, Line, At
  <2>2. PeerLine(NoPeer, Line("PublicKey", p.public_key)) = p1
    BY DEF PeerLine, Line
  <2> HIDE DEF NoPeer, p1
  <2> QED
    BY <1>2, <2>1, <2>2, ReadTwo, LineAt
<1>5. Read(At(r, p1), s2) = At(r, p2)
  <2>1. CASE p.preshared_key = None
    <3>1. s2 = <<>>
      BY <2>1 DEF Optional
    <3>2. p1.preshared_key = None
      BY DEF NoPeer
    <3>3. p2 = p1
      <4> HIDE DEF p1
      <4> QED
        BY <1>3, <2>1, <3>2 DEF Peer
    <3> QED
      BY <3>1, <3>3, ReadNothing
  <2>2. CASE p.preshared_key # None
    <3>1. s2 = <<Line("PresharedKey", p.preshared_key)>>
      BY <2>2 DEF Optional
    <3>2. PeerLine(p1, Line("PresharedKey", p.preshared_key)) = p2
      BY DEF PeerLine, Line
    <3> HIDE DEF p1, p2, s2
    <3> QED
      BY <1>3, <3>1, <3>2, ReadLine, LineAt
  <2> QED
    BY <2>1, <2>2
<1>6. Read(At(r, p2), s3) = At(r, p3)
  <2> DEFINE q == [p2 EXCEPT !.endpoint = p.endpoint]
  <2>1. PeerLine(p2, Line("Endpoint", p.endpoint)) = q
    BY DEF PeerLine, Line
  <2>2. PeerLine(q, Line("AllowedIPs", nets)) = p3
    BY DEF PeerLine, Line
  <2>3. q \in Peer
    BY <1>1, <1>3 DEF Peer
  <2> HIDE DEF p2, p3, q
  <2>4. ParseLine(At(r, p2), Line("Endpoint", p.endpoint)) = At(r, q)
    BY <1>3, <2>1, LineAt
  <2>5. ParseLine(At(r, q), Line("AllowedIPs", nets)) = At(r, p3)
    BY <2>2, <2>3, LineAt
  <2> QED
    BY <2>4, <2>5, ReadTwo
<1>7. Read(At(r, p3), s4) = At(r, p4)
  <2>1. CASE p.persistent_keepalive = None
    <3>1. s4 = <<>>
      BY <2>1 DEF Numeric
    <3>2. p3.persistent_keepalive = None
      BY DEF NoPeer
    <3>3. p4 = p3
      <4> HIDE DEF p3
      <4> QED
        BY <1>3, <2>1, <3>2 DEF Peer
    <3> QED
      BY <3>1, <3>3, ReadNothing
  <2>2. CASE p.persistent_keepalive # None
    <3> DEFINE n == p.persistent_keepalive
               l == Line("PersistentKeepalive", <<n>>)
    <3>1. s4 = <<l>>
      BY <2>2 DEF Numeric
    <3>2. Number(<<n>>) = n
      BY <1>1, <2>2, CodecConstants DEF Number, Number16
    <3>3. PeerLine(p3, l) = p4
      BY <3>2 DEF PeerLine, Line
    <3> HIDE DEF p3, p4, s4
    <3> QED
      BY <1>3, <3>1, <3>3, ReadLine, LineAt
  <2> QED
    BY <2>1, <2>2
<1>8. /\ s1 \in Seq(FileLine) /\ s2 \in Seq(FileLine)
      /\ s3 \in Seq(FileLine) /\ s4 \in Seq(FileLine)
  BY PeerLinesParts DEF nets
<1>9. p4 = NormalPeer(p)
  BY DEF NormalPeer, NoPeer, Peer, nets
<1>10. SerializePeer(p) = ((s1 \o s2) \o s3) \o s4
  BY DEF SerializePeer, nets
<1> HIDE DEF s1, s2, s3, s4, p1, p2, p3, p4
<1> DEFINE s12 == s1 \o s2
           s13 == s12 \o s3
<1>11. s12 \in Seq(FileLine) /\ s13 \in Seq(FileLine)
  BY <1>8
<1>12. Read(r, s12) = At(r, p2)
  BY <1>4, <1>5, <1>8, ReadBoth
<1> HIDE DEF s12
<1>13. Read(r, s13) = At(r, p3)
  BY <1>6, <1>8, <1>11, <1>12, ReadBoth
<1> HIDE DEF s13
<1>14. Read(r, s13 \o s4) = At(r, p4)
  BY <1>7, <1>8, <1>11, <1>13, ReadBoth
<1> QED
  BY <1>9, <1>10, <1>14 DEF s12, s13

\* The lines of a peer can be in a file.
LEMMA PeerLinesType ==
    ASSUME NEW p \in Peer
    PROVE  SerializePeer(p) \in Seq(FileLine)
  BY PeerLinesParts, ConcatProperties DEF SerializePeer

LEMMA EachType ==
    ASSUME NEW key \in FileKeys, NEW ts \in Seq(Text)
    PROVE  /\ Each(key, ts) \in Seq(FileLine)
           /\ \A t \in Text : Each(key, Append(ts, t)) = Append(Each(key, ts), Line(key, t))
<1> DEFINE f == [t \in Text |-> Line(key, t)]
<1>1. f \in Maps(Text, FileLine) /\ \A t \in Text : f[t] = Line(key, t)
  BY LineType DEF Maps
<1>2. ASSUME NEW us \in Seq(Text) PROVE Each(key, us) = Map(f, us)
  <2>1. \A i \in DOMAIN us : us[i] \in Text
    OBVIOUS
  <2> HIDE DEF f
  <2> QED
    BY <1>1, <2>1 DEF Each, Map
<1> HIDE DEF f
<1>3. \A t \in Text : Append(ts, t) \in Seq(Text)
  OBVIOUS
<1>4. ASSUME NEW t \in Text
      PROVE  /\ Map(f, ts) \in Seq(FileLine)
             /\ Map(f, Append(ts, t)) = Append(Map(f, ts), Line(key, t))
  <2>1. /\ Map(f, ts) \in Seq(FileLine)
        /\ Map(f, Append(ts, t)) = Append(Map(f, ts), f[t])
    BY <1>1, MapMore
  <2> QED
    BY <1>1, <2>1
<1> QED
  BY <1>2, <1>3, <1>4, TextIsText

LEMMA AppendBehind ==
    ASSUME NEW S, NEW a \in Seq(S), NEW b \in Seq(S), NEW e \in S
    PROVE  /\ Append(a \o b, e) = a \o Append(b, e)
           /\ (a \o b) \o <<e>> = a \o Append(b, e)
<1>1. Append(a \o b, e) = (a \o b) \o <<e>> /\ Append(b, e) = b \o <<e>>
  OBVIOUS
<1>2. <<e>> \in Seq(S)
  OBVIOUS
<1> QED
  BY <1>1, <1>2, ConcatAssociative

LEMMA TextBehind ==
    \A a \in Seq(Text), b \in Seq(Text), t \in Text : Append(a \o b, t) = a \o Append(b, t)
<1> SUFFICES ASSUME NEW a \in Seq(Text), NEW b \in Seq(Text), NEW t \in Text
             PROVE  Append(a \o b, t) = a \o Append(b, t)
  OBVIOUS
<1> QED
  BY AppendBehind

\* The lines of the addresses and of the DNS servers, in the interface's section.
LEMMA ReadAddresses ==
    ASSUME NEW r \in ReadState, r.current = <<>>, NEW ts \in Seq(Text)
    PROVE  Read(r, Each("Address", ts)) = [r EXCEPT !.address = r.address \o ts]
<1> DEFINE T == {uu \in Seq(Text) :
                    Read(r, Each("Address", uu)) = [r EXCEPT !.address = r.address \o uu]}
<1>1. r.address \in Seq(Text) /\ "Address" \in FileKeys
  BY DEF ReadState, FileKeys
<1>2. <<>> \in T
  <2>1. Each("Address", <<>>) = <<>>
    BY DEF Each
  <2>2. r.address \o <<>> = r.address
    BY <1>1, ConcatEmptySeq
  <2>3. [r EXCEPT !.address = r.address] = r
    BY DEF ReadState
  <2> QED
    BY <2>1, <2>2, <2>3, ReadNothing, EmptySeq
<1>3. ASSUME NEW uu \in T, NEW t \in Text PROVE Append(uu, t) \in T
  <2> DEFINE l == Line("Address", t)
             q == [r EXCEPT !.address = r.address \o uu]
  <2>1. Read(r, Each("Address", Append(uu, t))) = ParseLine(q, l)
    BY <1>1, LineType, EachType, ReadMore
  <2>2. ParseLine(q, l) = [q EXCEPT !.address = Append(q.address, t)]
    BY DEF ParseLine, InterfaceLine, Line, ReadState
  <2>3. q.address = r.address \o uu
    BY DEF ReadState
  <2>4. Append(r.address \o uu, t) = r.address \o Append(uu, t)
    <3>1. uu \in Seq(Text)
      OBVIOUS
    <3> HIDE DEF T
    <3> QED
      BY <1>1, <3>1, TextBehind
  <2>5. [q EXCEPT !.address = r.address \o Append(uu, t)]
          = [r EXCEPT !.address = r.address \o Append(uu, t)]
    BY DEF ReadState
  <2>6. Append(uu, t) \in Seq(Text)
    OBVIOUS
  <2> HIDE DEF q, l
  <2> QED
    BY <2>1, <2>2, <2>3, <2>4, <2>5, <2>6
<1>4. T = Seq(Text)
  BY <1>2, <1>3, AllSequences
<1> QED
  BY <1>4

LEMMA ReadServers ==
    ASSUME NEW r \in ReadState, r.current = <<>>, NEW ts \in Seq(Text)
    PROVE  Read(r, Each("DNS", ts)) = [r EXCEPT !.dns = r.dns \o ts]
<1> DEFINE T == {uu \in Seq(Text) :
                    Read(r, Each("DNS", uu)) = [r EXCEPT !.dns = r.dns \o uu]}
<1>1. r.dns \in Seq(Text) /\ "DNS" \in FileKeys
  BY DEF ReadState, FileKeys
<1>2. <<>> \in T
  <2>1. Each("DNS", <<>>) = <<>>
    BY DEF Each
  <2>2. r.dns \o <<>> = r.dns
    BY <1>1, ConcatEmptySeq
  <2>3. [r EXCEPT !.dns = r.dns] = r
    BY DEF ReadState
  <2> QED
    BY <2>1, <2>2, <2>3, ReadNothing, EmptySeq
<1>3. ASSUME NEW uu \in T, NEW t \in Text PROVE Append(uu, t) \in T
  <2> DEFINE l == Line("DNS", t)
             q == [r EXCEPT !.dns = r.dns \o uu]
  <2>1. Read(r, Each("DNS", Append(uu, t))) = ParseLine(q, l)
    BY <1>1, LineType, EachType, ReadMore
  <2>2. ParseLine(q, l) = [q EXCEPT !.dns = Append(q.dns, t)]
    BY DEF ParseLine, InterfaceLine, Line, ReadState
  <2>3. q.dns = r.dns \o uu
    BY DEF ReadState
  <2>4. Append(r.dns \o uu, t) = r.dns \o Append(uu, t)
    <3>1. uu \in Seq(Text)
      OBVIOUS
    <3> HIDE DEF T
    <3> QED
      BY <1>1, <3>1, TextBehind
  <2>5. [q EXCEPT !.dns = r.dns \o Append(uu, t)]
          = [r EXCEPT !.dns = r.dns \o Append(uu, t)]
    BY DEF ReadState
  <2>6. Append(uu, t) \in Seq(Text)
    OBVIOUS
  <2> HIDE DEF q, l
  <2> QED
    BY <2>1, <2>2, <2>3, <2>4, <2>5, <2>6
<1>4. T = Seq(Text)
  BY <1>2, <1>3, AllSequences
<1> QED
  BY <1>4

PeersLines(ps)  == [i \in DOMAIN ps |-> SerializePeer(ps[i])]
NormalPeers(ps) == [i \in DOMAIN ps |-> NormalPeer(ps[i])]

LEMMA PeersLinesMore ==
    ASSUME NEW ps \in Seq(Peer), NEW p \in Peer
    PROVE  /\ PeersLines(ps) \in Seq(Seq(FileLine))
           /\ NormalPeers(ps) \in Seq(Peer)
           /\ PeersLines(Append(ps, p)) = Append(PeersLines(ps), SerializePeer(p))
           /\ NormalPeers(Append(ps, p)) = Append(NormalPeers(ps), NormalPeer(p))
<1> DEFINE f == [q \in Peer |-> SerializePeer(q)]
           g == [q \in Peer |-> NormalPeer(q)]
<1>1. f \in Maps(Peer, Seq(FileLine)) /\ \A q \in Peer : f[q] = SerializePeer(q)
  BY PeerLinesType DEF Maps
<1>2. g \in Maps(Peer, Peer) /\ \A q \in Peer : g[q] = NormalPeer(q)
  BY NormalPeerType DEF Maps
<1> HIDE DEF f, g
<1>3. ASSUME NEW qs \in Seq(Peer)
      PROVE  PeersLines(qs) = Map(f, qs) /\ NormalPeers(qs) = Map(g, qs)
  <2>1. \A i \in DOMAIN qs : qs[i] \in Peer
    OBVIOUS
  <2> QED
    BY <1>1, <1>2, <2>1 DEF PeersLines, NormalPeers, Map
<1>4. Append(ps, p) \in Seq(Peer)
  OBVIOUS
<1>5. Map(f, ps) \in Seq(Seq(FileLine)) /\ Map(f, Append(ps, p)) = Append(Map(f, ps), f[p])
  BY <1>1, MapMore
<1>6. Map(g, ps) \in Seq(Peer) /\ Map(g, Append(ps, p)) = Append(Map(g, ps), g[p])
  BY <1>2, MapMore
<1> QED
  BY <1>1, <1>2, <1>3, <1>4, <1>5, <1>6

LEMMA PeerBehind ==
    \A a \in Seq(Peer), b \in Seq(Peer), p \in Peer : (a \o b) \o <<p>> = a \o Append(b, p)
<1> SUFFICES ASSUME NEW a \in Seq(Peer), NEW b \in Seq(Peer), NEW p \in Peer
             PROVE  (a \o b) \o <<p>> = a \o Append(b, p)
  OBVIOUS
<1>1. (a \o b) \o <<p>> = Append(a \o b, p)
  OBVIOUS
<1>2. Append(a \o b, p) = a \o Append(b, p)
  BY AppendBehind
<1> QED
  BY <1>1, <1>2

LEMMA ReadPeers ==
    ASSUME NEW r \in ReadState, r.current = <<>>, NEW ps \in Seq(Peer)
    PROVE  Closed(Read(r, FlattenSeq(PeersLines(ps))))
             = [r EXCEPT !.peers = r.peers \o NormalPeers(ps)]
<1> DEFINE After(qs) == Read(r, FlattenSeq(PeersLines(qs)))
           T == {qs \in Seq(Peer) :
                    /\ After(qs) \in ReadState
                    /\ Closed(After(qs)) = [r EXCEPT !.peers = r.peers \o NormalPeers(qs)]}
<1>1. r.peers \in Seq(Peer)
  BY DEF ReadState
<1>2. <<>> \in T
  <2>1. PeersLines(<<>>) = <<>> /\ NormalPeers(<<>>) = <<>>
    BY DEF PeersLines, NormalPeers
  <2>2. After(<<>>) = r
    BY <2>1, FlatNothing, ReadNothing
  <2>3. r.peers \o <<>> = r.peers
    BY <1>1, ConcatEmptySeq
  <2>4. Closed(r) = [r EXCEPT !.peers = r.peers \o <<>>, !.current = <<>>]
    BY ClosedType
  <2>5. Closed(r) = r /\ [r EXCEPT !.peers = r.peers] = r
    BY <2>3, <2>4 DEF ReadState
  <2> HIDE DEF After
  <2> QED
    BY <2>1, <2>2, <2>3, <2>5, EmptySeq
<1>3. ASSUME NEW qs \in T, NEW p \in Peer PROVE Append(qs, p) \in T
  <2> DEFINE q == After(qs)
             nps == NormalPeers(qs)
             np == NormalPeer(p)
  <2>1. /\ q \in ReadState
        /\ Closed(q) = [r EXCEPT !.peers = r.peers \o nps]
        /\ Append(qs, p) \in Seq(Peer)
    OBVIOUS
  <2>2. After(Append(qs, p)) = Read(q, SerializePeer(p))
    <3>1. /\ PeersLines(qs) \in Seq(Seq(FileLine))
          /\ PeersLines(Append(qs, p)) = Append(PeersLines(qs), SerializePeer(p))
      BY PeersLinesMore
    <3>2. SerializePeer(p) \in Seq(FileLine)
      BY PeerLinesType
    <3>3. FlattenSeq(PeersLines(Append(qs, p)))
            = FlattenSeq(PeersLines(qs)) \o SerializePeer(p)
      BY <3>1, <3>2, FlatMore
    <3>4. FlattenSeq(PeersLines(qs)) \in Seq(FileLine)
      BY <3>1, FlatType
    <3> QED
      BY <3>2, <3>3, <3>4, ReadBoth
  <2> HIDE DEF After, q
  <2>3. Read(q, SerializePeer(p)) = At(q, np)
    BY <2>1, ReadPeer
  <2>4. np \in Peer /\ nps \in Seq(Peer) /\ NormalPeers(Append(qs, p)) = Append(nps, np)
    BY NormalPeerType, PeersLinesMore
  <2> HIDE DEF nps, np
  <2>5. /\ At(q, np) \in ReadState
        /\ Closed(At(q, np)) = [Closed(q) EXCEPT !.peers = Closed(q).peers \o <<np>>]
    BY <2>1, <2>4, AtType
  <2>6. Closed(q).peers = r.peers \o nps
    BY <2>1 DEF ReadState
  <2>7. (r.peers \o nps) \o <<np>> = r.peers \o Append(nps, np)
    BY <1>1, <2>4, PeerBehind
  <2>8. Closed(At(q, np)) = [r EXCEPT !.peers = r.peers \o Append(nps, np)]
    BY <2>1, <2>5, <2>6, <2>7 DEF ReadState
  <2> QED
    BY <2>1, <2>2, <2>3, <2>4, <2>5, <2>8
<1>4. T = Seq(Peer)
  BY <1>2, <1>3, AllSequences
<1> QED
  BY <1>4

-----------------------------------------------------------------------------

\* The lines of a tunnel's file, from the first on.
LEMMA SerializeType ==
    ASSUME NEW c \in Tunnel
    PROVE  /\ <<Line("[Interface]", <<Blank>>), Line("PrivateKey", c.private_key)>>
                  \in Seq(FileLine)
           /\ Each("Address", c.address) \in Seq(FileLine)
           /\ Each("DNS", c.dns) \in Seq(FileLine)
           /\ Numeric("MTU", c.mtu) \in Seq(FileLine)
           /\ <<Line("Table", <<"off">>)>> \in Seq(FileLine)
           /\ FlattenSeq(PeersLines(c.peers)) \in Seq(FileLine)
<1>1. /\ c.private_key \in Text /\ <<Blank>> \in Text
      /\ c.address \in Seq(Text) /\ c.dns \in Seq(Text)
      /\ c.mtu \in Number16 /\ c.peers \in Seq(Peer)
  BY TextIsText DEF Tunnel
<1>2. \A l \in FileLine, m \in FileLine : <<l>> \in Seq(FileLine) /\ <<l, m>> \in Seq(FileLine)
  OBVIOUS
<1>3. /\ Line("[Interface]", <<Blank>>) \in FileLine
      /\ Line("PrivateKey", c.private_key) \in FileLine
  BY <1>1 DEF Line, FileLine, FileKeys
<1>4. {"Address", "DNS", "MTU"} \subseteq FileKeys
  BY DEF FileKeys
<1>5. /\ Each("Address", c.address) \in Seq(FileLine) /\ Each("DNS", c.dns) \in Seq(FileLine)
      /\ Numeric("MTU", c.mtu) \in Seq(FileLine)
  BY <1>1, <1>4, EachType, NumericType
<1>6. FlattenSeq(PeersLines(c.peers)) \in Seq(FileLine)
  <2>1. \A i \in 1..Len(c.peers) : SerializePeer(c.peers[i]) \in Seq(FileLine)
    BY <1>1, PeerLinesType
  <2>2. PeersLines(c.peers) \in Seq(Seq(FileLine))
    BY <1>1, <2>1 DEF PeersLines
  <2> QED
    BY <2>2, FlatType
<1> QED
  BY <1>2, <1>3, <1>5, <1>6, LineType

\* What parse_conf reads of a tunnel's file is that tunnel, with one list of
\* networks for each peer.
LEMMA RoundTrip ==
    ASSUME NEW c \in Tunnel
    PROVE  /\ Parse(Serialize(c)) = Normal(c)
           /\ Normal(c) \in Tunnel
<1> DEFINE s1 == <<Line("[Interface]", <<Blank>>), Line("PrivateKey", c.private_key)>>
           s2 == Each("Address", c.address)
           s3 == Each("DNS", c.dns)
           s4 == Numeric("MTU", c.mtu)
           s5 == <<Line("Table", <<"off">>)>>
           s6 == FlattenSeq(PeersLines(c.peers))
           r1 == [Fresh EXCEPT !.private_key = c.private_key]
           r2 == [r1 EXCEPT !.address = c.address]
           r3 == [r2 EXCEPT !.dns = c.dns]
           r4 == [r3 EXCEPT !.mtu = c.mtu]
           r6 == [r4 EXCEPT !.peers = NormalPeers(c.peers)]
<1>1. /\ c.private_key \in Text /\ c.address \in Seq(Text) /\ c.dns \in Seq(Text)
      /\ c.mtu \in Number16 /\ c.peers \in Seq(Peer)
  BY DEF Tunnel
<1>2. Fresh \in ReadState
  BY FreshType
<1>3. r1 \in ReadState /\ r2 \in ReadState /\ r3 \in ReadState /\ r4 \in ReadState
  BY <1>1, <1>2 DEF ReadState
<1>4. /\ r1.current = <<>> /\ r2.current = <<>> /\ r3.current = <<>> /\ r4.current = <<>>
      /\ r1.address = <<>> /\ r2.dns = <<>> /\ r3.mtu = None /\ r4.peers = <<>>
  BY DEF Fresh
<1>5. NormalPeers(c.peers) \in Seq(Peer)
  <2>1. \A i \in 1..Len(c.peers) : NormalPeer(c.peers[i]) \in Peer
    BY <1>1, NormalPeerType
  <2> QED
    BY <1>1, <2>1 DEF NormalPeers
<1>6. Read(Fresh, s1) = r1
  <2>1. ParseLine(Fresh, Line("[Interface]", <<Blank>>)) = Closed(Fresh)
    BY DEF ParseLine, Line
  <2>2. Closed(Fresh) = Fresh
    <3>1. <<>> \o <<>> = <<>>
      BY EmptySeq, ConcatEmptySeq
    <3>2. Fresh.peers = <<>> /\ Fresh.current = <<>>
      BY DEF Fresh
    <3>3. Closed(Fresh) = [Fresh EXCEPT !.peers = Fresh.peers \o Fresh.current, !.current = <<>>]
      BY <1>2, ClosedType
    <3> HIDE DEF Fresh
    <3> QED
      BY <1>2, <3>1, <3>2, <3>3 DEF ReadState
  <2>3. ParseLine(Fresh, Line("PrivateKey", c.private_key)) = r1
    BY DEF ParseLine, InterfaceLine, Line, Fresh
  <2> HIDE DEF Fresh
  <2> QED
    BY <2>1, <2>2, <2>3, ReadTwo
<1> HIDE DEF r1
<1>7. Read(r1, s2) = r2
  <2>1. Read(r1, s2) = [r1 EXCEPT !.address = r1.address \o c.address]
    BY <1>1, <1>3, <1>4, ReadAddresses
  <2>2. <<>> \o c.address = c.address
    BY <1>1, ConcatEmptySeq
  <2> QED
    BY <1>4, <2>1, <2>2
<1> HIDE DEF r2
<1>8. Read(r2, s3) = r3
  <2>1. Read(r2, s3) = [r2 EXCEPT !.dns = r2.dns \o c.dns]
    BY <1>1, <1>3, <1>4, ReadServers
  <2>2. <<>> \o c.dns = c.dns
    BY <1>1, ConcatEmptySeq
  <2> QED
    BY <1>4, <2>1, <2>2
<1> HIDE DEF r3
<1>9. Read(r3, s4) = r4
  <2>1. CASE c.mtu = None
    <3>1. s4 = <<>>
      BY <2>1 DEF Numeric
    <3>2. r4 = r3
      BY <1>3, <1>4, <2>1 DEF ReadState
    <3> QED
      BY <3>1, <3>2, ReadNothing
  <2>2. CASE c.mtu # None
    <3> DEFINE l == Line("MTU", <<c.mtu>>)
    <3>1. s4 = <<l>>
      BY <2>2 DEF Numeric
    <3>2. Number(<<c.mtu>>) = c.mtu
      BY <1>1, <2>2, CodecConstants DEF Number, Number16
    <3>3. ParseLine(r3, l) = r4
      BY <1>4, <3>2 DEF ParseLine, InterfaceLine, Line
    <3> QED
      BY <3>1, <3>3, ReadLine
  <2> QED
    BY <2>1, <2>2
<1> HIDE DEF r4
<1>10. Read(r4, s5) = r4
  <2>1. ParseLine(r4, Line("Table", <<"off">>)) = r4
    BY <1>4 DEF ParseLine, InterfaceLine, Line
  <2> QED
    BY <2>1, ReadLine
<1>11. Closed(Read(r4, s6)) = r6
  <2>1. Closed(Read(r4, s6)) = [r4 EXCEPT !.peers = r4.peers \o NormalPeers(c.peers)]
    BY <1>1, <1>3, <1>4, ReadPeers
  <2>2. <<>> \o NormalPeers(c.peers) = NormalPeers(c.peers)
    BY <1>5, ConcatEmptySeq
  <2> QED
    BY <1>4, <2>1, <2>2
<1>12. /\ s1 \in Seq(FileLine) /\ s2 \in Seq(FileLine) /\ s3 \in Seq(FileLine)
       /\ s4 \in Seq(FileLine) /\ s5 \in Seq(FileLine) /\ s6 \in Seq(FileLine)
  BY SerializeType
<1>13. Serialize(c) = ((((s1 \o s2) \o s3) \o s4) \o s5) \o s6
  BY DEF Serialize, PeersLines
<1> HIDE DEF s1, s2, s3, s4, s5, s6
<1> DEFINE t2 == s1 \o s2
           t3 == t2 \o s3
           t4 == t3 \o s4
           t5 == t4 \o s5
<1>14. /\ t2 \in Seq(FileLine) /\ t3 \in Seq(FileLine)
       /\ t4 \in Seq(FileLine) /\ t5 \in Seq(FileLine)
  BY <1>12
<1>15. Read(Fresh, t2) = r2
  BY <1>6, <1>7, <1>12, ReadBoth
<1> HIDE DEF t2
<1>16. Read(Fresh, t3) = r3
  BY <1>8, <1>12, <1>14, <1>15, ReadBoth
<1> HIDE DEF t3
<1>17. Read(Fresh, t4) = r4
  BY <1>9, <1>12, <1>14, <1>16, ReadBoth
<1> HIDE DEF t4
<1>18. Read(Fresh, t5) = r4
  BY <1>10, <1>12, <1>14, <1>17, ReadBoth
<1> HIDE DEF t5
<1>19. Read(Fresh, t5 \o s6) = Read(r4, s6)
  BY <1>12, <1>14, <1>18, ReadBoth
<1>20. Closed(Read(Fresh, Serialize(c))) = r6
  BY <1>11, <1>13, <1>19 DEF t5, t4, t3, t2
<1>21. Normal(c) = [c EXCEPT !.peers = NormalPeers(c.peers)]
  BY DEF Normal, NormalPeers, NormalPeer
<1>22. Normal(c) \in Tunnel
  BY <1>5, <1>21 DEF Tunnel
<1>23. /\ r6.private_key = c.private_key /\ r6.address = c.address /\ r6.dns = c.dns
       /\ r6.mtu = c.mtu /\ r6.peers = NormalPeers(c.peers)
  BY <1>3, <1>5 DEF r4, r3, r2, r1, ReadState, Fresh
<1>24. Parse(Serialize(c)) = Normal(c)
  BY <1>20, <1>21, <1>23 DEF Parse, Read, Tunnel
<1> QED
  BY <1>22, <1>24

-----------------------------------------------------------------------------

(***************************************************************************)
(* Texts split at their commas.                                            *)
(***************************************************************************)
Single == {<<x>> : x \in DOMAIN Numeral \ {Blank}}

SplitPart(x) == IF x = Blank THEN <<>> ELSE <<<<x>>>>

LEMMA SplitMore ==
    ASSUME NEW t \in Seq(DOMAIN Numeral), NEW x \in DOMAIN Numeral
    PROVE  /\ Split(t) \in Seq(Single)
           /\ Split(Append(t, x)) = Split(t) \o SplitPart(x)
<1> DEFINE D == DOMAIN Numeral
           f == [y \in D |-> SplitPart(y)]
<1>1. /\ \A y \in D : SplitPart(y) \in Seq(Single)
      /\ x \in D /\ t \in Seq(D)
  <2>1. \A y \in D : y # Blank => <<y>> \in Single
    BY DEF Single
  <2>2. \A z \in Single : <<z>> \in Seq(Single)
    OBVIOUS
  <2> QED
    BY <2>1, <2>2, EmptySeq DEF SplitPart
<1> HIDE DEF D
<1>2. f \in Maps(D, Seq(Single)) /\ \A y \in D : f[y] = SplitPart(y)
  BY <1>1 DEF Maps
<1> HIDE DEF f
<1>3. ASSUME NEW u \in Seq(D) PROVE Split(u) = FlattenSeq(Map(f, u))
  <2>1. \A i \in DOMAIN u : u[i] \in D
    OBVIOUS
  <2> QED
    BY <1>2, <2>1 DEF Split, SplitPart, Map
<1>4. Append(t, x) \in Seq(D)
  BY <1>1
<1>5. Map(f, t) \in Seq(Seq(Single)) /\ Map(f, Append(t, x)) = Append(Map(f, t), f[x])
  BY <1>1, <1>2, MapMore
<1>6. FlattenSeq(Append(Map(f, t), f[x])) = FlattenSeq(Map(f, t)) \o f[x]
  BY <1>1, <1>2, <1>5, FlatMore
<1>7. FlattenSeq(Map(f, t)) \in Seq(Single)
  BY <1>5, FlatType
<1> QED
  BY <1>1, <1>2, <1>3, <1>4, <1>5, <1>6, <1>7

\* Splitting puts back apart what had a comma put between.
LEMMA SplitJoined ==
    ASSUME NEW ts \in Seq(Single)
    PROVE  Split(Joined(ts)) = ts
<1> DEFINE D == DOMAIN Numeral
           T == {us \in Seq(Single) : FlattenSeq(us) \in Seq(D) /\ Split(FlattenSeq(us)) = us}
<1>1. <<>> \in T
  <2>1. Split(<<>>) = <<>>
    BY FlatNothing DEF Split
  <2> QED
    BY <2>1, FlatNothing, EmptySeq
<1>2. ASSUME NEW us \in T, NEW e \in Single PROVE Append(us, e) \in T
  <2>1. us \in Seq(Single) /\ FlattenSeq(us) \in Seq(D) /\ Split(FlattenSeq(us)) = us
    OBVIOUS
  <2>2. PICK x \in D : x # Blank /\ e = <<x>>
    BY DEF Single
  <2>3. Single \subseteq Seq(D)
    <3>1. \A y \in D : <<y>> \in Seq(D)
      OBVIOUS
    <3> HIDE DEF D
    <3>2. \A z \in Single : \E y \in D : z = <<y>>
      BY DEF Single, D
    <3> QED
      BY <3>1, <3>2
  <2>4. us \in Seq(Seq(D)) /\ e \in Seq(D)
    BY <2>1, <2>3
  <2>5. FlattenSeq(Append(us, e)) = FlattenSeq(us) \o <<x>>
    BY <2>2, <2>4, FlatMore
  <2> DEFINE t == FlattenSeq(us)
  <2>6. t \in Seq(D) /\ Split(t) = us
    BY <2>1
  <2> HIDE DEF t
  <2>7. t \o <<x>> = Append(t, x) /\ Append(t, x) \in Seq(D)
    BY <2>6
  <2>8. Split(Append(t, x)) = us \o <<e>>
    BY <2>2, <2>6, SplitMore DEF SplitPart
  <2>9. us \o <<e>> = Append(us, e) /\ Append(us, e) \in Seq(Single)
    BY <2>1
  <2> QED
    BY <2>5, <2>7, <2>8, <2>9 DEF t
<1>3. T = Seq(Single)
  BY <1>1, <1>2, AllSequences
<1>4. CASE ts = <<>>
  <2>1. <<>> \in Seq(D) /\ Blank \in D /\ Append(<<>>, Blank) = <<Blank>>
    BY CodecConstants
  <2>2. Split(<<Blank>>) = Split(<<>>) \o <<>>
    BY <2>1, SplitMore DEF SplitPart
  <2>3. Split(<<>>) = <<>> /\ <<>> \o <<>> = <<>>
    BY FlatNothing, EmptySeq, ConcatEmptySeq DEF Split
  <2> QED
    BY <1>4, <2>2, <2>3 DEF Joined
<1>5. CASE ts # <<>>
  BY <1>3, <1>5 DEF Joined
<1> QED
  BY <1>4, <1>5

\* The parts of a text have a comma put between them again.
LEMMA JoinedParts ==
    ASSUME NEW t \in Text
    PROVE  Joined(Parts(t)) = t
<1> DEFINE D == DOMAIN Numeral
           f == [y \in D |-> <<y>>]
           T == {u \in Seq(D) : FlattenSeq(Parts(u)) = u}
<1>1. f \in Maps(D, Seq(D)) /\ \A y \in D : f[y] = <<y>>
  BY DEF Maps
<1> HIDE DEF f
<1>2. ASSUME NEW u \in Seq(D) PROVE Parts(u) = Map(f, u)
  <2>1. \A i \in DOMAIN u : u[i] \in D
    OBVIOUS
  <2> QED
    BY <1>1, <2>1 DEF Parts, Map
<1>3. <<>> \in T
  <2>1. Parts(<<>>) = <<>>
    BY DEF Parts
  <2> QED
    BY <2>1, FlatNothing, EmptySeq
<1>4. ASSUME NEW u \in T, NEW x \in D PROVE Append(u, x) \in T
  <2>1. u \in Seq(D) /\ FlattenSeq(Parts(u)) = u
    OBVIOUS
  <2>2. Append(u, x) \in Seq(D) /\ u \o <<x>> = Append(u, x) /\ <<x>> \in Seq(D)
    BY <2>1
  <2>3. Map(f, u) \in Seq(Seq(D)) /\ Map(f, Append(u, x)) = Append(Map(f, u), <<x>>)
    BY <1>1, <2>1, MapMore
  <2>4. FlattenSeq(Append(Map(f, u), <<x>>)) = FlattenSeq(Map(f, u)) \o <<x>>
    BY <2>2, <2>3, FlatMore
  <2> QED
    BY <1>2, <2>1, <2>2, <2>3, <2>4
<1>5. T = Seq(D)
  BY <1>3, <1>4, AllSequences
<1>6. Parts(t) # <<>> /\ t \in Seq(D)
  BY DEF Parts, Text
<1> QED
  BY <1>5, <1>6 DEF Joined

LEMMA SplitType ==
    ASSUME NEW t \in Text
    PROVE  Split(t) \in Seq(Single) /\ Split(t) \in Seq(Text)
<1>1. t \in Seq(DOMAIN Numeral) /\ Blank \in DOMAIN Numeral
  BY CodecConstants DEF Text
<1>2. Split(t) \in Seq(Single)
  BY <1>1, SplitMore
<1>3. Single \subseteq Text
  <2>1. \A y \in DOMAIN Numeral : <<y>> \in Text
    BY DEF Text
  <2>2. \A z \in Single : \E y \in DOMAIN Numeral : z = <<y>>
    BY DEF Single
  <2> QED
    BY <2>1, <2>2
<1> QED
  BY <1>2, <1>3

\* The form makes a tunnel of every tunnel.
LEMMA FormType == ASSUME NEW c \in Tunnel PROVE Form(c) \in Tunnel
<1> DEFINE p == IF c.peers = <<>> THEN NoPeer ELSE c.peers[1]
           nets == Joined(p.allowed_ips)
           ka == p.persistent_keepalive
           addresses == Split(Joined(c.address))
           servers == Split(Joined(c.dns))
           networks == Split(IF nets = <<Blank>> THEN <<AllNets>> ELSE nets)
           keepalive == IF ka = None THEN Often ELSE ka
           q == [public_key |-> p.public_key, preshared_key |-> None,
                 endpoint |-> p.endpoint, allowed_ips |-> networks,
                 persistent_keepalive |-> keepalive]
<1>1. /\ c.private_key \in Text /\ c.address \in Seq(Text) /\ c.dns \in Seq(Text)
      /\ c.peers \in Seq(Peer)
  BY DEF Tunnel
<1>2. p \in Peer
  <2>1. NoPeer \in Peer
    BY TextIsText, EmptySeq DEF NoPeer, Peer, Number16
  <2>2. c.peers # <<>> => c.peers[1] \in Peer
    BY <1>1
  <2> QED
    BY <2>1, <2>2
<1> HIDE DEF p
<1>3. p.allowed_ips \in Seq(Text) /\ ka \in Number16
      /\ p.public_key \in Text /\ p.endpoint \in Text
  BY <1>2 DEF Peer
<1>4. addresses \in Seq(Text) /\ servers \in Seq(Text)
  BY <1>1, JoinedType, SplitType
<1>5. networks \in Seq(Text)
  <2>1. <<AllNets>> \in Text
    BY CodecConstants DEF Text
  <2> QED
    BY <1>3, <2>1, JoinedType, SplitType
<1>6. keepalive \in Number16
  BY <1>3, CodecConstants DEF Number16
<1> HIDE DEF addresses, servers, networks, keepalive
<1>7. q \in Peer
  BY <1>3, <1>5, <1>6 DEF Peer
<1> HIDE DEF q
<1>8. <<q>> \in Seq(Peer) /\ None \in Number16
  BY <1>7 DEF Number16
<1>9. Form(c) = [private_key |-> c.private_key, address |-> addresses, dns |-> servers,
                 mtu |-> None, peers |-> <<q>>]
  BY DEF Form, p, q, addresses, servers, networks, keepalive
<1> QED
  BY <1>1, <1>4, <1>8, <1>9 DEF Tunnel

-----------------------------------------------------------------------------

(***************************************************************************)
(* The file holds what serialize_conf writes of a tunnel, and an answer is *)
(* what parse_conf reads of it.                                            *)
(***************************************************************************)
CodecInv ==
    /\ file # NoFile => saved \in Tunnel /\ file = Serialize(saved)
    /\ answer # NoConfig => file # NoFile /\ answer = Parse(file)

LEMMA CodecInit == Init => CodecInv
  BY DEF Init, CodecInv

LEMMA CodecStep == CodecInv /\ [Next]_vars => CodecInv'
<1> SUFFICES ASSUME CodecInv, [Next]_vars PROVE CodecInv'
  OBVIOUS
<1>1. ASSUME NEW c \in Configs, AddTunnel(c) PROVE CodecInv'
  <2>1. c \in Tunnel
    BY CodecConstants
  <2> QED
    BY <1>1, <2>1 DEF AddTunnel, CodecInv
<1>2. ASSUME NEW t \in Texts, ImportTunnel(t) PROVE CodecInv'
  <2>1. Parse(t) \in Tunnel
    BY CodecConstants, ParseType
  <2> QED
    BY <1>2, <2>1 DEF ImportTunnel, CodecInv
<1>3. CASE GetTunnel
  BY <1>3 DEF GetTunnel, CodecInv
<1>4. CASE SaveEdited
  <2>1. answer \in Tunnel
    BY <1>4, RoundTrip DEF SaveEdited, CodecInv
  <2>2. Form(answer) \in Tunnel
    BY <2>1, FormType
  <2> QED
    BY <1>4, <2>2 DEF SaveEdited, CodecInv
<1>5. CASE DeleteTunnel
  BY <1>5 DEF DeleteTunnel, CodecInv
<1>6. CASE UNCHANGED vars
  BY <1>6 DEF vars, CodecInv
<1> QED
  BY <1>1, <1>2, <1>3, <1>4, <1>5, <1>6 DEF Next

THEOREM CodecInvariant == Spec => []CodecInv
  BY CodecInit, CodecStep, PTL DEF Spec

\* Every tunnel a client adds, imports or edits is read back from its file as
\* it was, up to the commas of AllowedIPs (serialize_conf then parse_conf), for
\* any number of addresses, servers and peers and whatever their texts.
THEOREM ReadBackAsSaved == Spec => []ReadsAsSaved
<1>1. CodecInv => ReadsAsSaved
  BY RoundTrip DEF CodecInv, ReadsAsSaved
<1> QED
  BY <1>1, CodecInvariant, PTL

-----------------------------------------------------------------------------

LEMMA OneElement ==
    ASSUME NEW S, NEW a \in Seq(S), Len(a) = 1
    PROVE  a[1] \in S /\ a = <<a[1]>>
<1>1. a[1] \in S
  OBVIOUS
<1>2. <<a[1]>> \in Seq(S)
  BY <1>1
<1> QED
  BY <1>1, <1>2, SeqEqual

LEMMA SeqOfElements ==
    ASSUME NEW S, NEW R, NEW a \in Seq(S), \A i \in 1..Len(a) : a[i] \in R
    PROVE  a \in Seq(R)
  OBVIOUS

LEMMA OtherServers ==
    ASSUME NEW c \in Tunnel, NEW servers
    PROVE  [c EXCEPT !.dns = servers]
             = [private_key |-> c.private_key, address |-> c.address, dns |-> servers,
                mtu |-> c.mtu, peers |-> c.peers]
  BY DEF Tunnel

\* For a tunnel as it is read of its file that the form can show entirely, the
\* form makes the same tunnel again, the DNS servers each in an entry of its own.
LEMMA FormOfShown ==
    ASSUME NEW s \in Tunnel, NEW c \in Tunnel, c = Normal(s), Shown(c)
    PROVE  Normal(Form(c)) = [c EXCEPT !.dns = Split(Joined(c.dns))]
<1> DEFINE p == c.peers[1]
           t == Joined(s.peers[1].allowed_ips)
<1>1. /\ s.peers \in Seq(Peer) /\ c.peers = NormalPeers(s.peers)
      /\ c.peers \in Seq(Peer) /\ Len(c.peers) = 1
      /\ c.address \in Seq(Text) /\ c.dns \in Seq(Text)
  BY DEF Tunnel, Normal, NormalPeers, NormalPeer, Shown
<1>2. Len(s.peers) = 1
  <2> DEFINE a == s.peers
             b == c.peers
  <2>1. DOMAIN b = DOMAIN a
    BY <1>1 DEF NormalPeers
  <2>2. a \in Seq(Peer) /\ b \in Seq(Peer) /\ Len(b) = 1
    BY <1>1
  <2> HIDE DEF a, b
  <2>3. DOMAIN a = 1..Len(a) /\ DOMAIN b = 1..1 /\ Len(a) \in Nat
    BY <2>2
  <2>4. Len(a) = 1
    <3>1. 1 \in 1..Len(a) /\ Len(a) \in 1..Len(a)
      BY <2>1, <2>3
    <3>2. \A i \in 1..Len(a) : i \in 1..1
      BY <2>1, <2>3
    <3> QED
      BY <2>3, <3>1, <3>2
  <2> QED
    BY <2>4 DEF a
<1>3. s.peers[1] \in Peer /\ p = NormalPeer(s.peers[1]) /\ p \in Peer /\ c.peers # <<>>
  BY <1>1, <1>2 DEF NormalPeers
<1>4. t \in Text /\ p.allowed_ips = Parts(t)
  BY <1>3, JoinedType DEF NormalPeer, Peer
<1>5. c.peers = <<p>>
  BY <1>1
<1>6. /\ c.mtu = None /\ p.preshared_key = None /\ p.persistent_keepalive # None
      /\ \A i \in DOMAIN p.allowed_ips : p.allowed_ips[i] # <<Blank>>
      /\ \A i \in DOMAIN c.address : Len(c.address[i]) = 1 /\ c.address[i] # <<Blank>>
  BY DEF Shown
<1> HIDE DEF p, t
<1>7. Split(Joined(c.address)) = c.address
  <2>1. ASSUME NEW i \in 1..Len(c.address) PROVE c.address[i] \in Single
    <3> DEFINE a == c.address[i]
    <3>1. a \in Text /\ Len(a) = 1 /\ a # <<Blank>>
      BY <1>1, <1>6
    <3> HIDE DEF a
    <3>2. a \in Seq(DOMAIN Numeral)
      BY <3>1 DEF Text
    <3>3. a[1] \in DOMAIN Numeral /\ a = <<a[1]>>
      BY <3>1, <3>2, OneElement
    <3>4. a[1] # Blank
      BY <3>1, <3>3
    <3> QED
      BY <3>3, <3>4 DEF a, Single
  <2>2. c.address \in Seq(Single)
    BY <1>1, <2>1, SeqOfElements
  <2> QED
    BY <2>2, SplitJoined
<1>8. Joined(Parts(t)) = t
  BY <1>4, JoinedParts
<1>9. \A i \in 1..Len(t) : t[i] \in DOMAIN Numeral /\ t[i] # Blank
  <2>1. t \in Seq(DOMAIN Numeral)
    BY <1>4 DEF Text
  <2>2. \A i \in 1..Len(t) : i \in DOMAIN Parts(t) /\ Parts(t)[i] = <<t[i]>>
    BY <2>1 DEF Parts
  <2>3. \A i \in 1..Len(t) : <<t[i]>> # <<Blank>>
    BY <1>4, <1>6, <2>2
  <2>4. \A i \in 1..Len(t) : t[i] \in DOMAIN Numeral
    BY <2>1
  <2> QED
    BY <2>3, <2>4
<1>10. Split(t) = Parts(t)
  <2>1. t \in Seq(DOMAIN Numeral)
    BY <1>4 DEF Text
  <2>2. \A i \in 1..Len(t) : <<t[i]>> \in Single
    BY <1>9 DEF Single
  <2>3. Parts(t) \in Seq(Single)
    BY <2>1, <2>2 DEF Parts
  <2> QED
    BY <1>8, <2>3, SplitJoined
<1>11. t # <<Blank>>
  BY <1>9
<1>12. Form(c) = [c EXCEPT !.dns = Split(Joined(c.dns))]
  <2> DEFINE q == [public_key |-> p.public_key, preshared_key |-> None,
                   endpoint |-> p.endpoint, allowed_ips |-> Parts(t),
                   persistent_keepalive |-> p.persistent_keepalive]
  <2>1. q = p
    BY <1>3, <1>4, <1>6 DEF Peer
  <2>2. Form(c) = [private_key |-> c.private_key, address |-> c.address,
                   dns |-> Split(Joined(c.dns)), mtu |-> None, peers |-> <<q>>]
    BY <1>3, <1>4, <1>6, <1>7, <1>8, <1>10, <1>11 DEF Form, p
  <2> HIDE DEF q
  <2>3. <<q>> = c.peers
    BY <1>5, <2>1
  <2> DEFINE servers == Split(Joined(c.dns))
  <2> HIDE DEF servers
  <2>4. Form(c) = [private_key |-> c.private_key, address |-> c.address, dns |-> servers,
                   mtu |-> c.mtu, peers |-> c.peers]
    BY <1>6, <2>2, <2>3 DEF servers
  <2>5. Form(c) = [c EXCEPT !.dns = servers]
    BY <2>4, OtherServers
  <2> QED
    BY <2>5 DEF servers
<1>13. NormalPeers(c.peers) = c.peers
  <2>1. NormalPeer(p) = p
    BY <1>3, <1>4, <1>8 DEF NormalPeer, Peer
  <2>2. NormalPeers(<<p>>) = <<NormalPeer(p)>>
    BY DEF NormalPeers
  <2> QED
    BY <1>5, <2>1, <2>2
<1> DEFINE f == [c EXCEPT !.dns = Split(Joined(c.dns))]
<1>14. f.peers = c.peers
  BY DEF Tunnel
<1>15. Normal(f) = [f EXCEPT !.peers = NormalPeers(f.peers)]
  BY DEF Normal, NormalPeers, NormalPeer
<1> QED
  BY <1>12, <1>13, <1>14, <1>15 DEF Tunnel

\* Saving the edit form as it was opened changes nothing that connect uses
\* (TunnelEditor, serialize_conf, parse_conf, connect_inner), for every tunnel
\* that the form can show.
THEOREM EditKeepsWhatItShows == Spec => EditKeepsShown
<1>1. ASSUME CodecInv, SaveEdited, Shown(Parse(file))
      PROVE  ToWg(Parse(file')) = ToWg(Parse(file))
  <2> DEFINE c == Parse(file)
             f == [c EXCEPT !.dns = Split(Joined(c.dns))]
  <2>1. /\ saved \in Tunnel /\ file = Serialize(saved) /\ answer = c
        /\ file' = Serialize(Form(c))
    BY <1>1 DEF CodecInv, SaveEdited
  <2>2. c = Normal(saved) /\ c \in Tunnel
    BY <2>1, RoundTrip
  <2> HIDE DEF c
  <2>3. Parse(file') = Normal(Form(c))
    BY <2>1, <2>2, FormType, RoundTrip
  <2>4. Normal(Form(c)) = f
    BY <1>1, <2>1, <2>2, FormOfShown DEF c
  <2>5. Split(Joined(Split(Joined(c.dns)))) = Split(Joined(c.dns))
    BY <2>2, JoinedType, SplitType, SplitJoined DEF Tunnel
  <2>6. /\ f.private_key = c.private_key /\ f.address = c.address /\ f.mtu = c.mtu
        /\ f.peers = c.peers /\ f.dns = Split(Joined(c.dns))
    BY <2>2 DEF Tunnel
  <2> HIDE DEF f
  <2>7. ToWg(f) = ToWg(c)
    BY <2>5, <2>6 DEF ToWg
  <2> QED
    BY <2>3, <2>4, <2>7 DEF c
<1>2. CodecInv /\ [Next]_vars =>
        [SaveEdited /\ Shown(Parse(file)) => ToWg(Parse(file')) = ToWg(Parse(file))]_vars
  BY <1>1
<1> QED
  BY <1>2, CodecInvariant, PTL DEF Spec, EditKeepsShown

-----------------------------------------------------------------------------

(***************************************************************************)
(* What a text declares, one line after the other.                         *)
(***************************************************************************)
LEMMA MaxOf ==
    ASSUME NEW n \in Nat, NEW S \in SUBSET (0..n), S # {}
    PROVE  Max(S) \in S /\ \A y \in S : y <= Max(S)
<1> DEFINE T == {k \in Nat : \A R \in SUBSET (0..k) :
                               R # {} => \E x \in R : \A y \in R : x >= y}
<1>1. 0 \in T
  <2>1. SUFFICES ASSUME NEW R \in SUBSET (0..0), R # {}
                 PROVE  \E x \in R : \A y \in R : x >= y
    OBVIOUS
  <2>2. PICK x \in R : TRUE
    BY <2>1
  <2>3. \A y \in R : y = 0
    OBVIOUS
  <2> QED
    BY <2>2, <2>3
<1>2. ASSUME NEW k \in T PROVE k + 1 \in T
  <2>1. SUFFICES ASSUME NEW R \in SUBSET (0..k + 1), R # {}
                 PROVE  \E x \in R : \A y \in R : x >= y
    OBVIOUS
  <2>2. CASE k + 1 \in R
    BY <2>2
  <2>3. CASE k + 1 \notin R
    <3>1. R \in SUBSET (0..k)
      BY <2>3
    <3> QED
      BY <2>1, <3>1
  <2> QED
    BY <2>2, <2>3
<1>3. T = Nat
  BY <1>1, <1>2, AllNumbers
<1>4. \E x \in S : \A y \in S : x >= y
  BY <1>3
<1>5. Max(S) \in S /\ \A y \in S : Max(S) >= y
  BY <1>4 DEF Max
<1>6. \A y \in S : y \in 0..n
  OBVIOUS
<1> QED
  BY <1>5, <1>6

Headers == {"[Interface]", "[Peer]"}

LEMMA SectionBefore ==
    ASSUME NEW t, NEW i \in Nat
    PROVE  /\ Section(t, i) \in 0..i
           /\ Section(t, i) # 0 => t[Section(t, i)].key \in Headers
<1> DEFINE S == {0} \union {j \in 1..i : t[j].key \in Headers}
<1>1. S \in SUBSET (0..i) /\ S # {}
  OBVIOUS
<1>2. Section(t, i) = Max(S)
  BY DEF Section, Headers
<1> HIDE DEF S
<1>3. Max(S) \in S
  BY <1>1, MaxOf
<1>4. \A j \in S : j \in 0..i /\ (j # 0 => t[j].key \in Headers)
  BY DEF S
<1> QED
  BY <1>2, <1>3, <1>4

(***************************************************************************)
(* The text t and the line l after it, at m, which make the text u.        *)
(***************************************************************************)
More(t, l, m, u) ==
    t \in Seq(TextLine) /\ l \in TextLine /\ m = Len(t) + 1 /\ u = Append(t, l)

LEMMA SectionsMore ==
    ASSUME NEW t, NEW l, NEW m, NEW u, More(t, l, m, u)
    PROVE  /\ m \in Nat \ {0} /\ DOMAIN t = 1..m - 1 /\ DOMAIN u = 1..m
           /\ u \in Seq(TextLine) /\ u[m] = l /\ \A i \in 1..m - 1 : u[i] = t[i]
           /\ \A i \in 0..m - 1 : /\ Section(u, i) = Section(t, i)
                                  /\ InPeer(u, i) = InPeer(t, i)
           /\ l.key \in Headers => Section(u, m) = m
           /\ l.key \notin Headers => /\ Section(u, m) = Section(t, m - 1)
                                      /\ InPeer(u, m) = InPeer(t, m - 1)
<1>1. /\ m \in Nat \ {0} /\ m - 1 \in Nat /\ DOMAIN t = 1..m - 1 /\ DOMAIN u = 1..m
      /\ u \in Seq(TextLine) /\ u[m] = l /\ \A i \in 1..m - 1 : u[i] = t[i]
  BY DEF More
<1>2. ASSUME NEW i \in 0..m - 1
      PROVE  Section(u, i) = Section(t, i) /\ InPeer(u, i) = InPeer(t, i)
  <2>1. \A j \in 1..i : j \in 1..m - 1
    BY <1>1
  <2>2. {j \in 1..i : u[j].key \in {"[Interface]", "[Peer]"}}
          = {j \in 1..i : t[j].key \in {"[Interface]", "[Peer]"}}
    BY <1>1, <2>1
  <2>3. Section(u, i) = Section(t, i)
    BY <2>2 DEF Section
  <2>4. i \in Nat /\ Section(t, i) \in 0..i
    BY <1>1, SectionBefore
  <2>5. Section(t, i) # 0 => u[Section(t, i)] = t[Section(t, i)]
    BY <1>1, <2>4
  <2> QED
    BY <2>3, <2>5 DEF InPeer
<1>3. ASSUME l.key \in Headers PROVE Section(u, m) = m
  <2> DEFINE S == {0} \union {j \in 1..m : u[j].key \in Headers}
  <2>1. S \in SUBSET (0..m) /\ m \in S
    BY <1>1, <1>3
  <2>2. Section(u, m) = Max(S)
    BY DEF Section, Headers
  <2> HIDE DEF S
  <2>3. Max(S) \in S /\ \A y \in S : y <= Max(S)
    BY <1>1, <2>1, MaxOf
  <2>4. Max(S) \in 0..m /\ m <= Max(S)
    BY <2>1, <2>3
  <2> QED
    BY <1>1, <2>2, <2>4
<1>4. ASSUME l.key \notin Headers
      PROVE  Section(u, m) = Section(t, m - 1) /\ InPeer(u, m) = InPeer(t, m - 1)
  <2>1. {j \in 1..m : u[j].key \in {"[Interface]", "[Peer]"}}
          = {j \in 1..m - 1 : t[j].key \in {"[Interface]", "[Peer]"}}
    <3>1. \A j \in 1..m : j = m \/ j \in 1..m - 1
      BY <1>1
    <3>2. \A j \in 1..m - 1 : j \in 1..m
      BY <1>1
    <3> QED
      BY <1>1, <1>4, <3>1, <3>2 DEF Headers
  <2>2. Section(u, m) = Section(t, m - 1)
    BY <2>1 DEF Section
  <2>3. Section(t, m - 1) \in 0..m - 1
    BY <1>1, SectionBefore
  <2>4. Section(t, m - 1) # 0 => u[Section(t, m - 1)] = t[Section(t, m - 1)]
    BY <1>1, <2>3
  <2> QED
    BY <2>2, <2>4 DEF InPeer
<1> QED
  BY <1>1, <1>2, <1>3, <1>4

\* The last value of some lines of t, and of these lines with the new one.
LEMMA LastMore ==
    ASSUME NEW t, NEW l, NEW m, NEW u, More(t, l, m, u), NEW S \in SUBSET (1..m - 1), NEW default
    PROVE  /\ LastAt(u, S, default) = LastAt(t, S, default)
           /\ LastAt(u, S \union {m}, default) = l.value
<1>1. /\ m \in Nat /\ m - 1 \in Nat /\ u[m] = l /\ \A i \in 1..m - 1 : u[i] = t[i]
  BY DEF More
<1>2. LastAt(u, S, default) = LastAt(t, S, default)
  <2>1. CASE S = {}
    BY <2>1 DEF LastAt
  <2>2. CASE S # {}
    <3>1. S \in SUBSET (0..m - 1)
      BY <1>1
    <3>2. Max(S) \in S
      BY <1>1, <2>2, <3>1, MaxOf
    <3> QED
      BY <1>1, <2>2, <3>2 DEF LastAt
  <2> QED
    BY <2>1, <2>2
<1>3. LastAt(u, S \union {m}, default) = l.value
  <2> DEFINE R == S \union {m}
  <2>1. R \in SUBSET (0..m) /\ m \in R
    <3>1. \A y \in S : y \in 1..m - 1
      OBVIOUS
    <3>2. \A y \in R : y \in 0..m
      BY <1>1, <3>1
    <3> QED
      BY <3>2
  <2> HIDE DEF R
  <2>2. Max(R) \in R /\ \A y \in R : y <= Max(R)
    BY <1>1, <2>1, MaxOf
  <2>3. Max(R) = m
    <3>1. Max(R) \in 0..m /\ m <= Max(R)
      BY <2>1, <2>2
    <3> QED
      BY <1>1, <3>1
  <2> QED
    BY <1>1, <2>1, <2>3 DEF LastAt, R
<1> QED
  BY <1>2, <1>3

LEMMA LastType ==
    ASSUME NEW t \in Seq(TextLine), NEW S \in SUBSET (DOMAIN t), NEW default
    PROVE  LastAt(t, S, default) \in Text \union {default}
<1>1. CASE S = {}
  BY <1>1 DEF LastAt
<1>2. CASE S # {}
  <2>1. Len(t) \in Nat /\ S \in SUBSET (0..Len(t)) /\ S \subseteq 1..Len(t)
    OBVIOUS
  <2>2. Max(S) \in 1..Len(t)
    BY <1>2, <2>1, MaxOf
  <2>3. t[Max(S)] \in TextLine
    BY <2>2
  <2> QED
    BY <1>2, <2>3 DEF LastAt, TextLine
<1> QED
  BY <1>1, <1>2

\* A sequence with one more element.
LEMMA OneMore ==
    ASSUME NEW R, NEW a \in Seq(R), NEW e \in R, NEW b \in Seq(R), NEW n, n = Len(a),
           Len(b) = n + 1, b[n + 1] = e, \A i \in 1..n : b[i] = a[i]
    PROVE  b = Append(a, e)
<1> DEFINE c == Append(a, e)
<1>1. /\ n \in Nat /\ c \in Seq(R) /\ Len(c) = n + 1 /\ c[n + 1] = e
      /\ \A i \in 1..n : c[i] = a[i]
  OBVIOUS
<1>2. \A i \in 1..n + 1 : i \in 1..n \/ i = n + 1
  BY <1>1
<1> HIDE DEF c
<1>3. \A i \in 1..n + 1 : b[i] = c[i]
  BY <1>1, <1>2
<1>4. b = c
  BY <1>1, <1>3, SeqEqual
<1> QED
  BY <1>4 DEF c

\* Append, under a name that keeps the provers from looking into it.
Longer(s, e) == Append(s, e)

\* The values of some lines of t, and of these lines with the new one.
LEMMA ValuesMore ==
    ASSUME NEW t, NEW l, NEW m, NEW u, More(t, l, m, u), NEW S \in SUBSET (1..m - 1)
    PROVE  /\ ValuesAt(u, S) = ValuesAt(t, S)
           /\ ValuesAt(u, S \union {m}) = Longer(ValuesAt(t, S), l.value)
<1> DEFINE n == Len(t)
           a == [i \in 1..n |-> IF i \in S THEN <<t[i].value>> ELSE <<>>]
           b == [i \in 1..n + 1 |-> IF i \in S THEN <<u[i].value>> ELSE <<>>]
           c == [i \in 1..n + 1 |-> IF i \in S \union {m} THEN <<u[i].value>> ELSE <<>>]
<1>1. /\ n \in Nat /\ m = n + 1 /\ m \notin S /\ u[m] = l /\ \A i \in 1..n : u[i] = t[i]
      /\ DOMAIN t = 1..n /\ DOMAIN u = 1..n + 1
  BY DEF More
<1>2. /\ ValuesAt(t, S) = FlattenSeq(a) /\ ValuesAt(u, S) = FlattenSeq(b)
      /\ ValuesAt(u, S \union {m}) = FlattenSeq(c)
  BY <1>1 DEF ValuesAt
<1>3. a \in Seq(Seq(Text)) /\ Len(a) = n
  <2>0. \A i \in 1..n : t[i] \in TextLine
    BY DEF More
  <2>1. \A i \in 1..n : t[i].value \in Text
    BY <2>0 DEF TextLine
  <2>2. \A v \in Text : <<v>> \in Seq(Text)
    OBVIOUS
  <2> QED
    BY <1>1, <2>1, <2>2, EmptySeq
<1>4. l.value \in Text /\ <<l.value>> \in Seq(Text) /\ <<>> \in Seq(Text)
  BY DEF More, TextLine
<1>5. /\ b[n + 1] = <<>> /\ c[n + 1] = <<l.value>>
      /\ \A i \in 1..n : b[i] = a[i] /\ c[i] = a[i]
  BY <1>1
<1>6. b \in Seq(Seq(Text)) /\ Len(b) = n + 1 /\ c \in Seq(Seq(Text)) /\ Len(c) = n + 1
  <2>1. \A i \in 1..n + 1 : i \in 1..n \/ i = n + 1
    BY <1>1
  <2>2. \A i \in 1..n : a[i] \in Seq(Text)
    BY <1>3
  <2> HIDE DEF a
  <2>3. \A i \in 1..n + 1 : b[i] \in Seq(Text) /\ c[i] \in Seq(Text)
    <3> HIDE DEF b, c
    <3> QED
      BY <1>4, <1>5, <2>1, <2>2
  <2> QED
    BY <1>1, <2>3
<1> HIDE DEF a, b, c, n
<1>7. b = Append(a, <<>>) /\ c = Append(a, <<l.value>>)
  <2> DEFINE R == Seq(Text)
             e == <<l.value>>
  <2>1. /\ a \in Seq(R) /\ e \in R /\ <<>> \in R /\ n = Len(a) /\ c[n + 1] = e
        /\ b \in Seq(R) /\ c \in Seq(R)
    BY <1>3, <1>4, <1>5, <1>6
  <2> HIDE DEF R, e
  <2>2. b = Append(a, <<>>)
    BY <1>5, <1>6, <2>1, OneMore
  <2>3. c = Append(a, e)
    BY <1>5, <1>6, <2>1, OneMore
  <2> QED
    BY <2>2, <2>3 DEF e
<1>8. FlattenSeq(b) = FlattenSeq(a) \o <<>> /\ FlattenSeq(c) = FlattenSeq(a) \o <<l.value>>
  BY <1>3, <1>4, <1>7, FlatMore
<1>9. FlattenSeq(a) \in Seq(Text)
  BY <1>3, FlatType
<1> DEFINE v == FlattenSeq(a)
           e == l.value
<1>10. v \in Seq(Text) /\ e \in Text
  BY <1>4, <1>9
<1> HIDE DEF v, e
<1>11. v \o <<>> = v /\ v \o <<e>> = Append(v, e)
  BY <1>10, ConcatEmptySeq
<1> QED
  BY <1>2, <1>8, <1>11 DEF v, e, Longer

\* The lines of a key in the interface's sections, and in the section of a peer.
LEMMA LinesMore ==
    ASSUME NEW t, NEW l, NEW m, NEW u, More(t, l, m, u), NEW key, NEW h
    PROVE  /\ OfInterface(t, key) \in SUBSET (1..m - 1)
           /\ OfPeer(t, h, key) \in SUBSET (1..m - 1)
           /\ OfInterface(u, key) = IF l.key = key /\ ~InPeer(u, m)
                                    THEN OfInterface(t, key) \union {m}
                                    ELSE OfInterface(t, key)
           /\ OfPeer(u, h, key) = IF l.key = key /\ Section(u, m) = h
                                  THEN OfPeer(t, h, key) \union {m}
                                  ELSE OfPeer(t, h, key)
<1>1. /\ m \in Nat \ {0} /\ DOMAIN t = 1..m - 1 /\ DOMAIN u = 1..m /\ u[m] = l
      /\ \A i \in 1..m - 1 : u[i] = t[i]
      /\ \A i \in 0..m - 1 : Section(u, i) = Section(t, i) /\ InPeer(u, i) = InPeer(t, i)
  BY SectionsMore
<1>2. /\ \A i \in 1..m : i \in 1..m - 1 \/ i = m
      /\ \A i \in 1..m - 1 : i \in 1..m /\ i \in 0..m - 1 /\ i # m
      /\ m \in 1..m
  BY <1>1
<1>3. \A i \in 1..m - 1 : /\ u[i].key = t[i].key
                          /\ Section(u, i) = Section(t, i) /\ InPeer(u, i) = InPeer(t, i)
  BY <1>1, <1>2
<1>4. OfInterface(t, key) \in SUBSET (1..m - 1) /\ OfPeer(t, h, key) \in SUBSET (1..m - 1)
  BY <1>1 DEF OfInterface, OfPeer
<1>5. OfInterface(u, key) = IF l.key = key /\ ~InPeer(u, m)
                           THEN OfInterface(t, key) \union {m} ELSE OfInterface(t, key)
  BY <1>1, <1>2, <1>3 DEF OfInterface
<1>6. OfPeer(u, h, key) = IF l.key = key /\ Section(u, m) = h
                         THEN OfPeer(t, h, key) \union {m} ELSE OfPeer(t, h, key)
  BY <1>1, <1>2, <1>3 DEF OfPeer
<1> QED
  BY <1>4, <1>5, <1>6

LEMMA InterfaceMore ==
    ASSUME NEW t, NEW l, NEW m, NEW u, More(t, l, m, u), NEW key, NEW default
    PROVE  /\ LastAt(u, OfInterface(u, key), default)
                = IF l.key = key /\ ~InPeer(u, m) THEN l.value
                  ELSE LastAt(t, OfInterface(t, key), default)
           /\ ValuesAt(u, OfInterface(u, key))
                = IF l.key = key /\ ~InPeer(u, m)
                  THEN Longer(ValuesAt(t, OfInterface(t, key)), l.value)
                  ELSE ValuesAt(t, OfInterface(t, key))
<1> DEFINE S == OfInterface(t, key)
<1>1. /\ S \in SUBSET (1..m - 1)
      /\ OfInterface(u, key) = IF l.key = key /\ ~InPeer(u, m) THEN S \union {m} ELSE S
  BY LinesMore
<1> HIDE DEF S
<1>2. /\ LastAt(u, S, default) = LastAt(t, S, default)
      /\ LastAt(u, S \union {m}, default) = l.value
  BY <1>1, LastMore
<1>3. /\ ValuesAt(u, S) = ValuesAt(t, S)
      /\ ValuesAt(u, S \union {m}) = Longer(ValuesAt(t, S), l.value)
  BY <1>1, ValuesMore
<1> QED
  BY <1>1, <1>2, <1>3 DEF S

LEMMA PeerMore ==
    ASSUME NEW t, NEW l, NEW m, NEW u, More(t, l, m, u), NEW key, NEW h, NEW default
    PROVE  LastAt(u, OfPeer(u, h, key), default)
             = IF l.key = key /\ Section(u, m) = h THEN l.value
               ELSE LastAt(t, OfPeer(t, h, key), default)
<1> DEFINE S == OfPeer(t, h, key)
<1>1. /\ S \in SUBSET (1..m - 1)
      /\ OfPeer(u, h, key) = IF l.key = key /\ Section(u, m) = h THEN S \union {m} ELSE S
  BY LinesMore
<1> HIDE DEF S
<1>2. /\ LastAt(u, S, default) = LastAt(t, S, default)
      /\ LastAt(u, S \union {m}, default) = l.value
  BY <1>1, LastMore
<1> QED
  BY <1>1, <1>2 DEF S

LEMMA PeerAtType ==
    ASSUME NEW t \in Seq(TextLine), NEW h
    PROVE  PeerAt(t, h) \in Peer
<1> DEFINE Of(key, default) == LastAt(t, OfPeer(t, h, key), default)
<1>1. \A key, default : OfPeer(t, h, key) \in SUBSET (DOMAIN t)
  BY DEF OfPeer
<1>2. \A key, default : Of(key, default) \in Text \union {default}
  BY <1>1, LastType
<1> HIDE DEF Of
<1>3. /\ Of("PublicKey", <<Blank>>) \in Text /\ Of("Endpoint", <<Blank>>) \in Text
      /\ Of("PresharedKey", None) \in Text \union {None}
      /\ Of("PersistentKeepalive", <<Blank>>) \in Text
  BY <1>2, TextIsText
<1>4. Parts(Of("AllowedIPs", <<>>)) \in Seq(Text)
  <2>1. Parts(<<>>) = <<>>
    BY DEF Parts
  <2> QED
    BY <1>2, <2>1, PartsType, EmptySeq
<1>5. Number(Of("PersistentKeepalive", <<Blank>>)) \in Number16
  BY <1>3, NumberType
<1>6. PeerAt(t, h) = [public_key |-> Of("PublicKey", <<Blank>>),
                      preshared_key |-> Of("PresharedKey", None),
                      endpoint |-> Of("Endpoint", <<Blank>>),
                      allowed_ips |-> Parts(Of("AllowedIPs", <<>>)),
                      persistent_keepalive |-> Number(Of("PersistentKeepalive", <<Blank>>))]
  BY DEF PeerAt, Of
<1> QED
  BY <1>3, <1>4, <1>5, <1>6 DEF Peer

\* What the peers declare, with the new line.
LEMMA PeerAtMore ==
    ASSUME NEW t, NEW l, NEW m, NEW u, More(t, l, m, u), NEW h
    PROVE  /\ l.key \in Headers \/ Section(u, m) # h => PeerAt(u, h) = PeerAt(t, h)
           /\ l.key \notin Headers /\ Section(u, m) = h =>
                  PeerAt(u, h) = PeerLine(PeerAt(t, h), l)
           /\ l.key = "[Peer]" => PeerAt(u, m) = NoPeer
<1>1. \A key, default : LastAt(u, OfPeer(u, h, key), default)
             = IF l.key = key /\ Section(u, m) = h THEN l.value
               ELSE LastAt(t, OfPeer(t, h, key), default)
  BY PeerMore
<1>2. ASSUME l.key \in Headers \/ Section(u, m) # h
      PROVE  PeerAt(u, h) = PeerAt(t, h)
  BY <1>1, <1>2 DEF PeerAt, Headers
<1>3. ASSUME l.key \notin Headers, Section(u, m) = h
      PROVE  PeerAt(u, h) = PeerLine(PeerAt(t, h), l)
  BY <1>1, <1>3 DEF PeerAt, PeerLine
<1>4. ASSUME l.key = "[Peer]" PROVE PeerAt(u, m) = NoPeer
  <2>1. \A key \in FileKeys \ Headers : OfPeer(u, m, key) = {}
    <3>1. /\ m \in Nat /\ DOMAIN u = 1..m /\ u[m] = l
          /\ \A i \in 0..m - 1 : Section(u, i) = Section(t, i)
      BY SectionsMore
    <3>2. \A i \in 0..m - 1 : Section(u, i) # m
      BY <3>1, SectionBefore
    <3>3. \A i \in 1..m : i = m \/ i \in 0..m - 1
      BY <3>1
    <3> QED
      BY <1>4, <3>1, <3>2, <3>3 DEF OfPeer, Headers
  <2>2. \A key \in FileKeys \ Headers : \A default : LastAt(u, OfPeer(u, m, key), default) = default
    BY <2>1 DEF LastAt
  <2>3. Parts(<<>>) = <<>> /\ Number(<<Blank>>) = None
    BY CodecConstants DEF Parts, Number
  <2>4. {"PublicKey", "PresharedKey", "Endpoint", "AllowedIPs", "PersistentKeepalive"}
          \subseteq FileKeys \ Headers
    BY DEF FileKeys, Headers
  <2> QED
    BY <2>2, <2>3, <2>4 DEF PeerAt, NoPeer
<1> QED
  BY <1>2, <1>3, <1>4

(***************************************************************************)
(* The peers that the first k lines of t begin.                            *)
(***************************************************************************)
PeerOf(t, h) == IF t[h].key = "[Peer]" THEN <<PeerAt(t, h)>> ELSE <<>>
PeersUpTo(t, k) == FlattenSeq([h \in 1..k |-> PeerOf(t, h)])

LEMMA PeersNext ==
    ASSUME NEW t \in Seq(TextLine), NEW k \in Nat
    PROVE  /\ PeersUpTo(t, k) \in Seq(Peer)
           /\ PeersUpTo(t, k + 1) = PeersUpTo(t, k) \o PeerOf(t, k + 1)
<1> DEFINE a == [h \in 1..k |-> PeerOf(t, h)]
           b == [h \in 1..k + 1 |-> PeerOf(t, h)]
           R == Seq(Peer)
           e == PeerOf(t, k + 1)
<1>1. \A h : PeerOf(t, h) \in R
  <2>1. \A h : PeerAt(t, h) \in Peer
    BY PeerAtType
  <2>2. \A p \in Peer : <<p>> \in Seq(Peer)
    OBVIOUS
  <2> QED
    BY <2>1, <2>2, EmptySeq DEF PeerOf
<1> HIDE DEF R
<1>2. /\ a \in Seq(R) /\ k = Len(a) /\ b \in Seq(R) /\ Len(b) = k + 1 /\ e \in R
      /\ b[k + 1] = e /\ \A i \in 1..k : b[i] = a[i]
  BY <1>1
<1> HIDE DEF a, b
<1>3. b = Append(a, e)
  BY <1>2, OneMore
<1>4. FlattenSeq(a) \in Seq(Peer) /\ FlattenSeq(b) = FlattenSeq(a) \o e
  BY <1>2, <1>3, FlatType, FlatMore DEF R
<1> QED
  BY <1>4 DEF a, b, PeersUpTo

\* No line after the last header begins a peer.
LEMMA PeersAfterSection ==
    ASSUME NEW t \in Seq(TextLine), NEW n \in Nat, NEW h, h = Section(t, n)
    PROVE  PeersUpTo(t, n) = PeersUpTo(t, h)
<1> DEFINE T == {k \in Nat : h <= k /\ k <= n => PeersUpTo(t, k) = PeersUpTo(t, h)}
<1>1. h \in 0..n
  BY SectionBefore
<1>2. \A j \in 1..n : j > h => t[j].key # "[Peer]"
  <2> DEFINE S == {0} \union {j \in 1..n : t[j].key \in Headers}
  <2>1. S \in SUBSET (0..n) /\ S # {}
    OBVIOUS
  <2>2. h = Max(S)
    BY DEF Section, Headers
  <2> HIDE DEF S
  <2>3. \A j \in S : j <= h
    BY <2>1, <2>2, MaxOf
  <2>4. ASSUME NEW j \in 1..n, j > h, t[j].key = "[Peer]" PROVE FALSE
    <3>1. j \in S
      BY <2>4 DEF S, Headers
    <3>2. j <= h /\ j \in Nat /\ h \in Nat
      BY <1>1, <2>3, <3>1
    <3> QED
      BY <2>4, <3>2
  <2> QED
    BY <2>4
<1>3. 0 \in T
  BY <1>1
<1>4. ASSUME NEW k \in T PROVE k + 1 \in T
  <2>1. SUFFICES ASSUME h <= k + 1, k + 1 <= n PROVE PeersUpTo(t, k + 1) = PeersUpTo(t, h)
    OBVIOUS
  <2>2. CASE h = k + 1
    BY <2>2
  <2>3. CASE h # k + 1
    <3>1. h <= k /\ k + 1 \in 1..n /\ k + 1 > h /\ k \in Nat
      BY <1>1, <2>1, <2>3
    <3>2. PeersUpTo(t, k) = PeersUpTo(t, h)
      BY <2>1, <3>1
    <3>3. PeerOf(t, k + 1) = <<>>
      BY <1>2, <3>1 DEF PeerOf
    <3> HIDE DEF T
    <3>4. /\ PeersUpTo(t, k) \in Seq(Peer)
          /\ PeersUpTo(t, k + 1) = PeersUpTo(t, k) \o <<>>
      BY <3>1, <3>3, PeersNext
    <3> QED
      BY <3>2, <3>4, ConcatEmptySeq
  <2> QED
    BY <2>2, <2>3
<1>5. T = Nat
  BY <1>3, <1>4, AllNumbers
<1> QED
  BY <1>1, <1>5

(***************************************************************************)
(* After each line, what has been read is what the lines so far declare,   *)
(* the peer whose section it is apart.                                     *)
(***************************************************************************)
InterfaceRead(t, r) ==
    /\ r.private_key = LastAt(t, OfInterface(t, "PrivateKey"), <<Blank>>)
    /\ r.address = ValuesAt(t, OfInterface(t, "Address"))
    /\ r.dns = ValuesAt(t, OfInterface(t, "DNS"))
    /\ r.mtu = Number(LastAt(t, OfInterface(t, "MTU"), <<Blank>>))

PeersRead(t, n, r) ==
    IF InPeer(t, n)
    THEN /\ r.peers = PeersUpTo(t, Section(t, n) - 1)
         /\ r.current = <<PeerAt(t, Section(t, n))>>
    ELSE r.peers = PeersUpTo(t, n) /\ r.current = <<>>

\* With the peer whose section it is, they are all the peers so far.
LEMMA ClosedPeers ==
    ASSUME NEW t \in Seq(TextLine), NEW n \in Nat, NEW r \in ReadState, PeersRead(t, n, r)
    PROVE  Closed(r).peers = PeersUpTo(t, n)
<1>1. Closed(r).peers = r.peers \o r.current /\ r.peers \in Seq(Peer)
  BY ClosedType DEF ReadState
<1>2. CASE InPeer(t, n)
  <2> DEFINE h == Section(t, n)
  <2>1. h \in 0..n /\ h # 0 /\ t[h].key = "[Peer]"
    BY <1>2, SectionBefore DEF InPeer
  <2>2. r.peers = PeersUpTo(t, h - 1) /\ r.current = <<PeerAt(t, h)>>
    BY <1>2 DEF PeersRead
  <2>3. PeersUpTo(t, n) = PeersUpTo(t, h)
    BY PeersAfterSection
  <2> HIDE DEF h
  <2>4. h - 1 \in Nat /\ (h - 1) + 1 = h
    BY <2>1
  <2>5. PeersUpTo(t, h) = PeersUpTo(t, h - 1) \o PeerOf(t, h)
    BY <2>4, PeersNext
  <2>6. PeerOf(t, h) = <<PeerAt(t, h)>>
    BY <2>1 DEF PeerOf
  <2> QED
    BY <1>1, <2>2, <2>3, <2>5, <2>6
<1>3. CASE ~InPeer(t, n)
  <2>1. r.peers = PeersUpTo(t, n) /\ r.current = <<>>
    BY <1>3 DEF PeersRead
  <2> QED
    BY <1>1, <2>1, ConcatEmptySeq
<1> QED
  BY <1>2, <1>3

LEMMA InterfaceReadMore ==
    ASSUME NEW t, NEW l, NEW m, NEW u, More(t, l, m, u), NEW r \in ReadState, NEW q,
           InterfaceRead(t, r),
           q.private_key = IF l.key = "PrivateKey" /\ ~InPeer(u, m) THEN l.value
                           ELSE r.private_key,
           q.address = IF l.key = "Address" /\ ~InPeer(u, m) THEN Longer(r.address, l.value)
                       ELSE r.address,
           q.dns = IF l.key = "DNS" /\ ~InPeer(u, m) THEN Longer(r.dns, l.value) ELSE r.dns,
           q.mtu = IF l.key = "MTU" /\ ~InPeer(u, m) THEN Number(l.value) ELSE r.mtu
    PROVE  InterfaceRead(u, q)
<1>1. \A key, default :
        /\ LastAt(u, OfInterface(u, key), default)
             = IF l.key = key /\ ~InPeer(u, m) THEN l.value
               ELSE LastAt(t, OfInterface(t, key), default)
        /\ ValuesAt(u, OfInterface(u, key))
             = IF l.key = key /\ ~InPeer(u, m)
               THEN Longer(ValuesAt(t, OfInterface(t, key)), l.value)
               ELSE ValuesAt(t, OfInterface(t, key))
  BY InterfaceMore
<1> QED
  BY <1>1 DEF InterfaceRead

\* The lines before m begin the same peers in u as in t, that of the section of
\* m apart, if it goes on.
LEMMA PeersBefore ==
    ASSUME NEW t, NEW l, NEW m, NEW u, More(t, l, m, u), NEW k \in 0..m - 1,
           \/ l.key \in Headers
           \/ ~InPeer(u, m)
           \/ k < Section(u, m)
    PROVE  PeersUpTo(u, k) = PeersUpTo(t, k)
<1>1. /\ m \in Nat \ {0} /\ \A i \in 1..m - 1 : u[i] = t[i]
  BY SectionsMore
<1>2. ASSUME NEW h \in 1..k
      PROVE  /\ u[h].key = t[h].key
             /\ t[h].key = "[Peer]" => PeerAt(u, h) = PeerAt(t, h)
  <2>1. h \in 1..m - 1 /\ u[h] = t[h]
    BY <1>1
  <2>2. ASSUME t[h].key = "[Peer]" PROVE l.key \in Headers \/ Section(u, m) # h
    <3>1. CASE ~InPeer(u, m)
      BY <2>1, <2>2, <3>1 DEF InPeer
    <3>2. CASE k < Section(u, m)
      <4>1. Section(u, m) \in 0..m
        BY <1>1, SectionBefore
      <4> QED
        BY <1>1, <3>2, <4>1
    <3> QED
      BY <3>1, <3>2
  <2> QED
    BY <2>1, <2>2, PeerAtMore
<1>3. ASSUME NEW h \in 1..k PROVE PeerOf(u, h) = PeerOf(t, h)
  BY <1>2 DEF PeerOf
<1>4. [h \in 1..k |-> PeerOf(u, h)] = [h \in 1..k |-> PeerOf(t, h)]
  BY <1>3
<1> QED
  BY <1>4 DEF PeersUpTo

LEMMA ReadsMore ==
    ASSUME NEW t, NEW l, NEW m, NEW u, More(t, l, m, u), NEW r \in ReadState,
           InterfaceRead(t, r), PeersRead(t, m - 1, r)
    PROVE  InterfaceRead(u, ParseLine(r, l)) /\ PeersRead(u, m, ParseLine(r, l))
<1> DEFINE q == ParseLine(r, l)
           n == m - 1
           h == Section(u, m)
<1>1. /\ t \in Seq(TextLine) /\ u \in Seq(TextLine) /\ l \in TextLine /\ m \in Nat \ {0}
      /\ n \in Nat /\ n + 1 = m /\ n \in 0..n /\ u[m] = l
  BY SectionsMore DEF More
<1>2. /\ l.key \in Headers => h = m
      /\ l.key \notin Headers => h = Section(t, n) /\ InPeer(u, m) = InPeer(t, n)
  BY SectionsMore
<1>3. InPeer(u, m) = (h # 0 /\ u[h].key = "[Peer]")
  BY DEF InPeer
<1>4. Closed(r) \in ReadState /\ Closed(r).current = <<>>
      /\ Closed(r).peers = PeersUpTo(t, n)
      /\ Closed(r) = [r EXCEPT !.peers = r.peers \o r.current, !.current = <<>>]
  <2>1. Closed(r) \in ReadState
        /\ Closed(r) = [r EXCEPT !.peers = r.peers \o r.current, !.current = <<>>]
    BY ClosedType
  <2>2. Closed(r).current = <<>>
    BY <2>1 DEF ReadState
  <2> QED
    BY <1>1, <2>1, <2>2, ClosedPeers
<1>5. /\ Closed(r).private_key = r.private_key /\ Closed(r).address = r.address
      /\ Closed(r).dns = r.dns /\ Closed(r).mtu = r.mtu
  BY <1>4 DEF ReadState
<1>6. PeersUpTo(u, m) = PeersUpTo(u, n) \o PeerOf(u, m) /\ PeersUpTo(u, n) \in Seq(Peer)
  BY <1>1, PeersNext
<1> HIDE DEF q, n, h
<1>7. CASE l.key = "[Interface]"
  <2>1. q = Closed(r)
    BY <1>7 DEF q, ParseLine
  <2>2. h = m /\ ~InPeer(u, m)
    BY <1>1, <1>2, <1>3, <1>7 DEF Headers
  <2>3. InterfaceRead(u, q)
    BY <1>5, <1>7, <2>1, InterfaceReadMore
  <2>4. PeersUpTo(u, n) = PeersUpTo(t, n)
    BY <1>1, <1>7, PeersBefore DEF Headers, n
  <2>5. PeerOf(u, m) = <<>>
    BY <1>1, <1>7 DEF PeerOf
  <2>6. PeersUpTo(u, m) = PeersUpTo(u, n)
    BY <1>6, <2>5, ConcatEmptySeq
  <2>7. PeersRead(u, m, q)
    BY <1>4, <2>1, <2>2, <2>4, <2>6 DEF PeersRead
  <2> QED
    BY <2>3, <2>7 DEF q
<1>8. CASE l.key = "[Peer]"
  <2>1. q = [Closed(r) EXCEPT !.current = <<NoPeer>>]
    BY <1>8 DEF q, ParseLine
  <2>2. h = m /\ InPeer(u, m)
    BY <1>1, <1>2, <1>3, <1>8 DEF Headers
  <2>3. /\ q.private_key = r.private_key /\ q.address = r.address /\ q.dns = r.dns
        /\ q.mtu = r.mtu /\ q.peers = PeersUpTo(t, n) /\ q.current = <<NoPeer>>
    BY <1>4, <1>5, <2>1 DEF ReadState
  <2>4. InterfaceRead(u, q)
    BY <2>2, <2>3, InterfaceReadMore
  <2>5. PeersUpTo(u, n) = PeersUpTo(t, n)
    BY <1>1, <1>8, PeersBefore DEF Headers, n
  <2>6. PeerAt(u, m) = NoPeer
    BY <1>8, PeerAtMore
  <2>7. PeersRead(u, m, q)
    BY <2>2, <2>3, <2>5, <2>6 DEF PeersRead, h, n
  <2> QED
    BY <2>4, <2>7 DEF q
<1>9. CASE l.key \notin Headers /\ InPeer(t, n)
  <2>1. h = Section(t, n) /\ InPeer(u, m) /\ h \in 0..n /\ h # 0
    BY <1>1, <1>2, <1>3, <1>9, SectionBefore
  <2>2. r.peers = PeersUpTo(t, h - 1) /\ r.current = <<PeerAt(t, h)>>
    BY <1>9, <2>1 DEF PeersRead, n
  <2>3. r.current # <<>> /\ r.current[1] = PeerAt(t, h)
    BY <2>2
  <2>4. q = [r EXCEPT !.current = <<PeerLine(PeerAt(t, h), l)>>]
    BY <1>9, <2>3 DEF q, ParseLine, Headers, ReadState
  <2>5. /\ q.private_key = r.private_key /\ q.address = r.address /\ q.dns = r.dns
        /\ q.mtu = r.mtu /\ q.peers = r.peers
        /\ q.current = <<PeerLine(PeerAt(t, h), l)>>
    BY <2>4 DEF ReadState
  <2>6. InterfaceRead(u, q)
    BY <2>1, <2>5, InterfaceReadMore
  <2>7. PeerAt(u, h) = PeerLine(PeerAt(t, h), l)
    BY <1>9, PeerAtMore DEF h
  <2>8. PeersUpTo(u, h - 1) = PeersUpTo(t, h - 1)
    <3>1. h - 1 \in 0..m - 1 /\ h - 1 < Section(u, m)
      BY <1>1, <2>1 DEF h, n
    <3> QED
      BY <3>1, PeersBefore
  <2>9. PeersRead(u, m, q)
    BY <2>1, <2>2, <2>5, <2>7, <2>8 DEF PeersRead, h
  <2> QED
    BY <2>6, <2>9 DEF q
<1>10. CASE l.key \notin Headers /\ ~InPeer(t, n)
  <2>1. ~InPeer(u, m)
    BY <1>2, <1>10
  <2>2. r.peers = PeersUpTo(t, n) /\ r.current = <<>>
    BY <1>10 DEF PeersRead, n
  <2>3. q = InterfaceLine(r, l)
    BY <1>10, <2>2 DEF q, ParseLine, Headers
  <2>4. /\ q.private_key = IF l.key = "PrivateKey" THEN l.value ELSE r.private_key
        /\ q.address = IF l.key = "Address" THEN Longer(r.address, l.value) ELSE r.address
        /\ q.dns = IF l.key = "DNS" THEN Longer(r.dns, l.value) ELSE r.dns
        /\ q.mtu = IF l.key = "MTU" THEN Number(l.value) ELSE r.mtu
        /\ q.peers = r.peers /\ q.current = r.current
    BY <2>3 DEF InterfaceLine, ReadState, Longer
  <2>5. InterfaceRead(u, q)
    BY <2>1, <2>4, InterfaceReadMore
  <2>6. PeersUpTo(u, n) = PeersUpTo(t, n)
    BY <1>1, <2>1, PeersBefore DEF n
  <2>7. PeerOf(u, m) = <<>>
    BY <1>1, <1>10 DEF PeerOf, Headers
  <2>8. PeersUpTo(u, m) = PeersUpTo(u, n)
    BY <1>6, <2>7, ConcatEmptySeq
  <2>9. PeersRead(u, m, q)
    BY <2>1, <2>2, <2>4, <2>6, <2>8 DEF PeersRead
  <2> QED
    BY <2>5, <2>9 DEF q
<1>11. l.key \in Headers => l.key = "[Interface]" \/ l.key = "[Peer]"
  BY DEF Headers
<1> QED
  BY <1>7, <1>8, <1>9, <1>10, <1>11

\* parse_conf reads of every text what it declares.
LEMMA ParseReads == ASSUME NEW s \in Seq(TextLine) PROVE Parse(s) = Reading(s)
<1> DEFINE T == {t \in Seq(TextLine) : /\ Read(Fresh, t) \in ReadState
                                       /\ InterfaceRead(t, Read(Fresh, t))
                                       /\ PeersRead(t, Len(t), Read(Fresh, t))}
<1>1. <<>> \in T
  <2>1. Read(Fresh, <<>>) = Fresh
    BY ReadNothing
  <2>2. \A key : OfInterface(<<>>, key) = {}
    BY DEF OfInterface
  <2>3. \A is : ValuesAt(<<>>, is) = <<>>
    BY FlatNothing DEF ValuesAt
  <2>4. Number(<<Blank>>) = None
    BY CodecConstants DEF Number
  <2>5. InterfaceRead(<<>>, Fresh)
    BY <2>2, <2>3, <2>4 DEF InterfaceRead, LastAt, Fresh
  <2>6. Section(<<>>, 0) = 0
    BY SectionBefore
  <2>7. PeersUpTo(<<>>, 0) = <<>>
    <3>1. [k \in 1..0 |-> PeerOf(<<>>, k)] = <<>>
      OBVIOUS
    <3> QED
      BY <3>1, FlatNothing DEF PeersUpTo
  <2>8. PeersRead(<<>>, 0, Fresh)
    BY <2>6, <2>7 DEF PeersRead, InPeer, Fresh
  <2> QED
    BY <2>1, <2>5, <2>8, FreshType, EmptySeq
<1>2. ASSUME NEW t \in T, NEW l \in TextLine PROVE Append(t, l) \in T
  <2> DEFINE r == Read(Fresh, t)
             u == Append(t, l)
             m == Len(t) + 1
  <2>1. /\ t \in Seq(TextLine) /\ r \in ReadState /\ InterfaceRead(t, r)
        /\ PeersRead(t, Len(t), r)
    OBVIOUS
  <2>2. More(t, l, m, u) /\ Len(t) = m - 1
    BY <2>1 DEF More
  <2>3. Read(Fresh, u) = ParseLine(r, l)
    BY <2>1, ReadMore
  <2>4. ParseLine(r, l) \in ReadState
    BY <2>1, ParseLineType
  <2>5. u \in Seq(TextLine) /\ Len(u) = m
    BY <2>1
  <2> HIDE DEF r, u, m, T
  <2>6. InterfaceRead(u, ParseLine(r, l)) /\ PeersRead(u, m, ParseLine(r, l))
    BY <2>1, <2>2, ReadsMore
  <2> QED
    BY <2>3, <2>4, <2>5, <2>6 DEF T, u
<1>3. T = Seq(TextLine)
  BY <1>1, <1>2, AllSequences
<1> DEFINE r == Read(Fresh, s)
           c == Closed(r)
<1>4. r \in ReadState /\ InterfaceRead(s, r) /\ PeersRead(s, Len(s), r)
  BY <1>3
<1> HIDE DEF r, T
<1>5. c.peers = PeersUpTo(s, Len(s))
  BY <1>4, ClosedPeers
<1>6. /\ c.private_key = r.private_key /\ c.address = r.address
      /\ c.dns = r.dns /\ c.mtu = r.mtu
  BY <1>4, ClosedType DEF ReadState
<1>7. Parse(s) = [private_key |-> c.private_key, address |-> c.address, dns |-> c.dns,
                  mtu |-> c.mtu, peers |-> c.peers]
  BY DEF Parse, Read, r
<1> HIDE DEF c
<1>8. PeersUpTo(s, Len(s)) = FlattenSeq([h \in DOMAIN s |->
                   IF s[h].key = "[Peer]" THEN <<PeerAt(s, h)>> ELSE <<>>])
  BY DEF PeersUpTo, PeerOf
<1> QED
  BY <1>4, <1>5, <1>6, <1>7, <1>8 DEF InterfaceRead, Reading

\* Whatever text is imported, with its sections and keys in any order and of
\* any length, the import answers with what the text declares (parse_conf).
THEOREM ImportsAsDeclared == Spec => []ImportReads
<1> DEFINE ImportInv == text # NoText => text \in Texts /\ saved = Parse(text)
<1>1. Init => ImportInv
  BY DEF Init
<1>2. ImportInv /\ [Next]_vars => ImportInv'
  BY DEF Next, vars, AddTunnel, ImportTunnel, GetTunnel, SaveEdited, DeleteTunnel
<1>3. ImportInv => ImportReads
  BY CodecConstants, ParseReads DEF ImportReads
<1> QED
  BY <1>1, <1>2, <1>3, PTL DEF Spec

=============================================================================
