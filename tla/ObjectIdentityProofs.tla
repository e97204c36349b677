------------------------ MODULE ObjectIdentityProofs ------------------------
(***************************************************************************)
(* For any kinds, names, readers, inputs and definitions: no run prunes an *)
(* object of its own input under another spelling, as long as readers that *)
(* look at scopes read the input; a run prunes what the run before saved   *)
(* and its input no longer names; and the graph reads the dependencies     *)
(* that were set.                                                          *)
(*                                                                         *)
(* The first part is about texts (module ObjectNames): a text is cut where *)
(* it was joined, a dependency reads as it was written, and a key gives    *)
(* back the identity it was made of. Recursion over a text is a function   *)
(* over its positions, and a fact about all of them is proved of the least *)
(* position at which it could fail. The second part is about the runs.     *)
(***************************************************************************)
EXTENDS ObjectIdentity, TLAPS, FiniteSetTheorems, SequenceTheorems

\* Every set of naturals that is not empty has a least element.
LEMMA LeastElement ==
  ASSUME NEW T, T \subseteq Nat, T # {}
  PROVE  \E k \in T : \A j \in T : k <= j
<1> DEFINE R == OpToRel(<, Nat)
<1>1. \E k \in T : \A j \in T : ~(<<j, k>> \in R)
  BY NatLessThanWellFounded, WFMin
<1>2. PICK k \in T : \A j \in T : ~(<<j, k>> \in R)
  BY <1>1
<1>3. \A j \in T : ~(j < k)
  BY <1>2 DEF OpToRel
<1> QED
  BY <1>3

-----------------------------------------------------------------------------
(* Putting texts together.                                                  *)

Glue(a, b) == a \o b

LEMMA GlueType ==
  ASSUME NEW S, NEW a \in Seq(S), NEW b \in Seq(S)
  PROVE  Glue(a, b) \in Seq(S) /\ Len(Glue(a, b)) = Len(a) + Len(b)
  BY DEF Glue

LEMMA GlueLeft ==
  ASSUME NEW S, NEW a \in Seq(S), NEW b \in Seq(S), NEW i \in 1..Len(a)
  PROVE  Glue(a, b)[i] = a[i]
  BY DEF Glue

LEMMA GlueRight ==
  ASSUME NEW S, NEW a \in Seq(S), NEW b \in Seq(S), NEW i \in 1..Len(b)
  PROVE  Glue(a, b)[Len(a) + i] = b[i]
  BY DEF Glue

\* FlattenSeq goes through a sequence of sequences from the first to the last.
FlattenFcn(f, seqs, n) ==
  f = [i \in 1..n |-> IF i = 1 THEN seqs[i] ELSE Glue(f[i - 1], seqs[i])]

LEMMA FlattenExists ==
  ASSUME NEW seqs, NEW n \in Nat \ {0} PROVE \E f : FlattenFcn(f, seqs, n)
<1> DEFINE Bad == {m \in Nat \ {0} : ~\E f : FlattenFcn(f, seqs, m)}
<1> SUFFICES ASSUME Bad # {} PROVE FALSE
  OBVIOUS
<1>1. PICK m \in Bad : \A j \in Bad : m <= j
  <2>1. Bad \subseteq Nat
    OBVIOUS
  <2> HIDE DEF Bad
  <2> QED
    BY <2>1, LeastElement
<1>2. m # 1
  <2> DEFINE g == [i \in 1..1 |-> seqs[1]]
  <2>1. \A i \in 1..1 : i = 1
    OBVIOUS
  <2>2. g = [i \in 1..1 |-> IF i = 1 THEN seqs[i] ELSE Glue(g[i - 1], seqs[i])]
    BY <2>1
  <2>3. FlattenFcn(g, seqs, 1)
    BY <2>2 DEF FlattenFcn
  <2> QED
    BY <2>3
<1>3. m \in Nat /\ m - 1 \in Nat \ {0} /\ m - 1 \notin Bad
  BY <1>1, <1>2
<1>4. PICK f : FlattenFcn(f, seqs, m - 1)
  BY <1>3
<1> DEFINE g == [i \in 1..m |-> IF i = m THEN Glue(f[m - 1], seqs[m]) ELSE f[i]]
<1>5. \A i \in 1..(m - 1) : g[i] = f[i]
  BY <1>3
<1>6. \A i \in 1..(m - 1) : f[i] = IF i = 1 THEN seqs[i] ELSE Glue(f[i - 1], seqs[i])
  BY <1>4 DEF FlattenFcn
<1>7. ASSUME NEW i \in 1..m
      PROVE  g[i] = IF i = 1 THEN seqs[i] ELSE Glue(g[i - 1], seqs[i])
  <2>1. CASE i = m
    <3>1. m - 1 \in 1..(m - 1) /\ m \in 1..m /\ m # 1
      BY <1>2, <1>3
    <3>2. g[m] = Glue(f[m - 1], seqs[m]) /\ g[m - 1] = f[m - 1]
      BY <1>5, <3>1
    <3> QED
      BY <2>1, <3>1, <3>2
  <2>2. CASE i # m /\ i = 1
    <3>1. 1 \in 1..(m - 1)
      BY <1>3
    <3> QED
      BY <1>5, <1>6, <2>2, <3>1
  <2>3. CASE i # m /\ i # 1
    <3>1. i \in 1..(m - 1) /\ i - 1 \in 1..(m - 1)
      BY <1>3, <2>3
    <3> QED
      BY <1>5, <1>6, <2>3, <3>1
  <2> QED
    BY <2>1, <2>2, <2>3
<1> HIDE DEF g
<1>8. g = [i \in 1..m |-> IF i = 1 THEN seqs[i] ELSE Glue(g[i - 1], seqs[i])]
  BY <1>7 DEF g
<1> QED
  BY <1>1, <1>8 DEF FlattenFcn

LEMMA FlattenIs ==
  ASSUME NEW S, NEW seqs \in Seq(Seq(S)), Len(seqs) # 0
  PROVE  \E f \in [1..Len(seqs) -> Seq(S)] :
           /\ f[1] = seqs[1]
           /\ \A i \in 2..Len(seqs) : f[i] = Glue(f[i - 1], seqs[i])
           /\ FlattenSeq(seqs) = f[Len(seqs)]
<1> DEFINE n == Len(seqs)
           f == CHOOSE h : FlattenFcn(h, seqs, n)
<1>1. FlattenSeq(seqs) = f[n]
  BY Zenon DEF FlattenSeq, FlattenFcn, Glue
<1>2. n \in Nat \ {0} /\ \A i \in 1..n : seqs[i] \in Seq(S)
  OBVIOUS
<1> HIDE DEF n
<1>3. FlattenFcn(f, seqs, n)
  BY <1>2, FlattenExists
<1> HIDE DEF f
<1>4. /\ f = [i \in 1..n |-> IF i = 1 THEN seqs[i] ELSE Glue(f[i - 1], seqs[i])]
      /\ 1 \in 1..n
  BY <1>2, <1>3 DEF FlattenFcn
<1>5. f[1] = seqs[1]
  BY <1>4
<1>6. \A i \in 2..n : f[i] = Glue(f[i - 1], seqs[i])
  <2> TAKE i \in 2..n
  <2>1. i \in 1..n /\ i # 1
    BY <1>2
  <2> QED
    BY <1>4, <2>1
<1>7. \A i \in 1..n : f[i] \in Seq(S)
  <2> DEFINE Bad == {i \in 1..n : f[i] \notin Seq(S)}
  <2> SUFFICES ASSUME Bad # {} PROVE FALSE
    OBVIOUS
  <2>1. PICK m \in Bad : \A j \in Bad : m <= j
    <3>1. Bad \subseteq Nat
      OBVIOUS
    <3> HIDE DEF Bad
    <3> QED
      BY <3>1, LeastElement
  <2>2. m \in 1..n /\ m # 1
    BY <1>2, <1>4, <1>5
  <2>3. m \in 2..n /\ m - 1 \in 1..n /\ m - 1 \notin Bad
    BY <1>2, <2>1, <2>2
  <2>4. f[m - 1] \in Seq(S) /\ seqs[m] \in Seq(S)
    BY <1>2, <2>2, <2>3
  <2>5. f[m] \in Seq(S)
    <3>1. Glue(f[m - 1], seqs[m]) \in Seq(S)
      BY <2>4, GlueType
    <3> QED
      BY <1>6, <2>3, <3>1
  <2> QED
    BY <2>5
<1>8. f \in [1..n -> Seq(S)]
  BY <1>4, <1>7
<1> QED
  BY <1>1, <1>5, <1>6, <1>8 DEF n

\* Where the pieces are: e[k] symbols come before the piece with number k + 1.
Ends(e, seqs) ==
  /\ e \in [0..Len(seqs) -> Nat] /\ e[0] = 0
  /\ \A k \in 1..Len(seqs) : e[k] = e[k - 1] + Len(seqs[k])

LEMMA EndsGrow ==
  ASSUME NEW S, NEW seqs \in Seq(Seq(S)), NEW e, Ends(e, seqs),
         NEW i \in 0..Len(seqs), NEW j \in i..Len(seqs)
  PROVE  e[i] <= e[j]
<1> DEFINE Bad == {k \in i..Len(seqs) : ~(e[i] <= e[k])}
<1> SUFFICES ASSUME Bad # {} PROVE FALSE
  OBVIOUS
<1>1. PICK m \in Bad : \A k \in Bad : m <= k
  <2>1. Bad \subseteq Nat
    OBVIOUS
  <2> HIDE DEF Bad
  <2> QED
    BY <2>1, LeastElement
<1>2. \A k \in 0..Len(seqs) : e[k] \in Nat
  BY DEF Ends
<1>3. m # i
  BY <1>1, <1>2
<1>4. m \in 1..Len(seqs) /\ m - 1 \in i..Len(seqs) /\ m - 1 \notin Bad
  BY <1>1, <1>3
<1>5. e[m] = e[m - 1] + Len(seqs[m]) /\ Len(seqs[m]) \in Nat
  BY <1>4 DEF Ends
<1>6. e[i] <= e[m - 1]
  BY <1>4
<1>7. e[m] \in Nat /\ e[m - 1] \in Nat /\ e[i] \in Nat
  BY <1>2, <1>4
<1> QED
  BY <1>1, <1>5, <1>6, <1>7

LEMMA EndsCover ==
  ASSUME NEW S, NEW seqs \in Seq(Seq(S)), NEW e, Ends(e, seqs), NEW p \in 1..e[Len(seqs)]
  PROVE  \E k \in 1..Len(seqs) : p - e[k - 1] \in 1..Len(seqs[k])
<1> DEFINE T == {k \in 0..Len(seqs) : p <= e[k]}
<1>1. Len(seqs) \in Nat /\ (\A k \in 0..Len(seqs) : e[k] \in Nat)
  <2>1. Len(seqs) \in Nat
    OBVIOUS
  <2> QED
    BY <2>1 DEF Ends
<1>2. T # {} /\ T \subseteq Nat
  BY <1>1
<1>3. PICK k \in T : \A j \in T : k <= j
  <2> HIDE DEF T
  <2> QED
    BY <1>2, LeastElement
<1>4. k # 0
  BY <1>1, <1>3 DEF Ends
<1>5. k \in 1..Len(seqs) /\ k - 1 \in 0..Len(seqs) /\ k - 1 \notin T
  BY <1>1, <1>3, <1>4
<1>6. e[k] = e[k - 1] + Len(seqs[k]) /\ Len(seqs[k]) \in Nat
  BY <1>5 DEF Ends
<1>7. p <= e[k] /\ ~(p <= e[k - 1]) /\ e[k - 1] \in Nat /\ p \in Int
  BY <1>1, <1>3, <1>5
<1>8. p - e[k - 1] \in 1..Len(seqs[k])
  BY <1>6, <1>7
<1> QED
  BY <1>5, <1>8

LEMMA Pieces ==
  ASSUME NEW S, NEW seqs \in Seq(Seq(S))
  PROVE  \E e :
           /\ Ends(e, seqs)
           /\ FlattenSeq(seqs) \in Seq(S) /\ Len(FlattenSeq(seqs)) = e[Len(seqs)]
           /\ \A k \in 1..Len(seqs) : \A j \in 1..Len(seqs[k]) :
                FlattenSeq(seqs)[e[k - 1] + j] = seqs[k][j]
<1>1. CASE Len(seqs) = 0
  <2> DEFINE e == [k \in 0..0 |-> 0]
  <2>1. FlattenSeq(seqs) = <<>> /\ seqs = <<>>
    BY <1>1 DEF FlattenSeq
  <2>2. 0..0 = {0} /\ 1..0 = {}
    OBVIOUS
  <2>3. Ends(e, seqs)
    BY <1>1, <2>1, <2>2 DEF Ends
  <2> QED
    BY <1>1, <2>1, <2>2, <2>3
<1>2. CASE Len(seqs) # 0
  <2> DEFINE n == Len(seqs)
  <2>1. PICK f \in [1..n -> Seq(S)] :
          /\ f[1] = seqs[1]
          /\ \A i \in 2..n : f[i] = Glue(f[i - 1], seqs[i])
          /\ FlattenSeq(seqs) = f[n]
    BY <1>2, FlattenIs
  <2>2. n \in Nat \ {0} /\ (\A i \in 1..n : seqs[i] \in Seq(S) /\ f[i] \in Seq(S))
    <3>1. n \in Nat \ {0} /\ (\A i \in 1..n : seqs[i] \in Seq(S))
      BY <1>2
    <3> QED
      BY <3>1
  <2> HIDE DEF n
  <2>3. \A i \in 2..n :
          /\ Len(f[i]) = Len(f[i - 1]) + Len(seqs[i])
          /\ \A p \in 1..Len(f[i - 1]) : f[i][p] = f[i - 1][p]
          /\ \A p \in 1..Len(seqs[i]) : f[i][Len(f[i - 1]) + p] = seqs[i][p]
    <3> TAKE i \in 2..n
    <3>1. i \in 1..n /\ i - 1 \in 1..n
      BY <2>2
    <3>2. f[i] = Glue(f[i - 1], seqs[i]) /\ f[i - 1] \in Seq(S) /\ seqs[i] \in Seq(S)
      BY <2>1, <2>2, <3>1
    <3>3. Len(f[i]) = Len(f[i - 1]) + Len(seqs[i])
      BY <3>2, GlueType
    <3>4. \A p \in 1..Len(f[i - 1]) : f[i][p] = f[i - 1][p]
      BY <3>2, GlueLeft
    <3>5. \A p \in 1..Len(seqs[i]) : f[i][Len(f[i - 1]) + p] = seqs[i][p]
      <4> DEFINE a == f[i - 1]
                 b == seqs[i]
      <4>1. a \in Seq(S) /\ b \in Seq(S)
        BY <3>2
      <4> HIDE DEF a, b
      <4>2. ASSUME NEW p \in 1..Len(b) PROVE Glue(a, b)[Len(a) + p] = b[p]
        BY <4>1, GlueRight
      <4> QED
        BY <3>2, <4>2, Zenon DEF a, b
    <3> QED
      BY <3>3, <3>4, <3>5
  <2>4. ASSUME NEW i \in 1..n, NEW j \in i..n
        PROVE  Len(f[i]) <= Len(f[j]) /\ \A p \in 1..Len(f[i]) : f[j][p] = f[i][p]
    <3> DEFINE Good(k) == Len(f[i]) <= Len(f[k]) /\ \A p \in 1..Len(f[i]) : f[k][p] = f[i][p]
               Bad == {k \in i..n : ~Good(k)}
    <3> SUFFICES ASSUME Bad # {} PROVE FALSE
      OBVIOUS
    <3>1. PICK m \in Bad : \A k \in Bad : m <= k
      <4>1. Bad \subseteq Nat
        OBVIOUS
      <4> HIDE DEF Bad
      <4> QED
        BY <4>1, LeastElement
    <3>2. m # i
      <4>1. Good(i)
        BY <2>2
      <4> QED
        BY <3>1, <4>1
    <3>3. m \in 2..n /\ m - 1 \in i..n /\ m - 1 \notin Bad /\ m - 1 \in 1..n
      BY <2>2, <3>1, <3>2
    <3>4. Good(m - 1)
      BY <3>3
    <3>5. /\ Len(f[m]) = Len(f[m - 1]) + Len(seqs[m])
          /\ \A p \in 1..Len(f[m - 1]) : f[m][p] = f[m - 1][p]
      BY <2>3, <3>3
    <3>6. Len(f[m]) \in Nat /\ Len(f[m - 1]) \in Nat /\ Len(f[i]) \in Nat /\ Len(seqs[m]) \in Nat
      BY <2>2, <3>3
    <3>7. Good(m)
      <4>1. Len(f[i]) <= Len(f[m - 1])
            /\ \A p \in 1..Len(f[i]) : f[m - 1][p] = f[i][p]
        BY <3>4
      <4>2. \A p \in 1..Len(f[i]) : p \in 1..Len(f[m - 1])
        BY <3>6, <4>1
      <4>3. Len(f[i]) <= Len(f[m])
        <5>1. \A x, y, z, w \in Nat : x <= y /\ z = y + w => x <= z
          OBVIOUS
        <5> QED
          BY <3>5, <3>6, <4>1, <5>1, Zenon
      <4>4. \A p \in 1..Len(f[i]) : f[m][p] = f[i][p]
        BY <3>5, <4>1, <4>2
      <4> QED
        BY <4>3, <4>4
    <3> QED
      BY <3>1, <3>7
  <2> DEFINE e == [k \in 0..n |-> IF k = 0 THEN 0 ELSE Len(f[k])]
  <2>5. \A k \in 1..n : e[k] = Len(f[k]) /\ Len(f[k]) \in Nat
    BY <2>2
  <2>6. e \in [0..n -> Nat] /\ e[0] = 0
    BY <2>2
  <2> HIDE DEF e
  <2>7. ASSUME NEW k \in 1..n
        PROVE  /\ e[k] = e[k - 1] + Len(seqs[k])
               /\ \A j \in 1..Len(seqs[k]) : f[k][e[k - 1] + j] = seqs[k][j]
    <3>1. CASE k = 1
      <4>1. e[1] = Len(seqs[1]) /\ f[1] = seqs[1] /\ Len(seqs[1]) \in Nat
        BY <2>1, <2>2, <2>5
      <4> QED
        BY <2>6, <3>1, <4>1
    <3>2. CASE k # 1
      <4>1. k \in 2..n /\ k - 1 \in 1..n
        BY <2>2, <3>2
      <4>2. e[k] = Len(f[k]) /\ e[k - 1] = Len(f[k - 1])
        BY <2>5, <4>1
      <4> QED
        BY <2>3, <4>1, <4>2
    <3> QED
      BY <3>1, <3>2
  <2>8. Ends(e, seqs)
    BY <2>6, <2>7 DEF Ends, n
  <2>9. FlattenSeq(seqs) \in Seq(S) /\ Len(FlattenSeq(seqs)) = e[n]
    <3>1. n \in 1..n
      BY <2>2
    <3> QED
      BY <2>1, <2>2, <2>5, <3>1
  <2>10. ASSUME NEW k \in 1..n, NEW j \in 1..Len(seqs[k])
         PROVE  FlattenSeq(seqs)[e[k - 1] + j] = seqs[k][j]
    <3>1. n \in k..n
      BY <2>2
    <3>2. /\ e[k] = e[k - 1] + Len(seqs[k]) /\ f[k][e[k - 1] + j] = seqs[k][j]
          /\ e[k] = Len(f[k]) /\ e[k] \in Nat /\ e[k - 1] \in Nat /\ Len(seqs[k]) \in Nat
      <4>1. e[k] = e[k - 1] + Len(seqs[k]) /\ f[k][e[k - 1] + j] = seqs[k][j]
        BY <2>7, Zenon
      <4>2. e[k] = Len(f[k]) /\ e[k] \in Nat
        BY <2>5
      <4>3. k \in 0..n /\ k - 1 \in 0..n
        BY <2>2
      <4>4. e[k - 1] \in Nat
        BY <2>6, <4>3
      <4>5. Len(seqs[k]) \in Nat
        BY <2>2
      <4> QED
        BY <4>1, <4>2, <4>4, <4>5, Zenon
    <3>3. e[k - 1] + j \in 1..Len(f[k])
      <4>1. \A x, l, z \in Nat : \A y \in 1..l : z = x + l => x + y \in 1..z
        OBVIOUS
      <4> QED
        BY <3>2, <4>1, Zenon
    <3>4. f[n][e[k - 1] + j] = f[k][e[k - 1] + j]
      BY <2>4, <3>1, <3>3
    <3> QED
      BY <2>1, <3>2, <3>4
  <2> QED
    BY <2>8, <2>9, <2>10 DEF n
<1> QED
  BY <1>1, <1>2

-----------------------------------------------------------------------------
(* Joining and splitting.                                                  *)

\* Where the texts of a join are: c[k] is the position of the mark after the text
\* with number k, c[0] before the first one and c[n] after the last.
Cuts(c, texts, mark, all) ==
  /\ c \in [0..Len(texts) -> Nat] /\ c[0] = 0 /\ c[Len(texts)] = Len(all) + 1
  /\ \A k \in 1..Len(texts) : c[k] = c[k - 1] + Len(texts[k]) + 1
  /\ \A k \in 1..(Len(texts) - 1) : all[c[k]] = mark
  /\ \A k \in 1..Len(texts) : \A j \in 1..Len(texts[k]) : all[c[k - 1] + j] = texts[k][j]

LEMMA JoinCuts ==
  ASSUME NEW S, NEW mark \in S, NEW texts \in Seq(Seq(S)), Len(texts) # 0
  PROVE  /\ Join(texts, mark) \in Seq(S)
         /\ \E c : Cuts(c, texts, mark, Join(texts, mark))
<1> DEFINE n == Len(texts)
           seqs == [k \in DOMAIN texts |-> IF k = 1 THEN texts[k] ELSE <<mark>> \o texts[k]]
           all == FlattenSeq(seqs)
<1>1. n \in Nat \ {0} /\ DOMAIN texts = 1..n /\ (\A k \in 1..n : texts[k] \in Seq(S))
  OBVIOUS
<1>2. Join(texts, mark) = all
  BY DEF Join
<1>3. \A k \in 1..n : Len(texts[k]) \in Nat
  BY <1>1
<1>4. ASSUME NEW k \in 1..n, k # 1
      PROVE  /\ seqs[k] \in Seq(S) /\ Len(seqs[k]) = Len(texts[k]) + 1
             /\ seqs[k][1] = mark
             /\ \A j \in 1..Len(texts[k]) : seqs[k][1 + j] = texts[k][j]
  <2> DEFINE m == <<mark>>
             t == texts[k]
  <2>1. seqs[k] = Glue(m, t) /\ t \in Seq(S) /\ Len(t) \in Nat
    BY <1>1, <1>3, <1>4 DEF Glue
  <2>2. m \in Seq(S) /\ Len(m) = 1 /\ m[1] = mark /\ 1 \in 1..Len(m)
    OBVIOUS
  <2> HIDE DEF seqs, m, t
  <2>3. Glue(m, t) \in Seq(S) /\ Len(Glue(m, t)) = 1 + Len(t)
    BY <2>1, <2>2, GlueType
  <2>4. Glue(m, t)[1] = mark
    <3>1. \A i \in 1..Len(m) : Glue(m, t)[i] = m[i]
      BY <2>1, <2>2, GlueLeft, Zenon
    <3> QED
      BY <2>2, <3>1, Zenon
  <2>5. \A j \in 1..Len(t) : Glue(m, t)[Len(m) + j] = t[j]
    BY <2>1, <2>2, GlueRight, Zenon
  <2>6. \A j \in 1..Len(t) : Glue(m, t)[1 + j] = t[j]
    BY <2>2, <2>5, Zenon
  <2>7. Len(Glue(m, t)) = Len(t) + 1
    BY <2>1, <2>3
  <2> QED
    BY <2>1, <2>3, <2>4, <2>6, <2>7, Zenon DEF t
<1>5. seqs[1] = texts[1] /\ 1 \in 1..n /\ n \in 1..n
  BY <1>1
<1>6. seqs \in Seq(Seq(S)) /\ Len(seqs) = n
  <2>1. \A k \in 1..n : seqs[k] \in Seq(S)
    BY <1>1, <1>4, <1>5
  <2>2. seqs = [k \in 1..n |-> seqs[k]]
    BY <1>1
  <2> HIDE DEF seqs
  <2> QED
    BY <1>1, <2>1, <2>2
<1> HIDE DEF seqs
<1>7. PICK e :
        /\ Ends(e, seqs)
        /\ all \in Seq(S) /\ Len(all) = e[n]
        /\ \A k \in 1..n : \A j \in 1..Len(seqs[k]) : all[e[k - 1] + j] = seqs[k][j]
  BY <1>6, Pieces
<1>8. /\ e \in [0..n -> Nat] /\ e[0] = 0
      /\ \A k \in 1..n : e[k] = e[k - 1] + Len(seqs[k])
  BY <1>6, <1>7 DEF Ends
<1> DEFINE c == [k \in 0..n |-> IF k = 0 THEN 0 ELSE e[k] + 1]
<1> HIDE DEF all, n
<1>9. c \in [0..n -> Nat] /\ c[0] = 0 /\ c[n] = Len(all) + 1
  BY <1>1, <1>7, <1>8
<1>10. \A k \in 1..n : c[k] = e[k] + 1 /\ k \in 0..n
  BY <1>1
<1> HIDE DEF c
<1>11. ASSUME NEW k \in 1..n
       PROVE  /\ c[k] = c[k - 1] + Len(texts[k]) + 1
              /\ \A j \in 1..Len(texts[k]) : all[c[k - 1] + j] = texts[k][j]
  <2>1. CASE k = 1
    <3>1. e[1] = Len(texts[1]) /\ Len(texts[1]) \in Nat
      BY <1>3, <1>5, <1>8
    <3>2. \A j \in 1..Len(texts[1]) : all[e[0] + j] = texts[1][j]
      <4>1. \A j \in 1..Len(seqs[1]) : all[e[1 - 1] + j] = seqs[1][j]
        BY <1>5, <1>7
      <4> QED
        BY <1>5, <4>1
    <3> QED
      BY <1>5, <1>8, <1>9, <1>10, <2>1, <3>1, <3>2
  <2>2. CASE k # 1
    <3>1. k - 1 \in 1..n /\ k \in 0..n /\ k - 1 \in 0..n
      BY <1>1, <2>2
    <3>2. /\ e[k] = e[k - 1] + (Len(texts[k]) + 1) /\ Len(texts[k]) \in Nat
          /\ e[k] \in Nat /\ e[k - 1] \in Nat
      BY <1>3, <1>4, <1>8, <2>2, <3>1
    <3>3. c[k] = e[k] + 1 /\ c[k - 1] = e[k - 1] + 1
      BY <1>10, <3>1
    <3>4. ASSUME NEW j \in 1..Len(texts[k]) PROVE all[c[k - 1] + j] = texts[k][j]
      <4>1. 1 + j \in 1..Len(seqs[k]) /\ seqs[k][1 + j] = texts[k][j]
        BY <1>4, <2>2, <3>2
      <4>2. all[e[k - 1] + (1 + j)] = seqs[k][1 + j]
        BY <1>7, <4>1
      <4>3. e[k - 1] + (1 + j) = c[k - 1] + j
        <5>1. \A x \in Nat : \A y \in Int : x + (1 + y) = (x + 1) + y
          OBVIOUS
        <5>2. e[k - 1] \in Nat /\ j \in Int
          BY <3>2
        <5>3. e[k - 1] + (1 + j) = (e[k - 1] + 1) + j
          BY <5>1, <5>2, Zenon
        <5> QED
          BY <3>3, <5>3, Zenon
      <4> QED
        BY <4>1, <4>2, <4>3
    <3>5. c[k] = c[k - 1] + Len(texts[k]) + 1
      <4>1. \A x, y \in Nat : x + (y + 1) + 1 = (x + 1) + y + 1
        OBVIOUS
      <4> QED
        BY <3>2, <3>3, <4>1
    <3> QED
      BY <3>4, <3>5
  <2> QED
    BY <2>1, <2>2
<1>12. ASSUME NEW k \in 1..(n - 1) PROVE all[c[k]] = mark
  <2>1. k \in 1..n /\ k + 1 \in 1..n /\ k + 1 # 1 /\ (k + 1) - 1 = k
    BY <1>1
  <2>2. 1 \in 1..Len(seqs[k + 1]) /\ seqs[k + 1][1] = mark
    <3>1. Len(seqs[k + 1]) = Len(texts[k + 1]) + 1 /\ seqs[k + 1][1] = mark
      BY <1>4, <2>1
    <3>2. Len(texts[k + 1]) \in Nat
      BY <1>3, <2>1
    <3> QED
      BY <3>1, <3>2
  <2>3. all[e[(k + 1) - 1] + 1] = mark
    BY <1>7, <2>1, <2>2
  <2> QED
    BY <1>10, <2>1, <2>3
<1>13. Cuts(c, texts, mark, all)
  BY <1>9, <1>11, <1>12 DEF Cuts, n
<1> QED
  BY <1>2, <1>7, <1>13

\* Every position of a join is that of a mark or of a symbol of a text.
LEMMA CutsCover ==
  ASSUME NEW S, NEW texts \in Seq(Seq(S)), NEW mark, NEW all \in Seq(S), NEW c,
         Cuts(c, texts, mark, all), NEW p \in 1..Len(all)
  PROVE  \/ \E k \in 1..(Len(texts) - 1) : p = c[k]
         \/ \E k \in 1..Len(texts) : p - c[k - 1] \in 1..Len(texts[k])
<1> DEFINE n == Len(texts)
           T == {k \in 0..n : p <= c[k]}
<1>1. n \in Nat /\ (\A k \in 0..n : c[k] \in Nat) /\ c[0] = 0 /\ c[n] = Len(all) + 1
      /\ n \in 0..n
  <2>1. n \in Nat
    OBVIOUS
  <2> QED
    BY <2>1 DEF Cuts
<1>2. T # {} /\ T \subseteq Nat
  <2>1. p <= c[n]
    BY <1>1
  <2> QED
    BY <1>1, <2>1
<1>3. PICK k \in T : \A j \in T : k <= j
  <2> HIDE DEF T
  <2> QED
    BY <1>2, LeastElement
<1>4. k # 0
  BY <1>1, <1>3
<1>5. k \in 1..n /\ k - 1 \in 0..n /\ k - 1 \notin T
  BY <1>1, <1>3, <1>4
<1>6. c[k] = c[k - 1] + Len(texts[k]) + 1 /\ Len(texts[k]) \in Nat
  BY <1>5 DEF Cuts
<1>7. p <= c[k] /\ ~(p <= c[k - 1]) /\ c[k - 1] \in Nat /\ c[k] \in Nat /\ p \in Int
  BY <1>1, <1>3, <1>5
<1>8. CASE p = c[k]
  <2>1. k # n
    BY <1>1, <1>8
  <2> QED
    BY <1>5, <1>1, <1>8, <2>1
<1>9. CASE p # c[k]
  <2>1. p - c[k - 1] \in 1..Len(texts[k])
    BY <1>6, <1>7, <1>9
  <2> QED
    BY <1>5, <2>1
<1> QED
  BY <1>8, <1>9

LEMMA CutsGrow ==
  ASSUME NEW S, NEW texts \in Seq(Seq(S)), NEW mark, NEW all \in Seq(S), NEW c,
         Cuts(c, texts, mark, all), NEW i \in 0..Len(texts), NEW j \in (i + 1)..Len(texts)
  PROVE  c[i] < c[j]
<1> DEFINE Bad == {k \in (i + 1)..Len(texts) : ~(c[i] < c[k])}
<1> SUFFICES ASSUME Bad # {} PROVE FALSE
  OBVIOUS
<1>1. PICK m \in Bad : \A k \in Bad : m <= k
  <2>1. Bad \subseteq Nat
    OBVIOUS
  <2> HIDE DEF Bad
  <2> QED
    BY <2>1, LeastElement
<1>2. \A k \in 0..Len(texts) : c[k] \in Nat
  BY DEF Cuts
<1>3. m \in 1..Len(texts) /\ m - 1 \in i..Len(texts) /\ m - 1 \notin Bad /\ m - 1 \in 0..Len(texts)
  BY <1>1
<1>4. c[m] = c[m - 1] + Len(texts[m]) + 1 /\ Len(texts[m]) \in Nat
  BY <1>3 DEF Cuts
<1>5. c[m] \in Nat /\ c[m - 1] \in Nat /\ c[i] \in Nat
  BY <1>2, <1>3
<1>6. c[i] <= c[m - 1]
  <2>1. CASE m - 1 = i
    BY <1>5, <2>1
  <2>2. CASE m - 1 # i
    <3>1. m - 1 \in (i + 1)..Len(texts)
      BY <1>3, <2>2
    <3> QED
      BY <1>3, <1>5, <3>1
  <2> QED
    BY <2>1, <2>2
<1>7. ~(c[i] < c[m])
  BY <1>1
<1> HIDE DEF Bad
<1>8. \A x, y, z, l \in Nat : x <= y /\ z = y + l + 1 => x < z
  OBVIOUS
<1> QED
  BY <1>4, <1>5, <1>6, <1>7, <1>8, Zenon

Grows(c, n) == \A i \in 0..n : \A j \in (i + 1)..n : c[i] < c[j]

LEMMA CountBelow ==
  ASSUME NEW n \in Nat, NEW c \in [0..n -> Nat], Grows(c, n), NEW k \in 0..(n + 1)
  PROVE  Cardinality({c[j] : j \in 0..(k - 1)}) = k
<1> DEFINE S == {c[j] : j \in 0..(k - 1)}
           h == [i \in 1..k |-> c[i - 1]]
<1>1. k \in Nat /\ (\A i \in 1..k : i - 1 \in 0..(k - 1) /\ i - 1 \in 0..n)
  OBVIOUS
<1>2. h \in [1..k -> S]
  BY <1>1
<1>3. ASSUME NEW a \in 1..k, NEW b \in 1..k, a # b PROVE h[a] # h[b]
  <2>1. h[a] = c[a - 1] /\ h[b] = c[b - 1] /\ a - 1 \in 0..n /\ b - 1 \in 0..n
        /\ c[a - 1] \in Nat /\ c[b - 1] \in Nat
    BY <1>1
  <2>2. CASE a < b
    <3>1. b - 1 \in ((a - 1) + 1)..n
      BY <1>1, <2>1, <2>2
    <3>2. c[a - 1] < c[b - 1]
      BY <2>1, <3>1 DEF Grows
    <3> QED
      BY <2>1, <3>2
  <2>3. CASE b < a
    <3>1. a - 1 \in ((b - 1) + 1)..n
      BY <1>1, <2>1, <2>3
    <3>2. c[b - 1] < c[a - 1]
      BY <2>1, <3>1 DEF Grows
    <3> QED
      BY <2>1, <3>2
  <2> QED
    BY <1>3, <2>2, <2>3
<1>4. \A s \in S : \E i \in 1..k : h[i] = s
  <2> TAKE s \in S
  <2>1. PICK j \in 0..(k - 1) : s = c[j]
    OBVIOUS
  <2>2. j + 1 \in 1..k /\ h[j + 1] = c[(j + 1) - 1] /\ (j + 1) - 1 = j
    BY <1>1
  <2> QED
    BY <2>1, <2>2
<1> HIDE DEF h, S
<1>5. h \in Bijection(1..k, S)
  <2>1. h \in Injection(1..k, S)
    BY <1>2, <1>3 DEF Injection, IsInjective
  <2>2. h \in Surjection(1..k, S)
    BY <1>2, <1>4 DEF Surjection
  <2> QED
    BY <2>1, <2>2 DEF Bijection
<1>6. ExistsBijection(1..k, S)
  BY <1>5 DEF ExistsBijection
<1>7. Cardinality(S) = k
  BY <1>1, <1>6, FS_CountingElements
<1> QED
  BY <1>7 DEF S

\* The places where Split cuts a text, and those before one of them.
CutSet(all, mark) == {0, Len(all) + 1} \cup Positions(all, mark)

Values(c, n) == {c[k] : k \in 0..n}

\* The cut with number k.
CutNumber(cuts, k) == CHOOSE p \in cuts : Cardinality({q \in cuts : q < p}) = k

LEMMA CutsAre ==
  ASSUME NEW S, NEW texts \in Seq(Seq(S)), Len(texts) # 0, NEW mark, NEW all \in Seq(S), NEW c,
         Cuts(c, texts, mark, all), \A k \in DOMAIN texts : Positions(texts[k], mark) = {}
  PROVE  CutSet(all, mark) = Values(c, Len(texts))
<1> DEFINE n == Len(texts)
<1>1. n \in Nat \ {0} /\ DOMAIN texts = 1..n
  OBVIOUS
<1>2. \A k \in 1..n : Len(texts[k]) \in Nat /\ DOMAIN texts[k] = 1..Len(texts[k])
  BY <1>1
<1>3. Len(all) \in Nat /\ DOMAIN all = 1..Len(all)
  OBVIOUS
<1>4. Grows(c, n)
  BY CutsGrow DEF Grows
<1>5. (\A k \in 0..n : c[k] \in Nat) /\ c[0] = 0 /\ c[n] = Len(all) + 1
      /\ 0 \in 0..n /\ n \in 0..n
  BY <1>1 DEF Cuts
<1>6. ASSUME NEW p \in CutSet(all, mark) PROVE p \in {c[k] : k \in 0..n}
  <2>1. CASE p = 0
    BY <1>5, <2>1
  <2>2. CASE p = Len(all) + 1
    BY <1>5, <2>2
  <2>3. CASE p \in Positions(all, mark)
    <3>1. p \in 1..Len(all) /\ all[p] = mark
      BY <1>3, <2>3 DEF Positions
    <3>2. ASSUME NEW k \in 1..n, p - c[k - 1] \in 1..Len(texts[k]) PROVE FALSE
      <4>1. k - 1 \in 0..n
        BY <1>1
      <4>2. c[k - 1] \in Nat /\ p \in Int
        BY <1>5, <3>1, <4>1
      <4>3. c[k - 1] + (p - c[k - 1]) = p
        BY <4>2
      <4>4. all[c[k - 1] + (p - c[k - 1])] = texts[k][p - c[k - 1]]
        BY <3>2 DEF Cuts
      <4>5. p - c[k - 1] \in Positions(texts[k], mark)
        BY <1>2, <3>1, <3>2, <4>3, <4>4 DEF Positions
      <4> QED
        BY <1>1, <4>5
    <3>3. PICK k \in 1..(n - 1) : p = c[k]
      BY <3>1, <3>2, CutsCover
    <3> QED
      BY <1>1, <3>3
  <2> QED
    BY <1>6, <2>1, <2>2, <2>3 DEF CutSet
<1>7. ASSUME NEW k \in 0..n PROVE c[k] \in CutSet(all, mark)
  <2>1. CASE k = 0 \/ k = n
    BY <1>5, <2>1 DEF CutSet
  <2>2. CASE k # 0 /\ k # n
    <3>1. k \in 1..(n - 1) /\ k \in (0 + 1)..n /\ n \in (k + 1)..n
      <4>1. n \in Nat /\ n \in Int /\ k \in Int /\ 0 <= k /\ k <= n
        BY <1>1
      <4> HIDE DEF n
      <4> QED
        BY <2>2, <4>1
    <3>2. c[0] < c[k] /\ c[k] < c[n]
      BY <1>4, <1>5, <3>1 DEF Grows
    <3>3. c[k] \in 1..Len(all)
      BY <1>3, <1>5, <3>2
    <3>4. all[c[k]] = mark
      BY <3>1 DEF Cuts
    <3> QED
      BY <1>3, <3>3, <3>4 DEF CutSet, Positions
  <2> QED
    BY <2>1, <2>2
<1> QED
  BY <1>6, <1>7 DEF Values

LEMMA CutAt ==
  ASSUME NEW n \in Nat, NEW c \in [0..n -> Nat], Grows(c, n),
         NEW cuts, cuts = Values(c, n), NEW k \in 0..n
  PROVE  CutNumber(cuts, k) = c[k]
<1> USE DEF Values
<1>1. ASSUME NEW i \in 0..n PROVE Cardinality({q \in cuts : q < c[i]}) = i
  <2>1. ASSUME NEW j \in 0..n PROVE c[j] < c[i] <=> j \in 0..(i - 1)
    <3>0. c[i] \in Nat /\ c[j] \in Nat
      OBVIOUS
    <3>1. CASE j < i
      <4>1. i \in (j + 1)..n /\ j \in 0..(i - 1)
        BY <3>1
      <4> QED
        BY <4>1 DEF Grows
    <3>2. CASE i < j
      <4>1. j \in (i + 1)..n /\ j \notin 0..(i - 1)
        BY <3>2
      <4>2. c[i] < c[j]
        BY <4>1 DEF Grows
      <4> QED
        BY <3>0, <4>1, <4>2
    <3>3. CASE i = j
      BY <3>0, <3>3
    <3> QED
      BY <3>1, <3>2, <3>3
  <2>2. \A j \in 0..(i - 1) : j \in 0..n
    OBVIOUS
  <2>3. {q \in cuts : q < c[i]} = {c[j] : j \in 0..(i - 1)}
    BY <2>1, <2>2
  <2>4. i \in 0..(n + 1)
    OBVIOUS
  <2>5. Cardinality({c[j] : j \in 0..(i - 1)}) = i
    BY <2>4, CountBelow
  <2> QED
    BY <2>3, <2>5
<1>2. \E p \in cuts : Cardinality({q \in cuts : q < p}) = k
  BY <1>1
<1>3. \A p \in cuts : Cardinality({q \in cuts : q < p}) = k => p = c[k]
  <2> TAKE p \in cuts
  <2>1. PICK i \in 0..n : p = c[i]
    OBVIOUS
  <2>2. Cardinality({q \in cuts : q < p}) = i
    BY <1>1, <2>1
  <2> QED
    BY <2>1, <2>2
<1> DEFINE P(p) == Cardinality({q \in cuts : q < p}) = k
<1>4. (\E p \in cuts : P(p)) /\ (\A p \in cuts : P(p) => p = c[k])
  BY <1>2, <1>3
<1> HIDE DEF P
<1>5. (CHOOSE p \in cuts : P(p)) = c[k]
  BY <1>4
<1> QED
  BY <1>5 DEF P, CutNumber

LEMMA SameSequence ==
  ASSUME NEW S, NEW a \in Seq(S), NEW b \in Seq(S), Len(a) = Len(b),
         \A i \in 1..Len(b) : a[i] = b[i]
  PROVE  a = b
  OBVIOUS

LEMMA Part ==
  ASSUME NEW S, NEW s \in Seq(S), NEW a \in Nat, NEW b \in Nat, a <= b, b <= Len(s)
  PROVE  /\ SubSeq(s, a + 1, b) \in Seq(S) /\ Len(SubSeq(s, a + 1, b)) = b - a
         /\ \A i \in 1..(b - a) : SubSeq(s, a + 1, b)[i] = s[a + i]
  OBVIOUS

\* A text of a join is what is between its cuts.
LEMMA CutsPiece ==
  ASSUME NEW S, NEW texts \in Seq(Seq(S)), NEW mark, NEW all \in Seq(S), NEW c,
         Cuts(c, texts, mark, all), NEW k \in 1..Len(texts)
  PROVE  SubSeq(all, c[k - 1] + 1, c[k] - 1) = texts[k]
<1> DEFINE n == Len(texts)
           a == c[k - 1]
           b == c[k] - 1
<1>1. n \in Nat \ {0} /\ texts[k] \in Seq(S) /\ Len(texts[k]) \in Nat /\ Len(all) \in Nat
      /\ k \in 0..n /\ k - 1 \in 0..n /\ k \in Nat
  OBVIOUS
<1>2. c[k] \in Nat /\ c[k - 1] \in Nat /\ c[n] = Len(all) + 1 /\ c[n] \in Nat
      /\ c[k] = c[k - 1] + Len(texts[k]) + 1
      /\ (\A j \in 1..Len(texts[k]) : all[c[k - 1] + j] = texts[k][j])
  <2>1. n \in 0..n
    BY <1>1
  <2>2. (\A i \in 0..n : c[i] \in Nat) /\ c[n] = Len(all) + 1
    BY DEF Cuts
  <2>3. c[k] = c[k - 1] + Len(texts[k]) + 1
      /\ (\A j \in 1..Len(texts[k]) : all[c[k - 1] + j] = texts[k][j])
    BY DEF Cuts
  <2> QED
    BY <1>1, <2>1, <2>2, <2>3
<1>3. c[k] <= Len(all) + 1
  <2>1. CASE k = n
    BY <1>1, <1>2, <2>1
  <2>2. CASE k # n
    <3>1. n \in (k + 1)..n
      BY <1>1, <2>2
    <3>2. c[k] < c[n]
      BY <1>1, <3>1, CutsGrow
    <3> QED
      BY <1>1, <1>2, <3>2
  <2> QED
    BY <2>1, <2>2
<1>4. a \in Nat /\ b \in Nat /\ a <= b /\ b <= Len(all) /\ b - a = Len(texts[k])
  BY <1>1, <1>2, <1>3
<1>5. \A j \in 1..Len(texts[k]) : all[a + j] = texts[k][j]
  BY <1>2
<1> HIDE DEF a, b
<1> DEFINE part == SubSeq(all, a + 1, b)
<1>6. /\ part \in Seq(S) /\ Len(part) = Len(texts[k])
      /\ \A i \in 1..Len(texts[k]) : part[i] = all[a + i]
  BY <1>4, Part
<1> HIDE DEF part
<1>7. part = texts[k]
  BY <1>1, <1>5, <1>6, SameSequence
<1> QED
  BY <1>7 DEF part, a, b

\* What is joined with a mark is split at it again into the same texts.
LEMMA SplitJoin ==
  ASSUME NEW S, NEW mark \in S, NEW texts \in Seq(Seq(S)), Len(texts) # 0,
         \A k \in DOMAIN texts : Positions(texts[k], mark) = {}
  PROVE  Split(Join(texts, mark), mark) = texts
<1> DEFINE n == Len(texts)
           all == Join(texts, mark)
           cuts == CutSet(all, mark)
           cut(k) == CutNumber(cuts, k)
           parts == [k \in 1..(Cardinality(cuts) - 1) |-> SubSeq(all, cut(k - 1) + 1, cut(k) - 1)]
<1>1. n \in Nat \ {0} /\ (\A k \in 1..n : texts[k] \in Seq(S) /\ Len(texts[k]) \in Nat)
      /\ texts = [k \in 1..n |-> texts[k]]
  OBVIOUS
<1>2. all \in Seq(S) /\ \E c : Cuts(c, texts, mark, all)
  BY JoinCuts
<1>3. PICK c : Cuts(c, texts, mark, all)
  BY <1>2
<1>4. c \in [0..n -> Nat] /\ c[n] = Len(all) + 1 /\ n \in Nat /\ n + 1 \in 0..(n + 1)
      /\ (\A k \in 1..n : c[k] = c[k - 1] + Len(texts[k]) + 1)
      /\ (\A k \in 1..n : \A j \in 1..Len(texts[k]) : all[c[k - 1] + j] = texts[k][j])
  BY <1>1, <1>3 DEF Cuts
<1>5. Split(all, mark) = parts
  BY Zenon DEF Split, CutSet, CutNumber
<1> HIDE DEF all
<1>6. cuts = Values(c, n)
  BY <1>2, <1>3, CutsAre
<1>7. Grows(c, n)
  BY <1>2, <1>3, CutsGrow DEF Grows
<1> HIDE DEF cuts, n
<1>8. \A k \in 0..n : cut(k) = c[k]
  BY <1>4, <1>6, <1>7, CutAt
<1>9. Cardinality(cuts) = n + 1
  <2>1. (n + 1) - 1 = n
    BY <1>1
  <2>2. Cardinality({c[j] : j \in 0..((n + 1) - 1)}) = n + 1
    BY <1>4, <1>7, CountBelow
  <2> QED
    BY <1>6, <2>1, <2>2 DEF Values
<1> HIDE DEF cut
<1>10. ASSUME NEW k \in 1..n
       PROVE  SubSeq(all, cut(k - 1) + 1, cut(k) - 1) = texts[k]
  <2>1. k - 1 \in 0..n /\ k \in 0..n
    BY <1>1
  <2>2. SubSeq(all, c[k - 1] + 1, c[k] - 1) = texts[k]
    BY <1>2, <1>3, CutsPiece DEF n
  <2> QED
    BY <1>8, <2>1, <2>2
<1>11. Cardinality(cuts) - 1 = n
  BY <1>1, <1>9
<1>12. parts = [k \in 1..n |-> texts[k]]
  BY <1>10, <1>11
<1> HIDE DEF parts
<1> QED
  BY <1>1, <1>5, <1>12 DEF all

\* The symbols of a text are in the join.
LEMMA CutsIn ==
  ASSUME NEW S, NEW texts \in Seq(Seq(S)), NEW mark, NEW all \in Seq(S), NEW c,
         Cuts(c, texts, mark, all), NEW k \in 1..Len(texts), NEW j \in 1..Len(texts[k])
  PROVE  c[k - 1] + j \in DOMAIN all
<1> DEFINE n == Len(texts)
<1>1. n \in Nat \ {0} /\ Len(texts[k]) \in Nat /\ Len(all) \in Nat /\ DOMAIN all = 1..Len(all)
      /\ k \in 0..n /\ k - 1 \in 0..n /\ n \in 0..n /\ k \in Nat
  OBVIOUS
<1>2. c[n] = Len(all) + 1 /\ \A i \in 0..n : c[i] \in Nat
  BY DEF Cuts
<1>3. c[k] = c[k - 1] + Len(texts[k]) + 1
  BY DEF Cuts
<1>4. c[k] \in Nat /\ c[k - 1] \in Nat /\ c[n] \in Nat
  BY <1>1, <1>2
<1>5. c[k] <= c[n]
  <2>1. CASE k = n
    BY <1>4, <2>1
  <2>2. CASE k # n
    <3>1. n \in (k + 1)..n
      BY <1>1, <2>2
    <3>2. c[k] < c[n]
      BY <1>1, <3>1, CutsGrow
    <3> QED
      BY <1>4, <3>2
  <2> QED
    BY <2>1, <2>2
<1>6. c[k - 1] + j \in 1..Len(all)
  <2>1. j \in Nat /\ 1 <= j /\ j <= Len(texts[k])
    BY <1>1
  <2>2. \A x, y, l, z, w, v \in Nat :
          y <= l /\ 1 <= y /\ z = x + l + 1 /\ z <= w /\ w = v + 1 => x + y \in 1..v
    OBVIOUS
  <2> QED
    BY <1>1, <1>2, <1>3, <1>4, <1>5, <2>1, <2>2, Zenon
<1> QED
  BY <1>1, <1>6

\* Joining adds no other mark.
LEMMA JoinWithout ==
  ASSUME NEW S, NEW mark \in S, NEW texts \in Seq(Seq(S)), Len(texts) # 0,
         NEW other, other # mark, \A k \in DOMAIN texts : Positions(texts[k], other) = {}
  PROVE  Positions(Join(texts, mark), other) = {}
<1> DEFINE n == Len(texts)
           all == Join(texts, mark)
<1>1. n \in Nat \ {0} /\ DOMAIN texts = 1..n
      /\ (\A k \in 1..n : DOMAIN texts[k] = 1..Len(texts[k]))
  OBVIOUS
<1>2. all \in Seq(S) /\ \E c : Cuts(c, texts, mark, all)
  BY JoinCuts
<1>3. PICK c : Cuts(c, texts, mark, all)
  BY <1>2
<1>4. \A k \in 0..n : c[k] \in Nat
  BY <1>1, <1>3 DEF Cuts
<1> HIDE DEF all
<1>5. SUFFICES ASSUME NEW p \in 1..Len(all), all[p] = other PROVE FALSE
  <2>1. DOMAIN all = 1..Len(all)
    BY <1>2
  <2> QED
    BY <2>1 DEF Positions, all
<1>6. \A k \in 1..(n - 1) : p # c[k]
  BY <1>3, <1>5 DEF Cuts
<1>7. PICK k \in 1..n : p - c[k - 1] \in 1..Len(texts[k])
  BY <1>2, <1>3, <1>6, CutsCover
<1>8. k - 1 \in 0..n
  BY <1>1, <1>7
<1>9. c[k - 1] + (p - c[k - 1]) = p
  <2>1. c[k - 1] \in Nat /\ p \in Int
    BY <1>4, <1>5, <1>8
  <2> QED
    BY <2>1
<1>10. all[c[k - 1] + (p - c[k - 1])] = texts[k][p - c[k - 1]]
  BY <1>3, <1>7 DEF Cuts
<1> QED
  BY <1>1, <1>5, <1>7, <1>9, <1>10 DEF Positions

LEMMA LeastIs ==
  ASSUME NEW T \in SUBSET Int, NEW x \in T, \A y \in T : x <= y
  PROVE  Min(T) = x
<1> DEFINE P(z) == \A y \in T : z <= y
<1>1. Min(T) = CHOOSE z \in T : P(z)
  BY DEF Min
<1>2. (\E z \in T : P(z)) /\ (\A z \in T : P(z) => z = x)
  OBVIOUS
<1> HIDE DEF P
<1>3. (CHOOSE z \in T : P(z)) = x
  BY <1>2
<1> QED
  BY <1>1, <1>3

LEMMA GreatestIs ==
  ASSUME NEW T \in SUBSET Int, NEW x \in T, \A y \in T : y <= x
  PROVE  Max(T) = x
<1> DEFINE P(z) == \A y \in T : z >= y
<1>1. Max(T) = CHOOSE z \in T : P(z)
  BY DEF Max
<1>2. (\E z \in T : P(z)) /\ (\A z \in T : P(z) => z = x)
  OBVIOUS
<1> HIDE DEF P
<1>3. (CHOOSE z \in T : P(z)) = x
  BY <1>2
<1> QED
  BY <1>1, <1>3

\* A text without spaces is trimmed already.
LEMMA TrimNothing ==
  ASSUME NEW S, NEW text \in Seq(S), Positions(text, Blank) = {}
  PROVE  TrimSpace(text) = text
<1>1. DOMAIN text = 1..Len(text) /\ Len(text) \in Nat
  OBVIOUS
<1>2. CASE Len(text) = 0
  BY <1>1, <1>2 DEF TrimSpace
<1>3. CASE Len(text) # 0
  <2> DEFINE ink == 1..Len(text)
  <2>1. 1 \in ink /\ Len(text) \in ink /\ (\A k \in ink : 1 <= k /\ k <= Len(text) /\ k \in Int)
    BY <1>1, <1>3
  <2>2. TrimSpace(text) = SubSeq(text, Min(ink), Max(ink))
    BY <1>1, <2>1 DEF TrimSpace
  <2> HIDE DEF ink
  <2>3. Min(ink) = 1
    BY <2>1, LeastIs
  <2>4. Max(ink) = Len(text)
    BY <2>1, GreatestIs
  <2>5. SubSeq(text, 1, Len(text)) = text
    BY <1>1
  <2> QED
    BY <2>2, <2>3, <2>4, <2>5
<1> QED
  BY <1>2, <1>3

-----------------------------------------------------------------------------
(* The depends-on annotation.                                              *)

\* The symbols of texts, and those the conversions write.
Symbols == STRING \cup Marks \cup {"namespaces", "Job", "absent"} \cup Words

IdentityType == [namespace : Text, name : Text, group : Text, kind : Text]

LEMMA TextSymbols == Text \subseteq Seq(Symbols)
  BY DEF Text, Symbols

LEMMA MarkSymbols ==
  ASSUME NEW mark \in Marks PROVE mark \in Symbols
  BY DEF Symbols

LEMMA MarksDiffer ==
  /\ {"/", Comma, Underscore, ":", "-", ".", Blank} \subseteq Marks
  /\ Underscore # ":" /\ "/" # Comma /\ "/" # Blank /\ Comma # Blank /\ Underscore # Comma /\ Underscore # "/"
  /\ "/" \notin {".", "-"} /\ Comma \notin {".", "-"} /\ Underscore \notin {".", "-"} /\ Blank \notin {".", "-"}
  BY Zenon DEF Marks, Blank, Comma, Underscore

\* What a cluster admits has none of the marks a conversion looks for.
LEMMA PlainWithout ==
  ASSUME NEW text \in Seq(Symbols), Plain(text), NEW mark \in Marks, mark \notin {".", "-"}
  PROVE  Positions(text, mark) = {}
  BY ObjectIdentityAssumption DEF Plain, Only, Positions

LEMMA WordsWithout ==
  ASSUME NEW text \in Seq(Symbols), Only(text, Words), NEW mark \in Marks
  PROVE  Positions(text, mark) = {}
  BY ObjectIdentityAssumption DEF Only, Positions

\* The parts of an entry of the annotation.
PartsOf(m) ==
  IF m.namespace = <<>> THEN <<m.group, m.kind, m.name>>
  ELSE <<m.group, <<"namespaces">>, m.namespace, m.kind, m.name>>

LEMMA FormatJoins == \A m : Format(m) = Join(PartsOf(m), "/")
  BY DEF Format, PartsOf

LEMMA PartsType ==
  ASSUME NEW m \in IdentityType
  PROVE  /\ PartsOf(m) \in Seq(Seq(Symbols)) /\ Len(PartsOf(m)) # 0 /\ Len(PartsOf(m)) \in {3, 5}
         /\ PartsOf(m)[1] = m.group
         /\ m.namespace = <<>> => Len(PartsOf(m)) = 3 /\ PartsOf(m)[2] = m.kind /\ PartsOf(m)[3] = m.name
         /\ m.namespace # <<>> => /\ Len(PartsOf(m)) = 5 /\ PartsOf(m)[2] = <<"namespaces">>
                                  /\ PartsOf(m)[3] = m.namespace /\ PartsOf(m)[4] = m.kind
                                  /\ PartsOf(m)[5] = m.name
<1>1. /\ m.namespace \in Seq(Symbols) /\ m.name \in Seq(Symbols)
      /\ m.group \in Seq(Symbols) /\ m.kind \in Seq(Symbols)
  BY TextSymbols DEF IdentityType
<1>2. <<"namespaces">> \in Seq(Symbols)
  BY DEF Symbols
<1> QED
  BY <1>1, <1>2 DEF PartsOf

\* No part of an entry has a mark that its name does not have.
LEMMA PartsWithout ==
  ASSUME NEW m \in IdentityType, Admitted(m), NEW mark \in Marks, mark \notin {".", "-"},
         Positions(m.name, mark) = {}, mark # "namespaces"
  PROVE  \A k \in DOMAIN PartsOf(m) : Positions(PartsOf(m)[k], mark) = {}
<1>1. /\ m.namespace \in Seq(Symbols) /\ m.group \in Seq(Symbols) /\ m.kind \in Seq(Symbols)
  BY TextSymbols DEF IdentityType
<1>2. /\ Positions(m.namespace, mark) = {} /\ Positions(m.group, mark) = {}
      /\ Positions(m.kind, mark) = {}
  BY <1>1, PlainWithout, WordsWithout DEF Admitted
<1>3. Positions(<<"namespaces">>, mark) = {}
  BY DEF Positions
<1>4. DOMAIN PartsOf(m) = 1..Len(PartsOf(m))
  BY PartsType
<1>5. CASE m.namespace = <<>>
  <2>1. Len(PartsOf(m)) = 3 /\ PartsOf(m)[1] = m.group /\ PartsOf(m)[2] = m.kind /\ PartsOf(m)[3] = m.name
    BY <1>5, PartsType
  <2>2. \A k \in 1..3 : k = 1 \/ k = 2 \/ k = 3
    OBVIOUS
  <2> QED
    BY <1>2, <1>4, <2>1, <2>2
<1>6. CASE m.namespace # <<>>
  <2>1. /\ Len(PartsOf(m)) = 5 /\ PartsOf(m)[1] = m.group /\ PartsOf(m)[2] = <<"namespaces">>
        /\ PartsOf(m)[3] = m.namespace /\ PartsOf(m)[4] = m.kind /\ PartsOf(m)[5] = m.name
    BY <1>6, PartsType
  <2>2. \A k \in 1..5 : k = 1 \/ k = 2 \/ k = 3 \/ k = 4 \/ k = 5
    OBVIOUS
  <2> QED
    BY <1>2, <1>3, <1>4, <2>1, <2>2
<1> QED
  BY <1>5, <1>6

LEMMA FormatType ==
  ASSUME NEW m \in IdentityType
  PROVE  Format(m) \in Seq(Symbols) /\ Positions(Format(m), "/") # {}
<1> DEFINE texts == PartsOf(m)
           all == Join(texts, "/")
<1>1. texts \in Seq(Seq(Symbols)) /\ Len(texts) # 0 /\ Len(texts) \in {3, 5} /\ "/" \in Symbols
  BY PartsType, MarkSymbols, MarksDiffer
<1> HIDE DEF texts
<1>2. all \in Seq(Symbols) /\ \E c : Cuts(c, texts, "/", all)
  BY <1>1, JoinCuts
<1>3. PICK c : Cuts(c, texts, "/", all)
  BY <1>2
<1> HIDE DEF all
<1>4. /\ 1 \in 1..(Len(texts) - 1) /\ Len(texts) \in 2..Len(texts) /\ 1 \in 1..Len(texts)
      /\ Len(texts) \in (1 + 1)..Len(texts) /\ Len(texts) \in 0..Len(texts) /\ 1 \in 0..Len(texts)
      /\ 1 \in (0 + 1)..Len(texts) /\ 0 \in 0..Len(texts)
  <2>1. CASE Len(texts) = 3
    BY <2>1
  <2>2. CASE Len(texts) = 5
    BY <2>2
  <2> QED
    BY <1>1, <2>1, <2>2
<1>5. c[0] < c[1] /\ c[1] < c[Len(texts)]
  BY <1>1, <1>2, <1>3, <1>4, CutsGrow
<1>6. c[1] \in Nat /\ c[0] = 0 /\ c[Len(texts)] = Len(all) + 1 /\ Len(all) \in Nat
  BY <1>2, <1>3, <1>4 DEF Cuts
<1>7. c[1] \in DOMAIN all
  <2>1. c[1] \in 1..Len(all)
    BY <1>5, <1>6
  <2> QED
    BY <1>2, <2>1
<1>8. all[c[1]] = "/"
  BY <1>3, <1>4 DEF Cuts
<1> QED
  BY <1>2, <1>7, <1>8, FormatJoins DEF Positions, all, texts

LEMMA FormatWithout ==
  ASSUME NEW m \in IdentityType, Admitted(m), NEW mark \in {Comma, Blank},
         Positions(m.name, mark) = {}
  PROVE  Positions(Format(m), mark) = {}
<1>1. mark \in Marks /\ mark \notin {".", "-"} /\ mark # "/" /\ "/" \in Symbols
  BY MarksDiffer, MarkSymbols
<1>2. mark # "namespaces"
  BY Zenon DEF Blank, Comma
<1>3. \A k \in DOMAIN PartsOf(m) : Positions(PartsOf(m)[k], mark) = {}
  BY <1>1, <1>2, PartsWithout
<1>4. PartsOf(m) \in Seq(Seq(Symbols)) /\ Len(PartsOf(m)) # 0
  BY PartsType
<1>5. Positions(Join(PartsOf(m), "/"), mark) = {}
  BY <1>1, <1>3, <1>4, JoinWithout
<1> QED
  BY <1>5, FormatJoins

\* What formatDependencyObjectMetadata writes, parseDependencyObjectMetadata reads.
LEMMA FormatParses ==
  ASSUME NEW m \in IdentityType, Admitted(m),
         Positions(m.name, "/") = {}, Positions(m.name, Blank) = {}
  PROVE  Understood(Format(m)) /\ ParseEntry(Format(m)) = m
<1>1. TrimSpace(Format(m)) = Format(m)
  BY FormatType, FormatWithout, TrimNothing
<1>2. PartsOf(m) \in Seq(Seq(Symbols)) /\ Len(PartsOf(m)) # 0 /\ "/" \in Symbols
  BY PartsType, MarkSymbols, MarksDiffer
<1>3. \A k \in DOMAIN PartsOf(m) : Positions(PartsOf(m)[k], "/") = {}
  <2>1. "/" # "namespaces"
    OBVIOUS
  <2> QED
    BY <2>1, PartsWithout, MarksDiffer
<1>4. Split(Join(PartsOf(m), "/"), "/") = PartsOf(m)
  BY <1>2, <1>3, SplitJoin
<1>5. Entry(Format(m)) = PartsOf(m)
  BY <1>1, <1>4, FormatJoins DEF Entry
<1>6. m = [namespace |-> m.namespace, group |-> m.group, kind |-> m.kind, name |-> m.name]
  BY DEF IdentityType
<1>7. CASE m.namespace = <<>>
  <2>1. /\ Len(PartsOf(m)) = 3 /\ PartsOf(m)[1] = m.group /\ PartsOf(m)[2] = m.kind
        /\ PartsOf(m)[3] = m.name
    BY <1>7, PartsType
  <2> QED
    BY <1>5, <1>6, <1>7, <2>1 DEF Understood, ParseEntry
<1>8. CASE m.namespace # <<>>
  <2>1. /\ Len(PartsOf(m)) = 5 /\ PartsOf(m)[1] = m.group /\ PartsOf(m)[2] = <<"namespaces">>
        /\ PartsOf(m)[3] = m.namespace /\ PartsOf(m)[4] = m.kind /\ PartsOf(m)[5] = m.name
    BY <1>8, PartsType
  <2> QED
    BY <1>5, <1>6, <2>1 DEF Understood, ParseEntry
<1> QED
  BY <1>7, <1>8

\* What WithDependencies writes for a list that is set.
Annotation(deps) == Join([k \in DOMAIN deps |-> Format(deps[k])], Comma)

\* A dependency that the annotation gives back.
Readable(m) ==
  /\ m \in IdentityType /\ Admitted(m)
  /\ Positions(m.name, "/") = {} /\ Positions(m.name, Comma) = {} /\ Positions(m.name, Blank) = {}

LEMMA FormatIsRead ==
  ASSUME NEW m, Readable(m)
  PROVE  /\ Format(m) \in Seq(Symbols)
         /\ Positions(Format(m), "/") # {} /\ Positions(Format(m), Comma) = {}
         /\ Understood(Format(m)) /\ ParseEntry(Format(m)) = m
  BY FormatType, FormatWithout, FormatParses DEF Readable

\* What SetObjectExplicitDependencies writes, ObjectExplicitDependencies reads.
LEMMA AnnotationParses ==
  ASSUME NEW deps \in Seq(IdentityType), deps # <<>>, \A k \in DOMAIN deps : Readable(deps[k])
  PROVE  ~ParseFails(Annotation(deps)) /\ Dependencies(Annotation(deps)) = deps
<1> DEFINE texts == [k \in DOMAIN deps |-> Format(deps[k])]
           all == Annotation(deps)
<1>1. /\ DOMAIN deps = 1..Len(deps) /\ Len(deps) \in Nat \ {0}
  OBVIOUS
<1>2. /\ DOMAIN texts = DOMAIN deps
      /\ \A k \in DOMAIN deps :
           /\ texts[k] = Format(deps[k]) /\ texts[k] \in Seq(Symbols)
           /\ Positions(texts[k], "/") # {} /\ Positions(texts[k], Comma) = {}
           /\ Understood(texts[k]) /\ ParseEntry(texts[k]) = deps[k]
  BY <1>1, FormatIsRead
<1>3. texts \in Seq(Seq(Symbols)) /\ Len(texts) = Len(deps) /\ Len(texts) # 0
  <2>1. texts \in [1..Len(deps) -> Seq(Symbols)]
    BY <1>1, <1>2
  <2> QED
    BY <1>1, <2>1
<1>4. Comma \in Symbols
  BY MarkSymbols, MarksDiffer
<1>5. all = Join(texts, Comma)
  BY DEF Annotation
<1> HIDE DEF texts
<1>6. Split(all, Comma) = texts
  BY <1>2, <1>3, <1>4, <1>5, SplitJoin
<1>7. all \in Seq(Symbols) /\ \E c : Cuts(c, texts, Comma, all)
  BY <1>3, <1>4, <1>5, JoinCuts
<1> HIDE DEF all
<1>8. all # NoText
  <2> SUFFICES ASSUME all = NoText PROVE FALSE
    OBVIOUS
  <2>1. PICK c : Cuts(c, texts, Comma, all)
    BY <1>7
  <2>2. PICK k \in 1..Len(texts) : k \in DOMAIN deps
    BY <1>1, <1>3
  <2>3. PICK p \in DOMAIN texts[k] : texts[k][p] = "/"
    BY <1>2, <2>2 DEF Positions
  <2>4. p \in 1..Len(texts[k])
    <3>1. texts[k] \in Seq(Symbols)
      BY <1>2, <2>2
    <3> QED
      BY <2>3, <3>1
  <2>5. c[k - 1] + p \in DOMAIN all /\ all[c[k - 1] + p] = "/"
    <3>1. c[k - 1] + p \in DOMAIN all
      BY <1>3, <1>7, <2>1, <2>4, CutsIn
    <3>2. all[c[k - 1] + p] = texts[k][p]
      BY <1>3, <1>7, <2>1, <2>4 DEF Cuts
    <3> QED
      BY <2>3, <3>1, <3>2, Zenon
  <2>6. \A q \in DOMAIN all : all[q] = "absent"
    BY DEF NoText
  <2>7. "absent" # "/"
    OBVIOUS
  <2> QED
    BY <2>5, <2>6, <2>7
<1>9. ~ParseFails(all)
  BY <1>2, <1>6 DEF ParseFails
<1>10. Dependencies(all) = [k \in DOMAIN texts |-> ParseEntry(texts[k])]
  BY <1>6, <1>8 DEF Dependencies
<1>11. [k \in DOMAIN texts |-> ParseEntry(texts[k])] = deps
  <2>1. deps = [k \in DOMAIN deps |-> deps[k]]
    BY <1>1
  <2> QED
    BY <1>2, <2>1
<1> QED
  BY <1>9, <1>10, <1>11 DEF all

-----------------------------------------------------------------------------
(* The keys of the inventory.                                              *)

LEMMA ThreeElements ==
  ASSUME NEW x, NEW y, NEW z, x # y, x # z, y # z, NEW T, {x, y, z} \subseteq T, IsFiniteSet(T)
  PROVE  Cardinality(T) >= 3
<1>1. IsFiniteSet({x}) /\ Cardinality({x}) = 1
  BY FS_Singleton
<1>2. IsFiniteSet({x} \cup {y}) /\ Cardinality({x} \cup {y}) = 2
  <2>1. y \notin {x}
    OBVIOUS
  <2> QED
    BY <1>1, <2>1, FS_AddElement
<1>3. IsFiniteSet(({x} \cup {y}) \cup {z}) /\ Cardinality(({x} \cup {y}) \cup {z}) = 3
  <2> DEFINE two == {x} \cup {y}
  <2>1. z \notin two /\ IsFiniteSet(two) /\ Cardinality(two) = 2
    BY <1>2
  <2> HIDE DEF two
  <2>2. IsFiniteSet(two \cup {z}) /\ Cardinality(two \cup {z}) = 3
    BY <2>1, FS_AddElement
  <2> QED
    BY <2>2 DEF two
<1>4. ({x} \cup {y}) \cup {z} = {x, y, z}
  OBVIOUS
<1>5. Cardinality({x, y, z}) <= Cardinality(T) /\ Cardinality(T) \in Nat
  BY FS_Subset, FS_CardinalityType
<1> QED
  BY <1>3, <1>4, <1>5

\* The four texts of a key.
FourTexts(a, b, c, d) == <<a, b, c, d>>

LEMMA FourTextsType ==
  ASSUME NEW S, NEW a \in Seq(S), NEW b \in Seq(S), NEW c \in Seq(S), NEW d \in Seq(S)
  PROVE  /\ FourTexts(a, b, c, d) \in Seq(Seq(S)) /\ Len(FourTexts(a, b, c, d)) = 4
         /\ FourTexts(a, b, c, d)[1] = a /\ FourTexts(a, b, c, d)[2] = b
         /\ FourTexts(a, b, c, d)[3] = c /\ FourTexts(a, b, c, d)[4] = d
  BY DEF FourTexts

\* Where the underscores of a key are, when only its name has underscores of its own.
LEMMA KeyCuts ==
  ASSUME NEW S, NEW texts \in Seq(Seq(S)), Len(texts) = 4, NEW key \in Seq(S),
         NEW c, Cuts(c, texts, Underscore, key),
         Positions(texts[1], Underscore) = {}, Positions(texts[3], Underscore) = {}, Positions(texts[4], Underscore) = {}
  PROVE  /\ Separators(key) = <<c[1], c[2], c[3]>> /\ Cardinality(Positions(key, Underscore)) >= 3
         /\ c[0] = 0 /\ c[4] = Len(key) + 1 /\ c[1] \in Nat /\ c[2] \in Nat /\ c[3] \in Nat
<1> DEFINE all == Positions(key, Underscore)
<1>1. /\ c[0] = 0 /\ c[4] = Len(key) + 1 /\ Len(key) \in Nat /\ DOMAIN key = 1..Len(key)
      /\ c[1] \in Nat /\ c[2] \in Nat /\ c[3] \in Nat /\ c[4] \in Nat
  <2>1. 0 \in 0..4 /\ 1 \in 0..4 /\ 2 \in 0..4 /\ 3 \in 0..4 /\ 4 \in 0..4
    OBVIOUS
  <2>2. (\A k \in 0..4 : c[k] \in Nat) /\ c[0] = 0 /\ c[4] = Len(key) + 1
    BY DEF Cuts
  <2> QED
    BY <2>1, <2>2
<1>0. \A k \in 0..4 : c[k] \in Nat
  BY DEF Cuts
<1>2. c[0] < c[1] /\ c[1] < c[2] /\ c[2] < c[3] /\ c[3] < c[4]
  <2>1. /\ 0 \in 0..4 /\ 1 \in 0..4 /\ 2 \in 0..4 /\ 3 \in 0..4
        /\ 1 \in (0 + 1)..4 /\ 2 \in (1 + 1)..4 /\ 3 \in (2 + 1)..4 /\ 4 \in (3 + 1)..4
    OBVIOUS
  <2>2. \A i \in 0..4 : \A j \in (i + 1)..4 : c[i] < c[j]
    BY CutsGrow
  <2> QED
    BY <2>1, <2>2
<1>3. c[1] \in all /\ c[2] \in all /\ c[3] \in all
  <2>1. 1 \in 1..(4 - 1) /\ 2 \in 1..(4 - 1) /\ 3 \in 1..(4 - 1)
    OBVIOUS
  <2>2. \A k \in 1..(4 - 1) : key[c[k]] = Underscore
    BY DEF Cuts
  <2>3. key[c[1]] = Underscore /\ key[c[2]] = Underscore /\ key[c[3]] = Underscore
    BY <2>1, <2>2
  <2>4. c[1] \in 1..Len(key) /\ c[2] \in 1..Len(key) /\ c[3] \in 1..Len(key)
    BY <1>1, <1>2
  <2> QED
    BY <1>1, <2>3, <2>4 DEF Positions
<1>4. ASSUME NEW p \in all
      PROVE  p = c[1] \/ (c[1] < p /\ p < c[2]) \/ p = c[2] \/ p = c[3]
  <2>1. p \in 1..Len(key) /\ key[p] = Underscore /\ p \in Nat
    BY <1>1 DEF Positions
  <2>2. \/ \E k \in 1..(Len(texts) - 1) : p = c[k]
        \/ \E k \in 1..Len(texts) : p - c[k - 1] \in 1..Len(texts[k])
    BY <2>1, CutsCover
  <2>3. CASE \E k \in 1..(Len(texts) - 1) : p = c[k]
    <3>1. PICK k \in 1..3 : p = c[k]
      BY <2>3
    <3>2. k = 1 \/ k = 2 \/ k = 3
      OBVIOUS
    <3> QED
      BY <3>1, <3>2
  <2>4. CASE \E k \in 1..Len(texts) : p - c[k - 1] \in 1..Len(texts[k])
    <3>1. PICK k \in 1..4 : p - c[k - 1] \in 1..Len(texts[k])
      BY <2>4
    <3>2. k = 1 \/ k = 2 \/ k = 3 \/ k = 4
      OBVIOUS
    <3>3. c[k - 1] \in Nat /\ c[k] \in Nat /\ k \in 1..Len(texts) /\ texts[k] \in Seq(S)
      <4>1. k - 1 \in 0..4 /\ k \in 0..4 /\ k \in 1..Len(texts)
        OBVIOUS
      <4>2. texts[k] \in Seq(S)
        BY <4>1, ElementOfSeq
      <4> QED
        BY <1>0, <4>1, <4>2
    <3>4. c[k - 1] + (p - c[k - 1]) = p
      BY <2>1, <3>3
    <3>5. key[c[k - 1] + (p - c[k - 1])] = texts[k][p - c[k - 1]]
      BY <3>1, <3>3 DEF Cuts
    <3>6. p - c[k - 1] \in Positions(texts[k], Underscore)
      BY <2>1, <3>1, <3>3, <3>4, <3>5 DEF Positions
    <3>7. k = 2
      BY <3>2, <3>6
    <3>8. c[k] = c[k - 1] + Len(texts[k]) + 1 /\ Len(texts[k]) \in Nat
      <4>1. c[k] = c[k - 1] + Len(texts[k]) + 1
        BY <3>3 DEF Cuts
      <4> QED
        BY <3>3, <4>1
    <3>9. c[k - 1] < p /\ p < c[k]
      BY <2>1, <3>1, <3>3, <3>8
    <3> QED
      BY <3>7, <3>9
  <2> QED
    BY <2>2, <2>3, <2>4
<1>5. all \in SUBSET Int
  <2>1. all \subseteq 1..Len(key)
    BY <1>1 DEF Positions
  <2> QED
    BY <2>1
<1>6. Cardinality(all) >= 3
  <2>1. all \subseteq 1..Len(key) /\ IsFiniteSet(1..Len(key))
    BY <1>1, FS_Interval DEF Positions
  <2>2. IsFiniteSet(all)
    BY <2>1, FS_Subset
  <2>3. c[1] # c[2] /\ c[1] # c[3] /\ c[2] # c[3] /\ {c[1], c[2], c[3]} \subseteq all
    BY <1>1, <1>2, <1>3
  <2> HIDE DEF all
  <2> QED
    BY <2>2, <2>3, ThreeElements
<1> HIDE DEF all
<1>7. Min(all) = c[1]
  <2>1. ASSUME NEW p \in all PROVE c[1] <= p
    <3>1. p \in Int /\ (p = c[1] \/ (c[1] < p /\ p < c[2]) \/ p = c[2] \/ p = c[3])
      BY <1>4, <1>5
    <3> QED
      BY <1>1, <1>2, <3>1
  <2> QED
    BY <1>3, <1>5, <2>1, LeastIs
<1>8. Max(all) = c[3]
  <2>1. ASSUME NEW p \in all PROVE p <= c[3]
    <3>1. p \in Int /\ (p = c[1] \/ (c[1] < p /\ p < c[2]) \/ p = c[2] \/ p = c[3])
      BY <1>4, <1>5
    <3> QED
      BY <1>1, <1>2, <3>1
  <2> QED
    BY <1>3, <1>5, <2>1, GreatestIs
<1>9. Max(all \ {c[3]}) = c[2]
  <2> DEFINE rest == all \ {c[3]}
  <2>1. ASSUME NEW p \in rest PROVE p <= c[2]
    <3>1. p \in Int /\ (p = c[1] \/ (c[1] < p /\ p < c[2]) \/ p = c[2])
      BY <1>4, <1>5
    <3> QED
      BY <1>1, <1>2, <3>1
  <2>2. c[2] # c[3]
    BY <1>1, <1>2
  <2>3. c[2] \in rest /\ rest \in SUBSET Int
    BY <1>3, <1>5, <2>2
  <2> HIDE DEF rest
  <2>4. Max(rest) = c[2]
    BY <2>1, <2>3, GreatestIs
  <2> QED
    BY <2>4 DEF rest
<1>10. Separators(key) = <<c[1], c[2], c[3]>>
  BY <1>7, <1>8, <1>9 DEF Separators, all
<1> QED
  BY <1>1, <1>6, <1>10 DEF all

\* What is read in a key of four texts.
KeyHolds(key, a, b, g, k) ==
  /\ Fields(key) = [namespace |-> a, name |-> b, group |-> g, kind |-> k]
  /\ Cardinality(Positions(key, Underscore)) >= 3
  /\ \A i \in 1..Len(b) : \E p \in DOMAIN key : key[p] = b[i]

\* The submatches of a key are the texts it was written from.
LEMMA KeyFields ==
  ASSUME NEW S, Underscore \in S, NEW a \in Seq(S), NEW b \in Seq(S), NEW g \in Seq(S), NEW k \in Seq(S),
         Positions(a, Underscore) = {}, Positions(g, Underscore) = {}, Positions(k, Underscore) = {}
  PROVE  KeyHolds(Join(FourTexts(a, b, g, k), Underscore), a, b, g, k)
<1> DEFINE texts == FourTexts(a, b, g, k)
           key == Join(texts, Underscore)
<1>1. /\ texts \in Seq(Seq(S)) /\ Len(texts) = 4
      /\ texts[1] = a /\ texts[2] = b /\ texts[3] = g /\ texts[4] = k
  BY FourTextsType
<1> HIDE DEF texts
<1>0. Len(texts) # 0
  BY <1>1
<1>2. key \in Seq(S) /\ \E c : Cuts(c, texts, Underscore, key)
  BY <1>0, <1>1, JoinCuts
<1> HIDE DEF key
<1>3. PICK c : Cuts(c, texts, Underscore, key)
  BY <1>2
<1>4. /\ Separators(key) = <<c[1], c[2], c[3]>> /\ Cardinality(Positions(key, Underscore)) >= 3
      /\ c[0] = 0 /\ c[4] = Len(key) + 1 /\ c[1] \in Nat /\ c[2] \in Nat /\ c[3] \in Nat
  BY <1>1, <1>2, <1>3, KeyCuts
<1>5. \A i \in 1..4 : SubSeq(key, c[i - 1] + 1, c[i] - 1) = texts[i]
  <2>1. ASSUME NEW i \in 1..Len(texts) PROVE SubSeq(key, c[i - 1] + 1, c[i] - 1) = texts[i]
    <3>1. texts \in Seq(Seq(S)) /\ key \in Seq(S)
      BY <1>1, <1>2
    <3> QED
      BY <1>3, <3>1, CutsPiece
  <2> QED
    BY <1>1, <2>1, Zenon
<1>6. /\ SubSeq(key, c[0] + 1, c[1] - 1) = a /\ SubSeq(key, c[1] + 1, c[2] - 1) = b
      /\ SubSeq(key, c[2] + 1, c[3] - 1) = g /\ SubSeq(key, c[3] + 1, c[4] - 1) = k
  <2>1. 1 \in 1..4 /\ 2 \in 1..4 /\ 3 \in 1..4 /\ 4 \in 1..4 /\ 1 - 1 = 0 /\ 2 - 1 = 1 /\ 3 - 1 = 2 /\ 4 - 1 = 3
    OBVIOUS
  <2> QED
    BY <1>1, <1>5, <2>1
<1>7. c[0] + 1 = 1 /\ c[4] - 1 = Len(key)
  <2>1. Len(key) \in Nat
    BY <1>2
  <2> QED
    BY <1>4, <2>1
<1>8. Fields(key) = [namespace |-> a, name |-> b, group |-> g, kind |-> k]
  <2> DEFINE s == Separators(key)
  <2>1. s[1] = c[1] /\ s[2] = c[2] /\ s[3] = c[3]
    BY <1>4
  <2>2. Fields(key) = [namespace |-> SubSeq(key, 1, s[1] - 1),
                       name      |-> SubSeq(key, s[1] + 1, s[2] - 1),
                       group     |-> SubSeq(key, s[2] + 1, s[3] - 1),
                       kind      |-> SubSeq(key, s[3] + 1, Len(key))]
    BY Zenon DEF Fields
  <2> HIDE DEF s
  <2>3. SubSeq(key, 1, s[1] - 1) = a /\ SubSeq(key, s[3] + 1, Len(key)) = k
    BY <1>6, <1>7, <2>1, Zenon
  <2>4. SubSeq(key, s[1] + 1, s[2] - 1) = b /\ SubSeq(key, s[2] + 1, s[3] - 1) = g
    BY <1>6, <2>1, Zenon
  <2> QED
    BY <2>2, <2>3, <2>4, Zenon
<1>9. ASSUME NEW i \in 1..Len(b) PROVE \E p \in DOMAIN key : key[p] = b[i]
  <2>1. 2 \in 1..Len(texts) /\ i \in 1..Len(texts[2])
    BY <1>1
  <2>2. c[2 - 1] + i \in DOMAIN key
    BY <1>1, <1>2, <1>3, <2>1, CutsIn
  <2>3. key[c[2 - 1] + i] = texts[2][i]
    BY <1>3, <2>1 DEF Cuts
  <2> QED
    BY <1>1, <2>2, <2>3
<1> QED
  BY <1>4, <1>8, <1>9 DEF key, texts, KeyHolds

\* How many underscores in a row end at a position.
RunSet(name, i) == {j \in 1..i : \A k \in j..i : name[k] = Underscore}
Run(name, i) == Cardinality(RunSet(name, i))

LEMMA RunType ==
  ASSUME NEW name, NEW i \in Nat
  PROVE  IsFiniteSet(RunSet(name, i)) /\ Run(name, i) \in Nat
<1>1. IsFiniteSet(1..i) /\ RunSet(name, i) \subseteq 1..i
  BY FS_Interval DEF RunSet
<1> QED
  BY <1>1, FS_Subset, FS_CardinalityType DEF Run

LEMMA RunStart ==
  ASSUME NEW name, NEW i \in Nat, i = 0 \/ name[i] # Underscore
  PROVE  Run(name, i) = 0
<1>1. RunSet(name, i) = {}
  BY DEF RunSet
<1> QED
  BY <1>1, FS_EmptySet DEF Run

LEMMA RunNext ==
  ASSUME NEW name, NEW i \in Nat, name[i + 1] = Underscore
  PROVE  Run(name, i + 1) = Run(name, i) + 1
<1>1. RunSet(name, i + 1) = RunSet(name, i) \cup {i + 1}
  <2>1. ASSUME NEW j \in 1..(i + 1) PROVE j \in 1..i \/ j = i + 1
    OBVIOUS
  <2>2. ASSUME NEW j \in 1..i
        PROVE  (\A k \in j..(i + 1) : name[k] = Underscore) <=> (\A k \in j..i : name[k] = Underscore)
    <3>1. \A k \in j..(i + 1) : k \in j..i \/ k = i + 1
      OBVIOUS
    <3>2. \A k \in j..i : k \in j..(i + 1)
      OBVIOUS
    <3> QED
      BY <3>1, <3>2
  <2>3. \A k \in (i + 1)..(i + 1) : k = i + 1
    OBVIOUS
  <2>4. \A j \in 1..i : j \in 1..(i + 1)
    OBVIOUS
  <2>5. i + 1 \in 1..(i + 1)
    OBVIOUS
  <2> QED
    BY <2>1, <2>2, <2>3, <2>4, <2>5 DEF RunSet
<1>2. i + 1 \notin RunSet(name, i)
  BY DEF RunSet
<1> QED
  BY <1>1, <1>2, RunType, FS_AddElement DEF Run

\* The pieces the two replacements are made of.
ReplacedPieces(name) ==
  [i \in DOMAIN name |-> IF name[i] = ":" THEN <<Underscore, Underscore>> ELSE <<name[i]>>]

RestoredPieces(name) ==
  [i \in DOMAIN name |->
     IF Run(name, i) % 2 = 0 THEN (IF name[i] = Underscore THEN <<":">> ELSE <<name[i]>>)
     ELSE IF i < Len(name) /\ name[i + 1] = Underscore THEN <<>> ELSE <<Underscore>>]

LEMMA ReplacedIs == \A name : ColonsReplaced(name) = FlattenSeq(ReplacedPieces(name))
  BY DEF ColonsReplaced, ReplacedPieces

LEMMA RestoredIs == \A name : ColonsRestored(name) = FlattenSeq(RestoredPieces(name))
  BY Zenon DEF ColonsRestored, RestoredPieces, Run, RunSet

LEMMA ReplacedPiece ==
  ASSUME NEW S, Underscore \in S, NEW name \in Seq(S)
  PROVE  /\ ReplacedPieces(name) \in Seq(Seq(S)) /\ Len(ReplacedPieces(name)) = Len(name)
         /\ \A i \in 1..Len(name) :
              /\ name[i] = ":" => /\ Len(ReplacedPieces(name)[i]) = 2
                                  /\ ReplacedPieces(name)[i][1] = Underscore
                                  /\ ReplacedPieces(name)[i][2] = Underscore
              /\ name[i] # ":" => /\ Len(ReplacedPieces(name)[i]) = 1
                                  /\ ReplacedPieces(name)[i][1] = name[i]
<1>1. DOMAIN name = 1..Len(name) /\ Len(name) \in Nat /\ (\A i \in 1..Len(name) : name[i] \in S)
  OBVIOUS
<1> DEFINE pieces == ReplacedPieces(name)
<1>2. pieces = [i \in 1..Len(name) |-> IF name[i] = ":" THEN <<Underscore, Underscore>> ELSE <<name[i]>>]
  BY <1>1 DEF ReplacedPieces
<1> HIDE DEF pieces
<1>3. \A i \in 1..Len(name) : pieces[i] \in Seq(S)
  <2> TAKE i \in 1..Len(name)
  <2>1. <<Underscore, Underscore>> \in Seq(S) /\ <<name[i]>> \in Seq(S)
    BY <1>1
  <2> QED
    BY <1>2, <2>1
<1>4. pieces \in Seq(Seq(S)) /\ Len(pieces) = Len(name)
  BY <1>1, <1>2, <1>3
<1> QED
  BY <1>2, <1>4 DEF pieces

LEMMA RestoredPiece ==
  ASSUME NEW S, Underscore \in S, ":" \in S, NEW name \in Seq(S)
  PROVE  /\ RestoredPieces(name) \in Seq(Seq(S)) /\ Len(RestoredPieces(name)) = Len(name)
         /\ \A i \in 1..Len(name) :
              RestoredPieces(name)[i] =
                IF Run(name, i) % 2 = 0 THEN (IF name[i] = Underscore THEN <<":">> ELSE <<name[i]>>)
                ELSE IF i < Len(name) /\ name[i + 1] = Underscore THEN <<>> ELSE <<Underscore>>
<1>1. DOMAIN name = 1..Len(name) /\ Len(name) \in Nat /\ (\A i \in 1..Len(name) : name[i] \in S)
  OBVIOUS
<1> DEFINE piece(i) ==
             IF Run(name, i) % 2 = 0 THEN (IF name[i] = Underscore THEN <<":">> ELSE <<name[i]>>)
             ELSE IF i < Len(name) /\ name[i + 1] = Underscore THEN <<>> ELSE <<Underscore>>
           pieces == RestoredPieces(name)
<1>2. pieces = [i \in 1..Len(name) |-> piece(i)]
  BY <1>1 DEF RestoredPieces
<1>3. \A i \in 1..Len(name) : piece(i) \in Seq(S)
  <2> TAKE i \in 1..Len(name)
  <2>1. <<":">> \in Seq(S) /\ <<Underscore>> \in Seq(S) /\ <<name[i]>> \in Seq(S) /\ <<>> \in Seq(S)
    BY <1>1
  <2> QED
    BY <2>1
<1> HIDE DEF pieces, piece
<1>4. pieces \in Seq(Seq(S)) /\ Len(pieces) = Len(name)
  BY <1>1, <1>2, <1>3
<1>5. \A i \in 1..Len(name) : pieces[i] = piece(i)
  BY <1>2
<1> QED
  BY <1>4, <1>5, Zenon DEF pieces, piece

LEMMA Parity == \A x \in Nat : x % 2 = 0 => (x + 1) % 2 # 0 /\ (x + 1 + 1) % 2 = 0
  OBVIOUS

\* A name without underscores comes back from its key.
LEMMA ColonsComeBack ==
  ASSUME NEW S, Underscore \in S, ":" \in S, Underscore # ":",
         NEW name \in Seq(S), Positions(name, Underscore) = {}
  PROVE  ColonsRestored(ColonsReplaced(name)) = name
<1> DEFINE n == Len(name)
           P == ReplacedPieces(name)
           R == FlattenSeq(P)
           Q == RestoredPieces(R)
           T == FlattenSeq(Q)
<1>1. n \in Nat /\ DOMAIN name = 1..n /\ (\A i \in 1..n : name[i] \in S /\ name[i] # Underscore)
  BY DEF Positions
<1>2. /\ P \in Seq(Seq(S)) /\ Len(P) = n
      /\ \A i \in 1..n :
           /\ name[i] = ":" => Len(P[i]) = 2 /\ P[i][1] = Underscore /\ P[i][2] = Underscore
           /\ name[i] # ":" => Len(P[i]) = 1 /\ P[i][1] = name[i]
  BY ReplacedPiece
<1> HIDE DEF P
<1>3. PICK e :
        /\ Ends(e, P) /\ R \in Seq(S) /\ Len(R) = e[Len(P)]
        /\ \A k \in 1..Len(P) : \A j \in 1..Len(P[k]) : R[e[k - 1] + j] = P[k][j]
  <2>1. P \in Seq(Seq(S))
    BY <1>2
  <2> QED
    BY <2>1, Pieces
<1>4. /\ e[0] = 0 /\ Len(R) = e[n] /\ (\A k \in 0..n : e[k] \in Nat)
      /\ \A k \in 1..n : e[k] = e[k - 1] + Len(P[k])
      /\ \A k \in 1..n : \A j \in 1..Len(P[k]) : R[e[k - 1] + j] = P[k][j]
  BY <1>2, <1>3 DEF Ends
<1>5. \A i \in 0..n : \A j \in i..n : e[i] <= e[j]
  BY <1>2, <1>3, EndsGrow
<1> HIDE DEF R, n
<1>6. /\ Q \in Seq(Seq(S)) /\ Len(Q) = Len(R)
      /\ \A i \in 1..Len(R) :
           Q[i] = IF Run(R, i) % 2 = 0 THEN (IF R[i] = Underscore THEN <<":">> ELSE <<R[i]>>)
                  ELSE IF i < Len(R) /\ R[i + 1] = Underscore THEN <<>> ELSE <<Underscore>>
  BY <1>3, RestoredPiece
<1> HIDE DEF Q
<1>7. PICK d :
        /\ Ends(d, Q) /\ T \in Seq(S) /\ Len(T) = d[Len(Q)]
        /\ \A k \in 1..Len(Q) : \A j \in 1..Len(Q[k]) : T[d[k - 1] + j] = Q[k][j]
  <2>1. Q \in Seq(Seq(S))
    BY <1>6
  <2> QED
    BY <2>1, Pieces
<1>8. /\ d[0] = 0 /\ Len(T) = d[Len(R)] /\ (\A k \in 0..Len(R) : d[k] \in Nat)
      /\ \A k \in 1..Len(R) : d[k] = d[k - 1] + Len(Q[k])
      /\ \A k \in 1..Len(R) : \A j \in 1..Len(Q[k]) : T[d[k - 1] + j] = Q[k][j]
  BY <1>6, <1>7 DEF Ends
<1> HIDE DEF T
<1>9. Len(R) \in Nat /\ \A k \in 0..n : e[k] \in 0..Len(R)
  <2>1. Len(R) \in Nat
    BY <1>3
  <2>2. \A k \in 0..n : n \in k..n
    BY <1>1
  <2> QED
    BY <1>4, <1>5, <2>1, <2>2
<1> DEFINE Good(k) == d[e[k]] = k /\ Run(R, e[k]) % 2 = 0
<1>10. ASSUME NEW k \in 1..n, Good(k - 1)
       PROVE  Good(k) /\ T[k] = name[k]
  <2> DEFINE q == e[k - 1]
  <2>1. k \in Nat /\ k - 1 \in 0..n /\ k \in 0..n
    BY <1>1
  <2>2. /\ q \in Nat /\ e[k] \in 0..Len(R) /\ e[k] = q + Len(P[k])
        /\ d[q] = k - 1 /\ Run(R, q) % 2 = 0
        /\ \A j \in 1..Len(P[k]) : R[q + j] = P[k][j]
    BY <1>4, <1>9, <1>10, <2>1
  <2>3. Run(R, q) \in Nat
    BY <2>2, RunType
  <2> HIDE DEF q
  <2>4. CASE name[k] # ":"
    <3>1. Len(P[k]) = 1 /\ P[k][1] = name[k] /\ 1 \in 1..1
      BY <1>2, <2>4
    <3>2. e[k] = q + 1 /\ R[q + 1] = name[k] /\ R[q + 1] # Underscore
      BY <1>1, <2>2, <3>1
    <3>3. q + 1 \in Nat /\ q + 1 \in 1..Len(R) /\ (q + 1) - 1 = q
      BY <1>9, <2>2, <3>2
    <3>4. Run(R, q + 1) = 0
      BY <3>2, <3>3, RunStart
    <3>5. Q[q + 1] = <<name[k]>>
      <4>1. Run(R, q + 1) % 2 = 0
        BY <3>4
      <4> QED
        BY <1>6, <3>2, <3>3, <4>1
    <3>6. Len(Q[q + 1]) = 1 /\ Q[q + 1][1] = name[k]
      BY <3>5
    <3>7. d[q + 1] = d[q] + 1 /\ T[d[q] + 1] = name[k]
      BY <1>8, <3>1, <3>3, <3>6
    <3>8. (k - 1) + 1 = k
      BY <2>1
    <3> QED
      BY <2>2, <3>2, <3>4, <3>7, <3>8
  <2>5. CASE name[k] = ":"
    <3>1. Len(P[k]) = 2 /\ P[k][1] = Underscore /\ P[k][2] = Underscore /\ 1 \in 1..2 /\ 2 \in 1..2
      BY <1>2, <2>5
    <3>2. e[k] = q + 2 /\ R[q + 1] = Underscore /\ R[q + 2] = Underscore
      BY <2>2, <3>1
    <3>3. /\ q + 1 \in Nat /\ q + 1 \in 1..Len(R) /\ (q + 1) - 1 = q /\ q + 1 < Len(R)
          /\ q + 2 \in 1..Len(R) /\ (q + 2) - 1 = q + 1 /\ q + 1 + 1 = q + 2
      BY <1>9, <2>2, <3>2
    <3>4. Run(R, q + 1) = Run(R, q) + 1
      BY <2>2, <3>2, RunNext
    <3>5. Run(R, q + 1 + 1) = Run(R, q + 1) + 1
      BY <3>2, <3>3, RunNext
    <3>6. Run(R, q + 1) % 2 # 0 /\ Run(R, q + 2) % 2 = 0
      BY <2>2, <2>3, <3>3, <3>4, <3>5, Parity
    <3>7. Q[q + 1] = <<>>
      BY <1>6, <3>2, <3>3, <3>6
    <3>8. Q[q + 2] = <<":">>
      BY <1>6, <3>2, <3>3, <3>6
    <3>9. Len(Q[q + 1]) = 0 /\ Len(Q[q + 2]) = 1 /\ Q[q + 2][1] = ":" /\ 1 \in 1..1
      BY <3>7, <3>8
    <3>10. d[q + 1] = d[q]
      BY <1>8, <1>9, <2>2, <3>3, <3>9
    <3>11. d[q + 2] = d[q] + 1 /\ T[d[q] + 1] = ":"
      <4>1. d[q + 2] = d[(q + 2) - 1] + Len(Q[q + 2])
        BY <1>8, <3>3
      <4>2. T[d[(q + 2) - 1] + 1] = Q[q + 2][1]
        BY <1>8, <3>3, <3>9
      <4> QED
        BY <3>3, <3>9, <3>10, <4>1, <4>2, Zenon
    <3>12. (k - 1) + 1 = k
      BY <2>1
    <3> QED
      BY <2>2, <2>5, <3>2, <3>6, <3>11, <3>12
  <2> QED
    BY <2>4, <2>5
<1>11. \A k \in 0..n : Good(k)
  <2>1. Good(0)
    <3>1. Run(R, 0) = 0 /\ 0 % 2 = 0
      BY RunStart
    <3> QED
      BY <1>4, <1>8, <3>1
  <2> DEFINE Bad == {k \in 0..n : ~Good(k)}
  <2> SUFFICES ASSUME Bad # {} PROVE FALSE
    OBVIOUS
  <2> HIDE DEF Good
  <2>2. PICK m \in Bad : \A k \in Bad : m <= k
    <3>1. Bad \subseteq Nat
      BY <1>1
    <3> HIDE DEF Bad
    <3> QED
      BY <3>1, LeastElement
  <2>3. m \in 1..n /\ m - 1 \in 0..n /\ m - 1 \notin Bad /\ ~Good(m)
    BY <1>1, <2>1, <2>2
  <2> QED
    BY <1>10, <2>3
<1>12. \A k \in 1..n : T[k] = name[k]
  <2> TAKE k \in 1..n
  <2>1. k - 1 \in 0..n
    BY <1>1
  <2> HIDE DEF Good
  <2> QED
    BY <1>10, <1>11, <2>1
<1>13. Len(T) = n
  <2>1. n \in 0..n
    BY <1>1
  <2> QED
    BY <1>4, <1>8, <1>11, <2>1
<1>14. T = name
  BY <1>7, <1>12, <1>13, SameSequence DEF n
<1> QED
  BY <1>14, ReplacedIs, RestoredIs DEF T, Q, R, P

LEMMA FlattenBegins ==
  ASSUME NEW S, NEW seqs \in Seq(Seq(S)), Len(seqs) # 0, Len(seqs[1]) = 1
  PROVE  /\ FlattenSeq(seqs) \in Seq(S) /\ Len(FlattenSeq(seqs)) > 0
         /\ FlattenSeq(seqs)[1] = seqs[1][1]
<1> DEFINE all == FlattenSeq(seqs)
           n == Len(seqs)
<1>1. PICK e :
        /\ Ends(e, seqs) /\ all \in Seq(S) /\ Len(all) = e[Len(seqs)]
        /\ \A k \in 1..Len(seqs) : \A j \in 1..Len(seqs[k]) : all[e[k - 1] + j] = seqs[k][j]
  BY Pieces
<1>2. n \in Nat /\ 1 \in 1..n /\ 1 \in 0..n /\ n \in 1..n /\ n \in 0..n /\ 1 \in 1..1
  OBVIOUS
<1>3. e[0] = 0 /\ e[1] = e[0] + 1 /\ e[1] \in Nat /\ e[n] \in Nat
  <2>1. e[1] = e[1 - 1] + Len(seqs[1]) /\ e[0] = 0 /\ e[n] \in Nat /\ e[1] \in Nat
    BY <1>1, <1>2 DEF Ends
  <2> QED
    BY <2>1
<1>4. e[1] <= e[n]
  BY <1>1, <1>2, EndsGrow
<1>5. all[e[0] + 1] = seqs[1][1]
  BY <1>1, <1>2
<1> HIDE DEF all
<1> QED
  BY <1>1, <1>3, <1>4, <1>5 DEF all

LEMMA ReplacedBegins ==
  ASSUME NEW S, Underscore \in S, NEW name \in Seq(S)
  PROVE  /\ ColonsReplaced(name) \in Seq(S)
         /\ Len(name) > 0 /\ name[1] # ":" =>
              Len(ColonsReplaced(name)) > 0 /\ ColonsReplaced(name)[1] = name[1]
<1> DEFINE P == ReplacedPieces(name)
<1>1. P \in Seq(Seq(S)) /\ Len(P) = Len(name)
  BY ReplacedPiece
<1>2. ColonsReplaced(name) = FlattenSeq(P)
  BY ReplacedIs
<1>3. FlattenSeq(P) \in Seq(S)
  <2> HIDE DEF P
  <2> QED
    BY <1>1, Pieces
<1>4. ASSUME Len(name) > 0, name[1] # ":"
      PROVE  Len(FlattenSeq(P)) > 0 /\ FlattenSeq(P)[1] = name[1]
  <2>1. 1 \in 1..Len(name) /\ Len(P) # 0
    BY <1>1, <1>4
  <2>2. Len(P[1]) = 1 /\ P[1][1] = name[1]
    BY <1>4, <2>1, ReplacedPiece
  <2> HIDE DEF P
  <2> QED
    BY <1>1, <2>1, <2>2, FlattenBegins
<1> QED
  BY <1>2, <1>3, <1>4

LEMMA RestoredBegins ==
  ASSUME NEW S, Underscore \in S, ":" \in S, NEW name \in Seq(S), Len(name) > 0, name[1] # Underscore
  PROVE  ColonsRestored(name) # <<>>
<1> DEFINE Q == RestoredPieces(name)
<1>1. Q \in Seq(Seq(S)) /\ Len(Q) = Len(name) /\ Len(name) # 0 /\ 1 \in 1..Len(name)
  BY RestoredPiece
<1>2. Run(name, 1) % 2 = 0
  <2>1. Run(name, 1) = 0
    BY RunStart
  <2> QED
    BY <2>1
<1>3. Q[1] = <<name[1]>>
  BY <1>1, <1>2, RestoredPiece
<1> HIDE DEF Q
<1>4. Len(Q[1]) = 1
  BY <1>3
<1>5. Len(FlattenSeq(Q)) > 0
  BY <1>1, <1>4, FlattenBegins
<1> QED
  BY <1>5, RestoredIs DEF Q

-----------------------------------------------------------------------------
(* The spelling of the objects of a run.                                   *)

\* What the objects of a run are, and that an object of a kind of cluster scope
\* comes without a namespace from a reader that looks at scopes.
ObjectsInv ==
  /\ objs \in Seq({objs[i] : i \in DOMAIN objs})
  /\ \A i \in DOMAIN objs : {"kind", "namespace"} \subseteq DOMAIN objs[i]
  /\ checked => \A i \in DOMAIN objs :
       ScopeOf[objs[i].kind] = "cluster" => objs[i].namespace = <<>>

\* A tracked object that was found is where its key says.
StartingInv ==
  \A m \in starting :
    /\ m = [namespace |-> m.namespace, name |-> m.name, group |-> m.group, kind |-> m.kind]
    /\ m.namespace = <<>> <=> ScopeOf[m.kind] = "cluster"

SpellingInv == ObjectsInv /\ StartingInv

\* The elements of a selection are elements of the sequence it is taken from.
LEMMA SelectedIsPart ==
  ASSUME NEW M, NEW s \in Seq(M), NEW S \in SUBSET DOMAIN s, NEW q \in Selected(s, S)
  PROVE  /\ q \in Seq(M)
         /\ \A k \in DOMAIN q : \E i \in DOMAIN s : q[k] = s[i]
         /\ DOMAIN q \subseteq DOMAIN s
<1>1. Cardinality(S) \in Nat /\ Cardinality(S) <= Len(s) /\ DOMAIN s = 1..Len(s) /\ Len(s) \in Nat
  <2>1. Len(s) \in Nat /\ DOMAIN s = 1..Len(s)
    OBVIOUS
  <2>2. IsFiniteSet(DOMAIN s) /\ Cardinality(1..Len(s)) = Len(s)
    <3>1. 1 \in Int /\ Len(s) \in Int
      BY <2>1
    <3>2. /\ IsFiniteSet(1..Len(s))
          /\ Cardinality(1..Len(s)) = IF 1 > Len(s) THEN 0 ELSE Len(s) - 1 + 1
      BY <3>1, FS_Interval, Zenon
    <3>3. (IF 1 > Len(s) THEN 0 ELSE Len(s) - 1 + 1) = Len(s)
      BY <2>1
    <3> QED
      BY <2>1, <3>2, <3>3
  <2> QED
    BY <2>1, <2>2, FS_Subset, FS_CardinalityType
<1>2. PICK at \in [1..Cardinality(S) -> S] : q = [k \in 1..Cardinality(S) |-> s[at[k]]]
  BY DEF Selected
<1>3. \A k \in 1..Cardinality(S) : at[k] \in DOMAIN s /\ s[at[k]] \in M
  BY <1>2
<1> QED
  BY <1>1, <1>2, <1>3

\* Where Scope has an answer, it is the scope the server gives the kind.
LEMMA ScopeIsTrue ==
  ASSUME NEW os, NEW o, o.kind \in DOMAIN ScopeOf, Scope(os, o) # "unknown",
         \A i \in DOMAIN os : os[i].defines.kind \in DOMAIN ScopeOf
                                => os[i].defines.scope = ScopeOf[os[i].defines.kind]
  PROVE  Scope(os, o) = ScopeOf[o.kind]
<1>1. \A s \in DefinedScopes(os, o) : s = ScopeOf[o.kind]
  BY DEF DefinedScopes
<1>2. CASE <<o.kind, o.version>> \in served
  BY <1>2 DEF Scope
<1>3. CASE <<o.kind, o.version>> \notin served
  <2>1. DefinedScopes(os, o) # {} /\ Scope(os, o) = CHOOSE s \in DefinedScopes(os, o) : TRUE
    BY <1>3 DEF Scope
  <2> QED
    BY <1>1, <2>1
<1> QED
  BY <1>2, <1>3

LEMMA SpellingInit == Init => SpellingInv
<1> SUFFICES ASSUME Init PROVE SpellingInv
  OBVIOUS
<1>1. objs = <<>> /\ starting = {}
  BY DEF Init
<1> QED
  BY <1>1 DEF SpellingInv, ObjectsInv, StartingInv

\* What comes out of a reader.
LEMMA ReadObjects ==
  ASSUME NEW reader \in Readers, NEW in \in Inputs, Read(reader, in)
  PROVE  ObjectsInv'
<1>1. /\ in \in Seq(ManifestType)
      /\ \A i \in DOMAIN in :
           /\ in[i].kind \in DOMAIN ScopeOf
           /\ in[i].defines.kind \in DOMAIN ScopeOf
                => in[i].defines.scope = ScopeOf[in[i].defines.kind]
  BY ObjectIdentityAssumption
<1>2. PICK kept \in Selected(in, {i \in DOMAIN in : ~in[i].local}) :
        IF LooksAtScopes(reader)
        THEN /\ \A i \in DOMAIN kept : ~Refused(reader, kept, kept[i])
             /\ objs' = [i \in DOMAIN kept |-> Completed(reader, kept, kept[i])]
        ELSE objs' = kept
  BY DEF Read
<1>3. /\ kept \in Seq(ManifestType)
      /\ \A k \in DOMAIN kept : \E i \in DOMAIN in : kept[k] = in[i]
  BY <1>1, <1>2, SelectedIsPart
<1>4. \A k \in DOMAIN kept :
        /\ kept[k] \in ManifestType
        /\ kept[k].kind \in DOMAIN ScopeOf
        /\ kept[k].defines.kind \in DOMAIN ScopeOf
             => kept[k].defines.scope = ScopeOf[kept[k].defines.kind]
  BY <1>1, <1>3
<1>5. checked' = (checked /\ LooksAtScopes(reader))
  BY DEF Read
<1>6. DOMAIN objs' = DOMAIN kept /\ objs' \in Seq({objs'[i] : i \in DOMAIN objs'})
  <2>1. DOMAIN kept = 1..Len(kept) /\ Len(kept) \in Nat
    BY <1>3
  <2>2. objs' = [i \in 1..Len(kept) |-> objs'[i]]
    BY <1>2, <1>3, <2>1
  <2> QED
    BY <2>1, <2>2
<1>7. CASE ~LooksAtScopes(reader)
  <2>1. \A k \in DOMAIN kept : {"kind", "namespace"} \subseteq DOMAIN kept[k]
    BY <1>4 DEF ManifestType
  <2> QED
    BY <1>2, <1>5, <1>6, <1>7, <2>1 DEF ObjectsInv
<1>8. CASE LooksAtScopes(reader)
  <2>1. SUFFICES ASSUME NEW k \in DOMAIN kept
                 PROVE  /\ {"kind", "namespace"} \subseteq DOMAIN objs'[k]
                        /\ ScopeOf[objs'[k].kind] = "cluster" => objs'[k].namespace = <<>>
    BY <1>6 DEF ObjectsInv
  <2>2. /\ ~Refused(reader, kept, kept[k])
        /\ objs'[k] = Completed(reader, kept, kept[k])
    BY <1>2, <1>8
  <2>3. Scope(kept, kept[k]) = ScopeOf[kept[k].kind]
    <3>1. Scope(kept, kept[k]) # "unknown"
      BY <2>2 DEF Refused
    <3> QED
      BY <1>4, <3>1, ScopeIsTrue
  <2>4. \/ objs'[k] = kept[k]
        \/ /\ ScopeOf[kept[k].kind] = "namespaced"
           /\ objs'[k] = [kept[k] EXCEPT !.namespace = reader.namespace]
    BY <2>2, <2>3 DEF Completed
  <2>5. ScopeOf[kept[k].kind] = "cluster" => kept[k].namespace = <<>>
    BY <2>2, <2>3 DEF Refused
  <2>6. {"kind", "namespace"} \subseteq DOMAIN kept[k] /\ kept[k] \in ManifestType
    BY <1>4 DEF ManifestType
  <2>7. CASE objs'[k] = kept[k]
    BY <2>5, <2>6, <2>7
  <2>8. CASE /\ ScopeOf[kept[k].kind] = "namespaced"
             /\ objs'[k] = [kept[k] EXCEPT !.namespace = reader.namespace]
    <3>1. objs'[k].kind = kept[k].kind /\ DOMAIN objs'[k] = DOMAIN kept[k]
      BY <2>6, <2>8
    <3> QED
      BY <2>6, <2>8, <3>1
  <2> QED
    BY <2>4, <2>7, <2>8
<1> QED
  BY <1>7, <1>8

\* A dependency that is set moves no object.
LEMMA SetObjects ==
  ASSUME ObjectsInv, NEW deps, SetDependencies(deps)
  PROVE  ObjectsInv'
<1>1. PICK text : objs' = [objs EXCEPT ![1].dependsOn = text]
  BY DEF SetDependencies
<1>2. checked' = checked
  BY DEF SetDependencies
<1>3. DOMAIN objs = 1..Len(objs) /\ Len(objs) \in Nat
  BY DEF ObjectsInv
<1>4. DOMAIN objs' = DOMAIN objs /\ objs' = [i \in DOMAIN objs |-> objs'[i]]
  BY <1>1
<1>5. objs' \in Seq({objs'[i] : i \in DOMAIN objs'})
  BY <1>3, <1>4
<1>6. ASSUME NEW i \in DOMAIN objs
      PROVE  /\ {"kind", "namespace"} \subseteq DOMAIN objs'[i]
             /\ objs'[i].kind = objs[i].kind /\ objs'[i].namespace = objs[i].namespace
  <2>1. {"kind", "namespace"} \subseteq DOMAIN objs[i]
    BY DEF ObjectsInv
  <2>2. objs'[i] = objs[i] \/ objs'[i] = [objs[i] EXCEPT !.dependsOn = text]
    BY <1>1
  <2> QED
    BY <2>1, <2>2
<1> QED
  BY <1>2, <1>4, <1>5, <1>6 DEF ObjectsInv

LEMMA Concatenation ==
  ASSUME NEW S, NEW a \in Seq(S), NEW T, NEW b \in Seq(T)
  PROVE  /\ a \o b \in Seq(S \cup T) /\ Len(a \o b) = Len(a) + Len(b)
         /\ \A i \in 1..Len(a) : (a \o b)[i] = a[i]
         /\ \A i \in 1..Len(b) : (a \o b)[Len(a) + i] = b[i]
<1>1. a \in Seq(S \cup T) /\ b \in Seq(S \cup T)
  OBVIOUS
<1> QED
  BY <1>1

LEMMA OwnElements ==
  ASSUME NEW S, NEW s \in Seq(S)
  PROVE  s \in Seq({s[i] : i \in DOMAIN s})
<1>1. DOMAIN s = 1..Len(s) /\ Len(s) \in Nat /\ s = [i \in 1..Len(s) |-> s[i]]
  OBVIOUS
<1> QED
  BY <1>1

\* A run appends the Jobs of some of its CronJobs, each with a random name.
LEMMA StartAppends ==
  ASSUME ObjectsInv, Start
  PROVE  /\ objs' \in Seq({objs'[i] : i \in DOMAIN objs'}) /\ DOMAIN objs \subseteq DOMAIN objs'
         /\ \A i \in DOMAIN objs : objs'[i] = objs[i]
         /\ \A i \in DOMAIN objs' \ DOMAIN objs :
              \E j \in DOMAIN objs, suffix \in RandomParts : objs'[i] = JobFrom(objs[j], suffix)
<1>0. PICK random \in [DOMAIN objs -> RandomParts] :
        \E jobs \in GeneratedObjects(random) : objs' = objs \o jobs
  BY DEF Start
<1>1. PICK jobs \in GeneratedObjects(random) : objs' = objs \o jobs
  BY <1>0
<1>2. PICK crons \in Selected(objs, {i \in DOMAIN objs : CanGenerate(objs[i])}) :
        jobs = [k \in DOMAIN crons |-> JobFrom(crons[k], random[k])]
  BY <1>1 DEF GeneratedObjects
<1>3. /\ crons \in Seq({objs[i] : i \in DOMAIN objs})
      /\ \A k \in DOMAIN crons : \E i \in DOMAIN objs : crons[k] = objs[i]
      /\ DOMAIN crons \subseteq DOMAIN objs
  BY <1>2, SelectedIsPart DEF ObjectsInv
<1>4. DOMAIN crons = 1..Len(crons) /\ Len(crons) \in Nat
  BY <1>3
<1>5. /\ jobs \in Seq({jobs[k] : k \in DOMAIN jobs}) /\ DOMAIN jobs = 1..Len(jobs)
      /\ DOMAIN jobs = DOMAIN crons /\ Len(jobs) \in Nat
  BY <1>2, <1>4
<1>6. /\ objs \in Seq({objs[i] : i \in DOMAIN objs})
      /\ DOMAIN objs = 1..Len(objs) /\ Len(objs) \in Nat
  BY DEF ObjectsInv
<1> DEFINE all == objs \o jobs
<1>7. PICK U, V : objs \in Seq(U) /\ jobs \in Seq(V)
  BY <1>5, <1>6
<1>8. all \in Seq(U \cup V)
  BY <1>7, Concatenation
<1>9. /\ Len(all) = Len(objs) + Len(jobs)
      /\ \A i \in 1..Len(objs) : all[i] = objs[i]
      /\ \A i \in 1..Len(jobs) : all[Len(objs) + i] = jobs[i]
  BY <1>7, Concatenation
<1> HIDE DEF all
<1>10. DOMAIN all = 1..(Len(objs) + Len(jobs)) /\ all \in Seq({all[i] : i \in DOMAIN all})
  BY <1>8, <1>9, OwnElements
<1>11. ASSUME NEW i \in DOMAIN all \ DOMAIN objs
       PROVE  \E j \in DOMAIN objs, suffix \in RandomParts : all[i] = JobFrom(objs[j], suffix)
  <2>1. PICK k \in 1..Len(jobs) : i = Len(objs) + k
    <3>1. i - Len(objs) \in 1..Len(jobs) /\ i = Len(objs) + (i - Len(objs))
      BY <1>5, <1>6, <1>10
    <3> QED
      BY <3>1
  <2>2. k \in DOMAIN crons /\ k \in DOMAIN objs /\ all[i] = JobFrom(crons[k], random[k])
    BY <1>2, <1>3, <1>5, <1>9, <2>1
  <2>3. PICK j \in DOMAIN objs : crons[k] = objs[j]
    BY <1>3, <2>2
  <2>4. random[k] \in RandomParts
    BY <2>2
  <2> QED
    BY <2>2, <2>3, <2>4
<1>12. objs' = all
  BY <1>1 DEF all
<1>13. DOMAIN objs \subseteq DOMAIN all
  BY <1>5, <1>6, <1>10
<1> QED
  BY <1>6, <1>9, <1>10, <1>11, <1>12, <1>13

\* The Jobs a run generates are namespaced.
LEMMA StartObjects ==
  ASSUME ObjectsInv, Start
  PROVE  ObjectsInv'
<1>1. ASSUME NEW i \in DOMAIN objs'
      PROVE  /\ {"kind", "namespace"} \subseteq DOMAIN objs'[i]
             /\ checked' => (ScopeOf[objs'[i].kind] = "cluster" => objs'[i].namespace = <<>>)
  <2>1. CASE i \in DOMAIN objs
    BY <2>1, StartAppends DEF ObjectsInv, Start
  <2>2. CASE i \notin DOMAIN objs
    <3>1. PICK j \in DOMAIN objs, suffix \in RandomParts : objs'[i] = JobFrom(objs[j], suffix)
      BY <2>2, StartAppends
    <3>2. {"kind", "namespace"} \subseteq DOMAIN objs[j]
      BY DEF ObjectsInv
    <3>3. {"kind", "namespace"} \subseteq DOMAIN objs'[i] /\ objs'[i].kind = Job
      BY <3>1, <3>2 DEF JobFrom
    <3>4. ScopeOf[objs'[i].kind] = "namespaced"
      BY <3>3, ObjectIdentityAssumption
    <3> QED
      BY <3>3, <3>4
  <2> QED
    BY <2>1, <2>2
<1> QED
  BY <1>1, StartAppends DEF ObjectsInv

\* What is found in the inventory.
LEMMA FoundStarting ==
  ASSUME Start
  PROVE  StartingInv'
<1> SUFFICES ASSUME NEW m \in Found
             PROVE  /\ m = [namespace |-> m.namespace, name |-> m.name, group |-> m.group,
                            kind |-> m.kind]
                    /\ m.namespace = <<>> <=> ScopeOf[m.kind] = "cluster"
  BY DEF Start, StartingInv
<1>1. PICK key : m = MetadataFromString(key)
  BY DEF Found, Loaded
<1> QED
  BY <1>1 DEF Found, MetadataFromString, Fields

LEMMA SpellingStep == SpellingInv /\ [Next]_vars => SpellingInv'
<1> SUFFICES ASSUME SpellingInv, [Next]_vars PROVE SpellingInv'
  OBVIOUS
<1>1. ASSUME NEW reader \in Readers, NEW in \in Inputs, Read(reader, in) PROVE SpellingInv'
  BY <1>1, ReadObjects DEF Read, SpellingInv, StartingInv
<1>2. ASSUME NEW deps \in Wanted, SetDependencies(deps) PROVE SpellingInv'
  BY <1>2, SetObjects DEF SetDependencies, SpellingInv, StartingInv
<1>3. CASE Start
  BY <1>3, StartObjects, FoundStarting DEF SpellingInv
<1>4. CASE StartFails
  BY <1>4 DEF StartFails, SpellingInv, ObjectsInv, StartingInv
<1>5. CASE Save
  BY <1>5 DEF Save, SpellingInv, ObjectsInv, StartingInv
<1>6. CASE Install \/ UNCHANGED vars
  BY <1>6 DEF Install, vars, SpellingInv, ObjectsInv, StartingInv
<1> QED
  BY <1>1, <1>2, <1>3, <1>4, <1>5, <1>6 DEF Next

LEMMA SpellingSpares == SpellingInv => PruneSparesInput
<1> SUFFICES ASSUME SpellingInv, checked, NEW m \in ObjectsToPrune, NEW i \in DOMAIN objs,
                    ServerObject(m) = ServerObject(Identity(objs[i]))
             PROVE  FALSE
  BY DEF PruneSparesInput
<1> DEFINE id == Identity(objs[i])
<1>1. /\ m \in starting /\ id \in Identities /\ m \notin Identities
  BY DEF ObjectsToPrune, Identities
<1>2. /\ m = [namespace |-> m.namespace, name |-> m.name, group |-> m.group, kind |-> m.kind]
      /\ ScopeOf[m.kind] = "cluster" => m.namespace = <<>>
  BY <1>1 DEF SpellingInv, StartingInv
<1>3. /\ id = [namespace |-> id.namespace, name |-> id.name, group |-> id.group, kind |-> id.kind]
      /\ ScopeOf[id.kind] = "cluster" => id.namespace = <<>>
  BY DEF Identity, SpellingInv, ObjectsInv
<1>4. ServerObject(m) = m
  BY <1>2 DEF ServerObject
<1> HIDE DEF id
<1>5. ServerObject(id) = id
  BY <1>3 DEF ServerObject
<1> QED
  BY <1>1, <1>4, <1>5 DEF id

\* Whatever the kinds, their scopes and definitions, the configurations of the
\* readers and the inputs: no run prunes an object of the server that its own
\* input names, although one manifest may name it with a namespace and another
\* one without (common.go:94-98, applier.go:214-233).
THEOREM InputIsSpared == Spec => []PruneSparesInput
  BY SpellingInit, SpellingStep, SpellingSpares, PTL DEF Spec

-----------------------------------------------------------------------------
(* The names of a run.                                                      *)

\* An identity a cluster admits.
NameOK(m) ==
  /\ m \in [namespace : Seq(Symbols), name : Seq(Symbols), group : Seq(Symbols), kind : Seq(Symbols)]
  /\ Admitted(m) /\ m.kind \in DOMAIN ScopeOf /\ m.name # <<>>

ObjectOK(o) ==
  {"kind", "name", "namespace", "group", "dependsOn"} \subseteq DOMAIN o /\ NameOK(Identity(o))

\* What an inventory reads in the key of such an identity.
LEMMA KeyReads ==
  ASSUME NEW m, NameOK(m)
  PROVE  KeyHolds(MetadataToString(m), m.namespace, ColonsReplaced(m.name), m.group, m.kind)
<1> DEFINE R == ColonsReplaced(m.name)
<1>1. /\ m.namespace \in Seq(Symbols) /\ m.name \in Seq(Symbols) /\ m.group \in Seq(Symbols)
      /\ m.kind \in Seq(Symbols) /\ Admitted(m)
  BY DEF NameOK
<1>2. Underscore \in Marks /\ Underscore \notin {".", "-"} /\ Underscore \in Symbols
  BY MarksDiffer, MarkSymbols
<1>3. R \in Seq(Symbols)
  BY <1>1, <1>2, ReplacedBegins
<1>4. /\ Positions(m.namespace, Underscore) = {} /\ Positions(m.group, Underscore) = {}
      /\ Positions(m.kind, Underscore) = {}
  BY <1>1, <1>2, PlainWithout, WordsWithout DEF Admitted
<1> HIDE DEF R
<1>5. MetadataToString(m) = Join(FourTexts(m.namespace, R, m.group, m.kind), Underscore)
  BY DEF MetadataToString, FourTexts, R
<1>6. KeyHolds(Join(FourTexts(m.namespace, R, m.group, m.kind), Underscore),
               m.namespace, R, m.group, m.kind)
  BY <1>1, <1>2, <1>3, <1>4, KeyFields
<1> QED
  BY <1>5, <1>6 DEF R

\* A key that matches names an object with a name, of a kind the server knows.
LEMMA KeyNames ==
  ASSUME NEW m, NameOK(m), Matches(MetadataToString(m), Words)
  PROVE  LET f == MetadataFromString(MetadataToString(m)) IN f.kind = m.kind /\ f.name # <<>>
<1> DEFINE key == MetadataToString(m)
           R == ColonsReplaced(m.name)
<1>1. Fields(key) = [namespace |-> m.namespace, name |-> R, group |-> m.group, kind |-> m.kind]
  BY KeyReads DEF KeyHolds
<1>2. Begins(Fields(key).name, Words)
  BY DEF Matches
<1>3. m.name \in Seq(Symbols)
  BY DEF NameOK
<1>4. {Underscore, ":"} \subseteq Marks /\ {Underscore, ":"} \subseteq Symbols
  BY MarksDiffer, MarkSymbols
<1>5. R \in Seq(Symbols)
  BY <1>3, <1>4, ReplacedBegins
<1> HIDE DEF R, key
<1>6. Len(R) > 0 /\ R[1] \in Words
  BY <1>1, <1>2 DEF Begins
<1>7. R[1] # Underscore
  BY <1>4, <1>6, ObjectIdentityAssumption
<1>8. ColonsRestored(R) # <<>>
  BY <1>4, <1>5, <1>6, <1>7, RestoredBegins
<1>9. MetadataFromString(key) = [namespace |-> m.namespace, name |-> ColonsRestored(R),
                                 group |-> m.group, kind |-> m.kind]
  BY <1>1 DEF MetadataFromString
<1> QED
  BY <1>8, <1>9 DEF key

\* A key the server accepts gives a name back that survives.
LEMMA KeySurvives ==
  ASSUME NEW m, NameOK(m), Survives(m.name),
         Only(MetadataToString(m), Words \cup {".", "-", Underscore})
  PROVE  Matches(MetadataToString(m), Words) /\ MetadataFromString(MetadataToString(m)) = m
<1> DEFINE key == MetadataToString(m)
           R == ColonsReplaced(m.name)
<1>1. /\ Fields(key) = [namespace |-> m.namespace, name |-> R, group |-> m.group, kind |-> m.kind]
      /\ Cardinality(Positions(key, Underscore)) >= 3
      /\ \A i \in 1..Len(R) : \E p \in DOMAIN key : key[p] = R[i]
  BY KeyReads DEF KeyHolds
<1>2. /\ m \in [namespace : Seq(Symbols), name : Seq(Symbols), group : Seq(Symbols), kind : Seq(Symbols)]
      /\ m.name \in Seq(Symbols) /\ Admitted(m)
  BY DEF NameOK
<1>3. /\ {Underscore, ":"} \subseteq Marks /\ Underscore \in Symbols /\ ":" \in Symbols
      /\ Underscore # ":"
  BY MarksDiffer, MarkSymbols
<1>4. Len(m.name) > 0 /\ m.name[1] \in Words /\ Positions(m.name, Underscore) = {}
  BY DEF Survives, Begins
<1>5. m.name[1] # ":"
  BY <1>3, <1>4, ObjectIdentityAssumption
<1>6. R \in Seq(Symbols) /\ Len(R) > 0 /\ R[1] = m.name[1]
  BY <1>2, <1>3, <1>4, <1>5, ReplacedBegins
<1>7. ColonsRestored(R) = m.name
  BY <1>2, <1>3, <1>4, ColonsComeBack
<1> HIDE DEF R, key
<1>8. Only(R, Words \cup {".", "-", Underscore})
  <2>1. DOMAIN R = 1..Len(R)
    BY <1>6
  <2>2. Only(key, Words \cup {".", "-", Underscore})
    BY DEF key
  <2> QED
    BY <1>1, <2>1, <2>2 DEF Only
<1>9. Begins(R, Words)
  BY <1>4, <1>6 DEF Begins
<1>10. Matches(key, Words)
  BY <1>1, <1>2, <1>8, <1>9 DEF Matches, Admitted, Plain
<1>11. MetadataFromString(key) = [namespace |-> m.namespace, name |-> m.name,
                                  group |-> m.group, kind |-> m.kind]
  BY <1>1, <1>7 DEF MetadataFromString
<1> QED
  BY <1>2, <1>10, <1>11 DEF key

\* What is saved is written down key by key, and what is found has a name and a
\* kind; the first conjuncts of TypeOK.
NamesInv ==
  /\ pc \in {"idle", "read", "run"}
  /\ Builtin \subseteq served /\ served \subseteq Builtin \cup Custom
  /\ checked \in BOOLEAN
  /\ \A i \in DOMAIN objs : ObjectOK(objs[i])
  /\ \A m \in saved : NameOK(m)
  /\ stored = {MetadataToString(m) : m \in saved} /\ KeysAccepted(stored)
  /\ \A m \in starting : m.kind \in DOMAIN ScopeOf /\ m.name # <<>>

\* A name that survives is found where it was saved.
AllSurvive == \A m \in saved : Survives(m.name)

FoundInv ==
  /\ checked => \A m \in saved : m.namespace = <<>> <=> ScopeOf[m.kind] = "cluster"
  /\ pc = "run" /\ checked /\ AllSurvive => starting = saved

\* The annotation on the first object is the last one that was set.
AskedInv ==
  asked # <<>> =>
    asked \in Wanted /\ objs # <<>> /\ objs[1].dependsOn = Annotation(asked)

IdentityInv == SpellingInv /\ NamesInv /\ FoundInv /\ AskedInv

LEMMA IdentityInit == Init => IdentityInv
<1> SUFFICES ASSUME Init PROVE IdentityInv
  OBVIOUS
<1>1. SpellingInv
  BY SpellingInit
<1>2. /\ pc = "idle" /\ served = Builtin /\ objs = <<>> /\ stored = {} /\ starting = {}
      /\ asked = <<>> /\ saved = {} /\ checked = TRUE
  BY DEF Init
<1>3. NamesInv
  <2>1. stored = {MetadataToString(m) : m \in saved}
    BY <1>2
  <2>2. KeysAccepted(stored)
    BY <1>2 DEF KeysAccepted
  <2> QED
    BY <1>2, <2>1, <2>2 DEF NamesInv
<1>4. FoundInv /\ AskedInv
  BY <1>2 DEF FoundInv, AskedInv
<1> QED
  BY <1>1, <1>3, <1>4 DEF IdentityInv

LEMMA SymbolsOfTexts ==
  /\ Job \in Seq(Symbols) /\ <<>> \in Seq(Symbols)
  /\ \A suffix \in RandomParts : <<"-", suffix>> \in Seq(Symbols)
  /\ \A text \in Text : text \in Seq(Symbols)
<1>1. "-" \in Symbols /\ "Job" \in Symbols
  BY MarkSymbols, MarksDiffer DEF Symbols
<1>2. \A suffix \in RandomParts : suffix \in Symbols
  BY NamesAssumption DEF Symbols
<1>3. Job \in Seq(Symbols)
  BY <1>1 DEF Job
<1> QED
  BY <1>1, <1>2, <1>3, TextSymbols

LEMMA SameIdentity ==
  ASSUME NEW o, NEW p, ObjectOK(o), Identity(p) = Identity(o), DOMAIN p = DOMAIN o
  PROVE  ObjectOK(p)
  BY DEF ObjectOK

\* The objects of an input have names a cluster admits.
LEMMA InputObjects ==
  ASSUME NEW in \in Inputs, NEW i \in DOMAIN in
  PROVE  in[i] \in ManifestType /\ ObjectOK(in[i])
<1>1. in[i] \in ManifestType
  BY ObjectIdentityAssumption
<1>2. in[i].kind \in DOMAIN ScopeOf /\ Admitted(in[i]) /\ in[i].name # <<>>
  BY ObjectIdentityAssumption, NamesAssumption
<1>3. /\ {"kind", "name", "namespace", "group", "dependsOn"} \subseteq DOMAIN in[i]
      /\ in[i].namespace \in Text /\ in[i].name \in Text /\ in[i].group \in Text /\ in[i].kind \in Text
  BY <1>1 DEF ManifestType
<1>4. Admitted(Identity(in[i]))
  BY <1>2 DEF Admitted, Identity
<1> QED
  BY <1>1, <1>2, <1>3, <1>4, SymbolsOfTexts DEF ObjectOK, NameOK, Identity

LEMMA ReadNames ==
  ASSUME NEW reader \in Readers, NEW in \in Inputs, Read(reader, in)
  PROVE  \A i \in DOMAIN objs' : ObjectOK(objs'[i])
<1>1. in \in Seq(ManifestType)
  BY ObjectIdentityAssumption
<1>2. PICK kept \in Selected(in, {i \in DOMAIN in : ~in[i].local}) :
        IF LooksAtScopes(reader)
        THEN /\ \A i \in DOMAIN kept : ~Refused(reader, kept, kept[i])
             /\ objs' = [i \in DOMAIN kept |-> Completed(reader, kept, kept[i])]
        ELSE objs' = kept
  BY DEF Read
<1>3. \A k \in DOMAIN kept : \E i \in DOMAIN in : kept[k] = in[i]
  BY <1>1, <1>2, SelectedIsPart
<1>4. \A k \in DOMAIN kept : kept[k] \in ManifestType /\ ObjectOK(kept[k])
  BY <1>3, InputObjects
<1>5. ASSUME NEW o \in ManifestType, ObjectOK(o), NEW p, p = [o EXCEPT !.namespace = reader.namespace]
      PROVE  ObjectOK(p)
  <2>1. /\ DOMAIN p = DOMAIN o /\ p.namespace = reader.namespace /\ p.kind = o.kind /\ p.name = o.name
        /\ p.group = o.group
    BY <1>5 DEF ManifestType
  <2>2. reader.namespace \in Seq(Symbols) /\ Plain(reader.namespace)
    BY NamesAssumption, SymbolsOfTexts
  <2>3. /\ {"kind", "name", "namespace", "group", "dependsOn"} \subseteq DOMAIN o
        /\ o.name \in Seq(Symbols) /\ o.group \in Seq(Symbols) /\ o.kind \in Seq(Symbols)
        /\ Plain(o.group) /\ Only(o.kind, Words) /\ o.kind \in DOMAIN ScopeOf /\ o.name # <<>>
    BY <1>5 DEF ObjectOK, NameOK, Identity, Admitted
  <2>4. Identity(p) = [namespace |-> reader.namespace, name |-> o.name, group |-> o.group, kind |-> o.kind]
    BY <2>1 DEF Identity
  <2>5. NameOK(Identity(p))
    BY <2>2, <2>3, <2>4 DEF NameOK, Admitted
  <2> QED
    BY <2>1, <2>3, <2>5 DEF ObjectOK
<1>6. \A k \in DOMAIN kept : ObjectOK(Completed(reader, kept, kept[k]))
  BY <1>4, <1>5 DEF Completed
<1> QED
  BY <1>2, <1>4, <1>6

\* A dependency changes an annotation, and no identity.
LEMMA SetNames ==
  ASSUME ObjectsInv, NEW deps, SetDependencies(deps), \A i \in DOMAIN objs : ObjectOK(objs[i])
  PROVE  /\ DOMAIN objs' = DOMAIN objs
         /\ \A i \in DOMAIN objs' : ObjectOK(objs'[i])
         /\ 1 \in DOMAIN objs
         /\ objs'[1].dependsOn = WithDependencies(objs[1].dependsOn, deps)
<1> DEFINE text == WithDependencies(objs[1].dependsOn, deps)
<1>1. objs # <<>> /\ objs' = [objs EXCEPT ![1].dependsOn = text]
  BY DEF SetDependencies
<1> HIDE DEF text
<1>2. DOMAIN objs = 1..Len(objs) /\ Len(objs) \in Nat /\ objs \in Seq({objs[i] : i \in DOMAIN objs})
  BY DEF ObjectsInv
<1>3. Len(objs) # 0
  BY <1>1, <1>2
<1>4. 1 \in DOMAIN objs /\ DOMAIN objs' = DOMAIN objs
  BY <1>1, <1>2, <1>3
<1>5. objs'[1] = [objs[1] EXCEPT !.dependsOn = text]
  BY <1>1, <1>4
<1>6. "dependsOn" \in DOMAIN objs[1]
  BY <1>4 DEF ObjectOK
<1>7. objs'[1].dependsOn = text
  BY <1>5, <1>6
<1>8. ASSUME NEW i \in DOMAIN objs PROVE ObjectOK(objs'[i])
  <2>1. CASE i = 1
    <3>1. Identity(objs'[1]) = Identity(objs[1]) /\ DOMAIN objs'[1] = DOMAIN objs[1]
      <4>1. {"kind", "name", "namespace", "group"} \subseteq DOMAIN objs[1]
        BY <1>4 DEF ObjectOK
      <4> QED
        BY <1>5, <4>1 DEF Identity
    <3> QED
      BY <1>4, <2>1, <3>1, SameIdentity
  <2>2. CASE i # 1
    <3>1. objs'[i] = objs[i]
      BY <1>1, <2>2
    <3> QED
      BY <3>1
  <2> QED
    BY <2>1, <2>2
<1> QED
  BY <1>4, <1>7, <1>8 DEF text

LEMMA StartNames ==
  ASSUME ObjectsInv, Start, \A i \in DOMAIN objs : ObjectOK(objs[i])
  PROVE  /\ \A i \in DOMAIN objs' : ObjectOK(objs'[i])
         /\ 1 \in DOMAIN objs => objs'[1] = objs[1] /\ 1 \in DOMAIN objs'
<1>1. ASSUME NEW i \in DOMAIN objs', i \notin DOMAIN objs PROVE ObjectOK(objs'[i])
  <2>1. PICK j \in DOMAIN objs, suffix \in RandomParts : objs'[i] = JobFrom(objs[j], suffix)
    BY <1>1, StartAppends
  <2> DEFINE o == objs[j]
             p == objs'[i]
             tail == <<"-", suffix>>
  <2>2. ObjectOK(o)
    OBVIOUS
  <2>3. p = [o EXCEPT !.kind = Job, !.name = @ \o tail, !.dependsOn = NoText, !.generates = FALSE]
    BY <2>1 DEF JobFrom
  <2>4. tail \in Seq(Symbols)
    BY SymbolsOfTexts
  <2>5. Len(tail) = 2
    OBVIOUS
  <2> HIDE DEF o, p, tail
  <2>6. {"kind", "name", "namespace", "group", "dependsOn"} \subseteq DOMAIN o
    BY <2>2 DEF ObjectOK
  <2>7. /\ DOMAIN p = DOMAIN o /\ p.kind = Job /\ p.name = o.name \o tail
        /\ p.namespace = o.namespace /\ p.group = o.group
    BY <2>3, <2>6
  <2>8. /\ o.namespace \in Seq(Symbols) /\ o.name \in Seq(Symbols) /\ o.group \in Seq(Symbols)
        /\ Plain(o.namespace) /\ Plain(o.group)
    BY <2>2 DEF ObjectOK, NameOK, Identity, Admitted
  <2>9. o.name \o tail \in Seq(Symbols) /\ o.name \o tail # <<>>
    <3>1. o.name \o tail \in Seq(Symbols) /\ Len(o.name \o tail) = Len(o.name) + 2
      <4> DEFINE name == o.name
      <4>1. name \in Seq(Symbols)
        BY <2>8
      <4> HIDE DEF name
      <4>2. name \o tail \in Seq(Symbols) /\ Len(name \o tail) = Len(name) + Len(tail)
        BY <2>4, <4>1
      <4> QED
        BY <2>5, <4>2 DEF name
    <3>2. Len(o.name) \in Nat /\ Len(<<>>) = 0
      BY <2>8
    <3> QED
      BY <3>1, <3>2
  <2>10. Job \in Seq(Symbols) /\ Job \in DOMAIN ScopeOf /\ Only(Job, Words)
    BY SymbolsOfTexts, ObjectIdentityAssumption, NamesAssumption
  <2>11. Identity(p) = [namespace |-> o.namespace, name |-> o.name \o tail, group |-> o.group,
                        kind |-> Job]
    BY <2>7 DEF Identity
  <2>12. NameOK(Identity(p))
    BY <2>8, <2>9, <2>10, <2>11 DEF NameOK, Admitted
  <2> QED
    BY <2>6, <2>7, <2>12 DEF ObjectOK, p
<1>2. ASSUME NEW i \in DOMAIN objs', i \in DOMAIN objs PROVE ObjectOK(objs'[i])
  BY <1>2, StartAppends
<1>3. 1 \in DOMAIN objs => objs'[1] = objs[1] /\ 1 \in DOMAIN objs'
  BY StartAppends
<1> QED
  BY <1>1, <1>2, <1>3

\* The keys that are stored name objects with a name, of kinds the server knows.
LEMMA LoadedNames ==
  ASSUME NamesInv
  PROVE  \A m \in Loaded : m.kind \in DOMAIN ScopeOf /\ m.name # <<>>
<1> SUFFICES ASSUME NEW m \in Loaded PROVE m.kind \in DOMAIN ScopeOf /\ m.name # <<>>
  OBVIOUS
<1>1. PICK key \in stored : Matches(key, Words) /\ m = MetadataFromString(key)
  BY DEF Loaded
<1>2. PICK s \in saved : key = MetadataToString(s)
  BY <1>1 DEF NamesInv
<1>3. NameOK(s)
  BY <1>2 DEF NamesInv
<1>4. m.kind = s.kind /\ m.name # <<>>
  BY <1>1, <1>2, <1>3, KeyNames
<1> QED
  BY <1>3, <1>4 DEF NameOK

\* With names that survive, what is found is what was saved.
LEMMA FoundSaved ==
  ASSUME NamesInv, FoundInv, checked, AllSurvive
  PROVE  Found = saved
<1>1. ASSUME NEW s \in saved
      PROVE  /\ MetadataToString(s) \in stored /\ Matches(MetadataToString(s), Words)
             /\ MetadataFromString(MetadataToString(s)) = s
  <2>1. NameOK(s) /\ MetadataToString(s) \in stored /\ KeysAccepted(stored)
    BY DEF NamesInv
  <2>2. Only(MetadataToString(s), Words \cup {".", "-", Underscore})
    BY <2>1 DEF KeysAccepted
  <2>3. Survives(s.name)
    BY DEF AllSurvive
  <2> QED
    BY <2>1, <2>2, <2>3, KeySurvives
<1>2. Loaded = saved
  <2>1. ASSUME NEW m \in Loaded PROVE m \in saved
    <3>1. PICK key \in stored : Matches(key, Words) /\ m = MetadataFromString(key)
      BY DEF Loaded
    <3>2. PICK s \in saved : key = MetadataToString(s)
      BY <3>1 DEF NamesInv
    <3> QED
      BY <1>1, <3>1, <3>2
  <2>2. ASSUME NEW s \in saved PROVE s \in Loaded
    <3>1. MetadataFromString(MetadataToString(s)) \in Loaded
      BY <1>1 DEF Loaded
    <3> QED
      BY <1>1, <3>1
  <2> QED
    BY <2>1, <2>2
<1>3. \A m \in saved : m.namespace = <<>> <=> ScopeOf[m.kind] = "cluster"
  BY DEF FoundInv
<1> QED
  BY <1>2, <1>3 DEF Found

\* What a run saves.
LEMMA SavedNames ==
  ASSUME SpellingInv, NamesInv
  PROVE  /\ \A m \in NewInventory : NameOK(m)
         /\ checked => \A m \in NewInventory : m.namespace = <<>> <=> ScopeOf[m.kind] = "cluster"
<1>1. ASSUME NEW i \in DOMAIN objs PROVE NameOK(Identity(objs[i]))
  BY DEF NamesInv, ObjectOK
<1>2. ASSUME NEW m \in Applied
      PROVE  NameOK(m) /\ (checked => (m.namespace = <<>> <=> ScopeOf[m.kind] = "cluster"))
  <2>1. PICK i \in DOMAIN objs :
          /\ m = Identity(objs[i])
          /\ ScopeOf[objs[i].kind] = "namespaced" => objs[i].namespace # <<>>
    BY DEF Applied
  <2>2. checked => (ScopeOf[objs[i].kind] = "cluster" => objs[i].namespace = <<>>)
    BY DEF SpellingInv, ObjectsInv
  <2>3. m.namespace = objs[i].namespace /\ m.kind = objs[i].kind /\ NameOK(m)
    BY <1>1, <2>1 DEF Identity
  <2>4. ScopeOf[m.kind] \in {"namespaced", "cluster"}
    BY <2>3, ObjectIdentityAssumption DEF NameOK
  <2> QED
    BY <2>1, <2>2, <2>3, <2>4
<1>3. ASSUME NEW m \in Identities \cap starting
      PROVE  NameOK(m) /\ (m.namespace = <<>> <=> ScopeOf[m.kind] = "cluster")
  BY <1>1 DEF Identities, SpellingInv, StartingInv
<1> QED
  BY <1>2, <1>3 DEF NewInventory

\* A list that is set is one the graph can be asked for.
LEMMA WantedType ==
  ASSUME NEW deps \in Wanted
  PROVE  /\ deps \in Seq(IdentityType)
         /\ \A k \in DOMAIN deps : Admitted(deps[k]) /\ Positions(deps[k].name, "/") = {}
  BY NamesAssumption DEF IdentityType

LEMMA IdentityStep == IdentityInv /\ [Next]_vars => IdentityInv'
<1> SUFFICES ASSUME IdentityInv, [Next]_vars PROVE IdentityInv'
  OBVIOUS
<1>1. SpellingInv /\ NamesInv /\ FoundInv /\ AskedInv /\ ObjectsInv /\ SpellingInv'
  BY SpellingStep DEF IdentityInv, SpellingInv
<1>2. ASSUME NEW reader \in Readers, NEW in \in Inputs, Read(reader, in) PROVE IdentityInv'
  <2>1. /\ pc' = "read" /\ asked' = <<>> /\ checked' = (checked /\ LooksAtScopes(reader))
        /\ UNCHANGED <<served, stored, starting, saved>>
    BY <1>2 DEF Read
  <2>2. \A i \in DOMAIN objs' : ObjectOK(objs'[i])
    BY <1>2, ReadNames
  <2>3. (checked' => checked) /\ checked' \in BOOLEAN
    BY <2>1
  <2>4. NamesInv'
    BY <1>1, <2>1, <2>2, <2>3 DEF NamesInv, KeysAccepted
  <2>5. FoundInv'
    BY <1>1, <2>1, <2>3 DEF FoundInv, AllSurvive
  <2>6. AskedInv'
    BY <2>1 DEF AskedInv
  <2> QED
    BY <1>1, <2>4, <2>5, <2>6 DEF IdentityInv
<1>3. ASSUME NEW deps \in Wanted, SetDependencies(deps) PROVE IdentityInv'
  <2>1. /\ pc = "read" /\ UNCHANGED <<pc, served, stored, starting, saved, checked>>
        /\ asked' = IF deps = <<>> \/ \E k \in DOMAIN deps : Malformed(deps[k])
                    THEN asked ELSE deps
    BY <1>3 DEF SetDependencies
  <2>2. \A i \in DOMAIN objs : ObjectOK(objs[i])
    BY <1>1 DEF NamesInv
  <2>3. /\ DOMAIN objs' = DOMAIN objs /\ (\A i \in DOMAIN objs' : ObjectOK(objs'[i]))
        /\ 1 \in DOMAIN objs /\ objs'[1].dependsOn = WithDependencies(objs[1].dependsOn, deps)
    BY <1>1, <1>3, <2>2, SetNames
  <2>4. NamesInv'
    BY <1>1, <2>1, <2>3 DEF NamesInv, KeysAccepted
  <2>5. FoundInv'
    BY <1>1, <2>1 DEF FoundInv, AllSurvive
  <2>6. AskedInv'
    <3>1. objs' # <<>>
      BY <2>3
    <3>2. CASE deps = <<>> \/ \E k \in DOMAIN deps : Malformed(deps[k])
      <4>1. asked' = asked /\ objs'[1].dependsOn = objs[1].dependsOn
        BY <2>1, <2>3, <3>2 DEF WithDependencies
      <4> QED
        BY <1>1, <3>1, <4>1 DEF AskedInv
    <3>3. CASE ~(deps = <<>> \/ \E k \in DOMAIN deps : Malformed(deps[k]))
      <4>1. asked' = deps /\ objs'[1].dependsOn = Annotation(deps)
        BY <2>1, <2>3, <3>3 DEF WithDependencies, Annotation
      <4> QED
        BY <3>1, <4>1 DEF AskedInv
    <3> QED
      BY <3>2, <3>3
  <2> QED
    BY <1>1, <2>4, <2>5, <2>6 DEF IdentityInv
<1>4. CASE Start
  <2>1. /\ pc' = "run" /\ starting' = Found /\ UNCHANGED <<served, stored, asked, saved, checked>>
    BY <1>4 DEF Start
  <2>2. /\ \A i \in DOMAIN objs' : ObjectOK(objs'[i])
        /\ 1 \in DOMAIN objs => objs'[1] = objs[1] /\ 1 \in DOMAIN objs'
    BY <1>1, <1>4, StartNames DEF NamesInv
  <2>3. \A m \in starting' : m.kind \in DOMAIN ScopeOf /\ m.name # <<>>
    BY <1>1, <2>1, LoadedNames DEF Found
  <2>4. NamesInv'
    BY <1>1, <2>1, <2>2, <2>3 DEF NamesInv, KeysAccepted
  <2>5. FoundInv'
    BY <1>1, <2>1, FoundSaved DEF FoundInv, AllSurvive
  <2>6. AskedInv'
    <3>1. DOMAIN objs = 1..Len(objs) /\ Len(objs) \in Nat /\ objs \in Seq({objs[i] : i \in DOMAIN objs})
      BY <1>1 DEF ObjectsInv
    <3>2. objs # <<>> => 1 \in DOMAIN objs
      BY <3>1
    <3>3. 1 \in DOMAIN objs' => objs' # <<>>
      OBVIOUS
    <3> QED
      BY <1>1, <2>1, <2>2, <3>2, <3>3 DEF AskedInv
  <2> QED
    BY <1>1, <2>4, <2>5, <2>6 DEF IdentityInv
<1>5. CASE StartFails
  <2>1. /\ pc' = "idle" /\ objs' = <<>> /\ asked' = <<>>
        /\ UNCHANGED <<served, stored, starting, saved, checked>>
    BY <1>5 DEF StartFails
  <2>2. NamesInv'
    <3>1. \A i \in DOMAIN objs' : ObjectOK(objs'[i])
      BY <2>1
    <3> QED
      BY <1>1, <2>1, <3>1 DEF NamesInv, KeysAccepted
  <2>3. FoundInv' /\ AskedInv'
    BY <1>1, <2>1 DEF FoundInv, AllSurvive, AskedInv
  <2> QED
    BY <1>1, <2>2, <2>3 DEF IdentityInv
<1>6. CASE Save
  <2>1. /\ pc' = "idle" /\ objs' = <<>> /\ starting' = {} /\ asked' = <<>>
        /\ UNCHANGED <<served, checked>>
        /\ \/ KeysAccepted(DataForStore) /\ stored' = DataForStore /\ saved' = NewInventory
           \/ UNCHANGED <<stored, saved>>
    BY <1>6 DEF Save
  <2>2. /\ \A m \in saved' : NameOK(m)
        /\ checked' => \A m \in saved' : m.namespace = <<>> <=> ScopeOf[m.kind] = "cluster"
        /\ stored' = {MetadataToString(m) : m \in saved'} /\ KeysAccepted(stored')
    <3>1. CASE KeysAccepted(DataForStore) /\ stored' = DataForStore /\ saved' = NewInventory
      BY <1>1, <2>1, <3>1, SavedNames DEF DataForStore
    <3>2. CASE UNCHANGED <<stored, saved>>
      BY <1>1, <2>1, <3>2 DEF NamesInv, FoundInv
    <3> QED
      BY <2>1, <3>1, <3>2
  <2>3. NamesInv'
    <3>1. (\A i \in DOMAIN objs' : ObjectOK(objs'[i])) /\ (\A m \in starting' : FALSE)
      BY <2>1
    <3>2. pc' \in {"idle", "read", "run"} /\ served' = served /\ checked' = checked
      BY <2>1
    <3> QED
      BY <1>1, <2>2, <3>1, <3>2 DEF NamesInv, KeysAccepted
  <2>4. FoundInv' /\ AskedInv'
    BY <2>1, <2>2 DEF FoundInv, AskedInv
  <2> QED
    BY <1>1, <2>3, <2>4 DEF IdentityInv
<1>7. CASE Install
  <2>1. /\ served \subseteq served' /\ served' \subseteq served \cup Custom
        /\ UNCHANGED <<pc, objs, stored, starting, asked, saved, checked>>
    BY <1>7 DEF Install
  <2>2. NamesInv'
    BY <1>1, <2>1 DEF NamesInv, KeysAccepted
  <2>3. FoundInv' /\ AskedInv'
    BY <1>1, <2>1 DEF FoundInv, AllSurvive, AskedInv
  <2> QED
    BY <1>1, <2>2, <2>3 DEF IdentityInv
<1>8. CASE UNCHANGED vars
  <2>1. NamesInv'
    BY <1>1, <1>8 DEF NamesInv, KeysAccepted, vars
  <2>2. FoundInv' /\ AskedInv'
    BY <1>1, <1>8 DEF FoundInv, AllSurvive, AskedInv, vars
  <2> QED
    BY <1>1, <2>1, <2>2 DEF IdentityInv
<1> QED
  BY <1>2, <1>3, <1>4, <1>5, <1>6, <1>7, <1>8 DEF Next

LEMMA IdentityTyped == IdentityInv => TypeOK
<1> SUFFICES ASSUME IdentityInv PROVE TypeOK
  OBVIOUS
<1>1. NamesInv
  BY DEF IdentityInv
<1>2. \A m \in Loaded : m.kind \in DOMAIN ScopeOf /\ m.name # <<>>
  BY <1>1, LoadedNames
<1>3. \A m \in saved \cup Identities : m.kind \in DOMAIN ScopeOf /\ m.name # <<>>
  BY <1>1 DEF NamesInv, ObjectOK, NameOK, Identities
<1> QED
  BY <1>1, <1>2, <1>3 DEF TypeOK, NamesInv

LEMMA IdentityPrunes == IdentityInv => PrunesWhatWasRemoved
  BY DEF IdentityInv, FoundInv, AllSurvive, PrunesWhatWasRemoved, ObjectsToPrune

LEMMA IdentityDepends == IdentityInv => DependencyNamesObject
<1> SUFFICES ASSUME IdentityInv, asked # <<>>,
                    \A k \in DOMAIN asked : Positions(asked[k].name, Comma) = {},
                    \A k \in DOMAIN asked : Positions(asked[k].name, Blank) = {}
             PROVE  ~ParseFails(objs[1].dependsOn) /\ Dependencies(objs[1].dependsOn) = asked
  BY Zenon DEF DependencyNamesObject
<1>1. asked \in Wanted /\ objs[1].dependsOn = Annotation(asked)
  BY DEF IdentityInv, AskedInv
<1>2. /\ asked \in Seq(IdentityType)
      /\ \A k \in DOMAIN asked : Admitted(asked[k]) /\ Positions(asked[k].name, "/") = {}
  BY <1>1, WantedType
<1>3. \A k \in DOMAIN asked : Readable(asked[k])
  <2> TAKE k \in DOMAIN asked
  <2>1. asked[k] \in IdentityType
    BY <1>2
  <2>2. Admitted(asked[k]) /\ Positions(asked[k].name, "/") = {}
    BY <1>2, Zenon
  <2>3. Positions(asked[k].name, Comma) = {} /\ Positions(asked[k].name, Blank) = {}
    BY Zenon
  <2> QED
    BY <2>1, <2>2, <2>3, Zenon DEF Readable
<1> QED
  BY <1>1, <1>2, <1>3, AnnotationParses

\* Whatever the names, kinds, readers and inputs: every identity the next run
\* loads, finds or saves has a name and a kind of the server, and the keys that
\* are stored are keys of a ConfigMap (resourcemetadata.go:55-91,
\* configmap.go:98-135).
THEOREM IdentityTypes == Spec => []TypeOK
  BY IdentityInit, IdentityStep, IdentityTyped, PTL DEF Spec

\* Whatever the names, kinds, readers and inputs, as long as readers that look at
\* scopes read the input and the names saved survive their keys: the run prunes
\* what the run before saved and the input no longer names, all of it and
\* nothing else (configmap.go:98-135, applier.go:194-233).
THEOREM RemovedIsPruned == Spec => []PrunesWhatWasRemoved
  BY IdentityInit, IdentityStep, IdentityPrunes, PTL DEF Spec

\* Whatever lists a caller sets, as long as their names have no comma and no
\* space: the graph reads the dependencies that were set last, in their order,
\* with their namespaces (dependency.go:42-169).
THEOREM DependenciesRead == Spec => []DependencyNamesObject
  BY IdentityInit, IdentityStep, IdentityDepends, PTL DEF Spec
=============================================================================
