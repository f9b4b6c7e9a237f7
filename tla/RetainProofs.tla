---------------------------- MODULE RetainProofs ----------------------------
(***************************************************************************)
(* What Retain computes, for every sequence: its recursion equations, and  *)
(* the order-preserving embedding into the sequence it filters.  The       *)
(* arguments are inductions over the natural numbers, which are phrased    *)
(* with sets: the least element principle follows from WFMin.              *)
(***************************************************************************)
EXTENDS Retain, TLAPS, WellFoundedInduction

\* Sequences with the same elements are the same.
LEMMA SeqEqual ==
    ASSUME NEW X, NEW s \in Seq(X), NEW t \in Seq(X), Len(s) = Len(t),
           \A i \in 1 .. Len(s) : s[i] = t[i]
    PROVE  s = t
  OBVIOUS

\* A set of naturals that is not empty has a least element.
LEMMA LeastElement ==
    ASSUME NEW T \in SUBSET Nat, T # {}
    PROVE  \E x \in T : \A y \in T : x <= y
  <1> DEFINE R == {ss \in Nat \X Nat : ss[1] < ss[2]}
  <1>1. R = OpToRel(<, Nat)  BY Zenon DEF OpToRel
  <1>2. IsWellFoundedOn(R, Nat)  BY <1>1, NatLessThanWellFounded, Zenon
  <1>3. \E x \in T : \A y \in T : ~ (<<y, x>> \in R)
    <2> HIDE DEF R
    <2> QED  BY <1>2, WFMin
  <1>4. ASSUME NEW x \in T, NEW y \in T, <<y, x>> \notin R PROVE x <= y
    BY <1>4, SMT
  <1> QED  BY <1>3, <1>4

\* Induction up to a bound, for a set in place of a predicate.
LEMMA InductionTo ==
    ASSUME NEW n \in Nat, NEW T, 0 \in T,
           \A i \in 0 .. n : i \in T /\ i < n => i + 1 \in T
    PROVE  \A i \in 0 .. n : i \in T
  <1> DEFINE Out == {i \in 0 .. n : i \notin T}
  <1> SUFFICES ASSUME Out # {} PROVE FALSE  OBVIOUS
  <1>1. Out \in SUBSET Nat  OBVIOUS
  <1>2. PICK x \in Out : \A y \in Out : x <= y
    <2> HIDE DEF Out
    <2> QED  BY <1>1, LeastElement
  <1>3. x \in 0 .. n /\ x # 0 /\ x \notin T  OBVIOUS
  <1>4. x - 1 \in 0 .. n /\ x - 1 < n /\ x - 1 < x /\ (x - 1) + 1 = x  BY <1>3, SMT
  <1>5. x - 1 \in T  BY <1>2, <1>4, SMT
  <1> QED  BY <1>3, <1>4, <1>5

------------------------------------------------------------------------------
(* The recursion equations *)

\* k[i] is what is kept of the first i elements, for i <= n.
Prefixes(k, seq, S, n) ==
    /\ k[0] = <<>>
    /\ \A i \in 1 .. n :
          k[i] = IF seq[i] \in S THEN Append(k[i - 1], seq[i]) ELSE k[i - 1]

\* The function that Retain chooses exists.
LEMMA PrefixesExist ==
    ASSUME NEW X, NEW seq \in Seq(X), NEW S
    PROVE  \E k \in [0 .. Len(seq) -> Seq(X)] : Prefixes(k, seq, S, Len(seq))
  <1> DEFINE T == {n \in 0 .. Len(seq) :
                      \E k \in [0 .. Len(seq) -> Seq(X)] : Prefixes(k, seq, S, n)}
  <1>1. 0 \in T
    <2>1. [i \in 0 .. Len(seq) |-> <<>>] \in [0 .. Len(seq) -> Seq(X)]  OBVIOUS
    <2>2. Prefixes([i \in 0 .. Len(seq) |-> <<>>], seq, S, 0)  BY DEF Prefixes
    <2> QED  BY <2>1, <2>2
  <1>2. ASSUME NEW n \in 0 .. Len(seq), n \in T, n < Len(seq) PROVE n + 1 \in T
    <2>1. PICK k \in [0 .. Len(seq) -> Seq(X)] : Prefixes(k, seq, S, n)  BY <1>2
    <2> DEFINE e == IF seq[n + 1] \in S THEN Append(k[n], seq[n + 1]) ELSE k[n]
               l == [k EXCEPT ![n + 1] = e]
    <2>2. e \in Seq(X)  BY <1>2
    <2>3. l \in [0 .. Len(seq) -> Seq(X)]  BY <2>2
    <2>4. l[n + 1] = e /\ \A i \in 0 .. n : l[i] = k[i]  BY <1>2
    <2>5. Prefixes(l, seq, S, n + 1)
      <3>1. l[0] = <<>>  BY <2>1, <2>4 DEF Prefixes
      <3>2. ASSUME NEW i \in 1 .. n + 1
            PROVE  l[i] = IF seq[i] \in S THEN Append(l[i - 1], seq[i]) ELSE l[i - 1]
        <4>1. CASE i = n + 1  BY <4>1, <2>4
        <4>2. CASE i # n + 1
          <5>1. i \in 1 .. n /\ i \in 0 .. n /\ i - 1 \in 0 .. n  BY <4>2
          <5> HIDE DEF l
          <5> QED  BY <5>1, <2>1, <2>4 DEF Prefixes
        <4> QED  BY <4>1, <4>2
      <3> QED  BY <3>1, <3>2 DEF Prefixes
    <2>6. n + 1 \in 0 .. Len(seq)  BY <1>2
    <2> HIDE DEF l
    <2> QED  BY <2>3, <2>5, <2>6
  <1>3. Len(seq) \in T
    <2>1. Len(seq) \in Nat /\ Len(seq) \in 0 .. Len(seq)  OBVIOUS
    <2> HIDE DEF T
    <2> QED  BY <1>1, <1>2, <2>1, InductionTo
  <1> QED  BY <1>3

\* Two functions that obey the equations agree.
LEMMA PrefixesAgree ==
    ASSUME NEW n \in Nat, NEW k, NEW l, NEW s, NEW t, NEW S, NEW R,
           Prefixes(k, s, S, n), Prefixes(l, t, R, n),
           \A i \in 1 .. n : s[i] = t[i] /\ (s[i] \in S <=> t[i] \in R)
    PROVE  k[n] = l[n]
  <1> DEFINE T == {i \in 0 .. n : k[i] = l[i]}
  <1>1. 0 \in T  BY DEF Prefixes
  <1>2. ASSUME NEW i \in 0 .. n, i \in T, i < n PROVE i + 1 \in T
    <2>1. i + 1 \in 1 .. n /\ (i + 1) - 1 = i /\ i + 1 \in 0 .. n  BY <1>2
    <2>2. k[i + 1] = IF s[i + 1] \in S THEN Append(k[i], s[i + 1]) ELSE k[i]
      BY <2>1, Zenon DEF Prefixes
    <2>3. l[i + 1] = IF t[i + 1] \in R THEN Append(l[i], t[i + 1]) ELSE l[i]
      BY <2>1, Zenon DEF Prefixes
    <2> QED  BY <1>2, <2>1, <2>2, <2>3
  <1>3. n \in T
    <2> HIDE DEF T
    <2> QED  BY <1>1, <1>2, InductionTo
  <1> QED  BY <1>3

\* Retain computes the last of the prefixes.
LEMMA RetainEquations ==
    ASSUME NEW X, NEW seq \in Seq(X), NEW S
    PROVE  \E k \in [0 .. Len(seq) -> Seq(X)] :
              Prefixes(k, seq, S, Len(seq)) /\ Retain(seq, S) = k[Len(seq)]
  <1> DEFINE F(k) == [n \in 0 .. Len(seq) |->
                        IF n = 0 THEN <<>>
                        ELSE IF seq[n] \in S THEN Append(k[n - 1], seq[n]) ELSE k[n - 1]]
             kept == CHOOSE k : k = F(k)
  <1>1. PICK k \in [0 .. Len(seq) -> Seq(X)] : Prefixes(k, seq, S, Len(seq))
    BY PrefixesExist
  <1>2. k = F(k)
    <2>1. ASSUME NEW n \in 0 .. Len(seq)
          PROVE  k[n] = IF n = 0 THEN <<>>
                        ELSE IF seq[n] \in S THEN Append(k[n - 1], seq[n]) ELSE k[n - 1]
      <3>1. n = 0 \/ n \in 1 .. Len(seq)  OBVIOUS
      <3> QED  BY <1>1, <3>1, Zenon DEF Prefixes
    <2> QED  BY <2>1
  <1>3. kept = F(kept)
    <2> HIDE DEF F
    <2> QED  BY <1>2
  <1>4. Retain(seq, S) = kept[Len(seq)]  BY Zenon DEF Retain
  <1>5. Prefixes(kept, seq, S, Len(seq))
    <2> HIDE DEF kept
    <2>1. kept[0] = <<>>  BY <1>3
    <2>2. ASSUME NEW i \in 1 .. Len(seq)
          PROVE  kept[i] = IF seq[i] \in S THEN Append(kept[i - 1], seq[i]) ELSE kept[i - 1]
      <3>1. i \in 0 .. Len(seq) /\ i # 0  OBVIOUS
      <3> QED  BY <1>3, <3>1, Zenon
    <2> QED  BY <2>1, <2>2 DEF Prefixes
  <1>6. k[Len(seq)] = kept[Len(seq)]
    <2> HIDE DEF kept
    <2> QED  BY <1>1, <1>5, PrefixesAgree
  <1> QED  BY <1>1, <1>4, <1>6

\* Retain yields a sequence over the same set, of nothing an empty one.
LEMMA RetainSeq ==
    ASSUME NEW X, NEW seq \in Seq(X), NEW S
    PROVE  Retain(seq, S) \in Seq(X) /\ Retain(<<>>, S) = <<>>
  <1>1. PICK k \in [0 .. Len(seq) -> Seq(X)] :
            Prefixes(k, seq, S, Len(seq)) /\ Retain(seq, S) = k[Len(seq)]
    BY RetainEquations
  <1>2. Len(seq) \in 0 .. Len(seq)  OBVIOUS
  <1>3. <<>> \in Seq(X) /\ Len(<<>>) = 0  OBVIOUS
  <1>4. PICK l : Prefixes(l, <<>>, S, Len(<<>>)) /\ Retain(<<>>, S) = l[Len(<<>>)]
    BY <1>3, RetainEquations
  <1>5. Retain(<<>>, S) = <<>>  BY <1>3, <1>4 DEF Prefixes
  <1> QED  BY <1>1, <1>2, <1>5

\* Retain of one element more.
LEMMA RetainAppend ==
    ASSUME NEW X, NEW seq \in Seq(X), NEW e \in X, NEW S
    PROVE  Retain(Append(seq, e), S) = IF e \in S THEN Append(Retain(seq, S), e)
                                       ELSE Retain(seq, S)
  <1> DEFINE long == Append(seq, e)
             n == Len(seq)
  <1>1. PICK l \in [0 .. n -> Seq(X)] : Prefixes(l, seq, S, n) /\ Retain(seq, S) = l[n]
    BY RetainEquations
  <1>2. long \in Seq(X) /\ Len(long) = n + 1 /\ long[n + 1] = e /\ n \in Nat
        /\ \A i \in 1 .. n : long[i] = seq[i]
    OBVIOUS
  <1>3. PICK m : Prefixes(m, long, S, n + 1) /\ Retain(long, S) = m[n + 1]
    <2>1. PICK m : Prefixes(m, long, S, Len(long)) /\ Retain(long, S) = m[Len(long)]
      <3> HIDE DEF long
      <3> QED  BY <1>2, RetainEquations
    <2> HIDE DEF long
    <2> QED  BY <1>2, <2>1
  <1>4. m[n] = l[n]
    <2>1. Prefixes(m, long, S, n)  BY <1>2, <1>3 DEF Prefixes
    <2> HIDE DEF long, n
    <2> QED  BY <1>1, <1>2, <2>1, PrefixesAgree
  <1>5. m[n + 1] = IF long[n + 1] \in S THEN Append(m[n], long[n + 1]) ELSE m[n]
    <2>1. n + 1 \in 1 .. n + 1 /\ (n + 1) - 1 = n  BY <1>2
    <2> QED  BY <1>3, <2>1, Zenon DEF Prefixes
  <1>6. m[n + 1] = IF e \in S THEN Append(l[n], e) ELSE l[n]
    <2> HIDE DEF long, n
    <2> QED  BY <1>2, <1>4, <1>5, Zenon
  <1> QED  BY <1>1, <1>3, <1>6, Zenon

\* Append and concatenation associate.
LEMMA ConcatAppend ==
    ASSUME NEW X, NEW s \in Seq(X), NEW t \in Seq(X), NEW e \in X
    PROVE  s \o Append(t, e) = Append(s \o t, e)
  <1>1. Append(t, e) \in Seq(X) /\ s \o t \in Seq(X)  OBVIOUS
  <1>2. Append(s \o t, e) \in Seq(X) /\ s \o Append(t, e) \in Seq(X)  BY <1>1
  <1>3. Len(Append(s \o t, e)) = Len(s \o Append(t, e))  BY <1>1
  <1>4. ASSUME NEW i \in 1 .. Len(Append(s \o t, e))
        PROVE  Append(s \o t, e)[i] = (s \o Append(t, e))[i]
    BY <1>1
  <1> QED  BY <1>2, <1>3, <1>4, SeqEqual

\* Retain distributes over concatenation.
LEMMA RetainConcat ==
    ASSUME NEW X, NEW s \in Seq(X), NEW t \in Seq(X), NEW S
    PROVE  Retain(s \o t, S) = Retain(s, S) \o Retain(t, S)
  <1> DEFINE first(i) == SubSeq(t, 1, i)
             T == {i \in 0 .. Len(t) :
                      Retain(s \o first(i), S) = Retain(s, S) \o Retain(first(i), S)}
  <1>0. Len(t) \in Nat /\ Retain(s, S) \in Seq(X) /\ Retain(<<>>, S) = <<>>
    BY RetainSeq
  <1>1. 0 \in T
    <2>1. first(0) = <<>>  OBVIOUS
    <2>2. s \o <<>> = s /\ Retain(s, S) \o <<>> = Retain(s, S)  BY <1>0
    <2>3. 0 \in 0 .. Len(t)  BY <1>0
    <2> HIDE DEF first
    <2> QED  BY <1>0, <2>1, <2>2, <2>3, Zenon
  <1>2. ASSUME NEW i \in 0 .. Len(t), i \in T, i < Len(t) PROVE i + 1 \in T
    <2> DEFINE b == first(i)
               a == s \o b
               e == t[i + 1]
               r == Retain(b, S)
    <2>1. b \in Seq(X) /\ e \in X  BY <1>2
    <2>2. first(i + 1) = Append(b, e)  BY <1>2
    <2>3. a \in Seq(X)
      <3> HIDE DEF b
      <3> QED  BY <2>1
    <2>4. s \o Append(b, e) = Append(a, e)
      <3> HIDE DEF b, e
      <3> QED  BY <2>1, ConcatAppend
    <2>5. Retain(Append(a, e), S) = IF e \in S THEN Append(Retain(a, S), e) ELSE Retain(a, S)
      <3> HIDE DEF a, e
      <3> QED  BY <2>1, <2>3, RetainAppend
    <2>6. /\ Retain(Append(b, e), S) = IF e \in S THEN Append(r, e) ELSE r
          /\ r \in Seq(X)
      <3> HIDE DEF b, e
      <3> QED  BY <2>1, RetainAppend, RetainSeq
    <2>7. Append(Retain(s, S) \o r, e) = Retain(s, S) \o Append(r, e)
      <3> DEFINE q == Retain(s, S)
      <3>1. r \in Seq(X) /\ e \in X /\ q \in Seq(X)  BY <1>0, <2>1, <2>6
      <3>2. q \o Append(r, e) = Append(q \o r, e)
        <4> HIDE DEF q, r, e
        <4> QED  BY <3>1, ConcatAppend
      <3> QED  BY <3>2
    <2>8. Retain(a, S) = Retain(s, S) \o r  BY <1>2
    <2>9. i + 1 \in 0 .. Len(t)  BY <1>2
    <2> HIDE DEF first, a, b, e, r
    <2> QED  BY <2>2, <2>4, <2>5, <2>6, <2>7, <2>8, <2>9
  <1>3. Len(t) \in T
    <2>1. Len(t) \in 0 .. Len(t)  BY <1>0
    <2> HIDE DEF T
    <2> QED  BY <1>0, <1>1, <1>2, <2>1, InductionTo
  <1>4. first(Len(t)) = t  OBVIOUS
  <1> QED  BY <1>3, <1>4

\* Elements that are all in S are kept, and those of which none is are dropped.
LEMMA RetainUniform ==
    ASSUME NEW X, NEW seq \in Seq(X), NEW S
    PROVE  /\ (\A i \in 1 .. Len(seq) : seq[i] \in S) => Retain(seq, S) = seq
           /\ (\A i \in 1 .. Len(seq) : seq[i] \notin S) => Retain(seq, S) = <<>>
  <1>1. PICK k \in [0 .. Len(seq) -> Seq(X)] :
            Prefixes(k, seq, S, Len(seq)) /\ Retain(seq, S) = k[Len(seq)]
    BY RetainEquations
  <1>2. Len(seq) \in Nat /\ Len(seq) \in 0 .. Len(seq)  OBVIOUS
  <1>3. ASSUME \A i \in 1 .. Len(seq) : seq[i] \in S PROVE Retain(seq, S) = seq
    <2> DEFINE T == {i \in 0 .. Len(seq) : k[i] = SubSeq(seq, 1, i)}
    <2>1. 0 \in T  BY <1>1 DEF Prefixes
    <2>2. ASSUME NEW i \in 0 .. Len(seq), i \in T, i < Len(seq) PROVE i + 1 \in T
      <3>1. i + 1 \in 1 .. Len(seq) /\ (i + 1) - 1 = i  BY <2>2
      <3>2. k[i + 1] = Append(k[i], seq[i + 1])  BY <1>1, <1>3, <3>1, Zenon DEF Prefixes
      <3>3. Append(SubSeq(seq, 1, i), seq[i + 1]) = SubSeq(seq, 1, i + 1)  BY <2>2
      <3> QED  BY <2>2, <3>1, <3>2, <3>3
    <2>3. Len(seq) \in T
      <3> HIDE DEF T
      <3> QED  BY <1>2, <2>1, <2>2, InductionTo
    <2> QED  BY <1>1, <2>3
  <1>4. ASSUME \A i \in 1 .. Len(seq) : seq[i] \notin S PROVE Retain(seq, S) = <<>>
    <2> DEFINE T == {i \in 0 .. Len(seq) : k[i] = <<>>}
    <2>1. 0 \in T  BY <1>1 DEF Prefixes
    <2>2. ASSUME NEW i \in 0 .. Len(seq), i \in T, i < Len(seq) PROVE i + 1 \in T
      <3>1. i + 1 \in 1 .. Len(seq) /\ (i + 1) - 1 = i  BY <2>2
      <3>2. k[i + 1] = k[i]  BY <1>1, <1>4, <3>1, Zenon DEF Prefixes
      <3> QED  BY <2>2, <3>1, <3>2
    <2>3. Len(seq) \in T
      <3> HIDE DEF T
      <3> QED  BY <1>2, <2>1, <2>2, InductionTo
    <2> QED  BY <1>1, <2>3
  <1> QED  BY <1>3, <1>4

\* Only which elements of the sequence are in S matters.
LEMMA RetainSame ==
    ASSUME NEW X, NEW seq \in Seq(X), NEW S, NEW R,
           \A i \in 1 .. Len(seq) : seq[i] \in S <=> seq[i] \in R
    PROVE  Retain(seq, S) = Retain(seq, R)
  <1>1. PICK k : Prefixes(k, seq, S, Len(seq)) /\ Retain(seq, S) = k[Len(seq)]
    BY RetainEquations
  <1>2. PICK l : Prefixes(l, seq, R, Len(seq)) /\ Retain(seq, R) = l[Len(seq)]
    BY RetainEquations
  <1>3. Len(seq) \in Nat  OBVIOUS
  <1> QED  BY <1>1, <1>2, <1>3, PrefixesAgree

\* What is filtered twice.
LEMMA RetainTwice ==
    ASSUME NEW X, NEW seq \in Seq(X), NEW S, NEW R
    PROVE  Retain(Retain(seq, S), R) = Retain(seq, S \cap R)
  <1> DEFINE first(i) == SubSeq(seq, 1, i)
             T == {i \in 0 .. Len(seq) :
                      Retain(Retain(first(i), S), R) = Retain(first(i), S \cap R)}
  <1>0. Len(seq) \in Nat  OBVIOUS
  <1>1. 0 \in T
    <2>1. first(0) = <<>> /\ 0 \in 0 .. Len(seq)  OBVIOUS
    <2>2. /\ Retain(<<>>, S) = <<>> /\ Retain(<<>>, R) = <<>>
          /\ Retain(<<>>, S \cap R) = <<>>
      BY RetainSeq
    <2> HIDE DEF first
    <2> QED  BY <2>1, <2>2
  <1>2. ASSUME NEW i \in 0 .. Len(seq), i \in T, i < Len(seq) PROVE i + 1 \in T
    <2> DEFINE a == first(i)
               e == seq[i + 1]
               b == Retain(a, S)
    <2>1. a \in Seq(X) /\ e \in X /\ i + 1 \in 0 .. Len(seq)  BY <1>2
    <2>2. first(i + 1) = Append(a, e)  BY <1>2
    <2>3. Retain(b, R) = Retain(a, S \cap R)  BY <1>2
    <2>4. b \in Seq(X)
      <3> HIDE DEF a
      <3> QED  BY <2>1, RetainSeq
    <2>5. Retain(Append(a, e), S) = IF e \in S THEN Append(b, e) ELSE b
      <3> HIDE DEF a, e
      <3> QED  BY <2>1, RetainAppend
    <2>6. Retain(Append(b, e), R) = IF e \in R THEN Append(Retain(b, R), e) ELSE Retain(b, R)
      <3> HIDE DEF b, e
      <3> QED  BY <2>1, <2>4, RetainAppend
    <2>7. Retain(Append(a, e), S \cap R) = IF e \in S \cap R
                                           THEN Append(Retain(a, S \cap R), e)
                                           ELSE Retain(a, S \cap R)
      <3> HIDE DEF a, e
      <3> QED  BY <2>1, RetainAppend
    <2> HIDE DEF first, a, b, e
    <2> QED  BY <2>1, <2>2, <2>3, <2>5, <2>6, <2>7
  <1>3. Len(seq) \in T
    <2>1. Len(seq) \in 0 .. Len(seq)  BY <1>0
    <2> HIDE DEF T
    <2> QED  BY <1>0, <1>1, <1>2, <2>1, InductionTo
  <1>4. first(Len(seq)) = seq  OBVIOUS
  <1> QED  BY <1>3, <1>4

------------------------------------------------------------------------------
(* The embedding *)

\* h says where each element of `kept` stands in seq: they are there in the same
\* order, are in S, and no element of S is missing.
Embeds(h, kept, seq, n, S) ==
    /\ h \in [1 .. Len(kept) -> 1 .. n]
    /\ \A i, j \in 1 .. Len(kept) : i < j => h[i] < h[j]
    /\ \A i \in 1 .. Len(kept) : kept[i] = seq[h[i]] /\ kept[i] \in S
    /\ \A p \in 1 .. n : seq[p] \in S => \E i \in 1 .. Len(kept) : h[i] = p

\* One element more, in S or not.
LEMMA EmbedsStep ==
    ASSUME NEW X, NEW kept \in Seq(X), NEW seq, NEW S, NEW n \in Nat, seq[n + 1] \in X,
           NEW h, Embeds(h, kept, seq, n, S)
    PROVE  \E g : Embeds(g, IF seq[n + 1] \in S THEN Append(kept, seq[n + 1]) ELSE kept,
                         seq, n + 1, S)
  <1> DEFINE l == Len(kept)
  <1>0. l \in Nat  OBVIOUS
  <1>1. CASE seq[n + 1] \notin S
    <2>1. Embeds(h, kept, seq, n + 1, S)
      BY <1>1, <1>0 DEF Embeds
    <2> QED  BY <1>1, <2>1
  <1>2. CASE seq[n + 1] \in S
    <2> DEFINE more == Append(kept, seq[n + 1])
               g == [i \in 1 .. l + 1 |-> IF i = l + 1 THEN n + 1 ELSE h[i]]
    <2>1. Len(more) = l + 1 /\ more[l + 1] = seq[n + 1] /\ \A i \in 1 .. l : more[i] = kept[i]
      OBVIOUS
    <2>2. g \in [1 .. l + 1 -> 1 .. n + 1]  BY <1>0 DEF Embeds
    <2>3. g[l + 1] = n + 1 /\ \A i \in 1 .. l : g[i] = h[i] /\ g[i] < n + 1
      BY <1>0 DEF Embeds
    <2> HIDE DEF g, more
    <2>4. \A i, j \in 1 .. l + 1 : i < j => g[i] < g[j]
      <3> SUFFICES ASSUME NEW i \in 1 .. l + 1, NEW j \in 1 .. l + 1, i < j PROVE g[i] < g[j]
        OBVIOUS
      <3>1. i \in 1 .. l  BY <1>0
      <3>2. CASE j = l + 1  BY <2>3, <3>1, <3>2
      <3>3. CASE j # l + 1
        <4>1. j \in 1 .. l  BY <1>0, <3>3
        <4> QED  BY <2>3, <3>1, <4>1 DEF Embeds
      <3> QED  BY <3>2, <3>3
    <2>5. \A i \in 1 .. l + 1 : more[i] = seq[g[i]] /\ more[i] \in S
      <3> SUFFICES ASSUME NEW i \in 1 .. l + 1 PROVE more[i] = seq[g[i]] /\ more[i] \in S
        OBVIOUS
      <3>1. i = l + 1 \/ i \in 1 .. l  BY <1>0
      <3> QED  BY <1>2, <2>1, <2>3, <3>1 DEF Embeds
    <2>6. \A p \in 1 .. n + 1 : seq[p] \in S => \E i \in 1 .. l + 1 : g[i] = p
      <3> SUFFICES ASSUME NEW p \in 1 .. n + 1, seq[p] \in S PROVE \E i \in 1 .. l + 1 : g[i] = p
        OBVIOUS
      <3>1. CASE p = n + 1
        <4>1. l + 1 \in 1 .. l + 1  BY <1>0
        <4> QED  BY <2>3, <3>1, <4>1
      <3>2. CASE p # n + 1
        <4>1. p \in 1 .. n  BY <3>2
        <4>2. PICK i \in 1 .. l : h[i] = p  BY <4>1 DEF Embeds
        <4>3. i \in 1 .. l + 1  BY <1>0
        <4> QED  BY <2>3, <4>2, <4>3
      <3> QED  BY <3>1, <3>2
    <2>7. Embeds(g, more, seq, n + 1, S)  BY <2>1, <2>2, <2>4, <2>5, <2>6 DEF Embeds
    <2> QED  BY <1>2, <2>7 DEF more
  <1> QED  BY <1>1, <1>2

\* Retain keeps exactly the elements of S, each in its place in the order.
THEOREM RetainEmbeds ==
    ASSUME NEW X, NEW seq \in Seq(X), NEW S
    PROVE  \E h : Embeds(h, Retain(seq, S), seq, Len(seq), S)
  <1>1. PICK k \in [0 .. Len(seq) -> Seq(X)] :
            Prefixes(k, seq, S, Len(seq)) /\ Retain(seq, S) = k[Len(seq)]
    BY RetainEquations
  <1>2. Len(seq) \in Nat /\ Len(seq) \in 0 .. Len(seq)  OBVIOUS
  <1> DEFINE T == {i \in 0 .. Len(seq) : \E h : Embeds(h, k[i], seq, i, S)}
  <1>3. 0 \in T
    <2>1. k[0] = <<>> /\ 0 \in 0 .. Len(seq)  BY <1>1, <1>2 DEF Prefixes
    <2>2. Embeds(<<>>, <<>>, seq, 0, S)  BY DEF Embeds
    <2> QED  BY <2>1, <2>2
  <1>4. ASSUME NEW i \in 0 .. Len(seq), i \in T, i < Len(seq) PROVE i + 1 \in T
    <2>1. i + 1 \in 1 .. Len(seq) /\ (i + 1) - 1 = i /\ i + 1 \in 0 .. Len(seq) /\ i \in Nat
      BY <1>4
    <2>2. k[i + 1] = IF seq[i + 1] \in S THEN Append(k[i], seq[i + 1]) ELSE k[i]
      BY <1>1, <2>1, Zenon DEF Prefixes
    <2>3. PICK h : Embeds(h, k[i], seq, i, S)  BY <1>4
    <2>4. k[i] \in Seq(X) /\ seq[i + 1] \in X  BY <2>1
    <2>5. \E g : Embeds(g, k[i + 1], seq, i + 1, S)
      BY <2>1, <2>2, <2>3, <2>4, EmbedsStep
    <2> QED  BY <2>1, <2>5
  <1>5. Len(seq) \in T
    <2> HIDE DEF T
    <2> QED  BY <1>2, <1>3, <1>4, InductionTo
  <1> QED  BY <1>1, <1>5

=============================================================================
