----------------------------- MODULE SeqLemmas -----------------------------
(***************************************************************************)
(* Facts about sequences and natural numbers that the proofs about several  *)
(* components use.  FlattenSeq is defined by recursion over its argument;   *)
(* what it does with a longer sequence is shown with least counterexamples. *)
(***************************************************************************)
EXTENDS Integers, Sequences, SequencesExt, SequenceTheorems, WellFoundedInduction, TLAPS

(* A set of natural numbers that is not empty has a least element.          *)
LEMMA MinOf ==
  ASSUME NEW S \in SUBSET Nat, S # {}
  PROVE  /\ Min(S) \in S
         /\ \A y \in S : Min(S) <= y
<1> DEFINE R == OpToRel(<, Nat)
<1>0. \A x, y \in Nat : y < x => <<y, x>> \in R
  <2>1. R = {ss \in Nat \X Nat : ss[1] < ss[2]}
    BY DEF OpToRel
  <2> QED
    BY <2>1
<1>1. IsWellFoundedOn(R, Nat)
  BY NatLessThanWellFounded
<1> HIDE DEF R
<1>2. PICK x \in S : \A y \in S : ~(<<y, x>> \in R)
  BY <1>1, WFMin
<1>3. ASSUME NEW y \in S PROVE x <= y
  <2>1. x \in Nat /\ y \in Nat
    OBVIOUS
  <2>2. ~(y < x)
    BY <1>0, <1>2, <2>1
  <2> QED
    BY <2>1, <2>2
<1> QED
  BY <1>3 DEF Min

(* An element appended to the second of two sequences ends the whole, and   *)
(* the head of the second may be moved to the end of the first.             *)
LEMMA AppendConcat ==
  ASSUME NEW S, NEW a \in Seq(S), NEW b \in Seq(S)
  PROVE  /\ \A x \in S : a \o Append(b, x) = Append(a \o b, x)
         /\ b # << >> => Append(a, Head(b)) \o Tail(b) = a \o b
<1>1. ASSUME NEW x \in S PROVE a \o Append(b, x) = Append(a \o b, x)
  <2>1. Append(b, x) = b \o <<x>> /\ Append(a \o b, x) = (a \o b) \o <<x>> /\ <<x>> \in Seq(S)
    BY AppendIsConcat, ConcatProperties
  <2> QED
    BY <2>1, ConcatAssociative
<1>2. ASSUME b # << >> PROVE Append(a, Head(b)) \o Tail(b) = a \o b
  BY <1>2
<1> QED
  BY <1>1, <1>2

----------------------------------------------------------------------------
(* FlattenSeq.                                                             *)

\* g is the function FlattenSeq(q) computes, up to the n-th element of q.
Flattens(g, q, n) ==
  \A i \in 1 .. n : g[i] = IF i = 1 THEN q[i] ELSE g[i - 1] \o q[i]

Flat(q) == CHOOSE g : g = [i \in 1 .. Len(q) |-> IF i = 1 THEN q[i] ELSE g[i - 1] \o q[i]]

(* The function exists, for every prefix of q.                              *)
LEMMA FlattensExists ==
  ASSUME NEW S, NEW q \in Seq(Seq(S)), NEW n \in 0 .. Len(q)
  PROVE  \E g \in [1 .. n -> Seq(S)] : Flattens(g, q, n)
<1> DEFINE Bad == {k \in 0 .. Len(q) : ~\E g \in [1 .. k -> Seq(S)] : Flattens(g, q, k)}
<1> SUFFICES ASSUME Bad # {} PROVE FALSE
  OBVIOUS
<1>0. Bad \in SUBSET Nat
  OBVIOUS
<1> DEFINE m == Min(Bad)
<1> HIDE DEF Bad
<1>1. m \in Bad /\ \A k \in Bad : m <= k
  BY <1>0, MinOf
<1> HIDE DEF m
<1> USE DEF Bad
<1>2. m \in 0 .. Len(q) /\ ~\E g \in [1 .. m -> Seq(S)] : Flattens(g, q, m)
  BY <1>1
<1>3. m # 0
  <2>1. [i \in 1 .. 0 |-> << >>] \in [1 .. 0 -> Seq(S)]
    OBVIOUS
  <2>2. Flattens([i \in 1 .. 0 |-> << >>], q, 0)
    BY DEF Flattens
  <2> QED
    BY <1>2, <2>1, <2>2
<1>4. m - 1 \in 0 .. Len(q) /\ m - 1 \notin Bad
  <2>1. m \in Nat /\ Len(q) \in Nat
    BY <1>2
  <2>2. ~(m <= m - 1)
    BY <2>1
  <2>3. m - 1 \in 0 .. Len(q)
    BY <1>2, <1>3, <2>1
  <2>4. m - 1 \notin Bad
    <3> HIDE DEF Bad
    <3> QED
      BY <1>1, <2>2
  <2> QED
    BY <2>3, <2>4
<1>5. PICK g \in [1 .. m - 1 -> Seq(S)] : Flattens(g, q, m - 1)
  BY <1>4
<1> HIDE DEF Bad
<1> DEFINE h == [i \in 1 .. m |-> IF i < m THEN g[i] ELSE IF m = 1 THEN q[m] ELSE g[m - 1] \o q[m]]
<1>6. \A i \in 1 .. m : h[i] \in Seq(S)
  <2>1. q[m] \in Seq(S)
    BY <1>2, <1>3
  <2>2. m # 1 => g[m - 1] \in Seq(S)
    BY <1>2, <1>3
  <2>3. m # 1 => g[m - 1] \o q[m] \in Seq(S)
    BY <2>1, <2>2, ConcatProperties
  <2>4. \A i \in 1 .. m : i < m => g[i] \in Seq(S)
    BY <1>2
  <2> QED
    BY <2>1, <2>3, <2>4
<1>7. h \in [1 .. m -> Seq(S)]
  BY <1>6
<1>8. Flattens(h, q, m)
  <2> SUFFICES ASSUME NEW i \in 1 .. m
               PROVE  h[i] = IF i = 1 THEN q[i] ELSE h[i - 1] \o q[i]
    BY DEF Flattens
  <2>0. m \in Nat /\ i \in Nat
    BY <1>2
  <2>1. CASE i < m
    <3>1. i \in 1 .. m - 1 /\ h[i] = g[i]
      BY <2>0, <2>1
    <3>2. g[i] = IF i = 1 THEN q[i] ELSE g[i - 1] \o q[i]
      BY <1>5, <3>1 DEF Flattens
    <3>3. i # 1 => h[i - 1] = g[i - 1]
      BY <2>0, <2>1
    <3> QED
      BY <3>1, <3>2, <3>3
  <2>2. CASE i = m
    <3>1. m # 1 => h[m - 1] = g[m - 1]
      BY <2>0, <1>3
    <3> QED
      BY <2>0, <2>2, <3>1
  <2> QED
    BY <2>0, <2>1, <2>2
<1> QED
  BY <1>2, <1>7, <1>8

(* The function is determined by the elements it has passed.                *)
LEMMA FlattensUnique ==
  ASSUME NEW n \in Nat, NEW q, NEW r, NEW f, NEW g,
         \A i \in 1 .. n : q[i] = r[i],
         Flattens(f, q, n), Flattens(g, r, n)
  PROVE  \A i \in 1 .. n : f[i] = g[i]
<1> DEFINE Bad == {i \in 1 .. n : f[i] # g[i]}
<1> SUFFICES ASSUME Bad # {} PROVE FALSE
  OBVIOUS
<1>0. Bad \in SUBSET Nat
  OBVIOUS
<1> DEFINE m == Min(Bad)
<1> HIDE DEF Bad
<1>1. m \in Bad /\ \A k \in Bad : m <= k
  BY <1>0, MinOf
<1> HIDE DEF m
<1>2. m \in 1 .. n /\ f[m] # g[m]
  BY <1>1 DEF Bad
<1>3. CASE m = 1
  BY <1>2, <1>3 DEF Flattens
<1>4. CASE m # 1
  <2>1. m - 1 \in 1 .. n /\ ~(m <= m - 1)
    BY <1>2, <1>4
  <2>2. f[m - 1] = g[m - 1]
    BY <1>1, <2>1 DEF Bad
  <2> QED
    BY <1>2, <1>4, <2>2 DEF Flattens
<1> QED
  BY <1>3, <1>4

(* FlattenSeq computes it.                                                  *)
LEMMA FlatComputes ==
  ASSUME NEW S, NEW q \in Seq(Seq(S))
  PROVE  /\ Flattens(Flat(q), q, Len(q))
         /\ \A i \in 1 .. Len(q) : Flat(q)[i] \in Seq(S)
         /\ FlattenSeq(q) = IF Len(q) = 0 THEN << >> ELSE Flat(q)[Len(q)]
<1>0. Len(q) \in Nat
  OBVIOUS
<1>1. PICK g \in [1 .. Len(q) -> Seq(S)] : Flattens(g, q, Len(q))
  BY <1>0, FlattensExists
<1>2. g = [i \in 1 .. Len(q) |-> IF i = 1 THEN q[i] ELSE g[i - 1] \o q[i]]
  BY <1>1 DEF Flattens
<1>3. Flat(q) = [i \in 1 .. Len(q) |-> IF i = 1 THEN q[i] ELSE Flat(q)[i - 1] \o q[i]]
  BY <1>2 DEF Flat
<1>4. Flattens(Flat(q), q, Len(q))
  BY <1>3 DEF Flattens
<1>5. \A i \in 1 .. Len(q) : Flat(q)[i] = g[i]
  BY <1>0, <1>1, <1>4, FlattensUnique
<1>6. FlattenSeq(q) = IF Len(q) = 0 THEN q ELSE Flat(q)[Len(q)]
  BY DEF FlattenSeq, Flat
<1>7. Len(q) = 0 => q = << >>
  BY EmptySeq
<1> QED
  BY <1>4, <1>5, <1>6, <1>7

(* Flattening one more sequence appends it.                                 *)
LEMMA FlattenAppend ==
  ASSUME NEW S, NEW q \in Seq(Seq(S)), NEW x \in Seq(S)
  PROVE  /\ FlattenSeq(q) \in Seq(S)
         /\ FlattenSeq(Append(q, x)) = FlattenSeq(q) \o x
<1> DEFINE r == Append(q, x)
           n == Len(q)
<1>1. /\ r \in Seq(Seq(S)) /\ n \in Nat /\ Len(r) = n + 1
      /\ r[n + 1] = x /\ \A i \in 1 .. n : q[i] = r[i]
  BY AppendProperties
<1> HIDE DEF r
<1>2. /\ Flattens(Flat(q), q, n)
      /\ \A i \in 1 .. n : Flat(q)[i] \in Seq(S)
      /\ FlattenSeq(q) = IF n = 0 THEN << >> ELSE Flat(q)[n]
  BY FlatComputes
<1>3. /\ Flattens(Flat(r), r, n + 1)
      /\ FlattenSeq(r) = IF n + 1 = 0 THEN << >> ELSE Flat(r)[n + 1]
  BY <1>1, FlatComputes
<1> HIDE DEF n
<1>4. FlattenSeq(q) \in Seq(S)
  BY <1>1, <1>2
<1>5. CASE n = 0
  <2>1. FlattenSeq(r) = x
    BY <1>1, <1>3, <1>5 DEF Flattens
  <2> QED
    BY <1>2, <1>4, <1>5, <2>1, ConcatEmptySeq DEF r
<1>6. CASE n # 0
  <2>1. Flattens(Flat(r), r, n)
    BY <1>1, <1>3 DEF Flattens
  <2>2. Flat(q)[n] = Flat(r)[n]
    <3>0. n \in Nat /\ \A i \in 1 .. n : q[i] = r[i]
      BY <1>1
    <3>1. \A i \in 1 .. n : Flat(q)[i] = Flat(r)[i]
      BY ONLY <3>0, <1>2, <2>1, FlattensUnique
    <3> QED
      BY <1>1, <1>6, <3>1
  <2>3. FlattenSeq(r) = Flat(r)[n] \o x
    <3>1. n + 1 \in 1 .. n + 1 /\ n + 1 # 1 /\ n + 1 # 0 /\ (n + 1) - 1 = n
      BY <1>1, <1>6
    <3>2. Flat(r)[n + 1] = Flat(r)[(n + 1) - 1] \o r[n + 1]
      BY <1>3, <3>1 DEF Flattens
    <3> QED
      BY <1>1, <1>3, <3>1, <3>2
  <2> QED
    BY <1>2, <1>4, <1>6, <2>2, <2>3 DEF r
<1> QED
  BY <1>5, <1>6
============================================================================
