---------------------------- MODULE SequenceLemmas ----------------------------
(***************************************************************************)
(* What a sequence used as a queue holds after an insertion or a removal,  *)
(* and induction over the natural numbers in the form the proofs use: on   *)
(* the set of the numbers that have a property, from the least number that *)
(* has not.                                                                *)
(***************************************************************************)
EXTENDS Integers, Sequences, WellFoundedInduction, TLAPS

Elements(q) == {q[i] : i \in DOMAIN q}

Distinct(q) == \A i, j \in DOMAIN q : q[i] = q[j] => i = j

LEMMA AppendFacts ==
  ASSUME NEW S, NEW q \in Seq(S), NEW e \in S
  PROVE  /\ Append(q, e) \in Seq(S)
         /\ Append(q, e) # <<>>
         /\ Len(Append(q, e)) = Len(q) + 1
         /\ {Append(q, e)[i] : i \in DOMAIN Append(q, e)}
              = {q[i] : i \in DOMAIN q} \cup {e}
         /\ \A i \in DOMAIN Append(q, e) :
              \/ i \in DOMAIN q /\ Append(q, e)[i] = q[i]
              \/ i = Len(q) + 1 /\ Append(q, e)[i] = e
<1> DEFINE r == Append(q, e)
<1>1. r \in Seq(S) /\ Len(r) = Len(q) + 1 /\ DOMAIN r = 1..(Len(q) + 1)
  OBVIOUS
<1>2. \A i \in 1..Len(q) : r[i] = q[i]
  OBVIOUS
<1>3. r[Len(q) + 1] = e
  OBVIOUS
<1>4. DOMAIN q = 1..Len(q) /\ Len(q) \in Nat
  OBVIOUS
<1>5. {r[i] : i \in DOMAIN r} = {q[i] : i \in DOMAIN q} \cup {e}
  BY <1>1, <1>2, <1>3, <1>4
<1> QED
  BY <1>1, <1>2, <1>3, <1>4, <1>5

LEMMA TailFacts ==
  ASSUME NEW S, NEW q \in Seq(S), q # <<>>
  PROVE  /\ Head(q) \in S /\ Head(q) = q[1] /\ 1 \in DOMAIN q
         /\ Tail(q) \in Seq(S)
         /\ Len(Tail(q)) = Len(q) - 1
         /\ \A i \in DOMAIN Tail(q) : /\ i \in Nat /\ i > 0
                                     /\ i + 1 \in DOMAIN q
                                     /\ Tail(q)[i] = q[i + 1]
  OBVIOUS

(* A new element keeps a sequence free of duplicates. *)
LEMMA AppendDistinct ==
  ASSUME NEW S, NEW q \in Seq(S), NEW e \in S, Distinct(q), e \notin Elements(q)
  PROVE  Distinct(Append(q, e))
<1>1. DOMAIN q = 1..Len(q) /\ Len(q) \in Nat
  OBVIOUS
<1> SUFFICES ASSUME NEW i \in DOMAIN Append(q, e), NEW j \in DOMAIN Append(q, e),
                    Append(q, e)[i] = Append(q, e)[j]
             PROVE  i = j
  BY DEF Distinct
<1>2. \/ i \in DOMAIN q /\ Append(q, e)[i] = q[i]
      \/ i = Len(q) + 1 /\ Append(q, e)[i] = e
  BY AppendFacts
<1>3. \/ j \in DOMAIN q /\ Append(q, e)[j] = q[j]
      \/ j = Len(q) + 1 /\ Append(q, e)[j] = e
  BY AppendFacts
<1> QED
  BY <1>1, <1>2, <1>3 DEF Distinct, Elements

(* The removal of the head removes that element, and nothing else. *)
LEMMA TailDistinct ==
  ASSUME NEW S, NEW q \in Seq(S), q # <<>>, Distinct(q)
  PROVE  /\ Distinct(Tail(q))
         /\ Head(q) \in Elements(q)
         /\ Elements(Tail(q)) = Elements(q) \ {Head(q)}
<1>1. /\ DOMAIN q = 1..Len(q) /\ Len(q) \in Nat /\ Len(q) > 0
      /\ DOMAIN Tail(q) = 1..(Len(q) - 1)
      /\ Head(q) = q[1]
      /\ \A i \in 1..(Len(q) - 1) : Tail(q)[i] = q[i + 1]
  OBVIOUS
<1>2. Distinct(Tail(q))
  BY <1>1 DEF Distinct
<1>3. Head(q) \in Elements(q)
  BY <1>1 DEF Elements
<1>4. Elements(Tail(q)) \subseteq Elements(q) \ {Head(q)}
  BY <1>1 DEF Elements, Distinct
<1>5. ASSUME NEW x \in Elements(q) \ {Head(q)} PROVE x \in Elements(Tail(q))
  <2>1. PICK i \in DOMAIN q : x = q[i] /\ i # 1
    BY <1>1 DEF Elements
  <2>2. i - 1 \in DOMAIN Tail(q) /\ Tail(q)[i - 1] = q[i]
    BY <1>1, <2>1
  <2> QED
    BY <2>1, <2>2 DEF Elements
<1> QED
  BY <1>2, <1>3, <1>4, <1>5

LEMMA ConcatFacts ==
  ASSUME NEW S, NEW p \in Seq(S), NEW q \in Seq(S)
  PROVE  /\ p \o q \in Seq(S)
         /\ Len(p \o q) = Len(p) + Len(q)
         /\ \A i \in 1..Len(p) : (p \o q)[i] = p[i]
         /\ \A i \in 1..Len(q) : (p \o q)[Len(p) + i] = q[i]
         /\ p = <<>> => p \o q = q
  OBVIOUS

(* What has passed through the queue, followed by what is in it, does not  *)
(* change when the head is taken, and grows at the end when something is   *)
(* added.                                                                  *)
LEMMA TakeKeepsOrder ==
  ASSUME NEW S, NEW p \in Seq(S), NEW q \in Seq(S), q # <<>>
  PROVE  Append(p, Head(q)) \o Tail(q) = p \o q
<1> DEFINE l == Append(p, Head(q)) \o Tail(q)
           r == p \o q
<1>1. l \in Seq(S) /\ r \in Seq(S) /\ Len(l) = Len(p) + Len(q) /\ Len(r) = Len(p) + Len(q)
  OBVIOUS
<1>2. ASSUME NEW i \in 1..(Len(p) + Len(q)) PROVE l[i] = r[i]
  <2>1. CASE i <= Len(p)
    BY <2>1
  <2>2. CASE i = Len(p) + 1
    BY <2>2
  <2>3. CASE i > Len(p) + 1
    <3>1. l[i] = Tail(q)[i - (Len(p) + 1)]
      BY <2>3
    <3>2. r[i] = q[i - Len(p)]
      BY <2>3
    <3> QED
      BY <3>1, <3>2, <2>3
  <2> QED
    BY <2>1, <2>2, <2>3
<1> HIDE DEF l, r
<1>3. l = r
  BY <1>1, <1>2
<1> QED
  BY <1>3 DEF l, r

LEMMA AddKeepsOrder ==
  ASSUME NEW S, NEW p \in Seq(S), NEW q \in Seq(S), NEW e \in S
  PROVE  p \o Append(q, e) = Append(p \o q, e)
<1> DEFINE l == p \o Append(q, e)
           r == Append(p \o q, e)
<1>1. /\ l \in Seq(S) /\ r \in Seq(S)
      /\ Len(l) = Len(p) + Len(q) + 1 /\ Len(r) = Len(p) + Len(q) + 1
  OBVIOUS
<1>2. ASSUME NEW i \in 1..(Len(p) + Len(q) + 1) PROVE l[i] = r[i]
  <2>1. CASE i <= Len(p)
    BY <2>1
  <2>2. CASE i > Len(p)
    BY <2>2
  <2> QED
    BY <2>1, <2>2
<1> HIDE DEF l, r
<1>3. l = r
  BY <1>1, <1>2
<1> QED
  BY <1>3 DEF l, r

-----------------------------------------------------------------------------
(* Induction and recursion *)

LEMMA LeastNumber ==
  ASSUME NEW S, S \subseteq Nat, S # {}
  PROVE  \E x \in S : \A y \in S : x <= y
<1>1. PICK x \in S : \A y \in S : <<y, x>> \notin OpToRel(<, Nat)
  BY WFMin, NatLessThanWellFounded
<1>2. \A y \in S : ~(y < x)
  BY <1>1 DEF OpToRel
<1> QED
  BY <1>2

(* What 0 is in, and n + 1 whenever n is, holds all numbers up to m.       *)
LEMMA InductionUpTo ==
  ASSUME NEW m \in Nat, NEW S, 0 \in S, \A n \in 0..(m - 1) : n \in S => n + 1 \in S
  PROVE  0..m \subseteq S
<1> DEFINE T == (0..m) \ S
<1>1. SUFFICES ASSUME T # {} PROVE FALSE
  OBVIOUS
<1>2. T \subseteq Nat
  OBVIOUS
<1>3. PICK x \in T : \A y \in T : x <= y
  <2> HIDE DEF T
  <2> QED
    BY <1>1, <1>2, LeastNumber
<1>4. x - 1 \in S /\ x - 1 \in 0..(m - 1)
  BY <1>3
<1> QED
  BY <1>3, <1>4

(* A function over 0..m can be defined from its value at 0 and a step.     *)
Iterates(f, m, S, base, step) ==
  /\ f \in [0..m -> S]
  /\ f[0] = base
  /\ \A k \in 0..(m - 1) : f[k + 1] = step[<<k + 1, f[k]>>]

LEMMA RecursiveFunction ==
  ASSUME NEW m \in Nat, NEW S, NEW base \in S, NEW step \in [(1..m) \X S -> S]
  PROVE  \E f : Iterates(f, m, S, base, step)
<1> DEFINE Good(n) == \E f : Iterates(f, n, S, base, step)
           G == {n \in 0..m : Good(n)}
<1>1. Good(0)
  <2> DEFINE f == [k \in 0..0 |-> base]
  <2>1. f \in [0..0 -> S] /\ f[0] = base
    OBVIOUS
  <2>2. \A k \in 0..(0 - 1) : f[k + 1] = step[<<k + 1, f[k]>>]
    OBVIOUS
  <2> HIDE DEF f
  <2> QED
    BY <2>1, <2>2 DEF Iterates
<1>2. ASSUME NEW n \in 0..(m - 1), Good(n) PROVE Good(n + 1)
  <2>1. PICK f : Iterates(f, n, S, base, step)
    BY <1>2
  <2> DEFINE g == [k \in 0..(n + 1) |-> IF k = n + 1 THEN step[<<n + 1, f[n]>>] ELSE f[k]]
  <2>2. g \in [0..(n + 1) -> S] /\ g[0] = base
    BY <2>1 DEF Iterates
  <2>3. ASSUME NEW k \in 0..n PROVE g[k + 1] = step[<<k + 1, g[k]>>]
    <3>1. g[k] = f[k]
      OBVIOUS
    <3>2. CASE k = n
      <4>1. g[n + 1] = step[<<n + 1, f[n]>>]
        OBVIOUS
      <4> HIDE DEF g
      <4> QED
        BY <3>1, <3>2, <4>1
    <3>3. CASE k # n
      <4>1. k \in 0..(n - 1) /\ g[k + 1] = f[k + 1]
        BY <3>3
      <4> HIDE DEF g
      <4> QED
        BY <2>1, <3>1, <4>1 DEF Iterates
    <3> QED
      BY <3>2, <3>3
  <2> HIDE DEF g
  <2>4. \A k \in 0..(n + 1 - 1) : g[k + 1] = step[<<k + 1, g[k]>>]
    BY <2>3
  <2> QED
    BY <2>2, <2>4 DEF Iterates
<1> HIDE DEF Good
<1>3. 0 \in G /\ \A n \in 0..(m - 1) : n \in G => n + 1 \in G
  BY <1>1, <1>2
<1>4. 0..m \subseteq G
  <2> HIDE DEF G
  <2> QED
    BY <1>3, InductionUpTo
<1>5. Good(m)
  BY <1>4
<1> QED
  BY <1>5 DEF Good
=============================================================================
