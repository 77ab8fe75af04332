------------------------------ MODULE IndexProofs -----------------------------
(***************************************************************************)
(* Proofs about the index of the workers and their answers: for any number *)
(* of workers, directories, files and texts, in whatever order files are   *)
(* read and workers answer or die.                                         *)
(***************************************************************************)
EXTENDS Index, SequenceLemmas, FiniteSetTheorems, TLAPS

-----------------------------------------------------------------------------
(* Sequences put one after the other *)

LEMMA InPositions ==
  ASSUME NEW seqs, NEW p
  PROVE  p \in Positions(seqs)
           <=> \E n \in DOMAIN seqs : \E i \in DOMAIN seqs[n] : p = <<n, i>>
  BY DEF Positions

(* What FlattenSeq computes, with the place where each sequence ends.      *)
LEMMA FlattenOffsets ==
  ASSUME NEW S, NEW seqs \in Seq(Seq(S))
  PROVE  /\ FlattenSeq(seqs) \in Seq(S)
         /\ \E end \in [0..Len(seqs) -> Nat] :
              /\ end[0] = 0
              /\ \A n \in 1..Len(seqs) : end[n] = end[n - 1] + Len(seqs[n])
              /\ Len(FlattenSeq(seqs)) = end[Len(seqs)]
              /\ \A n \in 1..Len(seqs) : \A i \in 1..Len(seqs[n]) :
                   FlattenSeq(seqs)[end[n - 1] + i] = seqs[n][i]
<1> DEFINE m == Len(seqs)
           step == [x \in (1..m) \X Seq(S) |-> x[2] \o seqs[x[1]]]
           add == [x \in (1..m) \X Nat |-> x[2] + Len(seqs[x[1]])]
<1>1. m \in Nat /\ \A n \in 1..m : seqs[n] \in Seq(S) /\ Len(seqs[n]) \in Nat
  OBVIOUS
<1>2. PICK f : Iterates(f, m, Seq(S), <<>>, step)
  <2>1. step \in [(1..m) \X Seq(S) -> Seq(S)] /\ <<>> \in Seq(S)
    BY <1>1
  <2> HIDE DEF step, m
  <2> QED
    BY <1>1, <2>1, RecursiveFunction
<1>3. PICK end : Iterates(end, m, Nat, 0, add)
  <2>1. add \in [(1..m) \X Nat -> Nat] /\ 0 \in Nat
    BY <1>1
  <2> HIDE DEF add, m
  <2> QED
    BY <1>1, <2>1, RecursiveFunction
<1> HIDE DEF m
<1> HIDE DEF step, add
<1>4. f \in [0..m -> Seq(S)] /\ f[0] = <<>> /\ end \in [0..m -> Nat] /\ end[0] = 0
  BY <1>2, <1>3 DEF Iterates
<1>5. ASSUME NEW k \in 0..(m - 1)
      PROVE  /\ k \in 0..m /\ k + 1 \in 1..m
             /\ f[k + 1] = f[k] \o seqs[k + 1]
             /\ end[k + 1] = end[k] + Len(seqs[k + 1])
  <2>1. k \in 0..m /\ k + 1 \in 1..m
    BY <1>1
  <2>2. f[k + 1] = step[<<k + 1, f[k]>>] /\ end[k + 1] = add[<<k + 1, end[k]>>]
    BY <1>2, <1>3 DEF Iterates
  <2>3. f[k] \in Seq(S) /\ end[k] \in Nat
    BY <1>4, <2>1
  <2>4. /\ step[<<k + 1, f[k]>>] = f[k] \o seqs[k + 1]
        /\ add[<<k + 1, end[k]>>] = end[k] + Len(seqs[k + 1])
    BY <2>1, <2>3 DEF step, add
  <2> QED
    BY <2>1, <2>2, <2>4
<1> DEFINE Placed(k) ==
      /\ Len(f[k]) = end[k]
      /\ \A n \in 1..k : \A i \in 1..Len(seqs[n]) :
           end[n - 1] + i <= end[k] /\ f[k][end[n - 1] + i] = seqs[n][i]
<1>6. Placed(0)
  BY <1>4
<1>7. ASSUME NEW k \in 0..(m - 1), Placed(k) PROVE Placed(k + 1)
  <2>1. k + 1 \in 1..m /\ k \in 0..m /\ k + 1 \in 0..m
    BY <1>1
  <2> DEFINE p == f[k]
             q == seqs[k + 1]
             r == f[k + 1]
             e == end[k]
  <2>2. p \in Seq(S) /\ q \in Seq(S) /\ e \in Nat /\ Len(p) = e
    BY <1>1, <1>4, <1>7, <2>1
  <2>3. r = p \o q /\ end[k + 1] = e + Len(q)
    BY <1>5, <2>1
  <2>4. \A n \in 1..k : \A i \in 1..Len(seqs[n]) :
           end[n - 1] + i <= e /\ p[end[n - 1] + i] = seqs[n][i]
    BY <1>7
  <2>5. \A n \in 1..(k + 1) : n - 1 \in 0..m /\ n \in 1..m /\ end[n - 1] \in Nat
    <3>1. \A n \in 1..(k + 1) : n - 1 \in 0..m /\ n \in 1..m
      BY <1>1
    <3> QED
      BY <1>4, <3>1
  <2>6. Len(q) \in Nat
    BY <2>2
  <2> HIDE DEF p, q, r, e
  <2>7. /\ Len(p \o q) = Len(p) + Len(q)
        /\ \A i \in 1..Len(p) : (p \o q)[i] = p[i]
        /\ \A i \in 1..Len(q) : (p \o q)[Len(p) + i] = q[i]
    <3>1. p \in Seq(S) /\ q \in Seq(S)
      BY <2>2
    <3> QED
      BY <3>1, ConcatFacts
  <2>8. /\ Len(r) = e + Len(q)
        /\ \A i \in 1..e : r[i] = p[i]
        /\ \A i \in 1..Len(q) : r[e + i] = q[i]
    BY <2>2, <2>3, <2>7, Zenon
  <2>9. ASSUME NEW n \in 1..(k + 1), NEW i \in 1..Len(seqs[n])
        PROVE  end[n - 1] + i <= e + Len(q) /\ r[end[n - 1] + i] = seqs[n][i]
    <3>1. i \in Nat /\ i > 0
      OBVIOUS
    <3>2. CASE n = k + 1
      <4>1. n - 1 = k
        BY <3>2
      <4>2. end[n - 1] = e /\ seqs[n] = q
        BY <3>2, <4>1 DEF e, q
      <4>3. i \in 1..Len(q)
        BY <4>2
      <4>4. r[e + i] = q[i] /\ e + i <= e + Len(q)
        BY <2>2, <2>6, <2>8, <4>3
      <4> QED
        BY <4>2, <4>4
    <3>3. CASE n # k + 1
      <4>1. n \in 1..k
        BY <3>3
      <4>2. end[n - 1] + i <= e /\ p[end[n - 1] + i] = seqs[n][i]
        BY <2>4, <4>1
      <4>3. end[n - 1] + i \in 1..e
        BY <2>2, <2>5, <3>1, <4>2
      <4> QED
        BY <2>2, <2>6, <2>8, <4>2, <4>3
    <3> QED
      BY <3>2, <3>3
  <2> QED
    BY <2>3, <2>8, <2>9 DEF r
<1>8. Placed(m)
  <2> DEFINE T == {k \in 0..m : Placed(k)}
  <2> HIDE DEF Placed
  <2>1. 0 \in T /\ \A k \in 0..(m - 1) : k \in T => k + 1 \in T
    BY <1>1, <1>6, <1>7
  <2>2. 0..m \subseteq T
    <3> HIDE DEF T
    <3> QED
      BY <1>1, <2>1, InductionUpTo
  <2> QED
    BY <1>1, <2>2
<1>9. FlattenSeq(seqs) = f[m]
  <2>1. CASE m = 0
    BY <1>4, <2>1 DEF FlattenSeq, m
  <2>2. CASE m # 0
    <3> DEFINE F(g) == [i \in 1..m |-> IF i = 1 THEN seqs[i] ELSE g[i - 1] \o seqs[i]]
               flatten == CHOOSE g : g = F(g)
               h == [i \in 1..m |-> f[i]]
    <3>1. f[1] = seqs[1]
      <4>1. f[1] = f[0] \o seqs[1]
        <5>1. 0 \in 0..(m - 1) /\ 0 + 1 = 1
          BY <1>1, <2>2
        <5>2. f[0 + 1] = f[0] \o seqs[0 + 1]
          BY <1>5, <5>1
        <5> QED
          BY <5>1, <5>2, Zenon
      <4>2. <<>> \o seqs[1] = seqs[1]
        BY <1>1, <2>2
      <4> QED
        BY <1>4, <4>1, <4>2
    <3>2. h = F(h)
      <4>1. ASSUME NEW i \in 1..m PROVE h[i] = IF i = 1 THEN seqs[i] ELSE h[i - 1] \o seqs[i]
        <5>1. CASE i = 1
          BY <3>1, <5>1
        <5>2. CASE i # 1
          <6>1. i - 1 \in 0..(m - 1) /\ i - 1 \in 1..m /\ (i - 1) + 1 = i
            BY <1>1, <5>2
          <6>2. f[(i - 1) + 1] = f[i - 1] \o seqs[(i - 1) + 1]
            BY <1>5, <6>1
          <6>3. h[i] = f[i] /\ h[i - 1] = f[i - 1]
            BY <6>1
          <6> HIDE DEF h
          <6> QED
            BY <5>2, <6>1, <6>2, <6>3, Zenon
        <5> QED
          BY <5>1, <5>2
      <4> QED
        BY <4>1
    <3>3. flatten = F(flatten)
      <4> HIDE DEF h
      <4> QED
        BY <3>2
    <3> HIDE DEF flatten
    <3>4. \A k \in 0..m : k > 0 => flatten[k] = f[k]
      <4> DEFINE T == {k \in 0..m : k > 0 => flatten[k] = f[k]}
      <4>1. 0 \in T
        BY <1>1
      <4>2. ASSUME NEW k \in 0..(m - 1), k \in T PROVE k + 1 \in T
        <5>1. k + 1 \in 1..m /\ k + 1 - 1 = k /\ k + 1 \in 0..m
          BY <1>1
        <5>2. CASE k = 0
          <6>1. flatten[1] = seqs[1]
            BY <3>3, <5>1, <5>2
          <6> QED
            BY <3>1, <5>1, <5>2, <6>1
        <5>3. CASE k # 0
          <6>1. flatten[k + 1] = flatten[(k + 1) - 1] \o seqs[k + 1]
            <7>1. k + 1 # 1
              BY <5>3
            <7>2. flatten[k + 1] = F(flatten)[k + 1]
              BY <3>3, Zenon
            <7> QED
              BY <5>1, <7>1, <7>2, Zenon
          <6>2. f[k + 1] = f[k] \o seqs[k + 1]
            BY <1>5, <5>1
          <6>3. flatten[k] = f[k]
            BY <4>2, <5>3
          <6>4. flatten[k + 1] = f[k + 1]
            <7>1. (k + 1) - 1 = k
              BY <5>1
            <7>2. flatten[k + 1] = flatten[k] \o seqs[k + 1]
              BY <6>1, <7>1, Zenon
            <7> QED
              BY <6>2, <6>3, <7>2, Zenon
          <6> QED
            BY <5>1, <6>4
        <5> QED
          BY <5>2, <5>3
      <4>3. 0..m \subseteq T
        <5> HIDE DEF T
        <5> QED
          BY <1>1, <4>1, <4>2, InductionUpTo
      <4> QED
        BY <4>3
    <3>5. FlattenSeq(seqs) = flatten[m]
      BY <2>2 DEF FlattenSeq, flatten, m
    <3> QED
      BY <1>1, <2>2, <3>5, <3>4
  <2> QED
    BY <2>1, <2>2
<1>10. f[m] \in Seq(S)
  BY <1>1, <1>4
<1>11. \A n \in 1..m : end[n] = end[n - 1] + Len(seqs[n])
  <2>1. ASSUME NEW n \in 1..m PROVE end[n] = end[n - 1] + Len(seqs[n])
    <3>1. n - 1 \in 0..(m - 1) /\ (n - 1) + 1 = n
      BY <1>1
    <3>2. end[(n - 1) + 1] = end[n - 1] + Len(seqs[(n - 1) + 1])
      BY <1>5, <3>1
    <3> QED
      BY <3>1, <3>2, Zenon
  <2> QED
    BY <2>1
<1>12. \A n \in 1..m : \A i \in 1..Len(seqs[n]) : f[m][end[n - 1] + i] = seqs[n][i]
  BY <1>8
<1> QED
  BY <1>4, <1>8, <1>9, <1>10, <1>11, <1>12, Zenon DEF m

(* Every element has one place in the result, and they stand in the order  *)
(* of the sequences and in each sequence in its order.                     *)
Precedes(p, q) == p[1] < q[1] \/ (p[1] = q[1] /\ p[2] < q[2])

LEMMA FlattenPlaces ==
  ASSUME NEW S, NEW seqs \in Seq(Seq(S))
  PROVE  /\ FlattenSeq(seqs) \in Seq(S)
         /\ \E at \in Bijection(Positions(seqs), DOMAIN FlattenSeq(seqs)) :
              /\ \A p \in Positions(seqs) : FlattenSeq(seqs)[at[p]] = seqs[p[1]][p[2]]
              /\ \A p, q \in Positions(seqs) : at[p] < at[q] => Precedes(p, q)
<1> DEFINE m == Len(seqs)
           flat == FlattenSeq(seqs)
<1>1. m \in Nat /\ DOMAIN seqs = 1..m
  OBVIOUS
<1>2. \A n \in 1..m : DOMAIN seqs[n] = 1..Len(seqs[n]) /\ Len(seqs[n]) \in Nat
  OBVIOUS
<1> HIDE DEF m, flat
<1>3. PICK end \in [0..m -> Nat] :
        /\ end[0] = 0
        /\ \A n \in 1..m : end[n] = end[n - 1] + Len(seqs[n])
        /\ Len(flat) = end[m]
        /\ \A n \in 1..m : \A i \in 1..Len(seqs[n]) : flat[end[n - 1] + i] = seqs[n][i]
  BY FlattenOffsets, ZenonT(30) DEF m, flat
<1>4. flat \in Seq(S)
  BY FlattenOffsets DEF flat
<1>5. ASSUME NEW n \in 0..(m - 1)
      PROVE  /\ n \in 0..m /\ n + 1 \in 1..m /\ n + 1 \in 0..m
             /\ end[n] \in Nat /\ end[n + 1] = end[n] + Len(seqs[n + 1])
             /\ Len(seqs[n + 1]) \in Nat
  <2>1. n + 1 \in 1..m /\ n \in 0..m /\ n + 1 \in 0..m /\ (n + 1) - 1 = n
    BY <1>1
  <2> QED
    BY <1>2, <1>3, <2>1
<1>6. \A n \in 0..m : \A k \in 0..n : end[k] <= end[n]
  <2> DEFINE T == {n \in 0..m : \A k \in 0..n : end[k] <= end[n]}
  <2>1. 0 \in T
    BY <1>1, <1>3
  <2>2. ASSUME NEW n \in 0..(m - 1), n \in T PROVE n + 1 \in T
    <3>1. ASSUME NEW k \in 0..(n + 1) PROVE end[k] <= end[n + 1]
      <4>1. CASE k = n + 1
        BY <1>3, <1>5, <4>1
      <4>2. CASE k # n + 1
        <5>1. k \in 0..n /\ k \in 0..m
          BY <1>1, <4>2
        <5>2. end[k] <= end[n] /\ end[k] \in Nat
          BY <1>3, <2>2, <5>1
        <5>3. /\ end[n] \in Nat /\ Len(seqs[n + 1]) \in Nat
              /\ end[n + 1] = end[n] + Len(seqs[n + 1])
          BY <1>5
        <5> QED
          BY <5>2, <5>3
      <4> QED
        BY <4>1, <4>2
    <3> QED
      BY <1>5, <3>1
  <2>3. 0..m \subseteq T
    <3> HIDE DEF T
    <3> QED
      BY <1>1, <2>1, <2>2, InductionUpTo
  <2> QED
    BY <2>3
<1> DEFINE Covered(n) == \A p \in 1..end[n] :
             \E k \in 1..n : \E i \in 1..Len(seqs[k]) : p = end[k - 1] + i
<1>7. Covered(m)
  <2> DEFINE T == {n \in 0..m : Covered(n)}
  <2>1. 0 \in T
    BY <1>1, <1>3
  <2>2. ASSUME NEW n \in 0..(m - 1), n \in T PROVE n + 1 \in T
    <3>1. ASSUME NEW p \in 1..end[n + 1]
          PROVE  \E k \in 1..(n + 1) : \E i \in 1..Len(seqs[k]) : p = end[k - 1] + i
      <4>1. CASE p <= end[n]
        <5>1. p \in 1..end[n]
          BY <1>5, <4>1
        <5>2. PICK k \in 1..n : \E i \in 1..Len(seqs[k]) : p = end[k - 1] + i
          BY <2>2, <5>1
        <5>3. k \in 1..(n + 1)
          OBVIOUS
        <5> QED
          BY <5>2, <5>3
      <4>2. CASE p > end[n]
        <5> DEFINE e == end[n]
                   l == Len(seqs[n + 1])
        <5>1. e \in Nat /\ l \in Nat /\ end[n + 1] = e + l
          BY <1>5
        <5>2. p \in 1..(e + l)
          BY <5>1
        <5>3. p - end[n] \in 1..Len(seqs[n + 1]) /\ p = end[n] + (p - end[n])
          BY <4>2, <5>1, <5>2
        <5>4. (n + 1) - 1 = n /\ n + 1 \in 1..(n + 1)
          OBVIOUS
        <5> QED
          BY <5>3, <5>4
      <4> QED
        BY <1>5, <4>1, <4>2
    <3> QED
      BY <1>5, <3>1
  <2>3. 0..m \subseteq T
    <3> HIDE DEF T
    <3> QED
      BY <1>1, <2>1, <2>2, InductionUpTo
  <2> QED
    BY <1>1, <2>3
<1> DEFINE at == [p \in Positions(seqs) |-> end[p[1] - 1] + p[2]]
<1>8. ASSUME NEW p \in Positions(seqs)
      PROVE  /\ p[1] \in 1..m /\ p[1] \in Nat /\ p[2] \in Nat /\ p[2] > 0
             /\ p[2] <= Len(seqs[p[1]]) /\ Len(seqs[p[1]]) \in Nat
             /\ at[p] = end[p[1] - 1] + p[2]
             /\ p[1] - 1 \in 0..m /\ end[p[1] - 1] \in Nat /\ end[p[1]] \in Nat
             /\ end[p[1]] = end[p[1] - 1] + Len(seqs[p[1]]) /\ end[p[1]] <= end[m]
  <2>1. PICK n \in 1..m : \E i \in 1..Len(seqs[n]) : p = <<n, i>>
    BY <1>1, <1>2, InPositions
  <2>2. PICK i \in 1..Len(seqs[n]) : p = <<n, i>>
    BY <2>1
  <2>3. n - 1 \in 0..m /\ n \in 0..m /\ m \in 0..m /\ n \in 0..m
    BY <1>1
  <2>4. end[n - 1] \in Nat /\ end[n] \in Nat /\ end[n] <= end[m] /\ end[n] = end[n - 1] + Len(seqs[n])
    BY <1>3, <1>6, <2>3
  <2>5. p[1] = n /\ p[2] = i /\ at[p] = end[p[1] - 1] + p[2]
    BY <2>2
  <2>6. n \in Nat /\ i \in Nat /\ i > 0 /\ i <= Len(seqs[n]) /\ Len(seqs[n]) \in Nat
    BY <1>2, <2>2
  <2> HIDE DEF at
  <2> QED
    BY <2>3, <2>4, <2>5, <2>6
<1>9. \A p \in Positions(seqs) : p = <<p[1], p[2]>>
  BY InPositions
<1>10. \A p \in Positions(seqs) : p[1] \in 1..m /\ p[1] \in Nat /\ p[2] \in Nat /\ at[p] \in 1..end[m]
  <2>1. SUFFICES ASSUME NEW p \in Positions(seqs) PROVE at[p] \in 1..end[m]
    BY <1>8
  <2> DEFINE a == p[1] b == p[2] e == end[a - 1] l == Len(seqs[a]) z == end[m]
  <2>2. b \in Nat /\ b > 0 /\ b <= l /\ e \in Nat /\ l \in Nat /\ e + l <= z /\ at[p] = e + b
    BY <1>8
  <2>3. z \in Nat
    BY <1>1, <1>3
  <2> HIDE DEF a, b, e, l, z
  <2>4. e + b \in 1..z
    BY <2>2, <2>3
  <2> QED
    BY <2>2, <2>4 DEF z
<1> HIDE DEF at
<1>11. ASSUME NEW p \in Positions(seqs), NEW q \in Positions(seqs), p[1] < q[1]
      PROVE  at[p] < at[q]
  <2>1. p[1] \in 1..m /\ q[1] \in 1..m
    BY <1>10
  <2>2. p[1] \in 0..(q[1] - 1) /\ q[1] - 1 \in 0..m
    <3> DEFINE a == p[1] b == q[1]
    <3>1. a \in 1..m /\ b \in 1..m /\ a < b
      BY <1>11, <2>1
    <3> HIDE DEF a, b
    <3>2. a \in 0..(b - 1) /\ b - 1 \in 0..m
      BY <1>1, <3>1
    <3> QED
      BY <3>2 DEF a, b
  <2> DEFINE e == end[p[1]] d == end[q[1] - 1] x == p[2] y == q[2] l == Len(seqs[p[1]])
  <2>3. e <= d
    BY <1>6, <2>2
  <2>4. at[p] = end[p[1] - 1] + x /\ x <= l /\ e = end[p[1] - 1] + l
        /\ end[p[1] - 1] \in Nat /\ x \in Nat /\ l \in Nat
    BY <1>8
  <2>5. at[q] = d + y /\ d \in Nat /\ y \in Nat /\ y > 0
    BY <1>8
  <2>6. at[p] <= e /\ at[p] \in Nat /\ e \in Nat
    <3> HIDE DEF e, x, l
    <3> QED
      BY <2>4
  <2> HIDE DEF e, d, x, y
  <2> QED
    BY <2>3, <2>5, <2>6
<1>12. ASSUME NEW p \in Positions(seqs), NEW q \in Positions(seqs), p[1] = q[1]
       PROVE  at[p] - at[q] = p[2] - q[2] /\ at[p] \in Nat /\ at[q] \in Nat
  <2> DEFINE e == end[p[1] - 1] x == p[2] y == q[2]
  <2>1. at[p] = e + x /\ x \in Nat /\ e \in Nat
    BY <1>8
  <2>2. end[q[1] - 1] = e
    BY <1>12, Zenon
  <2>3. at[q] = e + y /\ y \in Nat
    BY <1>8, <2>2
  <2> HIDE DEF e, x, y
  <2>4. at[p] - at[q] = x - y /\ at[p] \in Nat /\ at[q] \in Nat
    BY <2>1, <2>3
  <2> QED
    BY <2>4 DEF x, y
<1>13. \A p, q \in Positions(seqs) : at[p] < at[q] => Precedes(p, q)
  <2>1. SUFFICES ASSUME NEW p \in Positions(seqs), NEW q \in Positions(seqs), at[p] < at[q]
                 PROVE  Precedes(p, q)
    OBVIOUS
  <2>2. ~(q[1] < p[1])
    <3>1. at[p] \in Nat /\ at[q] \in Nat
      BY <1>10
    <3> QED
      BY <1>11, <2>1, <3>1
  <2>3. p[1] \in Nat /\ q[1] \in Nat /\ p[2] \in Nat /\ q[2] \in Nat
    BY <1>10
  <2>4. CASE p[1] = q[1]
    BY <1>12, <2>1, <2>3, <2>4 DEF Precedes
  <2> QED
    BY <2>2, <2>3, <2>4 DEF Precedes
<1>14. DOMAIN flat = 1..end[m] /\ end[m] \in Nat
  BY <1>1, <1>3, <1>4
<1>15. at \in [Positions(seqs) -> DOMAIN flat]
  <2>1. ASSUME NEW p \in Positions(seqs) PROVE at[p] \in 1..end[m]
    BY <1>10
  <2> QED
    BY <1>14, <2>1 DEF at
<1>16. \A p, q \in Positions(seqs) : at[p] = at[q] => p = q
  <2>1. SUFFICES ASSUME NEW p \in Positions(seqs), NEW q \in Positions(seqs), at[p] = at[q]
                 PROVE  p = q
    OBVIOUS
  <2>2. p[1] \in Nat /\ q[1] \in Nat /\ p[2] \in Nat /\ q[2] \in Nat /\ at[p] \in Nat
    BY <1>10
  <2>3. p[1] = q[1]
    BY <1>11, <2>1, <2>2
  <2>4. p[2] = q[2]
    BY <1>12, <2>1, <2>2, <2>3
  <2>5. p = <<p[1], p[2]>> /\ q = <<q[1], q[2]>>
    BY <1>9
  <2> QED
    BY <2>3, <2>4, <2>5, Zenon
<1>17. \A x \in DOMAIN flat : \E p \in Positions(seqs) : at[p] = x
  <2>1. SUFFICES ASSUME NEW x \in 1..end[m] PROVE \E p \in Positions(seqs) : at[p] = x
    BY <1>14
  <2>2. PICK k \in 1..m : \E i \in 1..Len(seqs[k]) : x = end[k - 1] + i
    BY <1>7
  <2>3. PICK i \in 1..Len(seqs[k]) : x = end[k - 1] + i
    BY <2>2
  <2>4. <<k, i>> \in Positions(seqs)
    BY <1>1, <1>2, InPositions
  <2>5. at[<<k, i>>] = end[k - 1] + i
    BY <2>4 DEF at
  <2> QED
    BY <2>3, <2>4, <2>5
<1>18. at \in Bijection(Positions(seqs), DOMAIN flat)
  BY <1>15, <1>16, <1>17 DEF Bijection, Injection, Surjection, IsInjective
<1>19. \A p \in Positions(seqs) : flat[at[p]] = seqs[p[1]][p[2]]
  <2>1. SUFFICES ASSUME NEW p \in Positions(seqs) PROVE flat[at[p]] = seqs[p[1]][p[2]]
    OBVIOUS
  <2> DEFINE n == p[1] i == p[2]
  <2>2. n \in 1..m /\ i \in Nat /\ i > 0 /\ i <= Len(seqs[n]) /\ Len(seqs[n]) \in Nat
    BY <1>8
  <2>3. i \in 1..Len(seqs[n])
    <3> HIDE DEF n, i
    <3> QED
      BY <2>2
  <2>4. flat[end[n - 1] + i] = seqs[n][i]
    <3> HIDE DEF n, i
    <3> QED
      BY <1>3, <2>2, <2>3
  <2>5. at[p] = end[n - 1] + i
    BY <1>8
  <2> QED
    BY <2>4, <2>5, Zenon
<1> QED
  BY <1>4, <1>13, <1>18, <1>19 DEF flat

-----------------------------------------------------------------------------
(* The sorted lists *)

Sorted(s) == \A i, j \in DOMAIN s : i < j => s[i] < s[j]

(* r is q with e put behind the first k elements.                          *)
IsInsertion(r, q, k, e) ==
  /\ Len(r) = Len(q) + 1 /\ r[k + 1] = e
  /\ \A j \in 1..k : r[j] = q[j]
  /\ \A j \in (k + 1)..Len(q) : r[j + 1] = q[j]

LEMMA InsertAtFacts ==
  ASSUME NEW S, NEW q \in Seq(S), NEW e \in S, NEW k \in 0..Len(q)
  PROVE  InsertAt(q, k + 1, e) \in Seq(S) /\ IsInsertion(InsertAt(q, k + 1, e), q, k, e)
<1> DEFINE a == SubSeq(q, 1, k)
           b == SubSeq(q, k + 1, Len(q))
           c == a \o <<e>>
<1>1. a \in Seq(S) /\ Len(a) = k /\ \A j \in 1..k : a[j] = q[j]
  OBVIOUS
<1>2. /\ b \in Seq(S) /\ Len(b) = Len(q) - k
      /\ \A j \in 1..(Len(q) - k) : b[j] = q[k + j]
  OBVIOUS
<1>3. (k + 1) - 1 = k
  OBVIOUS
<1> HIDE DEF a, b
<1>4. /\ c \in Seq(S) /\ Len(c) = k + 1
      /\ c[k + 1] = e /\ \A j \in 1..k : c[j] = q[j]
  BY <1>1
<1> HIDE DEF c
<1>5. /\ c \o b \in Seq(S) /\ Len(c \o b) = Len(q) + 1
      /\ \A j \in 1..(k + 1) : (c \o b)[j] = c[j]
      /\ \A j \in (k + 2)..(Len(q) + 1) : (c \o b)[j] = b[j - (k + 1)]
  BY <1>2, <1>4
<1>6. InsertAt(q, k + 1, e) = c \o b
  BY <1>3, Zenon DEF InsertAt, a, b, c
<1> DEFINE d == c \o b
<1> HIDE DEF d
<1>7. /\ d \in Seq(S) /\ Len(d) = Len(q) + 1 /\ InsertAt(q, k + 1, e) = d
      /\ \A j \in 1..(k + 1) : d[j] = c[j]
      /\ \A j \in (k + 2)..(Len(q) + 1) : d[j] = b[j - (k + 1)]
  BY <1>5, <1>6 DEF d
<1>8. \A j \in (k + 1)..Len(q) : d[j + 1] = q[j]
  <2>1. SUFFICES ASSUME NEW j \in (k + 1)..Len(q) PROVE d[j + 1] = q[j]
    OBVIOUS
  <2>2. /\ j + 1 \in (k + 2)..(Len(q) + 1) /\ (j + 1) - (k + 1) = j - k
        /\ j - k \in 1..(Len(q) - k) /\ k + (j - k) = j
    OBVIOUS
  <2>3. d[j + 1] = b[j - k]
    BY <1>7, <2>2
  <2>4. b[j - k] = q[k + (j - k)]
    BY <1>2, <2>2
  <2> QED
    BY <2>2, <2>3, <2>4
<1>9. d[k + 1] = e /\ \A j \in 1..k : d[j] = q[j]
  BY <1>1, <1>4, <1>7
<1>10. IsInsertion(d, q, k, e)
  BY <1>7, <1>8, <1>9 DEF IsInsertion
<1> QED
  BY <1>7, <1>10, Zenon

LEMMA InsertionRange ==
  ASSUME NEW S, NEW q \in Seq(S), NEW r \in Seq(S), NEW e \in S, NEW k \in 0..Len(q),
         IsInsertion(r, q, k, e)
  PROVE  /\ Range(r) = Range(q) \cup {e}
         /\ k + 1 \in DOMAIN r
         /\ \A i \in DOMAIN r :
              \/ i = k + 1 /\ r[i] = e
              \/ i \in 1..k /\ i \in DOMAIN q /\ r[i] = q[i]
              \/ i - 1 \in (k + 1)..Len(q) /\ i - 1 \in DOMAIN q /\ r[i] = q[i - 1]
<1>1. /\ Len(r) = Len(q) + 1 /\ r[k + 1] = e
      /\ \A j \in 1..k : r[j] = q[j]
      /\ \A j \in (k + 1)..Len(q) : r[j + 1] = q[j]
  BY DEF IsInsertion
<1>2. Len(q) \in Nat /\ DOMAIN q = 1..Len(q) /\ DOMAIN r = 1..(Len(q) + 1)
  BY <1>1
<1>3. ASSUME NEW i \in DOMAIN r
      PROVE  \/ i = k + 1 /\ r[i] = e
             \/ i \in 1..k /\ i \in DOMAIN q /\ r[i] = q[i]
             \/ i - 1 \in (k + 1)..Len(q) /\ i - 1 \in DOMAIN q /\ r[i] = q[i - 1]
  <2>1. CASE i <= k
    BY <1>1, <1>2, <2>1
  <2>2. CASE i > k + 1
    <3>1. i - 1 \in (k + 1)..Len(q) /\ (i - 1) + 1 = i
      BY <1>2, <2>2
    <3> QED
      BY <1>1, <1>2, <3>1
  <2> QED
    BY <1>1, <1>2, <2>1, <2>2
<1>4. Range(r) \subseteq Range(q) \cup {e}
  BY <1>1, <1>3 DEF Range
<1>5. ASSUME NEW j \in DOMAIN q PROVE q[j] \in Range(r)
  <2>1. CASE j <= k
    BY <1>1, <1>2, <2>1 DEF Range
  <2>2. CASE j > k
    <3>1. j \in (k + 1)..Len(q) /\ j + 1 \in DOMAIN r
      BY <1>2, <2>2
    <3> QED
      BY <1>1, <3>1 DEF Range
  <2> QED
    BY <1>2, <2>1, <2>2
<1>6. e \in Range(r)
  BY <1>1, <1>2 DEF Range
<1>7. Range(r) = Range(q) \cup {e}
  BY <1>4, <1>5, <1>6 DEF Range
<1> QED
  BY <1>2, <1>3, <1>7

(* The walk ends on every list.                                            *)
LEMMA WalkFacts ==
  ASSUME NEW keys \in Seq(Nat), NEW key \in Nat
  PROVE  /\ Walk(keys, key) \in 0..Len(keys)
         /\ \A i \in 1..Walk(keys, key) : keys[i] < key
         /\ Walk(keys, key) < Len(keys) => keys[Walk(keys, key) + 1] >= key
<1> DEFINE T == {k \in 0..Len(keys) : k = Len(keys) \/ keys[k + 1] >= key}
<1>1. Len(keys) \in Nat /\ \A i \in 1..Len(keys) : keys[i] \in Nat
  OBVIOUS
<1>2. T \subseteq Nat /\ Len(keys) \in T
  BY <1>1
<1>3. PICK k \in T : \A l \in T : k <= l
  <2> HIDE DEF T
  <2> QED
    BY <1>2, LeastNumber
<1>4. ASSUME NEW i \in 1..k PROVE keys[i] < key
  <2>1. i - 1 \in 0..Len(keys) /\ i - 1 < k /\ (i - 1) + 1 = i /\ i \in 1..Len(keys)
    BY <1>1
  <2>2. i - 1 \notin T
    <3> HIDE DEF T
    <3> QED
      BY <1>2, <1>3, <2>1
  <2>3. ~(keys[i] >= key)
    BY <2>1, <2>2
  <2> QED
    BY <1>1, <2>1, <2>3
<1>5. k \in 0..Len(keys) /\ (k < Len(keys) => keys[k + 1] >= key)
  BY <1>1
<1>6. \E l \in 0..Len(keys) : /\ \A i \in 1..l : keys[i] < key
                              /\ l < Len(keys) => keys[l + 1] >= key
  BY <1>4, <1>5
<1> QED
  BY <1>6 DEF Walk

LEMMA InsertionSorted ==
  ASSUME NEW keys \in Seq(Nat), Sorted(keys), NEW key \in Nat, NEW k \in 0..Len(keys),
         \A i \in 1..k : keys[i] < key,
         \A i \in (k + 1)..Len(keys) : keys[i] > key,
         NEW r \in Seq(Nat), IsInsertion(r, keys, k, key)
  PROVE  Sorted(r)
<1>1. /\ Range(r) = Range(keys) \cup {key}
      /\ k + 1 \in DOMAIN r
      /\ \A i \in DOMAIN r :
           \/ i = k + 1 /\ r[i] = key
           \/ i \in 1..k /\ i \in DOMAIN keys /\ r[i] = keys[i]
           \/ i - 1 \in (k + 1)..Len(keys) /\ i - 1 \in DOMAIN keys /\ r[i] = keys[i - 1]
  <2> DEFINE N == Nat
  <2>1. keys \in Seq(N) /\ r \in Seq(N) /\ key \in N
    OBVIOUS
  <2> HIDE DEF N
  <2> QED
    BY <2>1, InsertionRange
<1>2. DOMAIN r \subseteq Nat /\ DOMAIN keys \subseteq Nat /\ \A i \in DOMAIN keys : keys[i] \in Nat
  OBVIOUS
<1>3. SUFFICES ASSUME NEW i \in DOMAIN r, NEW j \in DOMAIN r, i < j PROVE r[i] < r[j]
  BY DEF Sorted
<1>4. i \in Nat /\ j \in Nat /\ k \in Nat
  BY <1>2
<1>5. CASE i = k + 1 /\ r[i] = key
  <2>1. j - 1 \in (k + 1)..Len(keys) /\ r[j] = keys[j - 1]
    <3>1. ~(j = k + 1) /\ ~(j \in 1..k)
      BY <1>3, <1>4, <1>5
    <3> QED
      BY <1>1, <3>1
  <2> QED
    BY <1>5, <2>1
<1>6. CASE i \in 1..k /\ i \in DOMAIN keys /\ r[i] = keys[i]
  <2>1. CASE j = k + 1 /\ r[j] = key
    BY <1>6, <2>1
  <2>2. CASE j \in 1..k /\ j \in DOMAIN keys /\ r[j] = keys[j]
    BY <1>3, <1>6, <2>2 DEF Sorted
  <2>3. CASE j - 1 \in (k + 1)..Len(keys) /\ j - 1 \in DOMAIN keys /\ r[j] = keys[j - 1]
    <3>1. i < j - 1
      BY <1>4, <1>6, <2>3
    <3> QED
      BY <1>6, <2>3, <3>1 DEF Sorted
  <2> QED
    BY <1>1, <2>1, <2>2, <2>3
<1>7. CASE i - 1 \in (k + 1)..Len(keys) /\ i - 1 \in DOMAIN keys /\ r[i] = keys[i - 1]
  <2>1. j - 1 \in (k + 1)..Len(keys) /\ j - 1 \in DOMAIN keys /\ r[j] = keys[j - 1]
    <3>1. ~(j = k + 1) /\ ~(j \in 1..k)
      <4>1. i - 1 >= k + 1 /\ i < j
        BY <1>3, <1>7
      <4> QED
        BY <1>4, <4>1
    <3> QED
      BY <1>1, <3>1
  <2>2. i - 1 < j - 1
    BY <1>3, <1>4
  <2> QED
    BY <1>7, <2>1, <2>2 DEF Sorted
<1> QED
  BY <1>1, <1>5, <1>6, <1>7

(* A key that the walk does not find is put where the list stays sorted.   *)
LEMMA WalkSorted ==
  ASSUME NEW keys \in Seq(Nat), NEW key \in Nat, Sorted(keys)
  PROVE  LET k == Walk(keys, key)
         IN  IF k < Len(keys) /\ keys[k + 1] = key
             THEN key \in Range(keys)
             ELSE /\ key \notin Range(keys)
                  /\ \A r \in Seq(Nat) : IsInsertion(r, keys, k, key) => Sorted(r)
<1> DEFINE k == Walk(keys, key)
<1>1. k \in 0..Len(keys) /\ (\A i \in 1..k : keys[i] < key)
      /\ (k < Len(keys) => keys[k + 1] >= key)
  BY WalkFacts
<1>2. Len(keys) \in Nat /\ DOMAIN keys = 1..Len(keys) /\ \A i \in 1..Len(keys) : keys[i] \in Nat
  OBVIOUS
<1> HIDE DEF k
<1>3. CASE k < Len(keys) /\ keys[k + 1] = key
  BY <1>1, <1>2, <1>3 DEF Range, k
<1>4. CASE ~(k < Len(keys) /\ keys[k + 1] = key)
  <2>1. ASSUME NEW j \in (k + 1)..Len(keys) PROVE keys[j] > key
    <3>1. k + 1 \in 1..Len(keys) /\ j \in 1..Len(keys)
      BY <1>1, <1>2
    <3>2. keys[k + 1] > key
      BY <1>1, <1>2, <1>4, <3>1
    <3>3. j = k + 1 \/ keys[k + 1] < keys[j]
      <4>1. j = k + 1 \/ k + 1 < j
        BY <1>1, <1>2
      <4> QED
        BY <1>2, <3>1, <4>1 DEF Sorted
    <3> QED
      BY <1>2, <3>1, <3>2, <3>3
  <2>2. key \notin Range(keys)
    <3>1. ASSUME NEW j \in 1..Len(keys) PROVE keys[j] # key
      <4>1. j \in 1..k \/ j \in (k + 1)..Len(keys)
        BY <1>1, <1>2
      <4> QED
        BY <1>1, <1>2, <2>1, <4>1
    <3> QED
      BY <1>2, <3>1 DEF Range
  <2>3. \A r \in Seq(Nat) : IsInsertion(r, keys, k, key) => Sorted(r)
    BY <1>1, <2>1, InsertionSorted
  <2> QED
    BY <1>4, <2>2, <2>3, Zenon DEF k
<1> QED
  BY <1>3, <1>4

LEMMA AddLineFacts ==
  ASSUME NEW lines \in Seq(Nat), NEW n \in Nat
  PROVE  /\ AddLine(lines, n) \in Seq(Nat)
         /\ Sorted(lines) => /\ Sorted(AddLine(lines, n))
                             /\ Range(AddLine(lines, n)) = Range(lines) \cup {n}
<1> DEFINE k == Walk(lines, n)
           r == InsertAt(lines, k + 1, n)
<1>1. k \in 0..Len(lines)
  BY WalkFacts
<1>2. r \in Seq(Nat) /\ IsInsertion(r, lines, k, n) /\ Range(r) = Range(lines) \cup {n}
  <2> DEFINE N == Nat
  <2>1. lines \in Seq(N) /\ n \in N
    OBVIOUS
  <2> HIDE DEF N, k
  <2>2. r \in Seq(N) /\ IsInsertion(r, lines, k, n)
    BY <1>1, <2>1, InsertAtFacts
  <2> HIDE DEF r
  <2>3. Range(r) = Range(lines) \cup {n}
    BY <1>1, <2>1, <2>2, InsertionRange
  <2> QED
    BY <2>2, <2>3 DEF N
<1>3. ASSUME Sorted(lines)
      PROVE  IF k < Len(lines) /\ lines[k + 1] = n THEN n \in Range(lines) ELSE Sorted(r)
  <2>1. IF k < Len(lines) /\ lines[k + 1] = n
        THEN n \in Range(lines)
        ELSE /\ n \notin Range(lines)
             /\ \A s \in Seq(Nat) : IsInsertion(s, lines, k, n) => Sorted(s)
    BY <1>3, WalkSorted
  <2> HIDE DEF r, k
  <2> QED
    BY <1>2, <2>1
<1>4. AddLine(lines, n) = IF k < Len(lines) /\ lines[k + 1] = n THEN lines ELSE r
  BY DEF AddLine
<1> HIDE DEF k, r
<1> QED
  BY <1>2, <1>3, <1>4

(***************************************************************************)
(* A postings list against the occurrences of its word: triples of a path, *)
(* a line, and something that tells those on one line apart.               *)
(***************************************************************************)
Posting == [path : Nat, frequency : Nat, lines : Seq(Nat)]

In(occ, f) == {o \in occ : o[1] = f}

Entry(p, occ) ==
  /\ Sorted(p.lines)
  /\ Range(p.lines) = {o[2] : o \in In(occ, p.path)}
  /\ p.frequency = Cardinality(In(occ, p.path))

Summarises(list, occ) ==
  /\ list \in Seq(Posting)
  /\ Sorted(PathsOf(list))
  /\ Range(PathsOf(list)) = {o[1] : o \in occ}
  /\ \A i \in DOMAIN list : Entry(list[i], occ)

LEMMA PathsOfFacts ==
  ASSUME NEW list \in Seq(Posting)
  PROVE  /\ PathsOf(list) \in Seq(Nat)
         /\ Len(PathsOf(list)) = Len(list) /\ DOMAIN PathsOf(list) = DOMAIN list
         /\ \A i \in DOMAIN list : PathsOf(list)[i] = list[i].path /\ list[i] \in Posting
<1>1. \A i \in DOMAIN list : list[i] \in Posting /\ list[i].path \in Nat
  <2>1. \A i \in DOMAIN list : list[i] \in Posting
    OBVIOUS
  <2> QED
    BY <2>1 DEF Posting
<1>2. DOMAIN list = 1..Len(list) /\ Len(list) \in Nat
  OBVIOUS
<1>3. PathsOf(list) = [i \in 1..Len(list) |-> list[i].path]
  BY <1>2 DEF PathsOf
<1> QED
  BY <1>1, <1>2, <1>3

(* One way or the other, an update changes one entry or inserts one.       *)
LEMMA UpdateCases ==
  ASSUME NEW list \in Seq(Posting), NEW path \in Nat, NEW n \in Nat
  PROVE  LET k == Walk(PathsOf(list), path)
             new == [path |-> path, frequency |-> 1, lines |-> <<n>>]
             r == UpdatePostings(list, path, n)
         IN  /\ k \in 0..Len(list) /\ k \in Nat /\ r \in Seq(Posting)
             /\ \/ /\ k < Len(list) /\ k + 1 \in DOMAIN list /\ list[k + 1].path = path
                   /\ DOMAIN r = DOMAIN list
                   /\ \A i \in DOMAIN list : i # k + 1 => r[i] = list[i]
                   /\ r[k + 1] = [path |-> path, frequency |-> list[k + 1].frequency + 1,
                                  lines |-> AddLine(list[k + 1].lines, n)]
                \/ /\ ~(k < Len(list) /\ list[k + 1].path = path)
                   /\ IsInsertion(r, list, k, new)
<1> DEFINE k == Walk(PathsOf(list), path)
           new == [path |-> path, frequency |-> 1, lines |-> <<n>>]
           r == UpdatePostings(list, path, n)
<1>1. k \in 0..Len(list) /\ k \in Nat /\ Len(list) \in Nat
  <2>1. PathsOf(list) \in Seq(Nat) /\ Len(PathsOf(list)) = Len(list)
    BY PathsOfFacts
  <2>2. k \in 0..Len(PathsOf(list))
    BY <2>1, WalkFacts
  <2> HIDE DEF k
  <2> QED
    BY <2>1, <2>2
<1>2. new \in Posting
  BY DEF Posting
<1> HIDE DEF k
<1>3. CASE k < Len(list) /\ list[k + 1].path = path
  <2>1. k + 1 \in DOMAIN list /\ list[k + 1] \in Posting
    BY <1>1, <1>3
  <2> DEFINE l == list[k + 1]
             m == [path |-> path, frequency |-> l.frequency + 1, lines |-> AddLine(l.lines, n)]
  <2>2. l.path = path /\ l.frequency \in Nat /\ l.lines \in Seq(Nat)
    BY <1>3, <2>1 DEF Posting
  <2>3. AddLine(l.lines, n) \in Seq(Nat)
    <3> HIDE DEF l
    <3> QED
      BY <2>2, AddLineFacts
  <2>4. m \in Posting
    <3> HIDE DEF l
    <3> QED
      BY <2>2, <2>3 DEF Posting
  <2>5. r = [list EXCEPT ![k + 1] = m]
    <3>1. r = [list EXCEPT ![k + 1] = [path |-> path, frequency |-> @.frequency + 1,
                                       lines |-> AddLine(@.lines, n)]]
      BY <1>3 DEF UpdatePostings, k
    <3> QED
      BY <2>1, <3>1
  <2> HIDE DEF m, r
  <2>6. r \in Seq(Posting) /\ DOMAIN r = DOMAIN list /\ r[k + 1] = m
        /\ \A i \in DOMAIN list : i # k + 1 => r[i] = list[i]
    BY <2>1, <2>4, <2>5
  <2> QED
    BY <1>1, <1>3, <2>1, <2>6 DEF m, r, k
<1>4. CASE ~(k < Len(list) /\ list[k + 1].path = path)
  <2>1. r = InsertAt(list, k + 1, new)
    BY <1>4 DEF UpdatePostings, k
  <2> HIDE DEF new, r
  <2>2. r \in Seq(Posting) /\ IsInsertion(r, list, k, new)
    BY <1>1, <1>2, <2>1, InsertAtFacts
  <2> QED
    BY <1>1, <1>4, <2>2 DEF new, r, k
<1> QED
  BY <1>3, <1>4

LEMMA InMore ==
  ASSUME NEW occ, IsFiniteSet(occ), NEW o, o \notin occ
  PROVE  /\ In(occ \cup {o}, o[1]) = In(occ, o[1]) \cup {o}
         /\ Cardinality(In(occ, o[1])) \in Nat
         /\ Cardinality(In(occ \cup {o}, o[1])) = Cardinality(In(occ, o[1])) + 1
<1>1. In(occ, o[1]) \in SUBSET occ
  BY DEF In
<1>2. IsFiniteSet(In(occ, o[1])) /\ o \notin In(occ, o[1])
  BY <1>1, FS_Subset
<1>3. Cardinality(In(occ, o[1])) \in Nat
  BY <1>2, FS_CardinalityType
<1>4. In(occ \cup {o}, o[1]) = In(occ, o[1]) \cup {o}
  BY DEF In
<1>5. Cardinality(In(occ, o[1]) \cup {o}) = Cardinality(In(occ, o[1])) + 1
  BY <1>2, FS_AddElement
<1> QED
  BY <1>3, <1>4, <1>5

(* A posting of another file says the same after an occurrence in path,    *)
(* and that of path takes it in.                                           *)
LEMMA EntryMore ==
  ASSUME NEW occ, IsFiniteSet(occ), NEW o, o \notin occ, NEW p \in Posting, Entry(p, occ),
         o[2] \in Nat
  PROVE  /\ o[1] # p.path => Entry(p, occ \cup {o})
         /\ o[1] = p.path =>
              Entry([path |-> p.path, frequency |-> p.frequency + 1,
                     lines |-> AddLine(p.lines, o[2])], occ \cup {o})
<1> DEFINE l == AddLine(p.lines, o[2])
           q == [path |-> p.path, frequency |-> p.frequency + 1, lines |-> l]
<1>1. p.path \in Nat /\ p.frequency \in Nat /\ p.lines \in Seq(Nat)
  BY DEF Posting
<1>2. CASE o[1] # p.path
  <2>1. In(occ \cup {o}, p.path) = In(occ, p.path)
    BY <1>2 DEF In
  <2> QED
    BY <1>2, <2>1 DEF Entry
<1>3. CASE o[1] = p.path
  <2>1. /\ In(occ \cup {o}, p.path) = In(occ, p.path) \cup {o}
        /\ Cardinality(In(occ \cup {o}, p.path)) = Cardinality(In(occ, p.path)) + 1
    <3>1. /\ In(occ \cup {o}, o[1]) = In(occ, o[1]) \cup {o}
          /\ Cardinality(In(occ \cup {o}, o[1])) = Cardinality(In(occ, o[1])) + 1
      BY InMore
    <3> QED
      BY <1>3, <3>1, Zenon
  <2>2. Sorted(l) /\ Range(l) = Range(p.lines) \cup {o[2]}
    <3>1. Sorted(p.lines)
      BY DEF Entry
    <3> QED
      BY <1>1, <3>1, AddLineFacts
  <2> HIDE DEF l
  <2>3. q.path = p.path /\ q.frequency = p.frequency + 1 /\ q.lines = l
    OBVIOUS
  <2> HIDE DEF q
  <2>4. Range(l) = {x[2] : x \in In(occ \cup {o}, p.path)}
    <3>1. Range(p.lines) = {x[2] : x \in In(occ, p.path)}
      BY DEF Entry
    <3> QED
      BY <2>1, <2>2, <3>1
  <2>5. q.frequency = Cardinality(In(occ \cup {o}, q.path))
    BY <2>1, <2>3 DEF Entry
  <2>6. Entry(q, occ \cup {o})
    BY <2>2, <2>3, <2>4, <2>5 DEF Entry
  <2> QED
    BY <1>3, <2>6 DEF q, l
<1> QED
  BY <1>2, <1>3

LEMMA UpdateSummarises ==
  ASSUME NEW occ, IsFiniteSet(occ), NEW list, Summarises(list, occ),
         NEW o, o \notin occ, o[1] \in Nat, o[2] \in Nat
  PROVE  Summarises(UpdatePostings(list, o[1], o[2]), occ \cup {o})
<1> DEFINE path == o[1]
           n == o[2]
           k == Walk(PathsOf(list), path)
           new == [path |-> path, frequency |-> 1, lines |-> <<n>>]
           r == UpdatePostings(list, path, n)
<1>1. list \in Seq(Posting) /\ Sorted(PathsOf(list))
  BY DEF Summarises
<1>2. /\ PathsOf(list) \in Seq(Nat) /\ Len(PathsOf(list)) = Len(list)
      /\ DOMAIN PathsOf(list) = DOMAIN list
      /\ \A i \in DOMAIN list : PathsOf(list)[i] = list[i].path /\ list[i] \in Posting
  BY <1>1, PathsOfFacts
<1>3. /\ k \in 0..Len(list) /\ k \in Nat /\ r \in Seq(Posting)
      /\ \/ /\ k < Len(list) /\ k + 1 \in DOMAIN list /\ list[k + 1].path = path
            /\ DOMAIN r = DOMAIN list
            /\ \A i \in DOMAIN list : i # k + 1 => r[i] = list[i]
            /\ r[k + 1] = [path |-> path, frequency |-> list[k + 1].frequency + 1,
                           lines |-> AddLine(list[k + 1].lines, n)]
         \/ /\ ~(k < Len(list) /\ list[k + 1].path = path)
            /\ IsInsertion(r, list, k, new)
  BY <1>1, UpdateCases
<1>4. /\ PathsOf(r) \in Seq(Nat) /\ DOMAIN PathsOf(r) = DOMAIN r /\ Len(PathsOf(r)) = Len(r)
      /\ \A i \in DOMAIN r : PathsOf(r)[i] = r[i].path /\ r[i] \in Posting
  BY <1>3, PathsOfFacts
<1>5. /\ IF k < Len(list) /\ PathsOf(list)[k + 1] = path
         THEN path \in Range(PathsOf(list))
         ELSE /\ path \notin Range(PathsOf(list))
              /\ \A s \in Seq(Nat) : IsInsertion(s, PathsOf(list), k, path) => Sorted(s)
  BY <1>1, <1>2, WalkSorted
<1> HIDE DEF k, r
<1>6. {x[1] : x \in occ \cup {o}} = Range(PathsOf(list)) \cup {path}
  BY DEF Summarises
<1>7. CASE k < Len(list) /\ list[k + 1].path = path
  <2>1. /\ k + 1 \in DOMAIN list /\ list[k + 1].path = path
        /\ DOMAIN r = DOMAIN list
        /\ \A i \in DOMAIN list : i # k + 1 => r[i] = list[i]
        /\ r[k + 1] = [path |-> path, frequency |-> list[k + 1].frequency + 1,
                       lines |-> AddLine(list[k + 1].lines, n)]
    BY <1>3, <1>7
  <2>2. \A i \in DOMAIN list : r[i].path = list[i].path
    BY <2>1
  <2>3. PathsOf(r) = PathsOf(list)
    BY <2>1, <2>2 DEF PathsOf
  <2>4. path \in Range(PathsOf(list))
    BY <1>2, <2>1 DEF Range
  <2>5. ASSUME NEW i \in DOMAIN list PROVE Entry(r[i], occ \cup {o})
    <3>1. list[i] \in Posting /\ Entry(list[i], occ)
      BY <1>2 DEF Summarises
    <3>2. CASE i = k + 1
      <4>1. o[1] = list[i].path
        BY <2>1, <3>2
      <4>2. r[i] = [path |-> list[i].path, frequency |-> list[i].frequency + 1,
                    lines |-> AddLine(list[i].lines, o[2])]
        BY <2>1, <3>2
      <4> QED
        BY <3>1, <4>1, <4>2, EntryMore
    <3>3. CASE i # k + 1
      <4>1. list[i].path # list[k + 1].path
        <5>1. i \in Nat /\ k + 1 \in Nat
          BY <1>1, <1>3
        <5>2. i < k + 1 \/ k + 1 < i
          BY <3>3, <5>1
        <5>3. PathsOf(list)[i] < PathsOf(list)[k + 1] \/ PathsOf(list)[k + 1] < PathsOf(list)[i]
          BY <1>1, <1>2, <2>1, <5>2 DEF Sorted
        <5>4. PathsOf(list)[i] \in Nat /\ PathsOf(list)[k + 1] \in Nat
          BY <1>2, <2>1
        <5> QED
          BY <1>2, <2>1, <5>3, <5>4
      <4>2. o[1] # list[i].path
        BY <2>1, <4>1
      <4>3. r[i] = list[i]
        BY <2>1, <3>3
      <4> QED
        BY <3>1, <4>2, <4>3, EntryMore
    <3> QED
      BY <3>2, <3>3
  <2>6. Range(PathsOf(r)) = {x[1] : x \in occ \cup {o}}
    BY <1>6, <2>3, <2>4
  <2> QED
    BY <1>1, <1>3, <2>1, <2>3, <2>5, <2>6 DEF Summarises, r
<1>8. CASE ~(k < Len(list) /\ list[k + 1].path = path)
  <2>1. IsInsertion(r, list, k, new)
    BY <1>3, <1>8
  <2>2. new \in Posting
    BY DEF Posting
  <2>3. IsInsertion(PathsOf(r), PathsOf(list), k, path)
    <3>1. /\ Len(r) = Len(list) + 1 /\ r[k + 1] = new
          /\ \A j \in 1..k : r[j] = list[j]
          /\ \A j \in (k + 1)..Len(list) : r[j + 1] = list[j]
      BY <2>1 DEF IsInsertion
    <3>2. /\ DOMAIN list = 1..Len(list) /\ DOMAIN r = 1..(Len(list) + 1) /\ Len(list) \in Nat
      BY <1>1, <1>3, <3>1
    <3>3. k \in 0..Len(list)
      BY <1>3
    <3>4. PathsOf(r)[k + 1] = path
      <4>1. k + 1 \in DOMAIN r
        BY <3>2, <3>3
      <4> QED
        BY <1>4, <3>1, <4>1
    <3>5. ASSUME NEW j \in 1..k PROVE PathsOf(r)[j] = PathsOf(list)[j]
      <4>1. j \in DOMAIN r /\ j \in DOMAIN list
        BY <3>2, <3>3
      <4> QED
        BY <1>2, <1>4, <3>1, <4>1
    <3>6. ASSUME NEW j \in (k + 1)..Len(list) PROVE PathsOf(r)[j + 1] = PathsOf(list)[j]
      <4>1. j + 1 \in DOMAIN r /\ j \in DOMAIN list
        BY <3>2, <3>3
      <4>2. PathsOf(r)[j + 1] = r[j + 1].path /\ PathsOf(list)[j] = list[j].path
        BY <1>2, <1>4, <4>1
      <4> QED
        BY <3>1, <4>2
    <3> QED
      BY <1>2, <1>4, <3>1, <3>4, <3>5, <3>6 DEF IsInsertion
  <2>4. path \notin Range(PathsOf(list)) /\ Sorted(PathsOf(r))
    <3>1. ~(k < Len(list) /\ PathsOf(list)[k + 1] = path)
      <4>1. k < Len(list) => k + 1 \in DOMAIN list
        BY <1>1, <1>3
      <4> QED
        BY <1>2, <1>8, <4>1
    <3> QED
      BY <1>4, <1>5, <2>3, <3>1
  <2>5. Range(PathsOf(r)) = Range(PathsOf(list)) \cup {path}
    <3> DEFINE N == Nat
               p == PathsOf(list)
               q == PathsOf(r)
    <3>1. p \in Seq(N) /\ q \in Seq(N) /\ path \in N /\ k \in 0..Len(p) /\ IsInsertion(q, p, k, path)
      BY <1>2, <1>3, <1>4, <2>3
    <3> HIDE DEF N, p, q
    <3>2. Range(q) = Range(p) \cup {path}
      BY <3>1, InsertionRange
    <3> QED
      BY <3>2 DEF p, q
  <2>6. \A i \in DOMAIN r :
          \/ i = k + 1 /\ r[i] = new
          \/ i \in 1..k /\ i \in DOMAIN list /\ r[i] = list[i]
          \/ i - 1 \in (k + 1)..Len(list) /\ i - 1 \in DOMAIN list /\ r[i] = list[i - 1]
    <3> HIDE DEF new
    <3> QED
      BY <1>1, <1>3, <2>1, <2>2, InsertionRange
  <2>7. ASSUME NEW j \in DOMAIN list PROVE Entry(list[j], occ \cup {o})
    <3>1. list[j] \in Posting /\ Entry(list[j], occ)
      BY <1>2 DEF Summarises
    <3>2. o[1] # list[j].path
      BY <1>2, <2>4 DEF Range
    <3> QED
      BY <3>1, <3>2, EntryMore
  <2>8. Entry(new, occ \cup {o})
    <3>1. In(occ, path) = {}
      <4>1. path \notin {x[1] : x \in occ}
        BY <2>4 DEF Summarises
      <4> QED
        BY <4>1 DEF In
    <3>2. In(occ \cup {o}, path) = {o} /\ Cardinality(In(occ \cup {o}, path)) = 1
      <4>1. /\ In(occ \cup {o}, path) = In(occ, path) \cup {o}
            /\ Cardinality(In(occ \cup {o}, path)) = Cardinality(In(occ, path)) + 1
        BY InMore
      <4>2. Cardinality({}) = 0
        BY FS_EmptySet
      <4> QED
        BY <3>1, <4>1, <4>2
    <3>3. new.path = path /\ new.frequency = 1 /\ new.lines = <<n>>
      OBVIOUS
    <3>4. Sorted(<<n>>) /\ Range(<<n>>) = {n}
      BY DEF Sorted, Range
    <3>5. {x[2] : x \in {o}} = {n}
      OBVIOUS
    <3> HIDE DEF new
    <3> QED
      BY <3>2, <3>3, <3>4, <3>5 DEF Entry
  <2>9. \A i \in DOMAIN r : Entry(r[i], occ \cup {o})
    <3> HIDE DEF new
    <3> QED
      BY <2>6, <2>7, <2>8
  <2> QED
    BY <1>3, <1>6, <2>4, <2>5, <2>9 DEF Summarises, r
<1> QED
  BY <1>7, <1>8

-----------------------------------------------------------------------------
(***************************************************************************)
(* The inductive invariant                                                 *)
(***************************************************************************)
Busy(w) == pc[w] \in {"reading", "undefined", "spinning"}

IndexTyping ==
  /\ content \in [Paths -> Texts \cup {Directory}]
  /\ pc \in [Workers -> {"next", "reading", "undefined", "spinning", "ready"}]
  /\ todo \in [Workers -> Seq(DOMAIN Files)]
  /\ entries \in [Workers -> SUBSET Paths]
  /\ trie \in [Workers -> [Words -> Seq(Posting)]]
  /\ fileList \in [Workers -> Seq(Nat)]
  /\ total \in [Workers -> [words : Nat, lines : Nat]]
  /\ temp \in [Workers -> [words : Nat, lines : Nat]]
  /\ gaveUp \in [Workers -> SUBSET DOMAIN Files]
  /\ command \in Commands
  /\ unfinished \subseteq Workers /\ collected \subseteq Workers \ unfinished
  /\ best \in [value : Nat, file : Nat]
  /\ sum \in [words : Nat, lines : Nat]
  /\ DOMAIN found = Workers

(* The directories are opened one after the other, each once: what a       *)
(* worker still has to open is a part of what it was given, without        *)
(* duplicates, and without what it gave up.                                *)
InTurn(w) ==
  /\ Distinct(todo[w]) /\ Elements(todo[w]) \subseteq Range(Given[w])
  /\ gaveUp[w] \subseteq Range(Given[w]) \ Elements(todo[w])
  /\ Busy(w) => todo[w] # <<>> /\ entries[w] \subseteq Files[Head(todo[w])]
  /\ pc[w] = "ready" => todo[w] = <<>>

ReadOf(w) == IF Busy(w) THEN Files[Head(todo[w])] \ entries[w] ELSE {}

(* The directories that the worker has done with, and those of them that   *)
(* it has read to the end.                                                 *)
Left(w) == Range(Given[w]) \ Elements(todo[w])
ClosedFiles(w) == UNION {Files[d] : d \in Left(w) \ gaveUp[w]}

(* A file is listed when it was read.                                      *)
Listed(w) ==
  /\ Range(fileList[w]) \subseteq (UNION {Files[d] : d \in Left(w)}) \cup ReadOf(w)
  /\ ClosedFiles(w) \cup ReadOf(w) \subseteq Range(fileList[w])
  /\ \A f \in Range(fileList[w]) : content[f] \in Texts

(* The totals of the closed directories, and those of the open one.        *)
Totalled(w) ==
  /\ total[w] = Totals(ClosedFiles(w))
  /\ Busy(w) => temp[w] = Totals(ReadOf(w))

At(lines, a) == {p \in Positions(lines) : lines[p[1]][p[2]] = a}

Tagged(f, places) == {<<f, p[1], p[2]>> : p \in places}

OccurrencesOf(f, lines, a) == Tagged(f, At(lines, a))

OccurrencesIn(files, a) == UNION {OccurrencesOf(f, content[f].lines, a) : f \in files}

(* The trie holds the occurrences in the listed files, and no others.      *)
Indexed(w) == \A a \in Words : Summarises(trie[w][a], OccurrencesIn(Range(fileList[w]), a))

WorkerInv(w) == InTurn(w) /\ Listed(w) /\ Totalled(w) /\ Indexed(w)

(* What the Job Executor has from the workers that have answered.          *)
Answers ==
  /\ \A w \in collected : pc[w] = "ready"
  /\ SearchExact
  /\ command.kind \in {"maxcount", "mincount"} => BestOf(command.word)
  /\ command.kind = "wc" => sum = Totals(UNION {WholeFiles(w) : w \in collected})

IndexInv ==
  /\ IndexTyping
  /\ \A w \in Workers : WorkerInv(w)
  /\ Answers

(* What is in the sequences, and nothing else, is in the one.              *)
LEMMA FlattenRange ==
  ASSUME NEW S, NEW seqs \in Seq(Seq(S))
  PROVE  /\ FlattenSeq(seqs) \in Seq(S)
         /\ Range(FlattenSeq(seqs)) = UNION {Range(seqs[n]) : n \in DOMAIN seqs}
<1> DEFINE flat == FlattenSeq(seqs)
           P == Positions(seqs)
<1>1. flat \in Seq(S)
  BY FlattenPlaces
<1>2. PICK at \in Bijection(P, DOMAIN flat) : \A p \in P : flat[at[p]] = seqs[p[1]][p[2]]
  BY FlattenPlaces
<1> HIDE DEF flat
<1>3. ASSUME NEW x \in DOMAIN flat
      PROVE  \E n \in DOMAIN seqs : \E i \in DOMAIN seqs[n] : flat[x] = seqs[n][i]
  <2>1. PICK p \in P : at[p] = x
    BY <1>2 DEF Bijection, Surjection
  <2>2. PICK n \in DOMAIN seqs : \E i \in DOMAIN seqs[n] : p = <<n, i>>
    BY InPositions
  <2>3. flat[x] = seqs[p[1]][p[2]]
    BY <1>2, <2>1
  <2> QED
    BY <2>2, <2>3
<1>4. ASSUME NEW n \in DOMAIN seqs, NEW i \in DOMAIN seqs[n]
      PROVE  \E x \in DOMAIN flat : flat[x] = seqs[n][i]
  <2>1. <<n, i>> \in P
    BY InPositions
  <2>2. at[<<n, i>>] \in DOMAIN flat
    BY <1>2, <2>1 DEF Bijection, Injection
  <2>3. flat[at[<<n, i>>]] = seqs[n][i]
    BY <1>2, <2>1
  <2> QED
    BY <2>2, <2>3
<1>5. \A e : e \in Range(flat) <=> \E n \in DOMAIN seqs : \E i \in DOMAIN seqs[n] : e = seqs[n][i]
  BY <1>3, <1>4 DEF Range
<1>6. Range(flat) = UNION {Range(seqs[n]) : n \in DOMAIN seqs}
  <2>1. \A e : e \in UNION {Range(seqs[n]) : n \in DOMAIN seqs}
               <=> \E n \in DOMAIN seqs : e \in Range(seqs[n])
    OBVIOUS
  <2>2. \A n : \A e : e \in Range(seqs[n]) <=> \E i \in DOMAIN seqs[n] : e = seqs[n][i]
    BY DEF Range
  <2>3. \A e : e \in Range(flat) <=> e \in UNION {Range(seqs[n]) : n \in DOMAIN seqs}
    <3> SUFFICES ASSUME NEW e
                 PROVE  e \in Range(flat) <=> e \in UNION {Range(seqs[n]) : n \in DOMAIN seqs}
      OBVIOUS
    <3>1. e \in Range(flat) <=> \E n \in DOMAIN seqs : \E i \in DOMAIN seqs[n] : e = seqs[n][i]
      BY <1>5
    <3>2. e \in UNION {Range(seqs[n]) : n \in DOMAIN seqs}
               <=> \E n \in DOMAIN seqs : e \in Range(seqs[n])
      BY <2>1
    <3>3. (\E n \in DOMAIN seqs : e \in Range(seqs[n]))
           <=> \E n \in DOMAIN seqs : \E i \in DOMAIN seqs[n] : e = seqs[n][i]
      BY DEF Range
    <3> QED
      BY <3>1, <3>2, <3>3, Zenon
  <2> DEFINE A == Range(flat)
             B == UNION {Range(seqs[n]) : n \in DOMAIN seqs}
  <2>4. \A e : e \in A <=> e \in B
    BY <2>3, Zenon
  <2> HIDE DEF A, B
  <2>5. A = B
    BY <2>4
  <2> QED
    BY <2>5 DEF A, B
<1> QED
  BY <1>1, <1>6 DEF flat

(* The one is as long as the sequences have positions.                     *)
LEMMA PositionsFinite ==
  ASSUME NEW S, NEW seqs \in Seq(Seq(S))
  PROVE  /\ IsFiniteSet(Positions(seqs))
         /\ Cardinality(Positions(seqs)) \in Nat
         /\ Len(FlattenSeq(seqs)) = Cardinality(Positions(seqs))
<1> DEFINE flat == FlattenSeq(seqs)
           P == Positions(seqs)
<1>1. flat \in Seq(S)
  BY FlattenPlaces
<1>2. PICK at \in Bijection(P, DOMAIN flat) : TRUE
  BY FlattenPlaces
<1> HIDE DEF flat, P
<1>3. DOMAIN flat = 1..Len(flat) /\ Len(flat) \in Nat
  BY <1>1
<1>4. IsFiniteSet(DOMAIN flat) /\ Cardinality(DOMAIN flat) = Len(flat)
  <2> DEFINE l == Len(flat)
  <2>1. l \in Int /\ 1 \in Int
    BY <1>3
  <2> HIDE DEF l
  <2>2. IsFiniteSet(1..l) /\ Cardinality(1..l) = IF 1 > l THEN 0 ELSE l - 1 + 1
    BY <2>1, FS_Interval
  <2> QED
    BY <1>3, <2>2 DEF l
<1>5. at \in Injection(P, DOMAIN flat) /\ at \in Surjection(P, DOMAIN flat)
  BY DEF Bijection
<1>6. IsFiniteSet(P) /\ Cardinality(P) = Cardinality(DOMAIN flat)
  BY <1>4, <1>5, FS_Injection
<1> QED
  BY <1>3, <1>4, <1>6 DEF flat, P

-----------------------------------------------------------------------------
(* The occurrences of the words in a text *)

(* A position is a line and a place in it.                                 *)
LEMMA PositionsArePairs ==
  ASSUME NEW lines, NEW p \in Positions(lines)
  PROVE  /\ p = <<p[1], p[2]>>
         /\ p[1] \in DOMAIN lines /\ p[2] \in DOMAIN lines[p[1]]
  BY InPositions

(* As many occurrences as places.                                          *)
LEMMA TaggedFacts ==
  ASSUME NEW f, NEW Q, IsFiniteSet(Q), \A p \in Q : p = <<p[1], p[2]>>
  PROVE  IsFiniteSet(Tagged(f, Q)) /\ Cardinality(Tagged(f, Q)) = Cardinality(Q)
<1> DEFINE T == Tagged(f, Q)
           g == [p \in Q |-> <<f, p[1], p[2]>>]
<1>1. g \in [Q -> T] /\ \A p \in Q : g[p] = <<f, p[1], p[2]>>
  BY DEF Tagged
<1>2. \A x \in T : \E p \in Q : g[p] = x
  BY DEF Tagged
<1> HIDE DEF g, T
<1>3. ASSUME NEW p \in Q, NEW q \in Q, g[p] = g[q] PROVE p = q
  <2>1. p[1] = q[1] /\ p[2] = q[2]
    BY <1>1, <1>3
  <2>2. p = <<p[1], p[2]>> /\ q = <<q[1], q[2]>>
    OBVIOUS
  <2> QED
    BY <2>1, <2>2, Zenon
<1>4. g \in Surjection(Q, T) /\ g \in Injection(Q, T)
  BY <1>1, <1>2, <1>3 DEF Surjection, Injection, IsInjective
<1>5. IsFiniteSet(T) /\ Cardinality(T) = Cardinality(Q)
  BY <1>4, FS_Surjection
<1> QED
  BY <1>5 DEF T

Word == [word : Words, line : Nat]

(* Occurrences, the words that the worker reads from a text one after the  *)
(* other (textfile.c, worker.c), has every word of the text once, with its *)
(* line.                                                                   *)
LEMMA OccurrencesFacts ==
  ASSUME NEW lines \in Seq(Seq(Words))
  PROVE  /\ Occurrences(lines) \in Seq(Word)
         /\ IsFiniteSet(Positions(lines))
         /\ Cardinality(Positions(lines)) \in Nat
         /\ Len(Occurrences(lines)) = Cardinality(Positions(lines))
         /\ \E at \in Bijection(Positions(lines), DOMAIN Occurrences(lines)) :
              \A p \in Positions(lines) :
                Occurrences(lines)[at[p]] = [word |-> lines[p[1]][p[2]], line |-> p[1]]
<1> DEFINE row(n) == [i \in DOMAIN lines[n] |-> [word |-> lines[n][i], line |-> n]]
           seqs == [n \in DOMAIN lines |-> row(n)]
<1>1. DOMAIN lines = 1..Len(lines) /\ Len(lines) \in Nat
  OBVIOUS
<1>2. ASSUME NEW n \in DOMAIN lines PROVE row(n) \in Seq(Word)
  <2>1. /\ lines[n] \in Seq(Words) /\ n \in Nat /\ DOMAIN lines[n] = 1..Len(lines[n])
        /\ Len(lines[n]) \in Nat
    BY <1>1
  <2>2. \A i \in DOMAIN lines[n] : [word |-> lines[n][i], line |-> n] \in Word
    BY <2>1 DEF Word
  <2> QED
    BY <2>1, <2>2
<1> HIDE DEF row
<1>3. seqs \in Seq(Seq(Word))
  BY <1>1, <1>2
<1>4. Positions(seqs) = Positions(lines)
  BY DEF Positions, row
<1>5. \A p \in Positions(lines) : seqs[p[1]][p[2]] = [word |-> lines[p[1]][p[2]], line |-> p[1]]
  BY PositionsArePairs DEF row
<1>6. Occurrences(lines) = FlattenSeq(seqs)
  BY DEF Occurrences, row
<1> HIDE DEF seqs
<1>7. /\ FlattenSeq(seqs) \in Seq(Word)
      /\ \E at \in Bijection(Positions(seqs), DOMAIN FlattenSeq(seqs)) :
              \A p \in Positions(seqs) : FlattenSeq(seqs)[at[p]] = seqs[p[1]][p[2]]
  BY <1>3, FlattenPlaces
<1>8. /\ IsFiniteSet(Positions(seqs)) /\ Cardinality(Positions(seqs)) \in Nat
      /\ Len(FlattenSeq(seqs)) = Cardinality(Positions(seqs))
  BY <1>3, PositionsFinite
<1>9. \E at \in Bijection(Positions(lines), DOMAIN Occurrences(lines)) :
              \A p \in Positions(lines) :
                Occurrences(lines)[at[p]] = [word |-> lines[p[1]][p[2]], line |-> p[1]]
  <2>1. PICK at \in Bijection(Positions(seqs), DOMAIN FlattenSeq(seqs)) :
              \A p \in Positions(seqs) : FlattenSeq(seqs)[at[p]] = seqs[p[1]][p[2]]
    BY <1>7
  <2>2. at \in Bijection(Positions(lines), DOMAIN Occurrences(lines))
    BY <1>4, <1>6, Zenon
  <2>3. \A p \in Positions(lines) :
                Occurrences(lines)[at[p]] = [word |-> lines[p[1]][p[2]], line |-> p[1]]
    BY <1>4, <1>5, <1>6, <2>1
  <2> QED
    BY <2>2, <2>3
<1> QED
  BY <1>4, <1>6, <1>7, <1>8, <1>9

(* Updating a postings list leaves a postings list.                        *)
LEMMA UpdateType ==
  ASSUME NEW list \in Seq(Posting), NEW path \in Nat, NEW n \in Nat
  PROVE  UpdatePostings(list, path, n) \in Seq(Posting)
  BY UpdateCases

(* insertText for a file that was not read before: afterwards the lists of *)
(* all words summarise what they did and the occurrences in that file.     *)
LEMMA InsertSummarises ==
  ASSUME NEW lines \in Seq(Seq(Words)), NEW f \in Nat, NEW t \in [Words -> Seq(Posting)],
         NEW occ,
         \A a \in Words : /\ IsFiniteSet(occ[a]) /\ Summarises(t[a], occ[a])
                          /\ In(occ[a], f) = {}
  PROVE  /\ Insert(t, f, lines) \in [Words -> Seq(Posting)]
         /\ \A a \in Words : Summarises(Insert(t, f, lines)[a], occ[a] \cup OccurrencesOf(f, lines, a))
<1> DEFINE read == Occurrences(lines)
           m == Len(read)
           P == Positions(lines)
           S == [Words -> Seq(Posting)]
           next(n, g) == [g EXCEPT ![read[n].word] = UpdatePostings(@, f, read[n].line)]
           F(g) == [n \in 0..m |-> IF n = 0 THEN t ELSE next(n, g[n - 1])]
           after == CHOOSE g : g = F(g)
           step == [x \in (1..m) \X S |-> next(x[1], x[2])]
<1>1. /\ read \in Seq(Word) /\ IsFiniteSet(P)
      /\ \E at \in Bijection(P, DOMAIN read) :
           \A p \in P : read[at[p]] = [word |-> lines[p[1]][p[2]], line |-> p[1]]
  BY OccurrencesFacts
<1>2. PICK at \in Bijection(P, DOMAIN read) :
           \A p \in P : read[at[p]] = [word |-> lines[p[1]][p[2]], line |-> p[1]]
  BY <1>1
<1>3. Insert(t, f, lines) = after[m]
  BY DEF Insert
<1> HIDE DEF read, P
<1>4. m \in Nat /\ DOMAIN read = 1..m /\ \A n \in 1..m : read[n].word \in Words /\ read[n].line \in Nat
  <2>1. m \in Nat /\ DOMAIN read = 1..m /\ \A n \in 1..m : read[n] \in Word
    BY <1>1
  <2> QED
    BY <2>1 DEF Word
<1> HIDE DEF m
<1>5. ASSUME NEW n \in 1..m, NEW g \in S
      PROVE  /\ next(n, g) \in S
             /\ \A a \in Words : next(n, g)[a] = IF a = read[n].word
                                                THEN UpdatePostings(g[a], f, read[n].line)
                                                ELSE g[a]
  <2>1. UpdatePostings(g[read[n].word], f, read[n].line) \in Seq(Posting)
    BY <1>4, UpdateType
  <2> QED
    BY <1>4, <2>1
<1> HIDE DEF next
<1>6. after = F(after)
  <2>1. step \in [(1..m) \X S -> S]
    BY <1>5
  <2> HIDE DEF step, S
  <2>2. t \in S
    BY DEF S
  <2>3. PICK h : Iterates(h, m, S, t, step)
    BY <1>4, <2>1, <2>2, RecursiveFunction
  <2>4. h \in [0..m -> S] /\ h[0] = t
    BY <2>3 DEF Iterates
  <2>5. ASSUME NEW n \in 0..m PROVE h[n] = IF n = 0 THEN t ELSE next(n, h[n - 1])
    <3>1. CASE n = 0
      BY <2>4, <3>1
    <3>2. CASE n # 0
      <4>1. n - 1 \in 0..(m - 1) /\ n - 1 \in 0..m /\ n - 1 + 1 = n /\ n \in 1..m
        BY <1>4, <3>2
      <4>2. h[n - 1 + 1] = step[<<n - 1 + 1, h[n - 1]>>]
        BY <2>3, <4>1 DEF Iterates
      <4>3. h[n] = step[<<n, h[n - 1]>>]
        BY <4>1, <4>2, Zenon
      <4>4. h[n - 1] \in S
        BY <2>4, <4>1
      <4>5. step[<<n, h[n - 1]>>] = next(n, h[n - 1])
        BY <4>1, <4>4 DEF step
      <4> QED
        BY <3>2, <4>3, <4>5
    <3> QED
      BY <3>1, <3>2
  <2>6. h = F(h)
    BY <2>4, <2>5
  <2> HIDE DEF F
  <2> QED
    BY <2>6
<1> HIDE DEF after
<1>7. after[0] = t
  BY <1>4, <1>6
<1>8. ASSUME NEW n \in 0..(m - 1) PROVE after[n + 1] = next(n + 1, after[n])
  <2>1. n + 1 \in 0..m /\ n + 1 # 0 /\ n + 1 - 1 = n
    BY <1>4
  <2>2. after[n + 1] = F(after)[n + 1]
    BY <1>6, Zenon
  <2>3. F(after)[n + 1] = next(n + 1, after[n + 1 - 1])
    BY <2>1
  <2> QED
    BY <2>1, <2>2, <2>3, Zenon
<1> DEFINE Done(a, n) == Tagged(f, {p \in P : at[p] <= n /\ lines[p[1]][p[2]] = a})
           Good(n) == after[n] \in S /\ \A a \in Words : Summarises(after[n][a], occ[a] \cup Done(a, n))
<1>9. ASSUME NEW p \in P
      PROVE  /\ p = <<p[1], p[2]>> /\ at[p] \in 1..m
             /\ read[at[p]].word = lines[p[1]][p[2]] /\ read[at[p]].line = p[1] /\ p[1] \in Nat
  <2>1. p = <<p[1], p[2]>>
    BY PositionsArePairs DEF P
  <2>2. at[p] \in 1..m
    BY <1>2, <1>4 DEF Bijection, Injection
  <2>3. read[at[p]].word = lines[p[1]][p[2]] /\ read[at[p]].line = p[1]
    <3> DEFINE w == read[at[p]]
               b == lines[p[1]][p[2]]
               l == p[1]
    <3>1. w = [word |-> b, line |-> l]
      BY <1>2
    <3> HIDE DEF w, b, l
    <3>2. w.word = b /\ w.line = l
      BY <3>1
    <3> QED
      BY <3>2 DEF w, b, l
  <2> QED
    BY <1>4, <2>1, <2>2, <2>3
<1>10. \A a, n : IsFiniteSet(Done(a, n))
  <2> SUFFICES ASSUME NEW a, NEW n PROVE IsFiniteSet(Done(a, n))
    OBVIOUS
  <2> DEFINE Q == {p \in P : at[p] <= n /\ lines[p[1]][p[2]] = a}
  <2>1. Q \in SUBSET P
    OBVIOUS
  <2>2. \A p \in Q : p = <<p[1], p[2]>>
    BY <1>9
  <2> HIDE DEF Q
  <2>3. IsFiniteSet(Q)
    BY <1>1, <2>1, FS_Subset
  <2>4. IsFiniteSet(Tagged(f, Q))
    BY <2>2, <2>3, TaggedFacts
  <2> QED
    BY <2>4 DEF Q
<1>11. \A a \in Words : Done(a, m) = OccurrencesOf(f, lines, a)
  <2>1. \A p \in P : at[p] <= m
    BY <1>4, <1>9
  <2> QED
    BY <2>1 DEF OccurrencesOf, At, P, Tagged
<1>12. \A a \in Words : Done(a, 0) = {}
  <2>1. \A p \in P : ~(at[p] <= 0)
    BY <1>4, <1>9
  <2> QED
    BY <2>1 DEF Tagged
<1>13. Good(0)
  <2>1. \A a \in Words : occ[a] \cup Done(a, 0) = occ[a]
    BY <1>12
  <2> HIDE DEF Done
  <2> QED
    BY <1>7, <2>1
<1>14. ASSUME NEW n \in 0..(m - 1), Good(n) PROVE Good(n + 1)
  <2>1. n + 1 \in 1..m /\ n \in Nat
    BY <1>4
  <2>2. PICK p \in P : at[p] = n + 1
    BY <1>2, <1>4, <2>1 DEF Bijection, Surjection
  <2> DEFINE b == lines[p[1]][p[2]]
             o == <<f, p[1], p[2]>>
  <2>3. read[n + 1].word = b /\ read[n + 1].line = o[2] /\ o[1] = f /\ b \in Words /\ o[2] \in Nat
    BY <1>4, <1>9, <2>1, <2>2
  <2>4. /\ next(n + 1, after[n]) \in S
        /\ \A a \in Words : next(n + 1, after[n])[a]
                               = IF a = read[n + 1].word
                                 THEN UpdatePostings(after[n][a], f, read[n + 1].line)
                                 ELSE after[n][a]
    BY <1>5, <1>14, <2>1
  <2>5. after[n + 1] = next(n + 1, after[n])
    BY <1>8
  <2>6. \A q \in P : q # p => at[q] # n + 1
    BY <1>2, <2>2 DEF Bijection, Injection, IsInjective
  <2>7. \A q \in P : at[q] <= n + 1 <=> (at[q] <= n \/ q = p)
    <3>1. \A q \in P : at[q] \in Nat
      BY <1>9, <1>4
    <3> QED
      BY <2>1, <2>2, <2>6, <3>1
  <2>8. Done(b, n + 1) = Done(b, n) \cup {o}
    <3>1. {q \in P : at[q] <= n + 1 /\ lines[q[1]][q[2]] = b}
            = {q \in P : at[q] <= n /\ lines[q[1]][q[2]] = b} \cup {p}
      BY <2>7
    <3> HIDE DEF b
    <3> QED
      BY <3>1 DEF Tagged
  <2>9. \A a \in Words : a # b => Done(a, n + 1) = Done(a, n)
    <3> SUFFICES ASSUME NEW a \in Words, a # b PROVE Done(a, n + 1) = Done(a, n)
      OBVIOUS
    <3>1. {q \in P : at[q] <= n + 1 /\ lines[q[1]][q[2]] = a}
            = {q \in P : at[q] <= n /\ lines[q[1]][q[2]] = a}
      BY <2>7
    <3> QED
      BY <3>1
  <2>10. o \notin occ[b] \cup Done(b, n)
    <3>1. o \notin occ[b]
      <4>1. In(occ[b], f) = {}
        BY <2>3
      <4> QED
        BY <4>1 DEF In
    <3>2. o \notin Done(b, n)
      <4> SUFFICES ASSUME NEW q \in P, at[q] <= n, o = <<f, q[1], q[2]>> PROVE FALSE
        BY DEF Tagged
      <4>1. q = <<q[1], q[2]>> /\ p = <<p[1], p[2]>>
        BY <1>9
      <4>2. q[1] = p[1] /\ q[2] = p[2]
        OBVIOUS
      <4>3. q = p
        BY <4>1, <4>2, Zenon
      <4> QED
        BY <2>1, <2>2, <4>3
    <3> QED
      BY <3>1, <3>2
  <2>11. Summarises(after[n][b], occ[b] \cup Done(b, n)) /\ IsFiniteSet(occ[b] \cup Done(b, n))
    <3>1. IsFiniteSet(occ[b]) /\ IsFiniteSet(Done(b, n))
      BY <1>10, <2>3
    <3>2. Summarises(after[n][b], occ[b] \cup Done(b, n))
      BY <1>14, <2>3
    <3> HIDE DEF Done
    <3> QED
      BY <3>1, <3>2, FS_Union
  <2>12. Summarises(UpdatePostings(after[n][b], o[1], o[2]), (occ[b] \cup Done(b, n)) \cup {o})
    <3> DEFINE c == occ[b] \cup Done(b, n)
               l == after[n][b]
    <3>1. /\ IsFiniteSet(c) /\ Summarises(l, c) /\ o \notin c
          /\ o[1] \in Nat /\ o[2] \in Nat
      BY <2>3, <2>10, <2>11
    <3> HIDE DEF c, l, o
    <3>2. Summarises(UpdatePostings(l, o[1], o[2]), c \cup {o})
      BY <3>1, UpdateSummarises
    <3> QED
      BY <3>2 DEF c, l
  <2> HIDE DEF Done, S
  <2>13. ASSUME NEW a \in Words PROVE Summarises(after[n + 1][a], occ[a] \cup Done(a, n + 1))
    <3>1. CASE a = b
      <4>1. after[n + 1][a] = UpdatePostings(after[n][b], o[1], o[2])
        <5> HIDE DEF b, o
        <5> QED
          BY <2>3, <2>4, <2>5, <3>1
      <4>2. occ[a] \cup Done(a, n + 1) = (occ[b] \cup Done(b, n)) \cup {o}
        <5> HIDE DEF b, o
        <5> QED
          BY <2>8, <3>1
      <4> QED
        BY <2>12, <4>1, <4>2, Zenon
    <3>2. CASE a # b
      <4>1. after[n + 1][a] = after[n][a]
        <5> HIDE DEF b, o
        <5> QED
          BY <2>3, <2>4, <2>5, <3>2
      <4>2. Done(a, n + 1) = Done(a, n)
        BY <2>9, <3>2
      <4> QED
        BY <1>14, <4>1, <4>2, Zenon
    <3> QED
      BY <3>1, <3>2
  <2> QED
    BY <2>4, <2>5, <2>13
<1>15. Good(m)
  <2> DEFINE T == {n \in 0..m : Good(n)}
  <2> HIDE DEF Good
  <2>1. 0 \in T /\ \A n \in 0..(m - 1) : n \in T => n + 1 \in T
    BY <1>4, <1>13, <1>14
  <2>2. 0..m \subseteq T
    <3> HIDE DEF T
    <3> QED
      BY <1>4, <2>1, InductionUpTo
  <2> QED
    BY <1>4, <2>2
<1> HIDE DEF Done
<1> QED
  BY <1>3, <1>11, <1>15

-----------------------------------------------------------------------------
(* The lists of several keywords, merged *)

(* The list of a word that was never inserted.                             *)
LEMMA EmptySummarises == Summarises(<<>>, {})
<1>1. <<>> \in Seq(Posting) /\ DOMAIN PathsOf(<<>>) = {}
  BY DEF PathsOf
<1> QED
  BY <1>1 DEF Summarises, Sorted, Range

Place == [path : Nat, line : Nat]

PlaceOf(o) == [path |-> o[1], line |-> o[2]]

Ahead(p, q) == p.path < q.path \/ (p.path = q.path /\ p.line < q.line)

(* The places of a postings list are those of the occurrences, in the      *)
(* order of their paths and in a file of their lines.                      *)
LEMMA PlacesFacts ==
  ASSUME NEW occ, NEW list, Summarises(list, occ)
  PROVE  /\ Places(list) \in Seq(Place)
         /\ Range(Places(list)) = {PlaceOf(o) : o \in occ}
         /\ \A i, j \in DOMAIN Places(list) : i < j => Ahead(Places(list)[i], Places(list)[j])
<1> DEFINE row(i) == [n \in DOMAIN list[i].lines |->
                        [path |-> list[i].path, line |-> list[i].lines[n]]]
           seqs == [i \in DOMAIN list |-> row(i)]
           P == Positions(seqs)
           flat == Places(list)
<1>1. list \in Seq(Posting) /\ Sorted(PathsOf(list)) /\ DOMAIN list = 1..Len(list)
      /\ Len(list) \in Nat
  BY DEF Summarises
<1>2. ASSUME NEW i \in DOMAIN list
      PROVE  /\ list[i].path \in Nat /\ list[i].lines \in Seq(Nat)
             /\ PathsOf(list)[i] = list[i].path /\ i \in DOMAIN PathsOf(list) /\ i \in Nat
             /\ Sorted(list[i].lines)
             /\ Range(list[i].lines) = {o[2] : o \in In(occ, list[i].path)}
  <2>1. list[i] \in Posting /\ PathsOf(list)[i] = list[i].path /\ i \in DOMAIN PathsOf(list)
    BY <1>1, PathsOfFacts
  <2>2. Entry(list[i], occ)
    BY DEF Summarises
  <2> QED
    BY <1>1, <2>1, <2>2 DEF Posting, Entry
<1>3. ASSUME NEW i \in DOMAIN list PROVE row(i) \in Seq(Place)
  <2> DEFINE l == list[i].lines
  <2>1. l \in Seq(Nat) /\ list[i].path \in Nat
    BY <1>2
  <2> HIDE DEF l
  <2>2. DOMAIN l = 1..Len(l) /\ Len(l) \in Nat /\ \A n \in DOMAIN l : l[n] \in Nat
    BY <2>1
  <2>3. row(i) = [n \in 1..Len(l) |-> [path |-> list[i].path, line |-> l[n]]]
    BY <2>2 DEF l
  <2> HIDE DEF row
  <2>4. \A n \in 1..Len(l) : [path |-> list[i].path, line |-> l[n]] \in Place
    BY <2>1, <2>2 DEF Place
  <2> QED
    BY <2>2, <2>3, <2>4
<1>4. seqs \in Seq(Seq(Place))
  <2> HIDE DEF row
  <2> QED
    BY <1>1, <1>3
<1>5. flat = FlattenSeq(seqs)
  BY DEF Places
<1>6. ASSUME NEW p
      PROVE  p \in P <=> \E i \in DOMAIN list : \E n \in DOMAIN list[i].lines : p = <<i, n>>
  <2>1. DOMAIN seqs = DOMAIN list /\ \A i \in DOMAIN list : DOMAIN seqs[i] = DOMAIN list[i].lines
    OBVIOUS
  <2> HIDE DEF seqs
  <2> QED
    BY <2>1, InPositions
<1>7. \A i \in DOMAIN list : \A n \in DOMAIN list[i].lines :
        seqs[i][n] = [path |-> list[i].path, line |-> list[i].lines[n]]
  OBVIOUS
<1> HIDE DEF seqs, P, flat
<1>8. flat \in Seq(Place)
  BY <1>4, <1>5, FlattenPlaces
<1>9. PICK at \in Bijection(P, DOMAIN flat) :
        /\ \A p \in P : flat[at[p]] = seqs[p[1]][p[2]]
        /\ \A p, q \in P : at[p] < at[q] => Precedes(p, q)
  BY <1>4, <1>5, FlattenPlaces DEF P
<1>10. ASSUME NEW i \in DOMAIN list, NEW n \in DOMAIN list[i].lines
       PROVE  \E x \in DOMAIN flat : flat[x] = [path |-> list[i].path, line |-> list[i].lines[n]]
  <2>1. <<i, n>> \in P
    BY <1>6
  <2>2. at[<<i, n>>] \in DOMAIN flat
    BY <1>9, <2>1 DEF Bijection, Injection
  <2>3. flat[at[<<i, n>>]] = seqs[i][n]
    BY <1>9, <2>1
  <2> QED
    BY <1>7, <2>2, <2>3
<1>11. ASSUME NEW x \in DOMAIN flat
       PROVE  \E p \in P : at[p] = x
  BY <1>9 DEF Bijection, Surjection
<1>12. ASSUME NEW p \in P
       PROVE  /\ p[1] \in DOMAIN list /\ p[2] \in DOMAIN list[p[1]].lines
              /\ flat[at[p]].path = list[p[1]].path
              /\ flat[at[p]].line = list[p[1]].lines[p[2]]
  <2>1. PICK i \in DOMAIN list : \E n \in DOMAIN list[i].lines : p = <<i, n>>
    BY <1>6
  <2>2. PICK n \in DOMAIN list[i].lines : p = <<i, n>>
    BY <2>1
  <2>3. p[1] = i /\ p[2] = n
    BY <2>2
  <2>4. flat[at[p]] = seqs[i][n]
    BY <1>9, <2>3, Zenon
  <2>5. flat[at[p]] = [path |-> list[i].path, line |-> list[i].lines[n]]
    BY <1>7, <2>4
  <2> QED
    BY <2>3, <2>5
<1>13. ASSUME NEW x \in DOMAIN flat, NEW y \in DOMAIN flat, x < y PROVE Ahead(flat[x], flat[y])
  <2>1. PICK p \in P : at[p] = x
    BY <1>11
  <2>2. PICK q \in P : at[q] = y
    BY <1>11
  <2> DEFINE i == p[1] j == q[1] m == p[2] n == q[2]
  <2>3. Precedes(p, q)
    BY <1>9, <1>13, <2>1, <2>2
  <2>4. /\ i \in DOMAIN list /\ m \in DOMAIN list[i].lines
        /\ flat[x].path = list[i].path /\ flat[x].line = list[i].lines[m]
    BY <1>12, <2>1
  <2>5. /\ j \in DOMAIN list /\ n \in DOMAIN list[j].lines
        /\ flat[y].path = list[j].path /\ flat[y].line = list[j].lines[n]
    BY <1>12, <2>2
  <2>6. i < j \/ (i = j /\ m < n)
    BY <2>3 DEF Precedes
  <2> HIDE DEF i, j, m, n
  <2>7. CASE i < j
    <3>1. PathsOf(list)[i] < PathsOf(list)[j]
      BY <1>1, <1>2, <2>4, <2>5, <2>7 DEF Sorted
    <3> QED
      BY <1>2, <2>4, <2>5, <3>1 DEF Ahead
  <2>8. CASE i = j /\ m < n
    <3>1. list[i].lines[m] < list[i].lines[n]
      BY <1>2, <2>4, <2>5, <2>8 DEF Sorted
    <3> QED
      BY <2>4, <2>5, <2>8, <3>1 DEF Ahead
  <2> QED
    BY <2>6, <2>7, <2>8
<1>14. ASSUME NEW x \in DOMAIN flat PROVE \E o \in occ : flat[x] = PlaceOf(o)
  <2>1. PICK p \in P : at[p] = x
    BY <1>11
  <2>2. PICK i \in DOMAIN list : i = p[1]
    BY <1>12
  <2>3. PICK n \in DOMAIN list[i].lines : n = p[2]
    BY <1>12, <2>2
  <2>4. flat[x] = [path |-> list[i].path, line |-> list[i].lines[n]]
    <3>1. p = <<i, n>>
      BY <1>6, <2>2, <2>3
    <3>2. flat[x] = seqs[i][n]
      BY <1>9, <2>1, <2>2, <2>3
    <3> QED
      BY <1>7, <3>2
  <2>5. list[i].lines[n] \in {o[2] : o \in In(occ, list[i].path)}
    <3>1. list[i].lines[n] \in Range(list[i].lines)
      BY DEF Range
    <3> QED
      BY <1>2, <3>1
  <2>6. PICK o \in In(occ, list[i].path) : list[i].lines[n] = o[2]
    BY <2>5
  <2> QED
    BY <2>4, <2>6 DEF In, PlaceOf
<1>15. ASSUME NEW o \in occ PROVE \E x \in DOMAIN flat : flat[x] = PlaceOf(o)
  <2>1. o[1] \in Range(PathsOf(list))
    BY DEF Summarises
  <2>2. PICK i \in DOMAIN list : PathsOf(list)[i] = o[1]
    BY <2>1 DEF Range, PathsOf
  <2>3. list[i].path = o[1]
    BY <1>2, <2>2
  <2>4. o \in In(occ, list[i].path)
    BY <2>3 DEF In
  <2>5. o[2] \in Range(list[i].lines)
    BY <1>2, <2>4
  <2>6. PICK n \in DOMAIN list[i].lines : list[i].lines[n] = o[2]
    BY <2>5 DEF Range
  <2>7. PlaceOf(o) = [path |-> list[i].path, line |-> list[i].lines[n]]
    BY <2>3, <2>6 DEF PlaceOf
  <2> QED
    BY <1>10, <2>7
<1>16. Range(flat) = {PlaceOf(o) : o \in occ}
  BY <1>14, <1>15 DEF Range
<1> QED
  BY <1>8, <1>13, <1>16 DEF flat

(* list summarises occurrences at the places where the keywords occur.      *)
Merges(list, keywords, occ) ==
  \E c : /\ Summarises(list, c)
         /\ {PlaceOf(o) : o \in c} = UNION {{PlaceOf(o) : o \in occ[a]} : a \in Range(keywords)}

(* mergePostingsLists, which inserts the places of the keywords one list   *)
(* after the other, loses no line with a keyword and adds none, however    *)
(* often the lists meet in one.                                            *)
LEMMA MergeSummarises ==
  ASSUME NEW t \in [Words -> Seq(Posting)], NEW keywords \in Seq(Words), NEW occ,
         \A a \in Words : Summarises(t[a], occ[a])
  PROVE  Merges(Merge(t, keywords), keywords, occ)
<1> DEFINE seqs == [k \in DOMAIN keywords |-> Places(t[keywords[k]])]
           places == FlattenSeq(seqs)
           m == Len(places)
           S == Seq(Posting)
           next(n, list) == UpdatePostings(list, places[n].path, places[n].line)
           F(g) == [n \in 0..m |-> IF n = 0 THEN <<>> ELSE next(n, g[n - 1])]
           merged == CHOOSE g : g = F(g)
           step == [x \in (1..m) \X S |-> next(x[1], x[2])]
<1>1. \A k \in DOMAIN keywords :
        /\ keywords[k] \in Words
        /\ Places(t[keywords[k]]) \in Seq(Place)
        /\ Range(Places(t[keywords[k]])) = {PlaceOf(o) : o \in occ[keywords[k]]}
  <2> SUFFICES ASSUME NEW k \in DOMAIN keywords
               PROVE  /\ keywords[k] \in Words
                      /\ Places(t[keywords[k]]) \in Seq(Place)
                      /\ Range(Places(t[keywords[k]])) = {PlaceOf(o) : o \in occ[keywords[k]]}
    OBVIOUS
  <2>1. keywords[k] \in Words
    OBVIOUS
  <2>2. Summarises(t[keywords[k]], occ[keywords[k]])
    BY <2>1
  <2> QED
    BY <2>1, <2>2, PlacesFacts
<1>2. seqs \in Seq(Seq(Place))
  <2>1. DOMAIN keywords = 1..Len(keywords) /\ Len(keywords) \in Nat
    OBVIOUS
  <2>2. \A k \in DOMAIN keywords : Places(t[keywords[k]]) \in Seq(Place)
    BY <1>1
  <2> QED
    BY <2>1, <2>2
<1>3. /\ places \in Seq(Place)
      /\ Range(places) = UNION {Range(seqs[k]) : k \in DOMAIN seqs}
  <2> HIDE DEF seqs
  <2> QED
    BY <1>2, FlattenRange
<1>4. Range(places) = UNION {{PlaceOf(o) : o \in occ[a]} : a \in Range(keywords)}
  <2>1. \A k \in DOMAIN keywords : Range(seqs[k]) = {PlaceOf(o) : o \in occ[keywords[k]]}
    BY <1>1
  <2>2. DOMAIN seqs = DOMAIN keywords
    OBVIOUS
  <2> HIDE DEF seqs, places
  <2>3. ASSUME NEW e
        PROVE  e \in Range(places) <=> \E k \in DOMAIN keywords : \E o \in occ[keywords[k]] : e = PlaceOf(o)
    BY <1>3, <2>1, <2>2
  <2>4. ASSUME NEW e
        PROVE  e \in UNION {{PlaceOf(o) : o \in occ[a]} : a \in Range(keywords)}
                 <=> \E k \in DOMAIN keywords : \E o \in occ[keywords[k]] : e = PlaceOf(o)
    <3>1. e \in UNION {{PlaceOf(o) : o \in occ[a]} : a \in Range(keywords)}
            <=> \E a \in Range(keywords) : \E o \in occ[a] : e = PlaceOf(o)
      OBVIOUS
    <3>2. \A a : a \in Range(keywords) <=> \E k \in DOMAIN keywords : a = keywords[k]
      BY DEF Range
    <3> QED
      BY <3>1, <3>2, ZenonT(30)
  <2> DEFINE A == Range(places)
             B == UNION {{PlaceOf(o) : o \in occ[a]} : a \in Range(keywords)}
  <2>5. \A e : e \in A <=> e \in B
    BY <2>3, <2>4
  <2> HIDE DEF A, B
  <2>6. A = B
    BY <2>5
  <2> QED
    BY <2>6 DEF A, B
<1>5. Merge(t, keywords) = merged[m]
  BY DEF Merge
<1> HIDE DEF places
<1>6. /\ m \in Nat /\ DOMAIN places = 1..m
      /\ \A n \in 1..m : /\ places[n] = [path |-> places[n].path, line |-> places[n].line]
                         /\ places[n].path \in Nat /\ places[n].line \in Nat
  <2>1. m \in Nat /\ DOMAIN places = 1..m /\ \A n \in 1..m : places[n] \in Place
    BY <1>3
  <2> QED
    BY <2>1 DEF Place
<1> HIDE DEF m
<1>7. ASSUME NEW n \in 1..m, NEW g \in S PROVE next(n, g) \in S
  BY <1>6, UpdateType
<1> DEFINE o(n) == <<places[n].path, places[n].line, n>>
           Taken(n) == {o(i) : i \in 1..n}
           Good(n) == Summarises(merged[n], Taken(n)) /\ IsFiniteSet(Taken(n))
<1>8. ASSUME NEW n \in 1..m, NEW g, NEW c, IsFiniteSet(c), o(n) \notin c, Summarises(g, c)
      PROVE  Summarises(next(n, g), c \cup {o(n)})
  <2> DEFINE x == o(n)
  <2>1. x \notin c /\ x[1] \in Nat /\ x[2] \in Nat
    BY <1>6, <1>8
  <2>2. next(n, g) = UpdatePostings(g, x[1], x[2])
    OBVIOUS
  <2> HIDE DEF x, next
  <2>3. Summarises(UpdatePostings(g, x[1], x[2]), c \cup {x})
    BY <1>8, <2>1, UpdateSummarises
  <2> QED
    BY <2>2, <2>3 DEF x
<1> HIDE DEF next
<1>9. merged = F(merged)
  <2>1. step \in [(1..m) \X S -> S]
    BY <1>7
  <2> HIDE DEF step, S
  <2>2. <<>> \in S
    BY DEF S
  <2>3. PICK h : Iterates(h, m, S, <<>>, step)
    BY <1>6, <2>1, <2>2, RecursiveFunction
  <2>4. h \in [0..m -> S] /\ h[0] = <<>>
    BY <2>3 DEF Iterates
  <2>5. ASSUME NEW n \in 0..m PROVE h[n] = IF n = 0 THEN <<>> ELSE next(n, h[n - 1])
    <3>1. CASE n = 0
      BY <2>4, <3>1
    <3>2. CASE n # 0
      <4>1. n - 1 \in 0..(m - 1) /\ n - 1 \in 0..m /\ n - 1 + 1 = n /\ n \in 1..m
        BY <1>6, <3>2
      <4>2. h[n - 1 + 1] = step[<<n - 1 + 1, h[n - 1]>>]
        BY <2>3, <4>1 DEF Iterates
      <4>3. h[n] = step[<<n, h[n - 1]>>]
        BY <4>1, <4>2, Zenon
      <4>4. h[n - 1] \in S
        BY <2>4, <4>1
      <4>5. step[<<n, h[n - 1]>>] = next(n, h[n - 1])
        BY <4>1, <4>4 DEF step
      <4> QED
        BY <3>2, <4>3, <4>5
    <3> QED
      BY <3>1, <3>2
  <2>6. h = F(h)
    BY <2>4, <2>5
  <2> HIDE DEF F
  <2> QED
    BY <2>6
<1> HIDE DEF merged
<1>10. merged[0] = <<>>
  BY <1>6, <1>9
<1>11. ASSUME NEW n \in 0..(m - 1) PROVE merged[n + 1] = next(n + 1, merged[n])
  <2>1. n + 1 \in 0..m /\ n + 1 # 0 /\ n + 1 - 1 = n
    BY <1>6
  <2>2. merged[n + 1] = F(merged)[n + 1]
    BY <1>9, Zenon
  <2>3. F(merged)[n + 1] = next(n + 1, merged[n + 1 - 1])
    BY <2>1
  <2> QED
    BY <2>1, <2>2, <2>3, Zenon
<1>12. Good(0)
  <2>1. Taken(0) = {}
    OBVIOUS
  <2> HIDE DEF Taken
  <2> QED
    BY <1>10, <2>1, EmptySummarises, FS_EmptySet
<1>13. ASSUME NEW n \in 0..(m - 1), Good(n) PROVE Good(n + 1)
  <2>1. n + 1 \in 1..m
    BY <1>6
  <2>2. Taken(n + 1) = Taken(n) \cup {o(n + 1)}
    <3>1. 1..(n + 1) = (1..n) \cup {n + 1}
      OBVIOUS
    <3> QED
      BY <3>1
  <2>3. o(n + 1) \notin Taken(n)
    OBVIOUS
  <2> HIDE DEF Taken, o
  <2>4. Summarises(next(n + 1, merged[n]), Taken(n) \cup {o(n + 1)})
    BY <1>8, <1>13, <2>1, <2>3
  <2>5. IsFiniteSet(Taken(n) \cup {o(n + 1)})
    BY <1>13, FS_AddElement
  <2> QED
    BY <1>11, <2>2, <2>4, <2>5
<1>14. Good(m)
  <2> DEFINE T == {n \in 0..m : Good(n)}
  <2> HIDE DEF Good
  <2>1. 0 \in T /\ \A n \in 0..(m - 1) : n \in T => n + 1 \in T
    BY <1>6, <1>12, <1>13
  <2>2. 0..m \subseteq T
    <3> HIDE DEF T
    <3> QED
      BY <1>6, <2>1, InductionUpTo
  <2> QED
    BY <1>6, <2>2
<1>15. {PlaceOf(x) : x \in Taken(m)} = Range(places)
  <2>1. \A n \in 1..m : PlaceOf(o(n)) = places[n]
    BY <1>6 DEF PlaceOf
  <2>2. {PlaceOf(x) : x \in Taken(m)} = {PlaceOf(o(n)) : n \in 1..m}
    <3> HIDE DEF o
    <3> QED
      OBVIOUS
  <2> HIDE DEF o, Taken
  <2>3. {PlaceOf(o(n)) : n \in 1..m} = {places[n] : n \in 1..m}
    BY <2>1
  <2> QED
    BY <1>6, <2>2, <2>3 DEF Range
<1> HIDE DEF Taken
<1> QED
  BY <1>4, <1>5, <1>14, <1>15 DEF Merges

-----------------------------------------------------------------------------
(* What a worker answers *)

(* The occurrences of a word in a file that the worker has listed.         *)
LEMMA OccurrencesTagged ==
  ASSUME IndexTyping, NEW w \in Workers, Listed(w), NEW f \in Range(fileList[w]), NEW a
  PROVE  /\ f \in Nat /\ content[f] \in Texts
         /\ content[f].lines \in Seq(Seq(Words))
         /\ IsFiniteSet(At(content[f].lines, a))
         /\ Cardinality(OccurrencesOf(f, content[f].lines, a)) = Count(f, a)
         /\ Count(f, a) \in Nat
         /\ In(OccurrencesIn(Range(fileList[w]), a), f) = OccurrencesOf(f, content[f].lines, a)
<1>1. content[f] \in Texts /\ content[f].lines \in Seq(Seq(Words))
  BY DEF Listed, Texts
<1>2. f \in Nat
  BY DEF IndexTyping, Range
<1> DEFINE lines == content[f].lines
           Q == At(lines, a)
<1>3. IsFiniteSet(Positions(lines))
  BY <1>1, OccurrencesFacts
<1>4. Q \in SUBSET Positions(lines)
  BY DEF At
<1>5. IsFiniteSet(Q)
  <2> HIDE DEF Q
  <2> QED
    BY <1>3, <1>4, FS_Subset
<1>6. \A p \in Q : p = <<p[1], p[2]>>
  <2>1. \A p \in Positions(lines) : p = <<p[1], p[2]>>
    <3> HIDE DEF lines
    <3> QED
      BY PositionsArePairs
  <2> QED
    BY <1>4, <2>1
<1>7. Cardinality(Tagged(f, Q)) = Cardinality(Q) /\ Cardinality(Q) \in Nat
  <2> HIDE DEF Q
  <2> QED
    BY <1>5, <1>6, TaggedFacts, FS_CardinalityType
<1>8. Count(f, a) = Cardinality(Q)
  BY DEF Count, At
<1>9. In(OccurrencesIn(Range(fileList[w]), a), f) = OccurrencesOf(f, lines, a)
  <2> DEFINE Of(g) == OccurrencesOf(g, content[g].lines, a)
  <2>1. \A g : \A x \in Of(g) : x[1] = g
    BY DEF OccurrencesOf, Tagged
  <2>2. OccurrencesIn(Range(fileList[w]), a) = UNION {Of(g) : g \in Range(fileList[w])}
    BY DEF OccurrencesIn
  <2> HIDE DEF Of
  <2>3. In(OccurrencesIn(Range(fileList[w]), a), f) = Of(f)
    BY <2>1, <2>2 DEF In
  <2> QED
    BY <2>3 DEF Of
<1> QED
  BY <1>1, <1>2, <1>5, <1>7, <1>8, <1>9 DEF OccurrencesOf

(* What a worker answers to /search: the lines of its files with a         *)
(* keyword, each once and in the order of the files and the lines.         *)
LEMMA SearchAnswerFacts ==
  ASSUME IndexTyping, NEW w \in Workers, Listed(w), Indexed(w), NEW keywords \in Seq(Words)
  PROVE  LET ans == SearchAnswer(w, keywords)
         IN  /\ \A i, j \in DOMAIN ans : i < j => Before(ans[i], ans[j])
             /\ Range(ans) = UNION {Hits(f, Range(keywords)) : f \in Range(fileList[w])}
<1> DEFINE files == Range(fileList[w])
           occ == [a \in Words |-> OccurrencesIn(files, a)]
           list == Merge(trie[w], keywords)
           places == Places(list)
           line(x) == [file |-> x.path, line |-> x.line, text |-> content[x.path].lines[x.line]]
           ans == SearchAnswer(w, keywords)
<1>1. trie[w] \in [Words -> Seq(Posting)] /\ \A a \in Words : Summarises(trie[w][a], occ[a])
  BY DEF IndexTyping, Indexed
<1>2. PICK c : /\ Summarises(list, c)
               /\ {PlaceOf(o) : o \in c}
                     = UNION {{PlaceOf(o) : o \in occ[a]} : a \in Range(keywords)}
  <2> DEFINE t == trie[w]
  <2>1. t \in [Words -> Seq(Posting)] /\ \A a \in Words : Summarises(t[a], occ[a])
    BY <1>1
  <2> HIDE DEF occ, t
  <2>2. Merges(Merge(t, keywords), keywords, occ)
    BY <2>1, MergeSummarises
  <2> QED
    BY <2>2 DEF t, Merges
<1> HIDE DEF list
<1>3. /\ places \in Seq(Place)
      /\ Range(places) = {PlaceOf(o) : o \in c}
      /\ \A i, j \in DOMAIN places : i < j => Ahead(places[i], places[j])
  BY <1>2, PlacesFacts
<1>4. Range(keywords) \subseteq Words
  BY DEF Range
<1>5. ASSUME NEW x
      PROVE  x \in Range(places)
               <=> \E f \in files : \E n \in DOMAIN content[f].lines :
                     /\ x = [path |-> f, line |-> n]
                     /\ Range(content[f].lines[n]) \cap Range(keywords) # {}
  <2>1. x \in Range(places) <=> \E a \in Range(keywords) : \E o \in occ[a] : x = PlaceOf(o)
    <3> HIDE DEF occ, places
    <3>1. Range(places) = UNION {{PlaceOf(o) : o \in occ[a]} : a \in Range(keywords)}
      BY <1>2, <1>3
    <3> QED
      BY <3>1
  <2>2. ASSUME NEW a \in Range(keywords), NEW o \in occ[a], x = PlaceOf(o)
        PROVE  \E f \in files : \E n \in DOMAIN content[f].lines :
                     /\ x = [path |-> f, line |-> n]
                     /\ Range(content[f].lines[n]) \cap Range(keywords) # {}
    <3>1. o \in OccurrencesIn(files, a)
      BY <1>4, <2>2
    <3>2. PICK f \in files : o \in OccurrencesOf(f, content[f].lines, a)
      BY <3>1 DEF OccurrencesIn
    <3>3. PICK p \in At(content[f].lines, a) : o = <<f, p[1], p[2]>>
      BY <3>2 DEF OccurrencesOf, Tagged
    <3>4. p \in Positions(content[f].lines) /\ content[f].lines[p[1]][p[2]] = a
      BY <3>3 DEF At
    <3>5. p[1] \in DOMAIN content[f].lines /\ p[2] \in DOMAIN content[f].lines[p[1]]
      BY <3>4, PositionsArePairs
    <3>6. a \in Range(content[f].lines[p[1]])
      BY <3>4, <3>5 DEF Range
    <3>7. x = [path |-> f, line |-> p[1]]
      BY <2>2, <3>3 DEF PlaceOf
    <3> QED
      BY <3>5, <3>6, <3>7
  <2>3. ASSUME NEW f \in files, NEW n \in DOMAIN content[f].lines, x = [path |-> f, line |-> n],
               Range(content[f].lines[n]) \cap Range(keywords) # {}
        PROVE  \E a \in Range(keywords) : \E o \in occ[a] : x = PlaceOf(o)
    <3>1. PICK a \in Range(keywords) : a \in Range(content[f].lines[n])
      BY <2>3
    <3>2. PICK i \in DOMAIN content[f].lines[n] : content[f].lines[n][i] = a
      BY <3>1 DEF Range
    <3>3. <<n, i>> \in At(content[f].lines, a)
      BY <3>2, InPositions DEF At
    <3>4. <<f, n, i>> \in OccurrencesOf(f, content[f].lines, a)
      BY <3>3 DEF OccurrencesOf, Tagged
    <3>5. <<f, n, i>> \in occ[a]
      BY <1>4, <3>1, <3>4 DEF OccurrencesIn
    <3>6. x = PlaceOf(<<f, n, i>>)
      BY <2>3 DEF PlaceOf
    <3> QED
      BY <3>5, <3>6
  <2> QED
    BY <2>1, <2>2, <2>3
<1>6. DOMAIN ans = DOMAIN places
  BY DEF SearchAnswer, list
<1>7. ASSUME NEW i \in DOMAIN places
      PROVE  /\ ans[i] = line(places[i])
             /\ ans[i].file = places[i].path /\ ans[i].line = places[i].line
  <2>1. places[i] \in Range(places)
    BY DEF Range
  <2>2. PICK f \in files : \E n \in DOMAIN content[f].lines : places[i] = [path |-> f, line |-> n]
    BY <1>5, <2>1
  <2>3. places[i].path \in files
    BY <2>2
  <2>4. ans[i] = [file |-> places[i].path, line |-> places[i].line,
                  text |-> FileContents(w, places[i].path)[places[i].line]]
    BY DEF SearchAnswer, list
  <2> HIDE DEF places, ans
  <2>5. ans[i] = line(places[i])
    BY <2>3, <2>4 DEF FileContents
  <2> QED
    BY <2>5
<1> HIDE DEF places, ans
<1>8. ASSUME NEW i \in DOMAIN ans, NEW j \in DOMAIN ans, i < j PROVE Before(ans[i], ans[j])
  <2>1. Ahead(places[i], places[j])
    BY <1>3, <1>6, <1>8
  <2> QED
    BY <1>6, <1>7, <2>1 DEF Ahead, Before
<1>9. ASSUME NEW r
      PROVE  r \in Range(ans) <=> \E f \in files : r \in Hits(f, Range(keywords))
  <2>1. r \in Range(ans) <=> \E i \in DOMAIN places : r = line(places[i])
    <3> HIDE DEF line
    <3> QED
      BY <1>6, <1>7 DEF Range
  <2>2. r \in Range(ans) <=> \E x \in Range(places) : r = line(x)
    <3> HIDE DEF line
    <3> QED
      BY <2>1 DEF Range
  <2>3. ASSUME NEW f \in files
        PROVE  r \in Hits(f, Range(keywords))
                 <=> \E n \in DOMAIN content[f].lines :
                       /\ Range(content[f].lines[n]) \cap Range(keywords) # {}
                       /\ r = line([path |-> f, line |-> n])
    BY DEF Hits
  <2> HIDE DEF line, files
  <2> QED
    BY <1>5, <2>2, <2>3
<1>10. Range(ans) = UNION {Hits(f, Range(keywords)) : f \in files}
  <2> DEFINE A == Range(ans)
             B == UNION {Hits(f, Range(keywords)) : f \in files}
  <2>1. \A r : r \in A <=> r \in B
    <3>1. \A r : r \in B <=> \E f \in files : r \in Hits(f, Range(keywords))
      OBVIOUS
    <3> QED
      BY <1>9, <3>1
  <2> HIDE DEF A, B
  <2>2. A = B
    BY <2>1
  <2> QED
    BY <2>2 DEF A, B
<1> QED
  BY <1>8, <1>10 DEF ans

(* The frequencies in the list of a word are the counts in the files.      *)
LEMMA PostingCounts ==
  ASSUME IndexTyping, NEW w \in Workers, Listed(w), Indexed(w), NEW a \in Words
  PROVE  /\ trie[w][a] \in Seq(Posting)
         /\ \A i \in DOMAIN trie[w][a] :
              /\ trie[w][a][i].path \in Range(fileList[w])
              /\ trie[w][a][i].frequency = Count(trie[w][a][i].path, a)
              /\ Count(trie[w][a][i].path, a) > 0
         /\ \A f \in Range(fileList[w]) :
              Count(f, a) > 0 => \E i \in DOMAIN trie[w][a] : trie[w][a][i].path = f
<1> DEFINE list == trie[w][a]
           files == Range(fileList[w])
           occ == OccurrencesIn(files, a)
<1>1. Summarises(list, occ)
  BY DEF Indexed
<1>2. /\ list \in Seq(Posting)
      /\ Range(PathsOf(list)) = {o[1] : o \in occ}
      /\ \A i \in DOMAIN list : Entry(list[i], occ)
  BY <1>1 DEF Summarises
<1>3. ASSUME NEW f \in files
      PROVE  /\ In(occ, f) = OccurrencesOf(f, content[f].lines, a)
             /\ Cardinality(In(occ, f)) = Count(f, a) /\ Count(f, a) \in Nat
             /\ IsFiniteSet(In(occ, f))
  <2>1. /\ In(occ, f) = OccurrencesOf(f, content[f].lines, a)
        /\ Cardinality(OccurrencesOf(f, content[f].lines, a)) = Count(f, a)
        /\ Count(f, a) \in Nat /\ IsFiniteSet(At(content[f].lines, a))
    BY OccurrencesTagged
  <2>2. \A p \in At(content[f].lines, a) : p = <<p[1], p[2]>>
    BY PositionsArePairs DEF At
  <2>3. IsFiniteSet(OccurrencesOf(f, content[f].lines, a))
    BY <2>1, <2>2, TaggedFacts DEF OccurrencesOf
  <2> QED
    BY <2>1, <2>3
<1>4. \A o \in occ : o[1] \in files
  BY DEF OccurrencesIn, OccurrencesOf, Tagged
<1> HIDE DEF list, files, occ
<1>5. \A i \in DOMAIN list : PathsOf(list)[i] = list[i].path /\ i \in DOMAIN PathsOf(list)
  BY <1>2, PathsOfFacts
<1>6. ASSUME NEW i \in DOMAIN list
      PROVE  /\ list[i].path \in files /\ list[i].frequency = Count(list[i].path, a)
             /\ Count(list[i].path, a) > 0
  <2> DEFINE f == list[i].path
  <2>1. f \in {o[1] : o \in occ}
    <3>1. f \in Range(PathsOf(list))
      BY <1>5 DEF Range
    <3> QED
      BY <1>2, <3>1
  <2>2. PICK o \in occ : o[1] = f
    BY <2>1
  <2>3. f \in files
    BY <1>4, <2>2
  <2>4. o \in In(occ, f)
    BY <2>2 DEF In
  <2>5. list[i].frequency = Cardinality(In(occ, f))
    BY <1>2 DEF Entry
  <2> HIDE DEF f
  <2>6. Count(f, a) \in Nat /\ Cardinality(In(occ, f)) = Count(f, a) /\ IsFiniteSet(In(occ, f))
    BY <1>3, <2>3
  <2>7. Count(f, a) # 0
    <3>1. Cardinality(In(occ, f)) # 0
      BY <2>4, <2>6, FS_EmptySet
    <3> QED
      BY <2>6, <3>1
  <2> QED
    BY <2>3, <2>5, <2>6, <2>7 DEF f
<1>7. ASSUME NEW f \in files, Count(f, a) > 0 PROVE \E i \in DOMAIN list : list[i].path = f
  <2>1. In(occ, f) # {}
    <3>1. Cardinality({}) = 0
      BY FS_EmptySet
    <3> QED
      BY <1>3, <1>7, <3>1
  <2>2. f \in {o[1] : o \in occ}
    BY <2>1 DEF In
  <2>3. f \in Range(PathsOf(list))
    BY <1>2, <2>2
  <2>4. PICK i \in DOMAIN PathsOf(list) : f = PathsOf(list)[i]
    BY <2>3 DEF Range
  <2>5. i \in DOMAIN list
    BY <2>4 DEF PathsOf
  <2> QED
    BY <1>5, <2>4, <2>5
<1> QED
  BY <1>2, <1>6, <1>7 DEF list, files

-----------------------------------------------------------------------------
(* The best of the files with the word. *)
Best == [value : Nat, file : Nat]

IsBest(b, files, kind, a) ==
  LET with == {f \in files : Count(f, a) > 0}
  IN  /\ b \in Best
      /\ b.value = 0 <=> with = {}
      /\ b.value > 0 => b.file \in with /\ b.value = Count(b.file, a)
      /\ \A f \in with : /\ IF kind = "maxcount" THEN Count(f, a) <= b.value
                                                 ELSE Count(f, a) >= b.value
                         /\ Count(f, a) = b.value => b.file <= f

(* What a worker answers to /maxcount and /mincount.                       *)
LEMMA WorkerBestFacts ==
  ASSUME IndexTyping, NEW w \in Workers, Listed(w), Indexed(w), NEW a \in Words, NEW kind
  PROVE  IsBest(WorkerBest(w, kind, a), Range(fileList[w]), kind, a)
<1> DEFINE list == trie[w][a]
           m == Len(list)
           files == Range(fileList[w])
           node(i) == [value |-> list[i].frequency, file |-> list[i].path]
           next(i, b) == IF i = 1 \/ Better(kind, node(i).value, node(i).file, b) THEN node(i) ELSE b
           F(g) == [i \in 0..m |-> IF i = 0 THEN NoBest ELSE next(i, g[i - 1])]
           upTo == CHOOSE g : g = F(g)
           step == [x \in (1..m) \X Best |-> next(x[1], x[2])]
<1>1. /\ list \in Seq(Posting)
      /\ \A i \in DOMAIN list : /\ list[i].path \in files
                                /\ list[i].frequency = Count(list[i].path, a)
                                /\ Count(list[i].path, a) > 0
      /\ \A f \in files : Count(f, a) > 0 => \E i \in DOMAIN list : list[i].path = f
  BY PostingCounts
<1>2. WorkerBest(w, kind, a) = upTo[m]
  BY DEF WorkerBest
<1> HIDE DEF list
<1>3. m \in Nat /\ DOMAIN list = 1..m /\ \A i \in 1..m : list[i] \in Posting
  BY <1>1
<1> HIDE DEF m
<1>4. ASSUME NEW i \in 1..m PROVE node(i) \in Best
  BY <1>3 DEF Best, Posting
<1> HIDE DEF node
<1>5. NoBest \in Best
  BY DEF NoBest, Best
<1>6. upTo = F(upTo)
  <2>1. step \in [(1..m) \X Best -> Best]
    BY <1>4
  <2> HIDE DEF step, next
  <2>2. PICK h : Iterates(h, m, Best, NoBest, step)
    BY <1>3, <1>5, <2>1, RecursiveFunction
  <2>3. h \in [0..m -> Best] /\ h[0] = NoBest
    BY <2>2 DEF Iterates
  <2>4. ASSUME NEW i \in 0..m PROVE h[i] = IF i = 0 THEN NoBest ELSE next(i, h[i - 1])
    <3>1. CASE i = 0
      BY <2>3, <3>1
    <3>2. CASE i # 0
      <4>1. i - 1 \in 0..(m - 1) /\ i - 1 \in 0..m /\ i - 1 + 1 = i /\ i \in 1..m
        BY <1>3, <3>2
      <4>2. h[i - 1 + 1] = step[<<i - 1 + 1, h[i - 1]>>]
        BY <2>2, <4>1 DEF Iterates
      <4>3. h[i] = step[<<i, h[i - 1]>>]
        BY <4>1, <4>2, Zenon
      <4>4. h[i - 1] \in Best
        BY <2>3, <4>1
      <4>5. step[<<i, h[i - 1]>>] = next(i, h[i - 1])
        BY <4>1, <4>4 DEF step
      <4> QED
        BY <3>2, <4>3, <4>5
    <3> QED
      BY <3>1, <3>2
  <2>5. h = F(h)
    BY <2>3, <2>4
  <2> HIDE DEF F
  <2> QED
    BY <2>5
<1> HIDE DEF upTo
<1>7. upTo[0] = NoBest
  BY <1>3, <1>6
<1>8. ASSUME NEW i \in 0..(m - 1) PROVE upTo[i + 1] = next(i + 1, upTo[i])
  <2>1. i + 1 \in 0..m /\ i + 1 # 0 /\ i + 1 - 1 = i
    BY <1>3
  <2> HIDE DEF next
  <2>2. upTo[i + 1] = F(upTo)[i + 1]
    BY <1>6, Zenon
  <2>3. F(upTo)[i + 1] = next(i + 1, upTo[i + 1 - 1])
    BY <2>1
  <2> QED
    BY <2>1, <2>2, <2>3, Zenon
<1> DEFINE Good(i) ==
             /\ upTo[i] \in Best
             /\ i > 0 => \E j \in 1..i : upTo[i] = node(j)
             /\ \A j \in 1..i : ~Better(kind, node(j).value, node(j).file, upTo[i])
<1>9. Good(0)
  BY <1>5, <1>7
<1>10. ASSUME NEW i \in 0..(m - 1), Good(i) PROVE Good(i + 1)
  <2> DEFINE b == upTo[i]
             c == upTo[i + 1]
             d == node(i + 1)
  <2>1. i + 1 \in 1..m /\ i \in Nat
    BY <1>3
  <2>2. d \in Best /\ b \in Best
    BY <1>4, <1>10, <2>1
  <2>3. c = IF i + 1 = 1 \/ Better(kind, d.value, d.file, b) THEN d ELSE b
    BY <1>8
  <2>4. \A x \in Best : x.value \in Nat /\ x.file \in Nat
    BY DEF Best
  <2> HIDE DEF c, d, b
  <2>5. ~Better(kind, d.value, d.file, c)
    BY <2>2, <2>3, <2>4 DEF Better
  <2>6. ASSUME NEW j \in 1..i PROVE ~Better(kind, node(j).value, node(j).file, c)
    <3>1. node(j) \in Best /\ i + 1 # 1
      <4>1. j \in 1..m
        BY <1>3, <2>1
      <4> QED
        BY <1>4, <2>1, <4>1
    <3>2. ~Better(kind, node(j).value, node(j).file, b)
      BY <1>10 DEF b
    <3> DEFINE x == node(j)
    <3> HIDE DEF x
    <3>3. x \in Best /\ ~Better(kind, x.value, x.file, b)
      BY <3>1, <3>2 DEF x
    <3>4. ~Better(kind, x.value, x.file, c)
      BY <2>2, <2>3, <2>4, <3>1, <3>3 DEF Better
    <3> QED
      BY <3>4 DEF x
  <2>7. \E j \in 1..(i + 1) : c = node(j)
    <3>1. CASE c = d
      <4>1. i + 1 \in 1..(i + 1)
        BY <2>1
      <4> QED
        BY <3>1, <4>1 DEF d
    <3>2. CASE c # d
      <4>1. c = b /\ i > 0
        BY <2>1, <2>3, <3>2
      <4>2. PICK j \in 1..i : b = node(j)
        BY <1>10, <4>1 DEF b
      <4>3. j \in 1..(i + 1)
        BY <2>1
      <4> QED
        BY <4>1, <4>2, <4>3
    <3> QED
      BY <3>1, <3>2
  <2>8. \A j \in 1..(i + 1) : ~Better(kind, node(j).value, node(j).file, c)
    <3>1. \A j \in 1..(i + 1) : j = i + 1 \/ j \in 1..i
      BY <2>1
    <3> QED
      BY <2>5, <2>6, <3>1 DEF d
  <2> QED
    BY <2>2, <2>3, <2>7, <2>8 DEF c
<1>11. Good(m)
  <2> DEFINE T == {i \in 0..m : Good(i)}
  <2> HIDE DEF Good
  <2>1. 0 \in T /\ \A i \in 0..(m - 1) : i \in T => i + 1 \in T
    BY <1>3, <1>9, <1>10
  <2>2. 0..m \subseteq T
    <3> HIDE DEF T
    <3> QED
      BY <1>3, <2>1, InductionUpTo
  <2> QED
    BY <1>3, <2>2
<1> DEFINE b == upTo[m]
           with == {f \in files : Count(f, a) > 0}
<1>12. ASSUME NEW f \in with PROVE \E j \in 1..m : node(j).value = Count(f, a) /\ node(j).file = f
  <2>1. PICK j \in 1..m : list[j].path = f
    BY <1>1, <1>3
  <2>2. list[j].frequency = Count(f, a)
    BY <1>1, <1>3, <2>1
  <2> QED
    BY <2>1, <2>2 DEF node
<1>13. \A j \in 1..m : /\ node(j).file \in with /\ node(j).value = Count(node(j).file, a)
                       /\ node(j).value > 0
  BY <1>1, <1>3 DEF node
<1>14. b \in Best /\ b.value \in Nat /\ b.file \in Nat
  BY <1>11 DEF Best
<1>15. CASE m = 0
  <2>1. b.value = 0
    BY <1>7, <1>15 DEF NoBest
  <2>2. with = {}
    BY <1>12, <1>15
  <2> HIDE DEF b, with
  <2>3. IsBest(b, files, kind, a)
    BY <1>14, <2>1, <2>2 DEF IsBest, with
  <2> QED
    BY <1>2, <2>3 DEF b
<1>16. CASE m # 0
  <2>1. PICK j \in 1..m : b = node(j)
    BY <1>3, <1>11, <1>16
  <2>2. b.value > 0 /\ b.file \in with /\ b.value = Count(b.file, a)
    BY <1>13, <2>1
  <2>3. ASSUME NEW f \in with
        PROVE  /\ IF kind = "maxcount" THEN Count(f, a) <= b.value ELSE Count(f, a) >= b.value
               /\ Count(f, a) = b.value => b.file <= f
    <3>1. PICK k \in 1..m : node(k).value = Count(f, a) /\ node(k).file = f
      BY <1>12
    <3>2. Count(f, a) \in Nat /\ f \in Nat
      BY <1>4, <3>1 DEF Best
    <3>3. ~Better(kind, Count(f, a), f, b)
      BY <1>11, <3>1
    <3> HIDE DEF b, with
    <3> QED
      BY <1>14, <3>2, <3>3 DEF Better
  <2> HIDE DEF b
  <2>4. IsBest(b, files, kind, a)
    BY <1>14, <2>2, <2>3 DEF IsBest
  <2> QED
    BY <1>2, <2>4 DEF b
<1> QED
  BY <1>15, <1>16

(* What the Job Executor makes of the best so far and that of one more     *)
(* worker.                                                                 *)
LEMMA BestOfBoth ==
  ASSUME NEW kind, NEW a, NEW files, NEW more, NEW b, NEW c,
         files \subseteq Nat, more \subseteq Nat, \A f \in files \cup more : Count(f, a) \in Nat,
         IsBest(b, files, kind, a), IsBest(c, more, kind, a)
  PROVE  IsBest(IF c.value > 0 /\ (b.value = 0 \/ Better(kind, c.value, c.file, b)) THEN c ELSE b,
                files \cup more, kind, a)
<1> DEFINE d == IF c.value > 0 /\ (b.value = 0 \/ Better(kind, c.value, c.file, b)) THEN c ELSE b
           with(fs) == {f \in fs : Count(f, a) > 0}
<1>1. with(files \cup more) = with(files) \cup with(more)
  OBVIOUS
<1>2. /\ b \in Best /\ c \in Best /\ b.value \in Nat /\ c.value \in Nat /\ b.file \in Nat /\ c.file \in Nat
      /\ b.value = 0 <=> with(files) = {}
      /\ c.value = 0 <=> with(more) = {}
      /\ b.value > 0 => b.file \in with(files) /\ b.value = Count(b.file, a)
      /\ c.value > 0 => c.file \in with(more) /\ c.value = Count(c.file, a)
  BY DEF IsBest, Best
<1>3. /\ \A f \in with(files) :
           /\ IF kind = "maxcount" THEN Count(f, a) <= b.value ELSE Count(f, a) >= b.value
           /\ Count(f, a) = b.value => b.file <= f
      /\ \A f \in with(more) :
           /\ IF kind = "maxcount" THEN Count(f, a) <= c.value ELSE Count(f, a) >= c.value
           /\ Count(f, a) = c.value => c.file <= f
  BY DEF IsBest
<1>4. \A f \in with(files \cup more) : f \in Nat /\ Count(f, a) \in Nat
  OBVIOUS
<1> HIDE DEF with
<1>5. d \in Best /\ (d.value = 0 <=> with(files \cup more) = {})
  BY <1>1, <1>2
<1>6. d.value > 0 => d.file \in with(files \cup more) /\ d.value = Count(d.file, a)
  BY <1>1, <1>2
<1>7. ASSUME NEW f \in with(files \cup more)
      PROVE  /\ IF kind = "maxcount" THEN Count(f, a) <= d.value ELSE Count(f, a) >= d.value
             /\ Count(f, a) = d.value => d.file <= f
  <2>1. f \in Nat /\ Count(f, a) \in Nat
    BY <1>4
  <2> DEFINE n == Count(f, a)
  <2>2. CASE f \in with(files)
    <3>1. b.value > 0
      BY <1>2, <2>2
    <3>2. /\ IF kind = "maxcount" THEN n <= b.value ELSE n >= b.value
          /\ n = b.value => b.file <= f
      BY <1>3, <2>2
    <3> HIDE DEF n
    <3> QED
      BY <1>2, <2>1, <3>1, <3>2 DEF Better, n
  <2>3. CASE f \in with(more)
    <3>1. c.value > 0
      BY <1>2, <2>3
    <3>2. /\ IF kind = "maxcount" THEN n <= c.value ELSE n >= c.value
          /\ n = c.value => c.file <= f
      BY <1>3, <2>3
    <3> HIDE DEF n
    <3> QED
      BY <1>2, <2>1, <3>1, <3>2 DEF Better, n
  <2> QED
    BY <1>1, <2>2, <2>3
<1> HIDE DEF d
<1>8. IsBest(d, files \cup more, kind, a)
  BY <1>5, <1>6, <1>7 DEF IsBest, with
<1> QED
  BY <1>8 DEF d

-----------------------------------------------------------------------------
(* The totals *)

(* A finite union of finite sets.                                          *)
LEMMA UnionFinite ==
  ASSUME NEW A, IsFiniteSet(A), NEW g, \A f \in A : IsFiniteSet(g[f])
  PROVE  IsFiniteSet(UNION {g[f] : f \in A})
<1> DEFINE T == {g[f] : f \in A}
           h == [f \in A |-> g[f]]
<1>1. h \in Surjection(A, T)
  BY DEF Surjection
<1>2. \A x \in T : IsFiniteSet(x)
  OBVIOUS
<1> HIDE DEF T, h
<1>3. IsFiniteSet(T)
  BY <1>1, FS_Surjection
<1>4. IsFiniteSet(UNION T)
  BY <1>2, <1>3, FS_UNION
<1> QED
  BY <1>4 DEF T

Labelled(files, X) == UNION {{f} \X X[f] : f \in files}

(* Labelled sets of finitely many files.                                   *)
LEMMA LabelledFinite ==
  ASSUME NEW A, IsFiniteSet(A), NEW X, \A f \in A : IsFiniteSet(X[f])
  PROVE  IsFiniteSet(Labelled(A, X)) /\ Cardinality(Labelled(A, X)) \in Nat
<1> DEFINE g == [f \in A |-> {f} \X X[f]]
<1>1. ASSUME NEW f \in A PROVE IsFiniteSet(g[f])
  <2>1. IsFiniteSet({f}) /\ IsFiniteSet(X[f])
    BY FS_Singleton
  <2>2. IsFiniteSet({f} \X X[f])
    BY <2>1, FS_Product
  <2> QED
    BY <2>2
<1>2. Labelled(A, X) = UNION {g[f] : f \in A}
  BY DEF Labelled
<1> HIDE DEF g
<1>3. IsFiniteSet(UNION {g[f] : f \in A})
  BY <1>1, UnionFinite
<1> QED
  BY <1>2, <1>3, FS_CardinalityType

(* Labelled sets of different files have nothing in common.                *)
LEMMA LabelledUnion ==
  ASSUME NEW A, IsFiniteSet(A), NEW B, IsFiniteSet(B), A \cap B = {},
         NEW X, \A f \in A \cup B : IsFiniteSet(X[f])
  PROVE  Cardinality(Labelled(A \cup B, X)) = Cardinality(Labelled(A, X)) + Cardinality(Labelled(B, X))
<1> DEFINE S == Labelled(A, X)
           T == Labelled(B, X)
<1>1. IsFiniteSet(S) /\ IsFiniteSet(T) /\ Cardinality(S) \in Nat /\ Cardinality(T) \in Nat
  BY LabelledFinite
<1>2. Labelled(A \cup B, X) = S \cup T
  BY DEF Labelled
<1>3. S \cap T = {}
  BY DEF Labelled
<1> HIDE DEF S, T
<1>4. Cardinality(S \cup T) = Cardinality(S) + Cardinality(T) - Cardinality(S \cap T)
  BY <1>1, FS_Union
<1>5. Cardinality(S \cap T) = 0
  BY <1>3, FS_EmptySet
<1>6. Cardinality(S \cup T) = Cardinality(S) + Cardinality(T)
  BY <1>1, <1>4, <1>5
<1> QED
  BY <1>2, <1>6, Zenon DEF S, T

(* Totals counts the lines and the words, labelled with their files.       *)
LEMMA TotalsLabelled ==
  ASSUME NEW more, NEW files, files \subseteq more
  PROVE  Totals(files) =
           [words |-> Cardinality(Labelled(files, [f \in more |-> Positions(content[f].lines)])),
            lines |-> Cardinality(Labelled(files, [f \in more |-> DOMAIN content[f].lines]))]
<1>1. Labelled(files, [f \in more |-> Positions(content[f].lines)])
        = UNION {{f} \X Positions(content[f].lines) : f \in files}
  BY DEF Labelled
<1>2. Labelled(files, [f \in more |-> DOMAIN content[f].lines])
        = UNION {{f} \X DOMAIN content[f].lines : f \in files}
  BY DEF Labelled
<1> QED
  BY <1>1, <1>2 DEF Totals

IsText(f) == content[f].lines \in Seq(Seq(Words))

(* The totals of files that are read one after the other are added up.     *)
LEMMA TotalsUnion ==
  ASSUME NEW A, IsFiniteSet(A), NEW B, IsFiniteSet(B), A \cap B = {},
         \A f \in A \cup B : IsText(f)
  PROVE  /\ Totals(A \cup B) = Plus(Totals(A), Totals(B))
         /\ Totals(A) \in [words : Nat, lines : Nat]
<1> DEFINE C == A \cup B
           X == [f \in C |-> Positions(content[f].lines)]
           Y == [f \in C |-> DOMAIN content[f].lines]
<1>1. ASSUME NEW f \in C PROVE IsFiniteSet(X[f]) /\ IsFiniteSet(Y[f])
  <2> DEFINE lines == content[f].lines
  <2>1. lines \in Seq(Seq(Words))
    BY DEF IsText
  <2> HIDE DEF lines
  <2>2. IsFiniteSet(Positions(lines))
    BY <2>1, OccurrencesFacts
  <2> DEFINE l == Len(lines)
  <2>3. DOMAIN lines = 1..l /\ l \in Int /\ 1 \in Int
    BY <2>1
  <2> HIDE DEF l
  <2>4. IsFiniteSet(1..l)
    BY <2>3, FS_Interval
  <2> QED
    BY <2>2, <2>3, <2>4 DEF lines
<1> HIDE DEF C
<1>2. /\ Totals(C) = [words |-> Cardinality(Labelled(C, X)), lines |-> Cardinality(Labelled(C, Y))]
      /\ Totals(A) = [words |-> Cardinality(Labelled(A, X)), lines |-> Cardinality(Labelled(A, Y))]
      /\ Totals(B) = [words |-> Cardinality(Labelled(B, X)), lines |-> Cardinality(Labelled(B, Y))]
  <2>1. A \subseteq C /\ B \subseteq C
    BY DEF C
  <2> QED
    BY <2>1, TotalsLabelled
<1> HIDE DEF X, Y
<1>3. /\ Cardinality(Labelled(C, X)) = Cardinality(Labelled(A, X)) + Cardinality(Labelled(B, X))
      /\ Cardinality(Labelled(C, Y)) = Cardinality(Labelled(A, Y)) + Cardinality(Labelled(B, Y))
  BY <1>1, LabelledUnion DEF C
<1>4. Cardinality(Labelled(A, X)) \in Nat /\ Cardinality(Labelled(A, Y)) \in Nat
  BY <1>1, LabelledFinite DEF C
<1>5. Totals(C) = Plus(Totals(A), Totals(B)) /\ Totals(A) \in [words : Nat, lines : Nat]
  BY <1>2, <1>3, <1>4 DEF Plus
<1> QED
  BY <1>5 DEF C

(* No files, no totals.                                                    *)
LEMMA TotalsEmpty == Totals({}) = None
<1>1. /\ UNION {{f} \X Positions(content[f].lines) : f \in {}} = {}
      /\ UNION {{f} \X DOMAIN content[f].lines : f \in {}} = {}
  OBVIOUS
<1> QED
  BY <1>1, FS_EmptySet DEF Totals, None

(* What the worker counts while it reads one file.                         *)
LEMMA TotalsOfOne ==
  ASSUME NEW f, IsText(f)
  PROVE  Totals({f}) = [words |-> Len(Occurrences(content[f].lines)), lines |-> Len(content[f].lines)]
<1> DEFINE lines == content[f].lines
           l == Len(lines)
           P == Positions(lines)
           D == DOMAIN lines
<1>1. lines \in Seq(Seq(Words))
  BY DEF IsText
<1>2. UNION {{g} \X Positions(content[g].lines) : g \in {f}} = {f} \X P
  OBVIOUS
<1>3. UNION {{g} \X DOMAIN content[g].lines : g \in {f}} = {f} \X D
  OBVIOUS
<1>4. Totals({f}) = [words |-> Cardinality({f} \X P), lines |-> Cardinality({f} \X D)]
  BY <1>2, <1>3 DEF Totals
<1> HIDE DEF lines
<1>5. IsFiniteSet(P) /\ Cardinality(P) \in Nat /\ Cardinality(P) = Len(Occurrences(lines))
  BY <1>1, OccurrencesFacts
<1>6. D = 1..l /\ l \in Nat /\ l \in Int /\ 1 \in Int
  BY <1>1
<1> HIDE DEF P, D, l
<1>7. IsFiniteSet(1..l) /\ Cardinality(1..l) = IF 1 > l THEN 0 ELSE l - 1 + 1
  BY <1>6, FS_Interval
<1>8. IsFiniteSet(D) /\ Cardinality(D) = l
  BY <1>6, <1>7
<1>9. IsFiniteSet({f}) /\ Cardinality({f}) = 1
  BY FS_Singleton
<1>10. /\ Cardinality({f} \X P) = Cardinality({f}) * Cardinality(P)
       /\ Cardinality({f} \X D) = Cardinality({f}) * Cardinality(D)
  BY <1>5, <1>8, <1>9, FS_Product
<1>11. Cardinality({f} \X P) = Len(Occurrences(lines)) /\ Cardinality({f} \X D) = l
  BY <1>5, <1>6, <1>8, <1>9, <1>10
<1> QED
  BY <1>4, <1>11 DEF lines, l

-----------------------------------------------------------------------------
(* The steps of a worker *)

(* addFileNode adds the file and loses none.                               *)
LEMMA AddFileNodeFacts ==
  ASSUME NEW list \in Seq(Nat), NEW f \in Nat
  PROVE  AddFileNode(list, f) \in Seq(Nat) /\ Range(AddFileNode(list, f)) = Range(list) \cup {f}
<1> DEFINE k == Walk(list, f)
           N == Nat
           r == InsertAt(list, k + 1, f)
<1>1. k \in 0..Len(list)
  BY WalkFacts
<1>2. list \in Seq(N) /\ f \in N
  OBVIOUS
<1> HIDE DEF N, k
<1>3. r \in Seq(N) /\ IsInsertion(r, list, k, f)
  BY <1>1, <1>2, InsertAtFacts
<1>4. AddFileNode(list, f) = r
  BY DEF AddFileNode, k
<1> HIDE DEF r
<1>5. Range(r) = Range(list) \cup {f}
  BY <1>1, <1>2, <1>3, InsertionRange
<1> QED
  BY <1>3, <1>4, <1>5 DEF N

(* The directory at the head of what is still to be opened. *)
LEMMA HeadFacts ==
  ASSUME IndexTyping, NEW w \in Workers, InTurn(w), todo[w] # <<>>
  PROVE  LET d == Head(todo[w])
         IN  /\ d \in DOMAIN Files /\ d \in Range(Given[w])
             /\ d \notin Left(w) /\ d \notin gaveUp[w]
             /\ Tail(todo[w]) \in Seq(DOMAIN Files) /\ Distinct(Tail(todo[w]))
             /\ Elements(Tail(todo[w])) = Elements(todo[w]) \ {d}
             /\ Range(Given[w]) \ Elements(Tail(todo[w])) = Left(w) \cup {d}
             /\ Files[d] \subseteq Paths
             /\ ClosedFiles(w) \cap Files[d] = {}
             /\ (UNION {Files[e] : e \in Left(w)}) \cap Files[d] = {}
<1> DEFINE d == Head(todo[w])
           q == todo[w]
<1>1. q \in Seq(DOMAIN Files) /\ q # <<>> /\ Distinct(q) /\ Elements(q) \subseteq Range(Given[w])
      /\ gaveUp[w] \subseteq Range(Given[w]) \ Elements(q)
  BY DEF IndexTyping, InTurn
<1> HIDE DEF q
<1>2. /\ Distinct(Tail(q)) /\ Head(q) \in Elements(q)
      /\ Elements(Tail(q)) = Elements(q) \ {Head(q)}
      /\ Tail(q) \in Seq(DOMAIN Files) /\ Head(q) \in DOMAIN Files
  BY <1>1, TailDistinct, TailFacts
<1>3. /\ d \in DOMAIN Files /\ d \in Range(Given[w]) /\ d \in Elements(q) /\ d \notin Left(w)
      /\ d \notin gaveUp[w]
  BY <1>1, <1>2 DEF Left, q
<1>4. Range(Given[w]) \ Elements(Tail(q)) = Left(w) \cup {d}
  BY <1>1, <1>2, <1>3 DEF Left, q
<1>5. Files[d] \subseteq Paths
  BY <1>3 DEF Paths
<1>6. Left(w) \subseteq DOMAIN Files
  <2>1. Given[w] \in Seq(DOMAIN Files)
    BY IndexAssumption
  <2>2. Range(Given[w]) \subseteq DOMAIN Files
    BY <2>1 DEF Range
  <2> QED
    BY <2>2 DEF Left
<1>7. \A e \in Left(w) : Files[e] \cap Files[d] = {}
  <2>1. \A e \in Left(w) : e \in DOMAIN Files /\ e # d
    BY <1>3, <1>6
  <2>2. \A x, y \in DOMAIN Files : x # y => Files[x] \cap Files[y] = {}
    BY IndexAssumption
  <2> QED
    BY <1>3, <2>1, <2>2
<1> HIDE DEF d
<1>8. ClosedFiles(w) \cap Files[d] = {} /\ (UNION {Files[e] : e \in Left(w)}) \cap Files[d] = {}
  <2> DEFINE U == UNION {Files[e] : e \in Left(w)}
  <2>1. ClosedFiles(w) \subseteq U
    BY DEF ClosedFiles
  <2>2. \A x \in U : x \notin Files[d]
    BY <1>7
  <2> HIDE DEF U
  <2>3. ClosedFiles(w) \cap Files[d] = {} /\ U \cap Files[d] = {}
    BY <2>1, <2>2
  <2> QED
    BY <2>3 DEF U
<1> QED
  BY <1>2, <1>3, <1>4, <1>5, <1>8 DEF d, q

(* There are finitely many files.                                          *)
LEMMA PathsFinite ==
  ASSUME NEW files, files \subseteq Paths
  PROVE  IsFiniteSet(files)
<1>1. IsFiniteSet(Paths) /\ files \in SUBSET Paths
  BY IndexAssumption
<1> QED
  BY <1>1, FS_Subset

(* What is known of the files that a worker counts.                        *)
LEMMA ClosedFacts ==
  ASSUME IndexTyping, NEW w \in Workers, Listed(w), InTurn(w)
  PROVE  /\ ClosedFiles(w) \subseteq Paths /\ IsFiniteSet(ClosedFiles(w))
         /\ ReadOf(w) \subseteq Paths /\ IsFiniteSet(ReadOf(w))
         /\ \A f \in ClosedFiles(w) \cup ReadOf(w) : IsText(f)
<1>1. Range(Given[w]) \subseteq DOMAIN Files
  <2>1. Given[w] \in Seq(DOMAIN Files)
    BY IndexAssumption
  <2> QED
    BY <2>1 DEF Range
<1>2. ClosedFiles(w) \subseteq Paths
  BY <1>1 DEF ClosedFiles, Left, Paths
<1>3. ReadOf(w) \subseteq Paths
  <2>1. CASE Busy(w)
    <3>1. todo[w] # <<>>
      BY <2>1 DEF InTurn
    <3>2. Files[Head(todo[w])] \subseteq Paths
      BY <3>1, HeadFacts
    <3> QED
      BY <3>2 DEF ReadOf
  <2>2. CASE ~Busy(w)
    BY <2>2 DEF ReadOf
  <2> QED
    BY <2>1, <2>2
<1>4. \A f \in ClosedFiles(w) \cup ReadOf(w) : IsText(f)
  BY DEF Listed, Texts, IsText
<1> QED
  BY <1>2, <1>3, <1>4, PathsFinite

(* What the proofs about an action say of the worker that takes it, and of *)
(* the others.                                                             *)
SameFor(v) ==
  /\ content' = content
  /\ pc'[v] = pc[v] /\ todo'[v] = todo[v] /\ entries'[v] = entries[v] /\ trie'[v] = trie[v]
  /\ fileList'[v] = fileList[v] /\ total'[v] = total[v] /\ temp'[v] = temp[v]
  /\ gaveUp'[v] = gaveUp[v]

(* Nothing is said anew of a worker that does not move.                    *)
LEMMA Others ==
  ASSUME NEW v, WorkerInv(v), SameFor(v)
  PROVE  WorkerInv(v)'
<1>1. Busy(v)' <=> Busy(v)
  BY DEF SameFor, Busy
<1>2. InTurn(v)'
  BY <1>1 DEF SameFor, WorkerInv, InTurn
<1>3. ReadOf(v)' = ReadOf(v) /\ ClosedFiles(v)' = ClosedFiles(v) /\ Left(v)' = Left(v)
  BY <1>1 DEF SameFor, ReadOf, ClosedFiles, Left
<1>4. Listed(v)'
  BY <1>3 DEF SameFor, WorkerInv, Listed
<1>5. Totalled(v)'
  BY <1>1, <1>3 DEF SameFor, WorkerInv, Totalled, Totals
<1>6. Indexed(v)'
  BY DEF SameFor, WorkerInv, Indexed, OccurrencesIn
<1> QED
  BY <1>2, <1>4, <1>5, <1>6 DEF WorkerInv

(* The empty trie is the index of no files.                                *)
LEMMA NothingIndexed ==
  ASSUME NEW a
  PROVE  OccurrencesIn({}, a) = {} /\ Summarises(<<>>, OccurrencesIn({}, a))
<1>1. OccurrencesIn({}, a) = {}
  BY DEF OccurrencesIn
<1> QED
  BY <1>1, EmptySummarises

(* No directory is opened and no command is given.                         *)
LEMMA Initially ==
  ASSUME Init
  PROVE  IndexInv
<1>1. Paths \subseteq Nat /\ \A f \in Paths : Contents[f] \subseteq Texts \cup {Directory}
  BY IndexAssumption
<1>2. Given \in [Workers -> Seq(DOMAIN Files)]
  BY IndexAssumption
<1>3. None \in [words : Nat, lines : Nat] /\ NoBest \in [value : Nat, file : Nat]
  BY DEF None, NoBest
<1>4. content \in [Paths -> Texts \cup {Directory}]
  BY <1>1 DEF Init
<1>5. trie \in [Workers -> [Words -> Seq(Posting)]]
  <2>1. <<>> \in Seq(Posting)
    OBVIOUS
  <2> QED
    BY <2>1 DEF Init
<1>6. fileList \in [Workers -> Seq(Nat)]
  BY DEF Init
<1>7. IndexTyping
  BY <1>2, <1>3, <1>4, <1>5, <1>6 DEF Init, IndexTyping
<1>8. ASSUME NEW w \in Workers PROVE WorkerInv(w)
  <2>1. ~Busy(w) /\ todo[w] = Given[w] /\ pc[w] # "ready" /\ gaveUp[w] = {}
    BY DEF Init, Busy
  <2>2. Distinct(Given[w])
    BY IndexAssumption DEF Distinct
  <2>3. Elements(Given[w]) = Range(Given[w])
    BY DEF Elements, Range
  <2>4. InTurn(w)
    BY <2>1, <2>2, <2>3 DEF InTurn
  <2>5. Left(w) = {} /\ ClosedFiles(w) = {} /\ ReadOf(w) = {}
    BY <2>1, <2>3 DEF Left, ClosedFiles, ReadOf
  <2>6. Range(fileList[w]) = {}
    BY DEF Init, Range
  <2>7. Listed(w)
    BY <2>5, <2>6 DEF Listed
  <2>8. Totalled(w)
    BY <2>1, <2>5, TotalsEmpty DEF Totalled, Init
  <2>9. Indexed(w)
    <3>1. \A a \in Words : trie[w][a] = <<>>
      BY DEF Init
    <3> QED
      BY <2>6, <3>1, NothingIndexed DEF Indexed
  <2> QED
    BY <2>4, <2>7, <2>8, <2>9 DEF WorkerInv
<1>9. Answers
  <2>1. collected = {}
    BY DEF Init
  <2>2. SearchExact
    BY <2>1 DEF SearchExact
  <2>3. ASSUME NEW a PROVE BestOf(a)
    <3>1. FilesWith(a) = {} /\ best.value = 0
      BY <2>1 DEF FilesWith, Init, NoBest
    <3> QED
      BY <3>1 DEF BestOf
  <2>4. sum = Totals(UNION {WholeFiles(w) : w \in collected})
    <3>1. UNION {WholeFiles(w) : w \in collected} = {}
      BY <2>1
    <3>2. sum = None
      BY DEF Init
    <3> QED
      BY <3>1, <3>2, TotalsEmpty
  <2> QED
    BY <2>1, <2>2, <2>3, <2>4 DEF Answers
<1> QED
  BY <1>7, <1>8, <1>9 DEF IndexInv, WorkerInv

(* What a step of a worker leaves of the rest.                             *)
LEMMA AnswersStay ==
  ASSUME IndexInv, content' = content, command' = command, collected' = collected,
         best' = best, sum' = sum, found' = found,
         \A v \in collected : /\ pc'[v] = pc[v] /\ fileList'[v] = fileList[v]
                              /\ gaveUp'[v] = gaveUp[v]
  PROVE  Answers'
<1>1. Answers
  BY DEF IndexInv
<1>2. \A w \in collected' : pc'[w] = "ready"
  BY <1>1 DEF Answers
<1>3. SearchExact'
  <2>1. SearchExact
    BY <1>1 DEF Answers
  <2>2. \A w \in collected : WholeFiles(w)' = WholeFiles(w)
    BY DEF WholeFiles, WholeDirs
  <2>3. \A f, k : Hits(f, k)' = Hits(f, k)
    BY DEF Hits
  <2>4. \A k : \A w \in collected :
          (UNION {Hits(f, k) : f \in Range(fileList[w])})' = UNION {Hits(f, k) : f \in Range(fileList[w])}
    BY <2>3
  <2> QED
    BY <2>1, <2>2, <2>3, <2>4 DEF SearchExact
<1>4. ASSUME BestOf(command.word) PROVE BestOf(command.word)'
  <2>1. \A f : Count(f, command.word)' = Count(f, command.word)
    BY DEF Count
  <2>2. FilesWith(command.word)' = FilesWith(command.word)
    BY <2>1 DEF FilesWith
  <2> QED
    BY <1>4, <2>1, <2>2 DEF BestOf
<1>5. Totals(UNION {WholeFiles(w) : w \in collected})'
        = Totals(UNION {WholeFiles(w) : w \in collected})
  <2> DEFINE U == UNION {WholeFiles(w) : w \in collected}
  <2>1. \A w \in collected : WholeFiles(w)' = WholeFiles(w)
    BY DEF WholeFiles, WholeDirs
  <2>2. U' = U
    BY <2>1
  <2> HIDE DEF U
  <2>3. Totals(U)' = Totals(U)
    BY <2>2 DEF Totals
  <2> QED
    BY <2>3 DEF U
<1>6. (command.kind \in {"maxcount", "mincount"} => BestOf(command.word))'
  BY <1>1, <1>4 DEF Answers
<1>7. (command.kind = "wc" => sum = Totals(UNION {WholeFiles(w) : w \in collected}))'
  BY <1>1, <1>5 DEF Answers
<1> QED
  BY <1>2, <1>3, <1>6, <1>7 DEF Answers

(* A step of w that changes nothing else than what is said of w. *)
Changes(w) ==
  /\ content' = content /\ command' = command
  /\ unfinished' = unfinished /\ collected' = collected /\ best' = best /\ sum' = sum /\ found' = found
  /\ \A v \in Workers \ {w} : SameFor(v)
  /\ w \notin collected

(* It is enough to show what is said of the worker that moves.             *)
LEMMA StepOfOne ==
  ASSUME IndexInv, NEW w \in Workers, Changes(w), WorkerInv(w)', IndexTyping'
  PROVE  IndexInv'
<1>1. \A v \in Workers : WorkerInv(v)
  BY DEF IndexInv, WorkerInv
<1>2. \A v \in Workers : WorkerInv(v)'
  <2> SUFFICES ASSUME NEW v \in Workers PROVE WorkerInv(v)'
    OBVIOUS
  <2>1. CASE v = w
    BY <2>1
  <2>2. CASE v # w
    <3>1. SameFor(v)
      BY <2>2 DEF Changes
    <3> QED
      BY <1>1, <3>1, Others
  <2> QED
    BY <2>1, <2>2
<1>3. Answers'
  <2>1. collected \subseteq Workers \ {w}
    BY DEF IndexInv, IndexTyping, Changes
  <2>2. \A v \in collected : /\ pc'[v] = pc[v] /\ fileList'[v] = fileList[v]
                              /\ gaveUp'[v] = gaveUp[v]
    BY <2>1 DEF Changes, SameFor
  <2> QED
    BY <2>2, AnswersStay DEF Changes
<1> QED
  BY <1>2, <1>3 DEF IndexInv, WorkerInv

(* The Job Executor has answers only of workers that are ready.            *)
LEMMA NotCollected ==
  ASSUME IndexInv, NEW w \in Workers, pc[w] # "ready"
  PROVE  w \notin collected
  BY DEF IndexInv, Answers

(* worker.c opens the next directory.                                      *)
LEMMA OpenDirStep ==
  ASSUME IndexInv, NEW w \in Workers, OpenDir(w)
  PROVE  IndexInv'
<1> DEFINE d == Head(todo[w])
<1>1. IndexTyping /\ InTurn(w) /\ Listed(w) /\ Totalled(w) /\ Indexed(w)
  BY DEF IndexInv, WorkerInv
<1>2. Changes(w)
  <2>1. w \notin collected
    BY NotCollected DEF OpenDir
  <2> QED
    BY <1>1, <2>1 DEF OpenDir, Goto, result, Changes, SameFor, IndexTyping
<1>3. todo[w] # <<>> /\ d \in DOMAIN Files /\ Files[d] \subseteq Paths
  <2>1. todo[w] # <<>>
    BY DEF OpenDir
  <2> QED
    BY <1>1, <2>1, HeadFacts
<1> HIDE DEF d
<1>4. /\ pc'[w] = "reading" /\ entries'[w] = Files[d] /\ temp'[w] = None
      /\ UNCHANGED <<content, todo, trie, fileList, total, gaveUp>>
  BY <1>1 DEF OpenDir, Goto, IndexTyping, d
<1>5. IndexTyping'
  BY <1>1, <1>3 DEF OpenDir, Goto, result, IndexTyping, d, None
<1>6. ~Busy(w) /\ Busy(w)'
  BY <1>4 DEF OpenDir, Busy
<1>7. InTurn(w)'
  BY <1>1, <1>3, <1>4 DEF InTurn, d
<1>8. ReadOf(w) = {} /\ ReadOf(w)' = {} /\ Left(w)' = Left(w) /\ ClosedFiles(w)' = ClosedFiles(w)
  BY <1>4, <1>6 DEF ReadOf, Left, ClosedFiles, d
<1>9. Listed(w)'
  BY <1>1, <1>4, <1>8 DEF Listed
<1>10. Totalled(w)'
  <2>1. Totals(ClosedFiles(w))' = Totals(ClosedFiles(w))
    BY <1>4, <1>8 DEF Totals
  <2>2. Totals(ReadOf(w))' = Totals({})
    BY <1>4, <1>8 DEF Totals
  <2> QED
    BY <1>1, <1>4, <2>1, <2>2, TotalsEmpty DEF Totalled
<1>11. Indexed(w)'
  BY <1>1, <1>4 DEF Indexed, OccurrencesIn
<1> QED
  BY <1>2, <1>5, <1>7, <1>9, <1>10, <1>11, StepOfOne DEF WorkerInv

(* The head of todo is given up, from outside of it or while it is read. *)
LEMMA GivesUp ==
  ASSUME IndexTyping, NEW w \in Workers, WorkerInv(w), todo[w] # <<>>,
         content' = content, todo'[w] = Tail(todo[w]),
         gaveUp'[w] = gaveUp[w] \cup {Head(todo[w])}, pc'[w] = "next",
         trie'[w] = trie[w], fileList'[w] = fileList[w], total'[w] = total[w]
  PROVE  WorkerInv(w)'
<1> DEFINE d == Head(todo[w])
<1>1. InTurn(w) /\ Listed(w) /\ Totalled(w) /\ Indexed(w)
  BY DEF WorkerInv
<1>2. /\ d \in Range(Given[w]) /\ d \notin Left(w) /\ d \notin gaveUp[w]
      /\ Distinct(Tail(todo[w])) /\ Elements(Tail(todo[w])) = Elements(todo[w]) \ {d}
      /\ Range(Given[w]) \ Elements(Tail(todo[w])) = Left(w) \cup {d}
  BY <1>1, HeadFacts
<1> HIDE DEF d
<1>3. ~Busy(w)'
  BY DEF Busy
<1>4. gaveUp'[w] = gaveUp[w] \cup {d}
  BY DEF d
<1>5. InTurn(w)'
  BY <1>1, <1>2, <1>3, <1>4 DEF InTurn
<1>6. Left(w)' = Left(w) \cup {d} /\ ReadOf(w)' = {}
  BY <1>2, <1>3 DEF Left, ReadOf
<1>7. ClosedFiles(w)' = ClosedFiles(w)
  <2>1. (Left(w) \ gaveUp[w])' = Left(w) \ gaveUp[w]
    BY <1>2, <1>4, <1>6
  <2> QED
    BY <2>1 DEF ClosedFiles
<1>8. Listed(w)'
  <2>1. ReadOf(w) \subseteq Files[d]
    BY DEF ReadOf, d
  <2>2. Range(fileList[w]) \subseteq (UNION {Files[e] : e \in Left(w)}) \cup ReadOf(w)
    BY <1>1 DEF Listed
  <2>3. Range(fileList[w]) \subseteq UNION {Files[e] : e \in Left(w) \cup {d}}
    BY <2>1, <2>2
  <2>4. (Range(fileList[w]) \subseteq (UNION {Files[e] : e \in Left(w)}) \cup ReadOf(w))'
    BY <1>6, <2>3
  <2> QED
    BY <1>1, <1>6, <1>7, <2>4 DEF Listed
<1>9. Totalled(w)'
  <2>1. Totals(ClosedFiles(w))' = Totals(ClosedFiles(w))
    BY <1>7 DEF Totals
  <2> QED
    BY <1>1, <1>3, <2>1 DEF Totalled
<1>10. Indexed(w)'
  BY <1>1 DEF Indexed, OccurrencesIn
<1> QED
  BY <1>5, <1>8, <1>9, <1>10 DEF WorkerInv

(* opendir fails and the directory is left out.                            *)
LEMMA OpenDirFailsStep ==
  ASSUME IndexInv, NEW w \in Workers, OpenDirFails(w)
  PROVE  IndexInv'
<1>1. IndexTyping /\ WorkerInv(w) /\ todo[w] # <<>> /\ pc[w] = "next" /\ InTurn(w)
  BY DEF IndexInv, WorkerInv, OpenDirFails
<1>2. Changes(w)
  <2>1. w \notin collected
    BY <1>1, NotCollected
  <2> QED
    BY <1>1, <2>1 DEF OpenDirFails, result, Changes, SameFor, IndexTyping
<1>3. Head(todo[w]) \in DOMAIN Files /\ Tail(todo[w]) \in Seq(DOMAIN Files)
  BY <1>1, HeadFacts
<1>4. IndexTyping'
  BY <1>1, <1>3 DEF OpenDirFails, result, IndexTyping
<1>5. /\ content' = content /\ todo'[w] = Tail(todo[w])
      /\ gaveUp'[w] = gaveUp[w] \cup {Head(todo[w])} /\ pc'[w] = "next"
      /\ trie'[w] = trie[w] /\ fileList'[w] = fileList[w] /\ total'[w] = total[w]
  BY <1>1 DEF OpenDirFails, IndexTyping
<1>6. WorkerInv(w)'
  BY <1>1, <1>5, GivesUp
<1> QED
  BY <1>2, <1>4, <1>6, StepOfOne

(* A file cannot be read, and its directory is left as it is.              *)
LEMMA ReadFileFailsStep ==
  ASSUME IndexInv, NEW w \in Workers, NEW f \in Paths, ReadFileFails(w, f)
  PROVE  IndexInv'
<1>1. IndexTyping /\ WorkerInv(w) /\ pc[w] = "reading" /\ InTurn(w)
  BY DEF IndexInv, WorkerInv, ReadFileFails
<1>2. todo[w] # <<>>
  BY <1>1 DEF InTurn, Busy
<1>3. Changes(w)
  <2>1. w \notin collected
    BY <1>1, NotCollected
  <2> QED
    BY <1>1, <2>1 DEF ReadFileFails, Goto, result, Changes, SameFor, IndexTyping
<1>4. Head(todo[w]) \in DOMAIN Files /\ Tail(todo[w]) \in Seq(DOMAIN Files)
  BY <1>1, <1>2, HeadFacts
<1>5. IndexTyping'
  <2>1. /\ pc' \in [Workers -> {"next", "reading", "undefined", "spinning", "ready"}]
        /\ todo' \in [Workers -> Seq(DOMAIN Files)]
        /\ gaveUp' \in [Workers -> SUBSET DOMAIN Files]
    BY <1>1, <1>4 DEF ReadFileFails, Goto, IndexTyping
  <2>2. UNCHANGED <<content, entries, trie, fileList, total, temp, command, unfinished,
                    collected, best, sum, found>>
    BY DEF ReadFileFails, result
  <2> QED
    BY <1>1, <2>1, <2>2 DEF IndexTyping
<1>6. /\ content' = content /\ todo'[w] = Tail(todo[w])
      /\ gaveUp'[w] = gaveUp[w] \cup {Head(todo[w])} /\ pc'[w] = "next"
      /\ trie'[w] = trie[w] /\ fileList'[w] = fileList[w] /\ total'[w] = total[w]
  BY <1>1 DEF ReadFileFails, Goto, IndexTyping
<1>7. WorkerInv(w)'
  BY <1>1, <1>2, <1>6, GivesUp
<1> QED
  BY <1>3, <1>5, <1>7, StepOfOne

(* A file whose content the code cannot cope with. *)
Stuck(w) ==
  /\ pc[w] = "reading"
  /\ \E l \in {"undefined", "spinning"} : Goto(w, l)
  /\ UNCHANGED <<content, todo, entries, trie, fileList, total, temp, gaveUp, command, result>>

(* What is said of the files holds as long as the same files are read.     *)
LEMMA SameRead ==
  ASSUME NEW w, Listed(w), Totalled(w), Indexed(w),
         content' = content, fileList'[w] = fileList[w], trie'[w] = trie[w],
         total'[w] = total[w], temp'[w] = temp[w], Busy(w)' => Busy(w),
         ReadOf(w)' = ReadOf(w), Left(w)' = Left(w), ClosedFiles(w)' = ClosedFiles(w)
  PROVE  Listed(w)' /\ Totalled(w)' /\ Indexed(w)'
<1>1. Listed(w)'
  BY DEF Listed
<1>2. Totals(ClosedFiles(w))' = Totals(ClosedFiles(w)) /\ Totals(ReadOf(w))' = Totals(ReadOf(w))
  BY DEF Totals
<1>3. Totalled(w)'
  BY <1>2 DEF Totalled
<1>4. Indexed(w)'
  BY DEF Indexed, OccurrencesIn
<1> QED
  BY <1>1, <1>3, <1>4

(* The worker meets a file that it cannot cope with.                       *)
LEMMA StuckStep ==
  ASSUME IndexInv, NEW w \in Workers, Stuck(w)
  PROVE  IndexInv'
<1>1. IndexTyping /\ InTurn(w) /\ Listed(w) /\ Totalled(w) /\ Indexed(w) /\ pc[w] = "reading"
  BY DEF IndexInv, WorkerInv, Stuck
<1>2. Changes(w)
  <2>1. w \notin collected
    BY <1>1, NotCollected
  <2> QED
    BY <1>1, <2>1 DEF Stuck, Goto, result, Changes, SameFor, IndexTyping
<1>3. IndexTyping'
  BY <1>1 DEF Stuck, Goto, result, IndexTyping
<1>4. /\ pc'[w] \in {"undefined", "spinning"}
      /\ UNCHANGED <<content, todo, entries, trie, fileList, total, temp, gaveUp>>
  BY <1>1 DEF Stuck, Goto, IndexTyping
<1>5. Busy(w) /\ Busy(w)'
  BY <1>1, <1>4 DEF Busy
<1>6. InTurn(w)'
  BY <1>1, <1>4, <1>5 DEF InTurn
<1>7. ReadOf(w)' = ReadOf(w) /\ Left(w)' = Left(w) /\ ClosedFiles(w)' = ClosedFiles(w)
  BY <1>4, <1>5 DEF ReadOf, Left, ClosedFiles
<1>8. Listed(w)' /\ Totalled(w)' /\ Indexed(w)'
  BY <1>1, <1>4, <1>5, <1>7, SameRead
<1> QED
  BY <1>2, <1>3, <1>6, <1>8, StepOfOne DEF WorkerInv

(* The last directory is read, and the worker takes commands.              *)
LEMMA AllReadStep ==
  ASSUME IndexInv, NEW w \in Workers, AllRead(w)
  PROVE  IndexInv'
<1>1. /\ IndexTyping /\ InTurn(w) /\ Listed(w) /\ Totalled(w) /\ Indexed(w)
      /\ pc[w] = "next" /\ todo[w] = <<>>
  BY DEF IndexInv, WorkerInv, AllRead
<1>2. Changes(w)
  <2>1. w \notin collected
    BY <1>1, NotCollected
  <2> QED
    BY <1>1, <2>1 DEF AllRead, Goto, result, Changes, SameFor, IndexTyping
<1>3. IndexTyping'
  BY <1>1 DEF AllRead, Goto, result, IndexTyping
<1>4. /\ pc'[w] = "ready"
      /\ UNCHANGED <<content, todo, entries, trie, fileList, total, temp, gaveUp>>
  BY <1>1 DEF AllRead, Goto, IndexTyping
<1>5. ~Busy(w) /\ ~Busy(w)'
  BY <1>1, <1>4 DEF Busy
<1>6. InTurn(w)'
  BY <1>1, <1>4, <1>5 DEF InTurn
<1>7. ReadOf(w)' = ReadOf(w) /\ Left(w)' = Left(w) /\ ClosedFiles(w)' = ClosedFiles(w)
  BY <1>4, <1>5 DEF ReadOf, Left, ClosedFiles
<1>8. Listed(w)' /\ Totalled(w)' /\ Indexed(w)'
  BY <1>1, <1>4, <1>5, <1>7, SameRead
<1> QED
  BY <1>2, <1>3, <1>6, <1>8, StepOfOne DEF WorkerInv

(* A directory is read to its end, and its totals are added.               *)
LEMMA CloseDirStep ==
  ASSUME IndexInv, NEW w \in Workers, CloseDir(w)
  PROVE  IndexInv'
<1> DEFINE d == Head(todo[w])
<1>1. /\ IndexTyping /\ InTurn(w) /\ Listed(w) /\ Totalled(w) /\ Indexed(w)
      /\ pc[w] = "reading" /\ entries[w] = {} /\ Busy(w)
  BY DEF IndexInv, WorkerInv, CloseDir, Busy
<1>2. todo[w] # <<>>
  BY <1>1 DEF InTurn
<1>3. /\ d \in Range(Given[w]) /\ d \notin Left(w) /\ d \notin gaveUp[w]
      /\ Tail(todo[w]) \in Seq(DOMAIN Files) /\ Distinct(Tail(todo[w]))
      /\ Elements(Tail(todo[w])) = Elements(todo[w]) \ {d}
      /\ Range(Given[w]) \ Elements(Tail(todo[w])) = Left(w) \cup {d}
      /\ Files[d] \subseteq Paths /\ ClosedFiles(w) \cap Files[d] = {}
  BY <1>1, <1>2, HeadFacts
<1>4. ReadOf(w) = Files[d]
  BY <1>1 DEF ReadOf
<1> HIDE DEF d
<1>5. Changes(w)
  <2>1. w \notin collected
    BY <1>1, NotCollected
  <2> QED
    BY <1>1, <2>1 DEF CloseDir, Goto, result, Changes, SameFor, IndexTyping
<1>6. /\ total[w] \in [words : Nat, lines : Nat] /\ temp[w] \in [words : Nat, lines : Nat]
      /\ Plus(total[w], temp[w]) \in [words : Nat, lines : Nat]
  <2>1. total[w] \in [words : Nat, lines : Nat] /\ temp[w] \in [words : Nat, lines : Nat]
    BY <1>1 DEF IndexTyping
  <2> QED
    BY <2>1 DEF Plus
<1>7. /\ pc'[w] = "next" /\ todo'[w] = Tail(todo[w]) /\ total'[w] = Plus(total[w], temp[w])
      /\ UNCHANGED <<content, entries, trie, fileList, temp, gaveUp>>
  BY <1>1 DEF CloseDir, Goto, IndexTyping
<1>8. IndexTyping'
  <2>1. /\ pc' \in [Workers -> {"next", "reading", "undefined", "spinning", "ready"}]
        /\ todo' \in [Workers -> Seq(DOMAIN Files)]
        /\ total' \in [Workers -> [words : Nat, lines : Nat]]
    BY <1>1, <1>3, <1>6 DEF CloseDir, Goto, IndexTyping
  <2>2. UNCHANGED <<content, entries, trie, fileList, temp, gaveUp, command, unfinished,
                    collected, best, sum, found>>
    BY DEF CloseDir, result
  <2> QED
    BY <1>1, <2>1, <2>2 DEF IndexTyping
<1>9. ~Busy(w)'
  BY <1>7 DEF Busy
<1>10. InTurn(w)'
  BY <1>1, <1>3, <1>7, <1>9 DEF InTurn
<1>11. Left(w)' = Left(w) \cup {d} /\ ReadOf(w)' = {}
  BY <1>3, <1>7, <1>9 DEF Left, ReadOf
<1>12. ClosedFiles(w)' = ClosedFiles(w) \cup Files[d]
  <2>1. (Left(w) \ gaveUp[w])' = (Left(w) \ gaveUp[w]) \cup {d}
    BY <1>3, <1>7, <1>11
  <2> QED
    BY <2>1 DEF ClosedFiles
<1>13. Listed(w)'
  <2>1. Range(fileList[w]) \subseteq (UNION {Files[e] : e \in Left(w)}) \cup Files[d]
    BY <1>1, <1>4 DEF Listed
  <2>2. Range(fileList[w]) \subseteq UNION {Files[e] : e \in Left(w) \cup {d}}
    BY <2>1
  <2>3. ClosedFiles(w) \cup Files[d] \subseteq Range(fileList[w])
    BY <1>1, <1>4 DEF Listed
  <2> QED
    BY <1>1, <1>7, <1>11, <1>12, <2>2, <2>3 DEF Listed
<1>14. Totalled(w)'
  <2>1. /\ IsFiniteSet(ClosedFiles(w)) /\ IsFiniteSet(Files[d])
        /\ \A f \in ClosedFiles(w) \cup Files[d] : IsText(f)
    BY <1>1, <1>4, ClosedFacts
  <2>2. Totals(ClosedFiles(w) \cup Files[d]) = Plus(Totals(ClosedFiles(w)), Totals(Files[d]))
    BY <1>3, <2>1, TotalsUnion
  <2>3. total[w] = Totals(ClosedFiles(w)) /\ temp[w] = Totals(Files[d])
    BY <1>1, <1>4 DEF Totalled
  <2>4. Totals(ClosedFiles(w))' = Totals(ClosedFiles(w) \cup Files[d])
    BY <1>7, <1>12 DEF Totals
  <2> QED
    BY <1>7, <1>9, <2>2, <2>3, <2>4 DEF Totalled
<1>15. Indexed(w)'
  BY <1>1, <1>7 DEF Indexed, OccurrencesIn
<1> QED
  BY <1>5, <1>8, <1>10, <1>13, <1>14, <1>15, StepOfOne DEF WorkerInv

(* The occurrences in the files of a worker are finitely many.             *)
LEMMA OccurrencesFinite ==
  ASSUME IndexTyping, NEW w \in Workers, InTurn(w), Listed(w), NEW a
  PROVE  IsFiniteSet(OccurrencesIn(Range(fileList[w]), a))
<1> DEFINE files == Range(fileList[w])
           g == [f \in files |-> OccurrencesOf(f, content[f].lines, a)]
<1>1. files \subseteq Paths
  <2>1. Range(Given[w]) \subseteq DOMAIN Files
    <3>1. Given[w] \in Seq(DOMAIN Files)
      BY IndexAssumption
    <3> QED
      BY <3>1 DEF Range
  <2>2. UNION {Files[e] : e \in Left(w)} \subseteq Paths
    BY <2>1 DEF Left, Paths
  <2>3. ReadOf(w) \subseteq Paths
    BY ClosedFacts
  <2>4. files \subseteq (UNION {Files[e] : e \in Left(w)}) \cup ReadOf(w)
    BY DEF Listed
  <2> HIDE DEF files
  <2> QED
    BY <2>2, <2>3, <2>4
<1>2. IsFiniteSet(files)
  BY <1>1, PathsFinite
<1>3. \A f \in files : IsFiniteSet(g[f])
  <2> SUFFICES ASSUME NEW f \in files PROVE IsFiniteSet(OccurrencesOf(f, content[f].lines, a))
    OBVIOUS
  <2> DEFINE Q == At(content[f].lines, a)
  <2>1. IsFiniteSet(Q)
    BY OccurrencesTagged
  <2>2. \A p \in Q : p = <<p[1], p[2]>>
    BY PositionsArePairs DEF At
  <2> HIDE DEF Q
  <2>3. IsFiniteSet(Tagged(f, Q))
    BY <2>1, <2>2, TaggedFacts
  <2> QED
    BY <2>3 DEF Q, OccurrencesOf
<1>4. OccurrencesIn(files, a) = UNION {g[f] : f \in files}
  BY DEF OccurrencesIn
<1> HIDE DEF files, g
<1>5. IsFiniteSet(UNION {g[f] : f \in files})
  BY <1>2, <1>3, UnionFinite
<1> QED
  BY <1>4, <1>5 DEF files

(* A file is read: its words go to the trie, its name to the list, its     *)
(* totals to those of the directory.                                       *)
LEMMA ReadFileStep ==
  ASSUME IndexInv, NEW w \in Workers, NEW f \in Paths, ReadFile(w, f)
  PROVE  IndexInv'
<1> DEFINE d == Head(todo[w])
           files == Range(fileList[w])
           lines == content[f].lines
           add == [words |-> Len(Occurrences(lines)), lines |-> Len(lines)]
<1>1. /\ IndexTyping /\ InTurn(w) /\ Listed(w) /\ Totalled(w) /\ Indexed(w)
      /\ pc[w] = "reading" /\ Busy(w) /\ f \in entries[w] /\ content[f] # Directory
  BY DEF IndexInv, WorkerInv, ReadFile, Busy
<1>2. todo[w] # <<>> /\ entries[w] \subseteq Files[d] /\ ReadOf(w) = Files[d] \ entries[w]
  BY <1>1 DEF InTurn, ReadOf
<1>3. (UNION {Files[e] : e \in Left(w)}) \cap Files[d] = {} /\ Files[d] \subseteq Paths
  BY <1>1, <1>2, HeadFacts
<1> HIDE DEF d
<1>4. f \in Nat /\ content[f] \in Texts /\ lines \in Seq(Seq(Words)) /\ IsText(f)
  <2>1. f \in Nat
    BY IndexAssumption
  <2>2. content[f] \in Texts
    BY <1>1 DEF IndexTyping
  <2> QED
    BY <2>1, <2>2 DEF Texts, IsText
<1>5. f \notin files /\ f \notin ReadOf(w) /\ f \in Files[d]
  <2>1. f \notin UNION {Files[e] : e \in Left(w)}
    BY <1>1, <1>2, <1>3
  <2> QED
    BY <1>1, <1>2, <2>1 DEF Listed
<1>6. Changes(w)
  <2>1. w \notin collected
    BY <1>1, NotCollected
  <2> QED
    BY <1>1, <2>1 DEF ReadFile, result, Changes, SameFor, IndexTyping
<1>7. /\ entries'[w] = entries[w] \ {f}
      /\ trie'[w] = Insert(trie[w], f, lines)
      /\ fileList'[w] = AddFileNode(fileList[w], f)
      /\ temp'[w] = Plus(temp[w], add)
      /\ UNCHANGED <<content, pc, todo, total, gaveUp>>
  BY <1>1 DEF ReadFile, IndexTyping
<1>8. AddFileNode(fileList[w], f) \in Seq(Nat) /\ Range(AddFileNode(fileList[w], f)) = files \cup {f}
  <2>1. fileList[w] \in Seq(Nat)
    BY <1>1 DEF IndexTyping
  <2> QED
    BY <1>4, <2>1, AddFileNodeFacts
<1>9. /\ Insert(trie[w], f, lines) \in [Words -> Seq(Posting)]
      /\ \A a \in Words : Summarises(Insert(trie[w], f, lines)[a],
                                     OccurrencesIn(files, a) \cup OccurrencesOf(f, lines, a))
  <2> DEFINE occ == [a \in Words |-> OccurrencesIn(files, a)]
             t == trie[w]
  <2>1. t \in [Words -> Seq(Posting)]
    BY <1>1 DEF IndexTyping
  <2>2. ASSUME NEW a \in Words
        PROVE  IsFiniteSet(occ[a]) /\ Summarises(t[a], occ[a]) /\ In(occ[a], f) = {}
    <3>1. Summarises(t[a], occ[a])
      BY <1>1 DEF Indexed
    <3>2. In(occ[a], f) = {}
      <4>1. \A o \in OccurrencesIn(files, a) : o[1] \in files
        BY DEF OccurrencesIn, OccurrencesOf, Tagged
      <4> QED
        BY <1>5, <4>1 DEF In
    <3>3. IsFiniteSet(occ[a])
      BY <1>1, OccurrencesFinite
    <3> QED
      BY <3>1, <3>2, <3>3
  <2> HIDE DEF occ, t, lines
  <2>3. /\ Insert(t, f, lines) \in [Words -> Seq(Posting)]
        /\ \A a \in Words : Summarises(Insert(t, f, lines)[a], occ[a] \cup OccurrencesOf(f, lines, a))
    BY <1>4, <2>1, <2>2, InsertSummarises
  <2>4. \A a \in Words : occ[a] = OccurrencesIn(files, a)
    BY DEF occ
  <2> QED
    BY <2>3, <2>4 DEF t
<1>10. add = Totals({f}) /\ add \in [words : Nat, lines : Nat]
  <2>1. add = Totals({f})
    BY <1>4, TotalsOfOne
  <2>2. Len(Occurrences(lines)) \in Nat /\ Len(lines) \in Nat
    <3> HIDE DEF lines
    <3> QED
      BY <1>4, OccurrencesFacts
  <2> QED
    BY <2>1, <2>2
<1> HIDE DEF add
<1>11. Plus(temp[w], add) \in [words : Nat, lines : Nat]
  <2>1. temp[w] \in [words : Nat, lines : Nat]
    BY <1>1 DEF IndexTyping
  <2> QED
    BY <1>10, <2>1 DEF Plus
<1>12. IndexTyping'
  <2>1. /\ entries' \in [Workers -> SUBSET Paths]
        /\ trie' \in [Workers -> [Words -> Seq(Posting)]]
        /\ fileList' \in [Workers -> Seq(Nat)]
        /\ temp' \in [Workers -> [words : Nat, lines : Nat]]
    BY <1>1, <1>8, <1>9, <1>11 DEF ReadFile, IndexTyping, add
  <2>2. UNCHANGED <<content, pc, todo, total, gaveUp, command, unfinished, collected, best, sum, found>>
    BY DEF ReadFile, result
  <2> QED
    BY <1>1, <2>1, <2>2 DEF IndexTyping
<1>13. Busy(w)'
  BY <1>1, <1>7 DEF Busy
<1>14. InTurn(w)'
  BY <1>1, <1>7, <1>13 DEF InTurn, Busy
<1>15. /\ ReadOf(w)' = ReadOf(w) \cup {f}
       /\ Left(w)' = Left(w) /\ ClosedFiles(w)' = ClosedFiles(w)
  <2>1. ReadOf(w)' = Files[d] \ (entries[w] \ {f})
    BY <1>7, <1>13 DEF ReadOf, d
  <2> QED
    BY <1>2, <1>5, <1>7, <2>1 DEF Left, ClosedFiles
<1>16. Range(fileList[w])' = files \cup {f}
  BY <1>7, <1>8
<1>17. Listed(w)'
  BY <1>1, <1>4, <1>7, <1>15, <1>16 DEF Listed
<1>18. Totalled(w)'
  <2>1. /\ IsFiniteSet(ReadOf(w)) /\ \A g \in ReadOf(w) : IsText(g)
    BY <1>1, ClosedFacts
  <2>2. Totals(ReadOf(w) \cup {f}) = Plus(Totals(ReadOf(w)), Totals({f}))
    <3>1. /\ IsFiniteSet({f}) /\ ReadOf(w) \cap {f} = {}
          /\ \A g \in ReadOf(w) \cup {f} : IsText(g)
      BY <1>4, <1>5, <2>1, FS_Singleton
    <3> QED
      BY <2>1, <3>1, TotalsUnion
  <2>3. Totals(ReadOf(w))' = Totals(ReadOf(w) \cup {f}) /\ Totals(ClosedFiles(w))' = Totals(ClosedFiles(w))
    BY <1>7, <1>15 DEF Totals
  <2>4. temp[w] = Totals(ReadOf(w)) /\ total[w] = Totals(ClosedFiles(w))
    BY <1>1 DEF Totalled
  <2> QED
    BY <1>7, <1>10, <2>2, <2>3, <2>4 DEF Totalled
<1>19. Indexed(w)'
  <2> SUFFICES ASSUME NEW a \in Words
               PROVE  Summarises(trie'[w][a], OccurrencesIn(Range(fileList[w]), a)')
    BY DEF Indexed
  <2>1. OccurrencesIn(Range(fileList[w]), a)' = OccurrencesIn(files, a) \cup OccurrencesOf(f, lines, a)
    BY <1>7, <1>16 DEF OccurrencesIn
  <2> QED
    BY <1>7, <1>9, <2>1
<1> QED
  BY <1>6, <1>12, <1>14, <1>17, <1>18, <1>19, StepOfOne DEF WorkerInv

-----------------------------------------------------------------------------
(* The steps of the Job Executor *)

(* The Job Executor takes an answer, or goes without it. *)
LEMMA WorkersStay ==
  ASSUME IndexInv, content' = content, UNCHANGED worker
  PROVE  \A v \in Workers : WorkerInv(v)'
<1> SUFFICES ASSUME NEW v \in Workers PROVE WorkerInv(v)'
  OBVIOUS
<1>1. WorkerInv(v)
  BY DEF IndexInv, WorkerInv
<1>2. SameFor(v)
  BY DEF worker, SameFor
<1> QED
  BY <1>1, <1>2, Others

(* A worker that is ready has read to its end all that it did not give up. *)
LEMMA ReadyFacts ==
  ASSUME IndexInv, NEW w \in Workers, pc[w] = "ready"
  PROVE  /\ WholeFiles(w) = ClosedFiles(w)
         /\ WholeFiles(w) \subseteq Range(fileList[w])
         /\ WholeFiles(w) \subseteq Paths
         /\ \A f \in WholeFiles(w) : IsText(f)
<1>1. IndexTyping /\ InTurn(w) /\ Listed(w)
  BY DEF IndexInv, WorkerInv
<1>2. Elements(todo[w]) = {}
  BY <1>1 DEF InTurn, Elements
<1>3. Left(w) = Range(Given[w])
  BY <1>2 DEF Left
<1>4. WholeFiles(w) = ClosedFiles(w)
  BY <1>3 DEF WholeFiles, WholeDirs, ClosedFiles
<1>5. ClosedFiles(w) \subseteq Range(fileList[w])
  BY <1>1 DEF Listed
<1>6. ClosedFiles(w) \subseteq Paths /\ \A f \in ClosedFiles(w) : IsText(f)
  BY <1>1, ClosedFacts
<1> QED
  BY <1>4, <1>5, <1>6

(* An answer to /search arrives.                                           *)
LEMMA SearchStep ==
  ASSUME IndexInv, NEW w \in Workers, Search(w)
  PROVE  IndexInv'
<1> DEFINE k == command.keywords
           ans == SearchAnswer(w, k)
           read(v) == UNION {Hits(f, Range(k)) : f \in Range(fileList[v])}
<1>1. /\ IndexTyping /\ Answers /\ Listed(w) /\ Indexed(w) /\ pc[w] = "ready"
      /\ command.kind = "search" /\ command \in Commands
  BY DEF IndexInv, WorkerInv, Search, IndexTyping
<1>2. k \in Seq(Words)
  BY <1>1, IndexAssumption
<1>3. /\ found' = [found EXCEPT ![w] = ans] /\ collected' = collected \cup {w}
      /\ unfinished' = unfinished \ {w} /\ UNCHANGED <<content, worker, command, best, sum>>
  BY DEF Search, Answered
<1>4. IndexTyping'
  BY <1>1, <1>3 DEF IndexTyping, worker
<1>5. \A v \in Workers : WorkerInv(v)'
  BY <1>3, WorkersStay
<1>6. /\ \A i, j \in DOMAIN ans : i < j => Before(ans[i], ans[j])
      /\ Range(ans) = read(w)
  <2> HIDE DEF k
  <2> QED
    BY <1>1, <1>2, SearchAnswerFacts
<1>7. WholeFiles(w) \subseteq Range(fileList[w])
  BY <1>1, ReadyFacts
<1>8. \A v \in collected :
        /\ \A i, j \in DOMAIN found[v] : i < j => Before(found[v][i], found[v][j])
        /\ WholeFiles(v) \subseteq Range(fileList[v])
        /\ Range(found[v]) = read(v)
  BY <1>1 DEF Answers, SearchExact
<1>9. UNCHANGED <<fileList, gaveUp, pc>>
  BY <1>3 DEF worker
<1>10. \A v : WholeFiles(v)' = WholeFiles(v) /\ read(v)' = read(v)
  <2>1. \A f, s : Hits(f, s)' = Hits(f, s)
    BY <1>3 DEF Hits
  <2>2. \A v : WholeFiles(v)' = WholeFiles(v)
    BY <1>9 DEF WholeFiles, WholeDirs
  <2> QED
    BY <1>3, <1>9, <2>1, <2>2
<1> HIDE DEF ans, read
<1>11. \A v \in collected' : /\ v = w => found'[v] = ans
                             /\ v # w => v \in collected /\ found'[v] = found[v]
  BY <1>1, <1>3 DEF IndexTyping
<1>12. \A v \in collected' :
         /\ \A i, j \in DOMAIN found'[v] : i < j => Before(found'[v][i], found'[v][j])
         /\ WholeFiles(v)' \subseteq Range(fileList'[v])
         /\ Range(found'[v]) = read(v)'
  <2> SUFFICES ASSUME NEW v \in collected'
               PROVE  /\ \A i, j \in DOMAIN found'[v] : i < j => Before(found'[v][i], found'[v][j])
                      /\ WholeFiles(v)' \subseteq Range(fileList'[v])
                      /\ Range(found'[v]) = read(v)'
    OBVIOUS
  <2>1. CASE v = w
    BY <1>6, <1>7, <1>9, <1>10, <1>11, <2>1
  <2>2. CASE v # w
    BY <1>8, <1>9, <1>10, <1>11, <2>2
  <2> QED
    BY <2>1, <2>2
<1>13. SearchExact'
  BY <1>12 DEF SearchExact, read
<1>14. Answers'
  BY <1>1, <1>3, <1>9, <1>13 DEF Answers
<1> QED
  BY <1>4, <1>5, <1>14 DEF IndexInv, WorkerInv

(* BestOf for all files of the workers that have answered. *)
LEMMA BestOfIsBest ==
  ASSUME best \in Best, NEW a
  PROVE  BestOf(a) <=> IsBest(best, UNION {Range(fileList[w]) : w \in collected}, command.kind, a)
  BY DEF BestOf, IsBest, FilesWith

(* An answer to /maxcount or /mincount arrives, and is taken if it is      *)
(* better.                                                                 *)
LEMMA MaxMinStep ==
  ASSUME IndexInv, NEW w \in Workers, MaxMin(w)
  PROVE  IndexInv'
<1> DEFINE a == command.word
           kind == command.kind
           files == UNION {Range(fileList[v]) : v \in collected}
           more == Range(fileList[w])
           c == WorkerBest(w, kind, a)
           d == IF c.value > 0 /\ (best.value = 0 \/ Better(kind, c.value, c.file, best)) THEN c ELSE best
<1>1. /\ IndexTyping /\ Answers /\ Listed(w) /\ Indexed(w) /\ pc[w] = "ready"
      /\ kind \in {"maxcount", "mincount"} /\ command \in Commands
  BY DEF IndexInv, WorkerInv, MaxMin, IndexTyping
<1>2. a \in Words
  BY <1>1, IndexAssumption
<1>3. /\ best' = d /\ collected' = collected \cup {w}
      /\ unfinished' = unfinished \ {w} /\ UNCHANGED <<content, worker, command, sum, found>>
  BY DEF MaxMin, Answered
<1>4. IsBest(c, more, kind, a)
  <2> HIDE DEF a, kind
  <2> QED
    BY <1>1, <1>2, WorkerBestFacts
<1>5. best \in Best /\ IsBest(best, files, kind, a)
  <2>1. best \in Best
    BY <1>1 DEF IndexTyping, Best
  <2>2. BestOf(a)
    BY <1>1 DEF Answers
  <2> QED
    BY <2>1, <2>2, BestOfIsBest
<1>6. /\ files \subseteq Nat /\ more \subseteq Nat
      /\ \A f \in files \cup more : Count(f, a) \in Nat
  <2>1. ASSUME NEW v \in Workers, NEW f \in Range(fileList[v]) PROVE f \in Nat /\ Count(f, a) \in Nat
    <3>1. Listed(v)
      BY DEF IndexInv, WorkerInv
    <3> HIDE DEF a
    <3> QED
      BY <1>1, <3>1, OccurrencesTagged
  <2>2. collected \subseteq Workers
    BY <1>1 DEF IndexTyping
  <2> QED
    BY <2>1, <2>2
<1> HIDE DEF a, kind, files, more, c
<1>7. IsBest(d, files \cup more, kind, a)
  <2> DEFINE b == best
  <2>1. IsBest(b, files, kind, a)
    BY <1>5
  <2> HIDE DEF b
  <2>2. IsBest(IF c.value > 0 /\ (b.value = 0 \/ Better(kind, c.value, c.file, b)) THEN c ELSE b,
               files \cup more, kind, a)
    BY <1>4, <1>6, <2>1, BestOfBoth
  <2> QED
    BY <2>2 DEF b
<1> HIDE DEF d
<1>8. d \in Best
  BY <1>7 DEF IsBest
<1>9. UNCHANGED <<fileList, gaveUp, pc>>
  BY <1>3 DEF worker
<1>10. IndexTyping'
  BY <1>1, <1>3, <1>8 DEF IndexTyping, worker, Best
<1>11. \A v \in Workers : WorkerInv(v)'
  BY <1>3, WorkersStay
<1>12. BestOf(command.word)'
  <2>1. (UNION {Range(fileList[v]) : v \in collected})' = files \cup more
    BY <1>3, <1>9 DEF files, more
  <2>2. \A f : Count(f, command.word)' = Count(f, a)
    BY <1>3 DEF Count, a
  <2>3. FilesWith(command.word)' = {f \in files \cup more : Count(f, a) > 0}
    BY <2>1, <2>2 DEF FilesWith
  <2>4. command'.kind = kind /\ best' = d
    BY <1>3 DEF kind
  <2> QED
    BY <1>7, <2>2, <2>3, <2>4 DEF BestOf, IsBest
<1>13. Answers'
  BY <1>1, <1>3, <1>9, <1>12 DEF Answers, SearchExact, kind
<1> QED
  BY <1>10, <1>11, <1>13 DEF IndexInv, WorkerInv

(* An answer to /wc arrives, and is added.                                 *)
LEMMA WCStep ==
  ASSUME IndexInv, NEW w \in Workers, WC(w)
  PROVE  IndexInv'
<1> DEFINE files == UNION {WholeFiles(v) : v \in collected}
           more == WholeFiles(w)
<1>1. /\ IndexTyping /\ Answers /\ Totalled(w) /\ pc[w] = "ready" /\ command.kind = "wc"
      /\ w \in unfinished
  BY DEF IndexInv, WorkerInv, WC
<1>2. /\ sum' = Plus(sum, total[w]) /\ collected' = collected \cup {w}
      /\ unfinished' = unfinished \ {w} /\ UNCHANGED <<content, worker, command, best, found>>
  BY DEF WC, Answered
<1>3. /\ collected \subseteq Workers /\ w \notin collected
      /\ \A v \in collected \cup {w} : v \in Workers /\ pc[v] = "ready"
  BY <1>1 DEF IndexTyping, Answers
<1>4. sum = Totals(files) /\ total[w] = Totals(more)
  BY <1>1, ReadyFacts DEF Answers, Totalled
<1>5. /\ files \cup more \subseteq Paths
      /\ \A f \in files \cup more : IsText(f)
  BY <1>3, ReadyFacts
<1>6. files \cap more = {}
  <2>1. ASSUME NEW v \in collected PROVE WholeFiles(v) \cap more = {}
    <3>1. v \in Workers /\ v # w
      BY <1>3
    <3>2. Given \in [Workers -> Seq(DOMAIN Files)]
      BY IndexAssumption
    <3>3. Range(Given[v]) \cap Range(Given[w]) = {}
      BY <3>1, IndexAssumption
    <3>4. \A x, y \in DOMAIN Files : x # y => Files[x] \cap Files[y] = {}
      BY IndexAssumption
    <3>5. Range(Given[v]) \subseteq DOMAIN Files /\ Range(Given[w]) \subseteq DOMAIN Files
      BY <3>1, <3>2 DEF Range
    <3>6. \A x \in WholeDirs(v), y \in WholeDirs(w) : Files[x] \cap Files[y] = {}
      BY <3>3, <3>4, <3>5 DEF WholeDirs
    <3> QED
      BY <3>6 DEF WholeFiles
  <2> HIDE DEF more
  <2> QED
    BY <2>1
<1> HIDE DEF files, more
<1>7. IsFiniteSet(files) /\ IsFiniteSet(more)
  BY <1>5, PathsFinite
<1>8. Totals(files \cup more) = Plus(Totals(files), Totals(more))
  BY <1>5, <1>6, <1>7, TotalsUnion
<1>9. UNCHANGED <<fileList, gaveUp, pc>>
  BY <1>2 DEF worker
<1>10. IndexTyping'
  <2>1. Plus(sum, total[w]) \in [words : Nat, lines : Nat]
    <3>1. sum \in [words : Nat, lines : Nat] /\ total[w] \in [words : Nat, lines : Nat]
      BY <1>1 DEF IndexTyping
    <3> QED
      BY <3>1 DEF Plus
  <2> QED
    BY <1>1, <1>2, <2>1 DEF IndexTyping, worker
<1>11. \A v \in Workers : WorkerInv(v)'
  BY <1>2, WorkersStay
<1>12. (sum = Totals(UNION {WholeFiles(v) : v \in collected}))'
  <2>1. \A v : WholeFiles(v)' = WholeFiles(v)
    BY <1>9 DEF WholeFiles, WholeDirs
  <2>2. (UNION {WholeFiles(v) : v \in collected})' = files \cup more
    BY <1>2, <2>1 DEF files, more
  <2>3. Totals(UNION {WholeFiles(v) : v \in collected})' = Totals(files \cup more)
    BY <1>2, <2>2 DEF Totals
  <2> QED
    BY <1>2, <1>4, <1>8, <2>3
<1>13. Answers'
  BY <1>1, <1>2, <1>9, <1>12 DEF Answers, SearchExact
<1> QED
  BY <1>10, <1>11, <1>13 DEF IndexInv, WorkerInv

(* A worker has died: the Job Executor goes on without it.                 *)
LEMMA IgnoreStep ==
  ASSUME IndexInv, NEW w \in Workers, Ignore(w)
  PROVE  IndexInv'
<1>1. IndexTyping
  BY DEF IndexInv
<1>2. /\ unfinished' = unfinished \ {w}
      /\ UNCHANGED <<content, worker, command, collected, best, sum, found>>
  BY DEF Ignore
<1>3. IndexTyping'
  BY <1>1, <1>2 DEF IndexTyping, worker
<1>4. \A v \in Workers : WorkerInv(v)'
  BY <1>2, WorkersStay
<1>5. Answers'
  BY <1>2, AnswersStay DEF worker
<1> QED
  BY <1>3, <1>4, <1>5 DEF IndexInv, WorkerInv

(* Nothing happens.                                                        *)
LEMMA NoStep ==
  ASSUME IndexInv, UNCHANGED vars
  PROVE  IndexInv'
<1>1. /\ UNCHANGED <<content, worker, command, unfinished, collected, best, sum, found>>
  BY DEF vars, result
<1>2. IndexTyping'
  BY <1>1 DEF IndexInv, IndexTyping, worker
<1>3. \A v \in Workers : WorkerInv(v)'
  BY <1>1, WorkersStay
<1>4. Answers'
  BY <1>1, AnswersStay DEF worker
<1> QED
  BY <1>2, <1>3, <1>4 DEF IndexInv, WorkerInv

(* The inductive invariant holds: in every state the index of every worker *)
(* is that of the files it has read, and what the Job Executor has put     *)
(* together is what the workers that answered have in their files.         *)
THEOREM Invariance == Spec => []IndexInv
<1>1. Init => IndexInv
  BY Initially
<1>2. IndexInv /\ [Next]_vars => IndexInv'
  <2> SUFFICES ASSUME IndexInv, [Next]_vars PROVE IndexInv'
    OBVIOUS
  <2>1. ASSUME NEW w \in Workers, OpenDir(w) PROVE IndexInv'
    BY <2>1, OpenDirStep
  <2>2. ASSUME NEW w \in Workers, OpenDirFails(w) PROVE IndexInv'
    BY <2>2, OpenDirFailsStep
  <2>3. ASSUME NEW w \in Workers, CloseDir(w) PROVE IndexInv'
    BY <2>3, CloseDirStep
  <2>4. ASSUME NEW w \in Workers, AllRead(w) PROVE IndexInv'
    BY <2>4, AllReadStep
  <2>5. ASSUME NEW w \in Workers, NEW f \in Paths, ReadFile(w, f) PROVE IndexInv'
    BY <2>5, ReadFileStep
  <2>6. ASSUME NEW w \in Workers, NEW f \in Paths, ReadFileFails(w, f) PROVE IndexInv'
    BY <2>6, ReadFileFailsStep
  <2>7. ASSUME NEW w \in Workers, NEW f \in Paths,
               ReadTail(w, f) \/ ReadOpenTag(w, f) \/ ReadDirectory(w, f)
        PROVE  IndexInv'
    <3>1. Stuck(w)
      BY <2>7 DEF ReadTail, ReadOpenTag, ReadDirectory, Stuck
    <3> QED
      BY <3>1, StuckStep
  <2>8. ASSUME NEW w \in Workers, Search(w) PROVE IndexInv'
    BY <2>8, SearchStep
  <2>9. ASSUME NEW w \in Workers, MaxMin(w) PROVE IndexInv'
    BY <2>9, MaxMinStep
  <2>10. ASSUME NEW w \in Workers, WC(w) PROVE IndexInv'
    BY <2>10, WCStep
  <2>11. ASSUME NEW w \in Workers, Ignore(w) PROVE IndexInv'
    BY <2>11, IgnoreStep
  <2>12. CASE UNCHANGED vars \/ Terminated
    BY <2>12, NoStep DEF Terminated
  <2> QED
    BY <2>1, <2>2, <2>3, <2>4, <2>5, <2>6, <2>7, <2>8, <2>9, <2>10, <2>11, <2>12 DEF Next
<1> QED
  BY <1>1, <1>2, PTL DEF Spec

(* A worker's answer to /search (recvCommand of worker.c, trie.c) consists *)
(* of the lines with one of the keywords in the files that the worker has  *)
(* listed, each once, in the order of files and lines: for all files,      *)
(* texts and keywords, in whatever order readdir returns.                  *)
THEOREM SearchRight == Spec => []SearchExact
<1>1. IndexInv => SearchExact
  BY DEF IndexInv, Answers
<1> QED
  BY <1>1, Invariance, PTL

(* /maxcount and /mincount give the best file of all workers that answered *)
(* (0 only when the word is in none of them), and /wc the totals of the    *)
(* files of the directories that were read to the end, whatever the order  *)
(* of the answers and whichever workers die.                               *)
THEOREM CountsRight == Spec => []CountsExact
<1>1. IndexInv => CountsExact
  BY DEF IndexInv, Answers, CountsExact
<1> QED
  BY <1>1, Invariance, PTL

=============================================================================
