------------------------------ MODULE PayloadProofs ------------------------------
(***************************************************************************)
(* Rewrite and transfer, for every library, destination, budget, cap and   *)
(* number of faults: what their plans are, what they keep account of, and, *)
(* as long as the library is not edited, where the bytes of a torrent      *)
(* land.  The first half is about the operators of PathMap and Plan, the   *)
(* second about the commands.                                              *)
(*                                                                         *)
(* What a recursive function computes is derived from its definition       *)
(* without a theorem of induction: the arguments up to which a claim holds *)
(* are a set of numbers that is closed under adding one, and such a set is *)
(* the whole interval (UpTo), because the least number outside it would    *)
(* have to follow one inside.  That a set of numbers has a least element   *)
(* comes down to counting (LeastNumber).                                   *)
(***************************************************************************)
EXTENDS Payload, FiniteSetTheorems, SequenceTheorems, TLAPS

------------------------------------------------------------------------------
(* Numbers and recursive functions.                                            *)

(* A set of numbers has a least one: if there were none, its lower bounds up   *)
(* to one of its elements would be mapped into fewer by adding one.            *)
LEMMA LeastNumber ==
  ASSUME NEW X \in SUBSET Nat, X # {}
  PROVE  \E x \in X : \A y \in X : x <= y
<1> PICK m \in X : TRUE
  OBVIOUS
<1> DEFINE A == {k \in 0..m : \A y \in X : k <= y}
           B == A \ {0}
<1> SUFFICES ASSUME \A x \in X : \E y \in X : y < x PROVE FALSE
  OBVIOUS
<1>1. IsFiniteSet(A)
  <2>1. IsFiniteSet(0..m)
    BY FS_Interval
  <2> QED
    BY <2>1, FS_Subset
<1>2. 0 \in A /\ \A k \in A : k + 1 \in A \ {0}
  OBVIOUS
<1>3. PICK f \in [A -> B] : f = [k \in A |-> k + 1]
  BY <1>2
<1>4. \A x, y \in A : f[x] = f[y] => x = y
  BY <1>3
<1> HIDE DEF A
<1>5. IsFiniteSet(B) /\ Cardinality(B) = Cardinality(A) - 1
  BY <1>1, <1>2, FS_RemoveElement
<1>6. Cardinality(B) < Cardinality(A)
  BY <1>1, <1>5, FS_CardinalityType
<1> QED
  <2> HIDE DEF B
  <2> QED
    BY <1>1, <1>4, <1>5, <1>6, FS_PigeonHole

(* A set of numbers below a bound has a greatest one.                          *)
LEMMA GreatestNumber ==
  ASSUME NEW X \in SUBSET Nat, X # {}, NEW n \in Nat, \A x \in X : x <= n
  PROVE  \E x \in X : \A y \in X : x >= y
<1> DEFINE Y == {n - x : x \in X}
<1>1. Y \in SUBSET Nat /\ Y # {}
  <2>1. \A x \in X : n - x \in Nat
    OBVIOUS
  <2>2. PICK x \in X : TRUE
    OBVIOUS
  <2>3. n - x \in Y
    OBVIOUS
  <2> QED
    BY <2>1, <2>3
<1>2. PICK z \in Y : \A y \in Y : z <= y
  BY <1>1, LeastNumber
<1>3. PICK x \in X : z = n - x
  OBVIOUS
<1>4. ASSUME NEW y \in X PROVE x >= y
  <2>1. n - y \in Y
    OBVIOUS
  <2> QED
    BY <1>2, <1>3, <2>1
<1> QED
  BY <1>4

(* Induction on the numbers up to n, for a property given as a set.            *)
LEMMA UpTo ==
  ASSUME NEW n \in Nat, NEW S, 0 \in S, \A i \in 0..n : i # n /\ i \in S => i + 1 \in S
  PROVE  0..n \subseteq S
<1> SUFFICES ASSUME (0..n) \ S # {} PROVE FALSE
  OBVIOUS
<1>1. PICK x \in (0..n) \ S : \A y \in (0..n) \ S : x <= y
  <2>1. (0..n) \ S \in SUBSET Nat
    OBVIOUS
  <2> QED
    BY <2>1, LeastNumber
<1>2. x # 0 /\ x - 1 \in 0..n /\ x - 1 \in S
  BY <1>1
<1> QED
  BY <1>1, <1>2

(* What f computes along 1..n from a, if F tells how a value follows from the  *)
(* one before it; and that there is such an f.                                 *)
Follows(f, n, a, F) == f[0] = a /\ \A i \in 1..n : f[i] = F[<<f[i - 1], i>>]

(* There is a function with a given first value and a given step.              *)
LEMMA Recursion ==
  ASSUME NEW n \in Nat, NEW D, NEW a \in D, NEW F \in [D \X (1..n) -> D]
  PROVE  \E f \in [0..n -> D] : Follows(f, n, a, F)
<1> DEFINE S == {m \in 0..n : \E f \in [0..m -> D] : Follows(f, m, a, F)}
<1>1. 0 \in S
  <2>1. PICK f \in [0..0 -> D] : f = [i \in 0..0 |-> a]
    OBVIOUS
  <2>2. Follows(f, 0, a, F)
    BY <2>1 DEF Follows
  <2> QED
    BY <2>2
<1>2. ASSUME NEW m \in 0..n, m # n, m \in S PROVE m + 1 \in S
  <2>1. PICK f \in [0..m -> D] : Follows(f, m, a, F)
    BY <1>2
  <2>2. PICK g : g = [i \in 0..(m + 1) |-> IF i = m + 1 THEN F[<<f[m], i>>] ELSE f[i]]
    OBVIOUS
  <2>3. F[<<f[m], m + 1>>] \in D
    BY <1>2
  <2>4. /\ g \in [0..(m + 1) -> D] /\ g[0] = f[0] /\ g[m + 1] = F[<<f[m], m + 1>>]
        /\ \A i \in 0..m : g[i] = f[i]
    BY <2>1, <2>2, <2>3
  <2>5. ASSUME NEW i \in 1..(m + 1) PROVE g[i] = F[<<g[i - 1], i>>]
    <3>1. CASE i = m + 1
      <4>1. g[i - 1] = f[m]
        BY <2>4, <3>1
      <4> QED
        BY <2>4, <3>1, <4>1
    <3>2. CASE i # m + 1
      <4>1. i \in 1..m /\ g[i - 1] = f[i - 1] /\ g[i] = f[i]
        BY <2>4, <3>2
      <4> QED
        BY <2>1, <4>1 DEF Follows
    <3> QED
      BY <3>1, <3>2
  <2>6. Follows(g, m + 1, a, F)
    BY <2>1, <2>4, <2>5 DEF Follows
  <2>7. m + 1 \in 0..n
    BY <1>2
  <2> QED
    BY <2>4, <2>6, <2>7
<1>3. \A i \in 0..n : i # n /\ i \in S => i + 1 \in S
  BY <1>2
<1> HIDE DEF S
<1>4. 0..n \subseteq S
  BY <1>1, <1>3, UpTo
<1> QED
  BY <1>4 DEF S

(* Sequences by their beginnings. *)
LEMMA Beginnings ==
  ASSUME NEW E, NEW s \in Seq(E)
  PROVE  /\ SubSeq(s, 1, 0) = <<>>
         /\ SubSeq(s, 1, Len(s)) = s
         /\ \A n \in 0..Len(s) : n # Len(s) =>
              SubSeq(s, 1, n + 1) = Append(SubSeq(s, 1, n), s[n + 1])
<1>1. SubSeq(s, 1, 0) = <<>>
  OBVIOUS
<1>2. SubSeq(s, 1, Len(s)) = s
  OBVIOUS
<1>3. ASSUME NEW n \in 0..Len(s), n # Len(s)
      PROVE  SubSeq(s, 1, n + 1) = Append(SubSeq(s, 1, n), s[n + 1])
  BY <1>3
<1> QED
  BY <1>1, <1>2, <1>3

------------------------------------------------------------------------------
(* Components (PathMap).                                                       *)

Named == Segments \ Unnamed

(* Components keeps the named segments, in their order. *)
LEMMA ComponentsUnfold ==
  ASSUME NEW path \in Seq(Segments)
  PROVE  \E kept \in [0..Len(path) -> Seq(Named)] :
           /\ Components(path) = kept[Len(path)]
           /\ kept[0] = <<>>
           /\ \A n \in 1..Len(path) :
                kept[n] = IF path[n] \in Unnamed THEN kept[n - 1] ELSE Append(kept[n - 1], path[n])
<1> DEFINE N == Len(path)
           D == Seq(Named)
           Step(seq, n) == IF path[n] \in Unnamed THEN seq ELSE Append(seq, path[n])
<1>1. \A seq \in D, n \in 1..N : Step(seq, n) \in D
  BY DEF Named
<1>2. PICK F \in [D \X (1..N) -> D] : F = [x \in D \X (1..N) |-> Step(x[1], x[2])]
  BY <1>1
<1>3. <<>> \in D /\ N \in Nat
  OBVIOUS
<1> HIDE DEF D, N, Step
<1>4. PICK g \in [0..N -> D] : Follows(g, N, <<>>, F)
  BY <1>3, Recursion
<1>5. ASSUME NEW n \in 1..N PROVE g[n] = Step(g[n - 1], n)
  <2>1. g[n - 1] \in D
    BY <1>3
  <2> QED
    BY <1>2, <1>4, <2>1 DEF Follows
<1>6. g = [n \in 0..N |-> IF n = 0 THEN <<>> ELSE Step(g[n - 1], n)]
  <2>1. g = [n \in 0..N |-> g[n]]
    OBVIOUS
  <2>2. ASSUME NEW n \in 0..N PROVE g[n] = IF n = 0 THEN <<>> ELSE Step(g[n - 1], n)
    <3>1. CASE n = 0
      BY <1>4, <3>1 DEF Follows
    <3>2. CASE n # 0
      BY <1>3, <1>5, <3>2
    <3> QED
      BY <3>1, <3>2
  <2> QED
    BY <2>1, <2>2
<1>7. PICK kept :
        /\ kept = CHOOSE f : f = [n \in 0..N |-> IF n = 0 THEN <<>> ELSE Step(f[n - 1], n)]
        /\ kept = [n \in 0..N |-> IF n = 0 THEN <<>> ELSE Step(kept[n - 1], n)]
  BY <1>6
<1>8. Components(path) = kept[N]
  BY <1>7 DEF Components, Step, N
<1>9. kept[0] = <<>> /\ \A n \in 1..N : kept[n] = Step(kept[n - 1], n)
  <2>1. 0 \in 0..N
    BY <1>3
  <2>2. \A n \in 1..N : n \in 0..N /\ n # 0
    BY <1>3
  <2> QED
    BY <1>7, <2>1, <2>2
<1>10. 0..N \subseteq {n \in 0..N : kept[n] \in D}
  <2> DEFINE S == {n \in 0..N : kept[n] \in D}
  <2>1. 0 \in S
    BY <1>3, <1>9
  <2>2. ASSUME NEW n \in 0..N, n # N, n \in S PROVE n + 1 \in S
    <3>1. n + 1 \in 1..N /\ (n + 1) - 1 = n
      BY <1>3, <2>2
    <3>2. kept[n + 1] = Step(kept[n], n + 1)
      BY <1>9, <3>1
    <3> QED
      BY <1>1, <2>2, <3>1, <3>2
  <2>3. \A n \in 0..N : n # N /\ n \in S => n + 1 \in S
    BY <2>2
  <2> HIDE DEF S
  <2> QED
    BY <1>3, <2>1, <2>3, UpTo DEF S
<1>11. kept \in [0..N -> D]
  BY <1>7, <1>10
<1> QED
  BY <1>8, <1>9, <1>11 DEF D, Step, N

(* Its result is a sequence of named segments.                                 *)
LEMMA ComponentsTyped ==
  ASSUME NEW path \in Seq(Segments)
  PROVE  Components(path) \in Seq(Named)
  BY ComponentsUnfold

(* What is displayed is read back. *)
LEMMA ComponentsOfDisplay ==
  ASSUME NEW parts \in Seq(Named), parts # <<>>
  PROVE  Display(parts) \in Seq(Segments) /\ Components(Display(parts)) = parts
<1>1. PICK path : path = <<Empty>> \o parts
  OBVIOUS
<1>2. /\ path \in Seq(Segments) /\ Len(path) = Len(parts) + 1 /\ path[1] \in Unnamed
      /\ \A n \in 1..Len(parts) : path[n + 1] = parts[n]
  <2>1. <<Empty>> \in Seq(Segments) /\ parts \in Seq(Segments)
    BY SegmentsAssumption, SeqMonotonic DEF Named
  <2> QED
    BY <1>1, <2>1, ConcatProperties DEF Unnamed
<1>3. PICK kept \in [0..Len(path) -> Seq(Named)] :
           /\ Components(path) = kept[Len(path)]
           /\ kept[0] = <<>>
           /\ \A n \in 1..Len(path) :
                kept[n] = IF path[n] \in Unnamed THEN kept[n - 1] ELSE Append(kept[n - 1], path[n])
  BY <1>2, ComponentsUnfold
<1> DEFINE N == Len(parts)
           S == {n \in 0..N : kept[n + 1] = SubSeq(parts, 1, n)}
<1>4. 0 \in S
  <2>1. kept[1] = kept[0]
    BY <1>2, <1>3
  <2>2. 0 \in 0..N /\ 0 + 1 = 1
    OBVIOUS
  <2> QED
    BY <1>3, <2>1, <2>2, Beginnings
<1>5. ASSUME NEW n \in 0..N, n # N, n \in S PROVE n + 1 \in S
  <2>1. n + 2 \in 1..Len(path) /\ path[n + 2] = parts[n + 1] /\ n + 1 \in 1..N
    BY <1>2, <1>5
  <2>2. parts[n + 1] \in Named
    BY <2>1
  <2>3. kept[n + 2] = Append(kept[n + 1], parts[n + 1])
    <3>1. (n + 2) - 1 = n + 1 /\ path[n + 2] \notin Unnamed
      BY <2>1, <2>2 DEF Named
    <3> QED
      BY <1>3, <2>1, <3>1
  <2>4. SubSeq(parts, 1, n + 1) = Append(SubSeq(parts, 1, n), parts[n + 1])
    BY <1>5, Beginnings
  <2>5. (n + 1) + 1 = n + 2 /\ n + 1 \in 0..N /\ kept[n + 1] = SubSeq(parts, 1, n)
    BY <1>5
  <2> QED
    BY <2>3, <2>4, <2>5
<1>6. \A n \in 0..N : n # N /\ n \in S => n + 1 \in S
  BY <1>5
<1>7. N \in Nat
  OBVIOUS
<1> HIDE DEF S
<1>8. 0..N \subseteq S
  BY <1>4, <1>6, <1>7, UpTo
<1>9. kept[N + 1] = parts
  <2>1. N \in 0..N
    OBVIOUS
  <2>2. kept[N + 1] = SubSeq(parts, 1, N)
    BY <1>8, <2>1 DEF S
  <2> QED
    BY <2>2, Beginnings
<1> QED
  BY <1>1, <1>2, <1>3, <1>9 DEF Display

------------------------------------------------------------------------------
(* Bytes (Plan).                                                               *)

(* What every step of a recursive function preserves holds of all its values.  *)
LEMMA Along ==
  ASSUME NEW n \in Nat, NEW D, NEW f, f[0] \in D, \A i \in 1..n : f[i - 1] \in D => f[i] \in D
  PROVE  \A i \in 0..n : f[i] \in D
<1> DEFINE S == {i \in 0..n : f[i] \in D}
<1>1. 0 \in S
  OBVIOUS
<1>2. ASSUME NEW i \in 0..n, i # n, i \in S PROVE i + 1 \in S
  <2>1. i + 1 \in 1..n /\ (i + 1) - 1 = i
    BY <1>2
  <2> QED
    BY <1>2, <2>1
<1>3. \A i \in 0..n : i # n /\ i \in S => i + 1 \in S
  BY <1>2
<1> HIDE DEF S
<1> QED
  BY <1>1, <1>3, UpTo DEF S

(* Bytes adds up the sizes one by one.                                         *)
LEMMA BytesUnfold ==
  ASSUME NEW E, \A e \in E : e.bytes \in Nat, NEW s \in Seq(E)
  PROVE  \E sum \in [0..Len(s) -> Nat] :
           /\ Bytes(s) = sum[Len(s)]
           /\ sum[0] = 0
           /\ \A n \in 1..Len(s) : sum[n] = sum[n - 1] + s[n].bytes
<1> DEFINE N == Len(s)
           Step(sum, n) == sum + s[n].bytes
<1>1. \A sum \in Nat, n \in 1..N : Step(sum, n) \in Nat
  OBVIOUS
<1>2. PICK F \in [Nat \X (1..N) -> Nat] : F = [x \in Nat \X (1..N) |-> Step(x[1], x[2])]
  BY <1>1
<1>3. N \in Nat
  OBVIOUS
<1> HIDE DEF N, Step
<1>4. PICK g \in [0..N -> Nat] : Follows(g, N, 0, F)
  BY <1>3, Recursion
<1>5. ASSUME NEW n \in 1..N PROVE g[n] = Step(g[n - 1], n)
  <2>1. g[n - 1] \in Nat
    BY <1>3
  <2> QED
    BY <1>2, <1>4, <2>1 DEF Follows
<1>6. g = [n \in 0..N |-> IF n = 0 THEN 0 ELSE Step(g[n - 1], n)]
  <2>1. g = [n \in 0..N |-> g[n]]
    OBVIOUS
  <2>2. ASSUME NEW n \in 0..N PROVE g[n] = IF n = 0 THEN 0 ELSE Step(g[n - 1], n)
    <3>1. CASE n = 0
      BY <1>4, <3>1 DEF Follows
    <3>2. CASE n # 0
      BY <1>3, <1>5, <3>2
    <3> QED
      BY <3>1, <3>2
  <2> QED
    BY <2>1, <2>2
<1>7. PICK sum : /\ sum = CHOOSE f : f = [n \in 0..N |-> IF n = 0 THEN 0 ELSE Step(f[n - 1], n)]
                 /\ sum = [n \in 0..N |-> IF n = 0 THEN 0 ELSE Step(sum[n - 1], n)]
  BY <1>6
<1>8. Bytes(s) = sum[N]
  BY <1>7 DEF Bytes, Step, N
<1>9. sum[0] = 0 /\ \A n \in 1..N : sum[n] = Step(sum[n - 1], n)
  <2>1. 0 \in 0..N
    BY <1>3
  <2>2. \A n \in 1..N : n \in 0..N /\ n # 0
    BY <1>3
  <2> QED
    BY <1>7, <2>1, <2>2
<1>10. \A n \in 0..N : sum[n] \in Nat
  <2>1. sum[0] \in Nat /\ \A n \in 1..N : sum[n - 1] \in Nat => sum[n] \in Nat
    BY <1>1, <1>9
  <2> QED
    BY <1>3, <2>1, Along
<1>11. sum \in [0..N -> Nat]
  BY <1>7, <1>10
<1> QED
  BY <1>8, <1>9, <1>11 DEF Step, N

(* Sizes add up. *)
LEMMA BytesFacts ==
  ASSUME NEW E, \A e \in E : e.bytes \in Nat, NEW s \in Seq(E)
  PROVE  /\ Bytes(<<>>) = 0
         /\ Bytes(s) \in Nat
         /\ \A e \in E : Bytes(Append(s, e)) = Bytes(s) + e.bytes
<1>1. Bytes(<<>>) = 0
  <2>1. <<>> \in Seq(E) /\ Len(<<>>) = 0
    OBVIOUS
  <2> QED
    BY <2>1, BytesUnfold
<1>2. PICK sum \in [0..Len(s) -> Nat] :
           /\ Bytes(s) = sum[Len(s)]
           /\ sum[0] = 0
           /\ \A n \in 1..Len(s) : sum[n] = sum[n - 1] + s[n].bytes
  BY BytesUnfold
<1>3. Bytes(s) \in Nat
  BY <1>2
<1>4. ASSUME NEW e \in E PROVE Bytes(Append(s, e)) = Bytes(s) + e.bytes
  <2>1. PICK t \in Seq(E) : t = Append(s, e)
    OBVIOUS
  <2>2. PICK N \in Nat : N = Len(s)
    OBVIOUS
  <2>3. Len(t) = N + 1 /\ t[N + 1] = e /\ \A n \in 1..N : t[n] = s[n]
    BY <2>1, <2>2
  <2>4. PICK more \in [0..Len(t) -> Nat] :
           /\ Bytes(t) = more[Len(t)]
           /\ more[0] = 0
           /\ \A n \in 1..Len(t) : more[n] = more[n - 1] + t[n].bytes
    BY BytesUnfold
  <2> DEFINE S == {n \in 0..N : more[n] = sum[n]}
  <2>5. 0 \in S
    BY <1>2, <2>4
  <2>6. ASSUME NEW n \in 0..N, n # N, n \in S PROVE n + 1 \in S
    <3>1. n + 1 \in 1..N /\ n + 1 \in 1..(N + 1) /\ (n + 1) - 1 = n
      BY <2>6
    <3>2. more[n + 1] = more[n] + t[n + 1].bytes
      BY <2>3, <2>4, <3>1
    <3>3. sum[n + 1] = sum[n] + s[n + 1].bytes
      BY <1>2, <2>2, <3>1
    <3> QED
      BY <2>3, <2>6, <3>1, <3>2, <3>3
  <2>7. \A n \in 0..N : n # N /\ n \in S => n + 1 \in S
    BY <2>6
  <2> HIDE DEF S
  <2>8. 0..N \subseteq S
    BY <2>5, <2>7, UpTo
  <2>9. more[N] = sum[N]
    BY <2>8 DEF S
  <2>10. more[N + 1] = more[N] + t[N + 1].bytes
    BY <2>3, <2>4
  <2> QED
    BY <1>2, <2>1, <2>2, <2>3, <2>4, <2>9, <2>10
<1> QED
  BY <1>1, <1>3, <1>4

------------------------------------------------------------------------------
(* Flattening.                                                                 *)

(* FlattenSeq concatenates one sequence after the other.                       *)
LEMMA FlattenUnfold ==
  ASSUME NEW E, NEW s \in Seq(Seq(E)), s # <<>>
  PROVE  \E flat \in [1..Len(s) -> Seq(E)] :
           /\ FlattenSeq(s) = flat[Len(s)]
           /\ flat[1] = s[1]
           /\ \A n \in 2..Len(s) : flat[n] = flat[n - 1] \o s[n]
<1> DEFINE N == Len(s)
           D == Seq(E)
           Step(seq, n) == seq \o s[n]
<1>1. \A seq \in D, n \in 1..N : Step(seq, n) \in D
  <2>1. \A n \in 1..N : s[n] \in Seq(E)
    OBVIOUS
  <2> QED
    BY <2>1, ConcatProperties
<1>2. PICK F \in [D \X (1..N) -> D] : F = [x \in D \X (1..N) |-> Step(x[1], x[2])]
  BY <1>1
<1>3. <<>> \in D /\ N \in Nat /\ N # 0 /\ s[1] \in D
  OBVIOUS
<1>4. Step(<<>>, 1) = s[1]
  BY <1>3, ConcatEmptySeq
<1> HIDE DEF N, Step, D
<1>5. PICK g \in [0..N -> D] : Follows(g, N, <<>>, F)
  BY <1>3, Recursion
<1>6. ASSUME NEW n \in 1..N PROVE g[n] = Step(g[n - 1], n)
  <2>1. g[n - 1] \in D
    BY <1>3
  <2> QED
    BY <1>2, <1>5, <2>1 DEF Follows
<1>7. PICK h : h = [n \in 1..N |-> g[n]]
  OBVIOUS
<1>8. h = [n \in 1..N |-> IF n = 1 THEN s[n] ELSE Step(h[n - 1], n)]
  <2>1. ASSUME NEW n \in 1..N PROVE g[n] = IF n = 1 THEN s[n] ELSE Step(h[n - 1], n)
    <3>1. CASE n = 1
      BY <1>3, <1>4, <1>5, <1>6, <3>1 DEF Follows
    <3>2. CASE n # 1
      <4>1. n - 1 \in 1..N
        BY <1>3, <3>2
      <4> QED
        BY <1>6, <1>7, <3>2, <4>1
    <3> QED
      BY <3>1, <3>2
  <2> QED
    BY <1>7, <2>1
<1> DEFINE IsFlat(f) == f = [n \in 1..N |-> IF n = 1 THEN s[n] ELSE Step(f[n - 1], n)]
<1>9. PICK flat : flat = (CHOOSE f : IsFlat(f)) /\ IsFlat(flat)
  <2>1. IsFlat(h)
    BY <1>8
  <2> HIDE DEF IsFlat
  <2> QED
    BY <2>1
<1>10. FlattenSeq(s) = flat[N]
  BY <1>3, <1>9 DEF FlattenSeq, Step, N
<1>11. flat[1] = s[1] /\ \A n \in 2..N : flat[n] = Step(flat[n - 1], n)
  <2>1. 1 \in 1..N
    BY <1>3
  <2>2. \A n \in 2..N : n \in 1..N /\ n # 1
    BY <1>3
  <2> QED
    BY <1>9, <2>1, <2>2
<1>12. \A n \in 1..N : flat[n] \in D
  <2>1. PICK t : t = [n \in 0..N |-> IF n = 0 THEN <<>> ELSE flat[n]]
    OBVIOUS
  <2>2. t[0] \in D
    BY <1>3, <2>1
  <2>3. ASSUME NEW n \in 1..N, t[n - 1] \in D PROVE t[n] \in D
    <3>1. CASE n = 1
      BY <1>3, <1>11, <2>1, <3>1
    <3>2. CASE n # 1
      <4>1. n \in 2..N /\ n - 1 \in 0..N /\ n - 1 # 0 /\ n \in 0..N /\ n # 0
        BY <1>3, <3>2
      <4>2. t[n] = flat[n] /\ t[n - 1] = flat[n - 1]
        BY <2>1, <4>1
      <4> QED
        BY <1>1, <1>11, <2>3, <4>1, <4>2
    <3> QED
      BY <3>1, <3>2
  <2>4. \A n \in 0..N : t[n] \in D
    BY <1>3, <2>2, <2>3, Along
  <2>5. \A n \in 1..N : n \in 0..N /\ n # 0
    BY <1>3
  <2> QED
    BY <2>1, <2>4, <2>5
<1>13. flat \in [1..N -> D]
  BY <1>9, <1>12
<1> QED
  BY <1>10, <1>11, <1>13 DEF Step, N, D

(* A batch more is its torrents more. *)
LEMMA FlattenFacts ==
  ASSUME NEW E, NEW s \in Seq(Seq(E))
  PROVE  /\ FlattenSeq(<<>>) = <<>>
         /\ FlattenSeq(s) \in Seq(E)
         /\ \A b \in Seq(E) : FlattenSeq(Append(s, b)) = FlattenSeq(s) \o b
<1> DEFINE D == Seq(E)
<1>0. s \in Seq(D) /\ <<>> \in D /\ \A n \in 1..Len(s) : s[n] \in D
  OBVIOUS
<1> HIDE DEF D
<1>1. FlattenSeq(<<>>) = <<>>
  BY DEF FlattenSeq
<1>2. FlattenSeq(s) \in Seq(E)
  <2>1. CASE s = <<>>
    BY <1>0, <1>1, <2>1 DEF D
  <2>2. CASE s # <<>>
    <3>1. Len(s) \in 1..Len(s)
      BY <1>0, <2>2
    <3>2. PICK flat \in [1..Len(s) -> D] : FlattenSeq(s) = flat[Len(s)]
      BY <2>2, FlattenUnfold DEF D
    <3> QED
      BY <3>1, <3>2 DEF D
  <2> QED
    BY <2>1, <2>2
<1>3. ASSUME NEW b \in D PROVE FlattenSeq(Append(s, b)) = FlattenSeq(s) \o b
  <2>1. PICK t : t = Append(s, b) /\ t \in Seq(D) /\ t # <<>>
    BY <1>0, <1>3, AppendProperties
  <2>2. PICK N \in Nat : N = Len(s)
    BY <1>0
  <2>3. t # <<>> /\ Len(t) = N + 1 /\ t[N + 1] = b /\ \A n \in 1..N : t[n] = s[n]
    BY <1>0, <2>1, <2>2
  <2>4. PICK more \in [1..Len(t) -> D] :
           /\ FlattenSeq(t) = more[Len(t)]
           /\ more[1] = t[1]
           /\ \A n \in 2..Len(t) : more[n] = more[n - 1] \o t[n]
    <3>1. t \in Seq(Seq(E))
      BY <2>1 DEF D
    <3>2. \E more \in [1..Len(t) -> Seq(E)] :
             /\ FlattenSeq(t) = more[Len(t)]
             /\ more[1] = t[1]
             /\ \A n \in 2..Len(t) : more[n] = more[n - 1] \o t[n]
      <4>1. t # <<>>
        BY <2>1
      <4> QED
        BY <3>1, <4>1, FlattenUnfold
    <3> QED
      BY <3>2 DEF D
  <2>5. CASE N = 0
    <3>1. s = <<>>
      BY <1>0, <2>2, <2>5, EmptySeq
    <3>2. FlattenSeq(t) = b
      BY <2>3, <2>4, <2>5
    <3> QED
      BY <1>1, <2>1, <3>1, <3>2, ConcatEmptySeq DEF D
  <2>6. CASE N # 0
    <3>1. PICK flat \in [1..Len(s) -> D] :
           /\ FlattenSeq(s) = flat[Len(s)]
           /\ flat[1] = s[1]
           /\ \A n \in 2..Len(s) : flat[n] = flat[n - 1] \o s[n]
      <4>1. s # <<>>
        BY <2>2, <2>6
      <4> QED
        BY <4>1, FlattenUnfold DEF D
    <3> DEFINE S == {n \in 0..N : n # 0 => more[n] = flat[n]}
    <3>2. 0 \in S
      OBVIOUS
    <3>3. ASSUME NEW n \in 0..N, n # N, n \in S PROVE n + 1 \in S
      <4>1. n + 1 \in 0..N /\ (n + 1) - 1 = n
        BY <3>3
      <4>2. CASE n = 0
        BY <2>2, <2>3, <2>4, <2>6, <3>1, <4>1, <4>2
      <4>3. CASE n # 0
        <5>1. n + 1 \in 2..N /\ n + 1 \in 2..(N + 1) /\ n + 1 \in 1..N
          BY <3>3, <4>3
        <5>2. more[n + 1] = more[n] \o t[n + 1]
          BY <2>3, <2>4, <4>1, <5>1
        <5>3. flat[n + 1] = flat[n] \o s[n + 1]
          BY <2>2, <3>1, <4>1, <5>1
        <5> QED
          BY <2>3, <3>3, <4>1, <4>3, <5>1, <5>2, <5>3
      <4> QED
        BY <4>2, <4>3
    <3>4. \A n \in 0..N : n # N /\ n \in S => n + 1 \in S
      BY <3>3
    <3> HIDE DEF S
    <3>5. N \in S
      <4>1. 0..N \subseteq S
        BY <3>2, <3>4, UpTo
      <4> QED
        BY <4>1
    <3>6. more[N] = flat[N]
      BY <2>6, <3>5 DEF S
    <3>7. N + 1 \in 2..(N + 1) /\ (N + 1) - 1 = N
      BY <2>6
    <3>8. more[N + 1] = more[N] \o t[N + 1]
      BY <2>3, <2>4, <3>7
    <3> QED
      BY <2>1, <2>2, <2>3, <2>4, <3>1, <3>6, <3>8
  <2> QED
    BY <2>5, <2>6
<1> QED
  BY <1>1, <1>2, <1>3 DEF D

------------------------------------------------------------------------------
(* The sort by size (Plan).                                                    *)

(* Torrents that can be sorted: numbers for sizes, and one torrent to a        *)
(* number.                                                                     *)
IsListing(S) ==
  /\ IsFiniteSet(S)
  /\ \A e \in S : e.id \in Nat /\ e.bytes \in Nat
  /\ \A d, e \in S : d.id = e.id => d = e

(* The order of the sort is a strict and total one, hence the sort unique.     *)
LEMMA BeforeIsAnOrder ==
  ASSUME NEW S, IsListing(S)
  PROVE  /\ \A e \in S : ~IsBefore(e, e)
         /\ \A c, d, e \in S : IsBefore(c, d) /\ IsBefore(d, e) => IsBefore(c, e)
         /\ \A d, e \in S : d # e => IsBefore(d, e) \/ IsBefore(e, d)
  BY DEF IsListing, IsBefore

(* The sort puts every element of a listing in one place, the smallest first.  *)
LEMMA SmallestFirstSorts ==
  ASSUME NEW S, IsListing(S)
  PROVE  /\ SmallestFirst(S) \in [1..Cardinality(S) -> S]
         /\ \A i, j \in 1..Cardinality(S) :
              i < j => IsBefore(SmallestFirst(S)[i], SmallestFirst(S)[j])
         /\ \A e \in S : \E i \in 1..Cardinality(S) : SmallestFirst(S)[i] = e
<1> DEFINE N == Cardinality(S)
           Earlier(e) == {d \in S : IsBefore(d, e)}
<1>1. IsFiniteSet(S) /\ N \in Nat
  BY FS_CardinalityType DEF IsListing
<1>2. ASSUME NEW e \in S
      PROVE  Earlier(e) \subseteq S \ {e} /\ Cardinality(Earlier(e)) \in 0..(N - 1)
  <2>1. Earlier(e) \subseteq S \ {e}
    BY BeforeIsAnOrder
  <2>2. IsFiniteSet(S \ {e}) /\ Cardinality(S \ {e}) = N - 1
    BY <1>1, FS_RemoveElement
  <2> HIDE DEF Earlier, N
  <2>3. IsFiniteSet(Earlier(e)) /\ Cardinality(Earlier(e)) <= N - 1
    BY <2>1, <2>2, FS_Subset
  <2>4. Cardinality(Earlier(e)) \in Nat
    BY <2>3, FS_CardinalityType
  <2> QED
    BY <1>1, <2>1, <2>3, <2>4
<1>3. ASSUME NEW d \in S, NEW e \in S, IsBefore(d, e)
      PROVE  Cardinality(Earlier(d)) < Cardinality(Earlier(e))
  <2>1. Earlier(d) \cup {d} \subseteq Earlier(e)
    BY <1>3, BeforeIsAnOrder
  <2>2. d \notin Earlier(d) /\ Earlier(d) \subseteq S /\ Earlier(e) \subseteq S
    BY BeforeIsAnOrder
  <2> HIDE DEF Earlier
  <2>3. IsFiniteSet(Earlier(d)) /\ IsFiniteSet(Earlier(e))
    BY <1>1, <2>2, FS_Subset
  <2>4. Cardinality(Earlier(d) \cup {d}) = Cardinality(Earlier(d)) + 1
    BY <2>2, <2>3, FS_AddElement
  <2>5. Cardinality(Earlier(d) \cup {d}) <= Cardinality(Earlier(e))
    BY <2>1, <2>3, FS_Subset
  <2>6. Cardinality(Earlier(d)) \in Nat /\ Cardinality(Earlier(e)) \in Nat
    BY <2>3, FS_CardinalityType
  <2> QED
    BY <2>4, <2>5, <2>6
<1>4. PICK r : r = [e \in S |-> Cardinality(Earlier(e))]
  OBVIOUS
<1>5. r \in [S -> 0..(N - 1)] /\ \A e \in S : r[e] = Cardinality(Earlier(e))
  BY <1>2, <1>4
<1>6. \A d, e \in S : IsBefore(d, e) => r[d] < r[e]
  BY <1>3, <1>5
<1> HIDE DEF Earlier, N
<1>7. \A n \in 1..N : \E e \in S : r[e] = n - 1
  <2>1. ASSUME NEW d \in S, NEW e \in S, r[d] = r[e] PROVE d = e
    <3>1. r[d] \in 0..(N - 1)
      BY <1>5
    <3> QED
      BY <1>6, <2>1, <3>1, BeforeIsAnOrder
  <2>2. r \in Injection(S, 0..(N - 1))
    BY <1>5, <2>1 DEF Injection, IsInjective
  <2>3. IsFiniteSet(0..(N - 1)) /\ Cardinality(0..(N - 1)) = N
    BY <1>1, FS_Interval
  <2>4. r \in Surjection(S, 0..(N - 1))
    BY <2>2, <2>3, FS_Injection DEF N
  <2>5. \A n \in 1..N : n - 1 \in 0..(N - 1)
    BY <1>1
  <2> QED
    BY <2>4, <2>5 DEF Surjection
<1>8. PICK s : s = SmallestFirst(S)
  OBVIOUS
<1>9. s = [n \in 1..N |-> CHOOSE e \in S : r[e] = n - 1]
  <2>1. \A n \in 1..N : (CHOOSE e \in S : r[e] = n - 1)
                        = CHOOSE e \in S : Cardinality(Earlier(e)) = n - 1
    BY <1>5
  <2>2. s = [n \in 1..N |-> CHOOSE e \in S : Cardinality(Earlier(e)) = n - 1]
    BY <1>8 DEF SmallestFirst, Earlier, N
  <2> QED
    BY <2>1, <2>2
<1>10. \A n \in 1..N : s[n] \in S /\ r[s[n]] = n - 1
  BY <1>7, <1>9
<1>11. s \in [1..N -> S]
  BY <1>9, <1>10
<1>12. ASSUME NEW i \in 1..N, NEW j \in 1..N, i < j PROVE IsBefore(s[i], s[j])
  <2>1. s[i] \in S /\ s[j] \in S /\ r[s[i]] = i - 1 /\ r[s[j]] = j - 1
    BY <1>10
  <2>2. s[i] # s[j]
    BY <1>12, <2>1
  <2>3. ~IsBefore(s[j], s[i])
    <3> SUFFICES ASSUME IsBefore(s[j], s[i]) PROVE FALSE
      OBVIOUS
    <3>1. r[s[j]] < r[s[i]]
      BY <1>6, <2>1
    <3> QED
      BY <1>1, <1>12, <2>1, <3>1
  <2> QED
    BY <2>1, <2>2, <2>3, BeforeIsAnOrder
<1>13. ASSUME NEW e \in S PROVE \E i \in 1..N : s[i] = e
  <2>1. PICK i \in 1..N : i = r[e] + 1
    <3>1. r[e] + 1 \in 1..N
      BY <1>1, <1>5
    <3> QED
      BY <3>1
  <2>2. s[i] \in S /\ r[s[i]] = r[e]
    <3>1. r[e] = i - 1
      BY <1>1, <1>5, <2>1
    <3> QED
      BY <1>10, <3>1
  <2>3. s[i] = e
    <3>1. r[e] \in 0..(N - 1)
      BY <1>5
    <3> QED
      BY <1>6, <2>2, <3>1, BeforeIsAnOrder
  <2> QED
    BY <2>3
<1> QED
  BY <1>8, <1>11, <1>12, <1>13 DEF N

------------------------------------------------------------------------------
(* Packing (Plan).                                                             *)

Sized(E) == \A e \in E : e.bytes \in Nat

(* What BatchesFillTheBudget says of the batches of a plan. *)
Fills(batches, budget) ==
  \A i \in DOMAIN batches :
    /\ batches[i] # <<>>
    /\ Len(batches[i]) > 1 => Bytes(batches[i]) <= budget
    /\ i > 1 => Bytes(batches[i - 1]) + Head(batches[i]).bytes > budget

(* What pack has done after its first n items. *)
Packing(E, items, budget, b, c, u, n) ==
  /\ b \in Seq(Seq(E)) /\ c \in Seq(E)
  /\ u = Bytes(c)
  /\ FlattenSeq(b) \o c = SubSeq(items, 1, n)
  /\ Fills(b, budget)
  /\ Len(c) > 1 => u <= budget
  /\ c = <<>> => b = <<>> /\ n = 0
  /\ b # <<>> => Bytes(b[Len(b)]) + Head(c).bytes > budget

(* Packing begins with nothing packed.                                         *)
LEMMA PackingBegins ==
  ASSUME NEW E, Sized(E), NEW items \in Seq(E), NEW budget \in Nat
  PROVE  Packing(E, items, budget, <<>>, <<>>, 0, 0)
<1>1. <<>> \in Seq(Seq(E)) /\ <<>> \in Seq(E) /\ Len(<<>>) = 0 /\ DOMAIN <<>> = {}
  OBVIOUS
<1>2. Bytes(<<>>) = 0 /\ FlattenSeq(<<>>) = <<>>
  BY <1>1, BytesFacts, FlattenFacts DEF Sized
<1>3. <<>> \o <<>> = SubSeq(items, 1, 0)
  BY <1>1, Beginnings, ConcatEmptySeq
<1>4. Fills(<<>>, budget)
  BY <1>1 DEF Fills
<1>5. ~(Len(<<>>) > 1)
  BY <1>1
<1>6. <<>> # <<>> => Bytes(<<>>[Len(<<>>)]) + Head(<<>>).bytes > budget
  OBVIOUS
<1>7. FlattenSeq(<<>>) \o <<>> = SubSeq(items, 1, 0)
  BY <1>2, <1>3
<1> QED
  BY <1>1, <1>2, <1>4, <1>5, <1>6, <1>7, Zenon DEF Packing

(* Appending to the last batch is appending to all of them.                    *)
LEMMA AppendAfter ==
  ASSUME NEW E, NEW s \in Seq(E), NEW c \in Seq(E), NEW e \in E
  PROVE  s \o Append(c, e) = Append(s \o c, e) /\ Append(s \o c, e) = (s \o c) \o <<e>>
<1>1. PICK w \in Seq(E) : w = <<e>>
  <2>1. <<e>> \in Seq(E)
    OBVIOUS
  <2> QED
    BY <2>1
<1>2. Append(c, e) = c \o w /\ s \o c \in Seq(E)
  BY <1>1, AppendIsConcat, ConcatProperties
<1>3. Append(s \o c, e) = (s \o c) \o w
  BY <1>1, <1>2, AppendIsConcat
<1>4. s \o (c \o w) = (s \o c) \o w
  BY ConcatAssociative, SMT
<1> QED
  BY <1>1, <1>2, <1>3, <1>4

(* The first n items and the next one are the first n + 1.                     *)
LEMMA OneMore ==
  ASSUME NEW E, NEW items \in Seq(E), NEW n \in 0..Len(items), n # Len(items),
         NEW s \in Seq(E), NEW c \in Seq(E), s \o c = SubSeq(items, 1, n)
  PROVE  /\ items[n + 1] \in E
         /\ s \o Append(c, items[n + 1]) = SubSeq(items, 1, n + 1)
         /\ (s \o c) \o <<items[n + 1]>> = SubSeq(items, 1, n + 1)
<1>1. items[n + 1] \in E
  OBVIOUS
<1>2. Append(SubSeq(items, 1, n), items[n + 1]) = SubSeq(items, 1, n + 1)
  BY Beginnings
<1> QED
  BY <1>1, <1>2, AppendAfter

(* The batch that is open can be closed at any time. *)
LEMMA PackingEnds ==
  ASSUME NEW E, NEW items, NEW budget, NEW b, NEW c, NEW u, NEW n,
         Packing(E, items, budget, b, c, u, n), c # <<>>
  PROVE  LET t == Append(b, c)
         IN t \in Seq(Seq(E)) /\ Fills(t, budget) /\ t # <<>> /\ t[Len(t)] = c
<1> DEFINE D == Seq(E)
<1>1. b \in Seq(D) /\ c \in D
  BY DEF Packing
<1> HIDE DEF D
<1>2. PICK t : t = Append(b, c)
  OBVIOUS
<1>3. /\ t \in Seq(D) /\ t # <<>> /\ Len(t) = Len(b) + 1 /\ t[Len(t)] = c
      /\ DOMAIN t = 1..(Len(b) + 1) /\ DOMAIN b = 1..Len(b)
      /\ Len(b) \in Nat
      /\ \A i \in 1..Len(b) : t[i] = b[i]
  <2>1. t \in Seq(D) /\ t # <<>> /\ Len(t) = Len(b) + 1
        /\ (\A i \in 1..Len(b) : t[i] = b[i]) /\ t[Len(b) + 1] = c
    BY <1>1, <1>2, AppendProperties
  <2>2. Len(b) \in Nat /\ DOMAIN b = 1..Len(b)
    BY <1>1, LenProperties
  <2>3. DOMAIN t = 1..Len(t)
    BY <2>1, LenProperties
  <2> QED
    BY <2>1, <2>2, <2>3
<1>4. Fills(t, budget)
  <2>1. ASSUME NEW i \in 1..Len(b)
        PROVE  /\ t[i] # <<>>
               /\ Len(t[i]) > 1 => Bytes(t[i]) <= budget
               /\ i > 1 => Bytes(t[i - 1]) + Head(t[i]).bytes > budget
    <3>1. t[i] = b[i] /\ (i > 1 => t[i - 1] = b[i - 1])
      BY <1>3
    <3> QED
      BY <1>3, <3>1 DEF Packing, Fills
  <2>2. c # <<>> /\ (Len(c) > 1 => Bytes(c) <= budget)
    BY DEF Packing
  <2>3. Len(b) + 1 > 1 => Bytes(t[(Len(b) + 1) - 1]) + Head(c).bytes > budget
    <3> SUFFICES ASSUME Len(b) + 1 > 1 PROVE Bytes(t[(Len(b) + 1) - 1]) + Head(c).bytes > budget
      OBVIOUS
    <3>1. b # <<>> /\ t[(Len(b) + 1) - 1] = b[Len(b)]
      BY <1>1, <1>3
    <3> QED
      BY <3>1 DEF Packing
  <2>4. \A i \in DOMAIN t : i \in 1..Len(b) \/ (i = Len(b) + 1 /\ t[i] = c)
    BY <1>3
  <2> QED
    BY <2>1, <2>2, <2>3, <2>4 DEF Fills
<1>5. t \in Seq(Seq(E))
  BY <1>3 DEF D
<1> QED
  BY <1>2, <1>3, <1>4, <1>5

(* A batch is closed: it is full, for the next torrent would overflow it.      *)
LEMMA PackingCloses ==
  ASSUME NEW E, Sized(E), NEW items \in Seq(E), NEW budget \in Nat,
         NEW b, NEW c, NEW u, NEW n \in 0..Len(items), n # Len(items),
         Packing(E, items, budget, b, c, u, n),
         c # <<>>, u + items[n + 1].bytes > budget
  PROVE  Packing(E, items, budget, Append(b, c), <<items[n + 1]>>, items[n + 1].bytes, n + 1)
<1> DEFINE D == Seq(E)
<1>1. b \in Seq(D) /\ c \in D /\ FlattenSeq(b) \in D /\ D = Seq(E)
  BY FlattenFacts DEF Packing
<1>2. PICK item \in E : item = items[n + 1]
  OBVIOUS
<1>3. <<item>> \in D /\ <<item>> # <<>> /\ Len(<<item>>) = 1 /\ Head(<<item>>) = item
  OBVIOUS
<1>4. Bytes(<<item>>) = item.bytes
  <2>1. <<>> \in Seq(E) /\ Append(<<>>, item) = <<item>>
    OBVIOUS
  <2>2. Bytes(<<item>>) = Bytes(<<>>) + item.bytes
    BY <2>1, BytesFacts DEF Sized
  <2> QED
    BY <2>1, <2>2, BytesFacts DEF Sized
<1>5. FlattenSeq(Append(b, c)) \o <<item>> = SubSeq(items, 1, n + 1)
  <2>1. FlattenSeq(Append(b, c)) = FlattenSeq(b) \o c
    BY <1>1, FlattenFacts
  <2> QED
    BY <1>1, <1>2, <2>1, OneMore DEF Packing
<1> HIDE DEF D
<1>6. PICK t : t = Append(b, c)
  OBVIOUS
<1>7. t \in Seq(Seq(E)) /\ Fills(t, budget) /\ t # <<>> /\ t[Len(t)] = c
  BY <1>6, PackingEnds
<1>9. Bytes(t[Len(t)]) + Head(<<item>>).bytes > budget
  BY <1>2, <1>3, <1>7 DEF Packing
<1>10. t \in Seq(Seq(E)) /\ <<item>> \in Seq(E)
  BY <1>3, <1>7 DEF D
<1>11. Packing(E, items, budget, t, <<item>>, item.bytes, n + 1)
  <2>1. PICK w : w = <<item>>
    OBVIOUS
  <2>2. /\ w \in Seq(E) /\ w # <<>> /\ ~(Len(w) > 1) /\ Bytes(w) = item.bytes
        /\ FlattenSeq(t) \o w = SubSeq(items, 1, n + 1)
        /\ Bytes(t[Len(t)]) + Head(w).bytes > budget
    <3>1. w \in Seq(E)
      BY <1>10, <2>1
    <3>2. w # <<>> /\ ~(Len(w) > 1)
      BY <1>3, <2>1
    <3>3. Bytes(w) = item.bytes
      BY <1>4, <2>1
    <3>4. FlattenSeq(t) \o w = SubSeq(items, 1, n + 1)
      BY <1>5, <1>6, <2>1
    <3>5. Bytes(t[Len(t)]) + Head(w).bytes > budget
      BY <1>9, <2>1
    <3> QED
      BY <3>1, <3>2, <3>3, <3>4, <3>5
  <2>3. Packing(E, items, budget, t, w, item.bytes, n + 1)
    BY <1>7, <2>2 DEF Packing
  <2> QED
    BY <2>1, <2>3
<1> QED
  BY <1>2, <1>6, <1>11

(* A batch grows. *)
LEMMA PackingGrows ==
  ASSUME NEW E, Sized(E), NEW items \in Seq(E), NEW budget \in Nat,
         NEW b, NEW c, NEW u, NEW n \in 0..Len(items), n # Len(items),
         Packing(E, items, budget, b, c, u, n),
         ~(c # <<>> /\ u + items[n + 1].bytes > budget)
  PROVE  Packing(E, items, budget, b, Append(c, items[n + 1]), u + items[n + 1].bytes, n + 1)
<1>1. PICK item \in E : item = items[n + 1]
  OBVIOUS
<1>2. PICK t : t = Append(c, item)
  OBVIOUS
<1>3. c \in Seq(E) /\ Bytes(c) \in Nat /\ item.bytes \in Nat /\ FlattenSeq(b) \in Seq(E)
  BY BytesFacts, FlattenFacts DEF Packing, Sized
<1>4. t \in Seq(E) /\ t # <<>> /\ Len(t) = Len(c) + 1 /\ Len(c) \in Nat
  BY <1>2, <1>3
<1>5. u + item.bytes = Bytes(t)
  BY <1>2, <1>3, BytesFacts DEF Packing, Sized
<1>6. FlattenSeq(b) \o t = SubSeq(items, 1, n + 1)
  BY <1>1, <1>2, <1>3, OneMore DEF Packing
<1>7. Len(t) > 1 => u + item.bytes <= budget
  <2> SUFFICES ASSUME Len(t) > 1 PROVE u + item.bytes <= budget
    OBVIOUS
  <2>1. c # <<>>
    BY <1>4
  <2>2. ~(u + item.bytes > budget)
    BY <1>1, <2>1
  <2>3. u \in Nat
    BY <1>3 DEF Packing
  <2> QED
    BY <1>3, <2>2, <2>3
<1>8. b # <<>> => Bytes(b[Len(b)]) + Head(t).bytes > budget
  <2> SUFFICES ASSUME b # <<>> PROVE Bytes(b[Len(b)]) + Head(t).bytes > budget
    OBVIOUS
  <2>1. c # <<>>
    BY DEF Packing
  <2>2. Head(t) = Head(c)
    BY <1>2, <1>3, <2>1, HeadTailAppend
  <2> QED
    BY <2>2 DEF Packing
<1>9. Packing(E, items, budget, b, t, u + item.bytes, n + 1)
  BY <1>4, <1>5, <1>6, <1>7, <1>8 DEF Packing
<1> QED
  BY <1>1, <1>2, <1>9

Stage(E) == [batches : Seq(Seq(E)), current : Seq(E), used : Nat]

(* One step of pack: the item goes into the open batch or closes it.           *)
LEMMA PutPacks ==
  ASSUME NEW E, Sized(E), NEW items \in Seq(E), NEW budget \in Nat,
         NEW acc \in Stage(E), NEW n \in 0..Len(items), n # Len(items),
         Packing(E, items, budget, acc.batches, acc.current, acc.used, n),
         NEW next, next = Put(acc, items[n + 1], budget)
  PROVE  Packing(E, items, budget, next.batches, next.current, next.used, n + 1)
<1>1. PICK item : item = items[n + 1]
  OBVIOUS
<1>2. CASE acc.current # <<>> /\ acc.used + item.bytes > budget
  <2>1. next = [batches |-> Append(acc.batches, acc.current), current |-> <<item>>,
                used |-> item.bytes]
    BY <1>1, <1>2 DEF Put
  <2>2. Packing(E, items, budget, Append(acc.batches, acc.current), <<item>>, item.bytes, n + 1)
    BY <1>1, <1>2, PackingCloses
  <2> QED
    BY <2>1, <2>2
<1>3. CASE ~(acc.current # <<>> /\ acc.used + item.bytes > budget)
  <2>1. next = [acc EXCEPT !.current = Append(@, item), !.used = @ + item.bytes]
    BY <1>1, <1>3 DEF Put
  <2>2. /\ next.batches = acc.batches /\ next.current = Append(acc.current, item)
        /\ next.used = acc.used + item.bytes
    BY <2>1 DEF Stage, Unpacked
  <2>3. Packing(E, items, budget, acc.batches, Append(acc.current, item), acc.used + item.bytes,
                n + 1)
    BY <1>1, <1>3, PackingGrows
  <2> QED
    BY <2>2, <2>3
<1> QED
  BY <1>2, <1>3

(* ... and leaves batches of items and a sum.                                  *)
LEMMA PutTyped ==
  ASSUME NEW E, Sized(E), NEW acc \in Stage(E), NEW item \in E, NEW budget \in Nat
  PROVE  Put(acc, item, budget) \in Stage(E)
<1>1. item.bytes \in Nat /\ <<item>> \in Seq(E) /\ Append(acc.current, item) \in Seq(E)
  BY AppendProperties DEF Sized, Stage
<1>2. PICK b : b = Append(acc.batches, acc.current)
  OBVIOUS
<1>3. b \in Seq(Seq(E))
  <2> DEFINE D == Seq(E)
  <2>1. acc.batches \in Seq(D) /\ acc.current \in D
    BY DEF Stage
  <2> HIDE DEF D
  <2>2. b \in Seq(D)
    BY <1>2, <2>1, AppendProperties
  <2> QED
    BY <2>2 DEF D
<1>4. CASE acc.current # <<>> /\ acc.used + item.bytes > budget
  <2>1. Put(acc, item, budget) = [batches |-> b, current |-> <<item>>, used |-> item.bytes]
    BY <1>2, <1>4 DEF Put
  <2> QED
    BY <1>1, <1>3, <2>1 DEF Stage
<1>5. CASE ~(acc.current # <<>> /\ acc.used + item.bytes > budget)
  <2>1. Put(acc, item, budget) = [acc EXCEPT !.current = Append(@, item), !.used = @ + item.bytes]
    BY <1>5 DEF Put
  <2>2. Append(acc.current, item) \in Seq(E) /\ acc.used + item.bytes \in Nat
    BY <1>1 DEF Stage
  <2> QED
    BY <2>1, <2>2 DEF Stage
<1> QED
  BY <1>4, <1>5

(* pack puts every item, in its order, into batches that fill the budget.      *)
LEMMA PackFacts ==
  ASSUME NEW E, Sized(E), NEW items \in Seq(E), NEW budget \in Nat
  PROVE  /\ Pack(items, budget) \in Seq(Seq(E))
         /\ FlattenSeq(Pack(items, budget)) = items
         /\ Fills(Pack(items, budget), budget)
<1> DEFINE N == Len(items)
           D == Stage(E)
           Step(acc, n) == Put(acc, items[n], budget)
           IsPacked(f) == f = [n \in 0..N |-> IF n = 0 THEN Unpacked ELSE Step(f[n - 1], n)]
           Ok(acc, n) == Packing(E, items, budget, acc.batches, acc.current, acc.used, n)
<1>1. \A acc \in D, n \in 1..N : Step(acc, n) \in D
  <2>1. \A n \in 1..N : items[n] \in E
    OBVIOUS
  <2> QED
    BY <2>1, PutTyped
<1>2. PICK F \in [D \X (1..N) -> D] : F = [x \in D \X (1..N) |-> Step(x[1], x[2])]
  BY <1>1
<1>3. Unpacked \in D /\ N \in Nat
  <2>1. <<>> \in Seq(Seq(E)) /\ <<>> \in Seq(E)
    OBVIOUS
  <2> QED
    BY <2>1 DEF Stage, Unpacked
<1>4. Ok(Unpacked, 0)
  BY PackingBegins DEF Unpacked
<1>5. ASSUME NEW acc \in D, NEW n \in 1..N, Ok(acc, n - 1) PROVE Ok(Step(acc, n), n)
  <2>1. n - 1 \in 0..N /\ n - 1 # N /\ (n - 1) + 1 = n
    OBVIOUS
  <2>2. PICK next : next = Put(acc, items[n], budget)
    OBVIOUS
  <2>3. Packing(E, items, budget, next.batches, next.current, next.used, (n - 1) + 1)
    BY <1>5, <2>1, <2>2, PutPacks
  <2> QED
    BY <2>1, <2>2, <2>3
<1> HIDE DEF N, Step, D, Ok
<1>6. PICK g \in [0..N -> D] : Follows(g, N, Unpacked, F)
  BY <1>3, Recursion
<1>7. ASSUME NEW n \in 1..N PROVE g[n] = Step(g[n - 1], n)
  <2>1. g[n - 1] \in D
    BY <1>3
  <2> QED
    BY <1>2, <1>6, <2>1 DEF Follows
<1>8. IsPacked(g)
  <2>1. g = [n \in 0..N |-> g[n]]
    OBVIOUS
  <2>2. ASSUME NEW n \in 0..N PROVE g[n] = IF n = 0 THEN Unpacked ELSE Step(g[n - 1], n)
    <3>1. CASE n = 0
      BY <1>6, <3>1 DEF Follows
    <3>2. CASE n # 0
      BY <1>3, <1>7, <3>2
    <3> QED
      BY <3>1, <3>2
  <2> QED
    BY <2>1, <2>2
<1>9. PICK packed : packed = (CHOOSE f : IsPacked(f)) /\ IsPacked(packed)
  <2> HIDE DEF IsPacked
  <2> QED
    BY <1>8
<1>10. packed[0] = Unpacked /\ \A n \in 1..N : packed[n] = Step(packed[n - 1], n)
  <2>1. 0 \in 0..N
    BY <1>3
  <2>2. \A n \in 1..N : n \in 0..N /\ n # 0
    BY <1>3
  <2> QED
    BY <1>9, <2>1, <2>2
<1>11. \A n \in 0..N : packed[n] \in D
  <2>1. packed[0] \in D /\ \A n \in 1..N : packed[n - 1] \in D => packed[n] \in D
    BY <1>1, <1>3, <1>10
  <2> QED
    BY <1>3, <2>1, Along
<1>12. \A n \in 0..N : Ok(packed[n], n)
  <2> DEFINE S == {n \in 0..N : Ok(packed[n], n)}
  <2>1. 0 \in S
    BY <1>3, <1>4, <1>10
  <2>2. ASSUME NEW n \in 0..N, n # N, n \in S PROVE n + 1 \in S
    <3>1. n + 1 \in 1..N /\ (n + 1) - 1 = n /\ n + 1 \in 0..N
      BY <1>3, <2>2
    <3>2. packed[n + 1] = Step(packed[n], n + 1)
      BY <1>10, <3>1
    <3>3. packed[n] \in D /\ Ok(packed[n], (n + 1) - 1)
      BY <1>11, <2>2, <3>1
    <3> QED
      BY <1>5, <3>1, <3>2, <3>3
  <2>3. \A n \in 0..N : n # N /\ n \in S => n + 1 \in S
    BY <2>2
  <2> HIDE DEF S
  <2> QED
    BY <1>3, <2>1, <2>3, UpTo DEF S
<1>13. PICK end : end = packed[N]
  OBVIOUS
<1>14. /\ Packing(E, items, budget, end.batches, end.current, end.used, N)
       /\ N = Len(items) /\ N \in 0..Len(items)
  BY <1>3, <1>12, <1>13 DEF Ok, N
<1>15. Pack(items, budget) = IF end.current = <<>> THEN end.batches
                             ELSE Append(end.batches, end.current)
  <2>1. packed = CHOOSE f : f = [n \in 0..Len(items) |->
                                   IF n = 0 THEN Unpacked ELSE Put(f[n - 1], items[n], budget)]
    BY <1>9 DEF Step, N
  <2>2. Pack(items, budget) = IF packed[Len(items)].current = <<>> THEN packed[Len(items)].batches
           ELSE Append(packed[Len(items)].batches, packed[Len(items)].current)
    BY <2>1 DEF Pack
  <2> QED
    BY <1>13, <2>2 DEF N
<1>16. FlattenSeq(end.batches) \o end.current = items
  BY <1>14, Beginnings DEF Packing
<1>17. CASE end.current = <<>>
  <2>1. FlattenSeq(end.batches) \in Seq(E)
    BY <1>14, FlattenFacts DEF Packing
  <2>2. FlattenSeq(end.batches) = items
    BY <1>16, <1>17, <2>1, ConcatEmptySeq
  <2> QED
    BY <1>14, <1>15, <1>17, <2>2 DEF Packing
<1>18. CASE end.current # <<>>
  <2>1. PICK all : all = Append(end.batches, end.current)
    OBVIOUS
  <2>2. end.batches \in Seq(Seq(E)) /\ end.current \in Seq(E)
    BY <1>14 DEF Packing
  <2>3. FlattenSeq(all) = items
    BY <1>16, <2>1, <2>2, FlattenFacts
  <2>4. Fills(all, budget) /\ all \in Seq(Seq(E))
    BY <1>14, <1>18, <2>1, PackingEnds
  <2> QED
    BY <1>15, <1>18, <2>1, <2>3, <2>4
<1> QED
  BY <1>17, <1>18

------------------------------------------------------------------------------
(* Rules and the paths below them (PathMap).                                   *)

(* Roots and shared prefixes are made of segments of the paths.                *)
LEMMA TopLevelTyped ==
  ASSUME NEW W, NEW parts \in Seq(W)
  PROVE  TopLevelRoot(parts) \in Seq(W)
<1> DEFINE usable == {n \in 1..Len(parts) : ~IsDegenerate(SubSeq(parts, 1, n))}
<1>1. CASE usable = {}
  BY <1>1 DEF TopLevelRoot
<1>2. CASE usable # {}
  <2>1. usable \in SUBSET Nat
    OBVIOUS
  <2>2. \E n \in usable : \A m \in usable : n <= m
    BY <1>2, <2>1, LeastNumber
  <2> HIDE DEF usable
  <2>3. PICK n \in usable : n = Min(usable)
    BY <2>2 DEF Min
  <2>4. n \in 1..Len(parts)
    BY <2>3 DEF usable
  <2>5. SubSeq(parts, 1, n) \in Seq(W)
    BY <2>4
  <2>6. TopLevelRoot(parts) = SubSeq(parts, 1, n)
    BY <1>2, <2>3 DEF TopLevelRoot, usable
  <2> QED
    BY <2>5, <2>6
<1> QED
  BY <1>1, <1>2

LEMMA SharedTyped ==
  ASSUME NEW W, NEW S \in SUBSET Seq(W), S # {}
  PROVE  LongestCommonPrefix(S) \in Seq(W)
<1> DEFINE C == CommonPrefixes(S)
<1>1. ASSUME NEW c \in C PROVE c \in Seq(W) /\ \A s \in S : Len(c) <= Len(s)
  <2>1. PICK s \in S : \E n \in 0..Len(s) : c = SubSeq(s, 1, n)
    BY DEF CommonPrefixes, Prefixes
  <2>2. s \in Seq(W)
    OBVIOUS
  <2>3. c \in Seq(W)
    BY <2>1, <2>2
  <2> QED
    BY <2>3 DEF CommonPrefixes, IsPrefix
<1>2. PICK s \in S : s \in Seq(W)
  OBVIOUS
<1>3. SubSeq(s, 1, 0) \in C
  <2>1. SubSeq(s, 1, 0) = <<>> /\ Len(<<>>) = 0 /\ 0 \in 0..Len(s)
    BY <1>2
  <2>2. SubSeq(s, 1, 0) \in Prefixes(s)
    BY <2>1 DEF Prefixes
  <2>3. \A t \in S : IsPrefix(SubSeq(s, 1, 0), t)
    <3> SUFFICES ASSUME NEW t \in S PROVE IsPrefix(SubSeq(s, 1, 0), t)
      OBVIOUS
    <3>1. t \in Seq(W)
      OBVIOUS
    <3>2. Len(t) \in Nat /\ SubSeq(t, 1, 0) = <<>> /\ SubSeq(<<>>, 1, 0) = <<>>
      BY <3>1
    <3> QED
      BY <2>1, <3>2 DEF IsPrefix
  <2> QED
    BY <2>2, <2>3 DEF CommonPrefixes
<1> HIDE DEF C
<1> DEFINE L == {Len(c) : c \in C}
<1>4. L \in SUBSET Nat /\ L # {} /\ Len(s) \in Nat /\ \A n \in L : n <= Len(s)
  <2>1. \A c \in C : Len(c) \in Nat /\ Len(c) <= Len(s)
    BY <1>1, <1>2
  <2>2. PICK c \in C : c = SubSeq(s, 1, 0)
    BY <1>3
  <2>3. Len(c) \in L
    OBVIOUS
  <2>4. \A n \in L : n \in Nat /\ n <= Len(s)
    BY <2>1
  <2>5. Len(s) \in Nat
    BY <1>2
  <2> HIDE DEF L
  <2> QED
    BY <2>3, <2>4, <2>5
<1>5. PICK n \in L : \A m \in L : n >= m
  BY <1>4, GreatestNumber
<1>6. PICK c \in C : n = Len(c)
  OBVIOUS
<1>7. \A o \in C : Len(o) <= Len(c)
  <2>1. \A o \in C : Len(o) \in L /\ Len(o) \in Nat
    BY <1>1
  <2> QED
    BY <1>1, <1>5, <1>6, <2>1
<1>8. LongestCommonPrefix(S) \in C
  BY <1>7 DEF LongestCommonPrefix, C
<1> QED
  BY <1>1, <1>8

(* All rules lead to the destination, from beginnings of the paths.            *)
LEMMA DeriveFacts ==
  ASSUME NEW paths \in SUBSET Seq(Segments), NEW dest \in Seq(Segments), CanDerive(paths, dest)
  PROVE  /\ Components(dest) \in Seq(Named) /\ Components(dest) # <<>>
         /\ \A rule \in Derive(paths, dest) :
              rule.from \in Seq(Named) /\ rule.to = Components(dest)
         /\ \A r1, r2 \in Derive(paths, dest) : r1.from = r2.from => r1 = r2
<1> DEFINE parts == {Components(path) : path \in paths} \ {<<>>}
           shared == LongestCommonPrefix(parts)
           froms == IF IsDegenerate(shared) THEN {TopLevelRoot(p) : p \in parts} ELSE {shared}
<1>1. Components(dest) \in Seq(Named) /\ Components(dest) # <<>>
  BY ComponentsTyped DEF CanDerive
<1>2. parts \in SUBSET Seq(Named) /\ parts # {}
  <2>1. \A path \in paths : Components(path) \in Seq(Named)
    BY ComponentsTyped
  <2>2. PICK path \in paths : Components(path) # <<>>
    BY DEF CanDerive
  <2> QED
    BY <2>1, <2>2
<1>3. Derive(paths, dest) = {[from |-> from, to |-> Components(dest)] : from \in froms}
  BY DEF Derive
<1> HIDE DEF parts
<1>4. shared \in Seq(Named)
  BY <1>2, SharedTyped
<1>5. \A p \in parts : TopLevelRoot(p) \in Seq(Named)
  BY <1>2, TopLevelTyped
<1> HIDE DEF shared
<1>6. froms \subseteq Seq(Named)
  BY <1>4, <1>5
<1> HIDE DEF froms
<1> QED
  BY <1>1, <1>3, <1>6

Mapped(mapping) == \A rule \in mapping : rule.from \in Seq(Named)

(* Of the rules that match, one of the longest exists.                         *)
LEMMA RuleForMatches ==
  ASSUME NEW mapping, Mapped(mapping), NEW path \in Seq(Segments), Matching(mapping, path) # {}
  PROVE  RuleFor(mapping, path) \in Matching(mapping, path)
<1> DEFINE M == Matching(mapping, path)
           L == {Len(rule.from) : rule \in M}
           N == Len(Components(path))
<1>1. \A rule \in M : Len(rule.from) \in Nat /\ Len(rule.from) <= N
  BY DEF Matching, Mapped, IsPrefix
<1>2. N \in Nat
  BY ComponentsTyped
<1> HIDE DEF M, N
<1>3. L \in SUBSET Nat /\ L # {} /\ \A n \in L : n <= N
  BY <1>1 DEF M
<1>4. PICK n \in L : \A m \in L : n >= m
  BY <1>2, <1>3, GreatestNumber
<1>5. PICK rule \in M : n = Len(rule.from)
  OBVIOUS
<1>6. \A other \in M : Len(other.from) <= Len(rule.from)
  <2>1. \A other \in M : Len(other.from) \in L
    OBVIOUS
  <2> QED
    BY <1>1, <1>4, <1>5, <2>1
<1> QED
  BY <1>6 DEF RuleFor, M

(* A path is what its rule takes away and what is left below. *)
LEMMA BelowFacts ==
  ASSUME NEW mapping, Mapped(mapping), NEW path \in Seq(Segments),
         NEW rule \in Matching(mapping, path)
  PROVE  /\ Below(rule, path) \in Seq(Named)
         /\ Components(path) = rule.from \o Below(rule, path)
<1>1. PICK parts \in Seq(Named) : parts = Components(path)
  BY ComponentsTyped
<1>2. PICK from \in Seq(Named) : from = rule.from
  BY DEF Mapped, Matching
<1>3. Len(from) <= Len(parts) /\ SubSeq(from, 1, Len(from)) = SubSeq(parts, 1, Len(from))
  BY <1>1, <1>2 DEF Matching, IsPrefix
<1>4. from = SubSeq(parts, 1, Len(from))
  BY <1>3, SubSeqFull
<1>5. Len(from) \in Nat /\ Len(parts) \in Nat
  OBVIOUS
<1>6. SubSeq(parts, 1, Len(from)) \o SubSeq(parts, Len(from) + 1, Len(parts))
        = SubSeq(parts, 1, Len(parts))
  <2>1. /\ 1 \in 1..(Len(parts) + 1) /\ Len(from) \in (1 - 1)..Len(parts)
        /\ Len(parts) \in Len(from)..Len(parts)
    BY <1>3, <1>5
  <2> QED
    BY <2>1, ConcatAdjacentSubSeq
<1>7. SubSeq(parts, Len(from) + 1, Len(parts)) \in Seq(Named)
  BY <1>3, <1>5
<1> QED
  BY <1>1, <1>2, <1>4, <1>6, <1>7, SubSeqFull DEF Below

(* Apply leads to the destination; what is below it there is what was below    *)
(* the rule here.                                                              *)
LEMMA ApplyFacts ==
  ASSUME NEW mapping, Mapped(mapping), NEW path \in Seq(Segments), Matching(mapping, path) # {},
         NEW to \in Seq(Named), to # <<>>, \A rule \in mapping : rule.to = to
  PROVE  LET below == Below(RuleFor(mapping, path), path)
             parts == Components(Apply(mapping, path))
         IN /\ RuleFor(mapping, path) \in mapping
            /\ below \in Seq(Named)
            /\ Apply(mapping, path) \in Seq(Segments)
            /\ Apply(mapping, path) = Display(to \o below)
            /\ parts = to \o below
            /\ SubSeq(parts, Len(to) + 1, Len(parts)) = below
<1>1. PICK rule \in Matching(mapping, path) : rule = RuleFor(mapping, path)
  BY RuleForMatches
<1>2. PICK below \in Seq(Named) : below = Below(rule, path)
  BY <1>1, BelowFacts
<1>3. rule \in mapping /\ rule.to = to
  BY DEF Matching
<1>4. Apply(mapping, path) = Display(to \o below)
  BY <1>1, <1>2, <1>3 DEF Apply
<1>5. to \o below \in Seq(Named) /\ to \o below # <<>>
  BY ConcatProperties, ConcatEqualIffEmpty
<1>6. Display(to \o below) \in Seq(Segments) /\ Components(Display(to \o below)) = to \o below
  BY <1>5, ComponentsOfDisplay
<1>7. SubSeq(to \o below, Len(to) + 1, Len(to \o below)) = below
  OBVIOUS
<1> QED
  BY <1>1, <1>2, <1>3, <1>4, <1>6, <1>7

------------------------------------------------------------------------------
(* Planned torrents, and what build and a cap make of them (Plan).             *)

(* The sort makes a sequence of a listing, of its length. *)
LEMMA SortedTyped ==
  ASSUME NEW S, IsListing(S)
  PROVE  /\ SmallestFirst(S) \in Seq(S)
         /\ Len(SmallestFirst(S)) = Cardinality(S)
         /\ Cardinality(S) \in Nat
BY SmallestFirstSorts, FS_CardinalityType DEF IsListing

(* What an audit listed: a listing, with the paths of the source. *)
Listed(M) == IsListing(M) /\ \A e \in M : e.id \in Hashes /\ e.path \in Seq(Segments)

Planned(M, mapping) == {e \in M : IsPlanned(e, mapping)}

(* The planned torrents of a listing are a listing.                            *)
LEMMA PlannedListed ==
  ASSUME NEW M, Listed(M), NEW mapping
  PROVE  /\ IsListing(Planned(M, mapping))
         /\ Sized(M)
         /\ Planned(M, mapping) \subseteq M
         /\ SmallestFirst(Planned(M, mapping)) \in Seq(M)
<1>1. Planned(M, mapping) \subseteq M
  BY DEF Planned
<1>2. IsFiniteSet(Planned(M, mapping))
  BY <1>1, FS_Subset DEF Listed, IsListing
<1>3. IsListing(Planned(M, mapping))
  BY <1>1, <1>2 DEF Listed, IsListing
<1>4. Sized(M)
  BY DEF Listed, IsListing, Sized
<1>5. SmallestFirst(Planned(M, mapping)) \in Seq(M)
  BY <1>1, <1>3, SortedTyped, SeqMonotonic
<1> QED
  BY <1>1, <1>3, <1>4, <1>5

(* build: the planned torrents by size, in batches that fill the budget. *)
LEMMA BuildFacts ==
  ASSUME NEW M, Listed(M), NEW dest, NEW budget \in Nat
  PROVE  LET full == Build(M, dest, budget)
             mapping == Derive(PathsForMap(M), dest)
             items == SmallestFirst(Planned(M, mapping))
         IN \E batches \in Seq(Seq(M)) :
              /\ full = [mapping |-> mapping, batches |-> batches, budget |-> budget,
                         excluded |-> {e.id : e \in M \ Planned(M, mapping)}]
              /\ FlattenSeq(batches) = items
              /\ Fills(batches, budget)
<1> DEFINE mapping == Derive(PathsForMap(M), dest)
           items == SmallestFirst(Planned(M, mapping))
<1>1. items \in Seq(M) /\ Sized(M)
  BY PlannedListed
<1>2. PICK batches : batches = Pack(items, budget)
  OBVIOUS
<1>3. batches \in Seq(Seq(M)) /\ FlattenSeq(batches) = items /\ Fills(batches, budget)
  <2> HIDE DEF items
  <2> QED
    BY <1>1, <1>2, PackFacts
<1>4. {entry.id : entry \in {e \in M : ~IsPlanned(e, mapping)}}
        = {e.id : e \in M \ Planned(M, mapping)}
  BY DEF Planned
<1>5. Build(M, dest, budget)
        = [mapping |-> mapping, batches |-> batches, budget |-> budget,
           excluded |-> {e.id : e \in M \ Planned(M, mapping)}]
  BY <1>2, <1>4 DEF Build, Planned
<1> QED
  BY <1>3, <1>5

(* The torrents taken are within the caps. *)
Within(items, n, maxBytes, maxTorrents) ==
  /\ \A limit \in maxTorrents : n <= limit
  /\ \A cap \in maxBytes : Bytes(SubSeq(items, 1, n)) <= cap

(* take_smallest: as long a beginning of the plan as the caps allow. *)
LEMMA TakeFacts ==
  ASSUME NEW E, Sized(E), NEW items \in Seq(E), NEW budget \in Nat,
         NEW batches \in Seq(Seq(E)), NEW mapping, NEW excluded,
         FlattenSeq(batches) = items, Fills(batches, budget),
         NEW maxBytes \in SUBSET Nat, NEW maxTorrents \in SUBSET Nat,
         NEW full, full = [mapping |-> mapping, batches |-> batches, budget |-> budget,
                           excluded |-> excluded]
  PROVE  LET part == TakeSmallest(full, maxBytes, maxTorrents)
         IN /\ part.mapping = mapping /\ part.excluded = excluded /\ part.budget = budget
            /\ Fills(part.batches, budget)
            /\ \E k \in 0..Len(items) :
                 /\ Items(part) = SubSeq(items, 1, k)
                 /\ Within(items, k, maxBytes, maxTorrents)
                 /\ k < Len(items) => ~Within(items, k + 1, maxBytes, maxTorrents)
<1> DEFINE part == TakeSmallest(full, maxBytes, maxTorrents)
           X == {n \in 0..Len(items) : Within(items, n, maxBytes, maxTorrents)}
<1>1. Items(full) = items /\ full.budget = budget /\ full.batches = batches
  BY DEF Items
<1>2. Len(items) \in Nat /\ SubSeq(items, 1, Len(items)) = items
  BY Beginnings
<1>3. CASE maxBytes \cup maxTorrents = {}
  <2>1. part = full
    BY <1>3 DEF TakeSmallest
  <2>2. Within(items, Len(items), maxBytes, maxTorrents)
    BY <1>3 DEF Within
  <2>3. /\ part.mapping = mapping /\ part.excluded = excluded /\ part.budget = budget
        /\ Fills(part.batches, budget)
    BY <2>1
  <2>4. Items(part) = SubSeq(items, 1, Len(items))
    BY <2>1, <1>1, <1>2
  <2> QED
    BY <2>2, <2>3, <2>4, <1>2
<1>4. CASE maxBytes \cup maxTorrents # {}
  <2>1. 0 \in X
    <3>1. SubSeq(items, 1, 0) = <<>> /\ Bytes(<<>>) = 0
      BY Beginnings, BytesFacts DEF Sized
    <3>2. Bytes(SubSeq(items, 1, 0)) = 0
      BY ONLY <3>1
    <3>3. Within(items, 0, maxBytes, maxTorrents)
      BY <3>2 DEF Within
    <3> QED
      BY <3>3, <1>2
  <2>2. \E x \in X : \A y \in X : x >= y
    <3>1. X \in SUBSET Nat /\ X # {} /\ \A x \in X : x <= Len(items)
      BY <2>1, <1>2
    <3> HIDE DEF X
    <3> QED
      BY <3>1, <1>2, GreatestNumber
  <2>3. PICK k : k = Max(X)
    OBVIOUS
  <2>4. k \in X /\ \A y \in X : k >= y
    <3> HIDE DEF X
    <3> QED
      BY <2>2, <2>3 DEF Max
  <2>5. SubSeq(items, 1, k) \in Seq(E)
    BY <2>4, <1>2
  <2>6. PICK cut : cut = Pack(SubSeq(items, 1, k), budget)
    OBVIOUS
  <2>7. FlattenSeq(cut) = SubSeq(items, 1, k) /\ Fills(cut, budget)
    BY <2>5, <2>6, PackFacts
  <2>8. part = [full EXCEPT !.batches = cut]
    BY <2>3, <2>6, <1>1, <1>4 DEF TakeSmallest, Within
  <2>9. part = [mapping |-> mapping, batches |-> cut, budget |-> budget, excluded |-> excluded]
    BY <2>8
  <2>10. Items(part) = SubSeq(items, 1, k)
    <3>1. part.batches = cut
      BY <2>9
    <3> QED
      BY ONLY <2>7, <3>1 DEF Items
  <2>11. k < Len(items) => ~Within(items, k + 1, maxBytes, maxTorrents)
    BY <2>4, <1>2
  <2> QED
    BY <2>4, <2>7, <2>9, <2>10, <2>11
<1> QED
  BY <1>3, <1>4

------------------------------------------------------------------------------
(* What every plan of a command is.                                            *)

(* What a plan is, made of what an audit listed: of its planned torrents those *)
(* that a cap lets through, the smallest first.                                *)
MadeOf(M, pl, put_off) ==
  LET items == SmallestFirst(Planned(M, pl.mapping))
  IN /\ Listed(M)
     /\ M # {} => CanBuild(M, Dest) /\ pl.mapping = Derive(PathsForMap(M), Dest)
     /\ pl.excluded = {e.id : e \in M \ Planned(M, pl.mapping)}
     /\ Fills(pl.batches, pl.budget)
     /\ \E k \in 0..Len(items) :
          /\ Items(pl) = SubSeq(items, 1, k)
          /\ put_off = Len(items) - k
          /\ k < Len(items) =>
               \E maxBytes \in ByteCaps, maxTorrents \in TorrentCaps :
                 /\ Within(items, k, maxBytes, maxTorrents)
                 /\ ~Within(items, k + 1, maxBytes, maxTorrents)

PlanMade == MadeOf(manifest, plan, report.deferred)

(* What an audit sees is a listing.                                            *)
LEMMA AuditListed ==
  ASSUME library \in [Hashes -> Entry]
  PROVE  Listed(Audit)
<1> DEFINE H == {h \in Hashes : library[h].torrent # "none" /\ library[h].resume # "none"}
           f == [h \in H |-> Inspect(h)]
<1>1. ASSUME NEW h \in Hashes
      PROVE  /\ Inspect(h).id = h /\ h \in Nat /\ h \in Hashes
             /\ Inspect(h).bytes \in Nat
             /\ Inspect(h).path \in Seq(Segments)
  <2>1. library[h].bytes \in Nat /\ library[h].path \in Seq(Segments) /\ h \in Nat
    BY PayloadAssumption DEF Entry
  <2>2. <<Empty>> \in Seq(Segments)
    BY SegmentsAssumption
  <2> QED
    BY <2>1, <2>2 DEF Inspect
<1>2. Audit = {Inspect(h) : h \in H}
  BY DEF Audit
<1>3. IsFiniteSet(H)
  BY PayloadAssumption, FS_Subset
<1>4. f \in Surjection(H, Audit)
  BY <1>2 DEF Surjection
<1>5. IsFiniteSet(Audit)
  BY <1>3, <1>4, FS_Surjection
<1>6. IsListing(Audit)
  BY <1>1, <1>2, <1>5 DEF IsListing
<1> QED
  BY <1>1, <1>2, <1>6 DEF Listed

(* No plan at all is a plan of nothing.                                        *)
LEMMA NothingMade ==
  MadeOf({}, NoPlan, 0)
<1>1. PICK pl : pl = NoPlan
  OBVIOUS
<1>2. pl.mapping = {} /\ pl.excluded = {} /\ pl.batches = <<>> /\ pl.budget = 0
  BY <1>1 DEF NoPlan
<1>3. PICK items : items = SmallestFirst(Planned({}, pl.mapping))
  OBVIOUS
<1>4. Planned({}, pl.mapping) = {} /\ IsListing({}) /\ Listed({})
  BY FS_EmptySet DEF Planned, IsListing, Listed
<1>5. Len(items) = 0 /\ items \in Seq({})
  BY <1>3, <1>4, FS_EmptySet, SortedTyped
<1>6. SubSeq(items, 1, 0) = <<>> /\ 0 \in 0..Len(items)
  BY <1>5, Beginnings
<1>7. FlattenSeq(<<>>) = <<>>
  <2>1. <<>> \in Seq(Seq({}))
    OBVIOUS
  <2> QED
    BY <2>1, FlattenFacts
<1>8. Items(pl) = SubSeq(items, 1, 0)
  BY <1>2, <1>6, <1>7 DEF Items
<1>9. Fills(pl.batches, pl.budget)
  BY <1>2 DEF Fills
<1>10. pl.excluded = {e.id : e \in {} \ Planned({}, pl.mapping)}
  BY <1>2
<1>11. MadeOf({}, pl, 0)
  BY <1>3, <1>4, <1>5, <1>6, <1>8, <1>9, <1>10 DEF MadeOf
<1> QED
  BY <1>1, <1>11

(* build makes such a plan, with nothing put off.                              *)
LEMMA MadeByBuild ==
  ASSUME NEW M, Listed(M), CanBuild(M, Dest), NEW budget \in Nat
  PROVE  MadeOf(M, Build(M, Dest, budget), 0)
<1> DEFINE mapping == Derive(PathsForMap(M), Dest)
           items == SmallestFirst(Planned(M, mapping))
<1>1. PICK batches \in Seq(Seq(M)) :
        /\ Build(M, Dest, budget)
             = [mapping |-> mapping, batches |-> batches, budget |-> budget,
                excluded |-> {e.id : e \in M \ Planned(M, mapping)}]
        /\ FlattenSeq(batches) = items
        /\ Fills(batches, budget)
  BY BuildFacts
<1>2. PICK full : full = Build(M, Dest, budget)
  OBVIOUS
<1>3. /\ full.mapping = mapping /\ full.batches = batches /\ full.budget = budget
      /\ full.excluded = {e.id : e \in M \ Planned(M, mapping)}
  BY <1>1, <1>2
<1>4. Items(full) = items
  BY <1>1, <1>3 DEF Items
<1>5. items \in Seq(M)
  BY PlannedListed
<1>6. Len(items) \in Nat /\ SubSeq(items, 1, Len(items)) = items
  <2> HIDE DEF items
  <2> QED
    BY <1>5, Beginnings
<1>7. items = SmallestFirst(Planned(M, full.mapping))
  BY <1>3
<1>8. MadeOf(M, full, 0)
  <2>1. /\ full.mapping = Derive(PathsForMap(M), Dest)
        /\ full.excluded = {e.id : e \in M \ Planned(M, full.mapping)}
        /\ Fills(full.batches, full.budget)
    BY <1>1, <1>3
  <2> HIDE DEF items, mapping
  <2>2. \E k \in 0..Len(items) :
          /\ Items(full) = SubSeq(items, 1, k)
          /\ 0 = Len(items) - k
          /\ k < Len(items) =>
               \E maxBytes \in ByteCaps, maxTorrents \in TorrentCaps :
                 /\ Within(items, k, maxBytes, maxTorrents)
                 /\ ~Within(items, k + 1, maxBytes, maxTorrents)
    <3> WITNESS Len(items) \in 0..Len(items)
    <3> QED
      BY <1>4, <1>6
  <2> QED
    BY <2>1, <2>2, <1>7 DEF MadeOf
<1> QED
  BY <1>2, <1>8

(* So does a cap after it, of which the report counts what was put off.        *)
LEMMA MadeByTake ==
  ASSUME NEW M, Listed(M), CanBuild(M, Dest), NEW budget \in Nat,
         NEW maxBytes \in ByteCaps, NEW maxTorrents \in TorrentCaps,
         NEW full, full = Build(M, Dest, budget),
         NEW part, part = TakeSmallest(full, maxBytes, maxTorrents)
  PROVE  MadeOf(M, part, Len(Items(full)) - Len(Items(part)))
<1> DEFINE mapping == Derive(PathsForMap(M), Dest)
           items == SmallestFirst(Planned(M, mapping))
           out == {e.id : e \in M \ Planned(M, mapping)}
<1>1. PICK batches \in Seq(Seq(M)) :
        /\ full = [mapping |-> mapping, batches |-> batches, budget |-> budget, excluded |-> out]
        /\ FlattenSeq(batches) = items
        /\ Fills(batches, budget)
  BY BuildFacts
<1>2. items \in Seq(M) /\ Sized(M)
  BY PlannedListed
<1>3. maxBytes \in SUBSET Nat /\ maxTorrents \in SUBSET Nat
  BY PayloadAssumption
<1>4. /\ part.mapping = mapping /\ part.excluded = out /\ part.budget = budget
      /\ Fills(part.batches, budget)
      /\ \E k \in 0..Len(items) :
           /\ Items(part) = SubSeq(items, 1, k)
           /\ Within(items, k, maxBytes, maxTorrents)
           /\ k < Len(items) => ~Within(items, k + 1, maxBytes, maxTorrents)
  <2> HIDE DEF items, mapping, out
  <2> QED
    BY <1>1, <1>2, <1>3, TakeFacts
<1>5. PICK k \in 0..Len(items) :
           /\ Items(part) = SubSeq(items, 1, k)
           /\ Within(items, k, maxBytes, maxTorrents)
           /\ k < Len(items) => ~Within(items, k + 1, maxBytes, maxTorrents)
  BY <1>4
<1>6. Items(full) = items
  <2>1. full.batches = batches
    BY <1>1
  <2> QED
    BY <1>1, <2>1 DEF Items
<1>7. Len(Items(full)) - Len(Items(part)) = Len(items) - k
  <2> HIDE DEF items
  <2>1. Len(SubSeq(items, 1, k)) = k
    BY <1>2, <1>5
  <2> QED
    BY <2>1, <1>5, <1>6
<1> QED
  BY <1>4, <1>5, <1>7 DEF MadeOf

(* A plan's torrents are the first k of the planned ones. *)
LEMMA MadeItems ==
  ASSUME NEW M, NEW pl, NEW put_off, MadeOf(M, pl, put_off),
         NEW planned, planned = Planned(M, pl.mapping),
         NEW items, items = SmallestFirst(planned),
         NEW taken, taken = Items(pl)
  PROVE  /\ IsListing(planned) /\ planned \subseteq M
         /\ Cardinality(planned) \in Nat /\ Len(items) = Cardinality(planned)
         /\ items \in Seq(planned)
         /\ \A i, j \in 1..Len(items) : i < j => IsBefore(items[i], items[j])
         /\ \A e \in planned : \E i \in 1..Len(items) : items[i] = e
         /\ Len(taken) \in 0..Len(items)
         /\ taken = SubSeq(items, 1, Len(taken)) /\ taken \in Seq(planned)
         /\ \A i \in 1..Len(taken) : taken[i] = items[i]
         /\ put_off = Len(items) - Len(taken)
         /\ Len(taken) < Len(items) =>
               \E maxBytes \in ByteCaps, maxTorrents \in TorrentCaps :
                 /\ Within(items, Len(taken), maxBytes, maxTorrents)
                 /\ ~Within(items, Len(taken) + 1, maxBytes, maxTorrents)
<1>1. IsListing(planned) /\ planned \subseteq M
  BY PlannedListed DEF MadeOf
<1>2. /\ Cardinality(planned) \in Nat /\ Len(items) = Cardinality(planned)
      /\ items \in Seq(planned)
  BY <1>1, SortedTyped
<1>3. /\ \A i, j \in 1..Len(items) : i < j => IsBefore(items[i], items[j])
      /\ \A e \in planned : \E i \in 1..Len(items) : items[i] = e
  BY <1>1, <1>2, SmallestFirstSorts
<1>4. PICK k \in 0..Len(items) :
        /\ taken = SubSeq(items, 1, k)
        /\ put_off = Len(items) - k
        /\ k < Len(items) =>
               \E maxBytes \in ByteCaps, maxTorrents \in TorrentCaps :
                 /\ Within(items, k, maxBytes, maxTorrents)
                 /\ ~Within(items, k + 1, maxBytes, maxTorrents)
  BY DEF MadeOf
<1>5. Len(taken) = k /\ taken \in Seq(planned) /\ \A i \in 1..Len(taken) : taken[i] = items[i]
  BY <1>2, <1>4
<1> QED
  BY <1>1, <1>2, <1>3, <1>4, <1>5

(* Such a plan forgets no torrent and has none twice.                          *)
LEMMA MadeAccounts ==
  ASSUME NEW M, NEW pl, NEW put_off, MadeOf(M, pl, put_off)
  PROVE  LET items == Items(pl)
         IN /\ Cardinality(Ids(items)) = Len(items)
            /\ Ids(items) \cap pl.excluded = {}
            /\ Len(items) + Cardinality(pl.excluded) + put_off = Cardinality(M)
<1>1. PICK planned, items, taken :
        /\ planned = Planned(M, pl.mapping)
        /\ items = SmallestFirst(planned)
        /\ taken = Items(pl)
  OBVIOUS
<1> DEFINE k == Len(taken)
           out == M \ planned
           f == [i \in 1..k |-> taken[i].id]
           g == [e \in out |-> e.id]
<1>2. /\ IsListing(planned) /\ planned \subseteq M
      /\ Cardinality(planned) \in Nat /\ Len(items) = Cardinality(planned)
      /\ items \in Seq(planned)
      /\ \A i, j \in 1..Len(items) : i < j => IsBefore(items[i], items[j])
      /\ k \in 0..Len(items) /\ taken \in Seq(planned)
      /\ \A i \in 1..k : taken[i] = items[i]
      /\ put_off = Len(items) - k
  BY <1>1, MadeItems
<1>3. IsListing(M) /\ pl.excluded = {e.id : e \in out}
  BY <1>1 DEF MadeOf, Listed
<1>4. k \in Nat
  BY <1>2
<1>5. Ids(taken) = {taken[i].id : i \in 1..k}
  <2>1. DOMAIN taken = 1..k
    BY <1>2
  <2> QED
    BY <2>1 DEF Ids, ToSet
<1>6. Cardinality(Ids(taken)) = k
  <2>1. f \in Surjection(1..k, Ids(taken))
    BY <1>5 DEF Surjection
  <2>2. \A i, j \in 1..k : i < j => taken[i].id # taken[j].id
    <3> SUFFICES ASSUME NEW i \in 1..k, NEW j \in 1..k, i < j PROVE taken[i].id # taken[j].id
      OBVIOUS
    <3>1. IsBefore(taken[i], taken[j])
      BY <1>2
    <3>2. taken[i] \in planned /\ taken[j] \in planned
      BY <1>2
    <3>3. taken[i] # taken[j]
      BY <3>1, <3>2, <1>2, BeforeIsAnOrder
    <3> QED
      BY <3>2, <3>3, <1>2 DEF IsListing
  <2>3. f \in Injection(1..k, Ids(taken))
    <3>1. \A i, j \in 1..k : f[i] = f[j] => i = j
      BY <2>2, <1>4
    <3> QED
      BY <2>1, <3>1 DEF Injection, Surjection, IsInjective
  <2>4. IsFiniteSet(1..k) /\ Cardinality(1..k) = k
    <3>1. 1 \in Int /\ k \in Int
      BY <1>4
    <3>2. IsFiniteSet(1..k) /\ Cardinality(1..k) = IF 1 > k THEN 0 ELSE k - 1 + 1
      BY <3>1, FS_Interval
    <3>3. (1 > k => k = 0) /\ k - 1 + 1 = k
      BY <1>4
    <3> QED
      BY <3>2, <3>3
  <2> HIDE DEF f
  <2>5. Cardinality(Ids(taken)) = Cardinality(1..k)
    BY <2>1, <2>3, <2>4, FS_Surjection
  <2> QED
    BY <2>4, <2>5
<1>7. Ids(taken) \cap pl.excluded = {}
  <2> SUFFICES ASSUME NEW i \in 1..k, NEW e \in out PROVE taken[i].id # e.id
    BY <1>3, <1>5
  <2>1. taken[i] \in planned
    BY <1>2
  <2> QED
    BY <2>1, <1>2, <1>3 DEF IsListing
<1>8. Cardinality(pl.excluded) = Cardinality(M) - Cardinality(planned)
  <2>1. IsFiniteSet(out) /\ Cardinality(out) = Cardinality(M) - Cardinality(M \cap planned)
    BY <1>3, FS_Difference DEF IsListing
  <2>2. M \cap planned = planned
    BY <1>2
  <2>3. g \in Surjection(out, pl.excluded)
    BY <1>3 DEF Surjection
  <2>4. g \in Injection(out, pl.excluded)
    <3>1. \A d, e \in out : g[d] = g[e] => d = e
      BY <1>3 DEF IsListing
    <3> QED
      BY <2>3, <3>1 DEF Injection, Surjection, IsInjective
  <2> HIDE DEF g, out
  <2>5. Cardinality(pl.excluded) = Cardinality(out)
    BY <2>1, <2>3, <2>4, FS_Surjection
  <2> QED
    BY <2>1, <2>2, <2>5
<1>9. Cardinality(M) \in Nat
  BY <1>3, FS_CardinalityType DEF IsListing
<1>10. k + Cardinality(pl.excluded) + put_off = Cardinality(M)
  BY <1>2, <1>4, <1>8, <1>9
<1> QED
  BY <1>1, <1>6, <1>7, <1>10

------------------------------------------------------------------------------
(* What follows for a plan: the cap, the packing and the collisions.           *)

(* A cap keeps the smallest, and as many as it allows.                         *)
LEMMA MadeTakesTheSmallest ==
  ASSUME PlanMade
  PROVE  CapTakesTheSmallest
<1>1. PICK planned, items, taken :
        /\ planned = Planned(manifest, plan.mapping)
        /\ items = SmallestFirst(planned)
        /\ taken = Items(plan)
  OBVIOUS
<1> DEFINE k == Len(taken)
           left == {entry \in manifest : entry.id \notin Ids(taken) \cup plan.excluded}
<1>2. /\ IsListing(planned) /\ planned \subseteq manifest
      /\ Cardinality(planned) \in Nat /\ Len(items) = Cardinality(planned)
      /\ items \in Seq(planned)
      /\ \A i, j \in 1..Len(items) : i < j => IsBefore(items[i], items[j])
      /\ \A e \in planned : \E i \in 1..Len(items) : items[i] = e
      /\ k \in 0..Len(items) /\ taken \in Seq(planned)
      /\ taken = SubSeq(items, 1, k)
      /\ \A i \in 1..k : taken[i] = items[i]
      /\ k < Len(items) =>
               \E maxBytes \in ByteCaps, maxTorrents \in TorrentCaps :
                 /\ Within(items, k, maxBytes, maxTorrents)
                 /\ ~Within(items, k + 1, maxBytes, maxTorrents)
  <2>1. MadeOf(manifest, plan, report.deferred)
    BY DEF PlanMade
  <2>2. /\ IsListing(planned) /\ planned \subseteq manifest
        /\ Cardinality(planned) \in Nat /\ Len(items) = Cardinality(planned)
        /\ items \in Seq(planned)
        /\ \A i, j \in 1..Len(items) : i < j => IsBefore(items[i], items[j])
    BY <2>1, <1>1, MadeItems
  <2>5. \A e \in planned : \E i \in 1..Len(items) : items[i] = e
    BY <2>2, <1>1, SmallestFirstSorts
  <2>3. /\ k \in 0..Len(items) /\ taken \in Seq(planned)
        /\ taken = SubSeq(items, 1, k)
        /\ \A i \in 1..k : taken[i] = items[i]
    BY <2>1, <1>1, MadeItems
  <2>4. k < Len(items) =>
               \E maxBytes \in ByteCaps, maxTorrents \in TorrentCaps :
                 /\ Within(items, k, maxBytes, maxTorrents)
                 /\ ~Within(items, k + 1, maxBytes, maxTorrents)
    BY <2>1, <1>1, MadeItems
  <2> QED
    BY <2>2, <2>3, <2>4, <2>5
<1>3. IsListing(manifest) /\ plan.excluded = {e.id : e \in manifest \ planned}
  BY <1>1 DEF PlanMade, MadeOf, Listed
<1>4. k \in Nat /\ Len(items) \in Nat
  BY <1>2
<1>5. DOMAIN taken = 1..k
  BY <1>2
<1>6. ASSUME NEW entry \in left
      PROVE  \E j \in (k + 1)..Len(items) : items[j] = entry
  <2>1. entry \in planned
    BY <1>3
  <2>2. PICK j \in 1..Len(items) : items[j] = entry
    BY <2>1, <1>2
  <2>3. ~(j \in 1..k)
    <3> SUFFICES ASSUME j \in 1..k PROVE FALSE
      OBVIOUS
    <3>1. taken[j] = entry
      BY <2>2, <1>2
    <3>2. entry.id \in Ids(taken)
      BY <3>1, <1>5 DEF Ids, ToSet
    <3> QED
      BY <3>2
  <2> QED
    BY <2>2, <2>3, <1>4
<1>7. ASSUME NEW item \in ToSet(taken), NEW entry \in left
      PROVE  item.bytes <= entry.bytes
  <2>1. PICK i \in 1..k : item = taken[i]
    BY <1>5 DEF ToSet
  <2>2. PICK j \in (k + 1)..Len(items) : items[j] = entry
    BY <1>6
  <2>3. IsBefore(item, entry)
    BY <2>1, <2>2, <1>2, <1>4
  <2>4. item \in manifest /\ entry \in manifest
    BY <2>1, <1>2
  <2> QED
    BY <2>3, <2>4, <1>3 DEF IsBefore, IsListing
<1>8. ASSUME left # {}
      PROVE  \E maxBytes \in ByteCaps, maxTorrents \in TorrentCaps :
                /\ \A cap \in maxBytes : Bytes(taken) <= cap
                /\ \A limit \in maxTorrents : Len(taken) <= limit
                /\ \/ \E limit \in maxTorrents : Len(taken) = limit
                   \/ \E cap \in maxBytes, entry \in left :
                        /\ \A other \in left : entry.bytes <= other.bytes
                        /\ Bytes(taken) + entry.bytes > cap
  <2>1. k < Len(items)
    BY <1>8, <1>6, <1>4
  <2>2. PICK maxBytes \in ByteCaps, maxTorrents \in TorrentCaps :
                 /\ Within(items, k, maxBytes, maxTorrents)
                 /\ ~Within(items, k + 1, maxBytes, maxTorrents)
    BY <2>1, <1>2
  <2>3. maxBytes \in SUBSET Nat /\ maxTorrents \in SUBSET Nat
    BY PayloadAssumption
  <2>4. /\ \A cap \in maxBytes : Bytes(taken) <= cap
        /\ \A limit \in maxTorrents : k <= limit
    <3>1. \A cap \in maxBytes : Bytes(SubSeq(items, 1, k)) <= cap
      BY <2>2 DEF Within
    <3>2. \A limit \in maxTorrents : k <= limit
      BY <2>2 DEF Within
    <3>3. Bytes(taken) = Bytes(SubSeq(items, 1, k))
      BY ONLY <1>2
    <3> QED
      BY <3>1, <3>2, <3>3
  <2>5. PICK entry : entry = items[k + 1]
    OBVIOUS
  <2>6. entry \in planned /\ entry \in manifest
    BY <2>5, <2>1, <1>2, <1>4
  <2>7. entry \in left
    <3>1. entry.id \notin plan.excluded
      <4> SUFFICES ASSUME NEW e \in manifest \ planned PROVE entry.id # e.id
        BY <1>3
      <4> QED
        BY <2>6, <1>3 DEF IsListing
    <3>2. entry.id \notin Ids(taken)
      <4> SUFFICES ASSUME NEW i \in 1..k PROVE entry.id # taken[i].id
        BY <1>5 DEF Ids, ToSet
      <4>1. IsBefore(taken[i], entry) /\ taken[i] \in planned
        BY <2>1, <2>5, <1>2, <1>4
      <4>2. taken[i] # entry
        BY <4>1, <2>6, <1>2, BeforeIsAnOrder
      <4> QED
        BY <4>1, <4>2, <2>6, <1>2 DEF IsListing
    <3> QED
      BY <3>1, <3>2, <2>6
  <2>8. \A other \in left : entry.bytes <= other.bytes
    <3> SUFFICES ASSUME NEW other \in left PROVE entry.bytes <= other.bytes
      OBVIOUS
    <3>1. PICK j \in (k + 1)..Len(items) : items[j] = other
      BY <1>6
    <3>2. entry = other \/ IsBefore(entry, other)
      BY <3>1, <2>1, <2>5, <1>2, <1>4
    <3> QED
      BY <3>2, <2>6, <1>3 DEF IsBefore, IsListing
  <2>9. Bytes(SubSeq(items, 1, k + 1)) = Bytes(taken) + entry.bytes
    <3>1. SubSeq(items, 1, k + 1) = Append(SubSeq(items, 1, k), items[k + 1])
      BY <1>2, <2>1, <1>4, Beginnings
    <3>2. SubSeq(items, 1, k + 1) = Append(taken, entry)
      BY ONLY <3>1, <2>5, <1>2
    <3>3. \A e \in planned : e.bytes \in Nat
      BY <1>2 DEF IsListing
    <3>4. Bytes(Append(taken, entry)) = Bytes(taken) + entry.bytes
      BY <3>3, <2>6, <1>2, BytesFacts
    <3> QED
      BY ONLY <3>2, <3>4
  <2>10. \/ \E limit \in maxTorrents : k = limit
         \/ \E cap \in maxBytes : Bytes(taken) + entry.bytes > cap
    <3>1. CASE \E limit \in maxTorrents : ~(k + 1 <= limit)
      BY <3>1, <2>3, <2>4, <1>4
    <3>2. CASE \E cap \in maxBytes : ~(Bytes(SubSeq(items, 1, k + 1)) <= cap)
      <4>1. PICK cap \in maxBytes : ~(Bytes(taken) + entry.bytes <= cap)
        BY <3>2, <2>9
      <4>2. Bytes(taken) \in Nat /\ entry.bytes \in Nat /\ cap \in Nat
        <5>1. \A e \in planned : e.bytes \in Nat
          BY <1>2 DEF IsListing
        <5> QED
          BY <5>1, <2>3, <2>6, <1>2, BytesFacts
      <4> QED
        BY <4>1, <4>2
    <3> QED
      BY <3>1, <3>2, <2>2 DEF Within
  <2> QED
    BY <2>4, <2>7, <2>8, <2>10
<1> QED
  BY <1>1, <1>7, <1>8 DEF CapTakesTheSmallest

(* A plan is a packing of what was listed.                                     *)
LEMMA MadeIsSound ==
  ASSUME PlanMade
  PROVE  PlanIsSound
<1>1. EveryTorrentAccounted
  BY MadeAccounts DEF PlanMade, EveryTorrentAccounted
<1>2. BatchesFillTheBudget
  BY DEF PlanMade, MadeOf, Fills, BatchesFillTheBudget
<1> QED
  BY <1>1, <1>2 DEF PlanIsSound

(* The rules a listing gives. *)
Derived(M, mapping) ==
  Listed(M) /\ CanBuild(M, Dest) /\ mapping = Derive(PathsForMap(M), Dest)

(* The rules of a plan with something in it were derived from its listing.     *)
LEMMA PlanDerived ==
  ASSUME PlanMade, NEW item \in Planned(manifest, plan.mapping)
  PROVE  Derived(manifest, plan.mapping)
BY DEF PlanMade, MadeOf, Planned, Derived

(* What deriving the rules gives: sources of named segments, one destination.  *)
LEMMA DerivedTyped ==
  ASSUME NEW M, NEW mapping, Derived(M, mapping)
  PROVE  /\ Components(Dest) \in Seq(Named) /\ Components(Dest) # <<>>
         /\ \A rule \in mapping : rule.from \in Seq(Named) /\ rule.to = Components(Dest)
         /\ \A r, q \in mapping : r.from = q.from => r = q
         /\ Mapped(mapping)
<1>1. PathsForMap(M) \in SUBSET Seq(Segments)
  BY DEF PathsForMap, Derived, Listed
<1>2. CanDerive(PathsForMap(M), Dest)
  BY DEF Derived, CanBuild
<1>3. /\ Components(Dest) \in Seq(Named) /\ Components(Dest) # <<>>
      /\ \A rule \in mapping : rule.from \in Seq(Named) /\ rule.to = Components(Dest)
      /\ \A r, q \in mapping : r.from = q.from => r = q
  BY <1>1, <1>2, DeriveFacts, PayloadAssumption DEF Derived
<1> QED
  BY <1>3 DEF Mapped

(* What is left of a path below the destination. *)
BelowDest(path) ==
  SubSeq(Components(path), Len(Components(Dest)) + 1, Len(Components(path)))

(* What the rules make of a planned torrent's path. *)
Moved(M, mapping, item, rule) ==
  /\ item \in M /\ item.path \in Seq(Segments)
  /\ rule \in mapping /\ rule.from \in Seq(Named)
  /\ Below(rule, item.path) \in Seq(Named)
  /\ Components(item.path) = rule.from \o Below(rule, item.path)
  /\ Apply(mapping, item.path) \in Seq(Segments)
  /\ BelowDest(Apply(mapping, item.path)) = Below(rule, item.path)

(* A planned torrent is moved by a rule from below its source to the           *)
(* destination.                                                                *)
LEMMA PlannedMoves ==
  ASSUME NEW M, NEW mapping, Derived(M, mapping), NEW item, item \in Planned(M, mapping),
         NEW rule, rule = RuleFor(mapping, item.path)
  PROVE  Moved(M, mapping, item, rule)
<1>1. /\ item \in M /\ item.path \in Seq(Segments)
      /\ Matching(mapping, item.path) # {}
  BY DEF Derived, Listed, Planned, IsPlanned
<1>2. /\ Components(Dest) \in Seq(Named) /\ Components(Dest) # <<>>
      /\ \A r \in mapping : r.from \in Seq(Named) /\ r.to = Components(Dest)
      /\ Mapped(mapping)
  BY DerivedTyped
<1>3. RuleFor(mapping, item.path) \in Matching(mapping, item.path)
  BY <1>1, <1>2, RuleForMatches
<1>4. /\ Below(RuleFor(mapping, item.path), item.path) \in Seq(Named)
      /\ Components(item.path)
           = RuleFor(mapping, item.path).from \o Below(RuleFor(mapping, item.path), item.path)
  BY <1>1, <1>2, <1>3, BelowFacts
<1>5. LET below == Below(RuleFor(mapping, item.path), item.path)
          parts == Components(Apply(mapping, item.path))
          to == Components(Dest)
      IN /\ RuleFor(mapping, item.path) \in mapping
         /\ Apply(mapping, item.path) \in Seq(Segments)
         /\ SubSeq(parts, Len(to) + 1, Len(parts)) = below
  BY <1>1, <1>2, ApplyFacts
<1> QED
  BY <1>1, <1>2, <1>4, <1>5 DEF BelowDest, Moved

(* If two planned torrents meet, their paths differ above the rules only: and  *)
(* without converging rules there is one rule.                                 *)
LEMMA MeetingConverges ==
  ASSUME NEW M, NEW mapping, Derived(M, mapping),
         NEW a \in Planned(M, mapping), NEW b \in Planned(M, mapping),
         Below(RuleFor(mapping, a.path), a.path) = Below(RuleFor(mapping, b.path), b.path),
         Components(a.path) # Components(b.path)
  PROVE  Converging(mapping) # {}
<1>1. PICK r, q : r = RuleFor(mapping, a.path) /\ q = RuleFor(mapping, b.path)
  OBVIOUS
<1>2. Moved(M, mapping, a, r)
  BY <1>1, PlannedMoves
<1>3. Moved(M, mapping, b, q)
  BY <1>1, PlannedMoves
<1>4. Below(r, a.path) = Below(q, b.path)
  BY <1>1
<1>5. r.from # q.from
  BY <1>2, <1>3, <1>4 DEF Moved
<1>6. r.to = q.to
  BY <1>2, <1>3, DerivedTyped DEF Moved
<1>7. <<r, q>> \in Converging(mapping)
  BY <1>2, <1>3, <1>5, <1>6 DEF Converging, Moved
<1> QED
  BY <1>7

(* A plan tells of the directories it merges.                                  *)
LEMMA MadeCollidesLoudly ==
  ASSUME PlanMade
  PROVE  NoSilentCollision
<1> SUFFICES ASSUME NEW a \in ToSet(Items(plan)), NEW b \in ToSet(Items(plan)),
                    Apply(plan.mapping, a.path) = Apply(plan.mapping, b.path),
                    Components(a.path) # Components(b.path)
             PROVE  Converging(plan.mapping) # {}
  BY DEF NoSilentCollision
<1>1. Items(plan) \in Seq(Planned(manifest, plan.mapping))
  <2>1. MadeOf(manifest, plan, report.deferred)
    BY DEF PlanMade
  <2> QED
    BY <2>1, MadeItems
<1>2. a \in Planned(manifest, plan.mapping) /\ b \in Planned(manifest, plan.mapping)
  BY <1>1 DEF ToSet
<1>4. Derived(manifest, plan.mapping)
  BY <1>2, PlanDerived
<1>3. Below(RuleFor(plan.mapping, a.path), a.path)
           = Below(RuleFor(plan.mapping, b.path), b.path)
  <2>1. Moved(manifest, plan.mapping, a, RuleFor(plan.mapping, a.path))
    BY <1>2, <1>4, PlannedMoves
  <2>2. Moved(manifest, plan.mapping, b, RuleFor(plan.mapping, b.path))
    BY <1>2, <1>4, PlannedMoves
  <2> QED
    BY <2>1, <2>2 DEF Moved
<1> QED
  BY <1>2, <1>3, <1>4, MeetingConverges

------------------------------------------------------------------------------
(* The state of a command.                                                     *)

File == [at : Seq(Segments), file : Files, from : Hashes]
Group == [root : Seq(Named), files : SUBSET File, torrents : SUBSET Hashes]

Commands == {"nothing", "rewrite", "transfer"}
Ends == {"none", "running", "error", "complete", "incomplete", "killed"}
Report ==
  [of : Commands, end : Ends, done : SUBSET Hashes, failed : SUBSET Hashes, deferred : Nat,
   dry : BOOLEAN]

Apart(gs) == \A i, j \in 1..Len(gs) :
  i # j => gs[i].root # gs[j].root /\ gs[i].torrents \cap gs[j].torrents = {}
Together(gs) == UNION {gs[i].torrents : i \in 1..Len(gs)}
Reached == report.done \cup report.failed

Typed ==
  /\ library \in [Hashes -> Entry]
  /\ staging \in [Hashes -> Pair]
  /\ landed \subseteq [at : Seq(Segments), file : Files, from : Hashes, whole : BOOLEAN]
  /\ pc \in {"idle", "write", "collect"}
  /\ report \in Report
  /\ pc = "write" => report.of = "rewrite"
  /\ pc # "idle" => manifest # {}
  /\ edits \in Nat /\ faults \in Nat
  /\ edits <= faults /\ faults <= MaxFaults

(* A torrent of the plan is in one place: not reached, in one group, or dealt  *)
(* with.                                                                       *)
Worked ==
  /\ todo \in Seq(Planned(manifest, plan.mapping))
  /\ \A i, j \in 1..Len(todo) : todo[i].id = todo[j].id => i = j
  /\ groups \in Seq(Group)
  /\ Apart(groups)
  /\ Ids(todo) \cap (Together(groups) \cup Reached) = {}
  /\ Together(groups) \cap Reached = {}
  /\ report.done \cap report.failed = {}
  /\ pc = "idle" => todo = <<>> /\ groups = <<>>
  /\ pc = "write" => groups = <<>>
  /\ pc # "idle" => Ids(Items(plan)) = Ids(todo) \cup Together(groups) \cup Reached

(* A torrent that a plan of the library moves, and where to. *)
Moves(h) ==
  /\ h \in Hashes
  /\ library[h].torrent = "good" /\ library[h].resume = "good"
  /\ Derived(Audit, Rules)
  /\ Inspect(h) \in Planned(Audit, Rules)
Spot(h) == Below(RuleFor(Rules, library[h].path), library[h].path) \o <<library[h].name>>

StagedByRules ==
  \A h \in Hashes :
    staging[h].resume = "good" => Moves(h) /\ staging[h].path = Apply(Rules, library[h].path)
LandedByRules ==
  \A l \in landed :
    /\ Moves(l.from) /\ l.at = Spot(l.from)
    /\ l.whole => library[l.from].disk[l.file] = "whole"
GroupedByRules ==
  \A i \in 1..Len(groups) :
    /\ \A x \in groups[i].files : Moves(x.from) /\ x.at = Spot(x.from)
    /\ \A h \in groups[i].torrents :
         /\ Moves(h)
         /\ \A f \in Files :
              library[h].disk[f] = "whole"
                => [at |-> Spot(h), file |-> f, from |-> h] \in groups[i].files
Arrived(h) == \A f \in Files :
  library[h].wanted[f] => [at |-> Spot(h), file |-> f, from |-> h, whole |-> TRUE] \in landed
DoneArrived ==
  report.of = "transfer" =>
    \A h \in report.done : Moves(h) /\ (Converging(Rules) = {} => Arrived(h))

(* As long as the library is not edited every command works by one set of      *)
(* rules.                                                                      *)
Unedited ==
  edits = 0 =>
    /\ library \in Libraries
    /\ manifest # {} => manifest = Audit
    /\ StagedByRules
    /\ LandedByRules
    /\ GroupedByRules
    /\ DoneArrived

(* What the three changes of a report are.                                     *)
LEMMA ReportEnds ==
  ASSUME report \in Report, NEW result \in Ends, report' = [report EXCEPT !.end = result]
  PROVE  /\ report' \in Report
         /\ report'.of = report.of /\ report'.done = report.done
         /\ report'.failed = report.failed /\ report'.deferred = report.deferred
BY DEF Report

LEMMA ReportDoes ==
  ASSUME report \in Report, NEW S \in SUBSET Hashes, report' = [report EXCEPT !.done = @ \cup S]
  PROVE  /\ report' \in Report
         /\ report'.of = report.of /\ report'.done = report.done \cup S
         /\ report'.failed = report.failed /\ report'.deferred = report.deferred
BY DEF Report

LEMMA ReportFails ==
  ASSUME report \in Report, NEW S \in SUBSET Hashes, report' = [report EXCEPT !.failed = @ \cup S]
  PROVE  /\ report' \in Report
         /\ report'.of = report.of /\ report'.done = report.done
         /\ report'.failed = report.failed \cup S /\ report'.deferred = report.deferred
BY DEF Report

Fresh(r, name) == r \in Report /\ r.of = name /\ r.done = {} /\ r.failed = {}

(* A new report.                                                               *)
LEMMA NewReportFacts ==
  ASSUME NEW name \in Commands, NEW result \in Ends
  PROVE  /\ Fresh(NewReport(name), name) /\ NewReport(name).deferred = 0
         /\ Fresh([NewReport(name) EXCEPT !.end = result], name)
         /\ [NewReport(name) EXCEPT !.end = result].deferred = 0
<1>1. PICK n : n = NewReport(name)
  OBVIOUS
<1>2. n = [of |-> name, end |-> "running", done |-> {}, failed |-> {}, deferred |-> 0,
           dry |-> FALSE]
  BY <1>1 DEF NewReport
<1>3. Fresh(n, name) /\ n.deferred = 0
  BY <1>2 DEF Fresh, Report, Commands, Ends
<1>4. Fresh([n EXCEPT !.end = result], name) /\ [n EXCEPT !.end = result].deferred = 0
  BY <1>3 DEF Fresh, Report
<1> QED
  BY <1>1, <1>3, <1>4

CappedReport(name, late, dry, result) ==
  [NewReport(name) EXCEPT !.deferred = late, !.dry = dry, !.end = result]

(* The report of a transfer, with what a cap has put off.                      *)
LEMMA CappedReportFacts ==
  ASSUME NEW name \in Commands, NEW result \in Ends, NEW late \in Nat, NEW dry \in BOOLEAN
  PROVE  LET r == CappedReport(name, late, dry, result) IN Fresh(r, name) /\ r.deferred = late
<1>1. PICK n : n = NewReport(name)
  OBVIOUS
<1>2. Fresh(n, name)
  BY <1>1, NewReportFacts
<1> QED
  BY <1>1, <1>2 DEF CappedReport, Fresh, Report

(* The next torrent of a loop, and those that remain. *)
LEMMA TodoTail ==
  ASSUME NEW S, NEW s \in Seq(S), s # <<>>,
         \A i, j \in 1..Len(s) : s[i].id = s[j].id => i = j
  PROVE  /\ Tail(s) \in Seq(S) /\ Head(s) \in S
         /\ \A i, j \in 1..Len(Tail(s)) : Tail(s)[i].id = Tail(s)[j].id => i = j
         /\ Ids(s) = {Head(s).id} \cup Ids(Tail(s))
         /\ Head(s).id \notin Ids(Tail(s))
<1>1. Len(s) \in Nat /\ Len(s) > 0 /\ Head(s) = s[1]
  OBVIOUS
<1>2. PICK t : t = Tail(s)
  OBVIOUS
<1>3. t \in Seq(S) /\ Len(t) = Len(s) - 1 /\ \A i \in 1..Len(t) : t[i] = s[i + 1]
  BY <1>2
<1>4. \A i, j \in 1..Len(t) : t[i].id = t[j].id => i = j
  BY <1>1, <1>3
<1>5. Ids(s) = {s[i].id : i \in 1..Len(s)} /\ Ids(t) = {t[i].id : i \in 1..Len(t)}
  BY <1>3 DEF Ids, ToSet
<1>6. \A i \in 1..Len(s) : i = 1 \/ (i - 1 \in 1..Len(t) /\ t[i - 1] = s[i])
  BY <1>1, <1>3
<1>7. \A i \in 1..Len(t) : i + 1 \in 1..Len(s) /\ t[i] = s[i + 1]
  BY <1>1, <1>3
<1>8. Ids(s) = {s[1].id} \cup Ids(t)
  <2>1. Ids(s) \subseteq {s[1].id} \cup Ids(t)
    BY <1>5, <1>6
  <2>2. {s[1].id} \cup Ids(t) \subseteq Ids(s)
    BY <1>1, <1>5, <1>7
  <2> QED
    BY <2>1, <2>2
<1>9. s[1].id \notin Ids(t)
  <2> SUFFICES ASSUME NEW i \in 1..Len(t), t[i].id = s[1].id PROVE FALSE
    BY <1>5
  <2>1. i + 1 \in 1..Len(s) /\ s[i + 1].id = s[1].id /\ 1 \in 1..Len(s)
    BY <1>1, <1>7
  <2>2. i + 1 = 1
    BY <2>1
  <2> QED
    BY <2>2
<1> QED
  BY <1>1, <1>2, <1>3, <1>4, <1>8, <1>9

(* Nothing left is no torrent.                                                 *)
LEMMA NoIds == Ids(<<>>) = {}
BY DEF Ids, ToSet

(* The groups left after the first.                                            *)
LEMMA GroupsTail ==
  ASSUME NEW gs \in Seq(Group), gs # <<>>, Apart(gs)
  PROVE  /\ Tail(gs) \in Seq(Group) /\ Head(gs) \in Group
         /\ Apart(Tail(gs))
         /\ Together(gs) = Head(gs).torrents \cup Together(Tail(gs))
         /\ Head(gs).torrents \cap Together(Tail(gs)) = {}
         /\ \A i \in 1..Len(Tail(gs)) : i + 1 \in 1..Len(gs) /\ Tail(gs)[i] = gs[i + 1]
<1>1. Len(gs) \in Nat /\ Len(gs) > 0 /\ Head(gs) = gs[1] /\ Head(gs) \in Group
  OBVIOUS
<1>2. PICK t : t = Tail(gs)
  OBVIOUS
<1>3. t \in Seq(Group) /\ Len(t) = Len(gs) - 1 /\ \A i \in 1..Len(t) : t[i] = gs[i + 1]
  BY <1>2
<1>4. \A i \in 1..Len(t) : i + 1 \in 1..Len(gs) /\ t[i] = gs[i + 1]
  BY <1>1, <1>3
<1>5. \A i \in 1..Len(gs) : i = 1 \/ (i - 1 \in 1..Len(t) /\ t[i - 1] = gs[i])
  BY <1>1, <1>3
<1>6. Apart(t)
  <2> SUFFICES ASSUME NEW i \in 1..Len(t), NEW j \in 1..Len(t), i # j
               PROVE  t[i].root # t[j].root /\ t[i].torrents \cap t[j].torrents = {}
    BY DEF Apart
  <2>1. i + 1 # j + 1 /\ i + 1 \in 1..Len(gs) /\ j + 1 \in 1..Len(gs)
    BY <1>1, <1>3
  <2>2. /\ gs[i + 1].root # gs[j + 1].root
        /\ gs[i + 1].torrents \cap gs[j + 1].torrents = {}
    BY <2>1 DEF Apart
  <2> QED
    BY <2>2, <1>4
<1>7. Together(gs) \subseteq gs[1].torrents \cup Together(t)
  BY <1>5 DEF Together
<1>8. gs[1].torrents \cup Together(t) \subseteq Together(gs)
  BY <1>1, <1>4 DEF Together
<1>9. gs[1].torrents \cap Together(t) = {}
  <2>1. \A i \in 1..Len(t) : gs[1].torrents \cap t[i].torrents = {}
    BY <1>1, <1>3, <1>4 DEF Apart
  <2> QED
    BY <2>1 DEF Together
<1> QED
  BY <1>1, <1>2, <1>3, <1>4, <1>6, <1>7, <1>8, <1>9

(* What a torrent adds to a group. *)
Joined(group, root, h, files) ==
  group = [root |-> root, files |-> files, torrents |-> {h}]
Grown(group, old, h, files) ==
  group = [root |-> old.root, files |-> old.files \cup files, torrents |-> old.torrents \cup {h}]

(* Adding a torrent's files to the group of its root, or beginning one.        *)
LEMMA AddToGroupFacts ==
  ASSUME groups \in Seq(Group), Apart(groups),
         NEW root \in Seq(Named), NEW h \in Hashes, NEW files \in SUBSET File,
         h \notin Together(groups),
         NEW gs, gs = AddToGroup(root, h, files)
  PROVE  /\ gs \in Seq(Group) /\ Apart(gs)
         /\ Together(gs) = Together(groups) \cup {h}
         /\ \A i \in 1..Len(gs) :
              \/ i \in 1..Len(groups) /\ gs[i] = groups[i]
              \/ i \in 1..Len(groups) /\ Grown(gs[i], groups[i], h, files)
              \/ Joined(gs[i], root, h, files)
<1>1. Len(groups) \in Nat /\ DOMAIN groups = 1..Len(groups)
  OBVIOUS
<1>2. CASE \E i \in DOMAIN groups : groups[i].root = root
  <2>1. PICK k \in 1..Len(groups) : groups[k].root = root
    BY <1>1, <1>2
  <2>2. PICK g : g = [root |-> root, files |-> groups[k].files \cup files,
                      torrents |-> groups[k].torrents \cup {h}]
    OBVIOUS
  <2>3. groups[k] \in Group
    BY <2>1
  <2>4. g \in Group /\ g.root = root /\ g.torrents = groups[k].torrents \cup {h}
    BY <2>2, <2>3 DEF Group
  <2>5. \A i \in 1..Len(groups) : groups[i].root = root => i = k
    BY <2>1 DEF Apart
  <2>6. g = [groups[k] EXCEPT !.files = @ \cup files, !.torrents = @ \cup {h}]
    <3>1. PICK old : old = groups[k]
      OBVIOUS
    <3>2. old \in [root : Seq(Named), files : SUBSET File, torrents : SUBSET Hashes]
      BY <3>1, <2>3 DEF Group
    <3>3. PICK new : new = [old EXCEPT !.files = @ \cup files, !.torrents = @ \cup {h}]
      OBVIOUS
    <3>4. /\ new \in [root : Seq(Named), files : SUBSET File, torrents : SUBSET Hashes]
          /\ new.root = old.root /\ new.files = old.files \cup files
          /\ new.torrents = old.torrents \cup {h}
      BY <3>2, <3>3
    <3>5. new = [root |-> new.root, files |-> new.files, torrents |-> new.torrents]
      BY <3>4
    <3> QED
      BY <3>1, <3>3, <3>4, <3>5, <2>1, <2>2
  <2>7. gs = [i \in DOMAIN groups |->
               IF groups[i].root = root
                 THEN [groups[i] EXCEPT !.files = @ \cup files, !.torrents = @ \cup {h}]
                 ELSE groups[i]]
    BY <1>2 DEF AddToGroup
  <2>8. DOMAIN gs = 1..Len(groups) /\ gs[k] = g
    BY <2>1, <2>6, <2>7, <1>1
  <2>9. \A i \in 1..Len(groups) : i # k => gs[i] = groups[i]
    BY <2>5, <2>7, <1>1
  <2> HIDE DEF Group
  <2>10. gs \in Seq(Group) /\ Len(gs) = Len(groups)
    <3>1. \A i \in 1..Len(groups) : gs[i] \in Group
      BY <2>4, <2>8, <2>9
    <3>2. gs \in [1..Len(groups) -> Group]
      BY <2>7, <3>1, <1>1
    <3> QED
      BY <3>2, <1>1
  <2>11. Apart(gs)
    <3> SUFFICES ASSUME NEW i \in 1..Len(groups), NEW j \in 1..Len(groups), i # j
                 PROVE  gs[i].root # gs[j].root /\ gs[i].torrents \cap gs[j].torrents = {}
      BY <2>10 DEF Apart
    <3>1. groups[i].root # groups[j].root /\ groups[i].torrents \cap groups[j].torrents = {}
      BY DEF Apart
    <3>2. h \notin groups[i].torrents /\ h \notin groups[j].torrents
      BY DEF Together
    <3>3. CASE i = k
      BY <3>1, <3>2, <3>3, <2>1, <2>4, <2>8, <2>9
    <3>4. CASE j = k
      BY <3>1, <3>2, <3>4, <2>1, <2>4, <2>8, <2>9
    <3>5. CASE i # k /\ j # k
      BY <3>1, <3>5, <2>9
    <3> QED
      BY <3>3, <3>4, <3>5
  <2>12. Together(gs) = Together(groups) \cup {h}
    <3>1. \A i \in 1..Len(groups) : gs[i].torrents \subseteq groups[i].torrents \cup {h}
      BY <2>4, <2>8, <2>9
    <3>2. \A i \in 1..Len(groups) : groups[i].torrents \subseteq gs[i].torrents
      BY <2>4, <2>8, <2>9
    <3>3. h \in gs[k].torrents
      BY <2>4, <2>8
    <3> QED
      BY <3>1, <3>2, <3>3, <2>1, <2>10 DEF Together
  <2>13. Grown(gs[k], groups[k], h, files)
    BY <2>1, <2>2, <2>8 DEF Grown
  <2> QED
    BY <2>9, <2>10, <2>11, <2>12, <2>13
<1>3. CASE ~ \E i \in DOMAIN groups : groups[i].root = root
  <2>1. PICK g : g = [root |-> root, files |-> files, torrents |-> {h}]
    OBVIOUS
  <2>2. g \in Group /\ g.root = root /\ g.torrents = {h}
    BY <2>1 DEF Group
  <2>3. gs = Append(groups, g)
    BY <1>3, <2>1 DEF AddToGroup
  <2> HIDE DEF Group
  <2>4. /\ gs \in Seq(Group) /\ Len(gs) = Len(groups) + 1
        /\ \A i \in 1..Len(groups) : gs[i] = groups[i]
        /\ gs[Len(groups) + 1] = g
    BY <2>2, <2>3
  <2>5. \A i \in 1..Len(gs) : i \in 1..Len(groups) \/ i = Len(groups) + 1
    BY <2>4, <1>1
  <2>6. Apart(gs)
    <3> SUFFICES ASSUME NEW i \in 1..Len(gs), NEW j \in 1..Len(gs), i # j
                 PROVE  gs[i].root # gs[j].root /\ gs[i].torrents \cap gs[j].torrents = {}
      BY DEF Apart
    <3>1. \A l \in 1..Len(groups) : groups[l].root # root /\ h \notin groups[l].torrents
      BY <1>3, <1>1 DEF Together
    <3>2. CASE i \in 1..Len(groups) /\ j \in 1..Len(groups)
      BY <3>2, <2>4 DEF Apart
    <3>3. CASE i = Len(groups) + 1
      BY <3>1, <3>3, <2>2, <2>4, <2>5
    <3>4. CASE j = Len(groups) + 1
      BY <3>1, <3>4, <2>2, <2>4, <2>5
    <3> QED
      BY <3>2, <3>3, <3>4, <2>5
  <2>7. Together(gs) = Together(groups) \cup {h}
    <3>1. Together(gs) \subseteq Together(groups) \cup {h}
      BY <2>2, <2>4, <2>5 DEF Together
    <3>2. \A i \in 1..Len(groups) : i \in 1..Len(gs) /\ gs[i].torrents = groups[i].torrents
      BY <2>4, <1>1
    <3>3. Len(groups) + 1 \in 1..Len(gs) /\ h \in gs[Len(groups) + 1].torrents
      BY <2>2, <2>4, <1>1
    <3> QED
      BY <3>1, <3>2, <3>3 DEF Together
  <2>8. Joined(gs[Len(groups) + 1], root, h, files)
    BY <2>1, <2>4 DEF Joined
  <2> QED
    BY <2>4, <2>5, <2>6, <2>7, <2>8
<1> QED
  BY <1>2, <1>3

------------------------------------------------------------------------------
(* What holds in every state.                                                  *)

CommandInv == Typed /\ PlanMade /\ Worked

(* There are no groups before the first.                                       *)
LEMMA NoGroups == <<>> \in Seq(Group) /\ Apart(<<>>) /\ Together(<<>>) = {}
BY DEF Apart, Together

(* A command that has ended has nothing before it.                             *)
LEMMA NoWork ==
  ASSUME todo' = <<>>, groups' = <<>>, pc' = "idle", report'.done \cap report'.failed = {}
  PROVE  Worked'
<1>1. PICK P : P = Planned(manifest', plan'.mapping)
  OBVIOUS
<1>2. todo' \in Seq(P) /\ Len(todo') = 0
  OBVIOUS
<1>3. \A i, j \in 1..Len(todo') : todo'[i].id = todo'[j].id => i = j
  BY <1>2
<1>4. Ids(todo') = {} /\ Together(groups') = {} /\ groups' \in Seq(Group) /\ Apart(groups')
  BY NoIds, NoGroups
<1> QED
  BY <1>1, <1>2, <1>3, <1>4 DEF Worked

(* The torrents of a plan are distinct ones of this model's hashes. *)
LEMMA PlanIsWork ==
  ASSUME NEW M, NEW pl, NEW put_off, MadeOf(M, pl, put_off),
         NEW P, P = Planned(M, pl.mapping), NEW s, s = Items(pl)
  PROVE  s \in Seq(P) /\ \A i, j \in 1..Len(s) : s[i].id = s[j].id => i = j
<1>2. PICK sorted : sorted = SmallestFirst(P)
  OBVIOUS
<1>3. /\ IsListing(P) /\ s \in Seq(P) /\ Len(s) \in 0..Len(sorted)
      /\ \A i \in 1..Len(s) : s[i] = sorted[i]
      /\ \A i, j \in 1..Len(sorted) : i < j => IsBefore(sorted[i], sorted[j])
  BY <1>2, MadeItems
<1>4. Len(s) \in Nat /\ Len(sorted) \in Nat
  <2>1. Len(sorted) = Cardinality(P) /\ Cardinality(P) \in Nat
    BY <1>2, <1>3, SortedTyped
  <2> QED
    BY <2>1, <1>3
<1>5. \A i, j \in 1..Len(s) : i < j => s[i].id # s[j].id
  <2> SUFFICES ASSUME NEW i \in 1..Len(s), NEW j \in 1..Len(s), i < j
               PROVE  s[i].id # s[j].id
    OBVIOUS
  <2>1. IsBefore(s[i], s[j]) /\ s[i] \in P /\ s[j] \in P
    BY <1>3, <1>4
  <2>2. s[i] # s[j]
    BY <2>1, <1>3, BeforeIsAnOrder
  <2> QED
    BY <2>1, <2>2, <1>3 DEF IsListing
<1> QED
  BY <1>3, <1>4, <1>5

(* A command begins with its whole plan before it.                             *)
LEMMA BeginsWork ==
  ASSUME PlanMade', todo' = Items(plan'), groups' = <<>>, pc' \in {"write", "collect"},
         report'.done = {}, report'.failed = {}
  PROVE  Worked'
<1>1. PICK P : P = Planned(manifest', plan'.mapping)
  OBVIOUS
<1>2. todo' \in Seq(P) /\ \A i, j \in 1..Len(todo') : todo'[i].id = todo'[j].id => i = j
  <2>1. MadeOf(manifest', plan', report'.deferred)
    BY DEF PlanMade
  <2> QED
    BY <2>1, <1>1, PlanIsWork
<1>3. Together(groups') = {} /\ groups' \in Seq(Group) /\ Apart(groups')
  BY NoGroups
<1> QED
  BY <1>1, <1>2, <1>3 DEF Worked, Reached

(* A fault is counted.                                                         *)
LEMMA FaultTyped ==
  ASSUME faults \in Nat, edits <= faults, edits \in Nat, faults <= MaxFaults, Fault
  PROVE  /\ faults' \in Nat /\ faults' <= MaxFaults /\ edits <= faults' /\ edits + 1 <= faults'
BY PayloadAssumption DEF Fault

(* Of an empty library there is no plan.                                       *)
LEMMA BuiltOfSomething == ASSUME NEW M, CanBuild(M, Dest) PROVE M # {}
BY DEF CanBuild, CanDerive, PathsForMap

(* Each step keeps the invariant: beginning a command, or failing to.          *)
LEMMA BeginFailsKeeps ==
  ASSUME CommandInv, NEW name \in {"rewrite", "transfer"}, BeginFails(name)
  PROVE  CommandInv'
<1>1. /\ UNCHANGED <<library, staging, landed, pc, todo, groups, edits>> /\ pc = "idle"
      /\ manifest' = {} /\ plan' = NoPlan
      /\ report' = [NewReport(name) EXCEPT !.end = "error"]
      /\ (UNCHANGED faults \/ Fault)
  BY DEF BeginFails
<1>2. Fresh(report', name) /\ report'.deferred = 0
  <2>1. name \in Commands /\ "error" \in Ends
    BY DEF Commands, Ends
  <2> QED
    BY <2>1, <1>1, NewReportFacts
<1>3. Typed'
  <2>1. /\ library' \in [Hashes -> Entry] /\ staging' \in [Hashes -> Pair]
        /\ landed' \subseteq [at : Seq(Segments), file : Files, from : Hashes, whole : BOOLEAN]
        /\ pc' = "idle" /\ report' \in Report
    BY <1>1, <1>2 DEF CommandInv, Typed, Fresh
  <2>2. edits' \in Nat /\ faults' \in Nat /\ edits' <= faults' /\ faults' <= MaxFaults
    BY <1>1, FaultTyped DEF CommandInv, Typed
  <2> QED
    BY <2>1, <2>2 DEF Typed
<1>4. PlanMade'
  BY <1>1, <1>2, NothingMade DEF PlanMade
<1>5. Worked'
  <2>1. todo' = <<>> /\ groups' = <<>> /\ pc' = "idle"
    BY <1>1 DEF CommandInv, Worked
  <2> QED
    BY <2>1, <1>2, NoWork DEF Fresh
<1> QED
  BY <1>3, <1>4, <1>5 DEF CommandInv

LEMMA BeginRewriteKeeps ==
  ASSUME CommandInv, NEW budget \in Budgets, BeginRewrite(budget)
  PROVE  CommandInv' /\ Fresh(report', "rewrite")
<1>1. /\ UNCHANGED <<library, staging, landed, groups, edits, faults>> /\ pc = "idle"
      /\ CanBuild(Audit, Dest)
      /\ manifest' = Audit /\ plan' = Build(Audit, Dest, budget)
      /\ todo' = Items(plan') /\ pc' = "write"
      /\ report' = NewReport("rewrite")
  BY DEF BeginRewrite
<1>2. Fresh(report', "rewrite") /\ report'.deferred = 0
  <2>1. "rewrite" \in Commands /\ "error" \in Ends
    BY DEF Commands, Ends
  <2> QED
    BY <2>1, <1>1, NewReportFacts
<1>3. Typed'
  <2>1. manifest' # {}
    BY <1>1, BuiltOfSomething
  <2> QED
    BY <2>1, <1>1, <1>2 DEF CommandInv, Typed, Fresh
<1>4. PlanMade'
  <2>1. Listed(Audit) /\ budget \in Nat
    BY AuditListed, PayloadAssumption DEF CommandInv, Typed
  <2> QED
    BY <2>1, <1>1, <1>2, MadeByBuild DEF PlanMade
<1>5. Worked'
  <2>1. groups' = <<>>
    BY <1>1 DEF CommandInv, Worked
  <2> QED
    BY <2>1, <1>1, <1>2, <1>4, BeginsWork DEF Fresh
<1> QED
  BY <1>2, <1>3, <1>4, <1>5 DEF CommandInv

LEMMA BeginTransferKeeps ==
  ASSUME CommandInv, NEW budget \in Budgets, NEW maxBytes \in ByteCaps,
         NEW maxTorrents \in TorrentCaps,
         NEW dry \in BOOLEAN, BeginTransfer(budget, maxBytes, maxTorrents, dry)
  PROVE  CommandInv' /\ Fresh(report', "transfer")
<1>1. PICK full : full = Build(Audit, Dest, budget)
  OBVIOUS
<1>2. PICK result : result = IF dry THEN "complete" ELSE "running"
  OBVIOUS
<1>3. PICK late : late = Len(Items(full)) - Len(Items(plan'))
  OBVIOUS
<1>4. /\ UNCHANGED <<library, staging, landed, groups, edits, faults>> /\ pc = "idle"
      /\ CanBuild(Audit, Dest)
      /\ manifest' = Audit /\ plan' = TakeSmallest(full, maxBytes, maxTorrents)
      /\ report' = [NewReport("transfer") EXCEPT !.deferred = late, !.dry = dry, !.end = result]
  BY <1>1, <1>2, <1>3 DEF BeginTransfer
<1>5. /\ pc' = IF dry THEN "idle" ELSE "collect"
      /\ todo' = IF dry THEN <<>> ELSE Items(plan')
  BY DEF BeginTransfer
<1>6. MadeOf(Audit, plan', late)
  <2>1. Listed(Audit) /\ budget \in Nat
    BY AuditListed, PayloadAssumption DEF CommandInv, Typed
  <2> QED
    BY <2>1, <1>1, <1>3, <1>4, MadeByTake
<1>7. late \in Nat
  <2>1. PICK P, s, t :
          /\ P = Planned(Audit, plan'.mapping) /\ s = SmallestFirst(P) /\ t = Items(plan')
    OBVIOUS
  <2>2. /\ IsListing(P) /\ Len(t) \in 0..Len(s) /\ late = Len(s) - Len(t)
    BY <2>1, <1>6, MadeItems
  <2>3. Len(s) \in Nat
    BY <2>1, <2>2, SortedTyped
  <2> QED
    BY <2>2, <2>3
<1>8. Fresh(report', "transfer") /\ report'.deferred = late
  <2>1. "transfer" \in Commands /\ result \in Ends
    BY <1>2 DEF Commands, Ends
  <2>2. report' = CappedReport("transfer", late, dry, result)
    BY <1>4 DEF CappedReport
  <2> QED
    BY <2>1, <2>2, <1>7, CappedReportFacts
<1>9. Typed'
  <2>1. manifest' # {}
    BY <1>4, BuiltOfSomething
  <2> QED
    BY <2>1, <1>4, <1>5, <1>8 DEF CommandInv, Typed, Fresh
<1>10. PlanMade'
  BY <1>4, <1>6, <1>8 DEF PlanMade
<1>11. Worked'
  <2>1. groups' = <<>>
    BY <1>4 DEF CommandInv, Worked
  <2>2. CASE dry
    BY <2>1, <2>2, <1>5, <1>8, NoWork DEF Fresh
  <2>3. CASE ~dry
    BY <2>1, <2>3, <1>5, <1>8, <1>10, BeginsWork DEF Fresh
  <2> QED
    BY <2>2, <2>3
<1> QED
  BY <1>8, <1>9, <1>10, <1>11 DEF CommandInv

(* A command ends, or is killed. *)
LEMMA EndsKeeps ==
  ASSUME CommandInv, UNCHANGED <<library, staging, landed, manifest, plan, edits>>,
         faults' = faults \/ Fault, NEW result \in Ends,
         pc' = "idle", report' = [report EXCEPT !.end = result], todo' = <<>>, groups' = <<>>
  PROVE  CommandInv'
<1>1. /\ report' \in Report /\ report'.done = report.done /\ report'.failed = report.failed
      /\ report'.deferred = report.deferred
  BY ReportEnds DEF CommandInv, Typed
<1>2. edits' \in Nat /\ faults' \in Nat /\ edits' <= faults' /\ faults' <= MaxFaults
  BY FaultTyped DEF CommandInv, Typed
<1>3. Typed'
  BY <1>1, <1>2 DEF CommandInv, Typed
<1>4. PlanMade'
  BY <1>1 DEF CommandInv, PlanMade
<1>5. Worked'
  BY <1>1, NoWork DEF CommandInv, Worked
<1> QED
  BY <1>3, <1>4, <1>5 DEF CommandInv

(* The ends of the two commands, a kill, and an edit.                          *)
LEMMA EndRewriteKeeps == CommandInv /\ EndRewrite => CommandInv'
<1> SUFFICES ASSUME CommandInv, EndRewrite PROVE CommandInv'
  OBVIOUS
<1>1. PICK result \in {"complete", "incomplete"} : result = Ended
  BY DEF Ended
<1>2. /\ UNCHANGED <<library, staging, landed, manifest, plan, edits, faults>>
      /\ pc' = "idle" /\ report' = [report EXCEPT !.end = result]
      /\ todo' = <<>>
  BY <1>1 DEF EndRewrite, End
<1>3. groups' = <<>>
  BY DEF EndRewrite, CommandInv, Worked
<1>4. result \in Ends
  BY <1>1 DEF Ends
<1> QED
  BY <1>2, <1>3, <1>4, EndsKeeps

LEMMA EndTransferKeeps == CommandInv /\ EndTransfer => CommandInv'
<1> SUFFICES ASSUME CommandInv, EndTransfer PROVE CommandInv'
  OBVIOUS
<1>1. PICK result \in {"complete", "incomplete"} : result = Ended
  BY DEF Ended
<1>2. /\ UNCHANGED <<library, staging, landed, manifest, plan, edits, faults>>
      /\ pc' = "idle" /\ report' = [report EXCEPT !.end = result]
      /\ todo' = <<>> /\ groups' = <<>>
  BY <1>1 DEF EndTransfer, End
<1>3. result \in Ends
  BY <1>1 DEF Ends
<1> QED
  BY <1>2, <1>3, EndsKeeps

LEMMA KillKeeps == CommandInv /\ Kill => CommandInv'
<1> SUFFICES ASSUME CommandInv, Kill PROVE CommandInv'
  OBVIOUS
<1>1. "killed" \in Ends
  BY DEF Ends
<1> QED
  BY <1>1, EndsKeeps DEF Kill, End

LEMMA EditKeeps == CommandInv /\ Edit => CommandInv'
<1> SUFFICES ASSUME CommandInv, Edit PROVE CommandInv'
  OBVIOUS
<1>1. /\ UNCHANGED <<staging, landed, pc, manifest, plan, todo, groups, report>>
      /\ edits' = edits + 1
      /\ Fault
  BY DEF Edit, command
<1>2. edits' \in Nat /\ faults' \in Nat /\ edits' <= faults' /\ faults' <= MaxFaults
  BY <1>1, FaultTyped DEF CommandInv, Typed
<1>3. library' \in [Hashes -> Entry]
  <2>1. PICK h \in Hashes :
       \/ \E pair \in EditedPairs :
            library' = [library EXCEPT ![h] = [@ EXCEPT !.torrent = pair[1], !.resume = pair[2]]]
       \/ \E f \in Files : /\ library[h].disk[f] = "whole"
                           /\ library' = [library EXCEPT ![h].disk = [@ EXCEPT ![f] = "absent"]]
    BY DEF Edit
  <2>2. library \in [Hashes -> Entry] /\ library[h] \in Entry
    BY DEF CommandInv, Typed
  <2>3. ASSUME NEW pair \in EditedPairs
        PROVE  [library[h] EXCEPT !.torrent = pair[1], !.resume = pair[2]] \in Entry
    <3>1. pair \in FileState \X FileState
      BY PayloadAssumption
    <3>2. pair[1] \in FileState /\ pair[2] \in FileState
      BY <3>1
    <3> QED
      BY <2>2, <3>2 DEF Entry
  <2>4. ASSUME NEW f \in Files
        PROVE  [library[h] EXCEPT !.disk = [@ EXCEPT ![f] = "absent"]] \in Entry
    <3>1. [library[h].disk EXCEPT ![f] = "absent"] \in [Files -> Observed]
      BY <2>2 DEF Entry, Observed
    <3> QED
      BY <2>2, <3>1 DEF Entry
  <2> HIDE DEF Entry
  <2> QED
    BY <2>1, <2>2, <2>3, <2>4
<1>4. Typed'
  BY <1>1, <1>2, <1>3 DEF CommandInv, Typed
<1>5. PlanMade'
  BY <1>1 DEF CommandInv, PlanMade
<1>6. Worked'
  BY <1>1 DEF CommandInv, Worked, Reached
<1> QED
  BY <1>4, <1>5, <1>6 DEF CommandInv

(* A torrent of the plan fails or is done in its turn. *)
LEMMA DealtWithOne ==
  ASSUME Worked, todo # <<>>, pc # "idle", todo' = Tail(todo),
         UNCHANGED <<manifest, plan, groups, pc>>,
         \/ report'.done = report.done \cup {Head(todo).id} /\ report'.failed = report.failed
         \/ report'.failed = report.failed \cup {Head(todo).id} /\ report'.done = report.done
  PROVE  Worked'
<1>1. PICK P, h : P = Planned(manifest, plan.mapping) /\ h = Head(todo).id
  OBVIOUS
<1>2. todo \in Seq(P) /\ \A i, j \in 1..Len(todo) : todo[i].id = todo[j].id => i = j
  BY <1>1 DEF Worked
<1>3. /\ todo' \in Seq(P)
      /\ \A i, j \in 1..Len(todo') : todo'[i].id = todo'[j].id => i = j
      /\ Ids(todo) = {h} \cup Ids(todo') /\ h \notin Ids(todo')
  BY <1>1, <1>2, TodoTail
<1>4. Reached' = Reached \cup {h}
  BY <1>1 DEF Reached
<1>5. /\ Ids(todo) \cap (Together(groups) \cup Reached) = {}
      /\ Together(groups) \cap Reached = {}
      /\ report.done \cap report.failed = {}
      /\ Ids(Items(plan)) = Ids(todo) \cup Together(groups) \cup Reached
  BY DEF Worked
<1>6. h \notin Together(groups) /\ h \notin report.done /\ h \notin report.failed
  BY <1>3, <1>5 DEF Reached
<1>7. /\ Ids(todo') \cap (Together(groups') \cup Reached') = {}
      /\ Together(groups') \cap Reached' = {}
      /\ Ids(Items(plan')) = Ids(todo') \cup Together(groups') \cup Reached'
  BY <1>3, <1>4, <1>5, <1>6
<1>8. report'.done \cap report'.failed = {}
  BY <1>1, <1>5, <1>6
<1>9. /\ groups' \in Seq(Group) /\ Apart(groups')
      /\ (pc' = "write" => groups' = <<>>) /\ pc' # "idle"
  BY DEF Worked
<1> QED
  BY <1>1, <1>3, <1>7, <1>8, <1>9 DEF Worked

(* A torrent is written, or is not.                                            *)
LEMMA WriteOneKeeps == CommandInv /\ WriteOne => CommandInv'
<1> SUFFICES ASSUME CommandInv, WriteOne PROVE CommandInv'
  OBVIOUS
<1>1. PICK item, h : item = Head(todo) /\ h = item.id
  OBVIOUS
<1>2. /\ pc = "write" /\ todo # <<>> /\ todo' = Tail(todo)
      /\ UNCHANGED <<library, landed, pc, manifest, plan, groups, edits>>
  BY DEF WriteOne
<1>3. item \in Planned(manifest, plan.mapping)
  BY <1>1, <1>2 DEF CommandInv, Worked
<1>4. h \in Hashes /\ Apply(plan.mapping, item.path) \in Seq(Segments)
  <2>1. item \in manifest /\ Apply(plan.mapping, item.path) \in Seq(Segments)
    <3>1. PlanMade
      BY DEF CommandInv
    <3>2. Moved(manifest, plan.mapping, item, RuleFor(plan.mapping, item.path))
      BY <3>1, <1>3, PlannedMoves, PlanDerived
    <3> QED
      BY <3>2 DEF Moved
  <2> QED
    BY <2>1, <1>1 DEF CommandInv, PlanMade, MadeOf, Listed
<1>5. /\ \/ report' = [report EXCEPT !.done = @ \cup {h}]
         \/ report' = [report EXCEPT !.failed = @ \cup {h}]
      /\ UNCHANGED faults \/ Fault
      /\ staging' \in {staging, [staging EXCEPT ![h] = Rewritten(item)],
                       [staging EXCEPT ![h].torrent = "torn"],
                       [staging EXCEPT ![h].torrent = "good"],
                       [staging EXCEPT ![h].torrent = "good", ![h].resume = "torn"]}
  BY <1>1 DEF WriteOne
<1>6. /\ report' \in Report /\ report'.deferred = report.deferred /\ report'.of = report.of
      /\ \/ report'.done = report.done \cup {h} /\ report'.failed = report.failed
         \/ report'.failed = report.failed \cup {h} /\ report'.done = report.done
  <2>1. {h} \in SUBSET Hashes
    BY <1>4
  <2> QED
    BY <2>1, <1>5, ReportDoes, ReportFails DEF CommandInv, Typed
<1>7. staging' \in [Hashes -> Pair]
  <2>1. staging \in [Hashes -> Pair]
    BY DEF CommandInv, Typed
  <2>2. Rewritten(item) \in Pair
    BY <1>4 DEF Rewritten, Pair
  <2>3. /\ [staging EXCEPT ![h] = Rewritten(item)] \in [Hashes -> Pair]
        /\ [staging EXCEPT ![h].torrent = "torn"] \in [Hashes -> Pair]
        /\ [staging EXCEPT ![h].torrent = "good"] \in [Hashes -> Pair]
        /\ [staging EXCEPT ![h].torrent = "good", ![h].resume = "torn"] \in [Hashes -> Pair]
    BY <2>1, <2>2, <1>4 DEF Pair
  <2> QED
    BY <2>1, <2>3, <1>5
<1>8. Typed'
  <2>1. edits' \in Nat /\ faults' \in Nat /\ edits' <= faults' /\ faults' <= MaxFaults
    BY <1>2, <1>5, FaultTyped DEF CommandInv, Typed
  <2> QED
    BY <2>1, <1>2, <1>6, <1>7 DEF CommandInv, Typed
<1>9. PlanMade'
  BY <1>2, <1>6 DEF CommandInv, PlanMade
<1>10. Worked'
  BY <1>1, <1>2, <1>6, DealtWithOne DEF CommandInv
<1> QED
  BY <1>8, <1>9, <1>10 DEF CommandInv

(* The files a torrent brings, and the root they are below. *)
LEMMA RelativesTyped ==
  ASSUME CommandInv, NEW item \in Planned(manifest, plan.mapping),
         NEW rule, rule = RuleFor(plan.mapping, item.path)
  PROVE  /\ item.id \in Hashes /\ rule.from \in Seq(Named)
         /\ Relatives(item, rule) \in SUBSET File
<1>1. Moved(manifest, plan.mapping, item, rule)
  <2>1. PlanMade
    BY DEF CommandInv
  <2> QED
    BY <2>1, PlannedMoves, PlanDerived
<1>2. item.id \in Hashes
  BY <1>1 DEF CommandInv, PlanMade, MadeOf, Listed, Moved
<1>3. library[item.id].name \in Segments
  BY <1>2 DEF CommandInv, Typed, Entry
<1>4. Below(rule, item.path) \o <<library[item.id].name>> \in Seq(Segments)
  <2>1. Below(rule, item.path) \in Seq(Segments)
    BY <1>1, SeqMonotonic DEF Named, Moved
  <2> QED
    BY <2>1, <1>3
<1>5. Relatives(item, rule) \in SUBSET File
  BY <1>2, <1>4 DEF Relatives, File
<1> QED
  BY <1>1, <1>2, <1>5 DEF Moved

(* The files of a torrent are collected, or it fails.                          *)
LEMMA CollectKeeps == CommandInv /\ Collect => CommandInv'
<1> SUFFICES ASSUME CommandInv, Collect PROVE CommandInv'
  OBVIOUS
<1>1. PICK item, h, rule, files :
        /\ item = Head(todo) /\ h = item.id /\ rule = RuleFor(plan.mapping, item.path)
        /\ files = Relatives(item, rule)
  OBVIOUS
<1>2. /\ pc = "collect" /\ todo # <<>> /\ todo' = Tail(todo)
      /\ UNCHANGED <<library, staging, landed, pc, manifest, plan, edits>>
      /\ UNCHANGED faults \/ Fault
      /\ \/ groups' = AddToGroup(rule.from, h, files) /\ UNCHANGED report
         \/ report' = [report EXCEPT !.failed = @ \cup {h}] /\ UNCHANGED groups
  BY <1>1 DEF Collect
<1>3. item \in Planned(manifest, plan.mapping)
  BY <1>1, <1>2 DEF CommandInv, Worked
<1>4. h \in Hashes /\ rule.from \in Seq(Named) /\ files \in SUBSET File
  BY <1>1, <1>3, RelativesTyped
<1>5. /\ report' \in Report /\ report'.deferred = report.deferred
      /\ \/ report' = report
         \/ report'.failed = report.failed \cup {h} /\ report'.done = report.done
  <2>1. {h} \in SUBSET Hashes
    BY <1>4
  <2> QED
    BY <2>1, <1>2, ReportFails DEF CommandInv, Typed
<1>6. Typed'
  <2>1. edits' \in Nat /\ faults' \in Nat /\ edits' <= faults' /\ faults' <= MaxFaults
    BY <1>2, FaultTyped DEF CommandInv, Typed
  <2> QED
    BY <2>1, <1>2, <1>5 DEF CommandInv, Typed
<1>7. PlanMade'
  BY <1>2, <1>5 DEF CommandInv, PlanMade
<1>8. CASE UNCHANGED groups /\ report' = [report EXCEPT !.failed = @ \cup {h}]
  <2>1. report'.failed = report.failed \cup {h} /\ report'.done = report.done
    <3>1. {h} \in SUBSET Hashes
      BY <1>4
    <3> QED
      BY <3>1, <1>8, ReportFails DEF CommandInv, Typed
  <2>2. Worked'
    BY <2>1, <1>1, <1>2, <1>8, DealtWithOne DEF CommandInv
  <2> QED
    BY <2>2, <1>6, <1>7 DEF CommandInv
<1>9. CASE groups' = AddToGroup(rule.from, h, files) /\ UNCHANGED report
  <2>1. PICK P : P = Planned(manifest, plan.mapping)
    OBVIOUS
  <2>2. todo \in Seq(P) /\ \A i, j \in 1..Len(todo) : todo[i].id = todo[j].id => i = j
    BY <2>1 DEF CommandInv, Worked
  <2>3. /\ todo' \in Seq(P)
        /\ \A i, j \in 1..Len(todo') : todo'[i].id = todo'[j].id => i = j
        /\ Ids(todo) = {h} \cup Ids(todo') /\ h \notin Ids(todo')
    BY <2>2, <1>1, <1>2, TodoTail
  <2>4. /\ Ids(todo) \cap (Together(groups) \cup Reached) = {}
        /\ Together(groups) \cap Reached = {} /\ report.done \cap report.failed = {}
        /\ Ids(Items(plan)) = Ids(todo) \cup Together(groups) \cup Reached
        /\ groups \in Seq(Group) /\ Apart(groups)
    BY <1>2 DEF CommandInv, Worked
  <2>5. h \notin Together(groups)
    BY <2>3, <2>4
  <2>6. /\ groups' \in Seq(Group) /\ Apart(groups')
        /\ Together(groups') = Together(groups) \cup {h}
    BY <2>4, <2>5, <1>4, <1>9, AddToGroupFacts
  <2>7. Reached' = Reached /\ report'.done \cap report'.failed = {}
    BY <2>4, <1>9 DEF Reached
  <2>8. /\ Ids(todo') \cap (Together(groups') \cup Reached') = {}
        /\ Together(groups') \cap Reached' = {}
        /\ Ids(Items(plan')) = Ids(todo') \cup Together(groups') \cup Reached'
    BY <2>3, <2>4, <2>6, <2>7, <1>2
  <2>9. Worked'
    BY <2>1, <2>3, <2>6, <2>7, <2>8, <1>2 DEF Worked
  <2> QED
    BY <2>9, <1>6, <1>7 DEF CommandInv
<1> QED
  BY <1>2, <1>8, <1>9

(* What one rsync lands. *)
Sent(file, cut) ==
  [at |-> file.at, file |-> file.file, from |-> file.from,
   whole |-> ~cut /\ library[file.from].disk[file.file] = "whole"]
Landing == [at : Seq(Segments), file : Files, from : Hashes, whole : BOOLEAN]

(* A file that is sent lands as it is on the source, unless it is cut off.     *)
LEMMA SentTyped ==
  ASSUME NEW file \in File, NEW cut \in BOOLEAN
  PROVE  /\ Sent(file, cut) \in Landing
         /\ Sent(file, cut).at = file.at /\ Sent(file, cut).file = file.file
         /\ Sent(file, cut).from = file.from
         /\ Sent(file, cut).whole => library[file.from].disk[file.file] = "whole"
BY DEF Sent, File, Landing

(* What a copy does, in one place. *)
There(group) == {x \in group.files : library[x.from].disk[x.file] \in {"whole", "short"}}
Copied(sent, cut) == Land({Sent(x, x \in cut) : x \in sent})
News(group) == {x \in There(group) : Sent(x, FALSE) \notin landed}

(* All that a copy changes.                                                    *)
LEMMA CopyFacts ==
  ASSUME Copy, NEW group, group = Head(groups)
  PROVE  /\ pc = "collect" /\ todo = <<>> /\ groups # <<>> /\ groups' = Tail(groups)
         /\ UNCHANGED <<library, staging, pc, manifest, plan, todo, edits>>
         /\ UNCHANGED faults \/ Fault
         /\ \/ /\ Land({Sent(x, FALSE) : x \in There(group)})
               /\ \/ /\ There(group) = group.files
                     /\ report' = [report EXCEPT !.done = @ \cup group.torrents]
                  \/ report' = [report EXCEPT !.failed = @ \cup group.torrents]
            \/ /\ report' = [report EXCEPT !.failed = @ \cup group.torrents]
               /\ \E sent \in SUBSET News(group) : \E cut \in SUBSET sent : Copied(sent, cut)
<1>1. /\ pc = "collect" /\ todo = <<>> /\ groups # <<>> /\ groups' = Tail(groups)
      /\ UNCHANGED <<library, staging, pc, manifest, plan, todo, edits>>
  BY DEF Copy
<1>2. ASSUME NEW x, NEW cut
      PROVE  [at |-> x.at, file |-> x.file, from |-> x.from,
              whole |-> ~cut /\ library[x.from].disk[x.file] = "whole"] = Sent(x, cut)
  BY DEF Sent
<1>3. \/ /\ Land({Sent(x, FALSE) : x \in There(group)})
         /\ \/ /\ There(group) = group.files
               /\ report' = [report EXCEPT !.done = @ \cup group.torrents]
            \/ report' = [report EXCEPT !.failed = @ \cup group.torrents]
         /\ UNCHANGED faults
      \/ /\ Fault
         /\ report' = [report EXCEPT !.failed = @ \cup group.torrents]
         /\ \E sent \in SUBSET News(group) : \E cut \in {c \in SUBSET sent : Cardinality(c) <= 1} :
              Copied(sent, cut)
  BY DEF Copy, Sent, There, News, Copied
<1>4. UNCHANGED faults \/ Fault
  BY <1>3
<1>5. ASSUME \E sent \in SUBSET News(group) : \E cut \in {c \in SUBSET sent : Cardinality(c) <= 1} :
              Copied(sent, cut)
      PROVE  \E sent \in SUBSET News(group) : \E cut \in SUBSET sent : Copied(sent, cut)
  BY <1>5
<1> QED
  BY <1>1, <1>3, <1>4, <1>5

(* What rsync does to what is there.                                           *)
LEMMA LandKeeps ==
  ASSUME NEW S, Land(S)
  PROVE  /\ S \subseteq landed' /\ landed' \subseteq landed \cup S
         /\ \A l \in landed :
              l \in landed' \/ \E new \in S : l.at = new.at /\ l.file = new.file
BY DEF Land

(* The torrents of a group that is copied are dealt with. *)
LEMMA DealtWithGroup ==
  ASSUME Worked, groups # <<>>, todo = <<>>, pc = "collect", groups' = Tail(groups),
         UNCHANGED <<manifest, plan, todo, pc>>,
         \/ report'.done = report.done \cup Head(groups).torrents /\ report'.failed = report.failed
         \/ report'.failed = report.failed \cup Head(groups).torrents /\ report'.done = report.done
  PROVE  Worked'
<1>1. PICK group : group = Head(groups)
  OBVIOUS
<1>2. groups \in Seq(Group) /\ Apart(groups)
  BY DEF Worked
<1>3. /\ groups' \in Seq(Group) /\ Apart(groups')
      /\ Together(groups) = group.torrents \cup Together(groups')
      /\ group.torrents \cap Together(groups') = {}
  BY <1>1, <1>2, GroupsTail
<1>4. /\ Together(groups) \cap Reached = {}
      /\ report.done \cap report.failed = {}
      /\ Ids(Items(plan)) = Ids(todo) \cup Together(groups) \cup Reached
  BY DEF Worked
<1>5. Reached' = Reached \cup group.torrents
  BY <1>1 DEF Reached
<1>6. Ids(todo) = {}
  BY NoIds
<1>7. /\ Ids(todo') \cap (Together(groups') \cup Reached') = {}
      /\ Together(groups') \cap Reached' = {}
      /\ Ids(Items(plan')) = Ids(todo') \cup Together(groups') \cup Reached'
  BY <1>3, <1>4, <1>5, <1>6
<1>8. report'.done \cap report'.failed = {}
  BY <1>1, <1>3, <1>4 DEF Reached
<1>9. PICK P : P = Planned(manifest, plan.mapping)
  OBVIOUS
<1>10. todo' \in Seq(P) /\ \A i, j \in 1..Len(todo') : todo'[i].id = todo'[j].id => i = j
  BY <1>9 DEF Worked
<1>11. pc' = "collect"
  OBVIOUS
<1> QED
  BY <1>3, <1>7, <1>8, <1>9, <1>10, <1>11 DEF Worked

(* What is sent are files of torrents.                                         *)
LEMMA SentLands ==
  ASSUME NEW sent \in SUBSET File, NEW cut
  PROVE  {Sent(x, x \in cut) : x \in sent} \in SUBSET Landing
<1> SUFFICES ASSUME NEW x \in sent PROVE Sent(x, x \in cut) \in Landing
  OBVIOUS
<1>1. (x \in cut) \in BOOLEAN /\ x \in File
  OBVIOUS
<1> QED
  BY <1>1, SentTyped

(* A group is copied, or is not.                                               *)
LEMMA CopyKeeps == CommandInv /\ Copy => CommandInv'
<1> SUFFICES ASSUME CommandInv, Copy PROVE CommandInv'
  OBVIOUS
<1>1. PICK group : group = Head(groups)
  OBVIOUS
<1>2. /\ pc = "collect" /\ todo = <<>> /\ groups # <<>> /\ groups' = Tail(groups)
      /\ UNCHANGED <<library, staging, pc, manifest, plan, todo, edits>>
      /\ UNCHANGED faults \/ Fault
  BY <1>1, CopyFacts
<1>3. \/ report' = [report EXCEPT !.done = @ \cup group.torrents]
      \/ report' = [report EXCEPT !.failed = @ \cup group.torrents]
  BY <1>1, CopyFacts
<1>4. \/ Land({Sent(x, FALSE) : x \in There(group)})
      \/ \E sent \in SUBSET News(group) : \E cut \in SUBSET sent : Copied(sent, cut)
  BY <1>1, CopyFacts
<1>5. group \in Group
  BY <1>1, <1>2, GroupsTail DEF CommandInv, Worked
<1>6. /\ There(group) \in SUBSET File /\ News(group) \in SUBSET File
      /\ group.torrents \in SUBSET Hashes
  BY <1>5 DEF Group, There, News
<1>7. landed \in SUBSET Landing
  BY DEF CommandInv, Typed, Landing
<1>8. landed' \in SUBSET Landing
  <2>1. CASE Land({Sent(x, FALSE) : x \in There(group)})
    <3>1. {Sent(x, FALSE) : x \in There(group)} \in SUBSET Landing
      BY <1>6, SentTyped
    <3> QED
      BY <2>1, <3>1, <1>7, LandKeeps
  <2>2. CASE \E sent \in SUBSET News(group) : \E cut \in SUBSET sent : Copied(sent, cut)
    <3>1. PICK sent \in SUBSET News(group) : \E cut \in SUBSET sent : Copied(sent, cut)
      BY <2>2
    <3>2. PICK cut \in SUBSET sent : Copied(sent, cut)
      BY <3>1
    <3>3. {Sent(x, x \in cut) : x \in sent} \in SUBSET Landing
      BY <1>6, SentLands
    <3> QED
      BY <3>2, <3>3, <1>7, LandKeeps DEF Copied
  <2> QED
    BY <2>1, <2>2, <1>4
<1>9. /\ report' \in Report /\ report'.deferred = report.deferred
      /\ \/ report'.done = report.done \cup group.torrents /\ report'.failed = report.failed
         \/ report'.failed = report.failed \cup group.torrents /\ report'.done = report.done
  BY <1>3, <1>6, ReportDoes, ReportFails DEF CommandInv, Typed
<1>10. Typed'
  <2>1. edits' \in Nat /\ faults' \in Nat /\ edits' <= faults' /\ faults' <= MaxFaults
    BY <1>2, FaultTyped DEF CommandInv, Typed
  <2> QED
    BY <2>1, <1>2, <1>8, <1>9 DEF CommandInv, Typed, Landing
<1>11. PlanMade'
  BY <1>2, <1>9 DEF CommandInv, PlanMade
<1>12. Worked'
  BY <1>1, <1>2, <1>9, DealtWithGroup DEF CommandInv
<1> QED
  BY <1>10, <1>11, <1>12 DEF CommandInv

(* It holds before the first command.                                          *)
LEMMA CommandInit == Init => CommandInv
<1> SUFFICES ASSUME Init PROVE CommandInv
  OBVIOUS
<1>1. report = [NewReport("nothing") EXCEPT !.end = "none"]
  BY DEF Init
<1>2. Fresh(report, "nothing") /\ report.deferred = 0
  <2>1. "nothing" \in Commands /\ "none" \in Ends
    BY DEF Commands, Ends
  <2> QED
    BY <2>1, <1>1, NewReportFacts
<1>3. NoPair \in Pair
  <2>1. <<>> \in Seq(Segments)
    OBVIOUS
  <2> QED
    BY <2>1 DEF NoPair, Pair
<1>4. Typed
  <2>1. library \in [Hashes -> Entry] /\ MaxFaults \in Nat
    BY PayloadAssumption DEF Init
  <2>2. /\ staging \in [Hashes -> Pair] /\ landed = {} /\ pc = "idle"
        /\ edits = 0 /\ faults = 0
    BY <1>3 DEF Init
  <2>3. 0 <= MaxFaults
    BY <2>1
  <2> QED
    BY <2>1, <2>2, <2>3, <1>2 DEF Typed, Fresh
<1>5. PlanMade
  <2>1. manifest = {} /\ plan = NoPlan
    BY DEF Init
  <2> QED
    BY <2>1, <1>2, NothingMade DEF PlanMade
<1>6. Worked
  <2>1. todo = <<>> /\ groups = <<>> /\ pc = "idle"
    BY DEF Init
  <2>2. PICK P : P = Planned(manifest, plan.mapping)
    OBVIOUS
  <2>3. todo \in Seq(P) /\ \A i, j \in 1..Len(todo) : todo[i].id = todo[j].id => i = j
    BY <2>1
  <2>4. Ids(todo) = {} /\ Together(groups) = {} /\ groups \in Seq(Group) /\ Apart(groups)
    BY <2>1, NoIds, NoGroups
  <2> QED
    BY <2>1, <2>2, <2>3, <2>4, <1>2 DEF Worked, Fresh
<1> QED
  BY <1>4, <1>5, <1>6 DEF CommandInv

(* And every step keeps it.                                                    *)
LEMMA CommandStep == CommandInv /\ [Next]_vars => CommandInv'
<1> SUFFICES ASSUME CommandInv, [Next]_vars PROVE CommandInv'
  OBVIOUS
<1>1. CASE Begin
  <2>1. CASE \E name \in {"rewrite", "transfer"} : BeginFails(name)
    BY <2>1, BeginFailsKeeps
  <2>2. CASE \E budget \in Budgets : BeginRewrite(budget)
    BY <2>2, BeginRewriteKeeps
  <2>3. CASE \E budget \in Budgets, maxBytes \in ByteCaps, maxTorrents \in TorrentCaps,
                dry \in BOOLEAN : BeginTransfer(budget, maxBytes, maxTorrents, dry)
    BY <2>3, BeginTransferKeeps
  <2> QED
    BY <1>1, <2>1, <2>2, <2>3 DEF Begin
<1>2. CASE RewriteStep
  BY <1>2, WriteOneKeeps, EndRewriteKeeps DEF RewriteStep
<1>3. CASE TransferStep
  BY <1>3, CollectKeeps, CopyKeeps, EndTransferKeeps DEF TransferStep
<1>4. CASE Kill \/ Edit
  BY <1>4, KillKeeps, EditKeeps
<1>5. CASE UNCHANGED vars
  BY <1>5 DEF vars, command, CommandInv, Typed, PlanMade, Worked, Reached
<1> QED
  BY <1>1, <1>2, <1>3, <1>4, <1>5 DEF Next

(* In every state: the plan at hand is one of what was listed, and every       *)
(* torrent of it is in one place.                                              *)
THEOREM PayloadPlans == Spec => []CommandInv
BY CommandInit, CommandStep, PTL DEF Spec

(* Types, and the account the commands keep of their torrents (rewrite::run,   *)
(* transfer::copy_plan): what is not reached, grouped, done or failed are the  *)
(* torrents of the plan, each in one of these.                                 *)
THEOREM PayloadTypes == Spec => []TypeOK
<1>1. CommandInv => TypeOK
  <2> SUFFICES ASSUME CommandInv PROVE TypeOK
    OBVIOUS
  <2>1. /\ library \in [Hashes -> Entry] /\ staging \in [Hashes -> Pair]
        /\ pc \in {"idle", "write", "collect"}
        /\ edits \in 0..faults /\ faults \in 0..MaxFaults
    BY PayloadAssumption DEF CommandInv, Typed
  <2>2. \A l \in landed : l.from \in Hashes /\ l.file \in Files /\ l.whole \in BOOLEAN
    BY DEF CommandInv, Typed
  <2>3. UNION {group.torrents : group \in ToSet(groups)} = Together(groups)
    <3>1. DOMAIN groups = 1..Len(groups)
      BY DEF CommandInv, Worked
    <3> QED
      BY <3>1 DEF ToSet, Together
  <2>4. /\ Together(groups) \cap Reached = {} /\ report.done \cap report.failed = {}
        /\ pc # "idle" => Ids(Items(plan)) = Ids(todo) \cup Together(groups) \cup Reached
    BY DEF CommandInv, Worked
  <2> QED
    BY <2>1, <2>2, <2>3, <2>4 DEF TypeOK, Reached
<1> QED
  BY <1>1, PayloadPlans, PTL

(* plan::build and take_smallest: every torrent an audit has listed is in one  *)
(* place of one batch, excluded, or counted as deferred; the batches keep to   *)
(* the budget, and none is closed before it has to be.                         *)
THEOREM PayloadSound == Spec => []PlanIsSound
BY MadeIsSound, PayloadPlans, PTL DEF CommandInv

(* take_smallest: nothing a cap has put off is smaller than something it took, *)
(* and it took as many as it could.                                            *)
THEOREM PayloadCap == Spec => []CapTakesTheSmallest
BY MadeTakesTheSmallest, PayloadPlans, PTL DEF CommandInv

(* pathmap::derive and converging: two directories of the source become one on *)
(* the destination only if the plan has reported it.                           *)
THEOREM PayloadCollides == Spec => []NoSilentCollision
BY MadeCollidesLoudly, PayloadPlans, PTL DEF CommandInv

------------------------------------------------------------------------------
(* As long as the library is not edited.                                       *)

(* Two paths with the same last segment are the same before it.                *)
LEMMA SameLast ==
  ASSUME NEW E, NEW s \in Seq(E), NEW t \in Seq(E), NEW a \in E, NEW b \in E,
         s \o <<a>> = t \o <<b>>
  PROVE  s = t /\ a = b
<1>1. PICK u, v : u = s \o <<a>> /\ v = t \o <<b>>
  OBVIOUS
<1>2. u \in Seq(E) /\ Len(u) = Len(s) + 1 /\ u[Len(s) + 1] = a /\ \A i \in 1..Len(s) : u[i] = s[i]
  BY <1>1
<1>3. v \in Seq(E) /\ Len(v) = Len(t) + 1 /\ v[Len(t) + 1] = b /\ \A i \in 1..Len(t) : v[i] = t[i]
  BY <1>1
<1>4. u = v
  BY <1>1
<1>5. Len(s) = Len(t) /\ Len(s) \in Nat
  BY <1>2, <1>3, <1>4
<1>6. \A i \in 1..Len(s) : s[i] = t[i]
  BY <1>2, <1>3, <1>4, <1>5
<1>7. a = b
  BY <1>2, <1>3, <1>4, <1>5
<1> QED
  BY <1>5, <1>6, <1>7

(* Where a torrent lands is where its staged path points. *)
LEMMA MovesFacts ==
  ASSUME library \in [Hashes -> Entry], NEW h, Moves(h)
  PROVE  /\ Moved(Audit, Rules, Inspect(h), RuleFor(Rules, library[h].path))
         /\ Inspect(h).path = library[h].path /\ Inspect(h).id = h
         /\ library[h].name \in Segments /\ library[h].path \in Seq(Segments)
         /\ Spot(h) \in Seq(Segments)
         /\ Place(h, Apply(Rules, library[h].path)) = Spot(h)
<1>1. Inspect(h).path = library[h].path /\ Inspect(h).id = h
  BY DEF Moves, Inspect
<1>2. Moved(Audit, Rules, Inspect(h), RuleFor(Rules, library[h].path))
  BY <1>1, PlannedMoves DEF Moves
<1>3. library[h].name \in Segments /\ library[h].path \in Seq(Segments)
  BY DEF Moves, Entry
<1>4. Below(RuleFor(Rules, library[h].path), library[h].path) \in Seq(Segments)
  BY <1>1, <1>2, SeqMonotonic DEF Moved, Named
<1>5. Spot(h) \in Seq(Segments)
  BY <1>3, <1>4 DEF Spot
<1>6. Place(h, Apply(Rules, library[h].path))
        = BelowDest(Apply(Rules, library[h].path)) \o <<library[h].name>>
  BY DEF Place, BelowDest
<1>7. BelowDest(Apply(Rules, library[h].path))
        = Below(RuleFor(Rules, library[h].path), library[h].path)
  BY <1>1, <1>2 DEF Moved
<1>8. Place(h, Apply(Rules, library[h].path)) = Spot(h)
  BY <1>6, <1>7 DEF Spot
<1> QED
  BY <1>1, <1>2, <1>3, <1>5, <1>8

(* Without converging rules two torrents do not land in one place. *)
LEMMA SpotsApart ==
  ASSUME DistinctPlaces, library \in [Hashes -> Entry], library \in Libraries,
         NEW g, NEW h, Moves(g), Moves(h), Spot(g) = Spot(h), Converging(Rules) = {}
  PROVE  g = h
<1>1. PICK r, q : r = RuleFor(Rules, library[g].path) /\ q = RuleFor(Rules, library[h].path)
  OBVIOUS
<1>2. /\ Below(r, library[g].path) \in Seq(Segments) /\ library[g].name \in Segments
      /\ Inspect(g).path = library[g].path
  <2>1. Moved(Audit, Rules, Inspect(g), r)
    BY <1>1, MovesFacts
  <2>2. library[g].name \in Segments /\ Inspect(g).path = library[g].path
    BY MovesFacts
  <2>3. Below(r, library[g].path) \in Seq(Named)
    BY <2>1, <2>2 DEF Moved
  <2> QED
    BY <2>2, <2>3, SeqMonotonic DEF Named
<1>3. /\ Below(q, library[h].path) \in Seq(Segments) /\ library[h].name \in Segments
      /\ Inspect(h).path = library[h].path
  <2>1. Moved(Audit, Rules, Inspect(h), q)
    BY <1>1, MovesFacts
  <2>2. library[h].name \in Segments /\ Inspect(h).path = library[h].path
    BY MovesFacts
  <2>3. Below(q, library[h].path) \in Seq(Named)
    BY <2>1, <2>2 DEF Moved
  <2> QED
    BY <2>2, <2>3, SeqMonotonic DEF Named
<1>4. Below(r, library[g].path) \o <<library[g].name>>
        = Below(q, library[h].path) \o <<library[h].name>>
  BY <1>1 DEF Spot
<1>5. Below(r, library[g].path) = Below(q, library[h].path) /\ library[g].name = library[h].name
  BY <1>2, <1>3, <1>4, SameLast
<1>6. Components(library[g].path) = Components(library[h].path)
  <2>1. Derived(Audit, Rules) /\ Inspect(g) \in Planned(Audit, Rules)
          /\ Inspect(h) \in Planned(Audit, Rules)
    BY DEF Moves
  <2>2. Below(RuleFor(Rules, Inspect(g).path), Inspect(g).path)
          = Below(RuleFor(Rules, Inspect(h).path), Inspect(h).path)
    BY <1>1, <1>2, <1>3, <1>5
  <2>3. Components(Inspect(g).path) = Components(Inspect(h).path)
    BY <2>1, <2>2, MeetingConverges
  <2> QED
    BY <2>3, <1>2, <1>3
<1>7. /\ g \in {x \in Hashes : library[x].torrent = "good" /\ library[x].resume = "good"}
      /\ h \in {x \in Hashes : library[x].torrent = "good" /\ library[x].resume = "good"}
  BY DEF Moves
<1> QED
  BY <1>5, <1>6, <1>7 DEF DistinctPlaces

(* A planned torrent is the one the library has now. *)
LEMMA PlannedNow ==
  ASSUME CommandInv, Unedited, edits = 0, NEW item, item \in Planned(manifest, plan.mapping)
  PROVE  /\ Moves(item.id) /\ item = Inspect(item.id) /\ plan.mapping = Rules
         /\ item.path = library[item.id].path
         /\ \A f \in Files :
              library[item.id].wanted[f] => library[item.id].disk[f] = "whole"
<1>1. item \in manifest /\ manifest = Audit
  BY DEF Planned, Unedited
<1>2. Derived(manifest, plan.mapping)
  BY PlanDerived DEF CommandInv
<1>3. plan.mapping = Rules /\ Derived(Audit, Rules)
  BY <1>1, <1>2 DEF Derived, Rules
<1>4. PICK h \in Hashes : item = Inspect(h)
  BY <1>1 DEF Audit
<1>5. item.id = h /\ IsEligible(item)
  BY <1>4 DEF Inspect, Planned, IsPlanned
<1>6. library[h].torrent = "good" /\ library[h].resume = "good"
  BY <1>4, <1>5 DEF Inspect, IsEligible
<1>7. Moves(h)
  <2>1. Inspect(h) \in Planned(Audit, Rules)
    BY <1>1, <1>3, <1>4
  <2> QED
    BY <2>1, <1>3, <1>6 DEF Moves
<1>8. item.path = library[h].path /\ item.class = Classify(library[h].disk, library[h].wanted)
  BY <1>4, <1>6 DEF Inspect
<1>9. ASSUME NEW f \in Files, library[h].wanted[f] PROVE library[h].disk[f] = "whole"
  <2>1. /\ library[h].disk \in [Files -> Observed] /\ library[h].wanted \in [Files -> BOOLEAN]
    BY DEF CommandInv, Typed, Entry
  <2>2. library[h].disk[f] \in Observed /\ DOMAIN library[h].disk = Files
    BY <2>1
  <2>3. library[h].disk[f] # "denied"
    BY <2>2, <1>5, <1>8 DEF IsEligible, Classify
  <2>4. library[h].disk[f] \notin {"absent", "short"}
    BY <2>2, <1>5, <1>8, <1>9 DEF IsEligible, Classify
  <2> QED
    BY <2>2, <2>3, <2>4 DEF Observed
<1> QED
  BY <1>3, <1>4, <1>5, <1>7, <1>8, <1>9

(* The rules are a function of the library.                                    *)
LEMMA SameRules ==
  ASSUME library' = library
  PROVE  /\ Audit' = Audit /\ Rules' = Rules
         /\ \A h : (Moves(h)' <=> Moves(h)) /\ Spot(h)' = Spot(h)
<1>1. \A h : Inspect(h)' = Inspect(h)
  BY DEF Inspect
<1>2. Audit' = Audit
  BY <1>1 DEF Audit
<1>3. Rules' = Rules
  BY <1>2 DEF Rules
<1>4. ASSUME NEW h PROVE (Moves(h)' <=> Moves(h)) /\ Spot(h)' = Spot(h)
  BY <1>1, <1>2, <1>3 DEF Moves, Spot
<1> QED
  BY <1>2, <1>3, <1>4

(* A torrent that is planned has all its wanted files.                         *)
LEMMA MovesWhole ==
  ASSUME library \in [Hashes -> Entry], NEW h, Moves(h),
         NEW f \in Files, library[h].wanted[f]
  PROVE  library[h].disk[f] = "whole"
<1>1. IsEligible(Inspect(h)) /\ Inspect(h).class = Classify(library[h].disk, library[h].wanted)
  BY DEF Moves, Planned, IsPlanned, Inspect
<1>2. library[h].disk \in [Files -> Observed]
  BY DEF Entry, Moves
<1>3. library[h].disk[f] \in Observed /\ DOMAIN library[h].disk = Files
  BY <1>2
<1>4. library[h].disk[f] # "denied"
  BY <1>1, <1>3 DEF IsEligible, Classify
<1>5. library[h].disk[f] \notin {"absent", "short"}
  BY <1>1, <1>3 DEF IsEligible, Classify
<1> QED
  BY <1>3, <1>4, <1>5 DEF Observed

(* A file that has landed whole is what a copy of it would land again. *)
LEMMA SentAgain ==
  ASSUME NEW l \in Landing, l.whole, NEW x \in File,
         x.at = l.at, x.file = l.file, x.from = l.from, library[l.from].disk[l.file] = "whole"
  PROVE  Sent(x, FALSE) = l
<1>1. l.whole = TRUE
  BY DEF Landing
<1>2. Sent(x, FALSE) = [at |-> l.at, file |-> l.file, from |-> l.from, whole |-> TRUE]
  BY DEF Sent
<1>3. l = [at |-> l.at, file |-> l.file, from |-> l.from, whole |-> l.whole]
  BY DEF Landing
<1> QED
  BY <1>1, <1>2, <1>3

(* Without converging rules a copy leaves what has landed whole. *)
LEMMA CopyKeepsWhole ==
  ASSUME DistinctPlaces, CommandInv, Unedited, edits = 0, Copy, Converging(Rules) = {},
         NEW l \in landed, l.whole
  PROVE  l \in landed'
<1>1. PICK group : group = Head(groups)
  OBVIOUS
<1>2. /\ groups # <<>>
      /\ \/ Land({Sent(x, FALSE) : x \in There(group)})
         \/ \E sent \in SUBSET News(group) : \E cut \in SUBSET sent : Copied(sent, cut)
  BY <1>1, CopyFacts
<1>3. group \in Group /\ groups \in Seq(Group)
  BY <1>1, <1>2, GroupsTail DEF CommandInv, Worked
<1>4. l \in Landing /\ library \in [Hashes -> Entry] /\ library \in Libraries
  BY DEF CommandInv, Typed, Landing, Unedited
<1>5. Moves(l.from) /\ l.at = Spot(l.from) /\ library[l.from].disk[l.file] = "whole"
  BY DEF Unedited, LandedByRules
<1>6. ASSUME NEW x \in There(group), x.at = l.at, x.file = l.file
      PROVE  Sent(x, FALSE) = l
  <2>1. 1 \in 1..Len(groups) /\ group = groups[1] /\ x \in group.files
    BY <1>1, <1>2, <1>3 DEF There
  <2>2. Moves(x.from) /\ x.at = Spot(x.from)
    BY <2>1 DEF Unedited, GroupedByRules
  <2>3. x.from = l.from
    BY <2>2, <1>4, <1>5, <1>6, SpotsApart
  <2>4. x \in File
    BY <2>1, <1>3 DEF Group
  <2> QED
    BY <2>3, <2>4, <1>4, <1>5, <1>6, SentAgain
<1>7. CASE Land({Sent(x, FALSE) : x \in There(group)})
  <2> SUFFICES ASSUME l \notin landed' PROVE FALSE
    OBVIOUS
  <2>0. PICK S : S = {Sent(x, FALSE) : x \in There(group)}
    OBVIOUS
  <2>4. S \subseteq landed' /\ (l \in landed' \/ \E new \in S : l.at = new.at /\ l.file = new.file)
    <3>1. Land(S)
      BY <2>0, <1>7
    <3> QED
      BY <3>1, LandKeeps
  <2>1. PICK x \in There(group) : l.at = Sent(x, FALSE).at /\ l.file = Sent(x, FALSE).file
    BY <2>0, <2>4
  <2>2. x.at = l.at /\ x.file = l.file
    BY <2>1 DEF Sent
  <2>3. Sent(x, FALSE) \in landed'
    BY <2>0, <2>4
  <2> QED
    BY <2>2, <2>3, <1>6
<1>8. CASE \E sent \in SUBSET News(group) : \E cut \in SUBSET sent : Copied(sent, cut)
  <2> SUFFICES ASSUME l \notin landed' PROVE FALSE
    OBVIOUS
  <2>1. PICK sent \in SUBSET News(group) : \E cut \in SUBSET sent : Copied(sent, cut)
    BY <1>8
  <2>2. PICK cut \in SUBSET sent : Copied(sent, cut)
    BY <2>1
  <2>3. PICK x \in sent : l.at = Sent(x, x \in cut).at /\ l.file = Sent(x, x \in cut).file
    BY <2>2, LandKeeps DEF Copied
  <2>4. x.at = l.at /\ x.file = l.file
    BY <2>3 DEF Sent
  <2>5. x \in There(group) /\ Sent(x, FALSE) \notin landed
    BY DEF News
  <2> QED
    BY <2>4, <2>5, <1>6
<1> QED
  BY <1>2, <1>7, <1>8

(* The parts of Unedited that a step leaves alone. *)
LEMMA KeepsStaged ==
  ASSUME StagedByRules, UNCHANGED <<library, staging>> PROVE StagedByRules'
BY SameRules DEF StagedByRules

LEMMA KeepsLanded ==
  ASSUME LandedByRules, UNCHANGED <<library, landed>> PROVE LandedByRules'
BY SameRules DEF LandedByRules

LEMMA KeepsGrouped ==
  ASSUME GroupedByRules, UNCHANGED <<library, groups>> PROVE GroupedByRules'
BY SameRules DEF GroupedByRules

LEMMA NothingGrouped ==
  ASSUME groups' = <<>> PROVE GroupedByRules'
BY DEF GroupedByRules

LEMMA KeepsDone ==
  ASSUME DoneArrived, UNCHANGED <<library, landed>>,
         report'.of = report.of, report'.done = report.done
  PROVE  DoneArrived'
BY SameRules DEF DoneArrived, Arrived

LEMMA NothingDone ==
  ASSUME report'.done = {} PROVE DoneArrived'
BY DEF DoneArrived

(* A step that begins a command. *)
LEMMA BeginKeepsUnedited ==
  ASSUME CommandInv, Unedited, UNCHANGED <<library, staging, landed, groups, edits>>,
         manifest' \in {{}, Audit}, report'.done = {}
  PROVE  Unedited'
<1> SUFFICES ASSUME edits = 0
             PROVE  /\ library' \in Libraries
                    /\ manifest' # {} => manifest' = Audit'
                    /\ StagedByRules' /\ LandedByRules' /\ GroupedByRules' /\ DoneArrived'
  BY DEF Unedited
<1>1. library' \in Libraries /\ (manifest' # {} => manifest' = Audit')
  BY SameRules DEF Unedited
<1>2. StagedByRules' /\ LandedByRules' /\ GroupedByRules'
  BY KeepsStaged, KeepsLanded, KeepsGrouped DEF Unedited
<1> QED
  BY <1>1, <1>2, NothingDone

(* Beginning a command by the rules of the library keeps to them.              *)
LEMMA BeginUnedited == CommandInv /\ Unedited /\ Begin => Unedited'
<1> SUFFICES ASSUME CommandInv, Unedited, Begin PROVE Unedited'
  OBVIOUS
<1>1. CASE \E name \in {"rewrite", "transfer"} : BeginFails(name)
  <2>1. PICK name \in {"rewrite", "transfer"} : BeginFails(name)
    BY <1>1
  <2>2. /\ UNCHANGED <<library, staging, landed, groups, edits>> /\ manifest' = {}
        /\ report' = [NewReport(name) EXCEPT !.end = "error"]
    BY <2>1 DEF BeginFails
  <2>3. name \in Commands /\ "error" \in Ends
    BY DEF Commands, Ends
  <2>4. report'.done = {}
    BY <2>2, <2>3, NewReportFacts DEF Fresh
  <2> QED
    BY <2>2, <2>4, BeginKeepsUnedited
<1>2. CASE \E budget \in Budgets : BeginRewrite(budget)
  <2>1. PICK budget \in Budgets : BeginRewrite(budget)
    BY <1>2
  <2>2. /\ UNCHANGED <<library, staging, landed, groups, edits>> /\ manifest' = Audit
    BY <2>1 DEF BeginRewrite
  <2>3. report'.done = {}
    BY <2>1, BeginRewriteKeeps DEF Fresh
  <2> QED
    BY <2>2, <2>3, BeginKeepsUnedited
<1>3. CASE \E budget \in Budgets, maxBytes \in ByteCaps, maxTorrents \in TorrentCaps,
                dry \in BOOLEAN : BeginTransfer(budget, maxBytes, maxTorrents, dry)
  <2>1. PICK budget \in Budgets, maxBytes \in ByteCaps, maxTorrents \in TorrentCaps,
             dry \in BOOLEAN : BeginTransfer(budget, maxBytes, maxTorrents, dry)
    BY <1>3
  <2>2. /\ UNCHANGED <<library, staging, landed, groups, edits>> /\ manifest' = Audit
    BY <2>1 DEF BeginTransfer
  <2>3. report'.done = {}
    BY <2>1, BeginTransferKeeps DEF Fresh
  <2> QED
    BY <2>2, <2>3, BeginKeepsUnedited
<1> QED
  BY <1>1, <1>2, <1>3 DEF Begin

(* A torrent is staged where the rules say.                                    *)
LEMMA WriteOneUnedited == CommandInv /\ Unedited /\ WriteOne => Unedited'
<1> SUFFICES ASSUME CommandInv, Unedited, WriteOne, edits = 0
             PROVE  /\ library' \in Libraries
                    /\ manifest' # {} => manifest' = Audit'
                    /\ StagedByRules' /\ LandedByRules' /\ GroupedByRules' /\ DoneArrived'
  BY DEF Unedited, WriteOne
<1>1. PICK item, h : item = Head(todo) /\ h = item.id
  OBVIOUS
<1>2. /\ pc = "write" /\ todo # <<>>
      /\ UNCHANGED <<library, landed, pc, manifest, plan, groups, edits>>
      /\ \/ report' = [report EXCEPT !.done = @ \cup {h}]
         \/ report' = [report EXCEPT !.failed = @ \cup {h}]
      /\ staging' \in {staging, [staging EXCEPT ![h] = Rewritten(item)],
                       [staging EXCEPT ![h].torrent = "torn"],
                       [staging EXCEPT ![h].torrent = "good"],
                       [staging EXCEPT ![h].torrent = "good", ![h].resume = "torn"]}
  BY <1>1 DEF WriteOne
<1>3. item \in Planned(manifest, plan.mapping)
  BY <1>1, <1>2 DEF CommandInv, Worked
<1>4. Moves(h) /\ plan.mapping = Rules /\ item.path = library[h].path /\ h \in Hashes
  BY <1>1, <1>3, PlannedNow DEF Moves
<1>5. library' \in Libraries /\ (manifest' # {} => manifest' = Audit')
  BY <1>2, SameRules DEF Unedited
<1>6. LandedByRules' /\ GroupedByRules'
  BY <1>2, KeepsLanded, KeepsGrouped DEF Unedited
<1>7. DoneArrived'
  <2>1. {h} \in SUBSET Hashes
    BY <1>4
  <2>2. report'.of = "rewrite"
    BY <2>1, <1>2, ReportDoes, ReportFails DEF CommandInv, Typed
  <2> QED
    BY <2>2 DEF DoneArrived
<1>8. StagedByRules'
  <2>1. staging \in [Hashes -> Pair]
    BY DEF CommandInv, Typed
  <2>2. \A g \in Hashes : g # h => staging'[g] = staging[g]
    BY <2>1, <1>2
  <2>3. staging'[h].resume = "good"
          => \/ staging[h].resume = "good" /\ staging'[h].path = staging[h].path
             \/ staging'[h].path = Apply(plan.mapping, item.path)
    <3>1. CASE staging' = staging
      BY <3>1
    <3>2. CASE staging' = [staging EXCEPT ![h] = Rewritten(item)]
      <4>1. staging'[h] = Rewritten(item)
        BY <3>2, <2>1, <1>4
      <4> QED
        BY <4>1 DEF Rewritten
    <3>3. CASE staging' = [staging EXCEPT ![h].torrent = "torn"]
      BY <3>3, <2>1, <1>4 DEF Pair
    <3>4. CASE staging' = [staging EXCEPT ![h].torrent = "good"]
      BY <3>4, <2>1, <1>4 DEF Pair
    <3>5. CASE staging' = [staging EXCEPT ![h].torrent = "good", ![h].resume = "torn"]
      BY <3>5, <2>1, <1>4 DEF Pair
    <3> QED
      BY <3>1, <3>2, <3>3, <3>4, <3>5, <1>2
  <2>4. Apply(plan.mapping, item.path) = Apply(Rules, library[h].path)
    BY <1>4
  <2>5. ASSUME NEW g \in Hashes, staging'[g].resume = "good"
        PROVE  Moves(g) /\ staging'[g].path = Apply(Rules, library[g].path)
    BY <2>2, <2>3, <2>4, <2>5, <1>4 DEF Unedited, StagedByRules
  <2> QED
    BY <2>5, <1>2, SameRules DEF StagedByRules
<1> QED
  BY <1>5, <1>6, <1>7, <1>8

(* What a torrent brings to its group. *)
LEMMA RelativesByRules ==
  ASSUME NEW item, Moves(item.id), item.path = library[item.id].path,
         NEW rule, rule = RuleFor(Rules, item.path)
  PROVE  /\ \A x \in Relatives(item, rule) : x.from = item.id /\ x.at = Spot(item.id)
         /\ \A f \in Files : library[item.id].disk[f] = "whole" =>
              [at |-> Spot(item.id), file |-> f, from |-> item.id] \in Relatives(item, rule)
<1>1. Spot(item.id) = Below(rule, item.path) \o <<library[item.id].name>>
  BY DEF Spot
<1>2. PICK spot : spot = Spot(item.id)
  OBVIOUS
<1>3. Relatives(item, rule)
        = {[at |-> spot, file |-> f, from |-> item.id] :
             f \in {f \in Files : Exists(item.id, item.path, f)}}
  BY <1>1, <1>2 DEF Relatives
<1>4. \A f \in Files : library[item.id].disk[f] = "whole" => Exists(item.id, item.path, f)
  BY DEF Exists
<1> QED
  BY <1>2, <1>3, <1>4

(* The files of a torrent are grouped by the same rules.                       *)
LEMMA CollectUnedited == CommandInv /\ Unedited /\ Collect => Unedited'
<1> SUFFICES ASSUME CommandInv, Unedited, Collect, edits = 0
             PROVE  /\ library' \in Libraries
                    /\ manifest' # {} => manifest' = Audit'
                    /\ StagedByRules' /\ LandedByRules' /\ GroupedByRules' /\ DoneArrived'
  BY DEF Unedited, Collect
<1>1. PICK item, h, rule, files :
        /\ item = Head(todo) /\ h = item.id /\ rule = RuleFor(plan.mapping, item.path)
        /\ files = Relatives(item, rule)
  OBVIOUS
<1>2. /\ pc = "collect" /\ todo # <<>>
      /\ UNCHANGED <<library, staging, landed, pc, manifest, plan, edits>>
      /\ \/ groups' = AddToGroup(rule.from, h, files) /\ UNCHANGED report
         \/ report' = [report EXCEPT !.failed = @ \cup {h}] /\ UNCHANGED groups
  BY <1>1 DEF Collect
<1>3. item \in Planned(manifest, plan.mapping)
  BY <1>1, <1>2 DEF CommandInv, Worked
<1>4. Moves(h) /\ plan.mapping = Rules /\ item.path = library[h].path /\ h \in Hashes
  BY <1>1, <1>3, PlannedNow DEF Moves
<1>5. library' \in Libraries /\ (manifest' # {} => manifest' = Audit')
  BY <1>2, SameRules DEF Unedited
<1>6. StagedByRules' /\ LandedByRules'
  BY <1>2, KeepsStaged, KeepsLanded DEF Unedited
<1>7. DoneArrived'
  <2>1. {h} \in SUBSET Hashes
    BY <1>4
  <2>2. report'.of = report.of /\ report'.done = report.done
    BY <2>1, <1>2, ReportFails DEF CommandInv, Typed
  <2> QED
    BY <2>2, <1>2, KeepsDone DEF Unedited
<1>8. CASE UNCHANGED groups
  BY <1>8, <1>2, <1>5, <1>6, <1>7, KeepsGrouped DEF Unedited
<1>9. CASE groups' = AddToGroup(rule.from, h, files)
  <2>1. rule.from \in Seq(Named) /\ files \in SUBSET File
    BY <1>1, <1>3, RelativesTyped
  <2>2. h \in Ids(todo) /\ groups \in Seq(Group) /\ Apart(groups)
    <3>1. todo \in Seq(Planned(manifest, plan.mapping))
      BY DEF CommandInv, Worked
    <3>2. 1 \in DOMAIN todo /\ todo[1] = item
      BY <3>1, <1>1, <1>2
    <3> QED
      BY <3>2, <1>1 DEF Ids, ToSet, CommandInv, Worked
  <2>3. h \notin Together(groups)
    BY <2>2 DEF CommandInv, Worked
  <2>4. \A i \in 1..Len(groups') :
          \/ i \in 1..Len(groups) /\ groups'[i] = groups[i]
          \/ i \in 1..Len(groups) /\ Grown(groups'[i], groups[i], h, files)
          \/ Joined(groups'[i], rule.from, h, files)
    BY <2>1, <2>2, <2>3, <1>4, <1>9, AddToGroupFacts
  <2>5. /\ \A x \in files : x.from = h /\ x.at = Spot(h)
        /\ \A f \in Files : library[h].disk[f] = "whole" =>
              [at |-> Spot(h), file |-> f, from |-> h] \in files
    BY <1>1, <1>4, RelativesByRules
  <2>6. ASSUME NEW i \in 1..Len(groups')
        PROVE  /\ \A x \in groups'[i].files : Moves(x.from) /\ x.at = Spot(x.from)
               /\ \A g \in groups'[i].torrents :
                    /\ Moves(g)
                    /\ \A f \in Files : library[g].disk[f] = "whole" =>
                         [at |-> Spot(g), file |-> f, from |-> g] \in groups'[i].files
    <3>1. CASE i \in 1..Len(groups) /\ groups'[i] = groups[i]
      BY <3>1 DEF Unedited, GroupedByRules
    <3>2. CASE i \in 1..Len(groups) /\ Grown(groups'[i], groups[i], h, files)
      <4>1. /\ groups'[i].files = groups[i].files \cup files
            /\ groups'[i].torrents = groups[i].torrents \cup {h}
        BY <3>2 DEF Grown
      <4>2. /\ \A x \in groups[i].files : Moves(x.from) /\ x.at = Spot(x.from)
            /\ \A g \in groups[i].torrents :
                    /\ Moves(g)
                    /\ \A f \in Files : library[g].disk[f] = "whole" =>
                         [at |-> Spot(g), file |-> f, from |-> g] \in groups[i].files
        BY <3>2 DEF Unedited, GroupedByRules
      <4> QED
        BY <4>1, <4>2, <2>5, <1>4
    <3>3. CASE Joined(groups'[i], rule.from, h, files)
      <4>1. groups'[i].files = files /\ groups'[i].torrents = {h}
        BY <3>3 DEF Joined
      <4> QED
        BY <4>1, <2>5, <1>4
    <3> QED
      BY <2>4, <3>1, <3>2, <3>3
  <2>7. GroupedByRules'
    BY <2>6, <1>2, SameRules DEF GroupedByRules
  <2> QED
    BY <2>7, <1>5, <1>6, <1>7
<1> QED
  BY <1>2, <1>8, <1>9

(* What a copy lands is what its group holds. *)
LEMMA CopyLands ==
  ASSUME CommandInv, Unedited, edits = 0, Copy
  PROVE  /\ \A l \in landed' :
              \/ l \in landed
              \/ /\ Moves(l.from) /\ l.at = Spot(l.from)
                 /\ l.whole => library[l.from].disk[l.file] = "whole"
         /\ library' = library
<1>1. PICK group : group = Head(groups)
  OBVIOUS
<1>2. /\ groups # <<>> /\ UNCHANGED <<library, edits>>
      /\ \/ Land({Sent(x, FALSE) : x \in There(group)})
         \/ \E sent \in SUBSET News(group) : \E cut \in SUBSET sent : Copied(sent, cut)
  BY <1>1, CopyFacts
<1>3. group \in Group /\ groups \in Seq(Group)
  BY <1>1, <1>2, GroupsTail DEF CommandInv, Worked
<1>4. ASSUME NEW x \in There(group), NEW cut \in BOOLEAN, NEW l, l = Sent(x, cut)
      PROVE  /\ Moves(l.from) /\ l.at = Spot(l.from)
             /\ l.whole => library[l.from].disk[l.file] = "whole"
  <2>1. 1 \in 1..Len(groups) /\ group = groups[1] /\ x \in group.files
    BY <1>1, <1>2, <1>3 DEF There
  <2>2. Moves(x.from) /\ x.at = Spot(x.from)
    BY <2>1 DEF Unedited, GroupedByRules
  <2>3. x \in File
    BY <2>1, <1>3 DEF Group
  <2>4. /\ l.at = x.at /\ l.file = x.file /\ l.from = x.from
        /\ l.whole => library[x.from].disk[x.file] = "whole"
    BY <2>3, <1>4, SentTyped
  <2> QED
    BY <2>2, <2>4
<1>5. CASE Land({Sent(x, FALSE) : x \in There(group)})
  <2>1. PICK S : S = {Sent(x, FALSE) : x \in There(group)}
    OBVIOUS
  <2>2. Land(S)
    BY <2>1, <1>5
  <2>3. landed' \subseteq landed \cup S
    BY <2>2, LandKeeps
  <2>4. ASSUME NEW l \in S PROVE \E x \in There(group) : l = Sent(x, FALSE)
    BY <2>1
  <2>5. FALSE \in BOOLEAN
    OBVIOUS
  <2> QED
    BY <2>3, <2>4, <2>5, <1>2, <1>4
<1>6. CASE \E sent \in SUBSET News(group) : \E cut \in SUBSET sent : Copied(sent, cut)
  <2>1. PICK sent \in SUBSET News(group) : \E cut \in SUBSET sent : Copied(sent, cut)
    BY <1>6
  <2>2. PICK cut \in SUBSET sent : Copied(sent, cut)
    BY <2>1
  <2>3. PICK S : S = {Sent(x, x \in cut) : x \in sent}
    OBVIOUS
  <2>4. Land(S)
    BY <2>2, <2>3 DEF Copied
  <2>5. landed' \subseteq landed \cup S
    BY <2>4, LandKeeps
  <2>6. ASSUME NEW l \in S
        PROVE  \E x \in There(group) : \E c \in BOOLEAN : l = Sent(x, c)
    <3>1. PICK x \in sent : l = Sent(x, x \in cut)
      BY <2>3
    <3>2. x \in There(group)
      BY DEF News
    <3>3. (x \in cut) \in BOOLEAN
      OBVIOUS
    <3> QED
      BY <3>1, <3>2, <3>3, Zenon
  <2> QED
    BY <2>5, <2>6, <1>2, <1>4
<1> QED
  BY <1>2, <1>5, <1>6

(* A copy lands them by these rules, and reports no torrent that has not       *)
(* arrived.                                                                    *)
LEMMA CopyUnedited == DistinctPlaces /\ CommandInv /\ Unedited /\ Copy => Unedited'
<1> SUFFICES ASSUME DistinctPlaces, CommandInv, Unedited, Copy, edits = 0
             PROVE  /\ library' \in Libraries
                    /\ manifest' # {} => manifest' = Audit'
                    /\ StagedByRules' /\ LandedByRules' /\ GroupedByRules' /\ DoneArrived'
  BY CopyFacts DEF Unedited
<1>1. PICK group : group = Head(groups)
  OBVIOUS
<1>2. /\ groups # <<>> /\ groups' = Tail(groups)
      /\ UNCHANGED <<library, staging, manifest, plan, edits>>
  BY <1>1, CopyFacts
<1>3. group \in Group /\ groups \in Seq(Group)
  BY <1>1, <1>2, GroupsTail DEF CommandInv, Worked
<1>4. library' \in Libraries /\ (manifest' # {} => manifest' = Audit')
  BY <1>2, SameRules DEF Unedited
<1>5. StagedByRules'
  BY <1>2, KeepsStaged DEF Unedited
<1>6. LandedByRules'
  BY <1>2, CopyLands, SameRules DEF Unedited, LandedByRules
<1>7. GroupedByRules'
  <2>1. \A i \in 1..Len(groups') : i + 1 \in 1..Len(groups) /\ groups'[i] = groups[i + 1]
    BY <1>2, <1>3, GroupsTail DEF CommandInv, Worked
  <2>2. ASSUME NEW i \in 1..Len(groups')
        PROVE  /\ \A x \in groups'[i].files : Moves(x.from) /\ x.at = Spot(x.from)
               /\ \A g \in groups'[i].torrents :
                    /\ Moves(g)
                    /\ \A f \in Files : library[g].disk[f] = "whole" =>
                         [at |-> Spot(g), file |-> f, from |-> g] \in groups'[i].files
    BY <2>1 DEF Unedited, GroupedByRules
  <2> QED
    BY <2>2, <1>2, SameRules DEF GroupedByRules
<1>8. ASSUME NEW h \in group.torrents
      PROVE  Moves(h) /\ \A f \in Files : library[h].disk[f] = "whole" =>
                           [at |-> Spot(h), file |-> f, from |-> h] \in group.files
  <2>1. 1 \in 1..Len(groups) /\ group = groups[1]
    BY <1>1, <1>2, <1>3
  <2> QED
    BY <2>1 DEF Unedited, GroupedByRules
<1>9. library \in [Hashes -> Entry]
  BY DEF CommandInv, Typed
<1>10. ASSUME NEW h \in group.torrents, NEW f \in Files, library[h].wanted[f],
              Land({Sent(x, FALSE) : x \in There(group)}), There(group) = group.files
       PROVE  [at |-> Spot(h), file |-> f, from |-> h, whole |-> TRUE] \in landed'
  <2>1. library[h].disk[f] = "whole"
    BY <1>8, <1>9, <1>10, MovesWhole
  <2>2. PICK x : x = [at |-> Spot(h), file |-> f, from |-> h]
    OBVIOUS
  <2>3. x \in There(group)
    BY <2>1, <2>2, <1>8, <1>10
  <2>4. PICK S : S = {Sent(y, FALSE) : y \in There(group)}
    OBVIOUS
  <2>5. Land(S)
    BY <2>4, <1>10
  <2>6. Sent(x, FALSE) \in landed'
    <3>1. Sent(x, FALSE) \in S
      BY <2>3, <2>4
    <3>2. S \subseteq landed'
      BY <2>5, LandKeeps
    <3> QED
      BY <3>1, <3>2
  <2>7. x.at = Spot(h) /\ x.file = f /\ x.from = h
    BY <2>2
  <2>8. Sent(x, FALSE) = [at |-> Spot(h), file |-> f, from |-> h, whole |-> TRUE]
    BY <2>1, <2>7 DEF Sent
  <2> QED
    BY <2>6, <2>8
<1>11. DoneArrived'
  <2> SUFFICES ASSUME report'.of = "transfer", NEW h \in report'.done
               PROVE  Moves(h) /\ (Converging(Rules) = {} =>
                        \A f \in Files : library[h].wanted[f] =>
                          [at |-> Spot(h), file |-> f, from |-> h, whole |-> TRUE] \in landed')
    BY <1>2, SameRules DEF DoneArrived, Arrived
  <2>1. group.torrents \in SUBSET Hashes
    BY <1>3 DEF Group
  <2>2. report'.of = report.of
    BY <2>1, <1>1, CopyFacts, ReportDoes, ReportFails DEF CommandInv, Typed
  <2>3. CASE h \in report.done
    <3>1. Moves(h) /\ (Converging(Rules) = {} => Arrived(h))
      BY <2>2, <2>3 DEF Unedited, DoneArrived
    <3>2. ASSUME Converging(Rules) = {}, NEW f \in Files, library[h].wanted[f]
          PROVE  [at |-> Spot(h), file |-> f, from |-> h, whole |-> TRUE] \in landed'
      <4>1. PICK l : l = [at |-> Spot(h), file |-> f, from |-> h, whole |-> TRUE]
        OBVIOUS
      <4>2. l \in landed
        BY <3>1, <3>2, <4>1 DEF Arrived
      <4>3. l.whole
        BY <4>1
      <4>4. l \in landed'
        BY <4>2, <4>3, <3>2, CopyKeepsWhole
      <4> QED
        BY <4>1, <4>4
    <3> QED
      BY <3>1, <3>2
  <2>4. CASE h \notin report.done
    <3>1. \/ report' = [report EXCEPT !.failed = @ \cup group.torrents]
          \/ /\ report' = [report EXCEPT !.done = @ \cup group.torrents]
             /\ Land({Sent(x, FALSE) : x \in There(group)}) /\ There(group) = group.files
      BY <1>1, CopyFacts
    <3>2. /\ report' = [report EXCEPT !.done = @ \cup group.torrents]
          /\ Land({Sent(x, FALSE) : x \in There(group)}) /\ There(group) = group.files
      BY <3>1, <2>1, <2>4, ReportFails DEF CommandInv, Typed
    <3>3. h \in group.torrents
      BY <3>2, <2>1, <2>4, ReportDoes DEF CommandInv, Typed
    <3> QED
      BY <3>2, <3>3, <1>8, <1>10
  <2> QED
    BY <2>3, <2>4
<1> QED
  BY <1>4, <1>5, <1>6, <1>7, <1>11

(* The end of a command, however it comes, changes nothing of that.            *)
LEMMA EndUnedited ==
  ASSUME CommandInv, Unedited, UNCHANGED <<library, staging, landed, manifest, edits>>,
         groups' = <<>>, NEW result \in Ends, report' = [report EXCEPT !.end = result]
  PROVE  Unedited'
<1> SUFFICES ASSUME edits = 0
             PROVE  /\ library' \in Libraries
                    /\ manifest' # {} => manifest' = Audit'
                    /\ StagedByRules' /\ LandedByRules' /\ GroupedByRules' /\ DoneArrived'
  BY DEF Unedited
<1>1. library' \in Libraries /\ (manifest' # {} => manifest' = Audit')
  BY SameRules DEF Unedited
<1>2. StagedByRules' /\ LandedByRules'
  BY KeepsStaged, KeepsLanded DEF Unedited
<1>3. report'.of = report.of /\ report'.done = report.done
  BY ReportEnds DEF CommandInv, Typed
<1>4. DoneArrived'
  BY <1>3, KeepsDone DEF Unedited
<1> QED
  BY <1>1, <1>2, <1>4, NothingGrouped

LEMMA EndingsUnedited == CommandInv /\ Unedited /\ (EndRewrite \/ EndTransfer \/ Kill) => Unedited'
<1> SUFFICES ASSUME CommandInv, Unedited, EndRewrite \/ EndTransfer \/ Kill PROVE Unedited'
  OBVIOUS
<1>1. UNCHANGED <<library, staging, landed, manifest, edits>>
  BY DEF EndRewrite, EndTransfer, Kill
<1>2. groups' = <<>>
  BY DEF EndRewrite, EndTransfer, Kill, CommandInv, Worked
<1>3. PICK result \in {"complete", "incomplete", "killed"} :
        report' = [report EXCEPT !.end = result]
  BY DEF EndRewrite, EndTransfer, Kill, End, Ended
<1>4. result \in Ends
  BY <1>3 DEF Ends
<1> QED
  BY <1>1, <1>2, <1>3, <1>4, EndUnedited

(* All this holds at first, and every step keeps it.                           *)
LEMMA UneditedInit == Init => Unedited
<1> SUFFICES ASSUME Init PROVE Unedited
  OBVIOUS
<1>1. /\ library \in Libraries /\ manifest = {} /\ landed = {} /\ groups = <<>>
      /\ staging = [h \in Hashes |-> NoPair]
  BY DEF Init
<1>2. StagedByRules
  BY <1>1 DEF StagedByRules, NoPair
<1>3. LandedByRules /\ GroupedByRules
  BY <1>1 DEF LandedByRules, GroupedByRules
<1>4. DoneArrived
  BY DEF DoneArrived, Init, NewReport
<1> QED
  BY <1>1, <1>2, <1>3, <1>4 DEF Unedited

LEMMA UneditedStep == DistinctPlaces /\ CommandInv /\ Unedited /\ [Next]_vars => Unedited'
<1> SUFFICES ASSUME DistinctPlaces, CommandInv, Unedited, [Next]_vars PROVE Unedited'
  OBVIOUS
<1>1. CASE Edit
  <2>1. edits' # 0
    <3>1. edits' = edits + 1
      BY <1>1 DEF Edit
    <3>2. edits \in Nat
      BY DEF CommandInv, Typed
    <3> QED
      BY <3>1, <3>2
  <2> QED
    BY <2>1 DEF Unedited
<1>2. CASE UNCHANGED vars
  <2>1. UNCHANGED <<library, staging, landed, manifest, groups, report, edits>>
    BY <1>2 DEF vars, command
  <2>2. edits = 0 => /\ library' \in Libraries /\ (manifest' # {} => manifest' = Audit')
                     /\ StagedByRules' /\ LandedByRules' /\ GroupedByRules' /\ DoneArrived'
    BY <2>1, SameRules, KeepsStaged, KeepsLanded, KeepsGrouped, KeepsDone DEF Unedited
  <2> QED
    BY <2>1, <2>2 DEF Unedited
<1>3. CASE Begin \/ RewriteStep \/ TransferStep \/ Kill
  BY <1>3, BeginUnedited, WriteOneUnedited, CollectUnedited, CopyUnedited, EndingsUnedited
     DEF RewriteStep, TransferStep
<1> QED
  BY <1>1, <1>2, <1>3 DEF Next

------------------------------------------------------------------------------
(* The layout.                                                                 *)

(* A plan of something has the rules of what was listed. *)
LEMMA MadeDerived ==
  ASSUME PlanMade, manifest # {}
  PROVE  plan.mapping = Derive(PathsForMap(manifest), Dest)
BY DEF PlanMade, MadeOf

(* What a report says was done was done of a plan that listed something. *)
DoneOfSome == report.done # {} => manifest # {}

(* Only a command with a plan reports something done.                          *)
LEMMA DoneStep == CommandInv /\ DoneOfSome /\ [Next]_vars => DoneOfSome'
<1> SUFFICES ASSUME CommandInv, DoneOfSome, [Next]_vars PROVE DoneOfSome'
  OBVIOUS
<1>1. CASE \/ \E name \in {"rewrite", "transfer"} : BeginFails(name)
           \/ \E budget \in Budgets : BeginRewrite(budget)
  BY <1>1 DEF BeginFails, BeginRewrite, NewReport, DoneOfSome
<1>2. CASE \E budget \in Budgets, maxBytes \in ByteCaps, maxTorrents \in TorrentCaps,
              dry \in BOOLEAN : BeginTransfer(budget, maxBytes, maxTorrents, dry)
  BY <1>2 DEF BeginTransfer, NewReport, DoneOfSome
<1>3. CASE RewriteStep \/ TransferStep
  <2>1. pc # "idle" /\ manifest' = manifest
    BY <1>3 DEF RewriteStep, TransferStep, WriteOne, EndRewrite, Collect, Copy, EndTransfer
  <2> QED
    BY <2>1 DEF CommandInv, Typed, DoneOfSome
<1>4. CASE Kill
  BY <1>4 DEF Kill, End, CommandInv, Typed, DoneOfSome
<1>5. CASE Edit \/ UNCHANGED vars
  BY <1>5 DEF Edit, vars, command, DoneOfSome
<1> QED
  BY <1>1, <1>2, <1>3, <1>4, <1>5 DEF Next, Begin

(* Why the layout follows staging. *)
LEMMA ArrivesWhereStaged ==
  ASSUME CommandInv, Unedited, DoneOfSome PROVE LandsWhereStaged
<1> SUFFICES ASSUME edits = 0, report.of = "transfer", NEW h \in report.done,
                    staging[h].resume = "good", Converging(plan.mapping) = {}
             PROVE  Holds(h, staging[h].path, {f \in Files : library[h].wanted[f]})
  BY DEF LandsWhereStaged, LayoutFollowsStaging
<1>1. manifest = Audit /\ Moves(h) /\ (Converging(Rules) = {} => Arrived(h))
  BY DEF Unedited, DoneOfSome, DoneArrived
<1>2. Derived(Audit, Rules)
  BY <1>1 DEF Moves
<1>3. plan.mapping = Rules
  BY <1>1, MadeDerived DEF CommandInv, DoneOfSome, Rules
<1>4. h \in Hashes /\ staging[h].path = Apply(Rules, library[h].path)
  BY <1>1 DEF Unedited, StagedByRules, Moves
<1>5. Place(h, staging[h].path) = Spot(h)
  BY <1>1, <1>4, MovesFacts DEF CommandInv, Typed
<1> QED
  BY <1>1, <1>3, <1>5 DEF Holds, Arrived

(* "Destination layout follows the rewritten save paths" (rewrite::run and     *)
(* transfer::run, each with a plan of its own): a torrent of a complete        *)
(* transfer that is staged has its wanted files below its staged path, after   *)
(* any faults, kills, caps and repetitions, as long as the library is not      *)
(* edited, unless two of its directories converge.  Two torrents in one        *)
(* directory under one name would overwrite each other on the source already.  *)
THEOREM PayloadLayout == ASSUME DistinctPlaces PROVE Spec => []LandsWhereStaged
<1> DEFINE Inv == CommandInv /\ Unedited /\ DoneOfSome
<1>1. Init => Inv
  BY CommandInit, UneditedInit DEF Init, NewReport, DoneOfSome
<1>2. Inv /\ [Next]_vars => Inv'
  BY CommandStep, UneditedStep, DoneStep
<1>3. Inv => LandsWhereStaged
  BY ArrivesWhereStaged
<1> QED
  BY <1>1, <1>2, <1>3, PTL DEF Spec

(* No step but a copy takes anything away.                                     *)
LEMMA StepKeepsWhole ==
  ASSUME DistinctPlaces, CommandInv, Unedited, Next, edits' = 0, NEW l \in landed, l.whole
  PROVE  l \in landed' \/ Converging(plan.mapping) # {}
<1>1. CASE Copy
  <2>1. edits = 0 /\ manifest # {} /\ manifest = Audit
    BY <1>1 DEF Copy, CommandInv, Typed, Unedited
  <2>2. plan.mapping = Rules
    BY <2>1, MadeDerived DEF CommandInv, Rules
  <2> QED
    BY <1>1, <2>1, <2>2, CopyKeepsWhole
<1>2. CASE ~Copy
  BY <1>2 DEF Next, Begin, BeginFails, BeginRewrite, BeginTransfer, RewriteStep, TransferStep,
              WriteOne, EndRewrite, Collect, EndTransfer, Kill, Edit
<1> QED
  BY <1>1, <1>2

(* "Re-running is safe" (transfer::copy_plan): what has arrived whole stays,   *)
(* whatever is copied, fails or is interrupted later.                          *)
THEOREM PayloadRerun == ASSUME DistinctPlaces PROVE Spec => RerunIsSafe
<1> DEFINE Inv == CommandInv /\ Unedited
<1>1. Init => Inv
  BY CommandInit, UneditedInit
<1>2. Inv /\ [Next]_vars => Inv'
  BY CommandStep, UneditedStep
<1>3. Inv /\ [Next]_vars =>
        [edits' = 0 => \A l \in landed :
                         l.whole => l \in landed' \/ Converging(plan.mapping) # {}]_vars
  BY StepKeepsWhole
<1> QED
  BY <1>1, <1>2, <1>3, PTL DEF Spec, RerunIsSafe
==================================================================================
