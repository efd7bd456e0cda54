---------------------------- MODULE Fnmatch_proofs ----------------------------
(***************************************************************************)
(* match_pattern does what the documentation says: for every pattern       *)
(* written in its elements and every name, MatchPattern and Means agree.   *)
(*                                                                         *)
(* MatchPattern, ClassRest and FlattenSeq are recursive functions, so the  *)
(* module begins with the induction they need, over sets of numbers.       *)
(***************************************************************************)
EXTENDS Fnmatch, FiniteSetTheorems, SequenceTheorems, TLAPS

(* Induction: a set with 0, and with n + 1 whenever with n, has all naturals. *)
(* Were n missing, x |-> x + 1 would map the members up to n one to one to    *)
(* those that are not 0, of which there is one less.                          *)
LEMMA SetInduction ==
    ASSUME NEW S, 0 \in S, \A n \in Nat : n \in S => n + 1 \in S
    PROVE  Nat \subseteq S
<1> SUFFICES ASSUME NEW n \in Nat, n \notin S PROVE FALSE
    OBVIOUS
<1> DEFINE below == S \cap (0 .. n)
           rest == below \ {0}
           next == [x \in below |-> x + 1]
<1>1. IsFiniteSet(below) /\ Cardinality(below) \in Nat
    <2>1. IsFiniteSet(0 .. n)
        BY FS_Interval
    <2>2. IsFiniteSet(below)
        BY <2>1, FS_Subset
    <2> QED BY <2>2, FS_CardinalityType
<1>2. IsFiniteSet(rest) /\ Cardinality(rest) = Cardinality(below) - 1
    <2>1. 0 \in below
        OBVIOUS
    <2> HIDE DEF below
    <2> QED BY <1>1, <2>1, FS_RemoveElement
<1>3. next \in Injection(below, rest)
    BY DEF Injection, IsInjective
<1>4. Cardinality(below) <= Cardinality(rest)
    <2> HIDE DEF below, rest, next
    <2> QED BY <1>2, <1>3, FS_Injection
<1> HIDE DEF below, rest
<1> QED BY <1>1, <1>2, <1>4

(* Recursion: Step says what a function has at d, from what it has where the *)
(* rank is less; then there is such a function.                              *)
Founded(D, V, rank, Step) ==
    \A d \in D, f, g \in [D -> V] :
        (\A e \in D : rank[e] < rank[d] => f[e] = g[e])
            => Step[<<d, f>>] = Step[<<d, g>>]

Recursive(D, V, v, bound, rank, Step) ==
    /\ v \in V /\ bound \in Nat
    /\ rank \in [D -> 0 .. bound]
    /\ Step \in [D \X [D -> V] -> V]
    /\ Founded(D, V, rank, Step)

LEMMA Below ==
    \A m, n \in Nat : m < n + 1 /\ m # n => m < n
OBVIOUS

LEMMA Recursion ==
    ASSUME NEW D, NEW V, NEW v, NEW bound, NEW rank, NEW Step,
           Recursive(D, V, v, bound, rank, Step)
    PROVE  \E f \in [D -> V] : \A d \in D : f[d] = Step[<<d, f>>]
<1> USE DEF Recursive
<1> DEFINE Upto(n) ==
               \E f \in [D -> V] :
                   \A d \in D : rank[d] < n => f[d] = Step[<<d, f>>]
           S == {n \in Nat : Upto(n)}
<1>1. 0 \in S
    <2>1. [d \in D |-> v] \in [D -> V]
        OBVIOUS
    <2>2. \A d \in D : ~ (rank[d] < 0)
        <3> SUFFICES ASSUME NEW d \in D PROVE ~ (rank[d] < 0)
            OBVIOUS
        <3>1. rank[d] \in 0 .. bound
            OBVIOUS
        <3> QED BY <3>1
    <2> QED BY <2>1, <2>2
<1>2. ASSUME NEW n \in Nat, n \in S PROVE n + 1 \in S
    <2>1. PICK f \in [D -> V] :
              \A d \in D : rank[d] < n => f[d] = Step[<<d, f>>]
        BY <1>2
    <2> DEFINE g == [d \in D |-> IF rank[d] = n THEN Step[<<d, f>>] ELSE f[d]]
    <2>2. g \in [D -> V]
        OBVIOUS
    <2>3. ASSUME NEW d \in D, rank[d] < n + 1 PROVE g[d] = Step[<<d, g>>]
        <3>1. \A e \in D : rank[e] < rank[d] => f[e] = g[e]
            BY <2>3
        <3>2. Step[<<d, f>>] = Step[<<d, g>>]
            <4> HIDE DEF g
            <4> QED BY <2>2, <3>1 DEF Founded
        <3>3. CASE rank[d] = n
            BY <3>2, <3>3
        <3>4. CASE rank[d] # n
            <4>1. rank[d] \in 0 .. bound
                OBVIOUS
            <4>2. rank[d] \in Nat
                BY <4>1
            <4>3. rank[d] < n
                BY <2>3, <3>4, <4>2, Below
            <4> QED BY <2>1, <3>2, <3>4, <4>3
        <3> QED BY <3>3, <3>4
    <2> HIDE DEF g
    <2> QED BY <2>2, <2>3
<1>3. bound + 1 \in S
    <2> HIDE DEF S
    <2> QED BY <1>1, <1>2, SetInduction
<1>4. \A d \in D : rank[d] < bound + 1
    <2> SUFFICES ASSUME NEW d \in D PROVE rank[d] < bound + 1
        OBVIOUS
    <2>1. rank[d] \in 0 .. bound
        OBVIOUS
    <2> QED BY <2>1
<1> QED BY <1>3, <1>4

(* A set of naturals that has any has a least one. *)
LEMMA Least ==
    ASSUME NEW S \in SUBSET Nat, NEW some \in S
    PROVE  \E n \in S : \A m \in S : n <= m
<1> SUFFICES ASSUME \A n \in S : \E m \in S : m < n PROVE FALSE
    OBVIOUS
<1> DEFINE T == {n \in Nat : \A m \in 0 .. n : m \notin S}
<1>1. 0 \in T
    <2>1. ASSUME 0 \in S PROVE FALSE
        BY <2>1
    <2> QED BY <2>1
<1>2. ASSUME NEW n \in Nat, n \in T PROVE n + 1 \in T
    <2>1. n + 1 \notin S
        BY <1>2
    <2> QED BY <1>2, <2>1
<1>3. some \in T
    <2> HIDE DEF T
    <2> QED BY <1>1, <1>2, SetInduction
<1> QED BY <1>3

------------------------------------------------------------------------------
(* match_class *)

(* What match_class does at i when it has hit c or not. *)
ClassStep(p, first, negate, c, rest, i, matched) ==
    IF i > Len(p) THEN 0
    ELSE IF p[i] = Close /\ i # first
    THEN IF matched # negate THEN i + 1 ELSE 0
    ELSE rest[IF IsRange(p, i) THEN i + 3 ELSE i + 1][matched \/ Hit(p, i, c)]

(* The function that match_class is exists, and takes every class it reads *)
(* to a place behind it or to 0.                                           *)
LEMMA ClassFunction ==
    ASSUME NEW p \in Seq(Nat), NEW c \in Nat, NEW first \in Nat,
           NEW negate \in BOOLEAN
    PROVE  \E rest \in [first .. Len(p) + 1 -> [BOOLEAN -> 0 .. Len(p) + 1]] :
               \A i \in first .. Len(p) + 1 :
                   rest[i] = [matched \in BOOLEAN |->
                       ClassStep(p, first, negate, c, rest, i, matched)]
<1> DEFINE D == first .. Len(p) + 1
           V == [BOOLEAN -> 0 .. Len(p) + 1]
           rank == [i \in D |-> Len(p) + 1 - i]
           At(i, f) == [matched \in BOOLEAN |->
                           ClassStep(p, first, negate, c, f, i, matched)]
           Step == [df \in D \X [D -> V] |-> At(df[1], df[2])]
<1>0. Len(p) + 1 \in Nat /\ D \subseteq Nat
    OBVIOUS
<1>1. [matched \in BOOLEAN |-> 0] \in V
    OBVIOUS
<1>2. rank \in [D -> 0 .. Len(p) + 1]
    OBVIOUS
<1>3. ASSUME NEW i \in D, NEW f \in [D -> V], NEW matched \in BOOLEAN
      PROVE  ClassStep(p, first, negate, c, f, i, matched) \in 0 .. Len(p) + 1
    <2>1. CASE i > Len(p)
        BY <2>1 DEF ClassStep
    <2>2. CASE i <= Len(p)
        <3> DEFINE n == IF IsRange(p, i) THEN i + 3 ELSE i + 1
                   h == matched \/ Hit(p, i, c)
        <3>1. n \in D
            BY <2>2 DEF IsRange
        <3>2. h \in BOOLEAN
            OBVIOUS
        <3>3. f[n][h] \in 0 .. Len(p) + 1
            <4> HIDE DEF n, h, D
            <4> QED BY <3>1, <3>2
        <3>4. i + 1 \in 0 .. Len(p) + 1
            BY <2>2
        <3> HIDE DEF n, h, D
        <3> QED BY <2>2, <3>3, <3>4 DEF ClassStep, n, h
    <2> QED BY <2>1, <2>2
<1>4. Step \in [D \X [D -> V] -> V]
    BY <1>3
<1>5. ASSUME NEW i \in D, NEW f \in [D -> V], NEW g \in [D -> V],
             \A e \in D : rank[e] < rank[i] => f[e] = g[e]
      PROVE  Step[<<i, f>>] = Step[<<i, g>>]
    <2>1. ASSUME NEW matched \in BOOLEAN
          PROVE  ClassStep(p, first, negate, c, f, i, matched)
                     = ClassStep(p, first, negate, c, g, i, matched)
        <3>1. CASE i > Len(p)
            BY <3>1 DEF ClassStep
        <3>2. CASE i <= Len(p)
            <4> DEFINE n == IF IsRange(p, i) THEN i + 3 ELSE i + 1
            <4>1. n \in D /\ rank[n] < rank[i]
                BY <3>2 DEF IsRange
            <4>2. f[n] = g[n]
                BY <1>5, <4>1
            <4> HIDE DEF n
            <4> QED BY <3>2, <4>2 DEF ClassStep, n
        <3> QED BY <3>1, <3>2
    <2> QED BY <2>1
<1>6. Founded(D, V, rank, Step)
    <2> HIDE DEF D, V, rank, Step
    <2> QED BY <1>5 DEF Founded
<1>7. \E rest \in [D -> V] : \A i \in D : rest[i] = Step[<<i, rest>>]
    <2> DEFINE v == [matched \in BOOLEAN |-> 0]
               bound == Len(p) + 1
    <2> HIDE DEF D, V, rank, Step
    <2>1. Recursive(D, V, v, bound, rank, Step)
        BY <1>0, <1>1, <1>2, <1>4, <1>6 DEF Recursive
    <2> HIDE DEF v, bound
    <2> QED BY <2>1, Recursion
<1> QED BY <1>7

(* match_class reads on as ClassStep says. *)
LEMMA ClassReads ==
    ASSUME NEW p \in Seq(Nat), NEW c \in Nat, NEW first \in Nat,
           NEW negate \in BOOLEAN, NEW i \in first .. Len(p) + 1,
           NEW matched \in BOOLEAN
    PROVE  ClassReader(p, first, negate, c)[i][matched] =
               ClassStep(p, first, negate, c,
                         ClassReader(p, first, negate, c), i, matched)
<1> DEFINE D == first .. Len(p) + 1
           At(rest) == [k \in D |-> [hit \in BOOLEAN |->
                           ClassStep(p, first, negate, c, rest, k, hit)]]
           reader == ClassReader(p, first, negate, c)
<1>1. reader = CHOOSE rest : rest = At(rest)
    BY DEF ClassReader, ClassStep
<1>2. \E rest : rest = At(rest)
    <2>1. PICK rest \in [D -> [BOOLEAN -> 0 .. Len(p) + 1]] :
              \A k \in D : rest[k] = [hit \in BOOLEAN |->
                               ClassStep(p, first, negate, c, rest, k, hit)]
        BY ClassFunction, ZenonT(60)
    <2>2. rest = [k \in D |-> rest[k]]
        OBVIOUS
    <2>3. rest = At(rest)
        <3> HIDE DEF D
        <3> QED BY <2>1, <2>2
    <2> QED BY <2>3
<1>3. reader = At(reader)
    <2> HIDE DEF At, reader
    <2> QED BY <1>1, <1>2
<1>4. At(reader)[i][matched] =
          ClassStep(p, first, negate, c, reader, i, matched)
    <2> HIDE DEF reader
    <2> QED OBVIOUS
<1> HIDE DEF At
<1> QED BY <1>3, <1>4

(* match_class ends behind the place it has come to, or with 0. *)
LEMMA ClassEndsBehind ==
    ASSUME NEW p \in Seq(Nat), NEW c \in Nat, NEW first \in Nat,
           NEW negate \in BOOLEAN
    PROVE  \A i \in first .. Len(p) + 1 : \A matched \in BOOLEAN :
               ClassReader(p, first, negate, c)[i][matched]
                   \in {0} \cup (i + 1 .. Len(p) + 1)
<1> DEFINE reader == ClassReader(p, first, negate, c)
           D == first .. Len(p) + 1
           Good(i) == \A matched \in BOOLEAN :
                          reader[i][matched] \in {0} \cup (i + 1 .. Len(p) + 1)
           Bad == {n \in Nat : \E i \in D : n = Len(p) + 1 - i /\ ~ Good(i)}
<1>1. ASSUME NEW i \in D, \A k \in D : k > i => Good(k)
      PROVE  Good(i)
    <2> SUFFICES ASSUME NEW matched \in BOOLEAN
                 PROVE  reader[i][matched] \in {0} \cup (i + 1 .. Len(p) + 1)
        OBVIOUS
    <2>1. reader[i][matched] =
              ClassStep(p, first, negate, c, reader, i, matched)
        BY ClassReads
    <2>2. CASE i > Len(p)
        <3> HIDE DEF reader
        <3> QED BY <2>1, <2>2 DEF ClassStep
    <2>3. CASE i <= Len(p)
        <3> DEFINE n == IF IsRange(p, i) THEN i + 3 ELSE i + 1
                   h == matched \/ Hit(p, i, c)
        <3>1. n \in D /\ n > i
            BY <2>3 DEF IsRange
        <3>2. h \in BOOLEAN
            OBVIOUS
        <3>3. Good(n)
            <4> HIDE DEF n, D, Good
            <4> QED BY <1>1, <3>1
        <3>4. reader[n][h] \in {0} \cup (n + 1 .. Len(p) + 1)
            <4> HIDE DEF n, h, D, reader
            <4> QED BY <3>2, <3>3
        <3>5. reader[n][h] \in {0} \cup (i + 1 .. Len(p) + 1)
            <4>1. n \in Int /\ i \in Int
                BY <3>1
            <4> HIDE DEF n, h, D, reader
            <4> QED BY <3>1, <3>4, <4>1
        <3>6. i + 1 \in i + 1 .. Len(p) + 1
            BY <2>3
        <3> HIDE DEF n, h, D, reader
        <3> QED BY <2>1, <2>3, <3>5, <3>6 DEF ClassStep, n, h
    <2> QED BY <2>2, <2>3
<1>2. ASSUME NEW some \in D, ~ Good(some) PROVE FALSE
    <2>1. Len(p) + 1 - some \in Bad
        <3> HIDE DEF Good
        <3> QED BY <1>2
    <2>2. Bad \in SUBSET Nat
        OBVIOUS
    <2>3. PICK n \in Bad : \A m \in Bad : n <= m
        <3> HIDE DEF Bad
        <3> QED BY <2>1, <2>2, Least
    <2>4. PICK i \in D : n = Len(p) + 1 - i /\ ~ Good(i)
        BY <2>3
    <2>5. ASSUME NEW k \in D, k > i PROVE Good(k)
        <3>1. Len(p) + 1 - k \in Nat /\ Len(p) + 1 - k < n
            BY <2>4, <2>5
        <3> HIDE DEF Good
        <3>2. Len(p) + 1 - k \notin Bad
            <4> HIDE DEF Bad
            <4> QED BY <2>2, <2>3, <3>1
        <3> QED BY <3>1, <3>2
    <2> HIDE DEF Good, Bad, D
    <2> QED BY <1>1, <2>4, <2>5
<1> HIDE DEF Good, D
<1>3. \A i \in D : Good(i)
    BY <1>2
<1> QED BY <1>3 DEF Good, D

LEMMA ClassRestBehind ==
    ASSUME NEW p \in Seq(Nat), NEW c \in Nat, NEW at \in 1 .. Len(p)
    PROVE  ClassRest(p, at, c) \in {0} \cup (at + 1 .. Len(p) + 1)
<1> DEFINE negate == at < Len(p) /\ p[at + 1] \in {Bang, Caret}
           first == IF negate THEN at + 2 ELSE at + 1
<1>1. negate \in BOOLEAN /\ first \in Nat /\ first \in at + 1 .. at + 2
    OBVIOUS
<1>2. ClassRest(p, at, c) =
          IF first > Len(p) THEN 0
          ELSE ClassReader(p, first, negate, c)[first][FALSE]
    BY DEF ClassRest
<1> HIDE DEF first, negate
<1>3. CASE first > Len(p)
    BY <1>2, <1>3
<1>4. CASE first <= Len(p)
    <2>1. ClassReader(p, first, negate, c)[first][FALSE]
              \in {0} \cup (first + 1 .. Len(p) + 1)
        <3>1. first \in first .. Len(p) + 1
            BY <1>1, <1>4
        <3>2. \A i \in first .. Len(p) + 1 : \A matched \in BOOLEAN :
                  ClassReader(p, first, negate, c)[i][matched]
                      \in {0} \cup (i + 1 .. Len(p) + 1)
            BY <1>1, ClassEndsBehind
        <3> QED BY <3>1, <3>2
    <2> DEFINE r == ClassReader(p, first, negate, c)[first][FALSE]
    <2>2. ClassRest(p, at, c) = r
        <3>1. ~ (first > Len(p))
            BY <1>1, <1>4
        <3> QED BY <1>2, <3>1
    <2> HIDE DEF r
    <2>3. r \in {0} \cup (first + 1 .. Len(p) + 1)
        BY <2>1 DEF r
    <2>4. r \in {0} \cup (at + 1 .. Len(p) + 1)
        BY <1>1, <2>3
    <2> QED BY <2>2, <2>4
<1> QED BY <1>1, <1>3, <1>4

(* A class in which no "]" comes behind its first byte never matches. *)
LEMMA ClassNeverEnds ==
    ASSUME NEW p \in Seq(Nat), NEW c \in Nat, NEW first \in Nat,
           NEW negate \in BOOLEAN,
           \A i \in first + 1 .. Len(p) : p[i] # Close
    PROVE  \A i \in first .. Len(p) + 1 : \A matched \in BOOLEAN :
               ClassReader(p, first, negate, c)[i][matched] = 0
<1> DEFINE reader == ClassReader(p, first, negate, c)
           D == first .. Len(p) + 1
           Good(i) == \A matched \in BOOLEAN : reader[i][matched] = 0
           Bad == {n \in Nat : \E i \in D : n = Len(p) + 1 - i /\ ~ Good(i)}
<1>1. ASSUME NEW i \in D, \A k \in D : k > i => Good(k)
      PROVE  Good(i)
    <2> SUFFICES ASSUME NEW matched \in BOOLEAN PROVE reader[i][matched] = 0
        OBVIOUS
    <2>1. reader[i][matched] =
              ClassStep(p, first, negate, c, reader, i, matched)
        BY ClassReads
    <2>2. CASE i > Len(p)
        <3> HIDE DEF reader
        <3> QED BY <2>1, <2>2 DEF ClassStep
    <2>3. CASE i <= Len(p)
        <3> DEFINE n == IF IsRange(p, i) THEN i + 3 ELSE i + 1
                   h == matched \/ Hit(p, i, c)
        <3>1. n \in D /\ n > i
            BY <2>3 DEF IsRange
        <3>2. h \in BOOLEAN
            OBVIOUS
        <3>3. Good(n)
            <4> HIDE DEF n, D, Good
            <4> QED BY <1>1, <3>1
        <3>4. reader[n][h] = 0
            <4> HIDE DEF n, h, D, reader
            <4> QED BY <3>2, <3>3
        <3>5. ~ (p[i] = Close /\ i # first)
            BY <2>3
        <3> HIDE DEF n, h, D, reader
        <3> QED BY <2>1, <2>3, <3>4, <3>5 DEF ClassStep, n, h
    <2> QED BY <2>2, <2>3
<1>2. ASSUME NEW some \in D, ~ Good(some) PROVE FALSE
    <2>1. Len(p) + 1 - some \in Bad
        <3> HIDE DEF Good
        <3> QED BY <1>2
    <2>2. Bad \in SUBSET Nat
        OBVIOUS
    <2>3. PICK n \in Bad : \A m \in Bad : n <= m
        <3> HIDE DEF Bad
        <3> QED BY <2>1, <2>2, Least
    <2>4. PICK i \in D : n = Len(p) + 1 - i /\ ~ Good(i)
        BY <2>3
    <2>5. ASSUME NEW k \in D, k > i PROVE Good(k)
        <3>1. Len(p) + 1 - k \in Nat /\ Len(p) + 1 - k < n
            BY <2>4, <2>5
        <3> HIDE DEF Good
        <3>2. Len(p) + 1 - k \notin Bad
            <4> HIDE DEF Bad
            <4> QED BY <2>2, <2>3, <3>1
        <3> QED BY <3>1, <3>2
    <2> HIDE DEF Good, Bad, D
    <2> QED BY <1>1, <2>4, <2>5
<1> HIDE DEF Good, D
<1>3. \A i \in D : Good(i)
    BY <1>2
<1> QED BY <1>3 DEF Good, D

------------------------------------------------------------------------------
(* match_pattern *)

(* Every place that has a star has an end of the stars there, and just one. *)
LEMMA StarsEndIs ==
    ASSUME NEW p \in Seq(Nat), NEW i \in 1 .. Len(p)
    PROVE  /\ StarsEnd(p, i) \in i .. Len(p) + 1
           /\ \A l \in i .. StarsEnd(p, i) - 1 : p[l] = Star
           /\ StarsEnd(p, i) > Len(p) \/ p[StarsEnd(p, i)] # Star
<1> DEFINE S == {n \in Nat : i + n > Len(p) \/ p[i + n] # Star}
<1>1. Len(p) + 1 - i \in S
    OBVIOUS
<1>2. PICK n \in S : \A m \in S : n <= m
    <2> HIDE DEF S
    <2>1. S \in SUBSET Nat
        BY DEF S
    <2> QED BY <1>1, <2>1, Least
<1>3. i + n \in i .. Len(p) + 1
    <2>1. n \in Nat /\ n <= Len(p) + 1 - i
        <3>1. n \in Nat
            OBVIOUS
        <3> HIDE DEF S
        <3> QED BY <1>1, <1>2, <3>1
    <2> QED BY <2>1
<1>4. \A l \in i .. i + n - 1 : p[l] = Star
    <2> SUFFICES ASSUME NEW l \in i .. i + n - 1, p[l] # Star PROVE FALSE
        OBVIOUS
    <2>1. l - i \in S /\ n \in Nat /\ l - i < n
        OBVIOUS
    <2>2. n <= l - i
        <3> HIDE DEF S
        <3> QED BY <1>2, <2>1
    <2> QED BY <2>1, <2>2
<1>5. i + n > Len(p) \/ p[i + n] # Star
    OBVIOUS
<1>6. \E k \in i .. Len(p) + 1 : /\ \A l \in i .. k - 1 : p[l] = Star
                                 /\ k > Len(p) \/ p[k] # Star
    BY <1>3, <1>4, <1>5
<1> QED BY <1>6 DEF StarsEnd

LEMMA StarsEndOnce ==
    ASSUME NEW p \in Seq(Nat), NEW i \in 1 .. Len(p), NEW k \in i .. Len(p) + 1,
           \A l \in i .. k - 1 : p[l] = Star,
           k > Len(p) \/ p[k] # Star
    PROVE  StarsEnd(p, i) = k
<1> DEFINE e == StarsEnd(p, i)
<1>1. /\ e \in i .. Len(p) + 1
      /\ \A l \in i .. e - 1 : p[l] = Star
      /\ e > Len(p) \/ p[e] # Star
    BY StarsEndIs
<1> HIDE DEF e
<1>2. CASE e < k
    BY <1>1, <1>2
<1>3. CASE e > k
    BY <1>1, <1>3
<1> QED BY <1>1, <1>2, <1>3 DEF e

(* What match_pattern says on the rest of the pattern from i and of the name *)
(* from j.                                                                   *)
MatchStep(p, s, match, i, j) ==
    \/ i > Len(p) /\ j > Len(s)
    \/ /\ i <= Len(p) /\ p[i] = Star
       /\ \E k \in j .. Len(s) + 1 : match[StarsEnd(p, i)][k]
    \/ /\ i <= Len(p) /\ p[i] # Star /\ j <= Len(s)
       /\ AfterByte(p, i, s[j]) # 0
       /\ match[AfterByte(p, i, s[j])][j + 1]

(* A byte takes match_pattern further. *)
LEMMA AfterByteBehind ==
    ASSUME NEW p \in Seq(Nat), NEW i \in 1 .. Len(p), NEW c \in Nat
    PROVE  AfterByte(p, i, c) \in {0} \cup (i + 1 .. Len(p) + 1)
<1>1. ClassRest(p, i, c) \in {0} \cup (i + 1 .. Len(p) + 1)
    BY ClassRestBehind
<1>2. i + 1 \in i + 1 .. Len(p) + 1
    OBVIOUS
<1> QED BY <1>1, <1>2 DEF AfterByte

(* And so do the stars. *)
LEMMA StarsEndBehind ==
    ASSUME NEW p \in Seq(Nat), NEW i \in 1 .. Len(p), p[i] = Star
    PROVE  StarsEnd(p, i) \in i + 1 .. Len(p) + 1
<1> DEFINE e == StarsEnd(p, i)
<1>1. e \in i .. Len(p) + 1 /\ (e > Len(p) \/ p[e] # Star)
    BY StarsEndIs
<1> HIDE DEF e
<1> QED BY <1>1 DEF e

(* The function that match_pattern is exists. *)
LEMMA MatchFunction ==
    ASSUME NEW p \in Seq(Nat), NEW s \in Seq(Nat)
    PROVE  \E match \in [1 .. Len(p) + 1 -> [1 .. Len(s) + 1 -> BOOLEAN]] :
               \A i \in 1 .. Len(p) + 1 :
                   match[i] = [j \in 1 .. Len(s) + 1 |->
                                  MatchStep(p, s, match, i, j)]
<1> DEFINE D == 1 .. Len(p) + 1
           J == 1 .. Len(s) + 1
           V == [J -> BOOLEAN]
           rank == [i \in D |-> Len(p) + 1 - i]
           At(i, f) == [j \in J |-> MatchStep(p, s, f, i, j)]
           Step == [df \in D \X [D -> V] |-> At(df[1], df[2])]
<1>0. Len(p) + 1 \in Nat
    OBVIOUS
<1>1. [j \in J |-> FALSE] \in V
    OBVIOUS
<1>2. rank \in [D -> 0 .. Len(p) + 1]
    OBVIOUS
<1>3. ASSUME NEW i \in D, NEW f \in [D -> V], NEW j \in J
      PROVE  MatchStep(p, s, f, i, j) \in BOOLEAN
    BY DEF MatchStep
<1>4. Step \in [D \X [D -> V] -> V]
    BY <1>3
<1>5. ASSUME NEW i \in D, NEW f \in [D -> V], NEW g \in [D -> V],
             \A e \in D : rank[e] < rank[i] => f[e] = g[e]
      PROVE  Step[<<i, f>>] = Step[<<i, g>>]
    <2>0. \A e \in D : e > i => f[e] = g[e]
        BY <1>5
    <2>1. ASSUME NEW j \in J
          PROVE  MatchStep(p, s, f, i, j) = MatchStep(p, s, g, i, j)
        <3>1. CASE i > Len(p)
            BY <3>1 DEF MatchStep
        <3>2. CASE i <= Len(p) /\ p[i] = Star
            <4>1. StarsEnd(p, i) \in D /\ StarsEnd(p, i) > i
                BY <3>2, StarsEndBehind
            <4>2. f[StarsEnd(p, i)] = g[StarsEnd(p, i)]
                BY <2>0, <4>1
            <4> QED BY <3>2, <4>2 DEF MatchStep
        <3>3. CASE i <= Len(p) /\ p[i] # Star
            <4> DEFINE n == AfterByte(p, i, s[j])
            <4>1. CASE j <= Len(s) /\ n # 0
                <5>1. n \in D /\ n > i
                    BY <3>3, <4>1, AfterByteBehind
                <5>2. f[n] = g[n]
                    BY <2>0, <5>1
                <5> QED BY <3>3, <5>2 DEF MatchStep
            <4>2. CASE ~ (j <= Len(s)) \/ n = 0
                BY <3>3, <4>2 DEF MatchStep
            <4> QED BY <4>1, <4>2
        <3> QED BY <3>1, <3>2, <3>3
    <2> QED BY <2>1
<1>6. Founded(D, V, rank, Step)
    <2> HIDE DEF D, V, rank, Step
    <2> QED BY <1>5 DEF Founded
<1>7. \E match \in [D -> V] : \A i \in D : match[i] = Step[<<i, match>>]
    <2> DEFINE v == [j \in J |-> FALSE]
               bound == Len(p) + 1
    <2> HIDE DEF D, V, rank, Step
    <2>1. Recursive(D, V, v, bound, rank, Step)
        BY <1>0, <1>1, <1>2, <1>4, <1>6 DEF Recursive
    <2> HIDE DEF v, bound
    <2> QED BY <2>1, Recursion
<1> QED BY <1>7

(* match_pattern goes on as MatchStep says. *)
LEMMA MatchReads ==
    ASSUME NEW p \in Seq(Nat), NEW s \in Seq(Nat),
           NEW i \in 1 .. Len(p) + 1, NEW j \in 1 .. Len(s) + 1
    PROVE  /\ Matcher(p, s)[i][j] = MatchStep(p, s, Matcher(p, s), i, j)
           /\ Matcher(p, s)[i][j] \in BOOLEAN
<1> DEFINE D == 1 .. Len(p) + 1
           J == 1 .. Len(s) + 1
           At(match) == [k \in D |-> [l \in J |-> MatchStep(p, s, match, k, l)]]
           Typed(match) == match \in [D -> [J -> BOOLEAN]]
           matcher == Matcher(p, s)
<1>1. matcher = CHOOSE match : match = At(match)
    BY DEF Matcher, MatchStep
<1>2. \E match : match = At(match)
    <2>1. PICK match \in [D -> [J -> BOOLEAN]] :
              \A k \in D : match[k] = [l \in J |-> MatchStep(p, s, match, k, l)]
        BY MatchFunction
    <2>2. match = [k \in D |-> match[k]]
        OBVIOUS
    <2>3. match = At(match)
        <3> HIDE DEF D
        <3> QED BY <2>1, <2>2
    <2> QED BY <2>3
<1>3. matcher = At(matcher)
    <2> HIDE DEF At, matcher
    <2> QED BY <1>1, <1>2
<1>4. At(matcher)[i][j] = MatchStep(p, s, matcher, i, j)
    <2> HIDE DEF matcher
    <2> QED OBVIOUS
<1>5. MatchStep(p, s, matcher, i, j) \in BOOLEAN
    <2> HIDE DEF matcher
    <2> QED BY DEF MatchStep
<1> HIDE DEF At
<1> QED BY <1>3, <1>4, <1>5

(* A star matches what the rest of the pattern matches from here on. *)
LEMMA StarMatches ==
    ASSUME NEW p \in Seq(Nat), NEW s \in Seq(Nat),
           NEW i \in 1 .. Len(p), p[i] = Star, NEW j \in 1 .. Len(s) + 1
    PROVE  Matcher(p, s)[i][j] <=>
               \E k \in j .. Len(s) + 1 : Matcher(p, s)[i + 1][k]
<1> DEFINE match == Matcher(p, s)
           e == StarsEnd(p, i)
           J == 1 .. Len(s) + 1
<1>1. /\ e \in i + 1 .. Len(p) + 1
      /\ \A l \in i .. e - 1 : p[l] = Star
      /\ e > Len(p) \/ p[e] # Star
    BY StarsEndIs, StarsEndBehind
<1>2. \A k \in j .. Len(s) + 1 : k \in J
    OBVIOUS
<1>3. match[i][j] <=> \E k \in j .. Len(s) + 1 : match[e][k]
    <2>1. match[i][j] = MatchStep(p, s, match, i, j)
        <3>1. i \in 1 .. Len(p) + 1
            OBVIOUS
        <3> QED BY <3>1, MatchReads
    <2>2. i <= Len(p) /\ ~ (i > Len(p))
        OBVIOUS
    <2> HIDE DEF match
    <2> QED BY <2>1, <2>2 DEF MatchStep
<1>4. CASE e = i + 1
    BY <1>3, <1>4
<1>5. CASE e # i + 1
    <2>1. i + 1 \in 1 .. Len(p) /\ p[i + 1] = Star
        <3> HIDE DEF e
        <3> QED BY <1>1, <1>5
    <2>2. StarsEnd(p, i + 1) = e
        <3>1. e \in i + 1 .. Len(p) + 1
            BY <1>1
        <3>2. \A l \in i + 1 .. e - 1 : p[l] = Star
            <4> HIDE DEF e
            <4> QED BY <1>1
        <3> HIDE DEF e
        <3> QED BY <1>1, <2>1, <3>1, <3>2, StarsEndOnce
    <2>3. \A k \in J : match[i + 1][k] <=>
                           \E l \in k .. Len(s) + 1 : match[e][l]
        <3> SUFFICES ASSUME NEW k \in J
                     PROVE  match[i + 1][k] <=>
                                \E l \in k .. Len(s) + 1 : match[e][l]
            OBVIOUS
        <3>1. match[i + 1][k] = MatchStep(p, s, match, i + 1, k)
            BY <2>1, MatchReads, SMTT(60)
        <3> HIDE DEF match, e
        <3> QED BY <2>1, <2>2, <3>1 DEF MatchStep
    <2> HIDE DEF match, e
    <2>4. ASSUME NEW k \in j .. Len(s) + 1, match[e][k]
          PROVE  match[i + 1][k]
        <3>1. k \in J /\ k \in k .. Len(s) + 1
            BY <1>2
        <3> QED BY <2>3, <2>4, <3>1
    <2>5. ASSUME NEW k \in j .. Len(s) + 1, match[i + 1][k]
          PROVE  \E l \in j .. Len(s) + 1 : match[e][l]
        <3>1. PICK l \in k .. Len(s) + 1 : match[e][l]
            BY <1>2, <2>3, <2>5
        <3>2. l \in j .. Len(s) + 1
            OBVIOUS
        <3> QED BY <3>1, <3>2
    <2>6. match[i][j] <=> \E k \in j .. Len(s) + 1 : match[i + 1][k]
        BY <1>3, <2>4, <2>5
    <2> QED BY <2>6 DEF match
<1> QED BY <1>4, <1>5

------------------------------------------------------------------------------
(* The sequence of all elements of sequences *)

LEMMA FlattenFunction ==
    ASSUME NEW T, NEW seqs \in Seq(Seq(T)), Len(seqs) # 0
    PROVE  \E flat \in [1 .. Len(seqs) -> Seq(T)] :
               /\ flat = [i \in 1 .. Len(seqs) |->
                             IF i = 1 THEN seqs[i] ELSE flat[i - 1] \o seqs[i]]
               /\ FlattenSeq(seqs) = flat[Len(seqs)]
<1> DEFINE D == 1 .. Len(seqs)
           V == Seq(T)
           rank == [i \in D |-> i]
           At(i, f) == IF i = 1 THEN seqs[i] ELSE f[i - 1] \o seqs[i]
           Step == [df \in D \X [D -> V] |-> At(df[1], df[2])]
           Flat(f) == f = [i \in D |->
                              IF i = 1 THEN seqs[i] ELSE f[i - 1] \o seqs[i]]
<1>1. Len(seqs) \in Nat /\ \A i \in D : seqs[i] \in V
    OBVIOUS
<1>2. ASSUME NEW i \in D, NEW f \in [D -> V]
      PROVE  At(i, f) \in V
    <2>1. CASE i = 1
        BY <1>1, <2>1
    <2>2. CASE i # 1
        <3>1. i - 1 \in D
            BY <2>2
        <3>2. f[i - 1] \in V /\ seqs[i] \in V
            BY <1>1, <3>1
        <3> QED BY <2>2, <3>2
    <2> QED BY <2>1, <2>2
<1>3. Step \in [D \X [D -> V] -> V]
    <2> HIDE DEF D, V, At
    <2> QED BY <1>2
<1>4. ASSUME NEW i \in D, NEW f \in [D -> V], NEW g \in [D -> V],
             \A e \in D : rank[e] < rank[i] => f[e] = g[e]
      PROVE  Step[<<i, f>>] = Step[<<i, g>>]
    <2>1. CASE i = 1
        BY <2>1
    <2>2. CASE i # 1
        <3>1. i - 1 \in D /\ rank[i - 1] < rank[i]
            BY <2>2
        <3>2. f[i - 1] = g[i - 1]
            BY <1>4, <3>1
        <3> QED BY <3>2
    <2> QED BY <2>1, <2>2
<1>5. \E flat \in [D -> V] : \A i \in D : flat[i] = Step[<<i, flat>>]
    <2> DEFINE v == <<>>
               bound == Len(seqs)
    <2>1. v \in V /\ rank \in [D -> 0 .. bound] /\ bound \in Nat
        OBVIOUS
    <2> HIDE DEF D, V, rank, Step, v, bound
    <2>2. Founded(D, V, rank, Step)
        BY <1>4 DEF Founded
    <2>3. Recursive(D, V, v, bound, rank, Step)
        BY <1>3, <2>1, <2>2 DEF Recursive
    <2> QED BY <2>3, Recursion
<1>6. PICK flat \in [D -> V] : \A i \in D : flat[i] = Step[<<i, flat>>]
    BY <1>5
<1>7. Flat(flat)
    <2>1. flat = [i \in D |-> flat[i]]
        OBVIOUS
    <2>2. \A i \in D : flat[i] = At(i, flat)
        <3> HIDE DEF D, V, At
        <3> QED BY <1>6
    <2> HIDE DEF D
    <2> QED BY <2>1, <2>2
<1>8. ASSUME NEW f, Flat(f) PROVE f \in [D -> V] /\ f = flat
    <2> DEFINE S == {n \in Nat : \A i \in D : i <= n => f[i] = flat[i]}
    <2>1. 0 \in S
        OBVIOUS
    <2>2. ASSUME NEW n \in Nat, n \in S PROVE n + 1 \in S
        <3> SUFFICES ASSUME NEW i \in D, i <= n + 1 PROVE f[i] = flat[i]
            OBVIOUS
        <3>1. \A k \in D : k <= n => f[k] = flat[k]
            BY <2>2
        <3>2. f[i] = At(i, f) /\ flat[i] = At(i, flat)
            <4> HIDE DEF D
            <4> QED BY <1>7, <1>8
        <3>3. CASE i = 1
            BY <3>2, <3>3
        <3>4. CASE i # 1
            <4>1. i - 1 \in D /\ i - 1 <= n
                BY <3>4
            <4>2. f[i - 1] = flat[i - 1]
                BY <3>1, <4>1
            <4> QED BY <3>2, <4>2
        <3> QED BY <3>3, <3>4
    <2>3. Len(seqs) \in S
        <3> HIDE DEF S
        <3> QED BY <1>1, <2>1, <2>2, SetInduction
    <2>4. \A i \in D : f[i] = flat[i]
        BY <2>3
    <2>5. f = [i \in D |-> f[i]] /\ flat = [i \in D |-> flat[i]]
        <3> HIDE DEF D
        <3> QED BY <1>8
    <2> HIDE DEF D, V, S
    <2> QED BY <2>4, <2>5
<1>9. FlattenSeq(seqs) = (CHOOSE f : Flat(f))[Len(seqs)]
    BY DEF FlattenSeq
<1>10. (CHOOSE f : Flat(f)) = flat
    <2> HIDE DEF Flat
    <2> QED BY <1>7, <1>8
<1> QED BY <1>7, <1>9, <1>10

(* The elements of the k-th sequence stand in their order from place[k] on, *)
(* behind those of the sequences before it.                                 *)
Placed(seqs, flat, place) ==
    /\ place[1] = 1 /\ place[Len(seqs) + 1] = Len(flat) + 1
    /\ \A k \in 1 .. Len(seqs) :
           /\ place[k + 1] = place[k] + Len(seqs[k])
           /\ place[k + 1] <= Len(flat) + 1
           /\ \A l \in 1 .. Len(seqs[k]) : flat[place[k] + l - 1] = seqs[k][l]

LEMMA FlattenPlaces ==
    ASSUME NEW T, NEW seqs \in Seq(Seq(T))
    PROVE  /\ FlattenSeq(seqs) \in Seq(T)
           /\ \E place \in [1 .. Len(seqs) + 1 -> Nat \ {0}] :
                  Placed(seqs, FlattenSeq(seqs), place)
<1>1. CASE Len(seqs) = 0
    <2>1. seqs = <<>>
        BY <1>1
    <2>2. FlattenSeq(seqs) = seqs
        BY <1>1 DEF FlattenSeq
    <2> DEFINE place == [k \in 1 .. Len(seqs) + 1 |-> 1]
    <2>3. Placed(seqs, seqs, place)
        BY <1>1 DEF Placed
    <2>4. place \in [1 .. Len(seqs) + 1 -> Nat \ {0}]
        OBVIOUS
    <2>5. Placed(seqs, FlattenSeq(seqs), place) /\ FlattenSeq(seqs) \in Seq(T)
        <3>1. seqs \in Seq(T)
            BY <2>1
        <3> HIDE DEF place
        <3> QED BY <2>2, <2>3, <3>1
    <2> HIDE DEF place
    <2> QED BY <2>4, <2>5
<1>2. CASE Len(seqs) # 0
    <2> DEFINE n == Len(seqs)
               D == 1 .. n
    <2>1. PICK flat \in [D -> Seq(T)] :
              /\ flat = [i \in D |-> IF i = 1 THEN seqs[i]
                                     ELSE flat[i - 1] \o seqs[i]]
              /\ FlattenSeq(seqs) = flat[n]
        BY <1>2, FlattenFunction
    <2>2. n \in Nat /\ n \in D /\ \A i \in D : seqs[i] \in Seq(T)
        BY <1>2
    <2>3. flat[1] = seqs[1]
        BY <2>1, <2>2
    <2>4. ASSUME NEW h \in D, NEW i \in D, i = h + 1
          PROVE  /\ flat[h] \in Seq(T) /\ flat[i] \in Seq(T)
                 /\ Len(flat[i]) = Len(flat[h]) + Len(seqs[i])
                 /\ \A l \in 1 .. Len(flat[h]) : flat[i][l] = flat[h][l]
                 /\ \A l \in 1 .. Len(seqs[i]) :
                        flat[i][Len(flat[h]) + l] = seqs[i][l]
        <3>1. i # 1 /\ i - 1 = h
            BY <2>4
        <3>2. flat[i] = flat[h] \o seqs[i]
            BY <2>1, <3>1
        <3>3. flat[h] \in Seq(T) /\ flat[i] \in Seq(T) /\ seqs[i] \in Seq(T)
            BY <2>2
        <3> HIDE DEF D, n
        <3> QED BY <3>2, <3>3
    <2> DEFINE Extends(k, m) ==
                   /\ Len(flat[k]) <= Len(flat[m])
                   /\ \A l \in 1 .. Len(flat[k]) : flat[m][l] = flat[k][l]
               S == {m \in Nat : m \in D => \A k \in 1 .. m : Extends(k, m)}
    <2>5. 0 \in S
        OBVIOUS
    <2>6. ASSUME NEW m \in Nat, m \in S PROVE m + 1 \in S
        <3> SUFFICES ASSUME m + 1 \in D, NEW k \in 1 .. m + 1
                     PROVE  Extends(k, m + 1)
            OBVIOUS
        <3>1. CASE k = m + 1
            BY <3>1
        <3>2. CASE k # m + 1
            <4>1. m \in D /\ k \in 1 .. m /\ k \in D /\ m + 1 # 1
                BY <3>2
            <4>2. Extends(k, m)
                <5> HIDE DEF Extends, D
                <5> QED BY <2>6, <4>1
            <4>3. Extends(m, m + 1)
                <5>1. seqs[m + 1] \in Seq(T) /\ Len(seqs[m + 1]) \in Nat
                    BY <2>2
                <5>2. /\ flat[m] \in Seq(T)
                      /\ Len(flat[m + 1]) = Len(flat[m]) + Len(seqs[m + 1])
                      /\ \A l \in 1 .. Len(flat[m]) :
                             flat[m + 1][l] = flat[m][l]
                    <6> HIDE DEF D, n
                    <6> QED BY <2>4, <4>1
                <5>3. Len(flat[m]) \in Nat
                    BY <5>2
                <5>4. Len(flat[m]) <= Len(flat[m + 1])
                    <6>1. \A x, y \in Nat : x <= x + y
                        OBVIOUS
                    <6> HIDE DEF D, n
                    <6> QED BY <5>1, <5>2, <5>3, <6>1
                <5> HIDE DEF D, n
                <5> QED BY <5>2, <5>4
            <4>4. /\ Len(flat[k]) \in Nat /\ Len(flat[m]) \in Nat
                  /\ Len(flat[m + 1]) \in Nat
                BY <4>1
            <4>5. 1 .. Len(flat[k]) \subseteq 1 .. Len(flat[m])
                BY <4>2, <4>4
            <4> HIDE DEF D, n
            <4> QED BY <4>2, <4>3, <4>4, <4>5
        <3> QED BY <3>1, <3>2
    <2>7. n \in S
        <3> HIDE DEF S, n
        <3> QED BY <2>2, <2>5, <2>6, SetInduction
    <2>8. \A k \in D : Extends(k, n)
        BY <2>2, <2>7
    <2> DEFINE place == [k \in 1 .. n + 1 |->
                            IF k = 1 THEN 1 ELSE Len(flat[k - 1]) + 1]
    <2>9. place \in [1 .. n + 1 -> Nat \ {0}]
        <3> SUFFICES ASSUME NEW k \in 1 .. n + 1 PROVE place[k] \in Nat \ {0}
            OBVIOUS
        <3>1. CASE k = 1
            BY <3>1
        <3>2. CASE k # 1
            <4>1. k - 1 \in D
                BY <3>2
            <4>2. Len(flat[k - 1]) \in Nat
                BY <4>1
            <4> QED BY <3>2, <4>2
        <3> QED BY <3>1, <3>2
    <2>10. place[1] = 1 /\ place[n + 1] = Len(flat[n]) + 1
        BY <1>2
    <2>11. ASSUME NEW k \in D
           PROVE  /\ place[k + 1] = place[k] + Len(seqs[k])
                  /\ place[k + 1] <= Len(flat[n]) + 1
                  /\ \A l \in 1 .. Len(seqs[k]) :
                         flat[n][place[k] + l - 1] = seqs[k][l]
        <3>1. place[k + 1] = Len(flat[k]) + 1
            BY <2>11
        <3>2. Len(flat[k]) \in Nat /\ Len(flat[n]) \in Nat
              /\ Len(seqs[k]) \in Nat
            BY <2>2
        <3>3. Extends(k, n)
            BY <2>8
        <3>4. CASE k = 1
            <4>1. place[k] = 1 /\ flat[k] = seqs[k]
                BY <2>3, <3>4
            <4> HIDE DEF place, n
            <4> QED BY <3>1, <3>2, <3>3, <4>1
        <3>5. CASE k # 1
            <4>0. k - 1 \in D /\ k = (k - 1) + 1
                BY <3>5
            <4>1. /\ flat[k - 1] \in Seq(T)
                  /\ Len(flat[k]) = Len(flat[k - 1]) + Len(seqs[k])
                  /\ \A l \in 1 .. Len(seqs[k]) :
                         flat[k][Len(flat[k - 1]) + l] = seqs[k][l]
                <5> HIDE DEF D
                <5> QED BY <2>4, <4>0
            <4>2. place[k] = Len(flat[k - 1]) + 1
                BY <3>5
            <4>3. Len(flat[k - 1]) \in Nat
                BY <4>1
            <4> DEFINE before == Len(flat[k - 1])
                       mine == Len(seqs[k])
                       upto == Len(flat[k])
            <4>4. /\ before \in Nat /\ mine \in Nat /\ upto \in Nat
                  /\ upto = before + mine
                BY <3>2, <4>1, <4>3
            <4>5. /\ upto <= Len(flat[n])
                  /\ \A l \in 1 .. upto : flat[n][l] = flat[k][l]
                BY <3>3
            <4>6. \A l \in 1 .. mine : flat[k][before + l] = seqs[k][l]
                BY <4>1
            <4>7. place[k] = before + 1 /\ place[k + 1] = upto + 1
                BY <3>1, <4>2
            <4> HIDE DEF place, n, before, mine, upto
            <4>8. ASSUME NEW l \in 1 .. mine
                  PROVE  flat[n][place[k] + l - 1] = seqs[k][l]
                <5>1. place[k] + l - 1 = before + l
                    BY <4>4, <4>7
                <5>2. before + l \in 1 .. upto
                    BY <4>4
                <5> QED BY <4>5, <4>6, <5>1, <5>2
            <4>9. place[k + 1] = place[k] + mine
                BY <4>4, <4>7
            <4>10. place[k + 1] <= Len(flat[n]) + 1
                BY <3>2, <4>4, <4>5, <4>7
            <4> QED BY <4>8, <4>9, <4>10 DEF mine
        <3> QED BY <3>4, <3>5
    <2>12. Placed(seqs, flat[n], place)
        <3> HIDE DEF place
        <3> QED BY <2>10, <2>11 DEF Placed
    <2>13. /\ FlattenSeq(seqs) \in Seq(T)
           /\ Placed(seqs, FlattenSeq(seqs), place)
        <3> HIDE DEF place
        <3> QED BY <2>1, <2>2, <2>12, ZenonT(60)
    <2> HIDE DEF place
    <2> QED BY <2>9, <2>13
<1> QED BY <1>1, <1>2

------------------------------------------------------------------------------
(* The elements of a pattern *)

LEMMA Spelling ==
    /\ Written(AnyBytes) = <<Star>>
    /\ Written(AnyByte) = <<Question>>
    /\ \A c : Written(Byte(c)) = <<c>>
    /\ \A kind \in ClassKinds : \A members :
           Written(<<kind, members>>) =
               Bracket(kind) \o (Text(members) \o <<Close>>)
    /\ \A bytes : Written(Unclosed(bytes)) = <<Open>> \o bytes
BY DEF Written, AnyBytes, AnyByte, Byte, Unclosed, ClassKinds

LEMMA Standing ==
    ASSUME NEW piece
    PROVE  /\ StandsFor(AnyBytes, piece)
           /\ StandsFor(AnyByte, piece) <=> Len(piece) = 1
           /\ \A c : StandsFor(Byte(c), piece) <=> piece = <<c>>
           /\ \A kind \in ClassKinds : \A members :
                  StandsFor(<<kind, members>>, piece) <=>
                      /\ Len(piece) = 1
                      /\ HasByte(members, piece[1]) <=> kind = "["
           /\ \A bytes : ~ StandsFor(Unclosed(bytes), piece)
BY DEF StandsFor, AnyBytes, AnyByte, Byte, Unclosed, ClassKinds

(* The pattern has sequence w from at on. *)
Has(p, at, w) ==
    /\ at \in Nat \ {0} /\ at + Len(w) <= Len(p) + 1
    /\ \A l \in 1 .. Len(w) : p[at + l - 1] = w[l]

LEMMA HasPlace ==
    ASSUME NEW p, NEW at, NEW w, Has(p, at, w), NEW l \in 1 .. Len(w)
    PROVE  p[at + l - 1] = w[l]
BY DEF Has

(* It has both parts of a sequence, one behind the other. *)
LEMMA HasBoth ==
    ASSUME NEW p \in Seq(Nat), NEW at,
           NEW v \in Seq(Nat), NEW w \in Seq(Nat),
           Has(p, at, v \o w)
    PROVE  Has(p, at, v) /\ Has(p, at + Len(v), w)
<1> DEFINE vw == v \o w
<1>1. /\ Len(v) \in Nat /\ Len(w) \in Nat /\ Len(vw) = Len(v) + Len(w)
      /\ \A l \in 1 .. Len(v) : vw[l] = v[l]
      /\ \A l \in 1 .. Len(w) : vw[Len(v) + l] = w[l]
    OBVIOUS
<1>2. /\ at \in Nat \ {0} /\ at + Len(vw) <= Len(p) + 1
      /\ \A l \in 1 .. Len(vw) : p[at + l - 1] = vw[l]
    <2> HIDE DEF vw
    <2>1. Has(p, at, vw)
        BY DEF vw
    <2> QED BY <2>1 DEF Has
<1>3. Len(p) \in Nat
    OBVIOUS
<1> HIDE DEF vw
<1>4. ASSUME NEW l \in 1 .. Len(v) PROVE p[at + l - 1] = v[l]
    <2>1. l \in 1 .. Len(vw)
        BY <1>1
    <2> QED BY <1>1, <1>2, <2>1
<1>5. ASSUME NEW l \in 1 .. Len(w) PROVE p[at + Len(v) + l - 1] = w[l]
    <2>1. Len(v) + l \in 1 .. Len(vw)
        BY <1>1
    <2>2. at + (Len(v) + l) - 1 = at + Len(v) + l - 1
        BY <1>1, <1>2
    <2> QED BY <1>1, <1>2, <2>1, <2>2
<1>6. Has(p, at, v)
    BY <1>1, <1>2, <1>3, <1>4 DEF Has
<1>7. at + Len(v) \in Nat \ {0} /\ (at + Len(v)) + Len(w) <= Len(p) + 1
    BY <1>1, <1>2, <1>3
<1>8. Has(p, at + Len(v), w)
    BY <1>5, <1>7 DEF Has
<1> QED BY <1>6, <1>8

Writable(element) ==
    \/ element \in {AnyBytes, AnyByte}
    \/ \E c \in Codes \ {Star, Question, Open} : element = Byte(c)
    \/ \E kind \in ClassKinds, members \in Seq(Members) :
           element = <<kind, members>> /\ IsClass(kind, members)
    \/ \E bytes \in Seq(Codes) : element = Unclosed(bytes) /\ StaysOpen(bytes)

LEMMA ElementsWritable ==
    ASSUME NEW e \in Elements
    PROVE  Writable(e)
<1>0. \A A, B : \A x \in A \X B : x[1] \in A /\ x[2] \in B /\ x = <<x[1], x[2]>>
    OBVIOUS
<1>1. CASE e \in {AnyBytes, AnyByte}
    BY <1>1 DEF Writable
<1>2. CASE e \in {"byte"} \X (Codes \ {Star, Question, Open})
    <2>1. e[2] \in Codes \ {Star, Question, Open} /\ e = Byte(e[2])
        BY <1>2 DEF Byte
    <2> QED BY <2>1 DEF Writable
<1>3. CASE e \in ClassKinds \X Seq(Members) /\ IsClass(e[1], e[2])
    <2>1. e[1] \in ClassKinds /\ e[2] \in Seq(Members) /\ e = <<e[1], e[2]>>
        BY <1>0, <1>3, Zenon
    <2> QED BY <1>3, <2>1, Zenon DEF Writable
<1>4. CASE e \in {"unclosed"} \X Seq(Codes) /\ StaysOpen(e[2])
    <2>1. e[1] \in {"unclosed"} /\ e[2] \in Seq(Codes) /\ e = <<e[1], e[2]>>
        BY <1>0, <1>4, Zenon
    <2>2. e = Unclosed(e[2])
        BY <2>1, Zenon DEF Unclosed
    <2> QED BY <1>4, <2>1, <2>2, Zenon DEF Writable
<1> QED BY <1>1, <1>2, <1>3, <1>4 DEF Elements

(* A member of a class is one byte or two, and written in one or three. *)
LEMMA MemberBytes ==
    ASSUME NEW m \in Members
    PROVE  /\ m \in Seq(Codes) /\ m[1] \in Codes
           /\ Spelt(m) \in Seq(Codes) /\ Spelt(m)[1] = m[1]
           /\ \/ Len(m) = 1 /\ Len(Spelt(m)) = 1
              \/ /\ Len(m) = 2 /\ Len(Spelt(m)) = 3 /\ m[2] \in Codes
                 /\ Spelt(m)[2] = Dash /\ Spelt(m)[3] = m[2]
<1>1. m \in Seq(Codes) /\ Len(m) \in 1 .. 2 /\ m[1] \in Codes
    BY DEF Members
<1>2. Dash \in Codes
    BY DEF Dash, Codes
<1>3. CASE Len(m) = 1
    BY <1>1, <1>3 DEF Spelt
<1>4. CASE Len(m) = 2
    <2>1. m[2] \in Codes
        BY <1>1, <1>4
    <2> DEFINE w == <<m[1], Dash, m[2]>>
    <2>2. /\ w \in Seq(Codes) /\ Len(w) = 3
          /\ w[1] = m[1] /\ w[2] = Dash /\ w[3] = m[2]
        BY <1>1, <1>2, <2>1
    <2>3. Spelt(m) = w
        BY <1>4 DEF Spelt
    <2> HIDE DEF w
    <2> QED BY <1>1, <1>4, <2>1, <2>2, <2>3
<1> QED BY <1>1, <1>3, <1>4

(* The members are written one behind the other. *)
LEMMA TextPlaces ==
    ASSUME NEW members \in Seq(Members)
    PROVE  /\ Text(members) \in Seq(Codes)
           /\ \E place \in [1 .. Len(members) + 1 -> Nat \ {0}] :
                  /\ place[1] = 1
                  /\ place[Len(members) + 1] = Len(Text(members)) + 1
                  /\ \A k \in 1 .. Len(members) :
                         /\ place[k + 1] = place[k] + Len(Spelt(members[k]))
                         /\ place[k + 1] <= Len(Text(members)) + 1
                         /\ \A l \in 1 .. Len(Spelt(members[k])) :
                                Text(members)[place[k] + l - 1] =
                                    Spelt(members[k])[l]
<1> DEFINE n == Len(members)
           seqs == [i \in DOMAIN members |-> Spelt(members[i])]
           text == Text(members)
<1>1. n \in Nat /\ DOMAIN members = 1 .. n
    OBVIOUS
<1>2. \A k \in 1 .. n : Spelt(members[k]) \in Seq(Codes)
    <2>1. \A k \in 1 .. n : members[k] \in Members
        OBVIOUS
    <2> HIDE DEF n
    <2> QED BY <2>1, MemberBytes
<1>3. /\ seqs \in Seq(Seq(Codes)) /\ Len(seqs) = n
      /\ \A k \in 1 .. n : seqs[k] = Spelt(members[k])
    BY <1>1, <1>2
<1>4. text = FlattenSeq(seqs)
    BY DEF Text
<1> HIDE DEF seqs, text
<1>5. text \in Seq(Codes)
    BY <1>3, <1>4, FlattenPlaces
<1>6. PICK place \in [1 .. n + 1 -> Nat \ {0}] : Placed(seqs, text, place)
    BY <1>3, <1>4, FlattenPlaces
<1>7. /\ place[1] = 1 /\ place[n + 1] = Len(text) + 1
      /\ \A k \in 1 .. n :
             /\ place[k + 1] = place[k] + Len(seqs[k])
             /\ place[k + 1] <= Len(text) + 1
             /\ \A l \in 1 .. Len(seqs[k]) :
                    text[place[k] + l - 1] = seqs[k][l]
    BY <1>3, <1>6 DEF Placed
<1>8. \A k \in 1 .. n :
          /\ place[k + 1] = place[k] + Len(Spelt(members[k]))
          /\ place[k + 1] <= Len(text) + 1
          /\ \A l \in 1 .. Len(Spelt(members[k])) :
                 text[place[k] + l - 1] = Spelt(members[k])[l]
    <2> HIDE DEF n
    <2> QED BY <1>3, <1>7
<1> QED BY <1>5, <1>7, <1>8 DEF text

LEMMA WrittenBytes ==
    ASSUME NEW e, Writable(e)
    PROVE  Written(e) \in Seq(Codes) /\ Len(Written(e)) >= 1
<1>0. /\ Star \in Codes /\ Question \in Codes /\ Open \in Codes
      /\ Close \in Codes /\ Dash \in Codes /\ Bang \in Codes
      /\ Caret \in Codes
    BY DEF Codes, Star, Question, Open, Close, Dash, Bang, Caret
<1>1. CASE e = AnyBytes
    <2>1. Written(e) = <<Star>>
        BY <1>1, Spelling
    <2> QED BY <1>0, <2>1
<1>2. CASE e = AnyByte
    <2>1. Written(e) = <<Question>>
        BY <1>2, Spelling
    <2> QED BY <1>0, <2>1
<1>3. ASSUME NEW c \in Codes, e = Byte(c)
      PROVE  Written(e) \in Seq(Codes) /\ Len(Written(e)) >= 1
    <2>1. Written(e) = <<c>>
        BY <1>3, Spelling, Zenon
    <2> QED BY <2>1
<1>4. ASSUME NEW kind \in ClassKinds, NEW members \in Seq(Members),
             e = <<kind, members>>
      PROVE  Written(e) \in Seq(Codes) /\ Len(Written(e)) >= 1
    <2> DEFINE text == Text(members)
    <2>1. Written(e) = Bracket(kind) \o (text \o <<Close>>)
        BY <1>4, Spelling, Zenon
    <2>2. Bracket(kind) \in Seq(Codes) /\ <<Close>> \in Seq(Codes)
        BY <1>0 DEF Bracket, ClassKinds
    <2>3. text \in Seq(Codes)
        BY TextPlaces
    <2> HIDE DEF text
    <2> QED BY <2>1, <2>2, <2>3
<1>5. ASSUME NEW bytes \in Seq(Codes), e = Unclosed(bytes)
      PROVE  Written(e) \in Seq(Codes) /\ Len(Written(e)) >= 1
    <2>1. Written(e) = <<Open>> \o bytes
        BY <1>5, Spelling, Zenon
    <2> QED BY <1>0, <2>1
<1> QED BY <1>1, <1>2, <1>3, <1>4, <1>5 DEF Writable

LEMMA BytesAreNumbers ==
    ASSUME NEW s \in Seq(Codes)
    PROVE  s \in Seq(Nat)
<1>1. \A i \in 1 .. Len(s) : s[i] \in Nat
    <2>1. \A i \in 1 .. Len(s) : s[i] \in Codes
        OBVIOUS
    <2>2. Codes \subseteq Nat
        BY DEF Codes
    <2> QED BY <2>1, <2>2
<1>2. s = [i \in 1 .. Len(s) |-> s[i]] /\ Len(s) \in Nat
    OBVIOUS
<1> DEFINE n == Len(s)
           t == [i \in 1 .. n |-> s[i]]
<1>3. t \in Seq(Nat)
    <2> HIDE DEF n
    <2> QED BY <1>1, <1>2 DEF n
<1> HIDE DEF t
<1> QED BY <1>2, <1>3 DEF t

LEMMA WrittenType ==
    ASSUME NEW e, Writable(e)
    PROVE  Written(e) \in Seq(Nat) /\ Len(Written(e)) >= 1
<1> DEFINE w == Written(e)
<1>1. w \in Seq(Codes) /\ Len(w) >= 1
    BY WrittenBytes
<1> HIDE DEF w
<1>2. w \in Seq(Nat)
    BY <1>1, BytesAreNumbers
<1> QED BY <1>1, <1>2 DEF w

(* A pattern is a sequence of bytes, and empty only without elements. *)
LEMMA PatternType ==
    ASSUME NEW elements \in Patterns
    PROVE  /\ Pattern(elements) \in Seq(Codes)
           /\ Pattern(elements) = <<>> <=> elements = <<>>
<1> DEFINE n == Len(elements)
           seqs == [i \in DOMAIN elements |-> Written(elements[i])]
           p == Pattern(elements)
<1>. elements \in Seq(Elements)
    BY DEF Patterns
<1>0. n \in Nat /\ DOMAIN elements = 1 .. n
    OBVIOUS
<1>1. ASSUME NEW k \in 1 .. n
      PROVE  Written(elements[k]) \in Seq(Codes) /\ Len(Written(elements[k])) >= 1
    <2>1. Writable(elements[k])
        <3>1. elements[k] \in Elements
            OBVIOUS
        <3> QED BY <3>1, ElementsWritable
    <2> QED BY <2>1, WrittenBytes
<1>2. /\ seqs \in Seq(Seq(Codes)) /\ Len(seqs) = n
      /\ \A k \in 1 .. n : seqs[k] = Written(elements[k])
    <2>1. \A i \in DOMAIN elements : Written(elements[i]) \in Seq(Codes)
        BY <1>0, <1>1
    <2> QED BY <1>0, <2>1
<1>3. p = FlattenSeq(seqs)
    BY DEF Pattern
<1> HIDE DEF seqs, p
<1>4. p \in Seq(Codes)
    BY <1>2, <1>3, FlattenPlaces
<1>5. PICK place \in [1 .. n + 1 -> Nat \ {0}] : Placed(seqs, p, place)
    BY <1>2, <1>3, FlattenPlaces
<1>6. CASE n = 0
    <2>1. seqs = <<>> /\ elements = <<>>
        BY <1>2, <1>6
    <2>2. FlattenSeq(seqs) = seqs
        BY <2>1 DEF FlattenSeq
    <2> QED BY <1>3, <1>4, <2>1, <2>2 DEF p
<1>7. CASE n # 0
    <2>1. n \in 1 .. n
        BY <1>0, <1>7
    <2>2. /\ place[n + 1] = place[n] + Len(seqs[n])
          /\ place[n + 1] <= Len(p) + 1
        BY <1>2, <1>5, <2>1 DEF Placed
    <2>3. Len(seqs[n]) >= 1 /\ Len(seqs[n]) \in Nat
        <3>1. seqs[n] = Written(elements[n])
            BY <1>2, <2>1
        <3>2. Written(elements[n]) \in Seq(Codes) /\ Len(Written(elements[n])) >= 1
            BY <1>1, <2>1
        <3> HIDE DEF n
        <3> QED BY <3>1, <3>2
    <2>4. place[n] \in Nat \ {0} /\ Len(p) \in Nat
        <3> HIDE DEF n
        <3> QED BY <1>0, <1>4, <1>5, <2>1
    <2>5. Len(p) >= 1
        BY <2>2, <2>3, <2>4
    <2>6. p # <<>> /\ elements # <<>>
        BY <1>7, <2>5
    <2> QED BY <1>4, <2>6 DEF p
<1> QED BY <1>6, <1>7

(* Where a class and its complement begin. *)
LEMMA ClassBegins ==
    ASSUME NEW p \in Seq(Nat), NEW at \in 1 .. Len(p), NEW c \in Nat,
           at + 1 <= Len(p), p[at + 1] \notin {Bang, Caret}
    PROVE  ClassRest(p, at, c) = ClassReader(p, at + 1, FALSE, c)[at + 1][FALSE]
<1> DEFINE negate == at < Len(p) /\ p[at + 1] \in {Bang, Caret}
           first == IF negate THEN at + 2 ELSE at + 1
<1>1. ClassRest(p, at, c) =
          IF first > Len(p) THEN 0
          ELSE ClassReader(p, first, negate, c)[first][FALSE]
    BY DEF ClassRest
<1>2. negate = FALSE
    OBVIOUS
<1>3. first = at + 1
    BY <1>2
<1>4. ~ (at + 1 > Len(p))
    OBVIOUS
<1> HIDE DEF negate, first
<1> QED BY <1>1, <1>2, <1>3, <1>4

LEMMA ComplementBegins ==
    ASSUME NEW p \in Seq(Nat), NEW at \in 1 .. Len(p), NEW c \in Nat,
           at + 2 <= Len(p), p[at + 1] \in {Bang, Caret}
    PROVE  ClassRest(p, at, c) = ClassReader(p, at + 2, TRUE, c)[at + 2][FALSE]
<1> DEFINE negate == at < Len(p) /\ p[at + 1] \in {Bang, Caret}
           first == IF negate THEN at + 2 ELSE at + 1
<1>1. ClassRest(p, at, c) =
          IF first > Len(p) THEN 0
          ELSE ClassReader(p, first, negate, c)[first][FALSE]
    BY DEF ClassRest
<1>2. negate = TRUE
    OBVIOUS
<1>3. first = at + 2
    BY <1>2
<1>4. ~ (at + 2 > Len(p))
    OBVIOUS
<1> HIDE DEF negate, first
<1> QED BY <1>1, <1>2, <1>3, <1>4

LEMMA CodesAreNumbers ==
    \A c \in Codes : c \in Nat
BY DEF Codes

(* A part of w bytes that begins at the x-th of t bytes, which begin at f. *)
LEMMA Shifted ==
    ASSUME NEW f \in Nat \ {0}, NEW t \in Nat, NEW e \in Nat, f + t <= e,
           NEW x \in Nat \ {0}, NEW w \in {1, 3}, x + w <= t + 1
    PROVE  /\ f + x - 1 \in f .. e
           /\ f + (x + w) - 1 \in f + 1 .. f + t
           /\ \A l \in 1 .. w : x + l - 1 \in 1 .. t
OBVIOUS

(* Between its first byte and its end, a class says of a byte whether one of *)
(* its members has it: come to the k-th member, reading finds what it has    *)
(* found so far and what the members from there on have.                     *)
LEMMA MembersRead ==
    ASSUME NEW p \in Seq(Nat), NEW c \in Nat, NEW first,
           NEW negate \in BOOLEAN, NEW members \in Seq(Members),
           members # <<>>, Distinct(members),
           Has(p, first, Text(members) \o <<Close>>)
    PROVE  ClassReader(p, first, negate, c)[first][FALSE] =
               IF HasByte(members, c) # negate
               THEN first + Len(Text(members)) + 1 ELSE 0
<1> DEFINE n == Len(members)
           text == Text(members)
           reader == ClassReader(p, first, negate, c)
<1>0. n \in Nat \ {0} /\ DOMAIN members = 1 .. n
    OBVIOUS
<1>1. /\ text \in Seq(Nat) /\ <<Close>> \in Seq(Nat)
      /\ Len(text) \in Nat /\ Len(p) \in Nat
    <2>1. text \in Seq(Codes)
        BY TextPlaces
    <2>2. text \in Seq(Nat)
        <3> HIDE DEF text
        <3> QED BY <2>1, BytesAreNumbers
    <2> HIDE DEF text
    <2> QED BY <2>2 DEF Close
<1>2. PICK place \in [1 .. n + 1 -> Nat \ {0}] :
          /\ place[1] = 1 /\ place[n + 1] = Len(text) + 1
          /\ \A k \in 1 .. n :
                 /\ place[k + 1] = place[k] + Len(Spelt(members[k]))
                 /\ place[k + 1] <= Len(text) + 1
                 /\ \A l \in 1 .. Len(Spelt(members[k])) :
                        text[place[k] + l - 1] = Spelt(members[k])[l]
    BY TextPlaces
<1> HIDE DEF text
<1>3. /\ first \in Nat \ {0} /\ first + Len(text) <= Len(p)
      /\ \A l \in 1 .. Len(text) : p[first + l - 1] = text[l]
      /\ p[first + Len(text)] = Close
    <2>1. Has(p, first, text \o <<Close>>)
        BY DEF text
    <2>2. /\ Has(p, first, text)
          /\ first + Len(text) \in Nat \ {0}
          /\ Has(p, first + Len(text), <<Close>>)
        <3> DEFINE close == <<Close>>
        <3>1. close \in Seq(Nat) /\ Has(p, first, text \o close)
            BY <1>1, <2>1
        <3> HIDE DEF close
        <3>2. Has(p, first, text) /\ Has(p, first + Len(text), close)
            BY <1>1, <3>1, HasBoth
        <3>3. first + Len(text) \in Nat \ {0}
            BY <3>2 DEF Has
        <3> QED BY <3>2, <3>3 DEF close
    <2> DEFINE end == first + Len(text)
    <2>3. Len(<<Close>>) = 1 /\ <<Close>>[1] = Close /\ end + 1 - 1 = end
        BY <2>2
    <2>4. p[end] = Close /\ end + 1 <= Len(p) + 1
        <3> HIDE DEF end
        <3>1. Has(p, end, <<Close>>)
            BY <2>2 DEF end
        <3>2. p[end + 1 - 1] = <<Close>>[1]
            BY <2>3, <3>1 DEF Has
        <3> QED BY <2>3, <3>1, <3>2 DEF Has
    <2>5. first \in Nat \ {0}
        BY <2>2 DEF Has
    <2>6. \A l \in 1 .. Len(text) : p[first + l - 1] = text[l]
        BY <2>2 DEF Has
    <2> QED BY <1>1, <2>4, <2>5, <2>6, SMTT(60)
<1> DEFINE at == [k \in 1 .. n + 1 |-> first + place[k] - 1]
           end == first + Len(text)
           Added(k) == \E i \in k .. n : Covers(members[i], c)
           Reads(k) == \A matched \in BOOLEAN :
                           reader[at[k]][matched] =
                               IF (matched \/ Added(k)) # negate
                               THEN end + 1 ELSE 0
<1>4. ASSUME NEW k \in 1 .. n
      PROVE  /\ at[k] \in first .. Len(p) /\ at[k] \in Nat \ {0}
             /\ at[k + 1] = at[k] + Len(Spelt(members[k]))
             /\ at[k + 1] \in first + 1 .. end
             /\ \A l \in 1 .. Len(Spelt(members[k])) :
                    p[at[k] + l - 1] = Spelt(members[k])[l]
    <2> DEFINE w == Spelt(members[k])
    <2>1. Len(w) \in {1, 3}
        <3>1. members[k] \in Members
            OBVIOUS
        <3> QED BY <3>1, MemberBytes
    <2>2. k \in 1 .. n + 1 /\ k + 1 \in 1 .. n + 1
        BY <1>0
    <2>3. /\ place[k] \in Nat \ {0} /\ place[k + 1] \in Nat \ {0}
          /\ place[k + 1] = place[k] + Len(w)
          /\ place[k + 1] <= Len(text) + 1
          /\ \A l \in 1 .. Len(w) : text[place[k] + l - 1] = w[l]
        <3> HIDE DEF w, n
        <3> QED BY <1>2, <2>2 DEF w
    <2>4. at[k] = first + place[k] - 1 /\ at[k + 1] = first + place[k + 1] - 1
        BY <2>2
    <2> DEFINE x == place[k]
    <2>5. /\ x \in Nat \ {0} /\ Len(w) \in {1, 3} /\ x + Len(w) <= Len(text) + 1
          /\ place[k + 1] = x + Len(w)
        <3> HIDE DEF w
        <3> QED BY <2>1, <2>3
    <2> HIDE DEF w, at, x
    <2>6. /\ first + x - 1 \in first .. Len(p)
          /\ first + (x + Len(w)) - 1 \in first + 1 .. first + Len(text)
          /\ \A l \in 1 .. Len(w) : x + l - 1 \in 1 .. Len(text)
        <3> DEFINE t == Len(text)
                   e == Len(p)
                   v == Len(w)
        <3>1. /\ first \in Nat \ {0} /\ t \in Nat /\ e \in Nat /\ first + t <= e
              /\ x \in Nat \ {0} /\ v \in {1, 3} /\ x + v <= t + 1
            BY <1>1, <1>3, <2>5
        <3> HIDE DEF t, e, v
        <3>2. /\ first + x - 1 \in first .. e
              /\ first + (x + v) - 1 \in first + 1 .. first + t
              /\ \A l \in 1 .. v : x + l - 1 \in 1 .. t
            BY <3>1, Shifted
        <3> QED BY <3>2 DEF t, e, v
    <2>7. /\ at[k] = first + x - 1
          /\ at[k + 1] = first + (x + Len(w)) - 1
        BY <2>4, <2>5 DEF x
    <2>8. ASSUME NEW l \in 1 .. Len(w) PROVE p[at[k] + l - 1] = w[l]
        <3>1. /\ x + l - 1 \in 1 .. Len(text)
              /\ at[k] + l - 1 = first + (x + l - 1) - 1
            <4>1. l \in Int
                BY <2>5
            <4> QED BY <1>3, <2>5, <2>6, <2>7, <4>1
        <3>2. p[first + (x + l - 1) - 1] = text[x + l - 1]
            BY <1>3, <3>1
        <3>3. text[x + l - 1] = w[l]
            BY <2>3 DEF x
        <3> QED BY <3>1, <3>2, <3>3
    <2>9. at[k] \in Nat \ {0} /\ at[k + 1] = at[k] + Len(w)
        <3> DEFINE v == Len(w)
                   y == at[k]
                   z == at[k + 1]
        <3>1. /\ first \in Nat \ {0} /\ x \in Nat \ {0} /\ v \in Nat
              /\ y = first + x - 1 /\ z = first + (x + v) - 1
            BY <1>3, <2>5, <2>7
        <3> HIDE DEF v, y, z
        <3>2. y \in Nat \ {0} /\ z = y + v
            BY <3>1
        <3> QED BY <3>2 DEF v, y, z
    <2> QED BY <2>6, <2>7, <2>8, <2>9 DEF w
<1>5. at[1] = first /\ at[n + 1] = end /\ end # first
    <2>1. 1 \in 1 .. n + 1 /\ n + 1 \in 1 .. n + 1
        BY <1>0
    <2>2. at[1] = first /\ at[n + 1] = end
        <3>1. at[1] = first + 1 - 1 /\ at[n + 1] = first + (Len(text) + 1) - 1
            <4> HIDE DEF n
            <4> QED BY <1>2, <2>1
        <3>2. first + 1 - 1 = first /\ first + (Len(text) + 1) - 1 = end
            BY <1>1, <1>3
        <3> HIDE DEF at, end, n
        <3> QED BY <3>1, <3>2
    <2>3. n \in 1 .. n
        BY <1>0
    <2>4. end \in first + 1 .. end
        <3> HIDE DEF at, end
        <3> QED BY <1>4, <2>2, <2>3
    <2> QED BY <1>1, <1>3, <2>2, <2>4
<1>6. end \in first .. Len(p) /\ p[end] = Close /\ end \in Nat
    BY <1>1, <1>3
<1> HIDE DEF reader, end, at
<1>7. Reads(n + 1)
    <2> SUFFICES ASSUME NEW matched \in BOOLEAN
                 PROVE  reader[end][matched] =
                            IF (matched \/ Added(n + 1)) # negate
                            THEN end + 1 ELSE 0
        BY <1>5
    <2>1. ~ Added(n + 1)
        BY <1>0
    <2>2. reader[end][matched] =
              ClassStep(p, first, negate, c, reader, end, matched)
        <3>1. end \in first .. Len(p) + 1 /\ first \in Nat
            BY <1>1, <1>3, <1>6
        <3> QED BY <3>1, ClassReads DEF reader
    <2>3. ClassStep(p, first, negate, c, reader, end, matched) =
              IF matched # negate THEN end + 1 ELSE 0
        <3>1. ~ (end > Len(p)) /\ end # first
            BY <1>1, <1>3, <1>5, <1>6
        <3> QED BY <1>6, <3>1 DEF ClassStep
    <2>4. (matched \/ Added(n + 1)) = matched
        BY <2>1
    <2> HIDE DEF Added
    <2> QED BY <2>2, <2>3, <2>4
<1>8. ASSUME NEW k \in 1 .. n, Reads(k + 1) PROVE Reads(k)
    <2> DEFINE m == members[k]
               here == at[k]
               w == Spelt(m)
    <2>1. /\ here \in first .. Len(p) /\ here \in Nat \ {0}
          /\ at[k + 1] = here + Len(w) /\ at[k + 1] \in first + 1 .. end
          /\ \A l \in 1 .. Len(w) : p[here + l - 1] = w[l]
        BY <1>4
    <2>2. /\ m \in Seq(Codes) /\ m[1] \in Codes
          /\ w[1] = m[1]
          /\ \/ Len(m) = 1 /\ Len(w) = 1
             \/ /\ Len(m) = 2 /\ Len(w) = 3 /\ m[2] \in Codes
                /\ w[2] = Dash /\ w[3] = m[2]
        <3>1. m \in Members
            OBVIOUS
        <3> HIDE DEF m
        <3> QED BY <3>1, MemberBytes
    <2>3. /\ k > 1 => m[1] # Close
          /\ Len(m) = 2 => m[2] # Close
        BY <1>0 DEF Distinct
    <2>4. k = 1 \/ here # first
        <3>1. CASE k = 1
            BY <3>1
        <3>2. CASE k # 1
            <4>1. k - 1 \in 1 .. n /\ (k - 1) + 1 = k
                BY <1>0, <3>2
            <4>2. at[k] \in first + 1 .. end
                BY <1>4, <4>1
            <4> QED BY <1>3, <1>6, <4>2
        <3> QED BY <3>1, <3>2
    <2> HIDE DEF w
    <2>5. p[here] = m[1]
        <3>1. 1 \in 1 .. Len(w) /\ here + 1 - 1 = here
            BY <2>1, <2>2
        <3> HIDE DEF here, m
        <3> QED BY <2>1, <2>2, <3>1
    <2>6. ~ (p[here] = Close /\ here # first)
        <3>1. k = 1 \/ k > 1
            BY <1>0
        <3>2. CASE k = 1 /\ here # first
            BY <1>5, <3>2
        <3>3. CASE k > 1
            BY <2>3, <2>5, <3>3
        <3> QED BY <2>4, <3>1, <3>2, <3>3
    <2>7. /\ IsRange(p, here) <=> Len(m) = 2
          /\ Hit(p, here, c) <=> Covers(m, c)
        <3>1. CASE Len(m) = 2
            <4>1. /\ Len(w) = 3 /\ w[2] = Dash /\ w[3] = m[2] /\ m[2] \in Codes
                BY <2>2, <3>1
            <4>2. /\ p[here + 2 - 1] = Dash /\ p[here + 3 - 1] = m[2]
                BY <2>1, <4>1
            <4>3. here + 2 - 1 = here + 1 /\ here + 3 - 1 = here + 2
                BY <2>1
            <4>4. here + 2 <= Len(p)
                <5> HIDE DEF here
                <5> QED BY <1>1, <1>3, <1>6, <2>1, <4>1
            <4>5. IsRange(p, here)
                BY <2>3, <3>1, <4>2, <4>3, <4>4 DEF IsRange
            <4>6. m[1] \in Nat /\ m[2] \in Nat
                BY <2>2, <4>1, CodesAreNumbers, Zenon
            <4>7. Covers(m, c) <=> m[1] <= c /\ c <= m[2]
                <5> HIDE DEF m
                <5> QED BY <3>1, <4>6 DEF Covers
            <4>8. Hit(p, here, c) <=> m[1] <= c /\ c <= m[2]
                <5> HIDE DEF m, here
                <5> QED BY <2>5, <4>2, <4>3, <4>5 DEF Hit
            <4> QED BY <3>1, <4>5, <4>7, <4>8
        <3>2. CASE Len(m) = 1
            <4>1. Len(w) = 1 /\ at[k + 1] = here + 1
                BY <2>1, <2>2, <3>2
            <4>2. ~ IsRange(p, here)
                <5>1. CASE k = n
                    <6>1. p[here + 1] = Close
                        BY <1>5, <1>6, <4>1, <5>1
                    <6> QED BY <6>1 DEF IsRange, Close, Dash
                <5>2. CASE k # n
                    <6> DEFINE next == members[k + 1]
                    <6>1. k + 1 \in 1 .. n /\ next \in Members
                        <7>1. k + 1 \in 1 .. n
                            <8> HIDE DEF n
                            <8> QED BY <1>0, <5>2
                        <7>2. \A i \in 1 .. n : members[i] \in Members
                            OBVIOUS
                        <7> HIDE DEF n
                        <7> QED BY <7>1, <7>2
                    <6>2. p[here + 1] = next[1]
                        <7> DEFINE v == Spelt(next)
                        <7>1. v[1] = next[1] /\ Len(v) \in {1, 3}
                            BY <6>1, MemberBytes
                        <7>2. \A l \in 1 .. Len(v) :
                                  p[at[k + 1] + l - 1] = v[l]
                            BY <1>4, <6>1
                        <7>3. 1 \in 1 .. Len(v)
                            BY <7>1
                        <7>4. at[k + 1] + 1 - 1 = here + 1
                            BY <2>1, <4>1
                        <7> HIDE DEF v, here, next
                        <7> QED BY <7>1, <7>2, <7>3, <7>4
                    <6>3. CASE next[1] # Dash
                        BY <6>2, <6>3 DEF IsRange
                    <6>4. CASE next[1] = Dash
                        <7>1. k + 1 = n /\ Len(next) = 1
                            <8>1. /\ k + 1 > 1 /\ (k + 1) - 1 = k
                                  /\ k + 1 \in DOMAIN members
                                BY <1>0, <6>1
                            <8>2. Len(members[(k + 1) - 1]) = 1
                                BY <3>2, <8>1
                            <8> QED BY <6>4, <8>1, <8>2 DEF Distinct
                        <7>2. Len(Spelt(next)) = 1
                            BY <7>1 DEF Spelt
                        <7>3. /\ at[n + 1] = at[k + 1] + 1
                            BY <1>4, <6>1, <7>1, <7>2
                        <7>4. here + 2 = end
                            BY <1>5, <2>1, <4>1, <7>3
                        <7> QED BY <1>6, <7>4 DEF IsRange
                    <6> QED BY <6>3, <6>4
                <5> QED BY <5>1, <5>2
            <4>3. m[1] \in Nat
                BY <2>2, CodesAreNumbers, Zenon
            <4>4. Covers(m, c) <=> c = m[1]
                <5> HIDE DEF m
                <5> QED BY <3>2, <4>3 DEF Covers
            <4>5. Hit(p, here, c) <=> m[1] = c
                <5> HIDE DEF m, here
                <5> QED BY <2>5, <4>2 DEF Hit
            <4> QED BY <3>2, <4>2, <4>4, <4>5
        <3> QED BY <2>2, <3>1, <3>2
    <2>8. (IF IsRange(p, here) THEN here + 3 ELSE here + 1) = at[k + 1]
        <3> HIDE DEF here, m
        <3> QED BY <2>1, <2>2, <2>7
    <2> SUFFICES ASSUME NEW matched \in BOOLEAN
                 PROVE  reader[here][matched] =
                            IF (matched \/ Added(k)) # negate
                            THEN end + 1 ELSE 0
        OBVIOUS
    <2>9. reader[here][matched] =
              ClassStep(p, first, negate, c, reader, here, matched)
        <3>1. here \in first .. Len(p) + 1 /\ first \in Nat
            BY <1>1, <1>3, <2>1, SMTT(60)
        <3> HIDE DEF here
        <3> QED BY <3>1, ClassReads DEF reader
    <2> DEFINE h == matched \/ Hit(p, here, c)
    <2>10. reader[here][matched] = reader[at[k + 1]][h]
        <3>1. ~ (here > Len(p))
            BY <1>1, <1>3, <2>1, SMTT(60)
        <3> HIDE DEF here
        <3> QED BY <2>6, <2>8, <2>9, <3>1 DEF ClassStep
    <2>11. h \in BOOLEAN
        OBVIOUS
    <2>12. (h \/ Added(k + 1)) = (matched \/ Added(k))
        <3>1. Added(k) <=> Covers(m, c) \/ Added(k + 1)
            <4>1. k .. n = {k} \cup (k + 1 .. n)
                BY <1>0
            <4> HIDE DEF n
            <4> QED BY <4>1
        <3> HIDE DEF Added, m, here
        <3> QED BY <2>7, <3>1
    <2> HIDE DEF h, Added, here
    <2> QED BY <1>8, <2>10, <2>11, <2>12
<1>9. Reads(1)
    <2> DEFINE S == {t \in Nat : t <= n => Reads(n + 1 - t)}
    <2> HIDE DEF Reads
    <2>1. 0 \in S
        <3>1. n + 1 - 0 = n + 1
            BY <1>0
        <3> QED BY <1>7, <3>1
    <2>2. ASSUME NEW t \in Nat, t \in S PROVE t + 1 \in S
        <3> DEFINE k == n + 1 - (t + 1)
        <3>1. ASSUME t + 1 <= n PROVE Reads(k)
            <4>1. k \in 1 .. n /\ k + 1 = n + 1 - t /\ t <= n
                BY <1>0, <3>1
            <4> HIDE DEF k
            <4>2. Reads(k + 1)
                BY <2>2, <4>1
            <4> QED BY <1>8, <4>1, <4>2
        <3> QED BY <3>1
    <2>3. n \in S
        <3> HIDE DEF S
        <3> QED BY <1>0, <2>1, <2>2, SetInduction
    <2>4. n + 1 - n = 1 /\ n <= n
        BY <1>0
    <2> QED BY <2>3, <2>4
<1>10. (FALSE \/ Added(1)) = HasByte(members, c)
    BY <1>0 DEF HasByte
<1>11. reader[first][FALSE] =
           IF (FALSE \/ Added(1)) # negate THEN end + 1 ELSE 0
    <2> HIDE DEF Added
    <2> QED BY <1>5, <1>9
<1>12. end + 1 = first + Len(text) + 1
    BY DEF end
<1> HIDE DEF Added
<1> QED BY <1>10, <1>11, <1>12 DEF reader, text

(* A class that was written has the bytes it says, a complement the others. *)
LEMMA WrittenClassReads ==
    ASSUME NEW p \in Seq(Nat), NEW at \in 1 .. Len(p), NEW c \in Nat,
           NEW kind \in ClassKinds, NEW members \in Seq(Members),
           IsClass(kind, members),
           Has(p, at, Written(<<kind, members>>))
    PROVE  /\ p[at] = Open
           /\ ClassRest(p, at, c) =
                  IF HasByte(members, c) <=> kind = "["
                  THEN at + Len(Written(<<kind, members>>)) ELSE 0
<1> DEFINE text == Text(members)
           rest == text \o <<Close>>
           has == HasByte(members, c)
<1>0. members # <<>> /\ Distinct(members)
    BY DEF IsClass
<1>1. /\ text \in Seq(Nat) /\ <<Close>> \in Seq(Nat) /\ rest \in Seq(Nat)
      /\ Len(text) \in Nat /\ Len(rest) = Len(text) + 1
    <2>1. text \in Seq(Codes)
        BY TextPlaces
    <2>2. text \in Seq(Nat)
        <3> HIDE DEF text
        <3> QED BY <2>1, BytesAreNumbers
    <2> HIDE DEF text
    <2> QED BY <2>2 DEF Close
<1>2. Written(<<kind, members>>) = Bracket(kind) \o rest
    BY Spelling
<1>3. Bracket(kind) \in Seq(Nat)
    BY DEF Bracket, ClassKinds, Open, Bang, Caret
<1> DEFINE w == Written(<<kind, members>>)
           b == Bracket(kind)
<1>4. /\ Has(p, at, b) /\ at + Len(b) \in Nat \ {0}
      /\ Has(p, at + Len(b), rest) /\ Len(w) = Len(b) + Len(rest)
    <2>1. b \in Seq(Nat) /\ rest \in Seq(Nat)
        BY <1>1, <1>3
    <2>2. Has(p, at, b \o rest) /\ w = b \o rest
        BY <1>2
    <2> HIDE DEF b, rest, w
    <2>3. Has(p, at, b) /\ Has(p, at + Len(b), rest)
        BY <2>1, <2>2, HasBoth
    <2>4. Len(w) = Len(b) + Len(rest)
        BY <2>1, <2>2
    <2>5. at + Len(b) \in Nat \ {0}
        BY <2>1
    <2> QED BY <2>3, <2>4, <2>5
<1> DEFINE first == at + Len(b)
<1>5. \A negate \in BOOLEAN :
          ClassReader(p, first, negate, c)[first][FALSE] =
              IF has # negate THEN first + Len(text) + 1 ELSE 0
    <2> SUFFICES ASSUME NEW negate \in BOOLEAN
                 PROVE  ClassReader(p, first, negate, c)[first][FALSE] =
                            IF has # negate THEN first + Len(text) + 1 ELSE 0
        OBVIOUS
    <2> HIDE DEF first, has, text
    <2>1. Has(p, first, Text(members) \o <<Close>>)
        BY <1>4 DEF first, text
    <2> QED BY <1>0, <2>1, MembersRead, ZenonT(60) DEF has, text
<1>6. first + Len(text) <= Len(p) /\ first \in Nat
    <2>1. first + Len(rest) <= Len(p) + 1 /\ first \in Nat
        <3> HIDE DEF first, rest
        <3> QED BY <1>4 DEF Has, first
    <2> HIDE DEF first, rest, text
    <2> QED BY <1>1, <2>1
<1>7. has \in BOOLEAN
    BY DEF HasByte
<1> HIDE DEF w, has
<1>8. CASE kind = "["
    <2>1. b = <<Open>> /\ Len(b) = 1
        BY <1>8 DEF Bracket
    <2>2. p[at] = Open
        <3>1. at + 1 - 1 = at /\ 1 \in 1 .. Len(b) /\ b[1] = Open
            BY <2>1
        <3> HIDE DEF b
        <3> QED BY <1>4, <3>1, HasPlace
    <2>3. first = at + 1
        BY <2>1
    <2> HIDE DEF b
    <2>4. at + 1 <= Len(p) /\ p[at + 1] \notin {Bang, Caret}
        <3>1. members[1] \in Members /\ 1 \in 1 .. Len(members)
            BY <1>0
        <3>2. members[1][1] \notin {Bang, Caret}
            BY <1>8 DEF IsClass
        <3>3. PICK place \in [1 .. Len(members) + 1 -> Nat \ {0}] :
                  /\ place[1] = 1
                  /\ \A k \in 1 .. Len(members) :
                         /\ place[k + 1] = place[k] + Len(Spelt(members[k]))
                         /\ place[k + 1] <= Len(text) + 1
                         /\ \A l \in 1 .. Len(Spelt(members[k])) :
                                text[place[k] + l - 1] = Spelt(members[k])[l]
            BY TextPlaces
        <3>4. /\ Spelt(members[1])[1] = members[1][1]
              /\ Len(Spelt(members[1])) \in {1, 3}
            BY <3>1, MemberBytes
        <3>5. text[1] = members[1][1] /\ Len(text) >= 1
            <4> HIDE DEF text
            <4>1. /\ place[1 + 1] = 1 + Len(Spelt(members[1]))
                  /\ place[1 + 1] <= Len(text) + 1
                  /\ \A l \in 1 .. Len(Spelt(members[1])) :
                         text[1 + l - 1] = Spelt(members[1])[l]
                BY <3>1, <3>3
            <4>2. 1 \in 1 .. Len(Spelt(members[1])) /\ 1 + 1 - 1 = 1
                BY <3>4
            <4>3. text[1] = Spelt(members[1])[1]
                BY <4>1, <4>2
            <4> QED BY <1>1, <3>4, <4>1, <4>3, SMTT(60)
        <3>6. p[first] = rest[1] /\ rest[1] = text[1]
            <4>1. rest[1] = text[1]
                <5> HIDE DEF text
                <5> QED BY <1>1, <3>5
            <4>2. first + 1 - 1 = first /\ 1 \in 1 .. Len(rest)
                <5> HIDE DEF first, rest, text
                <5> QED BY <1>1, <1>6
            <4>3. p[first + 1 - 1] = rest[1]
                <5> HIDE DEF first, rest, text
                <5>1. Has(p, first, rest)
                    BY <1>4 DEF first
                <5> QED BY <4>2, <5>1 DEF Has
            <4> HIDE DEF first, rest, text
            <4> QED BY <4>1, <4>2, <4>3
        <3>7. first + Len(text) <= Len(p) /\ Len(text) >= 1 /\ Len(text) \in Nat
              /\ Len(p) \in Nat
            BY <1>1, <1>6, <3>5
        <3>8. p[at + 1] = members[1][1]
            BY <2>3, <3>5, <3>6
        <3> HIDE DEF rest, text, first
        <3> QED BY <2>3, <3>2, <3>7, <3>8
    <2>5. ClassRest(p, at, c) = ClassReader(p, first, FALSE, c)[first][FALSE]
        <3>1. ClassRest(p, at, c) =
                  ClassReader(p, at + 1, FALSE, c)[at + 1][FALSE]
            BY <2>4, ClassBegins
        <3> QED BY <2>3, <3>1
    <2>6. at + Len(w) = first + Len(text) + 1
        <3> HIDE DEF rest, text
        <3> QED BY <1>1, <1>4, <2>1, <2>3
    <2>7. ClassReader(p, first, FALSE, c)[first][FALSE] =
              IF has # FALSE THEN first + Len(text) + 1 ELSE 0
        <3> HIDE DEF first, text
        <3> QED BY <1>5
    <2> HIDE DEF first, text
    <2> QED BY <1>7, <1>8, <2>2, <2>5, <2>6, <2>7 DEF w, has
<1>9. CASE kind # "["
    <2>1. PICK sign \in {Bang, Caret} : b = <<Open, sign>>
        BY <1>9 DEF Bracket, ClassKinds
    <2>2. Len(b) = 2 /\ b[1] = Open /\ b[2] = sign
        BY <2>1
    <2>3. first = at + 2
        BY <2>2
    <2> HIDE DEF b
    <2>4. p[at] = Open /\ p[at + 1] \in {Bang, Caret}
        <3>1. at + 1 - 1 = at /\ at + 2 - 1 = at + 1
            OBVIOUS
        <3>2. p[at + 1 - 1] = b[1] /\ p[at + 2 - 1] = b[2]
            <4>1. 1 \in 1 .. Len(b) /\ 2 \in 1 .. Len(b) /\ Has(p, at, b)
                BY <1>4, <2>2
            <4> QED BY <4>1, HasPlace
        <3> QED BY <2>2, <3>1, <3>2
    <2>5. at + 2 <= Len(p)
        <3> HIDE DEF rest, text
        <3> QED BY <1>1, <1>6, <2>3
    <2>6. ClassRest(p, at, c) = ClassReader(p, first, TRUE, c)[first][FALSE]
        <3>1. ClassRest(p, at, c) =
                  ClassReader(p, at + 2, TRUE, c)[at + 2][FALSE]
            BY <2>4, <2>5, ComplementBegins
        <3> QED BY <2>3, <3>1
    <2>7. at + Len(w) = first + Len(text) + 1
        <3> HIDE DEF rest, text
        <3> QED BY <1>1, <1>4, <2>2, <2>3
    <2>8. ClassReader(p, first, TRUE, c)[first][FALSE] =
              IF has # TRUE THEN first + Len(text) + 1 ELSE 0
        <3> HIDE DEF first, text
        <3> QED BY <1>5
    <2> HIDE DEF first, text
    <2> QED BY <1>7, <1>9, <2>4, <2>6, <2>7, <2>8 DEF w, has
<1> QED BY <1>8, <1>9

(* A class that is not closed has none. *)
LEMMA UnclosedReads ==
    ASSUME NEW p \in Seq(Nat), NEW at \in 1 .. Len(p), NEW c \in Nat,
           NEW bytes \in Seq(Codes), StaysOpen(bytes),
           Has(p, at, Written(Unclosed(bytes))),
           at + Len(Written(Unclosed(bytes))) = Len(p) + 1
    PROVE  p[at] = Open /\ ClassRest(p, at, c) = 0
<1>1. bytes \in Seq(Nat) /\ <<Open>> \in Seq(Nat) /\ Len(p) \in Nat
    BY BytesAreNumbers DEF Open
<1>2. Written(Unclosed(bytes)) = <<Open>> \o bytes
    BY Spelling
<1>3. /\ Has(p, at, <<Open>>) /\ Has(p, at + Len(<<Open>>), bytes)
      /\ Len(<<Open>> \o bytes) = Len(<<Open>>) + Len(bytes)
    <2>1. Has(p, at, <<Open>> \o bytes)
        BY <1>2
    <2> DEFINE begin == <<Open>>
    <2>2. begin \in Seq(Nat) /\ Has(p, at, begin \o bytes)
        BY <1>1, <2>1
    <2> HIDE DEF begin
    <2>3. Has(p, at, begin) /\ Has(p, at + Len(begin), bytes)
        BY <1>1, <2>2, HasBoth
    <2>4. Len(begin \o bytes) = Len(begin) + Len(bytes)
        BY <1>1, <2>2
    <2> QED BY <2>3, <2>4 DEF begin
<1>4. Len(<<Open>>) = 1 /\ <<Open>>[1] = Open /\ Len(bytes) \in Nat
    OBVIOUS
<1>5. p[at] = Open
    <2>1. at + 1 - 1 = at
        OBVIOUS
    <2> QED BY <1>3, <1>4, <2>1 DEF Has
<1>6. at + 1 + Len(bytes) = Len(p) + 1
    BY <1>2, <1>3, <1>4
<1>7. \A l \in 1 .. Len(bytes) : p[at + 1 + l - 1] = bytes[l]
    BY <1>3, <1>4 DEF Has
<1>8. \A i \in at + 1 .. Len(p) : i - at \in 1 .. Len(bytes) /\ p[i] = bytes[i - at]
    <2> SUFFICES ASSUME NEW i \in at + 1 .. Len(p)
                 PROVE  i - at \in 1 .. Len(bytes) /\ p[i] = bytes[i - at]
        OBVIOUS
    <2>1. i - at \in 1 .. Len(bytes) /\ at + 1 + (i - at) - 1 = i
        BY <1>6
    <2> QED BY <1>7, <2>1
<1> DEFINE negate == at < Len(p) /\ p[at + 1] \in {Bang, Caret}
           first == IF negate THEN at + 2 ELSE at + 1
           begin == IF bytes # <<>> /\ bytes[1] \in {Bang, Caret} THEN 2 ELSE 1
<1>9. negate \in BOOLEAN /\ first \in Nat
    OBVIOUS
<1>10. first = at + begin
    <2>1. CASE bytes = <<>>
        <3>1. ~ (at < Len(p))
            BY <1>6, <2>1
        <3> QED BY <2>1, <3>1
    <2>2. CASE bytes # <<>>
        <3>1. at < Len(p) /\ at + 1 \in at + 1 .. Len(p) /\ at + 1 - at = 1
            <4>1. Len(bytes) >= 1
                BY <1>4, <2>2
            <4> QED BY <1>1, <1>6, <4>1
        <3>2. p[at + 1] = bytes[1]
            BY <1>8, <3>1
        <3> QED BY <2>2, <3>1, <3>2
    <2> QED BY <2>1, <2>2
<1>11. \A i \in DOMAIN bytes : bytes[i] = Close => i = begin
    BY DEF StaysOpen
<1>12. begin \in {1, 2} /\ DOMAIN bytes = 1 .. Len(bytes)
    OBVIOUS
<1> HIDE DEF begin
<1>13. ClassRest(p, at, c) =
           IF first > Len(p) THEN 0
           ELSE ClassReader(p, first, negate, c)[first][FALSE]
    BY DEF ClassRest
<1> HIDE DEF first, negate
<1>14. \A i \in first + 1 .. Len(p) : p[i] # Close
    <2> SUFFICES ASSUME NEW i \in first + 1 .. Len(p), p[i] = Close
                 PROVE  FALSE
        OBVIOUS
    <2>1. i \in at + 1 .. Len(p) /\ i - at # begin
        BY <1>10, <1>12
    <2> QED BY <1>8, <1>11, <1>12, <2>1
<1>15. CASE first > Len(p)
    BY <1>5, <1>13, <1>15
<1>16. CASE ~ (first > Len(p))
    <2>1. first \in first .. Len(p) + 1
        BY <1>1, <1>9, <1>16
    <2>2. ClassReader(p, first, negate, c)[first][FALSE] = 0
        BY <1>9, <1>14, <2>1, ClassNeverEnds
    <2> QED BY <1>5, <1>13, <1>16, <2>2
<1> QED BY <1>15, <1>16

(* An element other than the star takes one byte: it goes on behind what was *)
(* written for it, if it stands for the byte.                                *)
LEMMA ElementReads ==
    ASSUME NEW p \in Seq(Nat), NEW at \in 1 .. Len(p), NEW c \in Nat,
           NEW e, Writable(e), e # AnyBytes, Has(p, at, Written(e)),
           e[1] = "unclosed" => at + Len(Written(e)) = Len(p) + 1
    PROVE  /\ p[at] # Star
           /\ AfterByte(p, at, c) = IF StandsFor(e, <<c>>)
                                    THEN at + Len(Written(e)) ELSE 0
<1>0. Len(<<c>>) = 1 /\ <<c>>[1] = c
    OBVIOUS
<1>1. ASSUME NEW w, Has(p, at, w), Len(w) \in Nat \ {0}
      PROVE  p[at] = w[1]
    <2>1. p[at + 1 - 1] = w[1]
        BY <1>1 DEF Has
    <2>2. at + 1 - 1 = at
        OBVIOUS
    <2> QED BY <2>1, <2>2
<1>2. CASE e = AnyByte
    <2>1. Written(e) = <<Question>> /\ StandsFor(e, <<c>>)
        BY <1>0, <1>2, Spelling, Standing
    <2>2. Len(<<Question>>) = 1 /\ <<Question>>[1] = Question
        OBVIOUS
    <2>3. p[at] = Question
        <3>1. Has(p, at, <<Question>>)
            BY <2>1
        <3> QED BY <1>1, <2>2, <3>1
    <2> QED BY <2>1, <2>2, <2>3 DEF AfterByte, Question, Open, Star
<1>3. ASSUME NEW b \in Codes \ {Star, Question, Open}, e = Byte(b)
      PROVE  /\ p[at] # Star
             /\ AfterByte(p, at, c) = IF StandsFor(e, <<c>>)
                                      THEN at + Len(Written(e)) ELSE 0
    <2>1. Written(e) = <<b>> /\ (StandsFor(e, <<c>>) <=> <<c>> = <<b>>)
        BY <1>3, Spelling, Standing
    <2>2. Len(<<b>>) = 1 /\ <<b>>[1] = b /\ (<<c>> = <<b>> <=> c = b)
        OBVIOUS
    <2>3. p[at] = b
        <3>1. Has(p, at, <<b>>)
            BY <2>1
        <3> QED BY <1>1, <2>2, <3>1
    <2> QED BY <2>1, <2>2, <2>3 DEF AfterByte
<1>4. ASSUME NEW kind \in ClassKinds, NEW members \in Seq(Members),
             e = <<kind, members>>, IsClass(kind, members)
      PROVE  /\ p[at] # Star
             /\ AfterByte(p, at, c) = IF StandsFor(e, <<c>>)
                                      THEN at + Len(Written(e)) ELSE 0
    <2>1. Has(p, at, Written(<<kind, members>>))
        BY <1>4
    <2>2. /\ p[at] = Open
          /\ ClassRest(p, at, c) =
                 IF HasByte(members, c) <=> kind = "["
                 THEN at + Len(Written(<<kind, members>>)) ELSE 0
        BY <1>4, <2>1, WrittenClassReads
    <2>3. StandsFor(e, <<c>>) <=> (HasByte(members, c) <=> kind = "[")
        BY <1>0, <1>4, Standing
    <2>4. AfterByte(p, at, c) = ClassRest(p, at, c)
        BY <2>2 DEF AfterByte
    <2>5. p[at] # Star
        BY <2>2 DEF Open, Star
    <2> QED BY <1>4, <2>2, <2>3, <2>4, <2>5
<1>5. ASSUME NEW bytes \in Seq(Codes), e = Unclosed(bytes), StaysOpen(bytes)
      PROVE  /\ p[at] # Star
             /\ AfterByte(p, at, c) = IF StandsFor(e, <<c>>)
                                      THEN at + Len(Written(e)) ELSE 0
    <2>1. at + Len(Written(e)) = Len(p) + 1
        BY <1>5 DEF Unclosed
    <2>2. p[at] = Open /\ ClassRest(p, at, c) = 0
        BY <1>5, <2>1, UnclosedReads
    <2>3. ~ StandsFor(e, <<c>>)
        BY <1>5, Standing
    <2>4. AfterByte(p, at, c) = ClassRest(p, at, c)
        BY <2>2 DEF AfterByte
    <2>5. p[at] # Star
        BY <2>2 DEF Open, Star
    <2> QED BY <2>2, <2>3, <2>4, <2>5
<1> QED BY <1>2, <1>3, <1>4, <1>5 DEF Writable

------------------------------------------------------------------------------
(* The pattern as a whole *)

(* The rest of the name from j can be cut into pieces that the elements from *)
(* the k-th on stand for.                                                    *)
MeansFrom(pattern, name, k, j) ==
    \E cut \in [0 .. Len(pattern) -> 0 .. Len(name)] :
        /\ cut[k - 1] = j - 1 /\ cut[Len(pattern)] = Len(name)
        /\ \A i \in k .. Len(pattern) :
               /\ cut[i - 1] <= cut[i]
               /\ StandsFor(pattern[i], SubSeq(name, cut[i - 1] + 1, cut[i]))

(* The next element stands for a piece, and the rest for the rest. *)
LEMMA MeansNext ==
    ASSUME NEW T, NEW pattern \in Seq(T), NEW name \in Seq(Nat),
           NEW k \in 1 .. Len(pattern), NEW j \in 1 .. Len(name) + 1
    PROVE  MeansFrom(pattern, name, k, j) <=>
               \E l \in j .. Len(name) + 1 :
                   /\ StandsFor(pattern[k], SubSeq(name, j, l - 1))
                   /\ MeansFrom(pattern, name, k + 1, l)
<1> DEFINE n == Len(pattern)
           m == Len(name)
<1>0. /\ n \in Nat /\ m \in Nat /\ k \in Nat /\ j \in Nat
      /\ k - 1 \in 0 .. n /\ k \in 0 .. n /\ (k + 1) - 1 = k /\ j - 1 \in 0 .. m
      /\ (j - 1) + 1 = j
    OBVIOUS
<1>1. ASSUME MeansFrom(pattern, name, k, j)
      PROVE  \E l \in j .. Len(name) + 1 :
                 /\ StandsFor(pattern[k], SubSeq(name, j, l - 1))
                 /\ MeansFrom(pattern, name, k + 1, l)
    <2>1. PICK cut \in [0 .. n -> 0 .. m] :
              /\ cut[k - 1] = j - 1 /\ cut[n] = m
              /\ \A i \in k .. n :
                     /\ cut[i - 1] <= cut[i]
                     /\ StandsFor(pattern[i],
                                  SubSeq(name, cut[i - 1] + 1, cut[i]))
        BY <1>1 DEF MeansFrom
    <2> DEFINE l == cut[k] + 1
    <2>2. k \in k .. n /\ cut[k] \in 0 .. m
        BY <1>0
    <2>3. /\ cut[k - 1] <= cut[k]
          /\ StandsFor(pattern[k], SubSeq(name, cut[k - 1] + 1, cut[k]))
        BY <2>1, <2>2
    <2>4. l \in j .. m + 1 /\ l - 1 = cut[k]
        BY <1>0, <2>1, <2>2, <2>3, SMTT(60)
    <2>5. StandsFor(pattern[k], SubSeq(name, j, l - 1))
        BY <1>0, <2>1, <2>3, <2>4
    <2>6. k + 1 .. n \subseteq k .. n
        BY <1>0
    <2>7. MeansFrom(pattern, name, k + 1, l)
        <3>1. cut[(k + 1) - 1] = l - 1
            BY <1>0, <2>4
        <3> HIDE DEF l
        <3> QED BY <2>1, <2>6, <3>1 DEF MeansFrom
    <2> HIDE DEF l
    <2> QED BY <2>4, <2>5, <2>7
<1>2. ASSUME NEW l \in j .. m + 1,
             StandsFor(pattern[k], SubSeq(name, j, l - 1)),
             MeansFrom(pattern, name, k + 1, l)
      PROVE  MeansFrom(pattern, name, k, j)
    <2>1. PICK cut \in [0 .. n -> 0 .. m] :
              /\ cut[(k + 1) - 1] = l - 1 /\ cut[n] = m
              /\ \A i \in k + 1 .. n :
                     /\ cut[i - 1] <= cut[i]
                     /\ StandsFor(pattern[i],
                                  SubSeq(name, cut[i - 1] + 1, cut[i]))
        BY <1>2 DEF MeansFrom
    <2> DEFINE new == [i \in 0 .. n |-> IF i = k - 1 THEN j - 1 ELSE cut[i]]
    <2>2. new \in [0 .. n -> 0 .. m]
        BY <1>0
    <2>3. new[k - 1] = j - 1 /\ new[k] = l - 1 /\ new[n] = m
        BY <1>0, <2>1
    <2>4. ASSUME NEW i \in k .. n
          PROVE  /\ new[i - 1] <= new[i]
                 /\ StandsFor(pattern[i],
                              SubSeq(name, new[i - 1] + 1, new[i]))
        <3>1. CASE i = k
            <4>1. j - 1 <= l - 1
                BY <1>0
            <4> HIDE DEF new
            <4> QED BY <1>0, <1>2, <2>3, <3>1, <4>1
        <3>2. CASE i # k
            <4>1. i \in k + 1 .. n
                BY <3>2
            <4>2. new[i - 1] = cut[i - 1] /\ new[i] = cut[i]
                BY <1>0, <4>1
            <4> HIDE DEF new
            <4> QED BY <2>1, <4>1, <4>2
        <3> QED BY <3>1, <3>2
    <2> HIDE DEF new
    <2> QED BY <2>2, <2>3, <2>4 DEF MeansFrom
<1> QED BY <1>1, <1>2

(* No element is left: the name must be, too. *)
LEMMA MeansNothing ==
    ASSUME NEW T, NEW pattern \in Seq(T), NEW name \in Seq(Nat),
           NEW j \in 1 .. Len(name) + 1
    PROVE  MeansFrom(pattern, name, Len(pattern) + 1, j) <=> j > Len(name)
<1>1. (Len(pattern) + 1) - 1 = Len(pattern)
    OBVIOUS
<1>2. ASSUME MeansFrom(pattern, name, Len(pattern) + 1, j) PROVE j > Len(name)
    <2>1. j - 1 = Len(name)
        BY <1>1, <1>2 DEF MeansFrom
    <2> QED BY <2>1
<1>3. ASSUME j > Len(name)
      PROVE  MeansFrom(pattern, name, Len(pattern) + 1, j)
    <2> DEFINE cut == [i \in 0 .. Len(pattern) |-> Len(name)]
    <2>1. cut \in [0 .. Len(pattern) -> 0 .. Len(name)]
        OBVIOUS
    <2>2. cut[Len(pattern)] = Len(name) /\ j - 1 = Len(name)
        BY <1>3
    <2>3. \A i \in Len(pattern) + 1 .. Len(pattern) : FALSE
        OBVIOUS
    <2> HIDE DEF cut
    <2> QED BY <1>1, <2>1, <2>2, <2>3 DEF MeansFrom
<1> QED BY <1>2, <1>3

(* An element other than the star stands for single bytes only. *)
LEMMA OneByte ==
    ASSUME NEW e, Writable(e), e # AnyBytes, NEW piece, StandsFor(e, piece)
    PROVE  Len(piece) = 1
<1>1. CASE e = AnyByte
    BY <1>1, Standing
<1>2. ASSUME NEW b, e = Byte(b) PROVE Len(piece) = 1
    <2>1. piece = <<b>>
        BY <1>2, Standing
    <2> QED BY <2>1
<1>3. ASSUME NEW kind \in ClassKinds, NEW members, e = <<kind, members>>
      PROVE  Len(piece) = 1
    BY <1>3, Standing
<1>4. ASSUME NEW bytes, e = Unclosed(bytes) PROVE Len(piece) = 1
    BY <1>4, Standing
<1> QED BY <1>1, <1>2, <1>3, <1>4 DEF Writable

LEMMA PieceOfOne ==
    ASSUME NEW e, Writable(e), e # AnyBytes, NEW name \in Seq(Nat),
           NEW j \in 1 .. Len(name) + 1, NEW l \in j .. Len(name) + 1
    PROVE  StandsFor(e, SubSeq(name, j, l - 1)) <=>
               /\ j <= Len(name) /\ l = j + 1
               /\ StandsFor(e, <<name[j]>>)
<1>1. Len(SubSeq(name, j, l - 1)) = l - j
    OBVIOUS
<1>2. ASSUME l = j + 1
      PROVE  j <= Len(name) /\ SubSeq(name, j, l - 1) = <<name[j]>>
    <2>1. j <= Len(name) /\ l - 1 = j
        BY <1>2
    <2> DEFINE piece == SubSeq(name, j, j)
    <2>2. piece \in Seq(Nat) /\ Len(piece) = 1 /\ piece[1] = name[j]
        BY <2>1
    <2> HIDE DEF piece
    <2>3. piece = <<piece[1]>>
        BY <2>2
    <2>4. SubSeq(name, j, j) = <<name[j]>>
        BY <2>2, <2>3 DEF piece
    <2> QED BY <2>1, <2>4
<1>3. ASSUME StandsFor(e, SubSeq(name, j, l - 1)) PROVE l = j + 1
    <2>1. l - j = 1
        BY <1>1, <1>3, OneByte
    <2> QED BY <2>1
<1> QED BY <1>2, <1>3

(* match_pattern says of a pattern written in its elements, classes of any   *)
(* members and a class that is not closed among them, and of a name what the *)
(* documentation says: that the name can be cut into pieces the elements     *)
(* stand for.                                                                *)
THEOREM MatchesWhatItMeans ==
    ASSUME NEW elements \in Patterns, NEW name \in Seq(Nat)
    PROVE  /\ Pattern(elements) \in Seq(Nat)
           /\ MatchPattern(Pattern(elements), name) <=> Means(elements, name)
<1> DEFINE n == Len(elements)
           m == Len(name)
           seqs == [i \in DOMAIN elements |-> Written(elements[i])]
           p == Pattern(elements)
           match == Matcher(p, name)
<1>. elements \in Seq(Elements)
    BY DEF Patterns
<1>0. n \in Nat /\ m \in Nat /\ DOMAIN elements = 1 .. n
    OBVIOUS
<1>. \A k \in 1 .. n : Writable(elements[k])
    <2>1. \A k \in 1 .. n : elements[k] \in Elements
        OBVIOUS
    <2> HIDE DEF n
    <2> QED BY <2>1, ElementsWritable
<1>1. /\ seqs \in Seq(Seq(Nat)) /\ Len(seqs) = n
      /\ \A k \in 1 .. n : seqs[k] = Written(elements[k])
    <2>1. \A i \in DOMAIN elements : Written(elements[i]) \in Seq(Nat)
        BY <1>0, WrittenType
    <2> QED BY <1>0, <2>1
<1>2. p = FlattenSeq(seqs)
    BY DEF Pattern
<1> HIDE DEF seqs, p
<1>3. p \in Seq(Nat)
    BY <1>1, <1>2, FlattenPlaces
<1>4. PICK place \in [1 .. n + 1 -> Nat \ {0}] : Placed(seqs, p, place)
    BY <1>1, <1>2, FlattenPlaces
<1>5. ASSUME NEW k \in 1 .. n
      PROVE  /\ Has(p, place[k], Written(elements[k]))
             /\ place[k] \in 1 .. Len(p)
             /\ place[k + 1] = place[k] + Len(Written(elements[k]))
             /\ place[k + 1] \in 1 .. Len(p) + 1
    <2> DEFINE w == Written(elements[k])
    <2>1. w \in Seq(Nat) /\ Len(w) >= 1 /\ Len(w) \in Nat
        BY WrittenType
    <2>2. /\ place[k + 1] = place[k] + Len(w)
          /\ place[k + 1] <= Len(p) + 1
          /\ \A l \in 1 .. Len(w) : p[place[k] + l - 1] = w[l]
        <3>1. /\ place[k + 1] = place[k] + Len(seqs[k])
              /\ place[k + 1] <= Len(p) + 1
              /\ \A l \in 1 .. Len(seqs[k]) :
                     p[place[k] + l - 1] = seqs[k][l]
            BY <1>1, <1>4 DEF Placed
        <3>2. seqs[k] = w
            BY <1>1
        <3> HIDE DEF w
        <3> QED BY <3>1, <3>2
    <2>3. place[k] \in Nat \ {0} /\ Len(p) \in Nat
        <3>1. k \in 1 .. n + 1
            BY <1>0
        <3> QED BY <1>3, <1>4, <3>1, SMTT(60)
    <2> HIDE DEF w
    <2>4. place[k] \in 1 .. Len(p) /\ place[k + 1] \in 1 .. Len(p) + 1
        BY <2>1, <2>2, <2>3
    <2>5. Has(p, place[k], w)
        BY <2>2, <2>3 DEF Has
    <2> QED BY <2>2, <2>4, <2>5 DEF w
<1> DEFINE Agree(k) == \A j \in 1 .. m + 1 :
                           match[place[k]][j] <=>
                               MeansFrom(elements, name, k, j)
<1>6. Agree(n + 1)
    <2> SUFFICES ASSUME NEW j \in 1 .. m + 1
                 PROVE  match[place[n + 1]][j] <=>
                            MeansFrom(elements, name, n + 1, j)
        OBVIOUS
    <2>1. place[n + 1] = Len(p) + 1 /\ Len(p) \in Nat
        BY <1>1, <1>3, <1>4 DEF Placed
    <2>2. Len(p) + 1 \in 1 .. Len(p) + 1 /\ Len(p) + 1 > Len(p)
        BY <2>1
    <2>3. match[Len(p) + 1][j] = MatchStep(p, name, match, Len(p) + 1, j)
        BY <1>3, <2>2, MatchReads
    <2>4. MeansFrom(elements, name, n + 1, j) <=> j > m
        BY MeansNothing
    <2> HIDE DEF match
    <2>5. MatchStep(p, name, match, Len(p) + 1, j) <=> j > m
        BY <2>1 DEF MatchStep
    <2> QED BY <2>1, <2>3, <2>4, <2>5
<1>7. ASSUME NEW k \in 1 .. n, Agree(k + 1) PROVE Agree(k)
    <2> DEFINE e == elements[k]
               at == place[k]
    <2> SUFFICES ASSUME NEW j \in 1 .. m + 1
                 PROVE  match[at][j] <=> MeansFrom(elements, name, k, j)
        OBVIOUS
    <2>1. /\ Has(p, at, Written(e)) /\ at \in 1 .. Len(p)
          /\ place[k + 1] = at + Len(Written(e))
          /\ place[k + 1] \in 1 .. Len(p) + 1
        BY <1>5
    <2>2. /\ Writable(e)
          /\ e[1] = "unclosed" => at + Len(Written(e)) = Len(p) + 1
        <3>1. Writable(e)
            OBVIOUS
        <3>2. e[1] = "unclosed" => k = n
            BY <1>0 DEF Patterns
        <3>3. place[n + 1] = Len(p) + 1
            BY <1>1, <1>4 DEF Placed
        <3> HIDE DEF e, at
        <3> QED BY <2>1, <3>1, <3>2, <3>3
    <2>3. MeansFrom(elements, name, k, j) <=>
              \E l \in j .. m + 1 : /\ StandsFor(e, SubSeq(name, j, l - 1))
                                    /\ MeansFrom(elements, name, k + 1, l)
        BY MeansNext
    <2>4. \A l \in j .. m + 1 : match[place[k + 1]][l] <=>
                                    MeansFrom(elements, name, k + 1, l)
        <3>1. \A l \in j .. m + 1 : l \in 1 .. m + 1
            OBVIOUS
        <3> HIDE DEF match
        <3> QED BY <1>7, <3>1
    <2>5. CASE e = AnyBytes
        <3>1. Written(e) = <<Star>> /\ \A piece : StandsFor(e, piece)
            BY <2>5, Spelling, Standing
        <3>2. p[at] = Star /\ place[k + 1] = at + 1
            <4>1. Has(p, at, <<Star>>) /\ at + 1 - 1 = at
                BY <2>1, <3>1
            <4>2. Len(<<Star>>) = 1 /\ <<Star>>[1] = Star
                OBVIOUS
            <4> QED BY <2>1, <3>1, <4>1, <4>2 DEF Has
        <3>3. match[at][j] <=> \E l \in j .. m + 1 : match[at + 1][l]
            BY <1>3, <2>1, <3>2, StarMatches
        <3> HIDE DEF match, e, at
        <3> QED BY <2>3, <2>4, <3>1, <3>2, <3>3
    <2>6. CASE e # AnyBytes
        <3>1. match[at][j] = MatchStep(p, name, match, at, j)
            <4>1. at \in 1 .. Len(p) + 1
                BY <1>3, <2>1
            <4> QED BY <1>3, <4>1, MatchReads
        <3>2. CASE j > m
            <4>1. ~ MatchStep(p, name, match, at, j)
                <5>1. p[at] # Star
                    BY <1>3, <2>1, <2>2, <2>6, ElementReads
                <5> HIDE DEF match, at
                <5> QED BY <1>0, <2>1, <3>2, <5>1 DEF MatchStep
            <4>2. \A l \in j .. m + 1 :
                      ~ StandsFor(e, SubSeq(name, j, l - 1))
                <5>1. ~ (j <= m)
                    BY <1>0, <3>2
                <5> HIDE DEF e
                <5> QED BY <2>2, <2>6, <5>1, PieceOfOne
            <4> HIDE DEF match, e, at
            <4> QED BY <2>3, <3>1, <4>1, <4>2
        <3>3. CASE j <= m
            <4>0. name[j] \in Nat /\ j + 1 \in j .. m + 1
                BY <3>3
            <4>1. /\ p[at] # Star
                  /\ AfterByte(p, at, name[j]) =
                         IF StandsFor(e, <<name[j]>>)
                         THEN place[k + 1] ELSE 0
                BY <1>3, <2>1, <2>2, <2>6, <4>0, ElementReads
            <4>2. MatchStep(p, name, match, at, j) <=>
                      /\ StandsFor(e, <<name[j]>>)
                      /\ match[place[k + 1]][j + 1]
                <5>1. place[k + 1] # 0 /\ ~ (at > Len(p)) /\ at <= Len(p)
                    BY <2>1
                <5> HIDE DEF match, at, e
                <5> QED BY <3>3, <4>1, <5>1 DEF MatchStep
            <4>3. \A l \in j .. m + 1 :
                      StandsFor(e, SubSeq(name, j, l - 1)) <=>
                          l = j + 1 /\ StandsFor(e, <<name[j]>>)
                BY <2>2, <2>6, <3>3, PieceOfOne
            <4> HIDE DEF match, e, at
            <4> QED BY <2>3, <2>4, <3>1, <4>0, <4>2, <4>3
        <3> QED BY <3>2, <3>3
    <2> QED BY <2>5, <2>6
<1>8. Agree(1)
    <2> DEFINE S == {t \in Nat : t <= n => Agree(n + 1 - t)}
    <2>1. 0 \in S
        <3>1. n + 1 - 0 = n + 1
            OBVIOUS
        <3> HIDE DEF Agree
        <3> QED BY <1>6, <3>1
    <2>2. ASSUME NEW t \in Nat, t \in S PROVE t + 1 \in S
        <3> DEFINE k == n + 1 - (t + 1)
        <3> HIDE DEF Agree
        <3>1. ASSUME t + 1 <= n PROVE Agree(k)
            <4>1. k \in 1 .. n /\ k + 1 = n + 1 - t /\ t <= n
                BY <1>0, <3>1
            <4> HIDE DEF k
            <4>2. Agree(k + 1)
                BY <2>2, <4>1
            <4> QED BY <1>7, <4>1, <4>2
        <3> QED BY <3>1
    <2>3. n \in S
        <3> HIDE DEF S
        <3> QED BY <1>0, <2>1, <2>2, SetInduction
    <2>4. n + 1 - n = 1 /\ n <= n
        BY <1>0
    <2> HIDE DEF Agree
    <2> QED BY <2>3, <2>4
<1>9. match[1][1] <=> MeansFrom(elements, name, 1, 1)
    <2>1. place[1] = 1
        BY <1>4 DEF Placed
    <2>2. 1 \in 1 .. m + 1
        BY <1>0
    <2> HIDE DEF match
    <2> QED BY <1>8, <2>1, <2>2
<1>10. MeansFrom(elements, name, 1, 1) <=> Means(elements, name)
    <2>1. 1 - 1 = 0
        OBVIOUS
    <2> QED BY <1>0, <2>1 DEF MeansFrom, Means
<1>11. MatchPattern(p, name) = match[1][1]
    BY DEF MatchPattern
<1> HIDE DEF match
<1> QED BY <1>3, <1>9, <1>10, <1>11 DEF p
=============================================================================
