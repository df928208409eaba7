------------------------------ MODULE NatLemmas ------------------------------
(***************************************************************************)
(* Facts about numbers and sequences that the proofs of several components *)
(* use.  Induction is over a set: a set that contains 0 and with every n   *)
(* also n + 1 contains all natural numbers.                                *)
(***************************************************************************)
EXTENDS Integers, Sequences, FiniteSetTheorems, WellFoundedInduction, TLAPS

(* Every set of natural numbers that is not empty has a least element, as  *)
(* the kernel's choice of the lowest free descriptor assumes.              *)
LEMMA LeastNat ==
    ASSUME NEW T, T \subseteq Nat, T # {}
    PROVE  \E x \in T : \A y \in T : x <= y
  <1> DEFINE R == {ss \in Nat \X Nat : ss[1] < ss[2]}
  <1>1. IsWellFoundedOn(R, Nat)
    BY NatLessThanWellFounded DEF OpToRel
  <1> HIDE DEF R
  <1>2. PICK x \in T : \A y \in T : ~ (<<y, x>> \in R)
    BY <1>1, WFMin
  <1>3. ASSUME NEW y \in T PROVE x <= y
    <2>1. ~ (<<y, x>> \in R)
      BY <1>2
    <2> QED BY <2>1 DEF R
  <1> QED BY <1>3

(* Induction over a set of numbers.                                        *)
LEMMA SetInduction ==
    ASSUME NEW S, 0 \in S, \A n \in Nat : n \in S => n + 1 \in S
    PROVE  \A n \in Nat : n \in S
  <1> SUFFICES ASSUME Nat \ S # {} PROVE FALSE
    OBVIOUS
  <1>1. PICK x \in Nat \ S : \A y \in Nat \ S : x <= y
    BY LeastNat
  <1>2. x # 0 /\ x - 1 \in Nat
    OBVIOUS
  <1>3. x - 1 \in S
    BY <1>1, <1>2
  <1> QED BY <1>2, <1>3

-----------------------------------------------------------------------------
(* How often x is in a queue.                                              *)
Places(q, x) == {k \in 1 .. Len(q) : q[k] = x}
Occurs(q, x) == Cardinality(Places(q, x))

(* It is a number, at most the length of the queue.                        *)
LEMMA OccursType ==
    ASSUME NEW S, NEW q \in Seq(S), NEW x
    PROVE  /\ IsFiniteSet(Places(q, x))
           /\ Occurs(q, x) \in Nat /\ Occurs(q, x) <= Len(q)
  <1>1. IsFiniteSet(1 .. Len(q)) /\ Cardinality(1 .. Len(q)) = Len(q)
    <2>1. Len(q) \in Nat
      OBVIOUS
    <2> QED BY <2>1, FS_Interval
  <1>2. Places(q, x) \subseteq 1 .. Len(q)
    BY DEF Places
  <1>3. IsFiniteSet(Places(q, x)) /\ Occurs(q, x) <= Len(q)
    BY <1>1, <1>2, FS_Subset DEF Occurs
  <1> QED BY <1>3, FS_CardinalityType DEF Occurs

(* Nothing is in an empty queue.                                           *)
LEMMA OccursEmpty == \A x : Occurs(<<>>, x) = 0
  <1>1. \A x : Places(<<>>, x) = {}
    BY DEF Places
  <1> QED BY <1>1, FS_EmptySet DEF Occurs

(* One more is put in.                                                     *)
LEMMA OccursAppend ==
    ASSUME NEW S, NEW q \in Seq(S), NEW x, NEW y \in S
    PROVE  Occurs(Append(q, y), x) =
               IF y = x THEN Occurs(q, x) + 1 ELSE Occurs(q, x)
  <1>1. CASE y = x
    <2>1. Places(Append(q, y), x) = Places(q, x) \cup {Len(q) + 1}
      BY <1>1 DEF Places
    <2>2. Len(q) + 1 \notin Places(q, x)
      BY DEF Places
    <2> QED BY <1>1, <2>1, <2>2, OccursType, FS_AddElement DEF Occurs
  <1>2. CASE y # x
    <2>1. Places(Append(q, y), x) = Places(q, x)
      BY <1>2 DEF Places
    <2> QED BY <1>2, <2>1 DEF Occurs
  <1> QED BY <1>1, <1>2

(* The first is taken out.                                                 *)
LEMMA OccursTail ==
    ASSUME NEW S, NEW q \in Seq(S), q # <<>>, NEW x
    PROVE  Occurs(q, x) = IF Head(q) = x THEN Occurs(Tail(q), x) + 1
                                         ELSE Occurs(Tail(q), x)
  <1> DEFINE P == Places(q, x) \ {1}
             T == Places(Tail(q), x)
             f == [k \in T |-> k + 1]
  <1>1. Tail(q) \in Seq(S) /\ Len(Tail(q)) = Len(q) - 1 /\ Len(q) >= 1
    OBVIOUS
  <1>2. \A k \in 1 .. Len(q) - 1 : Tail(q)[k] = q[k + 1]
    OBVIOUS
  <1>3. f \in Bijection(T, P)
    <2>1. f \in [T -> P]
      BY <1>1, <1>2 DEF Places
    <2>2. \A a, b \in T : f[a] = f[b] => a = b
      BY <1>1 DEF Places
    <2>3. ASSUME NEW b \in P PROVE \E a \in T : f[a] = b
      <3>1. b - 1 \in T /\ f[b - 1] = b
        BY <1>1, <1>2 DEF Places
      <3> QED BY <3>1
    <2> HIDE DEF f, T, P
    <2> QED BY <2>1, <2>2, <2>3
           DEF Bijection, Injection, Surjection, IsInjective
  <1>4. IsFiniteSet(P) /\ Cardinality(P) = Cardinality(T)
    <2>1. ExistsBijection(T, P)
      BY <1>3 DEF ExistsBijection
    <2>2. IsFiniteSet(T)
      BY <1>1, OccursType
    <2> QED BY <2>1, <2>2, FS_Bijection
  <1>5. 1 \in Places(q, x) <=> Head(q) = x
    BY <1>1 DEF Places
  <1> HIDE DEF P
  <1>6. CASE Head(q) = x
    <2>1. Places(q, x) = P \cup {1} /\ 1 \notin P
      BY <1>5, <1>6 DEF P
    <2> QED BY <1>4, <1>6, <2>1, FS_AddElement DEF Occurs
  <1>7. CASE Head(q) # x
    <2>1. Places(q, x) = P
      BY <1>5, <1>7 DEF P
    <2> QED BY <1>4, <1>7, <2>1 DEF Occurs
  <1> QED BY <1>6, <1>7

-----------------------------------------------------------------------------
(* The sum of the first n elements, as a recursive function.               *)
SumTo(f, n) == LET S[k \in 0 .. n] == IF k = 0 THEN 0 ELSE S[k - 1] + f[k]
               IN  S[n]

(* The partial sums of f up to n.                                          *)
Partial(g, f, n) ==
    /\ g \in [0 .. n -> Int] /\ g[0] = 0
    /\ \A k \in 1 .. n : g[k] = g[k - 1] + f[k]

(* There are partial sums of every length.                                 *)
LEMMA PartialExists ==
    ASSUME NEW n \in Nat, NEW f, \A k \in 1 .. n : f[k] \in Int
    PROVE  \E g : Partial(g, f, n)
  <1> DEFINE Z == {m \in Nat : m <= n => \E g : Partial(g, f, m)}
  <1>1. 0 \in Z
    <2>1. Partial([k \in 0 .. 0 |-> 0], f, 0)
      BY DEF Partial
    <2> QED BY <2>1
  <1>2. ASSUME NEW m \in Nat, m \in Z PROVE m + 1 \in Z
    <2> SUFFICES ASSUME m + 1 <= n PROVE \E g : Partial(g, f, m + 1)
      OBVIOUS
    <2>1. PICK g : Partial(g, f, m)
      BY <1>2
    <2> DEFINE h == [k \in 0 .. m + 1 |->
                        IF k = m + 1 THEN g[m] + f[m + 1] ELSE g[k]]
    <2>2. f[m + 1] \in Int /\ g[m] \in Int
      BY <2>1 DEF Partial
    <2>3. h \in [0 .. m + 1 -> Int] /\ h[0] = 0
      BY <2>1, <2>2 DEF Partial
    <2>4. \A k \in 1 .. m + 1 : h[k] = h[k - 1] + f[k]
      BY <2>1 DEF Partial
    <2> HIDE DEF h
    <2> QED BY <2>3, <2>4 DEF Partial
  <1> HIDE DEF Z
  <1>3. n \in Z
    BY <1>1, <1>2, SetInduction
  <1> QED BY <1>3 DEF Z

(* Partial sums agree where the elements do.                               *)
LEMMA PartialUnique ==
    ASSUME NEW n \in Nat, NEW m \in Nat, n <= m, NEW f, NEW e,
           \A k \in 1 .. n : f[k] = e[k],
           NEW g, Partial(g, f, n), NEW h, Partial(h, e, m)
    PROVE  g[n] = h[n]
  <1> DEFINE Z == {k \in Nat : k <= n => g[k] = h[k]}
  <1>1. 0 \in Z
    BY DEF Partial
  <1>2. ASSUME NEW k \in Nat, k \in Z PROVE k + 1 \in Z
    BY <1>2 DEF Partial
  <1> HIDE DEF Z
  <1>3. n \in Z
    BY <1>1, <1>2, SetInduction
  <1> QED BY <1>3 DEF Z

(* The recursive function is the function of the partial sums.             *)
LEMMA SumIsPartial ==
    ASSUME NEW n \in Nat, NEW f, \A k \in 1 .. n : f[k] \in Int
    PROVE  \E g : Partial(g, f, n) /\ SumTo(f, n) = g[n]
  <1> DEFINE S == CHOOSE g : g = [k \in 0 .. n |-> IF k = 0 THEN 0
                                                  ELSE g[k - 1] + f[k]]
  <1>1. PICK g : Partial(g, f, n)
    BY PartialExists
  <1>2. g = [k \in 0 .. n |-> IF k = 0 THEN 0 ELSE g[k - 1] + f[k]]
    BY <1>1 DEF Partial
  <1>3. S = [k \in 0 .. n |-> IF k = 0 THEN 0 ELSE S[k - 1] + f[k]]
    BY <1>2
  <1> HIDE DEF S
  <1>4. S[0] = 0 /\ \A k \in 1 .. n : S[k] = S[k - 1] + f[k]
    BY <1>3
  <1>5. \A k \in 0 .. n : S[k] \in Int
    <2> DEFINE Z == {k \in Nat : k <= n => S[k] \in Int}
    <2>1. 0 \in Z
      BY <1>4
    <2>2. ASSUME NEW k \in Nat, k \in Z PROVE k + 1 \in Z
      BY <1>4, <2>2
    <2> HIDE DEF Z
    <2>3. \A k \in Nat : k \in Z
      BY <2>1, <2>2, SetInduction
    <2> QED BY <2>3 DEF Z
  <1>6. Partial(S, f, n)
    BY <1>3, <1>4, <1>5 DEF Partial
  <1> QED BY <1>6 DEF SumTo, S

(* The sum of one element more.                                            *)
LEMMA SumStep ==
    ASSUME NEW n \in Nat, NEW f, NEW e, \A k \in 1 .. n : f[k] = e[k],
           \A k \in 1 .. n + 1 : e[k] \in Int
    PROVE  /\ SumTo(f, n) \in Int
           /\ SumTo(e, n + 1) = SumTo(f, n) + e[n + 1]
  <1>1. PICK g : Partial(g, f, n) /\ SumTo(f, n) = g[n]
    BY SumIsPartial
  <1>2. PICK h : Partial(h, e, n + 1) /\ SumTo(e, n + 1) = h[n + 1]
    BY SumIsPartial
  <1>3. g[n] = h[n]
    BY <1>1, <1>2, PartialUnique
  <1>4. h[n + 1] = h[n] + e[n + 1] /\ g[n] \in Int
    BY <1>1, <1>2 DEF Partial
  <1> QED BY <1>1, <1>2, <1>3, <1>4

(* The sum of nothing.                                                     *)
LEMMA SumEmpty == ASSUME NEW f PROVE SumTo(f, 0) = 0
  <1>1. PICK g : Partial(g, f, 0) /\ SumTo(f, 0) = g[0]
    BY SumIsPartial
  <1> QED BY <1>1 DEF Partial
=============================================================================
