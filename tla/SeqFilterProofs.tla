--------------------------- MODULE SeqFilterProofs ---------------------------
(***************************************************************************)
(* What Keep and Without return, for every sequence and every set.  The    *)
(* induction is over a set of numbers: the library's principles take a     *)
(* predicate, which the provers cannot instantiate.                        *)
(***************************************************************************)
EXTENDS SeqFilter, SequencesExt, SequenceTheorems, WellFoundedInduction, TLAPS

(* A set of numbers that has 0 and every successor has them all.           *)
LEMMA Induction ==
  ASSUME NEW N, 0 \in N, \A n \in Nat : n \in N => n + 1 \in N
  PROVE  \A n \in Nat : n \in N
<1> DEFINE T == Nat \ N
           R == OpToRel(<, Nat)
<1>1. SUFFICES ASSUME T # {} PROVE FALSE
  OBVIOUS
<1>2. IsWellFoundedOn(R, Nat)
  BY NatLessThanWellFounded
<1>3. PICK n \in T : \A m \in T : ~(<<m, n>> \in R)
  <2> HIDE DEF R
  <2> QED BY <1>1, <1>2, WFMin
<1>4. \A m \in T : ~(m < n)
  BY <1>3 DEF OpToRel
<1>5. n # 0 /\ n - 1 \in Nat
  OBVIOUS
<1> QED BY <1>4, <1>5

(* One more element of the recursion behind Keep.                          *)
KeptStep(f, q, S, n) ==
  IF n = 0 THEN <<>>
  ELSE IF q[n] \in S THEN Append(f[n - 1], q[n]) ELSE f[n - 1]

KeptUpTo(f, q, S, n) == f = [i \in 0..n |-> KeptStep(f, q, S, i)]

(* The recursion has a solution for every length.                          *)
LEMMA KeepExists ==
  ASSUME NEW q, NEW S, NEW l \in Nat
  PROVE  \E f : KeptUpTo(f, q, S, l)
<1> DEFINE N == {n \in Nat : \E f : KeptUpTo(f, q, S, n)}
<1>1. 0 \in N
  <2> DEFINE f == [i \in 0..0 |-> <<>>]
  <2>1. KeptUpTo(f, q, S, 0)
    BY DEF KeptUpTo, KeptStep
  <2> HIDE DEF f
  <2> QED BY <2>1
<1>2. ASSUME NEW n \in Nat, n \in N PROVE n + 1 \in N
  <2>1. PICK f : KeptUpTo(f, q, S, n)
    BY <1>2
  <2>2. \A i \in 0..n : f[i] = KeptStep(f, q, S, i)
    BY <2>1 DEF KeptUpTo
  <2> DEFINE g == [i \in 0..(n + 1) |-> IF i <= n THEN f[i]
                                        ELSE KeptStep(f, q, S, n + 1)]
  <2>3. \A i \in 0..(n + 1) : g[i] = KeptStep(g, q, S, i)
    <3> SUFFICES ASSUME NEW i \in 0..(n + 1) PROVE g[i] = KeptStep(g, q, S, i)
      OBVIOUS
    <3>1. i # 0 => g[i - 1] = f[i - 1]
      OBVIOUS
    <3>2. g[i] = KeptStep(f, q, S, i)
      BY <2>2
    <3> HIDE DEF g
    <3> QED BY <3>1, <3>2 DEF KeptStep
  <2>4. g = [i \in 0..(n + 1) |-> g[i]]
    OBVIOUS
  <2> HIDE DEF g
  <2>5. KeptUpTo(g, q, S, n + 1)
    BY <2>3, <2>4 DEF KeptUpTo
  <2> QED BY <2>5
<1>3. l \in N
  <2> HIDE DEF N
  <2> QED BY <1>1, <1>2, Induction
<1> QED BY <1>3

(* Keep is the last value of a function that satisfies the recursion.      *)
LEMMA KeepDef ==
  ASSUME NEW q, NEW S, Len(q) \in Nat
  PROVE  \E f : KeptUpTo(f, q, S, Len(q)) /\ Keep(q, S) = f[Len(q)]
<1> DEFINE F == CHOOSE f : KeptUpTo(f, q, S, Len(q))
<1>1. KeptUpTo(F, q, S, Len(q))
  BY KeepExists
<1>2. Keep(q, S) = F[Len(q)]
  BY DEF Keep, KeptUpTo, KeptStep
<1> HIDE DEF F
<1> QED BY <1>1, <1>2

(* Keep returns a sequence of exactly the elements of q that are in S, and *)
(* none twice that q does not have twice.                                  *)
LEMMA KeepSpec ==
  ASSUME NEW T, NEW q \in Seq(T), NEW S
  PROVE  /\ Keep(q, S) \in Seq(T)
         /\ ToSet(Keep(q, S)) = ToSet(q) \cap S
         /\ IsInjective(q) => IsInjective(Keep(q, S))
<1>1. PICK f : KeptUpTo(f, q, S, Len(q)) /\ Keep(q, S) = f[Len(q)]
  BY KeepDef, LenProperties
<1> DEFINE Upto(n) == {q[i] : i \in 1..n}
           Good(n) == /\ f[n] \in Seq(T)
                      /\ ToSet(f[n]) = Upto(n) \cap S
                      /\ IsInjective(q) => IsInjective(f[n])
           N == {n \in Nat : n <= Len(q) => Good(n)}
<1>2. \A n \in 0..Len(q) : f[n] = KeptStep(f, q, S, n)
  BY <1>1 DEF KeptUpTo
<1>3. 0 \in N
  <2>1. f[0] = <<>>
    BY <1>2, LenProperties DEF KeptStep
  <2>2. f[0] \in Seq(T) /\ DOMAIN f[0] = {}
    BY <2>1
  <2> QED BY <2>2 DEF ToSet, IsInjective
<1>4. ASSUME NEW n \in Nat, n \in N PROVE n + 1 \in N
  <2> SUFFICES ASSUME n + 1 <= Len(q) PROVE Good(n + 1)
    OBVIOUS
  <2>0. Len(q) \in Nat /\ DOMAIN q = 1..Len(q)
        /\ \A i \in 1..Len(q) : q[i] \in T
    BY LenProperties, ElementOfSeq
  <2>1. Good(n)
    BY <1>4, <2>0
  <2>2. n + 1 \in 1..Len(q) /\ q[n + 1] \in T
    BY <2>0
  <2>3. f[n + 1] = IF q[n + 1] \in S THEN Append(f[n], q[n + 1]) ELSE f[n]
    BY <1>2, <2>0 DEF KeptStep
  <2>4. Upto(n + 1) = Upto(n) \cup {q[n + 1]}
    OBVIOUS
  <2>5. CASE q[n + 1] \notin S
    BY <2>1, <2>3, <2>4, <2>5
  <2>6. CASE q[n + 1] \in S
    <3> DEFINE s == f[n]
               e == q[n + 1]
               t == Append(s, e)
    <3>1. s \in Seq(T) /\ e \in T /\ f[n + 1] = t
      BY <2>1, <2>2, <2>3, <2>6
    <3>2. /\ t \in Seq(T) /\ Len(t) = Len(s) + 1 /\ Len(s) \in Nat
          /\ \A i \in 1..Len(s) : t[i] = s[i]
          /\ t[Len(s) + 1] = e
          /\ DOMAIN s = 1..Len(s) /\ DOMAIN t = 1..(Len(s) + 1)
      <4> HIDE DEF s, e
      <4> QED BY <3>1, AppendProperties, LenProperties
    <3>3. ToSet(t) = ToSet(s) \cup {e}
      <4> HIDE DEF s, e, t
      <4> QED BY <3>2 DEF ToSet
    <3>4. IsInjective(q) => e \notin ToSet(s)
      <4>1. IsInjective(q) => e \notin Upto(n)
        BY <2>0, <2>2 DEF IsInjective
      <4> QED BY <2>1, <4>1
    <3>5. IsInjective(s) /\ e \notin ToSet(s) => IsInjective(t)
      <4> HIDE DEF s, e, t
      <4> QED BY <3>2 DEF IsInjective, ToSet
    <3>6. ToSet(t) = Upto(n + 1) \cap S
      <4> HIDE DEF Upto, t
      <4> QED BY <2>1, <2>4, <2>6, <3>3
    <3> HIDE DEF s, e, t, Upto
    <3> QED BY <2>1, <3>1, <3>2, <3>4, <3>5, <3>6 DEF s
  <2> QED BY <2>5, <2>6
<1>5. Len(q) \in N /\ Len(q) \in Nat
  <2> HIDE DEF N
  <2> QED BY <1>3, <1>4, Induction, LenProperties
<1>6. Upto(Len(q)) = ToSet(q)
  BY LenProperties DEF ToSet
<1> QED BY <1>1, <1>5, <1>6

(* What Without returns: the other elements, none of them twice if none    *)
(* was.                                                                    *)
LEMMA WithoutSpec ==
  ASSUME NEW T, NEW q \in Seq(T), NEW S
  PROVE  /\ Without(q, S) \in Seq(T)
         /\ ToSet(Without(q, S)) = ToSet(q) \ S
         /\ IsInjective(q) => IsInjective(Without(q, S))
<1> DEFINE K == {q[n] : n \in DOMAIN q} \ S
<1>1. Without(q, S) = Keep(q, K)
  BY DEF Without
<1>2. K = ToSet(q) \ S
  BY DEF ToSet
<1> HIDE DEF K
<1> QED BY <1>1, <1>2, KeepSpec

(* Pushing an element that is not in the queue.                            *)
LEMMA Pushed ==
  ASSUME NEW T, NEW q \in Seq(T), NEW e \in T
  PROVE  /\ Append(q, e) \in Seq(T)
         /\ ToSet(Append(q, e)) = ToSet(q) \cup {e}
         /\ IsInjective(q) /\ e \notin ToSet(q) => IsInjective(Append(q, e))
<1> DEFINE t == Append(q, e)
<1>1. /\ t \in Seq(T) /\ Len(t) = Len(q) + 1 /\ Len(q) \in Nat
      /\ \A i \in 1..Len(q) : t[i] = q[i]
      /\ t[Len(q) + 1] = e
      /\ DOMAIN q = 1..Len(q) /\ DOMAIN t = 1..(Len(q) + 1)
  BY AppendProperties, LenProperties
<1> HIDE DEF t
<1>2. ToSet(t) = ToSet(q) \cup {e}
  BY <1>1 DEF ToSet
<1>3. IsInjective(q) /\ e \notin ToSet(q) => IsInjective(t)
  BY <1>1 DEF IsInjective, ToSet
<1> QED BY <1>1, <1>2, <1>3 DEF t

(* What leaves the sequence of claimed rows, and what stays.               *)
LEMMA TailOf ==
  ASSUME NEW T, NEW q \in Seq(T), q # <<>>, IsInjective(q)
  PROVE  /\ Tail(q) \in Seq(T) /\ IsInjective(Tail(q))
         /\ Head(q) \in ToSet(q) /\ Head(q) \in T
         /\ ToSet(Tail(q)) = ToSet(q) \ {Head(q)}
<1> DEFINE t == Tail(q)
<1>1. /\ Len(q) \in Nat \ {0} /\ DOMAIN q = 1..Len(q) /\ Head(q) = q[1]
      /\ \A i \in 1..Len(q) : q[i] \in T
  BY HeadTailProperties, LenProperties, EmptySeq
<1>2. /\ t \in Seq(T) /\ DOMAIN t = 1..(Len(q) - 1)
      /\ \A i \in 1..(Len(q) - 1) : t[i] = q[i + 1]
  BY <1>1, HeadTailProperties, LenProperties
<1> HIDE DEF t
<1>3. /\ \A i, j \in 1..Len(q) : q[i] = q[j] => i = j
      /\ ToSet(q) = {q[i] : i \in 1..Len(q)}
      /\ ToSet(t) = {t[i] : i \in 1..(Len(q) - 1)}
  BY <1>1, <1>2 DEF IsInjective, ToSet
<1>4. IsInjective(t)
  <2>1. ASSUME NEW i \in 1..(Len(q) - 1), NEW j \in 1..(Len(q) - 1), t[i] = t[j]
        PROVE  i = j
    <3>1. i + 1 \in 1..Len(q) /\ j + 1 \in 1..Len(q) /\ q[i + 1] = q[j + 1]
      BY <1>1, <1>2, <2>1
    <3>2. i + 1 = j + 1
      BY <1>3, <3>1
    <3> QED BY <1>1, <3>2
  <2> QED BY <1>2, <2>1 DEF IsInjective
<1>5. ToSet(t) = ToSet(q) \ {q[1]}
  <2>1. ASSUME NEW x \in ToSet(t) PROVE x \in ToSet(q) \ {q[1]}
    <3>1. PICK i \in 1..(Len(q) - 1) : t[i] = x
      BY <1>3, <2>1
    <3>2. i + 1 \in 1..Len(q) /\ 1 \in 1..Len(q) /\ q[i + 1] = x /\ i + 1 # 1
      BY <1>1, <1>2, <3>1
    <3> QED BY <1>3, <3>2
  <2>2. ASSUME NEW x \in ToSet(q) \ {q[1]} PROVE x \in ToSet(t)
    <3>1. PICK i \in 2..Len(q) : q[i] = x
      BY <1>1, <1>3, <2>2
    <3>2. i - 1 \in 1..(Len(q) - 1) /\ t[i - 1] = x
      BY <1>1, <1>2, <3>1
    <3> QED BY <1>3, <3>2
  <2> QED BY <2>1, <2>2
<1>6. q[1] \in ToSet(q) /\ q[1] \in T
  BY <1>1, <1>3
<1> QED BY <1>1, <1>2, <1>4, <1>5, <1>6 DEF t
=============================================================================
