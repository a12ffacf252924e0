------------------------------ MODULE ListFacts -------------------------------
(***************************************************************************)
(* Facts the proofs keep needing: induction over the naturals, that a loop *)
(* over a list has a result, and what a loop that keeps part of it returns.*)
(*                                                                         *)
(* The induction theorems of the library take the property as an operator. *)
(* Here it is a set of naturals, so that it can be cited with any of them: *)
(* a set that holds 0 and the successor of each of its members holds every *)
(* natural, since the least one it lacked would have no predecessor.       *)
(***************************************************************************)
EXTENDS Lists, WellFoundedInduction, TLAPS

\* A set of naturals that is not empty has a least element.
LEMMA Least == ASSUME NEW S \in SUBSET Nat, S # {} PROVE \E m \in S : \A n \in S : m <= n
<1> DEFINE R == OpToRel(<, Nat)
<1>1. IsWellFoundedOn(R, Nat)  BY NatLessThanWellFounded
<1>2. PICK m \in S : \A n \in S : ~ (<<n, m>> \in R)
  <2> HIDE DEF R
  <2> QED  BY <1>1, WFMin
<1>3. \A n \in S : ~(n < m)  BY <1>2 DEF OpToRel
<1> QED  BY <1>3

\* Induction over the naturals, for a property given as a set.
LEMMA Inductive ==
    ASSUME NEW S, 0 \in S, \A n \in Nat : n \in S => n + 1 \in S
    PROVE  Nat \subseteq S
<1> SUFFICES ASSUME Nat \ S # {} PROVE FALSE  OBVIOUS
<1>1. PICK m \in Nat \ S : \A n \in Nat \ S : m <= n
  <2> DEFINE T == Nat \ S
  <2>1. T \in SUBSET Nat /\ T # {}  OBVIOUS
  <2> HIDE DEF T
  <2>2. PICK m \in T : \A n \in T : m <= n  BY <2>1, Least
  <2> QED  BY <2>2 DEF T
<1> QED  BY <1>1

\* A set of numbers up to n that is not empty has a greatest element.
LEMMA Greatest ==
    ASSUME NEW n \in Nat, NEW S \in SUBSET (1 .. n), S # {}
    PROVE  \E m \in S : \A k \in S : k <= m
<1> DEFINE T == {n - k : k \in S}
<1>1. T \in SUBSET Nat /\ T # {}
  <2>1. \A k \in S : n - k \in Nat  OBVIOUS
  <2>2. \A x \in T : x \in Nat  BY <2>1
  <2>3. PICK k : k \in S  OBVIOUS
  <2>4. n - k \in T  BY <2>3
  <2> HIDE DEF T
  <2> QED  BY <2>2, <2>4
<1>2. PICK d \in T : \A e \in T : d <= e
  <2> HIDE DEF T
  <2> QED  BY <1>1, Least
<1>3. PICK m \in S : d = n - m  OBVIOUS
<1>4. m \in Int /\ \A k \in S : k \in Int /\ n - k \in T  OBVIOUS
<1>5. ASSUME NEW k \in S PROVE k <= m
  <2>1. n - m <= n - k  BY <1>2, <1>3, <1>4
  <2> HIDE DEF T
  <2> QED  BY <1>4, <2>1
<1> QED  BY <1>5

-----------------------------------------------------------------------------
(***************************************************************************)
(* Loops that carry a result from one element to the next.  The recursive  *)
(* definition of such a result chooses a function that may not exist;      *)
(* here it is built, one step at a time.  The hypotheses and the result    *)
(* have names of their own so that a proof can cite them as they are.      *)
(***************************************************************************)
\* A step that takes each element in turn has a result after each of them.
Foldable(X, N, base, step) == N \in Nat /\ base \in X /\ step \in [X \X (1 .. N) -> X]
IsFold(f, X, N, base, step) ==
    f \in [0 .. N -> X] /\ f[0] = base /\ \A n \in 1 .. N : f[n] = step[<<f[n - 1], n>>]

LEMMA FoldedUp ==
    ASSUME NEW X, NEW N, NEW base, NEW step, Foldable(X, N, base, step)
    PROVE  \E f : IsFold(f, X, N, base, step)
<1>0. N \in Nat /\ base \in X /\ step \in [X \X (1 .. N) -> X]  BY DEF Foldable
<1> DEFINE Good(f, m) == /\ f \in [0 .. m -> X] /\ f[0] = base
                         /\ \A n \in 1 .. m : f[n] = step[<<f[n - 1], n>>]
           S == {m \in Nat : m <= N => \E f : Good(f, m)}
<1>1. 0 \in S
  <2> DEFINE f == [i \in 0 .. 0 |-> base]
  <2>1. Good(f, 0)  BY <1>0
  <2> HIDE DEF Good, f
  <2> QED  BY <2>1
<1>2. ASSUME NEW m \in Nat, m \in S PROVE m + 1 \in S
  <2> SUFFICES ASSUME m + 1 <= N PROVE \E f : Good(f, m + 1)
    <3> HIDE DEF Good
    <3> QED  OBVIOUS
  <2>1. PICK f : Good(f, m)  BY <1>0, <1>2
  <2> DEFINE g == [i \in 0 .. m + 1 |-> IF i = m + 1 THEN step[<<f[m], m + 1>>] ELSE f[i]]
  <2>2. step[<<f[m], m + 1>>] \in X
    <3>1. f[m] \in X /\ m + 1 \in 1 .. N  BY <1>0, <2>1
    <3> QED  BY <1>0, <3>1
  <2>3. g \in [0 .. m + 1 -> X]  BY <2>1, <2>2
  <2>4. ASSUME NEW n \in 1 .. m + 1 PROVE g[n] = step[<<g[n - 1], n>>]
    <3>1. CASE n = m + 1
      <4>1. g[n - 1] = f[m] /\ g[n] = step[<<f[m], m + 1>>]  BY <3>1
      <4> QED  BY <3>1, <4>1
    <3>2. CASE n # m + 1
      <4>1. n \in 1 .. m /\ g[n] = f[n] /\ g[n - 1] = f[n - 1]  BY <3>2
      <4> QED  BY <2>1, <4>1
    <3> QED  BY <3>1, <3>2
  <2>5. g[0] = base  BY <2>1
  <2> HIDE DEF g
  <2> QED  BY <2>3, <2>4, <2>5
<1>3. N \in S
  <2> HIDE DEF S
  <2> QED  BY <1>0, <1>1, <1>2, Inductive
<1>4. PICK f : Good(f, N)  BY <1>0, <1>3
<1> QED  BY <1>4 DEF IsFold

\* One element more.
LEMMA LongerByOne ==
    ASSUME NEW A, NEW t \in Seq(A), NEW x \in A
    PROVE  Append(t, x) \in Seq(A) /\ Len(Append(t, x)) = Len(t) + 1
OBVIOUS

-----------------------------------------------------------------------------
(***************************************************************************)
(* Lists.Kept.                                                             *)
(***************************************************************************)
\* What is kept of the first elements, for each number of them.
UpTo(s, wanted) ==
    CHOOSE f : f = [i \in 0 .. Len(s) |->
            IF i = 0 THEN <<>>
            ELSE IF s[i] \in wanted THEN Append(f[i - 1], s[i]) ELSE f[i - 1]]

LEMMA UpToKept == ASSUME NEW s, NEW wanted PROVE Kept(s, wanted) = UpTo(s, wanted)[Len(s)]
BY DEF Kept, UpTo

\* There is such a function: one for the first n elements extends to the next.
LEMMA UpToDefined ==
    ASSUME NEW s, Len(s) \in Nat, NEW wanted
    PROVE  UpTo(s, wanted) = [i \in 0 .. Len(s) |->
               IF i = 0 THEN <<>>
               ELSE IF s[i] \in wanted THEN Append(UpTo(s, wanted)[i - 1], s[i])
                    ELSE UpTo(s, wanted)[i - 1]]
<1> DEFINE Step(f, i) == IF i = 0 THEN <<>>
                   ELSE IF s[i] \in wanted THEN Append(f[i - 1], s[i]) ELSE f[i - 1]
           S == {n \in Nat : \E f : f = [i \in 0 .. n |-> Step(f, i)]}
<1>1. 0 \in S
  <2> DEFINE f == [i \in 0 .. 0 |-> <<>>]
  <2>1. f = [i \in 0 .. 0 |-> Step(f, i)]  OBVIOUS
  <2> QED  BY <2>1
<1>2. ASSUME NEW n \in Nat, n \in S PROVE n + 1 \in S
  <2>1. PICK f : f = [i \in 0 .. n |-> Step(f, i)]  BY <1>2
  <2> DEFINE g == [i \in 0 .. n + 1 |-> IF i = n + 1 THEN Step(f, i) ELSE f[i]]
  <2>2. \A i \in 0 .. n : g[i] = f[i]  OBVIOUS
  <2>3. \A i \in 0 .. n + 1 : g[i] = Step(g, i)
    <3>1. Step(g, n + 1) = Step(f, n + 1)  BY <2>2
    <3>2. g[n + 1] = Step(g, n + 1)  BY <3>1
    <3>3. ASSUME NEW i \in 0 .. n PROVE g[i] = Step(g, i)
      <4>1. f[i] = Step(f, i)  BY <2>1
      <4>2. i # 0 => g[i - 1] = f[i - 1]  BY <2>2
      <4> QED  BY <2>2, <4>1, <4>2
    <3> HIDE DEF Step, g
    <3> QED  BY <3>2, <3>3
  <2>4. g = [i \in 0 .. n + 1 |-> Step(g, i)]
    <3> HIDE DEF Step
    <3> QED  BY <2>3
  <2> HIDE DEF Step, g
  <2> QED  BY <2>4
<1>3. Len(s) \in S
  <2> HIDE DEF S
  <2> QED  BY <1>1, <1>2, Inductive
<1>4. \E f : f = [i \in 0 .. Len(s) |-> Step(f, i)]  BY <1>3
<1> QED  BY <1>4 DEF UpTo

LEMMA UpToSteps ==
    ASSUME NEW s, Len(s) \in Nat, NEW wanted
    PROVE  /\ UpTo(s, wanted)[0] = <<>>
           /\ \A n \in 1 .. Len(s) :
                 UpTo(s, wanted)[n] = IF s[n] \in wanted
                                      THEN Append(UpTo(s, wanted)[n - 1], s[n])
                                      ELSE UpTo(s, wanted)[n - 1]
<1> DEFINE U == UpTo(s, wanted)
<1>1. U = [i \in 0 .. Len(s) |->
              IF i = 0 THEN <<>>
              ELSE IF s[i] \in wanted THEN Append(U[i - 1], s[i]) ELSE U[i - 1]]
  BY UpToDefined
<1>2. 0 \in 0 .. Len(s) /\ \A n \in 1 .. Len(s) : n \in 0 .. Len(s) /\ n # 0  OBVIOUS
<1> HIDE DEF U
<1>3. U[0] = <<>>  BY <1>1, <1>2
<1>4. \A n \in 1 .. Len(s) :
         U[n] = IF s[n] \in wanted THEN Append(U[n - 1], s[n]) ELSE U[n - 1]
  BY <1>1, <1>2
<1> QED  BY <1>3, <1>4 DEF U

\* What is kept is what was wanted, once for each place it had and in the order it had.
LEMMA KeptFacts ==
    ASSUME NEW A, NEW s \in Seq(A), NEW wanted
    PROVE  /\ Kept(s, wanted) \in Seq(A)
           /\ \A k \in DOMAIN Kept(s, wanted) :
                 /\ Kept(s, wanted)[k] \in wanted
                 /\ \E i \in DOMAIN s : s[i] = Kept(s, wanted)[k]
           /\ \A i \in DOMAIN s : s[i] \in wanted =>
                 \E k \in DOMAIN Kept(s, wanted) : Kept(s, wanted)[k] = s[i]
           /\ \A k, l \in DOMAIN Kept(s, wanted) : k < l =>
                 \E i, j \in DOMAIN s :
                    i < j /\ s[i] = Kept(s, wanted)[k] /\ s[j] = Kept(s, wanted)[l]
<1> DEFINE U == UpTo(s, wanted)
           Good(n) == /\ U[n] \in Seq(A)
                      /\ \A k \in 1 .. Len(U[n]) :
                            U[n][k] \in wanted /\ \E i \in 1 .. n : s[i] = U[n][k]
                      /\ \A i \in 1 .. n : s[i] \in wanted =>
                            \E k \in 1 .. Len(U[n]) : U[n][k] = s[i]
                      /\ \A k, l \in 1 .. Len(U[n]) : k < l =>
                            \E i, j \in 1 .. n : i < j /\ s[i] = U[n][k] /\ s[j] = U[n][l]
           S == {n \in Nat : n <= Len(s) => Good(n)}
<1>1. /\ U[0] = <<>>
      /\ \A n \in 1 .. Len(s) :
            U[n] = IF s[n] \in wanted THEN Append(U[n - 1], s[n]) ELSE U[n - 1]
  BY UpToSteps
<1> HIDE DEF U
<1>2. 0 \in S
  <2>1. U[0] \in Seq(A) /\ Len(U[0]) = 0  BY <1>1
  <2> QED  BY <2>1
<1>3. ASSUME NEW n \in Nat, n \in S PROVE n + 1 \in S
  <2> SUFFICES ASSUME n + 1 <= Len(s) PROVE Good(n + 1)  OBVIOUS
  <2>1. Good(n) /\ n + 1 \in 1 .. Len(s) /\ (n + 1) - 1 = n /\ s[n + 1] \in A  BY <1>3
  <2>2. CASE s[n + 1] \notin wanted
    <3>1. U[n + 1] = U[n]  BY <1>1, <2>1, <2>2
    <3>2. \A i \in 1 .. n + 1 : i \in 1 .. n \/ i = n + 1  OBVIOUS
    <3>3. \A i \in 1 .. n : i \in 1 .. n + 1  OBVIOUS
    <3> DEFINE u == U[n]  v == U[n + 1]
    <3>4. /\ u \in Seq(A)
          /\ \A k \in 1 .. Len(u) : u[k] \in wanted /\ \E i \in 1 .. n : s[i] = u[k]
          /\ \A i \in 1 .. n : s[i] \in wanted => \E k \in 1 .. Len(u) : u[k] = s[i]
          /\ \A k, l \in 1 .. Len(u) : k < l =>
                \E i, j \in 1 .. n : i < j /\ s[i] = u[k] /\ s[j] = u[l]
      BY <2>1
    <3>5. v = u  BY <3>1
    <3> HIDE DEF u, v
    <3>6. \A k \in 1 .. Len(u) : u[k] \in wanted /\ \E i \in 1 .. n + 1 : s[i] = u[k]
      BY <3>3, <3>4
    <3>7. \A i \in 1 .. n + 1 : s[i] \in wanted => \E k \in 1 .. Len(u) : u[k] = s[i]
      BY <2>2, <3>2, <3>4
    <3>8. \A k, l \in 1 .. Len(u) : k < l =>
                \E i, j \in 1 .. n + 1 : i < j /\ s[i] = u[k] /\ s[j] = u[l]
      BY <3>3, <3>4
    <3> QED  BY <3>4, <3>5, <3>6, <3>7, <3>8 DEF v
  <2>3. CASE s[n + 1] \in wanted
    <3>1. U[n + 1] = Append(U[n], s[n + 1])  BY <1>1, <2>1, <2>3
    <3> DEFINE u == U[n]  v == U[n + 1]
    <3>2. /\ v \in Seq(A) /\ Len(v) = Len(u) + 1 /\ Len(u) \in Nat
          /\ v[Len(u) + 1] = s[n + 1] /\ \A k \in 1 .. Len(u) : v[k] = u[k]
      BY <2>1, <3>1
    <3>3. \A k \in 1 .. Len(v) : k \in 1 .. Len(u) \/ k = Len(u) + 1  BY <3>2
    <3>4. \A i \in 1 .. n + 1 : i \in 1 .. n \/ i = n + 1  OBVIOUS
    <3>5. /\ \A k \in 1 .. Len(u) : u[k] \in wanted /\ \E i \in 1 .. n : s[i] = u[k]
          /\ \A i \in 1 .. n : s[i] \in wanted => \E k \in 1 .. Len(u) : u[k] = s[i]
          /\ \A k, l \in 1 .. Len(u) : k < l =>
                \E i, j \in 1 .. n : i < j /\ s[i] = u[k] /\ s[j] = u[l]
      BY <2>1
    <3> HIDE DEF u, v
    <3>0. /\ \A i \in 1 .. n : i \in 1 .. n + 1
          /\ n + 1 \in 1 .. n + 1
          /\ \A k \in 1 .. Len(u) : k \in 1 .. Len(v)
          /\ Len(u) + 1 \in 1 .. Len(v)
      BY <3>2
    <3>6. ASSUME NEW k \in 1 .. Len(v)
          PROVE  v[k] \in wanted /\ \E i \in 1 .. n + 1 : s[i] = v[k]
      <4>1. CASE k \in 1 .. Len(u)  BY <3>0, <3>2, <3>5, <4>1
      <4>2. CASE k = Len(u) + 1  BY <3>0, <3>2, <2>3, <4>2
      <4> QED  BY <3>3, <4>1, <4>2
    <3>7. ASSUME NEW i \in 1 .. n + 1, s[i] \in wanted
          PROVE  \E k \in 1 .. Len(v) : v[k] = s[i]
      <4>1. CASE i \in 1 .. n
        <5>1. PICK k \in 1 .. Len(u) : u[k] = s[i]  BY <3>5, <3>7, <4>1
        <5> QED  BY <3>0, <3>2, <5>1
      <4>2. CASE i = n + 1  BY <3>0, <3>2, <4>2
      <4> QED  BY <3>4, <4>1, <4>2
    <3>8. ASSUME NEW k \in 1 .. Len(v), NEW l \in 1 .. Len(v), k < l
          PROVE  \E i, j \in 1 .. n + 1 : i < j /\ s[i] = v[k] /\ s[j] = v[l]
      <4>1. CASE l \in 1 .. Len(u)
        <5>1. k \in 1 .. Len(u)  BY <3>2, <3>3, <3>8, <4>1
        <5>2. PICK i \in 1 .. n, j \in 1 .. n : i < j /\ s[i] = u[k] /\ s[j] = u[l]
          BY <3>5, <3>8, <4>1, <5>1
        <5>3. i \in 1 .. n + 1 /\ j \in 1 .. n + 1  OBVIOUS
        <5> QED  BY <3>2, <4>1, <5>1, <5>2, <5>3
      <4>2. CASE l = Len(u) + 1
        <5>1. k \in 1 .. Len(u)  BY <3>2, <3>3, <3>8, <4>2
        <5>2. PICK i \in 1 .. n : s[i] = u[k]  BY <3>5, <5>1
        <5>3. i \in 1 .. n + 1 /\ n + 1 \in 1 .. n + 1 /\ i < n + 1  OBVIOUS
        <5> QED  BY <3>2, <4>2, <5>1, <5>2, <5>3
      <4> QED  BY <3>3, <4>1, <4>2
    <3> QED  BY <3>2, <3>6, <3>7, <3>8 DEF v
  <2> QED  BY <2>2, <2>3
<1>4. Len(s) \in S
  <2> HIDE DEF S
  <2> QED  BY <1>2, <1>3, Inductive
<1> DEFINE u == U[Len(s)]
<1>5. Good(Len(s))  BY <1>4
<1>6. Kept(s, wanted) = u  BY UpToKept DEF U
<1>7. u \in Seq(A) /\ DOMAIN u = 1 .. Len(u) /\ DOMAIN s = 1 .. Len(s)  BY <1>5
<1>8. /\ u \in Seq(A)
      /\ \A k \in 1 .. Len(u) : u[k] \in wanted /\ \E i \in 1 .. Len(s) : s[i] = u[k]
      /\ \A i \in 1 .. Len(s) : s[i] \in wanted => \E k \in 1 .. Len(u) : u[k] = s[i]
      /\ \A k, l \in 1 .. Len(u) : k < l =>
            \E i, j \in 1 .. Len(s) : i < j /\ s[i] = u[k] /\ s[j] = u[l]
  BY <1>5
<1> HIDE DEF u
<1> DEFINE D == DOMAIN u  E == DOMAIN s
<1>9. D = 1 .. Len(u) /\ E = 1 .. Len(s)  BY <1>7
<1> HIDE DEF D, E
<1>10. /\ \A k \in D : u[k] \in wanted /\ \E i \in E : s[i] = u[k]
       /\ \A i \in E : s[i] \in wanted => \E k \in D : u[k] = s[i]
       /\ \A k, l \in D : k < l => \E i, j \in E : i < j /\ s[i] = u[k] /\ s[j] = u[l]
  BY <1>8, <1>9
<1> QED  BY <1>6, <1>8, <1>10 DEF D, E

\* A list all of which is wanted stays as it is.
LEMMA KeptAll ==
    ASSUME NEW A, NEW s \in Seq(A), NEW wanted, \A i \in DOMAIN s : s[i] \in wanted
    PROVE  Kept(s, wanted) = s
<1> DEFINE U == UpTo(s, wanted)
           Good(n) == U[n] \in Seq(A) /\ Len(U[n]) = n /\ \A k \in 1 .. n : U[n][k] = s[k]
           S == {n \in Nat : n <= Len(s) => Good(n)}
<1>1. /\ U[0] = <<>>
      /\ \A n \in 1 .. Len(s) : U[n] = IF s[n] \in wanted THEN Append(U[n - 1], s[n]) ELSE U[n - 1]
  BY UpToSteps
<1>2. \A n \in 1 .. Len(s) : s[n] \in wanted /\ s[n] \in A  OBVIOUS
<1> HIDE DEF U
<1>3. 0 \in S
  <2>1. U[0] \in Seq(A) /\ Len(U[0]) = 0  BY <1>1
  <2> QED  BY <2>1
<1>4. ASSUME NEW n \in Nat, n \in S PROVE n + 1 \in S
  <2> SUFFICES ASSUME n + 1 <= Len(s) PROVE Good(n + 1)  OBVIOUS
  <2>1. Good(n) /\ n + 1 \in 1 .. Len(s) /\ (n + 1) - 1 = n  BY <1>4
  <2>2. U[n + 1] = Append(U[n], s[n + 1])  BY <1>1, <1>2, <2>1
  <2> DEFINE u == U[n]  v == U[n + 1]
  <2>3. u \in Seq(A) /\ Len(u) = n /\ v = Append(u, s[n + 1]) /\ s[n + 1] \in A
    BY <1>2, <2>1, <2>2
  <2>4. \A k \in 1 .. n : u[k] = s[k]  BY <2>1
  <2> HIDE DEF u, v
  <2>5. v \in Seq(A) /\ Len(v) = n + 1 /\ v[n + 1] = s[n + 1] /\ \A k \in 1 .. n : v[k] = u[k]
    BY <2>3
  <2>6. \A k \in 1 .. n + 1 : k \in 1 .. n \/ k = n + 1  OBVIOUS
  <2> QED  BY <2>4, <2>5, <2>6 DEF v
<1>5. Len(s) \in S
  <2> HIDE DEF S
  <2> QED  BY <1>3, <1>4, Inductive
<1> DEFINE u == U[Len(s)]
<1>6. u \in Seq(A) /\ Len(u) = Len(s) /\ \A k \in 1 .. Len(s) : u[k] = s[k]  BY <1>5
<1>7. Kept(s, wanted) = u  BY UpToKept DEF U
<1> HIDE DEF u
<1>8. u = s  BY <1>6
<1> QED  BY <1>7, <1>8

\* What is kept is no longer than the list.
LEMMA KeptShorter ==
    ASSUME NEW A, NEW s \in Seq(A), NEW wanted
    PROVE  Kept(s, wanted) \in Seq(A) /\ Len(Kept(s, wanted)) <= Len(s)
<1> DEFINE U == UpTo(s, wanted)
           Good(n) == U[n] \in Seq(A) /\ Len(U[n]) <= n
           S == {n \in Nat : n <= Len(s) => Good(n)}
<1>1. /\ U[0] = <<>>
      /\ \A n \in 1 .. Len(s) : U[n] = IF s[n] \in wanted THEN Append(U[n - 1], s[n]) ELSE U[n - 1]
  BY UpToSteps
<1>2. \A n \in 1 .. Len(s) : s[n] \in A  OBVIOUS
<1> HIDE DEF U
<1>3. 0 \in S
  <2>1. U[0] \in Seq(A) /\ Len(U[0]) = 0  BY <1>1
  <2> QED  BY <2>1
<1>4. ASSUME NEW n \in Nat, n \in S PROVE n + 1 \in S
  <2> SUFFICES ASSUME n + 1 <= Len(s) PROVE Good(n + 1)  OBVIOUS
  <2>1. Good(n) /\ n + 1 \in 1 .. Len(s) /\ (n + 1) - 1 = n  BY <1>4
  <2> DEFINE u == U[n]  v == U[n + 1]  x == s[n + 1]
  <2>2. u \in Seq(A) /\ Len(u) <= n /\ x \in A /\ (v = Append(u, x) \/ v = u)
    BY <1>1, <1>2, <2>1
  <2> HIDE DEF u, v, x
  <2>3. v \in Seq(A) /\ Len(v) <= n + 1  BY <2>2
  <2> QED  BY <2>3 DEF v
<1>5. Len(s) \in S
  <2> HIDE DEF S
  <2> QED  BY <1>3, <1>4, Inductive
<1>6. Kept(s, wanted) = U[Len(s)]  BY UpToKept DEF U
<1>7. Good(Len(s))  BY <1>5
<1> QED  BY <1>6, <1>7
===============================================================================
