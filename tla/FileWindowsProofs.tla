------------------------- MODULE FileWindowsProofs -------------------------
(***************************************************************************)
(* What holds of a file read under the byte cap, whatever the sizes of its *)
(* lines and the hunks of the diff: the windows are pieces of the file     *)
(* that do not touch, the shares of the cap are fair and add up, what is   *)
(* picked of a window drops its context first, and the parts returned are  *)
(* lines of the file.                                                      *)
(*                                                                         *)
(* Induction is over sets: a set of numbers that has 0 and the successor   *)
(* of each it has, has all of them (CountingUp).                           *)
(***************************************************************************)
EXTENDS FileWindows, FiniteSetTheorems, SequenceTheorems, WellFoundedInduction, TLAPS

(* A set of numbers that has 0 and the number after each it has, has all   *)
(* of them.                                                                *)
LEMMA CountingUp ==
    ASSUME NEW P, 0 \in P, \A n \in Nat : n \in P => n + 1 \in P
    PROVE  Nat \subseteq P
<1> DEFINE Missing == Nat \ P
<1> SUFFICES ASSUME Missing # {} PROVE FALSE
  OBVIOUS
<1>1. PICK x \in Missing : \A y \in Missing : ~(<<y, x>> \in OpToRel(<, Nat))
  BY NatLessThanWellFounded, WFMin
<1>2. \A y \in Missing : ~(y < x)
  BY <1>1 DEF OpToRel
<1>3. x # 0 /\ x - 1 \in Nat /\ x - 1 < x
  OBVIOUS
<1>4. x - 1 \in P
  BY <1>2, <1>3
<1> QED BY <1>3, <1>4

(* A set of numbers has a least one, and Min is it. *)
LEMMA Least ==
    ASSUME NEW S \in SUBSET Nat, S # {}
    PROVE  Min(S) \in S /\ \A y \in S : Min(S) <= y
<1>1. PICK x \in S : \A y \in S : ~(<<y, x>> \in OpToRel(<, Nat))
  BY NatLessThanWellFounded, WFMin
<1>2. \A y \in S : ~(y < x)
  BY <1>1 DEF OpToRel
<1>3. \A y \in S : x <= y
  BY <1>2
<1> QED BY <1>3 DEF Min

(* A bounded set of numbers has a greatest one, and Max is it. *)
LEMMA Greatest ==
    ASSUME NEW n \in Nat, NEW S \in SUBSET (0..n), S # {}
    PROVE  Max(S) \in S /\ \A y \in S : y <= Max(S)
<1> DEFINE Below == {n - y : y \in S}
<1>1. Below \in SUBSET Nat /\ Below # {}
  <2>1. \A y \in S : y \in 0..n /\ n - y \in Nat
    OBVIOUS
  <2> QED BY <2>1
<1>2. PICK y \in S : Min(Below) = n - y
  BY <1>1, Least
<1>3. \A z \in S : n - y <= n - z
  BY <1>1, <1>2, Least
<1>4. \A z \in S : y >= z
  BY <1>3
<1> QED BY <1>4 DEF Max

(* As many places as things, and no two things in a place. *)
LEMMA EveryPlace ==
    ASSUME NEW S, IsFiniteSet(S), NEW place \in [S -> 1..Cardinality(S)],
           \A x, y \in S : place[x] = place[y] => x = y
    PROVE  \A p \in 1..Cardinality(S) : \E x \in S : place[x] = p
<1>1. /\ Cardinality(S) \in Nat /\ IsFiniteSet(1..Cardinality(S))
      /\ Cardinality(1..Cardinality(S)) = Cardinality(S)
  BY FS_CardinalityType, FS_Interval
<1>2. place \in Injection(S, 1..Cardinality(S))
  BY DEF Injection, IsInjective
<1>3. place \in Surjection(S, 1..Cardinality(S))
  BY <1>1, <1>2, FS_Injection
<1> QED BY <1>3 DEF Surjection

(* Numbers in order are all of them, from the least to the greatest.       *)
LEMMA InOrder ==
    ASSUME NEW S \in SUBSET Int, IsFiniteSet(S)
    PROVE  /\ Cardinality(S) \in Nat
           /\ Ordered(S) \in [1..Cardinality(S) -> S]
           /\ \A x \in S : \E i \in 1..Cardinality(S) : Ordered(S)[i] = x
           /\ \A i, j \in 1..Cardinality(S) :
                 i < j => Ordered(S)[i] < Ordered(S)[j]
<1> DEFINE n == Cardinality(S)
           Under(x) == {m \in S : m < x}
           place == [x \in S |-> Cardinality(Under(x)) + 1]
<1>1. n \in Nat
  BY FS_CardinalityType
<1>2. ASSUME NEW x \in S
      PROVE  IsFiniteSet(Under(x)) /\ Cardinality(Under(x)) \in Nat
             /\ Cardinality(Under(x)) < n
  <2>1. Under(x) \in SUBSET S /\ x \notin Under(x)
    OBVIOUS
  <2>2. IsFiniteSet(Under(x)) /\ Cardinality(Under(x)) <= n /\ Cardinality(Under(x)) # n
    BY <2>1, FS_Subset
  <2> QED BY <1>1, <2>2, FS_CardinalityType
<1>3. ASSUME NEW x \in S, NEW y \in S, x < y
      PROVE  Cardinality(Under(x)) < Cardinality(Under(y))
  <2>1. x \in Int /\ y \in Int
    OBVIOUS
  <2>2. Under(x) \in SUBSET Under(y) /\ x \in Under(y) /\ x \notin Under(x)
    <3>1. \A m \in S : m < x => m < y
      BY <1>3, <2>1
    <3>2. ~(x < x)
      BY <2>1
    <3> QED BY <1>3, <3>1, <3>2
  <2>3. Cardinality(Under(x)) <= Cardinality(Under(y))
        /\ Cardinality(Under(x)) # Cardinality(Under(y))
    BY <1>2, <2>2, FS_Subset
  <2> QED BY <1>2, <2>3
<1>4. place \in [S -> 1..n]
  BY <1>1, <1>2
<1>5. \A x, y \in S : place[x] = place[y] => x = y
  <2> SUFFICES ASSUME NEW x \in S, NEW y \in S, x # y PROVE place[x] # place[y]
    OBVIOUS
  <2>1. x < y \/ y < x
    OBVIOUS
  <2> QED BY <1>2, <1>3, <2>1
<1>6. \A i \in 1..n : \E x \in S : place[x] = i
  <2> HIDE DEF place
  <2> QED BY <1>4, <1>5, EveryPlace
<1>7. ASSUME NEW i \in 1..n
      PROVE  Ordered(S)[i] \in S /\ place[Ordered(S)[i]] = i
  <2>1. \E x \in S : Cardinality(Under(x)) = i - 1
    <3>1. PICK x \in S : place[x] = i
      BY <1>6
    <3>2. Cardinality(Under(x)) + 1 = i
      BY <3>1
    <3> HIDE DEF Under
    <3> QED BY <1>2, <3>2
  <2>2. Ordered(S)[i] = CHOOSE x \in S : Cardinality(Under(x)) = i - 1
    BY DEF Ordered
  <2>3. Ordered(S)[i] \in S /\ Cardinality(Under(Ordered(S)[i])) = i - 1
    BY <2>1, <2>2
  <2> QED BY <2>3
<1>8. Ordered(S) \in [1..n -> S]
  BY <1>7 DEF Ordered
<1>9. ASSUME NEW x \in S PROVE \E i \in 1..n : Ordered(S)[i] = x
  <2>1. place[x] \in 1..n
    BY <1>4
  <2>2. place[Ordered(S)[place[x]]] = place[x] /\ Ordered(S)[place[x]] \in S
    BY <1>7, <2>1
  <2>3. Ordered(S)[place[x]] = x
    BY <1>5, <2>2
  <2> QED BY <2>1, <2>3
<1>10. ASSUME NEW i \in 1..n, NEW j \in 1..n, i < j
       PROVE  Ordered(S)[i] < Ordered(S)[j]
  <2>1. PICK x \in S, y \in S : x = Ordered(S)[i] /\ y = Ordered(S)[j]
    BY <1>7
  <2>2. place[x] = i /\ place[y] = j
    BY <1>7, <2>1
  <2>3. ~(y < x)
    <3> SUFFICES ASSUME y < x PROVE FALSE
      OBVIOUS
    <3>1. Cardinality(Under(y)) < Cardinality(Under(x))
      BY <1>3
    <3>2. Cardinality(Under(y)) \in Nat /\ Cardinality(Under(x)) \in Nat
      BY <1>2
    <3>3. Cardinality(Under(x)) + 1 = i /\ Cardinality(Under(y)) + 1 = j
      BY <2>2
    <3> HIDE DEF Under
    <3> QED BY <1>10, <3>1, <3>2, <3>3
  <2>4. x # y
    BY <1>10, <2>2
  <2>5. x < y
    BY <2>3, <2>4
  <2> QED BY <2>1, <2>5
<1> QED BY <1>1, <1>8, <1>9, <1>10

(* A loop of n steps has a state after each. *)
LEMMA LoopRuns ==
    ASSUME NEW I, NEW start \in I, NEW n \in Nat, NEW step \in [1..n -> [I -> I]]
    PROVE  \E f \in [0..n -> I] :
              f[0] = start /\ \A i \in 1..n : f[i] = step[i][f[i - 1]]
<1> DEFINE Value(f, i) == IF i = 0 THEN start ELSE step[i][f[i - 1]]
           Run(f, m) == f \in [0..m -> I] /\ \A i \in 0..m : f[i] = Value(f, i)
           P == {m \in Nat : m <= n => \E f : Run(f, m)}
<1>1. 0 \in P
  <2>1. Run([i \in 0..0 |-> start], 0)
    OBVIOUS
  <2> QED BY <2>1
<1>2. ASSUME NEW m \in Nat, m \in P PROVE m + 1 \in P
  <2> SUFFICES ASSUME m + 1 <= n PROVE \E f : Run(f, m + 1)
    OBVIOUS
  <2>1. PICK f : Run(f, m)
    BY <1>2
  <2> DEFINE g == [i \in 0..(m + 1) |-> IF i = m + 1 THEN step[m + 1][f[m]] ELSE f[i]]
  <2>2. g \in [0..(m + 1) -> I]
    BY <2>1
  <2>3. ASSUME NEW i \in 0..(m + 1) PROVE g[i] = Value(g, i)
    <3>1. CASE i = m + 1
      <4>1. g[i] = step[m + 1][f[m]] /\ g[i - 1] = f[m] /\ i # 0
        BY <3>1
      <4> QED BY <3>1, <4>1
    <3>2. CASE i \in 0..m
      <4>1. g[i] = f[i] /\ f[i] = Value(f, i)
        BY <2>1, <3>2
      <4>2. i # 0 => g[i - 1] = f[i - 1]
        BY <3>2
      <4> QED BY <4>1, <4>2
    <3> QED BY <3>1, <3>2
  <2>4. Run(g, m + 1)
    BY <2>2, <2>3
  <2> HIDE DEF g, Run
  <2> QED BY <2>4
<1>3. n \in P
  <2> HIDE DEF P
  <2> QED BY <1>1, <1>2, CountingUp
<1>4. PICK f : Run(f, n)
  BY <1>3
<1>5. f[0] = start /\ \A i \in 1..n : f[i] = step[i][f[i - 1]]
  BY <1>4
<1> QED BY <1>4, <1>5

(* What the steps of a loop keep holds when it ends. *)
LEMMA LoopKeeps ==
    ASSUME NEW I, NEW start \in I, NEW step, \A x \in I : step[x] \in I,
           NEW n \in Nat
    PROVE  Iterate(step, start, n) \in I
<1> DEFINE Value(f, i) == IF i = 0 THEN start ELSE step[f[i - 1]]
           each == [i \in 1..n |-> [x \in I |-> step[x]]]
           after == CHOOSE g : g = [i \in 0..n |-> Value(g, i)]
<1>1. PICK f \in [0..n -> I] : f[0] = start /\ \A i \in 1..n : f[i] = each[i][f[i - 1]]
  <2>1. each \in [1..n -> [I -> I]]
    OBVIOUS
  <2> HIDE DEF each
  <2> QED BY <2>1, LoopRuns
<1>2. f = [i \in 0..n |-> Value(f, i)]
  <2>1. ASSUME NEW i \in 0..n PROVE f[i] = Value(f, i)
    <3>1. CASE i = 0
      BY <1>1, <3>1
    <3>2. CASE i # 0
      <4>1. i \in 1..n /\ i - 1 \in 0..n
        BY <3>2
      <4>2. f[i - 1] \in I /\ f[i] = each[i][f[i - 1]]
        BY <1>1, <4>1
      <4> QED BY <3>2, <4>1, <4>2
    <3> QED BY <3>1, <3>2
  <2> HIDE DEF Value
  <2> QED BY <1>1, <2>1
<1>3. after = [i \in 0..n |-> Value(after, i)]
  BY <1>2
<1>4. Iterate(step, start, n) = after[n]
  BY DEF Iterate
<1> DEFINE Q == {m \in Nat : m <= n => after[m] \in I}
<1>5. 0 \in Q
  <2> HIDE DEF after
  <2>1. after[0] = start
    BY <1>3
  <2> QED BY <2>1
<1>6. ASSUME NEW m \in Nat, m \in Q PROVE m + 1 \in Q
  <2> SUFFICES ASSUME m + 1 <= n PROVE after[m + 1] \in I
    OBVIOUS
  <2> HIDE DEF after
  <2>1. after[m] \in I /\ m + 1 \in 0..n
    BY <1>6
  <2>2. after[m + 1] = step[after[m]]
    BY <1>3, <2>1
  <2> QED BY <2>1, <2>2
<1>7. n \in Q
  <2> HIDE DEF Q
  <2> QED BY <1>5, <1>6, CountingUp
<1> QED BY <1>4, <1>7

-----------------------------------------------------------------------------
(* Sums, as the community modules define them: of one element and then of  *)
(* the others.                                                             *)
Some(s) == CHOOSE x \in s : TRUE

Sums(f, T, g) ==
    g = [s \in SUBSET T |->
            IF s = {} THEN 0 ELSE f[Some(s)] + g[s \ {Some(s)}]]

(* A finite set without one of its elements. *)
LEMMA LessOne ==
    ASSUME NEW s, IsFiniteSet(s), NEW x \in s
    PROVE  /\ IsFiniteSet(s \ {x}) /\ s \ {x} \in SUBSET s
           /\ Cardinality(s \ {x}) \in Nat
           /\ Cardinality(s) = Cardinality(s \ {x}) + 1
<1>1. IsFiniteSet(s \ {x}) /\ Cardinality(s \ {x}) = Cardinality(s) - 1
  BY FS_RemoveElement
<1> QED BY <1>1, FS_CardinalityType

(* Some(s) is an element of s. *)
LEMMA SomeIn == ASSUME NEW s, s # {} PROVE Some(s) \in s
  BY DEF Some

(* What a set sums to does not depend on the larger set it is taken in. *)
LEMMA SumsAgree ==
    ASSUME NEW f, NEW T, IsFiniteSet(T), NEW U \in SUBSET T,
           NEW g, NEW h, Sums(f, T, g), Sums(f, U, h)
    PROVE  \A s \in SUBSET U : g[s] = h[s]
<1> DEFINE P == {n \in Nat : \A s \in SUBSET U : Cardinality(s) = n => g[s] = h[s]}
<1>1. \A s \in SUBSET U : IsFiniteSet(s) /\ Cardinality(s) \in Nat
  BY FS_Subset, FS_CardinalityType
<1>2. \A s \in SUBSET U :
        /\ g[s] = IF s = {} THEN 0 ELSE f[Some(s)] + g[s \ {Some(s)}]
        /\ h[s] = IF s = {} THEN 0 ELSE f[Some(s)] + h[s \ {Some(s)}]
  BY DEF Sums
<1>3. 0 \in P
  <2>1. \A s \in SUBSET U : Cardinality(s) = 0 => s = {}
    BY <1>1, FS_EmptySet
  <2> QED BY <1>2, <2>1
<1>4. ASSUME NEW n \in Nat, n \in P PROVE n + 1 \in P
  <2> SUFFICES ASSUME NEW s \in SUBSET U, Cardinality(s) = n + 1 PROVE g[s] = h[s]
    OBVIOUS
  <2>1. s # {}
    BY FS_EmptySet
  <2>2. s \ {Some(s)} \in SUBSET U /\ Cardinality(s \ {Some(s)}) = n
    <3>1. Some(s) \in s /\ IsFiniteSet(s)
      BY <1>1, <2>1, SomeIn
    <3> QED BY <3>1, LessOne
  <2>3. g[s \ {Some(s)}] = h[s \ {Some(s)}]
    BY <1>4, <2>2
  <2> QED BY <1>2, <2>1, <2>3
<1>5. Nat \subseteq P
  <2> HIDE DEF P
  <2> QED BY <1>3, <1>4, CountingUp
<1> QED BY <1>1, <1>5

(* The recursive function that Total chooses exists. *)
LEMMA SumsExist ==
    ASSUME NEW f, NEW T, IsFiniteSet(T)
    PROVE  \E g : Sums(f, T, g)
<1> DEFINE P == {n \in Nat : \A U : IsFiniteSet(U) /\ Cardinality(U) <= n
                                        => \E g : Sums(f, U, g)}
<1>1. 0 \in P
  <2> SUFFICES ASSUME NEW U, IsFiniteSet(U), Cardinality(U) <= 0
               PROVE  \E g : Sums(f, U, g)
    OBVIOUS
  <2>1. U = {}
    BY FS_CardinalityType, FS_EmptySet
  <2>2. Sums(f, U, [s \in SUBSET U |-> 0])
    BY <2>1 DEF Sums
  <2> QED BY <2>2
<1>2. ASSUME NEW n \in Nat, n \in P PROVE n + 1 \in P
  <2> SUFFICES ASSUME NEW U, IsFiniteSet(U), Cardinality(U) <= n + 1
               PROVE  \E g : Sums(f, U, g)
    OBVIOUS
  <2> DEFINE G(u) == CHOOSE g : Sums(f, u, g)
             Rest(s) == s \ {Some(s)}
             sum == [s \in SUBSET U |->
                        IF s = {} THEN 0 ELSE f[Some(s)] + G(Rest(s))[Rest(s)]]
  <2>1. ASSUME NEW s \in SUBSET U, s # {}
        PROVE  /\ IsFiniteSet(s) /\ IsFiniteSet(Rest(s)) /\ Rest(s) \in SUBSET s
               /\ Cardinality(Rest(s)) <= n
    <3>1. Some(s) \in s /\ IsFiniteSet(s) /\ Cardinality(s) <= Cardinality(U)
          /\ Cardinality(U) \in Nat /\ Cardinality(s) \in Nat
      BY <2>1, SomeIn, FS_Subset, FS_CardinalityType
    <3>2. IsFiniteSet(Rest(s)) /\ Rest(s) \in SUBSET s /\ Cardinality(Rest(s)) \in Nat
          /\ Cardinality(s) = Cardinality(Rest(s)) + 1
      BY <3>1, LessOne
    <3> HIDE DEF Rest
    <3> QED BY <3>1, <3>2
  <2>2. ASSUME NEW u, IsFiniteSet(u), Cardinality(u) <= n PROVE Sums(f, u, G(u))
    <3>1. \E g : Sums(f, u, g)
      BY <1>2, <2>2
    <3> QED BY <3>1
  <2> HIDE DEF G, P
  <2>3. ASSUME NEW s \in SUBSET U, s # {} PROVE sum[Rest(s)] = G(Rest(s))[Rest(s)]
    <3> DEFINE r == Rest(s)
    <3>1. IsFiniteSet(r) /\ Cardinality(r) <= n /\ r \in SUBSET U
      BY <2>1, <2>3
    <3>2. Sums(f, r, G(r))
      BY <2>2, <3>1
    <3> HIDE DEF r
    <3>3. G(r)[r] = IF r = {} THEN 0 ELSE f[Some(r)] + G(r)[Rest(r)]
      BY <3>2 DEF Sums
    <3>4. CASE r # {}
      <4>1. IsFiniteSet(Rest(r)) /\ Rest(r) \in SUBSET r
        BY <2>1, <3>1, <3>4
      <4>2. Cardinality(Rest(r)) <= n
        BY <2>1, <3>1, <3>4
      <4>3. Sums(f, Rest(r), G(Rest(r)))
        BY <2>2, <4>1, <4>2
      <4> HIDE DEF Rest
      <4>4. G(r)[Rest(r)] = G(Rest(r))[Rest(r)]
        BY <3>1, <3>2, <4>1, <4>3, SumsAgree
      <4> QED BY <3>1, <3>3, <3>4, <4>4 DEF r
    <3>5. CASE r = {}
      BY <3>1, <3>3, <3>5 DEF r
    <3> QED BY <3>4, <3>5
  <2>4. Sums(f, U, sum)
    <3>1. \A s \in SUBSET U :
            sum[s] = IF s = {} THEN 0 ELSE f[Some(s)] + sum[Rest(s)]
      BY <2>3
    <3>2. sum = [s \in SUBSET U |-> sum[s]]
      OBVIOUS
    <3> HIDE DEF sum
    <3> QED BY <3>1, <3>2 DEF Sums
  <2> QED BY <2>4
<1>3. Cardinality(T) \in P
  <2> HIDE DEF P
  <2> QED BY <1>1, <1>2, CountingUp, FS_CardinalityType
<1> QED BY <1>3, FS_CardinalityType

(* Total takes one element after the other. *)
LEMMA SumByParts ==
    ASSUME NEW f, NEW T, IsFiniteSet(T)
    PROVE  Total(f, T) = IF T = {} THEN 0 ELSE f[Some(T)] + Total(f, T \ {Some(T)})
<1> DEFINE G(u) == CHOOSE g : Sums(f, u, g)
<1>1. \A u : Total(f, u) = G(u)[u]
  BY DEF Total, SumFunctionOnSet, FoldFunctionOnSet, MapThenFoldSet, Sums, Some
<1>2. \A u : IsFiniteSet(u) => Sums(f, u, G(u))
  BY SumsExist
<1> HIDE DEF G
<1>3. G(T)[T] = IF T = {} THEN 0 ELSE f[Some(T)] + G(T)[T \ {Some(T)}]
  BY <1>2 DEF Sums
<1>4. CASE T # {}
  <2>1. IsFiniteSet(T \ {Some(T)}) /\ T \ {Some(T)} \in SUBSET T
    BY <1>4, SomeIn, LessOne
  <2>2. Sums(f, T, G(T)) /\ Sums(f, T \ {Some(T)}, G(T \ {Some(T)}))
    BY <1>2, <2>1
  <2>3. PICK U \in SUBSET T : U = T \ {Some(T)}
    BY <2>1
  <2>4. G(T)[U] = G(U)[U]
    BY <2>2, <2>3, SumsAgree
  <2> QED BY <1>1, <1>3, <1>4, <2>3, <2>4
<1> QED BY <1>1, <1>3, <1>4

(* Finite sets are made by adding elements. *)
LEMMA AddingUp ==
    ASSUME NEW S, IsFiniteSet(S), NEW P, {} \in P,
           \A T \in SUBSET S : \A x \in S \ T : T \in P => T \cup {x} \in P
    PROVE  S \in P
<1> DEFINE Q == {n \in Nat : \A T \in SUBSET S : Cardinality(T) = n => T \in P}
<1>1. \A T \in SUBSET S : IsFiniteSet(T) /\ Cardinality(T) \in Nat
  BY FS_Subset, FS_CardinalityType
<1>2. 0 \in Q
  BY <1>1, FS_EmptySet
<1>3. ASSUME NEW n \in Nat, n \in Q PROVE n + 1 \in Q
  <2> SUFFICES ASSUME NEW T \in SUBSET S, Cardinality(T) = n + 1 PROVE T \in P
    OBVIOUS
  <2>1. PICK x \in T : TRUE
    <3>1. T # {}
      BY <1>1, FS_EmptySet
    <3> QED BY <3>1
  <2>2. Cardinality(T \ {x}) = n /\ T \ {x} \in SUBSET S /\ x \in S \ (T \ {x})
    BY <1>1, <2>1, LessOne
  <2>3. T \ {x} \in P /\ T = (T \ {x}) \cup {x}
    BY <1>3, <2>2
  <2> QED BY <2>2, <2>3
<1>4. Nat \subseteq Q
  <2> HIDE DEF Q
  <2> QED BY <1>2, <1>3, CountingUp
<1> QED BY <1>1, <1>4

(* A sum of integers is an integer. *)
LEMMA SumIsInt ==
    ASSUME NEW f, NEW T, IsFiniteSet(T), \A x \in T : f[x] \in Int
    PROVE  Total(f, T) \in Int
<1> DEFINE P == {n \in Nat : \A U \in SUBSET T : Cardinality(U) = n => Total(f, U) \in Int}
<1>1. \A U \in SUBSET T : IsFiniteSet(U) /\ Cardinality(U) \in Nat
  BY FS_Subset, FS_CardinalityType
<1>2. 0 \in P
  <2>1. \A U \in SUBSET T : Cardinality(U) = 0 => U = {}
    BY <1>1, FS_EmptySet
  <2>2. Total(f, {}) = 0
    BY SumByParts, FS_EmptySet
  <2> QED BY <2>1, <2>2
<1>3. ASSUME NEW n \in Nat, n \in P PROVE n + 1 \in P
  <2> SUFFICES ASSUME NEW U \in SUBSET T, Cardinality(U) = n + 1 PROVE Total(f, U) \in Int
    OBVIOUS
  <2>1. U # {} /\ IsFiniteSet(U)
    BY <1>1, FS_EmptySet
  <2>2. PICK y \in U : y = Some(U)
    BY <2>1, SomeIn
  <2>3. Total(f, U) = f[y] + Total(f, U \ {y})
    BY <2>1, <2>2, SumByParts
  <2>4. Cardinality(U \ {y}) = n
    <3>1. Cardinality(U \ {y}) \in Nat /\ Cardinality(U) = Cardinality(U \ {y}) + 1
      BY <2>1, LessOne
    <3> QED BY <3>1
  <2>5. Total(f, U \ {y}) \in Int
    BY <1>3, <2>4
  <2>6. f[y] \in Int
    OBVIOUS
  <2> QED BY <2>3, <2>5, <2>6
<1>4. Nat \subseteq P
  <2> HIDE DEF P
  <2> QED BY <1>2, <1>3, CountingUp
<1> QED BY <1>1, <1>4

(* Any element may be taken first. *)
LEMMA SumOfOneMore ==
    ASSUME NEW f, NEW T, IsFiniteSet(T), \A x \in T : f[x] \in Int
    PROVE  \A x \in T : Total(f, T) = f[x] + Total(f, T \ {x})
<1> DEFINE Good(U) == \A x \in U : Total(f, U) = f[x] + Total(f, U \ {x})
           P == {n \in Nat : \A U \in SUBSET T : Cardinality(U) = n => Good(U)}
<1>1. \A U \in SUBSET T : /\ IsFiniteSet(U) /\ Cardinality(U) \in Nat
                         /\ Total(f, U) \in Int
  <2> SUFFICES ASSUME NEW U \in SUBSET T
               PROVE  IsFiniteSet(U) /\ Cardinality(U) \in Nat /\ Total(f, U) \in Int
    OBVIOUS
  <2>1. IsFiniteSet(U)
    BY FS_Subset
  <2>2. Total(f, U) \in Int
    BY <2>1, SumIsInt
  <2> QED BY <2>1, <2>2, FS_CardinalityType
<1>2. 0 \in P
  <2>1. \A U \in SUBSET T : Cardinality(U) = 0 => U = {}
    BY <1>1, FS_EmptySet
  <2> QED BY <2>1
<1>3. ASSUME NEW n \in Nat, n \in P PROVE n + 1 \in P
  <2> SUFFICES ASSUME NEW U \in SUBSET T, Cardinality(U) = n + 1, NEW x \in U
               PROVE  Total(f, U) = f[x] + Total(f, U \ {x})
    OBVIOUS
  <2>1. U # {} /\ IsFiniteSet(U)
    BY <1>1, FS_EmptySet
  <2>2. PICK y \in U : y = Some(U)
    BY <2>1, SomeIn
  <2>3. Total(f, U) = f[y] + Total(f, U \ {y})
    BY <2>1, <2>2, SumByParts
  <2>4. \A z \in U : Good(U \ {z})
    <3> SUFFICES ASSUME NEW z \in U PROVE Good(U \ {z})
      OBVIOUS
    <3>1. Cardinality(U \ {z}) \in Nat /\ Cardinality(U) = Cardinality(U \ {z}) + 1
      BY <2>1, LessOne
    <3>2. Cardinality(U \ {z}) = n /\ U \ {z} \in SUBSET T
      BY <3>1
    <3> HIDE DEF Good
    <3> QED BY <1>3, <3>2
  <2>5. CASE x # y
    <3>1. PICK W \in SUBSET T : W = (U \ {x}) \ {y} /\ W = (U \ {y}) \ {x}
      OBVIOUS
    <3>2. Total(f, U \ {x}) = f[y] + Total(f, W)
      BY <2>4, <2>5, <3>1
    <3>3. Total(f, U \ {y}) = f[x] + Total(f, W)
      BY <2>4, <2>5, <3>1
    <3>4. PICK w \in Int : w = Total(f, W)
      BY <1>1
    <3>5. f[x] \in Int /\ f[y] \in Int
      OBVIOUS
    <3> QED BY <2>3, <3>2, <3>3, <3>4, <3>5
  <2> QED BY <2>3, <2>5
<1>4. Nat \subseteq P
  <2> HIDE DEF P
  <2> QED BY <1>2, <1>3, CountingUp
<1> QED BY <1>1, <1>4

(* Sums of sets that share nothing add up. *)
LEMMA SumOfBoth ==
    ASSUME NEW f, NEW A, NEW B, IsFiniteSet(A), IsFiniteSet(B), A \cap B = {},
           \A x \in A \cup B : f[x] \in Int
    PROVE  Total(f, A \cup B) = Total(f, A) + Total(f, B)
<1> DEFINE P == {T \in SUBSET A : Total(f, T \cup B) = Total(f, T) + Total(f, B)}
<1>1. \A T \in SUBSET A : /\ IsFiniteSet(T) /\ IsFiniteSet(T \cup B)
                         /\ Total(f, T) \in Int /\ Total(f, T \cup B) \in Int
  <2> SUFFICES ASSUME NEW T \in SUBSET A
               PROVE  /\ IsFiniteSet(T) /\ IsFiniteSet(T \cup B)
                      /\ Total(f, T) \in Int /\ Total(f, T \cup B) \in Int
    OBVIOUS
  <2>1. IsFiniteSet(T)
    BY FS_Subset
  <2>2. IsFiniteSet(T \cup B)
    BY <2>1, FS_Union
  <2>3. Total(f, T) \in Int
    BY <2>1, SumIsInt
  <2>4. Total(f, T \cup B) \in Int
    BY <2>2, SumIsInt
  <2> QED BY <2>1, <2>2, <2>3, <2>4
<1>2. Total(f, B) \in Int
  BY SumIsInt
<1>3. {} \in P
  <2>1. Total(f, {}) = 0 /\ {} \cup B = B
    BY SumByParts, FS_EmptySet
  <2> QED BY <1>2, <2>1
<1>4. ASSUME NEW T \in SUBSET A, NEW x \in A \ T, T \in P PROVE T \cup {x} \in P
  <2>1. PICK V \in SUBSET A : V = T \cup {x}
    OBVIOUS
  <2>2. V \ {x} = T /\ (V \cup B) \ {x} = T \cup B /\ x \in V
    BY <2>1
  <2>3. Total(f, V) = f[x] + Total(f, T)
    BY <1>1, <2>2, SumOfOneMore
  <2>4. Total(f, V \cup B) = f[x] + Total(f, T \cup B)
    <3>1. \A y \in V \cup B : f[y] \in Int
      OBVIOUS
    <3>2. PICK W : W = V \cup B /\ IsFiniteSet(W) /\ x \in W /\ \A y \in W : f[y] \in Int
      BY <1>1, <2>2, <3>1
    <3>3. Total(f, W) = f[x] + Total(f, W \ {x})
      BY <3>2, SumOfOneMore
    <3> QED BY <2>2, <3>2, <3>3
  <2>5. f[x] \in Int /\ Total(f, T) \in Int /\ Total(f, T \cup B) = Total(f, T) + Total(f, B)
    BY <1>1, <1>4
  <2>6. Total(f, V \cup B) = Total(f, V) + Total(f, B)
    BY <1>2, <2>3, <2>4, <2>5
  <2> QED BY <2>1, <2>6
<1>5. A \in P
  <2> HIDE DEF P
  <2> QED BY <1>3, <1>4, AddingUp
<1> QED BY <1>5

(* A sum of sizes is a size. *)
LEMMA SumIsNat ==
    ASSUME NEW f, NEW T, IsFiniteSet(T), \A x \in T : f[x] \in Nat
    PROVE  Total(f, T) \in Nat
<1> DEFINE P == {U \in SUBSET T : Total(f, U) \in Nat}
<1>1. {} \in P
  <2>1. Total(f, {}) = 0
    BY SumByParts, FS_EmptySet
  <2> QED BY <2>1
<1>2. ASSUME NEW U \in SUBSET T, NEW x \in T \ U, U \in P PROVE U \cup {x} \in P
  <2>1. PICK V \in SUBSET T : V = U \cup {x}
    OBVIOUS
  <2>2. V \ {x} = U /\ x \in V /\ IsFiniteSet(V)
    BY <2>1, FS_Subset
  <2>3. Total(f, V) = f[x] + Total(f, U)
    BY <2>2, SumOfOneMore
  <2>4. f[x] \in Nat /\ Total(f, U) \in Nat
    BY <1>2
  <2> QED BY <2>1, <2>3, <2>4
<1>3. T \in P
  <2> HIDE DEF P
  <2> QED BY <1>1, <1>2, AddingUp
<1> QED BY <1>3

(* Products the solver does not expand. *)
LEMMA Times ==
    ASSUME NEW k \in Nat, NEW q \in Nat
    PROVE  /\ k * q \in Nat /\ k * (q + 1) = k * q + k
           /\ k * (q + 2) = k * q + k + k
           /\ (k - 1) * q = k * q - q
           /\ (k - 1) * (q + 1) = k * q + k - q - 1
  OBVIOUS

(* Larger terms make larger sums. *)
LEMMA SumsCompare ==
    ASSUME NEW S, IsFiniteSet(S), NEW f, NEW g,
           \A x \in S : f[x] \in Int /\ g[x] \in Int /\ f[x] <= g[x]
    PROVE  Total(f, S) <= Total(g, S)
<1> DEFINE P == {T \in SUBSET S : Total(f, T) <= Total(g, T)}
<1>1. {} \in P
  <2>1. Total(f, {}) = 0 /\ Total(g, {}) = 0
    BY SumByParts, FS_EmptySet
  <2> QED BY <2>1
<1>2. ASSUME NEW T \in SUBSET S, NEW x \in S \ T, T \in P PROVE T \cup {x} \in P
  <2>1. PICK V \in SUBSET S : V = T \cup {x}
    OBVIOUS
  <2>2. V \ {x} = T /\ x \in V /\ IsFiniteSet(V) /\ IsFiniteSet(T)
    BY <2>1, FS_Subset
  <2>3. Total(f, V) = f[x] + Total(f, T)
    BY <2>2, SumOfOneMore
  <2>4. Total(g, V) = g[x] + Total(g, T)
    BY <2>2, SumOfOneMore
  <2>5. Total(f, T) \in Int /\ Total(g, T) \in Int
    BY <2>2, SumIsInt
  <2>6. f[x] \in Int /\ g[x] \in Int /\ f[x] <= g[x] /\ Total(f, T) <= Total(g, T)
    BY <1>2
  <2> QED BY <2>1, <2>3, <2>4, <2>5, <2>6
<1>3. S \in P
  <2> HIDE DEF P
  <2> QED BY <1>1, <1>2, AddingUp
<1> QED BY <1>3

(* f has what g has, and k more for each thing marked. *)
Marked(f, g, S, M, k) ==
    \A x \in S : g[x] \in Int /\ f[x] = IF x \in M THEN g[x] + k ELSE g[x]

(* Something more for each of some terms. *)
LEMMA SumOfMarked ==
    ASSUME NEW S, IsFiniteSet(S), NEW f, NEW g, NEW M, NEW k, k \in Nat,
           Marked(f, g, S, M, k)
    PROVE  Total(f, S) = Total(g, S) + k * Cardinality(S \cap M)
<1> USE DEF Marked
<1> DEFINE P == {T \in SUBSET S : Total(f, T) = Total(g, T) + k * Cardinality(T \cap M)}
<1>1. \A x \in S : f[x] \in Int
  OBVIOUS
<1>2. {} \in P
  <2>1. Total(f, {}) = 0 /\ Total(g, {}) = 0
    BY SumByParts, FS_EmptySet
  <2>2. {} \cap M = {} /\ Cardinality({}) = 0
    BY FS_EmptySet
  <2>3. k * 0 = 0
    OBVIOUS
  <2> QED BY <2>1, <2>2, <2>3
<1>3. ASSUME NEW T \in SUBSET S, NEW x \in S \ T, T \in P PROVE T \cup {x} \in P
  <2>1. PICK V \in SUBSET S : V = T \cup {x}
    OBVIOUS
  <2>2. V \ {x} = T /\ x \in V /\ IsFiniteSet(V) /\ IsFiniteSet(T)
    BY <2>1, FS_Subset
  <2>3. Total(f, V) = f[x] + Total(f, T)
    BY <1>1, <2>2, SumOfOneMore
  <2>4. Total(g, V) = g[x] + Total(g, T)
    BY <2>2, SumOfOneMore
  <2>5. Total(f, T) \in Int /\ Total(g, T) \in Int
    BY <1>1, <2>2, SumIsInt
  <2>6. PICK c \in Nat : c = Cardinality(T \cap M)
    <3>1. IsFiniteSet(T \cap M)
      <4>1. T \cap M \in SUBSET T
        OBVIOUS
      <4> QED BY <2>2, <4>1, FS_Subset
    <3> QED BY <3>1, FS_CardinalityType
  <2>7. Total(f, T) = Total(g, T) + k * c
    BY <1>3, <2>6
  <2>8. PICK q \in Nat : q = k * c /\ k * (c + 1) = q + k
    BY <2>6, Times
  <2>9. CASE x \in M
    <3>1. Cardinality(V \cap M) = c + 1
      <4>1. PICK s : s = V \cap M
        OBVIOUS
      <4>2. s \ {x} = T \cap M /\ x \in s
        BY <2>1, <2>9, <4>1
      <4>3. IsFiniteSet(s)
        <5>1. s \in SUBSET V
          BY <4>1
        <5> QED BY <2>2, <5>1, FS_Subset
      <4>4. Cardinality(s) = Cardinality(s \ {x}) + 1
        BY <4>2, <4>3, LessOne
      <4> QED BY <2>6, <4>1, <4>2, <4>4
    <3>2. f[x] = g[x] + k /\ g[x] \in Int
      BY <2>9
    <3>3. Total(f, V) = Total(g, V) + k * (c + 1)
      BY <2>3, <2>4, <2>5, <2>7, <2>8, <3>2
    <3> QED BY <2>1, <3>1, <3>3
  <2>10. CASE x \notin M
    <3>1. V \cap M = T \cap M
      BY <2>1, <2>10
    <3>2. f[x] = g[x] /\ g[x] \in Int
      BY <2>10
    <3>3. Total(f, V) = Total(g, V) + k * c
      BY <2>3, <2>4, <2>5, <2>7, <2>8, <3>2
    <3> QED BY <2>1, <2>6, <3>1, <3>3
  <2> QED BY <2>9, <2>10
<1>4. S \in P
  <2> HIDE DEF P
  <2> QED BY <1>2, <1>3, AddingUp
<1> QED BY <1>4

(* The same for each. *)
LEMMA SumOfSame ==
    ASSUME NEW S, IsFiniteSet(S), NEW f, NEW k \in Nat, \A x \in S : f[x] = k
    PROVE  Total(f, S) = k * Cardinality(S)
<1> DEFINE P == {T \in SUBSET S : Total(f, T) = k * Cardinality(T)}
<1>1. {} \in P
  <2>1. Total(f, {}) = 0 /\ Cardinality({}) = 0
    BY SumByParts, FS_EmptySet
  <2>2. k * 0 = 0
    OBVIOUS
  <2> QED BY <2>1, <2>2
<1>2. ASSUME NEW T \in SUBSET S, NEW x \in S \ T, T \in P PROVE T \cup {x} \in P
  <2>1. PICK V \in SUBSET S : V = T \cup {x}
    OBVIOUS
  <2>2. V \ {x} = T /\ x \in V /\ IsFiniteSet(V) /\ IsFiniteSet(T)
    BY <2>1, FS_Subset
  <2>3. Total(f, V) = f[x] + Total(f, T)
    BY <2>2, SumOfOneMore
  <2>4. PICK c \in Nat : c = Cardinality(T) /\ Cardinality(V) = c + 1
    BY <2>2, LessOne
  <2>5. k * c \in Nat /\ k * (c + 1) = k * c + k
    BY Times
  <2>6. Total(f, V) = k + k * c
    BY <1>2, <2>3, <2>4
  <2>7. Total(f, V) = k * (c + 1)
    BY <2>5, <2>6
  <2> QED BY <2>1, <2>4, <2>7
<1>3. S \in P
  <2> HIDE DEF P
  <2> QED BY <1>1, <1>2, AddingUp
<1> QED BY <1>3

(* Pieces that share nothing and together have all. *)
Pieces(I, piece, all) ==
    /\ \A i \in I : IsFiniteSet(piece[i]) /\ piece[i] \subseteq all
    /\ \A i, j \in I : i = j \/ piece[i] \cap piece[j] = {}
    /\ \A x \in all : \E i \in I : x \in piece[i]

(* A sum over pieces is the sum of what the pieces sum to. *)
LEMMA SumOfPieces ==
    ASSUME NEW I, IsFiniteSet(I), NEW piece, NEW all, Pieces(I, piece, all),
           NEW c, \A x \in all : c[x] \in Int,
           NEW h, \A i \in I : h[i] = Total(c, piece[i])
    PROVE  IsFiniteSet(all) /\ Total(h, I) = Total(c, all)
<1> DEFINE All(T) == UNION {piece[i] : i \in T}
           Good(T) == IsFiniteSet(All(T)) /\ Total(h, T) = Total(c, All(T))
           P == {T \in SUBSET I : Good(T)}
<1> USE DEF Pieces
<1>1. ASSUME NEW i \in I PROVE h[i] \in Int
  <2>1. PICK s : s = piece[i] /\ IsFiniteSet(s) /\ \A x \in s : c[x] \in Int
    OBVIOUS
  <2>2. Total(c, s) \in Int
    BY <2>1, SumIsInt
  <2> QED BY <2>1, <2>2
<1>2. {} \in P
  <2>1. All({}) = {} /\ IsFiniteSet({})
    BY FS_EmptySet
  <2>2. Total(h, {}) = 0 /\ Total(c, {}) = 0
    BY SumByParts, FS_EmptySet
  <2> QED BY <2>1, <2>2
<1>3. ASSUME NEW T \in SUBSET I, NEW i \in I \ T, T \in P PROVE T \cup {i} \in P
  <2>1. PICK V \in SUBSET I : V = T \cup {i}
    OBVIOUS
  <2>2. V \ {i} = T /\ i \in V /\ IsFiniteSet(V)
    BY <2>1, FS_Subset
  <2>3. Total(h, V) = h[i] + Total(h, T)
    BY <1>1, <2>2, SumOfOneMore
  <2>4. PICK A, B : A = All(T) /\ B = piece[i]
    OBVIOUS
  <2>5. IsFiniteSet(A) /\ Total(h, T) = Total(c, A)
    BY <1>3, <2>4
  <2>6. All(V) = A \cup B /\ A \cap B = {}
    <3>1. \A j \in T : piece[j] \cap piece[i] = {}
      BY <1>3
    <3>2. All(V) = A \cup B
      BY <2>1, <2>4
    <3> QED BY <2>4, <3>1, <3>2
  <2>7. IsFiniteSet(B) /\ IsFiniteSet(A \cup B)
    BY <2>4, <2>5, FS_Union
  <2>8. \A x \in A \cup B : c[x] \in Int
    BY <2>4
  <2>9. Total(c, A \cup B) = Total(c, A) + Total(c, B)
    BY <2>5, <2>6, <2>7, <2>8, SumOfBoth
  <2>10. Total(c, A) \in Int /\ Total(c, B) \in Int
    BY <2>5, <2>7, <2>8, SumIsInt
  <2>11. h[i] = Total(c, B)
    BY <2>4
  <2>12. Total(h, V) = Total(c, A \cup B)
    BY <2>3, <2>5, <2>9, <2>10, <2>11
  <2>13. IsFiniteSet(All(V)) /\ Total(h, V) = Total(c, All(V))
    <3> HIDE DEF All
    <3> QED BY <2>6, <2>7, <2>12
  <2> QED BY <2>1, <2>13
<1>4. I \in P
  <2> HIDE DEF P
  <2> QED BY <1>2, <1>3, AddingUp
<1>5. all = All(I)
  OBVIOUS
<1> QED BY <1>4, <1>5

(* The sum of one term. *)
LEMMA SumOfOne ==
    ASSUME NEW f, NEW x, f[x] \in Int
    PROVE  IsFiniteSet({x}) /\ Total(f, {x}) = f[x]
<1>1. PICK s, e : s = {x} /\ e = {} /\ s \ {x} = e
  OBVIOUS
<1>2. IsFiniteSet(s) /\ IsFiniteSet(e)
  BY <1>1, FS_Singleton, FS_EmptySet
<1>3. Total(f, e) = 0
  BY <1>1, <1>2, SumByParts
<1>4. \A y \in s : f[y] \in Int
  BY <1>1
<1>5. Total(f, s) = f[x] + Total(f, s \ {x})
  BY <1>1, <1>2, <1>4, SumOfOneMore
<1>6. PICK v \in Int : v = f[x]
  OBVIOUS
<1>7. Total(f, s) = v
  <2>1. Total(f, s \ {x}) = 0
    BY <1>1, <1>3
  <2> QED BY <1>5, <1>6, <2>1
<1> QED BY <1>1, <1>2, <1>6, <1>7

(* Things summed in the order they are numbered in. *)
LEMMA SumNumbered ==
    ASSUME NEW n \in Nat, NEW T, IsFiniteSet(T), NEW first \in [1..n -> T],
           \A x \in T : \E i \in 1..n : first[i] = x,
           \A i, j \in 1..n : first[i] = first[j] => i = j,
           NEW h, \A x \in T : h[x] \in Int,
           NEW p, \A i \in 1..n : p[i] = h[first[i]]
    PROVE  Total(p, 1..n) = Total(h, T)
<1>1. PICK I : I = 1..n /\ IsFiniteSet(I)
  BY FS_Interval
<1>2. PICK piece : piece = [i \in I |-> {first[i]}]
  OBVIOUS
<1>3. \A i \in I : piece[i] = {first[i]} /\ first[i] \in T
  BY <1>1, <1>2
<1>4. /\ \A i \in I : piece[i] \subseteq T
      /\ \A x \in T : \E i \in I : x \in piece[i]
  BY <1>1, <1>3
<1>5. ASSUME NEW i \in I PROVE IsFiniteSet(piece[i])
  <2>1. PICK x : piece[i] = {x}
    BY <1>3
  <2>2. IsFiniteSet({x})
    BY FS_Singleton
  <2> QED BY <2>1, <2>2
<1>6. ASSUME NEW i \in I PROVE p[i] = Total(h, piece[i])
  <2>1. PICK x \in T : x = first[i] /\ piece[i] = {x}
    BY <1>3
  <2>2. h[x] \in Int
    OBVIOUS
  <2>3. Total(h, {x}) = h[x]
    BY <2>2, SumOfOne
  <2>4. p[i] = h[x]
    BY <1>1, <2>1
  <2> QED BY <2>1, <2>3, <2>4
<1>7. \A i, j \in I : i = j \/ piece[i] \cap piece[j] = {}
  <2>1. \A i, j \in I : first[i] = first[j] => i = j
    BY <1>1
  <2> QED BY <1>3, <2>1
<1>8. Pieces(I, piece, T)
  BY <1>4, <1>5, <1>7 DEF Pieces
<1>9. Total(p, I) = Total(h, T)
  BY <1>1, <1>6, <1>8, SumOfPieces
<1> QED BY <1>1, <1>9

-----------------------------------------------------------------------------
(* Spans *)

Convex(S) == \A x, y \in S : \A z \in Int : x <= z /\ z <= y => z \in S

(* The span at a first line: it is there, it is joined, and what touches   *)
(* it is in it.                                                            *)
LEMMA SpanHolds ==
    ASSUME NEW L \in SUBSET Nat, NEW f \in Firsts(L)
    PROVE  /\ f \in SpanAt(L, f) /\ SpanAt(L, f) \subseteq L
           /\ Convex(SpanAt(L, f))
           /\ \A x \in SpanAt(L, f) : f <= x
           /\ \A x \in SpanAt(L, f) : x + 1 \in L => x + 1 \in SpanAt(L, f)
           /\ \A x \in SpanAt(L, f) : x - 1 \in L => x - 1 \in SpanAt(L, f)
<1> DEFINE S == SpanAt(L, f)
<1>1. f \in L /\ f - 1 \notin L /\ f \in Nat
  BY DEF Firsts
<1>2. f \in S /\ S \subseteq L
  <2>1. f..f = {f}
    BY <1>1
  <2> QED BY <1>1, <2>1 DEF SpanAt
<1>3. ASSUME NEW x \in S PROVE x \in Nat /\ f <= x /\ f..x \subseteq L /\ x \in L
  BY DEF SpanAt
<1>4. Convex(S)
  <2> SUFFICES ASSUME NEW x \in S, NEW y \in S, NEW z \in Int, x <= z, z <= y
               PROVE  z \in S
    BY DEF Convex
  <2>1. f <= z /\ z \in f..y /\ f..z \subseteq f..y
    BY <1>1, <1>3
  <2> QED BY <1>3, <2>1 DEF SpanAt
<1>5. ASSUME NEW x \in S, x + 1 \in L PROVE x + 1 \in S
  <2>1. f..(x + 1) = (f..x) \cup {x + 1} /\ f <= x + 1
    BY <1>1, <1>3
  <2> QED BY <1>3, <1>5, <2>1 DEF SpanAt
<1>6. ASSUME NEW x \in S, x - 1 \in L PROVE x - 1 \in S
  <2>1. x # f
    BY <1>1, <1>6
  <2>2. x - 1 \in Int /\ f <= x - 1 /\ x - 1 <= x
    BY <1>1, <1>3, <2>1
  <2> QED BY <1>2, <1>4, <2>2 DEF Convex
<1> QED BY <1>2, <1>3, <1>4, <1>5, <1>6

(* Every line is in a span, with all that is joined to it. *)
LEMMA InSomeSpan ==
    ASSUME NEW L \in SUBSET Nat, NEW l \in L
    PROVE  \E f \in Firsts(L) : l \in SpanAt(L, f)
<1> DEFINE Up == {a \in Nat : a <= l /\ a..l \subseteq L}
<1>1. l \in Up
  <2>1. l..l = {l}
    OBVIOUS
  <2> QED BY <2>1
<1>2. PICK a \in Up : \A b \in Up : a <= b
  <2>1. Up \in SUBSET Nat /\ Up # {}
    BY <1>1
  <2> QED BY <2>1, Least
<1>3. a \in L
  OBVIOUS
<1>4. a - 1 \notin L
  <2> SUFFICES ASSUME a - 1 \in L PROVE FALSE
    OBVIOUS
  <2>1. (a - 1)..l = {a - 1} \cup (a..l) /\ a - 1 <= l /\ a - 1 \in Nat
    OBVIOUS
  <2>2. a - 1 \in Up
    BY <2>1
  <2> QED BY <1>2, <2>2
<1> QED BY <1>3, <1>4 DEF Firsts, SpanAt

(* Two spans with a line in common are one. *)
LEMMA InOneSpan ==
    ASSUME NEW L \in SUBSET Nat, NEW f \in Firsts(L), NEW g \in Firsts(L),
           NEW x \in SpanAt(L, f), x \in SpanAt(L, g)
    PROVE  f = g
<1>1. /\ f \in Nat /\ g \in Nat /\ x \in Nat /\ f <= x /\ g <= x
      /\ f..x \subseteq L /\ g..x \subseteq L
      /\ f - 1 \notin L /\ g - 1 \notin L
  BY DEF SpanAt, Firsts
<1>2. ~(f < g)
  <2> SUFFICES ASSUME f < g PROVE FALSE
    OBVIOUS
  <2>1. g - 1 \in f..x
    BY <1>1
  <2> QED BY <1>1, <2>1
<1>3. ~(g < f)
  <2> SUFFICES ASSUME g < f PROVE FALSE
    OBVIOUS
  <2>1. f - 1 \in g..x
    BY <1>1
  <2> QED BY <1>1, <2>1
<1> QED BY <1>1, <1>2, <1>3

(* A convex set of lines is inside a span if it meets it. *)
LEMMA ConvexInSpan ==
    ASSUME NEW L \in SUBSET Nat, NEW f \in Firsts(L), NEW K \in SUBSET L, Convex(K),
           NEW l \in K, l \in SpanAt(L, f)
    PROVE  K \subseteq SpanAt(L, f)
<1> SUFFICES ASSUME NEW x \in K PROVE x \in SpanAt(L, f)
  OBVIOUS
<1>1. /\ f \in Nat /\ l \in Nat /\ x \in Nat /\ f <= l /\ f..l \subseteq L
      /\ f - 1 \notin L
  BY DEF SpanAt, Firsts
<1>2. f <= x
  <2> SUFFICES ASSUME x < f PROVE FALSE
    BY <1>1
  <2>1. f - 1 \in Int /\ x <= f - 1 /\ f - 1 <= l
    BY <1>1
  <2>2. f - 1 \in K
    BY <2>1 DEF Convex
  <2> QED BY <1>1, <2>2
<1>3. ASSUME NEW z \in f..x PROVE z \in L
  <2>1. z \in f..l \/ (z \in Int /\ l <= z /\ z <= x)
    BY <1>1
  <2> QED BY <1>1, <2>1 DEF Convex
<1> QED BY <1>1, <1>2, <1>3 DEF SpanAt

-----------------------------------------------------------------------------
(* Windows *)

Hunks(ranges, total) ==
    \A r \in ranges : \E a, b \in 1..total : a <= b /\ r = a..b

Apart(spans) == \A v, w \in spans : v = w \/ \A l \in v : {l, l + 1} \cap w = {}

(* The ends of a stretch. *)
LEMMA Ends ==
    ASSUME NEW a \in Nat, NEW b \in Nat, a <= b
    PROVE  Min(a..b) = a /\ Max(a..b) = b
<1>1. a..b \in SUBSET Nat /\ a..b \in SUBSET (0..b) /\ a..b # {}
  OBVIOUS
<1>2. Min(a..b) \in a..b /\ \A y \in a..b : Min(a..b) <= y
  BY <1>1, Least
<1>3. Max(a..b) \in a..b /\ \A y \in a..b : y <= Max(a..b)
  BY <1>1, Greatest
<1> QED BY <1>2, <1>3

(* Spans have all the lines, each in one piece, and do not touch. *)
LEMMA SpansHold ==
    ASSUME NEW L \in SUBSET Nat
    PROVE  /\ \A s \in Spans(L) : s # {} /\ s \subseteq L /\ Convex(s)
           /\ \A l \in L : \E s \in Spans(L) : l \in s
           /\ Apart(Spans(L))
           /\ IsFiniteSet(L) => IsFiniteSet(Spans(L))
<1>1. \A s \in Spans(L) : s # {} /\ s \subseteq L /\ Convex(s)
  BY SpanHolds DEF Spans
<1>2. \A l \in L : \E s \in Spans(L) : l \in s
  BY InSomeSpan DEF Spans
<1>3. Apart(Spans(L))
  <2> SUFFICES ASSUME NEW f \in Firsts(L), NEW g \in Firsts(L),
                      NEW l \in SpanAt(L, f), {l, l + 1} \cap SpanAt(L, g) # {}
               PROVE  SpanAt(L, f) = SpanAt(L, g)
    BY DEF Apart, Spans
  <2>1. PICK m \in {l, l + 1} : m \in SpanAt(L, g)
    OBVIOUS
  <2>2. m \in L
    BY <2>1, SpanHolds
  <2>3. m \in SpanAt(L, f)
    BY <2>1, <2>2, SpanHolds
  <2> QED BY <2>1, <2>3, InOneSpan
<1>4. ASSUME IsFiniteSet(L) PROVE IsFiniteSet(Spans(L))
  <2>1. IsFiniteSet(Firsts(L))
    <3>1. Firsts(L) \in SUBSET L
      BY DEF Firsts
    <3> QED BY <1>4, <3>1, FS_Subset
  <2>2. [f \in Firsts(L) |-> SpanAt(L, f)] \in Surjection(Firsts(L), Spans(L))
    BY DEF Surjection, Spans
  <2> QED BY <2>1, <2>2, FS_Surjection
<1> QED BY <1>1, <1>2, <1>3, <1>4

(* Windows are joined lines of the file, do not touch, and each has a line *)
(* of a hunk.                                                              *)
LEMMA WindowsHold ==
    ASSUME NEW total \in Nat, NEW ranges, Hunks(ranges, total)
    PROVE  /\ \A w \in Windows(ranges, total) :
                 /\ w # {} /\ w \subseteq 1..total /\ Convex(w)
                 /\ \E r \in ranges : r \cap w # {}
           /\ Apart(Windows(ranges, total)) /\ IsFiniteSet(Windows(ranges, total))
<1> DEFINE Wide(r) == (Min(r) - Context)..(Max(r) + Context)
           L == (UNION {Wide(r) : r \in {s \in ranges : Min(s) <= total}}) \cap 1..total
<1>1. Windows(ranges, total) = Spans(L)
  BY DEF Windows
<1>2. L \in SUBSET Nat /\ L \in SUBSET (1..total) /\ IsFiniteSet(L)
  <2>1. IsFiniteSet(1..total)
    BY FS_Interval
  <2>2. L \in SUBSET (1..total)
    OBVIOUS
  <2>3. \A x \in 1..total : x \in Nat
    OBVIOUS
  <2> HIDE DEF L
  <2>4. IsFiniteSet(L)
    BY <2>1, <2>2, FS_Subset
  <2> QED BY <2>2, <2>3, <2>4
<1>3. ASSUME NEW w \in Spans(L) PROVE \E r \in ranges : r \cap w # {}
  <2>1. w # {} /\ w \subseteq L
    BY <1>2, <1>3, SpansHold
  <2>2. PICK l \in w : l \in L
    BY <2>1
  <2>3. PICK r \in ranges : l \in Wide(r) /\ Min(r) <= total
    BY <2>2
  <2>4. PICK a \in 1..total, b \in 1..total : a <= b /\ r = a..b
    BY DEF Hunks
  <2>5. Min(r) = a /\ Max(r) = b /\ a \in Nat /\ b \in Nat /\ Context \in Nat
    BY <2>4, Ends, SizesAssumption
  <2> DEFINE K == Wide(r) \cap 1..total
  <2>6. K \in SUBSET L
    <3> HIDE DEF Wide
    <3> QED BY <2>3
  <2>7. Convex(K)
    BY <2>5 DEF Convex
  <2>8. l \in K /\ a \in K
    BY <1>2, <2>2, <2>3, <2>4, <2>5
  <2>9. PICK f \in Firsts(L) : w = SpanAt(L, f)
    BY DEF Spans
  <2> HIDE DEF K, L
  <2>10. K \subseteq w
    BY <1>2, <2>6, <2>7, <2>8, <2>9, ConvexInSpan
  <2>11. a \in r
    BY <2>4
  <2> QED BY <2>8, <2>10, <2>11
<1> HIDE DEF L
<1> QED BY <1>1, <1>2, <1>3, SpansHold

(* The core of a window is a joined part of it that is not empty. *)
LEMMA CoreHolds ==
    ASSUME NEW total \in Nat, NEW ranges, Hunks(ranges, total),
           NEW w, w \subseteq 1..total, Convex(w), \E r \in ranges : r \cap w # {}
    PROVE  /\ Core(ranges, w) \subseteq w /\ Core(ranges, w) # {}
           /\ Convex(Core(ranges, w))
<1> DEFINE inside == UNION {r \in ranges : r \cap w # {}}
<1>1. Core(ranges, w) = (Min(inside)..Max(inside)) \cap w
  BY DEF Core
<1>2. PICK l \in w : \E r \in ranges : l \in r
  OBVIOUS
<1>3. inside \in SUBSET Nat /\ inside \in SUBSET (0..total) /\ inside # {} /\ l \in inside
  <2>1. \A s \in ranges : s \subseteq 1..total
    BY DEF Hunks
  <2>2. inside \subseteq 1..total /\ l \in inside
    BY <1>2, <2>1
  <2>3. \A x \in 1..total : x \in Nat /\ x \in 0..total
    OBVIOUS
  <2> HIDE DEF inside
  <2> QED BY <2>2, <2>3
<1> HIDE DEF inside
<1>4. /\ Min(inside) \in Nat /\ Max(inside) \in Nat
      /\ Min(inside) <= l /\ l <= Max(inside) /\ l \in Nat
  BY <1>3, Least, Greatest
<1>5. l \in Core(ranges, w)
  BY <1>1, <1>2, <1>4
<1>6. Convex(Min(inside)..Max(inside))
  BY <1>4 DEF Convex
<1>7. Convex(Core(ranges, w))
  BY <1>1, <1>6 DEF Convex
<1> QED BY <1>1, <1>5, <1>7

-----------------------------------------------------------------------------
(* What is picked of a window *)

(* Lines of a file are finitely many numbers. *)
LEMMA SomeLines ==
    ASSUME NEW total \in Nat, NEW S, S \subseteq 1..total
    PROVE  /\ S \in SUBSET Nat /\ S \in SUBSET (0..total)
           /\ IsFiniteSet(S) /\ Cardinality(S) \in Nat
<1>1. IsFiniteSet(1..total) /\ \A x \in 1..total : x \in Nat /\ x \in 0..total
  BY FS_Interval
<1>2. S \in SUBSET (1..total)
  OBVIOUS
<1>3. IsFiniteSet(S)
  BY <1>1, <1>2, FS_Subset
<1> QED BY <1>1, <1>3, FS_CardinalityType

(* Cutting a span leaves some lines of it. *)
LEMMA SplitInside ==
    ASSUME NEW size, NEW total \in Nat, NEW span, span \subseteq 1..total, span # {},
           NEW budget
    PROVE  Split(size, span, budget) # {} /\ Split(size, span, budget) \subseteq span
<1> DEFINE room == IF budget > MarkerBudget THEN budget - MarkerBudget ELSE 0
           Cost(lines) == Total(size, lines) + Cardinality(lines)
           Step(kept, rest) ==
              LET head == {l \in kept : \A m \in rest : l < m}
                  Fits(line) == Cost(kept \cup {line}) <= room
              IN IF rest = {} THEN kept
                 ELSE IF Cost(head) <= Cost(kept \ head) /\ Fits(Min(rest))
                 THEN kept \cup {Min(rest)}
                 ELSE IF Fits(Max(rest)) THEN kept \cup {Max(rest)}
                 ELSE kept
           step == [kept \in SUBSET span |-> Step(kept, span \ kept)]
           ends == Iterate(step, {}, Cardinality(span))
<1>1. Split(size, span, budget) = IF ends = {} THEN {Min(span)} ELSE ends
  BY DEF Split
<1>2. Min(span) \in span
  BY Least
<1>3. Cardinality(span) \in Nat
  BY SomeLines
<1>4. ASSUME NEW kept \in SUBSET span PROVE step[kept] \in SUBSET span
  <2> DEFINE rest == span \ kept
  <2>1. step[kept] = Step(kept, rest)
    OBVIOUS
  <2>2. rest # {} => Min(rest) \in span /\ Max(rest) \in span
    <3>1. rest \in SUBSET Nat /\ rest \in SUBSET (0..total) /\ rest \subseteq span
      OBVIOUS
    <3> HIDE DEF rest
    <3> QED BY <3>1, Least, Greatest
  <2>3. Step(kept, rest) \in {kept, kept \cup {Min(rest)}, kept \cup {Max(rest)}}
        /\ (rest = {} => Step(kept, rest) = kept)
    OBVIOUS
  <2> HIDE DEF step, Step, rest
  <2> QED BY <2>1, <2>2, <2>3
<1>5. ends \in SUBSET span
  <2> HIDE DEF step
  <2> QED BY <1>3, <1>4, LoopKeeps
<1> HIDE DEF ends
<1> QED BY <1>1, <1>2, <1>5

(* The first and the last of some lines. *)
LEMMA Extremes ==
    ASSUME NEW total \in Nat, NEW S, S \subseteq 1..total, S # {}
    PROVE  \E a, b \in S : /\ Min(S) = a /\ Max(S) = b /\ a \in Nat /\ b \in Nat
                           /\ \A y \in S : y \in Nat /\ a <= y /\ y <= b
<1>1. S \in SUBSET Nat /\ S \in SUBSET (0..total)
  BY SomeLines
<1>2. Min(S) \in S /\ Max(S) \in S /\ \A y \in S : Min(S) <= y /\ y <= Max(S)
  BY <1>1, Least, Greatest
<1> QED BY <1>1, <1>2

(* Joined lines stay joined when one is added at an end. *)
LEMMA OneLineMore ==
    ASSUME NEW total \in Nat, NEW S, S \subseteq 1..total, S # {}, Convex(S),
           NEW line \in {Min(S) - 1, Max(S) + 1}, line \in 1..total
    PROVE  /\ Convex(S \cup {line})
           /\ line = Min(S) - 1 => Max(S \cup {line}) = Max(S)
<1>1. PICK a \in S, b \in S : /\ Min(S) = a /\ Max(S) = b /\ a \in Nat /\ b \in Nat
                             /\ \A y \in S : y \in Nat /\ a <= y /\ y <= b
  BY Extremes
<1>2. Convex(S \cup {line})
  <2> SUFFICES ASSUME NEW x \in S \cup {line}, NEW y \in S \cup {line},
                      NEW z \in Int, x <= z, z <= y, z # line
               PROVE  z \in S
    BY DEF Convex
  <2>1. a <= z /\ z <= b
    BY <1>1
  <2> QED BY <1>1, <2>1 DEF Convex
<1>3. ASSUME line = Min(S) - 1 PROVE Max(S \cup {line}) = Max(S)
  <2>1. S \cup {line} \subseteq 1..total
    OBVIOUS
  <2>2. PICK c \in S \cup {line}, d \in S \cup {line} :
           Max(S \cup {line}) = d /\ d \in Nat /\ \A y \in S \cup {line} : y <= d
    BY <2>1, Extremes
  <2>3. b <= d /\ d <= b
    BY <1>1, <1>3, <2>2
  <2> QED BY <1>1, <2>2, <2>3
<1> QED BY <1>2, <1>3

(* Bytes of lines that are each followed by a newline. *)
Weight(size, lines) == Total(size, lines) + Cardinality(lines)

(* A piece without its first or its last line is a piece. *)
LEMMA OneLineLess ==
    ASSUME NEW total \in Nat, NEW S, S \subseteq 1..total, S # {}, Convex(S),
           NEW line \in {Min(S), Max(S)}
    PROVE  Convex(S \ {line})
<1>1. PICK a \in S, b \in S : /\ Min(S) = a /\ Max(S) = b /\ a \in Nat /\ b \in Nat
                             /\ \A y \in S : y \in Nat /\ a <= y /\ y <= b
  BY Extremes
<1> SUFFICES ASSUME NEW x \in S, NEW y \in S, NEW z \in Int, x <= z, z <= y,
                    x # line, y # line
             PROVE  z \in S /\ z # line
  BY DEF Convex
<1>2. z \in S
  BY DEF Convex
<1>3. z # line
  <2>1. a <= x /\ y <= b /\ x \in Nat /\ y \in Nat
    BY <1>1
  <2>2. line = a \/ line = b
    BY <1>1
  <2> QED BY <1>1, <2>1, <2>2
<1> QED BY <1>2, <1>3

(* A piece has one first line. *)
LEMMA PieceHasOneFirst ==
    ASSUME NEW total \in Nat, NEW S, S \subseteq 1..total, Convex(S)
    PROVE  Cardinality(Firsts(S)) \in Nat /\ Cardinality(Firsts(S)) <= 1
<1>1. ASSUME NEW f \in Firsts(S), NEW g \in Firsts(S) PROVE ~(f < g)
  <2> SUFFICES ASSUME f < g PROVE FALSE
    OBVIOUS
  <2>1. f \in S /\ g \in S /\ g - 1 \notin S /\ f \in Nat /\ g \in Nat
    BY DEF Firsts
  <2>2. f <= g - 1 /\ g - 1 <= g /\ g - 1 \in Int
    BY <2>1
  <2> QED BY <2>1, <2>2 DEF Convex
<1>2. \A f, g \in Firsts(S) : f = g
  <2> SUFFICES ASSUME NEW f \in Firsts(S), NEW g \in Firsts(S) PROVE f = g
    OBVIOUS
  <2>1. f \in Nat /\ g \in Nat
    BY DEF Firsts
  <2> QED BY <1>1, <2>1
<1>3. CASE Firsts(S) = {}
  BY <1>3, FS_EmptySet
<1>4. CASE Firsts(S) # {}
  <2>1. PICK f : Firsts(S) = {f}
    BY <1>2, <1>4
  <2>2. Cardinality({f}) = 1
    BY FS_Singleton
  <2> QED BY <2>1, <2>2
<1> QED BY <1>3, <1>4

(* Both ends of a piece have two first lines at most. *)
LEMMA EndsHaveTwoFirsts ==
    ASSUME NEW total \in Nat, NEW span, span \subseteq 1..total, Convex(span),
           NEW kept, kept \subseteq span, Convex(span \ kept)
    PROVE  Cardinality(Firsts(kept)) \in Nat /\ Cardinality(Firsts(kept)) <= 2
<1> DEFINE F == Firsts(kept)
           A == {f \in F : f - 1 \notin span}
           B == {f \in F : f - 1 \in span}
<1>1. F = A \cup B
  OBVIOUS
<1>2. ASSUME NEW f \in F PROVE f \in kept /\ f \in span /\ f \in Nat /\ f - 1 \notin kept
  BY DEF Firsts
<1>3. A \subseteq Firsts(span)
  BY <1>2 DEF Firsts
<1>4. ASSUME NEW f \in B, NEW g \in B PROVE ~(f < g)
  <2> SUFFICES ASSUME f < g PROVE FALSE
    OBVIOUS
  <2>1. /\ f \in kept /\ f \in Nat /\ g \in Nat
        /\ f - 1 \in span \ kept /\ g - 1 \in span \ kept
    BY <1>2
  <2>2. f - 1 <= f /\ f <= g - 1 /\ f \in Int
    BY <2>1
  <2> QED BY <2>1, <2>2 DEF Convex
<1>5. \A f, g \in B : f = g
  <2> SUFFICES ASSUME NEW f \in B, NEW g \in B PROVE f = g
    OBVIOUS
  <2>1. f \in Nat /\ g \in Nat
    BY <1>2
  <2> QED BY <1>4, <2>1
<1>6. IsFiniteSet(Firsts(span)) /\ Cardinality(Firsts(span)) \in Nat /\ Cardinality(Firsts(span)) <= 1
  <2>1. Firsts(span) \subseteq 1..total
    BY DEF Firsts
  <2> QED BY <2>1, SomeLines, PieceHasOneFirst
<1>7. IsFiniteSet(A) /\ Cardinality(A) \in Nat /\ Cardinality(A) <= 1
  <2> HIDE DEF A
  <2>1. PICK s : s = Firsts(span) /\ A \in SUBSET s
    BY <1>3
  <2>2. IsFiniteSet(A) /\ Cardinality(A) <= Cardinality(s)
    BY <1>6, <2>1, FS_Subset
  <2>3. Cardinality(A) \in Nat
    BY <2>2, FS_CardinalityType
  <2> QED BY <1>6, <2>1, <2>2, <2>3
<1>8. IsFiniteSet(B) /\ Cardinality(B) \in Nat /\ Cardinality(B) <= 1
  <2> HIDE DEF B
  <2>1. CASE B = {}
    BY <2>1, FS_EmptySet
  <2>2. CASE B # {}
    <3>1. PICK f : B = {f}
      BY <1>5, <2>2
    <3>2. IsFiniteSet({f}) /\ Cardinality({f}) = 1
      BY FS_Singleton
    <3> QED BY <3>1, <3>2
  <2> QED BY <2>1, <2>2
<1> HIDE DEF A, B, F
<1>9. A \cap B \in SUBSET A
  OBVIOUS
<1>10. /\ Cardinality(A \cap B) \in Nat
       /\ Cardinality(A \cup B) = Cardinality(A) + Cardinality(B) - Cardinality(A \cap B)
       /\ Cardinality(A \cup B) \in Nat
  <2>1. IsFiniteSet(A \cap B) /\ IsFiniteSet(A \cup B)
    BY <1>7, <1>8, <1>9, FS_Subset, FS_Union
  <2>2. Cardinality(A \cup B) = Cardinality(A) + Cardinality(B) - Cardinality(A \cap B)
    BY <1>7, <1>8, FS_Union
  <2> QED BY <2>1, <2>2, FS_CardinalityType
<1> QED BY <1>1, <1>7, <1>8, <1>10 DEF F

(* A weight is a number, one more than the bytes of the lines joined.      *)
LEMMA WeightHolds ==
    ASSUME NEW total \in Nat, NEW size, \A l \in 1..total : size[l] \in Nat,
           NEW S, S \subseteq 1..total, S # {}
    PROVE  Weight(size, S) \in Nat /\ Bytes(size, S) = Weight(size, S) - 1
<1>1. IsFiniteSet(S) /\ Cardinality(S) \in Nat
  BY SomeLines
<1>2. Total(size, S) \in Nat
  BY <1>1, SumIsNat
<1>3. PICK t \in Nat, c \in Nat : t = Total(size, S) /\ c = Cardinality(S)
  BY <1>1, <1>2
<1>4. Weight(size, S) = t + c
  BY <1>3 DEF Weight
<1>5. Bytes(size, S) = t + c - 1
  BY <1>3 DEF Bytes
<1> QED BY <1>4, <1>5

(* The weight of one line is its bytes and a newline, and of none nothing. *)
LEMMA WeightOfOne ==
    ASSUME NEW size
    PROVE  /\ \A l : size[l] \in Nat => Weight(size, {l}) = size[l] + 1
           /\ Weight(size, {}) = 0
<1>1. ASSUME NEW l, size[l] \in Nat PROVE Weight(size, {l}) = size[l] + 1
  <2>1. size[l] \in Int
    BY <1>1
  <2>2. Total(size, {l}) = size[l] /\ Cardinality({l}) = 1
    BY <2>1, SumOfOne, FS_Singleton
  <2> QED BY <2>2 DEF Weight
<1>2. Weight(size, {}) = 0
  <2>1. Total(size, {}) = 0 /\ Cardinality({}) = 0
    BY SumByParts, FS_EmptySet
  <2> QED BY <2>1 DEF Weight
<1> QED BY <1>1, <1>2

(* The ends kept of a piece whose lines each fit are together inside what  *)
(* is left when a marker is allowed for.                                   *)
LEMMA SplitFits ==
    ASSUME NEW total \in Nat, NEW size, \A l \in 1..total : size[l] \in Nat,
           NEW span, span \subseteq 1..total, span # {}, Convex(span),
           NEW budget \in Nat,
           \A l \in span : size[l] + 1 <= budget - MarkerBudget
    PROVE  LET kept == Split(size, span, budget) IN
           /\ Weight(size, kept) <= budget - MarkerBudget
           /\ Cardinality(Firsts(kept)) <= 2
<1> DEFINE room == IF budget > MarkerBudget THEN budget - MarkerBudget ELSE 0
           Cost(lines) == Total(size, lines) + Cardinality(lines)
           Step(kept, rest) ==
              LET head == {l \in kept : \A m \in rest : l < m}
                  Fits(line) == Cost(kept \cup {line}) <= room
              IN IF rest = {} THEN kept
                 ELSE IF Cost(head) <= Cost(kept \ head) /\ Fits(Min(rest))
                 THEN kept \cup {Min(rest)}
                 ELSE IF Fits(Max(rest)) THEN kept \cup {Max(rest)}
                 ELSE kept
           step == [kept \in SUBSET span |-> Step(kept, span \ kept)]
           ends == Iterate(step, {}, Cardinality(span))
           I == {kept \in SUBSET span : Convex(span \ kept) /\ Cost(kept) <= room}
<1>1. Split(size, span, budget) = IF ends = {} THEN {Min(span)} ELSE ends
  BY DEF Split
<1>2. PICK first \in span : first = Min(span)
  BY Extremes
<1>3. Cardinality(span) \in Nat
  BY SomeLines
<1>4. room = budget - MarkerBudget /\ room \in Nat
  <2>1. size[first] \in Nat /\ size[first] + 1 <= budget - MarkerBudget
    OBVIOUS
  <2>2. MarkerBudget \in Nat
    BY SizesAssumption
  <2> QED BY <2>1, <2>2
<1> HIDE DEF room
<1>5. ASSUME NEW kept \in I PROVE step[kept] \in I
  <2> DEFINE rest == span \ kept
  <2>1. step[kept] = Step(kept, rest)
    OBVIOUS
  <2>2. \/ Step(kept, rest) = kept
        \/ rest # {} /\ \E line \in {Min(rest), Max(rest)} :
              Step(kept, rest) = kept \cup {line} /\ Cost(kept \cup {line}) <= room
    <3> HIDE DEF Cost, rest
    <3> QED OBVIOUS
  <2>3. ASSUME rest # {}, NEW line \in {Min(rest), Max(rest)}, Cost(kept \cup {line}) <= room
        PROVE  kept \cup {line} \in I
    <3>1. rest \subseteq 1..total /\ Convex(rest)
      OBVIOUS
    <3>2. PICK r : r = rest /\ r \subseteq 1..total /\ Convex(r) /\ r # {}
      BY <2>3, <3>1
    <3>3. line \in r /\ Convex(r \ {line})
      BY <2>3, <3>2, Extremes, OneLineLess
    <3>4. span \ (kept \cup {line}) = r \ {line} /\ kept \cup {line} \in SUBSET span
      BY <3>2, <3>3
    <3> HIDE DEF Cost
    <3> QED BY <2>3, <3>3, <3>4
  <2> HIDE DEF step, Step, rest, I, Cost
  <2> QED BY <2>1, <2>2, <2>3
<1>6. {} \in I
  <2>1. Cost({}) = 0
    BY WeightOfOne DEF Weight
  <2>2. span \ {} = span
    OBVIOUS
  <2> HIDE DEF Cost
  <2> QED BY <1>4, <2>1, <2>2
<1>7. ends \in I
  <2> HIDE DEF step, I
  <2> QED BY <1>3, <1>5, <1>6, LoopKeeps
<1>8. {first} \in I
  <2>1. Convex(span \ {first})
    BY <1>2, OneLineLess
  <2>2. Cost({first}) = size[first] + 1
    BY WeightOfOne DEF Weight
  <2>3. size[first] + 1 <= room
    BY <1>4
  <2> HIDE DEF Cost
  <2> QED BY <2>1, <2>2, <2>3
<1>9. Split(size, span, budget) \in I
  <2> HIDE DEF ends, I
  <2> QED BY <1>1, <1>2, <1>7, <1>8
<1>10. PICK kept : kept = Split(size, span, budget)
  OBVIOUS
<1>11. kept \subseteq span /\ Convex(span \ kept) /\ Weight(size, kept) <= room
  BY <1>9, <1>10 DEF Weight
<1>12. Cardinality(Firsts(kept)) <= 2
  BY <1>11, EndsHaveTwoFirsts
<1> QED BY <1>4, <1>10, <1>11, <1>12

(* All changed lines and the context next to them, or changed lines only.  *)
LEMMA PickInside ==
    ASSUME NEW size, NEW total \in Nat, NEW w, w \subseteq 1..total, Convex(w), w # {},
           NEW core, core \subseteq w, core # {}, Convex(core), NEW budget
    PROVE  LET kept == Pick(size, w, core, budget) IN
           /\ kept # {} /\ kept \subseteq w
           /\ \/ core \subseteq kept /\ Convex(kept) /\ Bytes(size, kept) <= budget
              \/ /\ kept \subseteq core /\ kept = Split(size, core, budget)
                 /\ ~(Bytes(size, w) <= budget)
<1> DEFINE Fits(lines) == Bytes(size, lines) <= budget
           With(kept, line) ==
              IF line \in w /\ Fits(kept \cup {line}) THEN kept \cup {line} ELSE kept
           Grow(kept) == With(With(kept, Min(kept) - 1), Max(kept) + 1)
           step == [kept \in SUBSET w |-> Grow(kept)]
           I == {kept \in SUBSET w : core \subseteq kept /\ Convex(kept) /\ Fits(kept)}
<1>1. Pick(size, w, core, budget) =
        IF Fits(w) THEN w
        ELSE IF ~Fits(core) THEN Split(size, core, budget)
        ELSE Iterate(step, core, Cardinality(w))
  BY DEF Pick
<1>2. ASSUME NEW kept \in I, NEW line \in {Min(kept) - 1, Max(kept) + 1}
      PROVE  With(kept, line) \in I /\ kept \subseteq With(kept, line)
             /\ (line = Min(kept) - 1 => Max(With(kept, line)) = Max(kept))
  <2>1. kept \subseteq 1..total /\ kept # {} /\ Convex(kept)
    OBVIOUS
  <2>2. line \in w => line \in 1..total
    OBVIOUS
  <2>3. line \in w => /\ Convex(kept \cup {line})
                      /\ line = Min(kept) - 1 => Max(kept \cup {line}) = Max(kept)
    BY <2>1, <2>2, OneLineMore
  <2>4. \/ With(kept, line) = kept
        \/ line \in w /\ With(kept, line) = kept \cup {line} /\ Fits(kept \cup {line})
    <3> HIDE DEF Fits
    <3> QED OBVIOUS
  <2> HIDE DEF With, Fits
  <2>5. PICK more : more = kept \cup {line}
    OBVIOUS
  <2>6. line \in w => more \subseteq w /\ core \subseteq more /\ Convex(more)
    BY <2>3, <2>5
  <2>7. line \in w /\ Fits(more) => more \in I
    BY <2>6
  <2> HIDE DEF I
  <2>8. kept \in I /\ kept \subseteq more
    BY <2>5
  <2>9. line \in w /\ line = Min(kept) - 1 => Max(more) = Max(kept)
    BY <2>3, <2>5
  <2>10. With(kept, line) = kept \/ (line \in w /\ With(kept, line) = more /\ Fits(more))
    BY <2>4, <2>5
  <2> QED BY <2>7, <2>8, <2>9, <2>10

<1>3. ASSUME NEW kept \in I PROVE step[kept] \in I
  <2> DEFINE more == With(kept, Min(kept) - 1)
  <2>1. more \in I /\ Max(more) = Max(kept)
    BY <1>2
  <2>2. step[kept] = With(more, Max(kept) + 1)
    OBVIOUS
  <2> HIDE DEF With, more, step
  <2>3. With(more, Max(more) + 1) \in I
    BY <1>2, <2>1
  <2> QED BY <2>1, <2>2, <2>3
<1>4. Cardinality(w) \in Nat
  BY SomeLines
<1>5. ASSUME Fits(core) PROVE Iterate(step, core, Cardinality(w)) \in I
  <2>1. core \in I
    BY <1>5
  <2> HIDE DEF step, I
  <2> QED BY <1>3, <1>4, <2>1, LoopKeeps
<1>6. Split(size, core, budget) # {} /\ Split(size, core, budget) \subseteq core
  BY SplitInside
<1>7. PICK kept : kept = Pick(size, w, core, budget)
  OBVIOUS
<1>8. CASE Fits(w)
  <2>1. kept = w
    BY <1>1, <1>7, <1>8
  <2> QED BY <1>7, <1>8, <2>1
<1>9. CASE ~Fits(w) /\ ~Fits(core)
  <2> HIDE DEF step
  <2>1. kept = Split(size, core, budget)
    BY <1>1, <1>7, <1>9
  <2> QED BY <1>6, <1>7, <1>9, <2>1
<1>10. CASE ~Fits(w) /\ Fits(core)
  <2> HIDE DEF step
  <2>1. kept = Iterate(step, core, Cardinality(w))
    BY <1>1, <1>7, <1>10
  <2>2. kept \in I
    BY <1>5, <1>10, <2>1
  <2> QED BY <1>7, <2>2
<1> QED BY <1>8, <1>9, <1>10

(* What is picked of a window fits its share, if each changed line does:   *)
(* in one piece, or in two where a marker is allowed for.                  *)
LEMMA PickFits ==
    ASSUME NEW total \in Nat, NEW size, \A l \in 1..total : size[l] \in Nat,
           NEW w, w \subseteq 1..total, Convex(w), w # {},
           NEW core, core \subseteq w, core # {}, Convex(core), NEW budget \in Nat,
           Bytes(size, w) > budget
               => \A l \in core : size[l] + 1 <= budget - MarkerBudget
    PROVE  LET kept == Pick(size, w, core, budget) IN
           \/ Weight(size, kept) <= budget + 1 /\ Cardinality(Firsts(kept)) <= 1
           \/ Weight(size, kept) <= budget - MarkerBudget /\ Cardinality(Firsts(kept)) <= 2
<1>1. PICK kept : kept = Pick(size, w, core, budget)
  OBVIOUS
<1>2. /\ kept # {} /\ kept \subseteq w
      /\ \/ Convex(kept) /\ Bytes(size, kept) <= budget
         \/ kept = Split(size, core, budget) /\ ~(Bytes(size, w) <= budget)
  <2>1. LET k == Pick(size, w, core, budget) IN
        /\ k # {} /\ k \subseteq w
        /\ \/ core \subseteq k /\ Convex(k) /\ Bytes(size, k) <= budget
           \/ /\ k \subseteq core /\ k = Split(size, core, budget)
              /\ ~(Bytes(size, w) <= budget)
    BY PickInside
  <2> QED BY <1>1, <2>1
<1>3. kept \subseteq 1..total
  BY <1>2
<1>4. CASE Convex(kept) /\ Bytes(size, kept) <= budget
  <2>1. Cardinality(Firsts(kept)) <= 1
    BY <1>3, <1>4, PieceHasOneFirst
  <2>2. Weight(size, kept) \in Nat /\ Bytes(size, kept) = Weight(size, kept) - 1
    BY <1>2, <1>3, WeightHolds
  <2>3. Weight(size, kept) <= budget + 1
    BY <1>4, <2>2
  <2> QED BY <1>1, <2>1, <2>3
<1>5. CASE kept = Split(size, core, budget) /\ ~(Bytes(size, w) <= budget)
  <2>1. Weight(size, w) \in Nat /\ Bytes(size, w) = Weight(size, w) - 1
    BY WeightHolds
  <2>2. Bytes(size, w) > budget
    BY <1>5, <2>1
  <2>3. core \subseteq 1..total /\ \A l \in core : size[l] + 1 <= budget - MarkerBudget
    BY <2>2
  <2>4. /\ Weight(size, kept) <= budget - MarkerBudget
        /\ Cardinality(Firsts(kept)) <= 2
    BY <1>5, <2>3, SplitFits
  <2> QED BY <1>1, <2>4
<1> QED BY <1>2, <1>4, <1>5

-----------------------------------------------------------------------------
(* Division by what is not 0. *)
LEMMA EqualPart ==
    ASSUME NEW a \in Nat, NEW k \in Nat, k > 0
    PROVE  a \div k \in Nat /\ k * (a \div k) <= a /\ a < k * (a \div k) + k
  OBVIOUS

(* A quotient is at least what fits. *)
LEMMA AtLeast ==
    ASSUME NEW a \in Nat, NEW k \in Nat, k > 0, NEW x \in Nat, k * x <= a
    PROVE  x <= a \div k
<1>1. PICK d \in Nat : d = a \div k /\ k * d <= a /\ a < k * d + k
  BY EqualPart
<1>2. k * x < k * d + k
  BY <1>1
<1>3. k * d + k = k * (d + 1)
  BY <1>1
<1>4. x < d + 1
  BY <1>2, <1>3
<1> QED BY <1>1, <1>4

(* A quotient is less than what does not fit. *)
LEMMA AtMost ==
    ASSUME NEW a \in Nat, NEW k \in Nat, k > 0, NEW x \in Nat, a < k * x
    PROVE  a \div k < x
<1>1. PICK d \in Nat : d = a \div k /\ k * d <= a /\ a < k * d + k
  BY EqualPart
<1>2. k * d < k * x
  BY <1>1
<1> QED BY <1>1, <1>2

(* Taking no more than an equal part leaves the others as much each. *)
LEMMA PartFallsNot ==
    ASSUME NEW k \in Nat, k > 1, NEW a \in Nat, NEW b \in Nat, a - b <= a \div k
    PROVE  a \div k <= b \div (k - 1)
<1>1. PICK d \in Nat : d = a \div k /\ k * d <= a
  BY EqualPart
<1>2. PICK x \in Nat : x = k * d /\ (k - 1) * d = x - d
  BY Times
<1>3. PICK h \in Nat : h = k - 1 /\ h > 0
  OBVIOUS
<1>4. x - d <= b
  BY <1>1, <1>2
<1>5. h * d <= b
  BY <1>2, <1>3, <1>4
<1>6. d <= b \div h
  BY <1>3, <1>5, AtLeast
<1> QED BY <1>1, <1>3, <1>6

(* Taking an equal part leaves the rest even. *)
LEMMA StaysEven ==
    ASSUME NEW k \in Nat, k > 0, NEW q \in Nat, NEW a \in Nat,
           k * q <= a, a <= k * (q + 1)
    PROVE  /\ a \div k \in {q, q + 1}
           /\ (k - 1) * q <= a - (a \div k)
           /\ a - (a \div k) <= (k - 1) * (q + 1)
<1>1. PICK d \in Nat : d = a \div k
  BY EqualPart
<1>2. q <= d
  BY <1>1, AtLeast
<1>3. PICK x \in Nat : /\ x = k * q /\ k * (q + 1) = x + k /\ k * (q + 2) = x + k + k
                      /\ (k - 1) * q = x - q /\ (k - 1) * (q + 1) = x + k - q - 1
  BY Times
<1>4. x <= a /\ a <= x + k
  BY <1>3
<1>5. PICK r \in Nat : r = q + 2
  OBVIOUS
<1>6. a < k * r
  <2>1. a < x + k + k
    BY <1>4
  <2> QED BY <1>3, <1>5, <2>1
<1>7. d < r
  BY <1>1, <1>6, AtMost
<1>8. d \in {q, q + 1}
  BY <1>2, <1>5, <1>7
<1>9. d = q + 1 => x + k <= a
  <2> SUFFICES ASSUME d = q + 1 PROVE x + k <= a
    OBVIOUS
  <2>1. k * d <= a
    BY <1>1, EqualPart
  <2> QED BY <1>3, <2>1
<1>10. d = q => a < x + k
  <2> SUFFICES ASSUME d = q PROVE a < x + k
    OBVIOUS
  <2>1. a < k * d + k
    BY <1>1, EqualPart
  <2> QED BY <1>3, <2>1
<1>11. x - q <= a - d /\ a - d <= x + k - q - 1
  BY <1>4, <1>8, <1>9, <1>10
<1> QED BY <1>1, <1>3, <1>8, <1>11

(* Shares of what is left, in the order of what is needed: who gets less   *)
(* than it needs gets no less than anyone, to within one.                  *)
LEMMA TurnsAreFair ==
    ASSUME NEW n \in Nat, NEW need \in [1..n -> Nat],
           \A i, j \in 1..n : i <= j => need[i] <= need[j],
           NEW left \in [0..n -> Nat],
           \A p \in 1..n :
              left[p] = left[p - 1] - Smaller(need[p], left[p - 1] \div (n - p + 1))
    PROVE  \A i, j \in 1..n :
              left[i - 1] - left[i] < need[i]
                  => left[j - 1] - left[j] <= left[i - 1] - left[i] + 1
<1> DEFINE Quota(p) == left[p - 1] \div (n - p + 1)
<1>1. ASSUME NEW p \in 1..n
      PROVE  /\ left[p - 1] \in Nat /\ left[p] \in Nat /\ need[p] \in Nat
             /\ n - p + 1 \in Nat /\ n - p + 1 > 0
  <2>1. p - 1 \in 0..n /\ p \in 0..n
    OBVIOUS
  <2> QED BY <2>1
<1>2. ASSUME NEW p \in 1..n PROVE Quota(p) \in Nat
  <2>1. PICK a \in Nat, k \in Nat : a = left[p - 1] /\ k = n - p + 1 /\ k > 0
    BY <1>1
  <2>2. a \div k \in Nat
    BY <2>1, EqualPart
  <2> QED BY <2>1, <2>2
<1>3. \A p \in 1..n : left[p] = left[p - 1] - Smaller(need[p], Quota(p))
  OBVIOUS
<1>4. \A p \in 1..n : Quota(p) = left[p - 1] \div (n - p + 1)
  OBVIOUS
<1> HIDE DEF Quota
<1>5. ASSUME NEW p \in 1..n, NEW a, NEW b, NEW d, NEW m,
             a = left[p - 1], b = left[p], d = Quota(p), m = need[p]
      PROVE  /\ a \in Nat /\ b \in Nat /\ d \in Nat /\ m \in Nat /\ b = a - Smaller(m, d)
             /\ a - b = Smaller(m, d) /\ a - b <= d
  <2>1. a \in Nat /\ b \in Nat /\ d \in Nat /\ m \in Nat
    BY <1>1, <1>2, <1>5
  <2>2. b = a - Smaller(m, d)
    BY <1>3, <1>5
  <2> QED BY <2>1, <2>2 DEF Smaller
<1> SUFFICES ASSUME NEW i \in 1..n, NEW j \in 1..n, left[i - 1] - left[i] < need[i]
             PROVE  left[j - 1] - left[j] <= left[i - 1] - left[i] + 1
  OBVIOUS
<1>6. PICK q \in Nat : q = Quota(i) /\ left[i - 1] - left[i] = q /\ q < need[i]
  <2>1. PICK a, b, d, m : a = left[i - 1] /\ b = left[i] /\ d = Quota(i) /\ m = need[i]
    OBVIOUS
  <2>2. a \in Nat /\ b \in Nat /\ d \in Nat /\ m \in Nat /\ a - b = Smaller(m, d)
    BY <1>5, <2>1
  <2>3. a - b < m
    BY <2>1
  <2>4. a - b = d
    BY <2>2, <2>3 DEF Smaller
  <2> QED BY <2>1, <2>2, <2>3, <2>4
(* Before its turn the equal part of what is left does not fall. *)
<1>7. CASE j <= i
  <2> DEFINE P == {m \in Nat : m <= i - j => Quota(j) <= Quota(j + m)}
  <2>1. 0 \in P
    <3>1. j + 0 = j /\ Quota(j) \in Nat
      BY <1>2, SMTT(30)
    <3> QED BY <3>1
  <2>2. ASSUME NEW m \in Nat, m \in P PROVE m + 1 \in P
    <3> SUFFICES ASSUME m + 1 <= i - j PROVE Quota(j) <= Quota(j + (m + 1))
      OBVIOUS
    <3>1. PICK p \in 1..n : p = j + m /\ p + 1 \in 1..n /\ p + 1 = j + (m + 1)
      OBVIOUS
    <3>2. PICK k \in Nat, a \in Nat, b \in Nat :
             k = n - p + 1 /\ k > 1 /\ a = left[p - 1] /\ b = left[p]
      <4>1. n - p + 1 \in Nat /\ n - p + 1 > 1
        BY <3>1
      <4>2. left[p - 1] \in Nat /\ left[p] \in Nat
        BY <1>1
      <4> QED BY <4>1, <4>2
    <3>3. Quota(p) \in Nat /\ Quota(p + 1) \in Nat
      BY <1>2, <3>1
    <3>4. Quota(p) = a \div k
      BY <1>4, <3>2
    <3>5. Quota(p + 1) = b \div (k - 1)
      <4>1. p + 1 - 1 = p /\ n - (p + 1) + 1 = k - 1
        BY <3>2
      <4> QED BY <1>4, <3>1, <3>2, <4>1
    <3>6. a \div k <= b \div (k - 1)
      <4>1. a - b <= Quota(p)
        BY <1>5, <3>2
      <4> QED BY <3>2, <3>4, <4>1, PartFallsNot
    <3>7. Quota(j) <= Quota(p)
      BY <2>2, <3>1
    <3>8. Quota(p + 1) \in Nat /\ Quota(j) \in Nat
      BY <1>2, <3>3
    <3>9. Quota(p) <= Quota(p + 1)
      BY <3>4, <3>5, <3>6
    <3>10. Quota(j) <= Quota(p + 1)
      BY <3>3, <3>7, <3>8, <3>9
    <3> QED BY <3>1, <3>10
  <2>3. i - j \in P
    <3>1. i - j \in Nat
      BY <1>7
    <3> HIDE DEF P
    <3> QED BY <2>1, <2>2, <3>1, CountingUp
  <2>4. Quota(j) <= Quota(i)
    BY <1>7, <2>3
  <2>5. PICK a, b, d, m : a = left[j - 1] /\ b = left[j] /\ d = Quota(j) /\ m = need[j]
    OBVIOUS
  <2>6. a \in Nat /\ b \in Nat /\ d \in Nat /\ m \in Nat /\ a - b <= d
    BY <1>5, <2>5
  <2>7. a - b <= q + 1
    <3>1. d <= q
      BY <1>6, <2>4, <2>5
    <3> QED BY <2>6, <3>1
  <2> QED BY <1>6, <2>5, <2>7
(* After it the others share what is left alike. *)
<1>8. CASE i < j
  <2> DEFINE Even(p) == (n - p) * q <= left[p] /\ left[p] <= (n - p) * (q + 1)
             P == {m \in Nat : m <= n - i + 1 => Even(i - 1 + m)}
  <2>1. Even(i - 1)
    <3>1. PICK k \in Nat, a \in Nat : k = n - i + 1 /\ k > 0 /\ a = left[i - 1]
      BY <1>1
    <3>2. q = a \div k
      BY <1>4, <1>6, <3>1
    <3>3. k * q <= a /\ a < k * q + k
      BY <3>1, <3>2, EqualPart
    <3>4. k * (q + 1) = k * q + k /\ k * q \in Nat
      BY <3>1, Times
    <3>5. a <= k * (q + 1)
      BY <3>1, <3>3, <3>4
    <3>6. n - (i - 1) = k
      BY <3>1
    <3> QED BY <3>1, <3>3, <3>5, <3>6
  <2>2. ASSUME NEW p \in 1..n, i <= p, Even(p - 1)
        PROVE  Even(p) /\ left[p - 1] - left[p] <= q + 1
    <3>1. PICK k, a, b, d, m :
             /\ k \in Nat /\ k = n - p + 1 /\ k > 0 /\ a = left[p - 1] /\ b = left[p]
             /\ m = need[p] /\ d = Quota(p)
      BY <1>1
    <3>2. /\ a \in Nat /\ b \in Nat /\ d \in Nat /\ m \in Nat
          /\ a - b = Smaller(m, d)
      BY <1>5, <3>1
    <3>3. k * q <= a /\ a <= k * (q + 1)
      <4>1. n - (p - 1) = k
        BY <3>1
      <4> QED BY <2>2, <3>1, <4>1
    <3>4. /\ a \div k \in {q, q + 1}
          /\ (k - 1) * q <= a - (a \div k)
          /\ a - (a \div k) <= (k - 1) * (q + 1)
      BY <3>2, <3>1, <3>3, StaysEven
    <3>5. d = a \div k /\ d \in {q, q + 1}
      BY <1>4, <3>1, <3>4
    <3>6. q + 1 <= m
      <4>1. need[i] <= need[p] /\ need[i] \in Nat
        BY <2>2
      <4> QED BY <1>6, <3>2, <3>1, <4>1, SMTT(30)
    <3>7. a - b = d
      <4>1. d = q \/ d = q + 1
        BY <3>5
      <4>2. q \in Nat
        BY <1>6
      <4>3. d <= m
        BY <3>2, <3>6, <4>1, <4>2
      <4> QED BY <3>2, <4>3 DEF Smaller
    <3>8. b = a - d
      BY <3>2, <3>7
    <3>9. n - p = k - 1
      BY <3>1
    <3>10. left[p - 1] - left[p] <= q + 1
      <4>1. a - b <= q + 1
        BY <3>5, <3>7, SMTT(30)
      <4> QED BY <3>1, <4>1
    <3>11. (k - 1) * q <= b /\ b <= (k - 1) * (q + 1)
      BY <3>4, <3>5, <3>8
    <3> QED BY <3>1, <3>9, <3>10, <3>11
  <2>3. 0 \in P
    <3>1. i - 1 + 0 = i - 1
      OBVIOUS
    <3> HIDE DEF Even
    <3> QED BY <2>1, <3>1
  <2>4. ASSUME NEW m \in Nat, m \in P PROVE m + 1 \in P
    <3> SUFFICES ASSUME m + 1 <= n - i + 1 PROVE Even(i - 1 + (m + 1))
      OBVIOUS
    <3>1. PICK p \in 1..n : p = i + m /\ i <= p /\ p - 1 = i - 1 + m
                            /\ p = i - 1 + (m + 1)
      OBVIOUS
    <3> HIDE DEF Even
    <3>2. Even(i - 1 + m)
      BY <2>4
    <3>3. Even(p - 1)
      BY <3>1, <3>2
    <3>4. Even(p)
      BY <2>2, <3>1, <3>3
    <3> QED BY <3>1, <3>4
  <2>5. Even(j - 1)
    <3> HIDE DEF P, Even
    <3>1. PICK m \in Nat : m = j - i /\ m <= n - i + 1 /\ i - 1 + m = j - 1
      BY <1>8
    <3>2. m \in P
      BY <2>3, <2>4, CountingUp
    <3>3. Even(i - 1 + m)
      BY <3>1, <3>2 DEF P
    <3> QED BY <3>1, <3>3
  <2> HIDE DEF Even
  <2>6. left[j - 1] - left[j] <= q + 1
    BY <1>8, <2>2, <2>5
  <2> QED BY <1>6, <2>6
<1> QED BY <1>7, <1>8

-----------------------------------------------------------------------------
(* Every window has a place, and every place a window. *)
LEMMA PlacesHold ==
    ASSUME NEW W, IsFiniteSet(W), NEW sizes \in [W -> Nat],
           \A w \in W : Min(w) \in Nat,
           \A v, w \in W : Min(v) = Min(w) => v = w
    PROVE  /\ \A w \in W : Place(sizes, w) \in 1..Cardinality(W)
           /\ \A p \in 1..Cardinality(W) : \E w \in W : Place(sizes, w) = p
           /\ \A v, w \in W : Place(sizes, v) = Place(sizes, w) => v = w
           /\ \A v, w \in W : Place(sizes, v) <= Place(sizes, w) => sizes[v] <= sizes[w]
<1> DEFINE First(v, w) == sizes[v] < sizes[w] \/ (sizes[v] = sizes[w] /\ Min(v) < Min(w))
           Before(w) == {v \in W : First(v, w)}
           n == Cardinality(W)
<1>1. n \in Nat
  BY FS_CardinalityType
<1>2. \A w \in W : sizes[w] \in Nat /\ Min(w) \in Nat /\ Place(sizes, w) = 1 + Cardinality(Before(w))
  BY DEF Place
<1>3. \A u, v, w \in W : First(u, v) /\ First(v, w) => First(u, w)
  BY <1>2
<1>4. \A v, w \in W : v = w \/ First(v, w) \/ First(w, v)
  <2> SUFFICES ASSUME NEW v \in W, NEW w \in W, v # w PROVE First(v, w) \/ First(w, v)
    OBVIOUS
  <2>1. Min(v) # Min(w)
    OBVIOUS
  <2> QED BY <1>2, <2>1
<1>5. \A w \in W : ~First(w, w)
  BY <1>2
<1>6. \A v, w \in W : First(v, w) => sizes[v] <= sizes[w]
  BY <1>2
<1> HIDE DEF First
<1>7. ASSUME NEW w \in W
      PROVE  IsFiniteSet(Before(w)) /\ Cardinality(Before(w)) \in Nat
             /\ Cardinality(Before(w)) < n
  <2>1. Before(w) \in SUBSET W /\ w \notin Before(w)
    BY <1>5
  <2>2. IsFiniteSet(Before(w)) /\ Cardinality(Before(w)) <= n /\ Cardinality(Before(w)) # n
    BY <2>1, FS_Subset
  <2> QED BY <1>1, <2>2, FS_CardinalityType
<1>8. ASSUME NEW v \in W, NEW w \in W, First(v, w)
      PROVE  Cardinality(Before(v)) < Cardinality(Before(w))
  <2>1. Before(v) \in SUBSET Before(w) /\ v \in Before(w) /\ v \notin Before(v)
    BY <1>3, <1>5, <1>8
  <2>2. Cardinality(Before(v)) <= Cardinality(Before(w))
        /\ Cardinality(Before(v)) # Cardinality(Before(w))
    BY <1>7, <2>1, FS_Subset
  <2>3. Cardinality(Before(v)) \in Nat /\ Cardinality(Before(w)) \in Nat
    BY <1>7
  <2> HIDE DEF Before
  <2> QED BY <2>2, <2>3
<1> HIDE DEF Before
<1>9. \A w \in W : Place(sizes, w) \in 1..n
  BY <1>1, <1>2, <1>7
<1>10. \A v, w \in W : First(v, w) => Place(sizes, v) < Place(sizes, w)
  <2> SUFFICES ASSUME NEW v \in W, NEW w \in W, First(v, w)
               PROVE  Place(sizes, v) < Place(sizes, w)
    OBVIOUS
  <2>1. Cardinality(Before(v)) < Cardinality(Before(w))
    BY <1>8
  <2> QED BY <1>2, <1>7, <2>1
<1>11. \A v, w \in W : Place(sizes, v) = Place(sizes, w) => v = w
  <2> SUFFICES ASSUME NEW v \in W, NEW w \in W, v # w
               PROVE  Place(sizes, v) # Place(sizes, w)
    OBVIOUS
  <2>1. Place(sizes, v) \in Nat /\ Place(sizes, w) \in Nat
    BY <1>9
  <2> QED BY <1>4, <1>10, <2>1
<1>12. \A v, w \in W : Place(sizes, v) <= Place(sizes, w) => sizes[v] <= sizes[w]
  <2> SUFFICES ASSUME NEW v \in W, NEW w \in W, Place(sizes, v) <= Place(sizes, w)
               PROVE  sizes[v] <= sizes[w]
    OBVIOUS
  <2>1. Place(sizes, v) \in Nat /\ Place(sizes, w) \in Nat
    BY <1>9
  <2>2. ~First(w, v)
    BY <1>10, <2>1
  <2> QED BY <1>2, <1>4, <1>6, <2>2
<1> DEFINE place == [w \in W |-> Place(sizes, w)]
<1>13. place \in [W -> 1..n] /\ \A v, w \in W : place[v] = place[w] => v = w
  BY <1>9, <1>11
<1>14. \A p \in 1..n : \E w \in W : place[w] = p
  <2> HIDE DEF place
  <2> QED BY <1>13, EveryPlace
<1>15. \A p \in 1..n : \E w \in W : Place(sizes, w) = p
  BY <1>14
<1> QED BY <1>9, <1>11, <1>12, <1>15

(* What is left after each turn, and who has which. *)
LEMMA SharesRun ==
    ASSUME NEW W, IsFiniteSet(W), NEW sizes \in [W -> Nat], NEW budget \in Nat,
           \A w \in W : Min(w) \in Nat,
           \A v, w \in W : Min(v) = Min(w) => v = w
    PROVE  \E left \in [0..Cardinality(W) -> Nat], need \in [1..Cardinality(W) -> Nat] :
              /\ left[0] = budget
              /\ \A p \in 1..Cardinality(W) :
                    left[p] = left[p - 1] -
                        Smaller(need[p], left[p - 1] \div (Cardinality(W) - p + 1))
              /\ \A w \in W : need[Place(sizes, w)] = sizes[w]
              /\ \A w \in W : FairShare(sizes, budget)[w]
                                 = left[Place(sizes, w) - 1] - left[Place(sizes, w)]
<1> DEFINE n == Cardinality(W)
           At(p) == CHOOSE w \in W : Place(sizes, w) = p
           Value(f, p) == IF p = 0 THEN budget
                          ELSE f[p - 1] - Smaller(sizes[At(p)], f[p - 1] \div (n - p + 1))
           left == CHOOSE f : f = [p \in 0..n |-> Value(f, p)]
           need == [p \in 1..n |-> sizes[At(p)]]
           step == [p \in 1..n |-> [room \in Nat |->
                      room - Smaller(sizes[At(p)], room \div (n - p + 1))]]
<1>1. n \in Nat
  BY FS_CardinalityType
<1>2. \A p \in 1..n : At(p) \in W /\ Place(sizes, At(p)) = p
  BY PlacesHold
<1>3. \A w \in W : Place(sizes, w) \in 1..n /\ At(Place(sizes, w)) = w
  BY PlacesHold
<1>4. FairShare(sizes, budget)
        = [w \in W |-> left[Place(sizes, w) - 1] - left[Place(sizes, w)]]
  <2>1. DOMAIN sizes = W
    OBVIOUS
  <2> QED BY <2>1 DEF FairShare
<1> HIDE DEF At
<1>5. need \in [1..n -> Nat] /\ \A w \in W : need[Place(sizes, w)] = sizes[w]
  BY <1>2, <1>3
<1>6. ASSUME NEW p \in 1..n, NEW room \in Nat
      PROVE  step[p][room] \in Nat
             /\ step[p][room] = room - Smaller(sizes[At(p)], room \div (n - p + 1))
  <2>1. PICK k \in Nat, s \in Nat : k = n - p + 1 /\ k > 0 /\ s = sizes[At(p)]
    BY <1>1, <1>2
  <2>2. room \div k \in Nat /\ k * (room \div k) <= room
    BY <2>1, EqualPart
  <2>3. PICK d \in Nat : d = room \div k
    BY <2>2
  <2>4. d <= room
    <3>1. k * d <= room
      BY <2>2, <2>3
    <3>2. k * d = (k - 1) * d + d
      BY <2>1, Times
    <3>3. PICK h \in Nat : h = k - 1
      BY <2>1
    <3>4. h * d \in Nat
      BY <3>3
    <3> QED BY <3>1, <3>2, <3>3, <3>4
  <2>5. room - Smaller(s, d) \in Nat
    BY <2>4 DEF Smaller
  <2>6. step[p][room] = room - Smaller(sizes[At(p)], room \div (n - p + 1))
    OBVIOUS
  <2> HIDE DEF step
  <2> QED BY <2>1, <2>3, <2>5, <2>6
<1>7. \E f \in [0..n -> Nat] :
         f[0] = budget /\ \A p \in 1..n : f[p] = step[p][f[p - 1]]
  <2>1. step \in [1..n -> [Nat -> Nat]]
    <3>1. ASSUME NEW p \in 1..n PROVE step[p] \in [Nat -> Nat]
      <4>1. \A room \in Nat : step[p][room] \in Nat
        BY <1>6
      <4> QED BY <4>1
    <3> QED BY <3>1
  <2> HIDE DEF step, n
  <2>2. PICK m, s, I, b :
           m \in Nat /\ m = n /\ s = step /\ I = Nat /\ b = budget
    BY <1>1
  <2>3. b \in I /\ s \in [1..m -> [I -> I]]
    BY <2>1, <2>2
  <2>4. \E f \in [0..m -> I] : f[0] = b /\ \A p \in 1..m : f[p] = s[p][f[p - 1]]
    <3>1. m \in Nat
      BY <2>2
    <3> QED BY <2>3, <3>1, LoopRuns
  <2> QED BY <2>2, <2>4
<1>8. PICK f \in [0..n -> Nat] :
         f[0] = budget /\ \A p \in 1..n : f[p] = step[p][f[p - 1]]
  BY <1>7
<1>9. f = [p \in 0..n |-> Value(f, p)]
  <2>1. ASSUME NEW p \in 0..n PROVE f[p] = Value(f, p)
    <3>1. CASE p = 0
      BY <1>8, <3>1
    <3>2. CASE p # 0
      <4>1. p \in 1..n /\ p - 1 \in 0..n
        BY <1>1, <3>2
      <4>2. f[p] = step[p][f[p - 1]] /\ f[p - 1] \in Nat
        BY <1>8, <3>2, <4>1
      <4>3. step[p][f[p - 1]]
              = f[p - 1] - Smaller(sizes[At(p)], f[p - 1] \div (n - p + 1))
        BY <1>6, <4>1, <4>2
      <4> QED BY <3>2, <4>2, <4>3
    <3> QED BY <3>1, <3>2
  <2> HIDE DEF Value
  <2> QED BY <1>8, <2>1
<1>10. left = [p \in 0..n |-> Value(left, p)]
  <2> HIDE DEF Value
  <2> QED BY <1>9
<1> HIDE DEF left
<1>11. left[0] = budget
  BY <1>1, <1>10
<1>12. \A p \in 1..n : left[p] = left[p - 1] - Smaller(sizes[At(p)], left[p - 1] \div (n - p + 1))
  <2> SUFFICES ASSUME NEW p \in 1..n PROVE left[p] = Value(left, p) /\ p # 0
    OBVIOUS
  <2>1. p \in 0..n /\ p # 0
    BY <1>1
  <2>2. left[p] = Value(left, p)
    <3> HIDE DEF Value
    <3> QED BY <1>10, <2>1
  <2> QED BY <2>1, <2>2
<1> DEFINE Q == {p \in Nat : p <= n => left[p] \in Nat}
<1>13. 0 \in Q
  BY <1>11
<1>14. ASSUME NEW p \in Nat, p \in Q PROVE p + 1 \in Q
  <2> SUFFICES ASSUME p + 1 <= n PROVE left[p + 1] \in Nat
    OBVIOUS
  <2>1. PICK q \in 1..n : q = p + 1 /\ q - 1 = p
    BY <1>1
  <2>2. left[p] \in Nat
    BY <1>1, <1>14
  <2>3. left[q] = step[q][left[p]] /\ step[q][left[p]] \in Nat
    BY <1>6, <1>12, <2>1, <2>2
  <2> QED BY <2>1, <2>3
<1>15. Nat \subseteq Q
  <2> HIDE DEF Q
  <2> QED BY <1>13, <1>14, CountingUp
<1>16. left \in [0..n -> Nat]
  <2>1. \A p \in 0..n : left[p] \in Nat
    BY <1>1, <1>15
  <2> HIDE DEF Value
  <2> QED BY <1>10, <2>1
<1>17. \A p \in 1..n : left[p] = left[p - 1] - Smaller(need[p], left[p - 1] \div (n - p + 1))
  BY <1>12
<1> HIDE DEF need, Q, step, n
<1> QED BY <1>4, <1>5, <1>11, <1>16, <1>17 DEF n

(* The shares are no more than there is, no share is more than is needed,  *)
(* and none is more than another, to within one, which is not enough.      *)
LEMMA SharesHold ==
    ASSUME NEW W, IsFiniteSet(W), NEW sizes \in [W -> Nat], NEW budget \in Nat,
           \A w \in W : Min(w) \in Nat,
           \A v, w \in W : Min(v) = Min(w) => v = w
    PROVE  LET share == FairShare(sizes, budget) IN
           /\ share \in [W -> Nat]
           /\ Total(share, W) <= budget
           /\ \A w \in W : share[w] <= sizes[w]
           /\ \A v, w \in W : share[v] < sizes[v] => share[w] <= share[v] + 1
<1> DEFINE n == Cardinality(W)
           At(w) == Place(sizes, w)
           share == FairShare(sizes, budget)
<1>1. n \in Nat
  BY FS_CardinalityType
<1>2. PICK left \in [0..n -> Nat], need \in [1..n -> Nat] :
         /\ left[0] = budget
         /\ \A p \in 1..n :
               left[p] = left[p - 1] - Smaller(need[p], left[p - 1] \div (n - p + 1))
         /\ \A w \in W : need[At(w)] = sizes[w]
         /\ \A w \in W : share[w] = left[At(w) - 1] - left[At(w)]
  <2>1. \E left \in [0..Cardinality(W) -> Nat], need \in [1..Cardinality(W) -> Nat] :
           /\ left[0] = budget
           /\ \A p \in 1..Cardinality(W) :
                 left[p] = left[p - 1] -
                     Smaller(need[p], left[p - 1] \div (Cardinality(W) - p + 1))
           /\ \A w \in W : need[Place(sizes, w)] = sizes[w]
           /\ \A w \in W : FairShare(sizes, budget)[w]
                              = left[Place(sizes, w) - 1] - left[Place(sizes, w)]
    BY SharesRun, SMTT(30)
  <2> QED BY <2>1
<1>3. share = [w \in W |-> share[w]]
  BY DEF FairShare
<1>4. /\ \A w \in W : At(w) \in 1..n
      /\ \A p \in 1..n : \E w \in W : At(w) = p
      /\ \A v, w \in W : At(v) = At(w) => v = w
      /\ \A v, w \in W : At(v) <= At(w) => sizes[v] <= sizes[w]
  BY PlacesHold
<1> HIDE DEF n, At, share
<1>5. \A i, j \in 1..n : i <= j => need[i] <= need[j]
  <2> SUFFICES ASSUME NEW i \in 1..n, NEW j \in 1..n, i <= j PROVE need[i] <= need[j]
    OBVIOUS
  <2>1. PICK v \in W, w \in W : At(v) = i /\ At(w) = j
    BY <1>4
  <2>2. sizes[v] <= sizes[w]
    BY <1>4, <2>1
  <2> QED BY <1>2, <2>1, <2>2
<1>6. \A i, j \in 1..n :
         left[i - 1] - left[i] < need[i]
             => left[j - 1] - left[j] <= left[i - 1] - left[i] + 1
  BY <1>1, <1>2, <1>5, TurnsAreFair
<1>7. \A w \in W : share[w] = left[At(w) - 1] - left[At(w)]
  BY <1>2
<1>8. \A v, w \in W : share[v] < sizes[v] => share[w] <= share[v] + 1
  <2> SUFFICES ASSUME NEW v \in W, NEW w \in W, share[v] < sizes[v]
               PROVE  share[w] <= share[v] + 1
    OBVIOUS
  <2>1. PICK i \in 1..n, j \in 1..n : i = At(v) /\ j = At(w)
    BY <1>4
  <2>2. share[v] = left[i - 1] - left[i] /\ share[w] = left[j - 1] - left[j]
    BY <1>7, <2>1
  <2>3. need[i] = sizes[v]
    BY <1>2, <2>1
  <2> QED BY <1>6, <2>1, <2>2, <2>3
<1>9. ASSUME NEW p \in 1..n
      PROVE  left[p - 1] - left[p] \in Nat /\ left[p - 1] - left[p] <= need[p]
  <2>1. PICK a \in Nat, k \in Nat, m \in Nat, b \in Nat :
           a = left[p - 1] /\ k = n - p + 1 /\ k > 0 /\ m = need[p] /\ b = left[p]
    <3>1. p - 1 \in 0..n /\ p \in 0..n /\ n - p + 1 \in Nat /\ n - p + 1 > 0
      BY <1>1
    <3> QED BY <1>2, <3>1
  <2>2. PICK d \in Nat : d = a \div k
    BY <2>1, EqualPart
  <2>3. b = a - Smaller(m, d)
    BY <1>2, <2>1, <2>2
  <2>4. a - b \in Nat /\ a - b <= m
    <3>1. m \in Nat /\ a \in Nat
      BY <2>1
    <3>2. d \in Nat
      BY <2>2
    <3> QED BY <2>3, <3>1, <3>2 DEF Smaller
  <2> QED BY <2>1, <2>4
<1>10. share \in [W -> Nat] /\ \A w \in W : share[w] <= sizes[w]
  <2>1. ASSUME NEW w \in W PROVE share[w] \in Nat /\ share[w] <= sizes[w]
    <3>1. PICK p \in 1..n : p = At(w)
      BY <1>4
    <3>2. share[w] = left[p - 1] - left[p] /\ need[p] = sizes[w]
      BY <1>2, <1>7, <3>1
    <3> QED BY <1>9, <3>1, <3>2
  <2> QED BY <1>3, <2>1
<1> DEFINE Done(p) == {w \in W : At(w) <= p}
           P == {p \in Nat : p <= n => Total(share, Done(p)) = budget - left[p]}
<1>11. \A p : IsFiniteSet(Done(p))
  BY FS_Subset
<1>12. 0 \in P
  <2>1. Done(0) = {}
    BY <1>1, <1>4
  <2>2. Total(share, {}) = 0
    BY SumByParts, FS_EmptySet
  <2>3. Total(share, Done(0)) = 0
    BY <2>1, <2>2
  <2>4. left[0] = budget
    BY <1>2
  <2> HIDE DEF Done
  <2> QED BY <2>3, <2>4
<1>13. ASSUME NEW p \in Nat, p \in P PROVE p + 1 \in P
  <2> SUFFICES ASSUME p + 1 <= n
               PROVE  Total(share, Done(p + 1)) = budget - left[p + 1]
    OBVIOUS
  <2>1. PICK w \in W : At(w) = p + 1
    <3>1. p + 1 \in 1..n
      BY <1>1
    <3> QED BY <1>4, <3>1
  <2>2. w \in Done(p + 1) /\ Done(p + 1) \ {w} = Done(p)
    <3>1. \A v \in W : At(v) <= p <=> At(v) <= p + 1 /\ At(v) # p + 1
      <4>1. \A v \in W : At(v) \in Nat
        BY <1>1, <1>4
      <4> QED BY <4>1
    <3>2. \A v \in W : At(v) = p + 1 <=> v = w
      BY <1>4, <2>1
    <3>3. w \in Done(p + 1)
      BY <2>1
    <3>4. \A v : v \in Done(p) <=> v \in Done(p + 1) /\ v # w
      BY <3>1, <3>2
    <3> HIDE DEF Done
    <3> QED BY <3>3, <3>4
  <2>3. \A x \in Done(p + 1) : share[x] \in Int
    BY <1>10
  <2>4. Total(share, Done(p + 1)) = share[w] + Total(share, Done(p))
    <3>1. PICK T : T = Done(p + 1)
      OBVIOUS
    <3>2. Total(share, T) = share[w] + Total(share, T \ {w})
      <4>1. IsFiniteSet(T) /\ (\A x \in T : share[x] \in Int) /\ w \in T
        BY <1>11, <2>2, <2>3, <3>1
      <4> QED BY <4>1, SumOfOneMore, SMTT(30)
    <3> HIDE DEF Done
    <3> QED BY <2>2, <3>1, <3>2
  <2>5. share[w] = left[p] - left[p + 1]
    <3>1. p + 1 - 1 = p
      OBVIOUS
    <3> QED BY <1>7, <2>1, <3>1
  <2>6. left[p] \in Nat /\ left[p + 1] \in Nat
    BY <1>1, <1>2
  <2>7. Total(share, Done(p)) = budget - left[p]
    BY <1>1, <1>13
  <2> HIDE DEF Done
  <2> QED BY <2>4, <2>5, <2>6, <2>7
<1>14. n \in P
  <2> HIDE DEF P
  <2> QED BY <1>1, <1>12, <1>13, CountingUp
<1>15. Done(n) = W
  BY <1>1, <1>4
<1>16. Total(share, W) <= budget
  <2>1. Total(share, W) = budget - left[n] /\ left[n] \in Nat
    <3> HIDE DEF Done
    <3> QED BY <1>1, <1>2, <1>14, <1>15
  <2> QED BY <2>1
<1> QED BY <1>8, <1>10, <1>16 DEF share

-----------------------------------------------------------------------------
(* What is returned of a file *)

(* What is selected of a window has its changed lines in one piece with    *)
(* their context, or no context at all.                                    *)
LEMMA SelectHolds ==
    ASSUME NEW size \in Seq(Nat), NEW ranges, Hunks(ranges, Len(size))
    PROVE  LET kept == Select(size, ranges) IN
           /\ kept \subseteq DOMAIN size
           /\ \A w \in Windows(ranges, Len(size)) :
                 /\ kept \cap w # {}
                 /\ \/ Core(ranges, w) \subseteq kept \cap w /\ Convex(kept \cap w)
                    \/ kept \cap w \subseteq Core(ranges, w)
<1> DEFINE windows == Windows(ranges, Len(size))
           share == FairShare(WindowSizes(size, ranges), Room(Cardinality(windows)))
           Of(w) == Pick(size, w, Core(ranges, w), share[w])
           kept == Select(size, ranges)
<1>1. kept = UNION {Of(w) : w \in windows}
  BY DEF Select
<1>2. Len(size) \in Nat /\ DOMAIN size = 1..Len(size)
  OBVIOUS
<1>3. /\ \A w \in windows : w # {} /\ w \subseteq 1..Len(size) /\ Convex(w)
                               /\ \E r \in ranges : r \cap w # {}
      /\ Apart(windows)
  BY <1>2, WindowsHold
<1> HIDE DEF windows, share, kept
<1>4. ASSUME NEW w \in windows
      PROVE  /\ Of(w) # {} /\ Of(w) \subseteq w
             /\ \/ Core(ranges, w) \subseteq Of(w) /\ Convex(Of(w))
                \/ Of(w) \subseteq Core(ranges, w)
  <2>1. /\ Core(ranges, w) \subseteq w /\ Core(ranges, w) # {}
        /\ Convex(Core(ranges, w))
    BY <1>2, <1>3, CoreHolds
  <2>2. w \subseteq 1..Len(size) /\ w # {} /\ Convex(w)
    BY <1>3
  <2>3. PICK core, budget : core = Core(ranges, w) /\ budget = share[w]
    OBVIOUS
  <2>4. core \subseteq w /\ core # {} /\ Convex(core)
    BY <2>1, <2>3
  <2>5. PICK total \in Nat : w \subseteq 1..total
    BY <1>2, <2>2
  <2>6. LET k == Pick(size, w, core, budget) IN
        /\ k # {} /\ k \subseteq w
        /\ \/ core \subseteq k /\ Convex(k) /\ Bytes(size, k) <= budget
           \/ /\ k \subseteq core /\ k = Split(size, core, budget)
              /\ ~(Bytes(size, w) <= budget)
    BY <2>2, <2>4, <2>5, PickInside
  <2> QED BY <2>3, <2>6
<1> HIDE DEF Of
<1>5. ASSUME NEW w \in windows PROVE kept \cap w = Of(w)
  <2>1. \A v \in windows : v # w => v \cap w = {}
    BY <1>3 DEF Apart
  <2> QED BY <1>1, <1>4, <2>1
<1>6. kept \subseteq DOMAIN size
  BY <1>1, <1>2, <1>3, <1>4
<1> QED BY <1>4, <1>5, <1>6, ZenonT(30) DEF windows, kept

(* Each part of an elided result is a span of the lines kept or of the     *)
(* gaps.                                                                   *)
LEMMA ElideHolds ==
    ASSUME NEW size \in Seq(Nat), NEW ranges, Hunks(ranges, Len(size)),
           Windows(ranges, Len(size)) # {}
    PROVE  LET kept == Select(size, ranges) IN
           \A part \in Range(Elide(size, ranges)) :
              \/ part.shown = TRUE /\ part.lines \in Spans(kept)
              \/ part.shown = FALSE /\ part.lines \in Spans(DOMAIN size \ kept)
<1> DEFINE kept == Select(size, ranges)
           gaps == DOMAIN size \ kept
           firsts == Firsts(kept) \cup Firsts(gaps)
           first == Ordered(firsts)
           Named(f) == IF f \in kept THEN Part(SpanAt(kept, f), TRUE)
                       ELSE Part(SpanAt(gaps, f), FALSE)
           parts == [i \in DOMAIN first |-> Named(first[i])]
           fit == {n \in DOMAIN parts :
                     ResultBytes(size, SubSeq(parts, 1, n)) <= MaxRead}
           m == Max({1} \cup fit)
<1>1. Elide(size, ranges) = SubSeq(parts, 1, m)
  BY DEF Elide
<1>2. kept \subseteq 1..Len(size) /\ gaps \subseteq 1..Len(size) /\ kept # {}
  <2>1. DOMAIN size = 1..Len(size) /\ Len(size) \in Nat
    OBVIOUS
  <2>2. PICK w \in Windows(ranges, Len(size)) : TRUE
    OBVIOUS
  <2> HIDE DEF kept
  <2>3. kept \subseteq 1..Len(size) /\ kept \cap w # {}
    BY <2>1, SelectHolds DEF kept
  <2> QED BY <2>1, <2>3
<1> HIDE DEF kept, gaps
<1>3. firsts \subseteq 1..Len(size) /\ firsts # {}
  <2>1. Firsts(kept) # {}
    <3>1. kept \in SUBSET Nat
      BY <1>2, SomeLines
    <3> QED BY <1>2, <3>1, InSomeSpan
  <2> QED BY <1>2, <2>1 DEF Firsts
<1>4. /\ firsts \in SUBSET Int /\ IsFiniteSet(firsts)
      /\ Cardinality(firsts) \in Nat /\ Cardinality(firsts) # 0
  BY <1>3, SomeLines, FS_EmptySet
<1>5. first \in [1..Cardinality(firsts) -> firsts]
  BY <1>4, InOrder
<1>6. m \in 1..Cardinality(firsts)
  <2> DEFINE fits == {1} \cup fit
  <2> HIDE DEF firsts
  <2>1. fits \subseteq 1..Cardinality(firsts) /\ fits # {}
    <3>1. DOMAIN parts = 1..Cardinality(firsts)
      BY <1>5
    <3>2. 1 \in 1..Cardinality(firsts)
      BY <1>4
    <3> QED BY <3>1, <3>2
  <2> HIDE DEF fits
  <2>2. Max(fits) \in fits
    BY <1>4, <2>1, SomeLines, Greatest
  <2> QED BY <2>1, <2>2 DEF fits
<1> HIDE DEF m, first, firsts
<1>7. /\ m \in Nat /\ m >= 1 /\ DOMAIN first = 1..Cardinality(firsts)
       /\ \A i \in 1..m : i \in DOMAIN first
  BY <1>4, <1>5, <1>6
<1>8. \A i \in 1..m : first[i] \in firsts /\ parts[i] = Named(first[i])
  <2> HIDE DEF Named
  <2> QED BY <1>5, <1>7
<1>9. /\ DOMAIN SubSeq(parts, 1, m) = 1..m
      /\ \A i \in 1..m : SubSeq(parts, 1, m)[i] = parts[i]
  <2> DEFINE All == {Named(f) : f \in firsts}
  <2>1. m \in Nat /\ m >= 1 /\ \A i \in 1..m : parts[i] \in All
    BY <1>7, <1>8
  <2> HIDE DEF All, parts
  <2>2. /\ SubSeq(parts, 1, m) \in Seq(All) /\ Len(SubSeq(parts, 1, m)) = m
        /\ \A i \in 1..m : SubSeq(parts, 1, m)[i] = parts[1 + i - 1]
    BY <2>1, SubSeqProperties
  <2> QED BY <2>1, <2>2
<1>10. ASSUME NEW i \in 1..m
      PROVE  SubSeq(parts, 1, m)[i] = Named(first[i]) /\ first[i] \in firsts
  BY <1>9, <1>8
<1>11. ASSUME NEW f \in firsts
      PROVE  LET part == Named(f) IN
             \/ part.shown = TRUE /\ part.lines \in Spans(kept)
             \/ part.shown = FALSE /\ part.lines \in Spans(gaps)
  <2>1. f \in kept => f \in Firsts(kept)
    BY DEF firsts, gaps, Firsts
  <2>2. f \notin kept => f \in Firsts(gaps)
    BY DEF firsts, Firsts
  <2> QED BY <2>1, <2>2 DEF Spans, Part
<1> HIDE DEF Named, parts
<1>12. ASSUME NEW part \in Range(Elide(size, ranges))
       PROVE  \E f \in firsts : part = Named(f)
  BY <1>1, <1>10, <1>9 DEF Range
<1> QED BY <1>11, <1>12 DEF kept, gaps

(* The parts read of a file are pieces of it. *)
LEMMA ReadHolds ==
    ASSUME NEW size \in Seq(Nat), NEW ranges, Hunks(ranges, Len(size))
    PROVE  \A part \in Range(ReadParts(size, ranges)) :
              part.lines \subseteq DOMAIN size /\ Convex(part.lines)
<1>1. Len(size) \in Nat /\ DOMAIN size = 1..Len(size)
  OBVIOUS
<1>2. CASE Bytes(size, DOMAIN size) <= MaxRead
  BY <1>1, <1>2 DEF ReadParts, Whole, Part, Range, Convex
<1>3. CASE ~(Bytes(size, DOMAIN size) <= MaxRead) /\ Windows(ranges, Len(size)) = {}
  <2> DEFINE fit == {n \in DOMAIN size : Total(size, 1..n) + n <= MaxRead}
             top == Max({1} \cup fit)
  <2>1. Len(size) # 0
    <3> SUFFICES ASSUME DOMAIN size = {} PROVE FALSE
      BY <1>1
    <3>1. Bytes(size, DOMAIN size) = 0
      BY DEF Bytes
    <3> QED BY <1>3, <3>1, SizesAssumption
  <2>2. top \in 1..Len(size)
    <3> DEFINE fits == {1} \cup fit
    <3>1. fits \subseteq 1..Len(size) /\ fits # {}
      BY <1>1, <2>1
    <3> HIDE DEF fits
    <3>2. Max(fits) \in fits
      BY <1>1, <3>1, SomeLines, Greatest
    <3> QED BY <3>1, <3>2 DEF fits
  <2>3. ReadParts(size, ranges) =
          <<Part(1..top, TRUE), Part((top + 1)..Len(size), FALSE)>>
    BY <1>3 DEF ReadParts, Truncate
  <2> HIDE DEF top
  <2>4. 1..top \subseteq DOMAIN size /\ (top + 1)..Len(size) \subseteq DOMAIN size
    BY <1>1, <2>2
  <2>5. PICK a, b : a = Part(1..top, TRUE) /\ b = Part((top + 1)..Len(size), FALSE)
    OBVIOUS
  <2>6. /\ a.lines \subseteq DOMAIN size /\ b.lines \subseteq DOMAIN size
        /\ Convex(a.lines) /\ Convex(b.lines)
    <3>1. Convex(1..top) /\ Convex((top + 1)..Len(size))
      BY <1>1, <2>2 DEF Convex
    <3> QED BY <2>4, <2>5, <3>1 DEF Part
  <2>7. \A part \in Range(<<a, b>>) : part = a \/ part = b
    BY DEF Range
  <2> QED BY <2>3, <2>5, <2>6, <2>7
<1>4. CASE ~(Bytes(size, DOMAIN size) <= MaxRead) /\ Windows(ranges, Len(size)) # {}
  <2>1. ReadParts(size, ranges) = Elide(size, ranges)
    BY <1>4 DEF ReadParts
  <2> DEFINE kept == Select(size, ranges)
  <2>2. kept \subseteq DOMAIN size
    BY SelectHolds
  <2> HIDE DEF kept
  <2>3. kept \in SUBSET Nat /\ DOMAIN size \ kept \in SUBSET Nat
    BY <1>1, <2>2
  <2>4. \A part \in Range(Elide(size, ranges)) :
           part.lines \in Spans(kept) \cup Spans(DOMAIN size \ kept)
    BY <1>4, ElideHolds DEF kept
  <2> QED BY <2>1, <2>2, <2>3, <2>4, SpansHold
<1> QED BY <1>2, <1>3, <1>4

(* What is shown of a window holds all that is changed in it, or no        *)
(* context: what is picked of a window with its context is in one part.    *)
LEMMA ContextIsLast ==
    ASSUME NEW size \in Seq(Nat), NEW ranges, Hunks(ranges, Len(size)),
           NEW w \in Windows(ranges, Len(size))
    PROVE  LET core == Core(ranges, w)
               shown == UNION {part.lines : part \in
                           {q \in Range(Elide(size, ranges)) : q.shown}}
           IN ~(core \subseteq shown) => (w \ core) \cap shown = {}
<1> DEFINE core == Core(ranges, w)
           kept == Select(size, ranges)
           shown == UNION {part.lines : part \in
                       {q \in Range(Elide(size, ranges)) : q.shown}}
<1> SUFFICES ASSUME NEW l \in w \ core, l \in shown PROVE core \subseteq shown
  OBVIOUS
<1>1. PICK part \in Range(Elide(size, ranges)) : part.shown /\ l \in part.lines
  OBVIOUS
<1>2. part.lines \in Spans(kept) /\ part.lines \subseteq shown
  BY <1>1, ElideHolds
<1>3. kept \subseteq 1..Len(size) /\ Len(size) \in Nat
  BY SelectHolds
<1>4. kept \in SUBSET Nat
  BY <1>3, SomeLines
<1> HIDE DEF shown
<1>5. PICK f \in Firsts(kept) : part.lines = SpanAt(kept, f)
  BY <1>2 DEF Spans
<1>6. l \in kept \cap w
  BY <1>1, <1>4, <1>5, SpanHolds
<1>7. core \subseteq kept \cap w /\ Convex(kept \cap w)
  BY <1>6, SelectHolds
<1> HIDE DEF core, kept
<1>8. kept \cap w \subseteq SpanAt(kept, f)
  BY <1>1, <1>4, <1>5, <1>6, <1>7, ConvexInSpan
<1> QED BY <1>2, <1>5, <1>7, <1>8

(* The bytes of lines are a number. *)
LEMMA BytesAreNat ==
    ASSUME NEW size \in Seq(Nat), NEW lines, lines \subseteq DOMAIN size
    PROVE  Bytes(size, lines) \in Nat
<1>1. lines \subseteq 1..Len(size) /\ Len(size) \in Nat
  OBVIOUS
<1>2. IsFiniteSet(lines) /\ Cardinality(lines) \in Nat
  BY <1>1, SomeLines
<1>3. Total(size, lines) \in Nat
  <2>1. \A l \in lines : size[l] \in Nat
    OBVIOUS
  <2> QED BY <1>2, <2>1, SumIsNat
<1>4. lines # {} => Cardinality(lines) # 0
  BY <1>2, FS_EmptySet
<1> QED BY <1>2, <1>3, <1>4 DEF Bytes

(* The windows of a file have no more than there is, and none has more, to *)
(* within a byte, than another that needs more than it has.                *)
LEMMA WindowsTake ==
    ASSUME NEW size \in Seq(Nat), NEW ranges, Hunks(ranges, Len(size))
    PROVE  LET W == Windows(ranges, Len(size))
               sizes == WindowSizes(size, ranges)
               room == Room(Cardinality(W))
               share == FairShare(sizes, room)
           IN /\ Cardinality(W) \in Nat /\ room \in Nat
              /\ sizes \in [W -> Nat] /\ \A w \in W : sizes[w] = Bytes(size, w)
              /\ share \in [W -> Nat] /\ Total(share, W) <= room
              /\ \A v, w \in W : share[v] < sizes[v] => share[w] <= share[v] + 1
<1>1. PICK W : W = Windows(ranges, Len(size))
  OBVIOUS
<1>2. /\ \A w \in W : w # {} /\ w \subseteq 1..Len(size)
      /\ Apart(W) /\ IsFiniteSet(W)
  <2>1. PICK n \in Nat : n = Len(size)
    OBVIOUS
  <2>2. Hunks(ranges, n) /\ W = Windows(ranges, n)
    BY <1>1, <2>1
  <2>3. /\ \A w \in W : w # {} /\ w \subseteq 1..n
        /\ Apart(W) /\ IsFiniteSet(W)
    BY <2>2, WindowsHold
  <2> QED BY <2>1, <2>3
<1>3. PICK sizes : sizes = WindowSizes(size, ranges)
  OBVIOUS
<1>4. sizes \in [W -> Nat] /\ \A w \in W : sizes[w] = Bytes(size, w)
  <2>1. \A w \in W : Bytes(size, w) \in Nat
    <3>1. \A w \in W : w \subseteq DOMAIN size
      BY <1>2
    <3> QED BY <3>1, BytesAreNat
  <2> QED BY <1>1, <1>3, <2>1 DEF WindowSizes
<1>5. \A w \in W : Min(w) \in Nat /\ Min(w) \in w
  <2>1. \A w \in W : w \in SUBSET Nat
    BY <1>2
  <2> QED BY <1>2, <2>1, Least
<1>6. \A v, w \in W : Min(v) = Min(w) => v = w
  BY <1>2, <1>5 DEF Apart
<1>7. Cardinality(W) \in Nat
  BY <1>2, FS_CardinalityType
<1>8. PICK room \in Nat : room = Room(Cardinality(W))
  <2>1. MaxRead \in Nat /\ MarkerBudget \in Nat
    BY SizesAssumption
  <2>2. PICK half \in Nat : half = MaxRead \div 2 /\ half <= MaxRead
    BY <2>1
  <2>3. PICK all \in Nat : all = MarkerBudget * (2 * Cardinality(W) + 2)
    BY <1>7, <2>1
  <2>4. Room(Cardinality(W)) = MaxRead - Smaller(all, half)
    BY <2>2, <2>3 DEF Room
  <2> QED BY <2>1, <2>2, <2>3, <2>4 DEF Smaller
<1>9. PICK share : share = FairShare(sizes, room)
  OBVIOUS
<1>10. /\ share \in [W -> Nat] /\ Total(share, W) <= room
       /\ \A v, w \in W : share[v] < sizes[v] => share[w] <= share[v] + 1
  BY <1>2, <1>4, <1>5, <1>6, <1>8, <1>9, SharesHold
<1> QED BY <1>1, <1>3, <1>4, <1>7, <1>8, <1>9, <1>10

-----------------------------------------------------------------------------
(* What a read takes of the cap *)

(* A function on the first numbers is a sequence. *)
LEMMA Numbered ==
    ASSUME NEW n \in Nat, NEW s, s = [i \in 1..n |-> s[i]]
    PROVE  Len(s) = n /\ SubSeq(s, 1, n) = s
<1>1. PICK T : T = {s[i] : i \in 1..n}
  OBVIOUS
<1>2. s \in [1..n -> T]
  BY <1>1
<1>3. s \in Seq(T) /\ DOMAIN s = 1..n
  BY <1>2, SeqDef
<1>4. Len(s) = n
  BY <1>3
<1> QED BY <1>3, <1>4, SubSeqFull

(* There is at most one more gap than there are pieces kept.               *)
LEMMA GapsBetween ==
    ASSUME NEW total \in Nat, NEW kept, kept \subseteq 1..total,
           NEW gaps, gaps = (1..total) \ kept
    PROVE  /\ Cardinality(Firsts(gaps)) \in Nat /\ Cardinality(Firsts(kept)) \in Nat
           /\ Cardinality(Firsts(gaps)) <= Cardinality(Firsts(kept)) + 1
<1> DEFINE G == Firsts(gaps)
           K == Firsts(kept)
           F == G \ {1}
<1>1. kept \in SUBSET Nat /\ gaps \in SUBSET Nat
  <2>1. \A x \in 1..total : x \in Nat
    OBVIOUS
  <2> QED BY <2>1
<1>2. IsFiniteSet(G) /\ IsFiniteSet(K) /\ Cardinality(G) \in Nat /\ Cardinality(K) \in Nat
  <2>1. G \subseteq 1..total /\ K \subseteq 1..total
    BY DEF Firsts
  <2> HIDE DEF G, K
  <2> QED BY <2>1, SomeLines
<1>3. ASSUME NEW f \in F
      PROVE  f \in gaps /\ f \in Nat /\ f - 1 \in kept
             /\ \E g \in K : f - 1 \in SpanAt(kept, g)
  <2>1. f \in gaps /\ f - 1 \notin gaps /\ f # 1 /\ f \in Nat
    BY <1>1 DEF Firsts
  <2>2. f - 1 \in 1..total
    BY <2>1
  <2>3. f - 1 \in kept
    BY <2>1, <2>2
  <2> QED BY <1>1, <2>1, <2>3, InSomeSpan
<1> DEFINE above == [f \in F |-> CHOOSE g \in K : f - 1 \in SpanAt(kept, g)]
<1>4. ASSUME NEW f \in F PROVE above[f] \in K /\ f - 1 \in SpanAt(kept, above[f])
  BY <1>3
<1>5. ASSUME NEW f \in F, NEW h \in F, above[f] = above[h] PROVE ~(f < h)
  <2> SUFFICES ASSUME f < h PROVE FALSE
    OBVIOUS
  <2>1. PICK g \in K : g = above[f] /\ g = above[h]
    BY <1>4, <1>5
  <2> HIDE DEF above
  <2>2. f - 1 \in SpanAt(kept, g) /\ h - 1 \in SpanAt(kept, g)
    BY <1>4, <2>1
  <2>3. Convex(SpanAt(kept, g)) /\ SpanAt(kept, g) \subseteq kept
    BY <1>1, SpanHolds
  <2>4. f \in Nat /\ h \in Nat
    BY <1>3
  <2>5. f - 1 <= f /\ f <= h - 1 /\ f \in Int
    BY <2>4
  <2>6. f \in SpanAt(kept, g)
    BY <2>2, <2>3, <2>5 DEF Convex
  <2>7. f \in gaps
    BY <1>3
  <2> QED BY <2>3, <2>6, <2>7
<1>6. above \in Injection(F, K)
  <2>1. above \in [F -> K]
    <3>1. \A f \in F : above[f] \in K
      BY <1>4
    <3> QED BY <3>1
  <2>2. \A f, h \in F : above[f] = above[h] => f = h
    <3> SUFFICES ASSUME NEW f \in F, NEW h \in F, above[f] = above[h] PROVE f = h
      OBVIOUS
    <3>1. f \in Nat /\ h \in Nat
      BY <1>3
    <3>2. ~(f < h) /\ ~(h < f)
      BY <1>5
    <3> QED BY <3>1, <3>2
  <2> HIDE DEF above, F, K
  <2> QED BY <2>1, <2>2 DEF Injection, IsInjective
<1>7. Cardinality(F) <= Cardinality(K)
  <2> HIDE DEF above, F, K
  <2> QED BY <1>2, <1>6, FS_Injection
<1>8. Cardinality(F) \in Nat /\ Cardinality(G) <= Cardinality(F) + 1
  <2>1. IsFiniteSet(F) /\ Cardinality(F) = IF 1 \in G THEN Cardinality(G) - 1 ELSE Cardinality(G)
    <3> HIDE DEF G
    <3> QED BY <1>2, FS_RemoveElement
  <2>2. Cardinality(F) \in Nat
    BY <2>1, FS_CardinalityType
  <2> HIDE DEF F, G
  <2> QED BY <1>2, <2>1, <2>2
<1> HIDE DEF F, G, K
<1>9. Cardinality(G) <= Cardinality(K) + 1
  BY <1>2, <1>7, <1>8
<1> QED BY <1>2, <1>9 DEF G, K

(* The first lines of the parts, and the part that begins at one.          *)
PartFirsts(lines, kept) == Firsts(kept) \cup Firsts(lines \ kept)

PartAt(lines, kept, f) ==
    IF f \in kept THEN Part(SpanAt(kept, f), TRUE)
    ELSE Part(SpanAt(lines \ kept, f), FALSE)

(* All the parts, in order.                                                *)
AllParts(lines, kept) ==
    LET first == Ordered(PartFirsts(lines, kept))
    IN [i \in DOMAIN first |-> PartAt(lines, kept, first[i])]

Covered(parts) == UNION {parts[i].lines : i \in DOMAIN parts}

(* The parts together have every line of the file. *)
LEMMA PartsAreAll ==
    ASSUME NEW total \in Nat, total # 0, NEW kept, kept \subseteq 1..total
    PROVE  LET firsts == PartFirsts(1..total, kept)
               first == Ordered(firsts)
               parts == AllParts(1..total, kept)
               n == Cardinality(firsts)
           IN /\ n \in Nat /\ n # 0 /\ firsts \subseteq 1..total
              /\ DOMAIN parts = 1..n
              /\ first \in [1..n -> firsts]
              /\ \A x \in firsts : \E i \in 1..n : first[i] = x
              /\ \A i, j \in 1..n : first[i] = first[j] => i = j
              /\ \A i \in 1..n : parts[i] = PartAt(1..total, kept, first[i])
              /\ Covered(parts) = 1..total
<1> DEFINE lines == 1..total
           gaps == lines \ kept
           firsts == PartFirsts(lines, kept)
           first == Ordered(firsts)
           n == Cardinality(firsts)
           parts == AllParts(lines, kept)
<1>1. kept \in SUBSET Nat /\ gaps \in SUBSET Nat
  <2>1. \A x \in 1..total : x \in Nat
    OBVIOUS
  <2> QED BY <2>1
<1>2. firsts \subseteq lines
  BY DEF PartFirsts, Firsts
<1>3. ASSUME NEW l \in lines
      PROVE  \E f \in firsts : l \in PartAt(lines, kept, f).lines
  <2>1. CASE l \in kept
    <3>1. PICK f \in Firsts(kept) : l \in SpanAt(kept, f)
      BY <1>1, <2>1, InSomeSpan
    <3>2. f \in firsts /\ f \in kept
      BY DEF PartFirsts, Firsts
    <3> QED BY <3>1, <3>2 DEF PartAt, Part
  <2>2. CASE l \notin kept
    <3>1. PICK f \in Firsts(gaps) : l \in SpanAt(gaps, f)
      BY <1>1, <2>2, InSomeSpan
    <3>2. f \in firsts /\ f \notin kept
      BY DEF PartFirsts, Firsts
    <3> QED BY <3>1, <3>2 DEF PartAt, Part
  <2> QED BY <2>1, <2>2
<1>4. ASSUME NEW f \in firsts PROVE PartAt(lines, kept, f).lines \subseteq lines
  BY DEF PartAt, Part, SpanAt
<1>5. 1 \in lines
  OBVIOUS
<1> HIDE DEF lines, gaps, firsts
<1>6. firsts # {}
  BY <1>3, <1>5
<1>7. firsts \in SUBSET Int /\ IsFiniteSet(firsts) /\ n \in Nat /\ n # 0
  <2>1. PICK s : s = firsts /\ s \subseteq 1..total /\ s # {}
    BY <1>2, <1>6 DEF lines
  <2>2. s \in SUBSET Nat /\ IsFiniteSet(s) /\ Cardinality(s) \in Nat
    BY <2>1, SomeLines
  <2>3. Cardinality(s) # 0 /\ s \in SUBSET Int
    BY <2>1, <2>2, FS_EmptySet
  <2> QED BY <2>1, <2>2, <2>3
<1>8. /\ first \in [1..n -> firsts]
      /\ \A x \in firsts : \E i \in 1..n : first[i] = x
      /\ \A i, j \in 1..n : i < j => first[i] < first[j]
  BY <1>7, InOrder
<1>9. parts = [i \in 1..n |-> PartAt(lines, kept, first[i])]
  BY <1>8 DEF AllParts, firsts
<1> HIDE DEF first, n, parts
<1>10. ASSUME NEW i \in 1..n, NEW j \in 1..n, first[i] = first[j] PROVE i = j
  <2>1. i \in Nat /\ j \in Nat
    BY <1>7
  <2>2. first[i] \in Int
    BY <1>7, <1>8
  <2>3. ~(i < j) /\ ~(j < i)
    BY <1>8, <1>10, <2>2
  <2> QED BY <2>1, <2>3
<1>11. DOMAIN parts = 1..n /\ \A i \in 1..n : parts[i] = PartAt(lines, kept, first[i])
  BY <1>9
<1>12. Covered(parts) = lines
  <2>1. ASSUME NEW i \in 1..n PROVE parts[i].lines \subseteq lines
    BY <1>4, <1>8, <1>11
  <2>2. ASSUME NEW l \in lines PROVE \E i \in 1..n : l \in parts[i].lines
    <3>1. PICK f \in firsts : l \in PartAt(lines, kept, f).lines
      BY <1>3
    <3>2. PICK i \in 1..n : first[i] = f
      BY <1>8
    <3> QED BY <1>11, <3>1, <3>2
  <2> QED BY <1>11, <2>1, <2>2 DEF Covered
<1> QED BY <1>2, <1>7, <1>8, <1>10, <1>11, <1>12 DEF first, n, parts, firsts, lines

(* A line has its bytes and a newline. *)
Costs(c, size, lines) == \A l \in lines : size[l] \in Nat /\ c[l] = size[l] + 1

(* A weight is the sum of what each line weighs. *)
LEMMA WeightIsSum ==
    ASSUME NEW c, NEW size, NEW S, IsFiniteSet(S), Costs(c, size, S)
    PROVE  Total(c, S) = Weight(size, S)
<1>1. IsFiniteSet(S)
  OBVIOUS
<1>2. PICK k : k = 1 /\ k \in Nat
  OBVIOUS
<1>3. Marked(c, size, S, S, k)
  BY <1>2 DEF Marked, Costs
<1>4. Total(c, S) = Total(size, S) + k * Cardinality(S \cap S)
  BY <1>1, <1>2, <1>3, SumOfMarked
<1>5. S \cap S = S /\ Cardinality(S) \in Nat
  BY <1>1, FS_CardinalityType
<1>6. k * Cardinality(S) = Cardinality(S)
  BY <1>2, <1>5
<1> QED BY <1>4, <1>5, <1>6 DEF Weight

(* The pieces kept weigh what the lines kept weigh. *)
LEMMA SpansWeigh ==
    ASSUME NEW total \in Nat, NEW size, \A l \in 1..total : size[l] \in Nat,
           NEW kept, kept \subseteq 1..total,
           NEW h, \A f \in Firsts(kept) : h[f] = Bytes(size, SpanAt(kept, f)) + 1
    PROVE  Total(h, Firsts(kept)) = Weight(size, kept)
<1> DEFINE c == [l \in 1..total |-> size[l] + 1]
           piece == [f \in Firsts(kept) |-> SpanAt(kept, f)]
<1>1. \A l \in 1..total : c[l] = size[l] + 1
  OBVIOUS
<1>2. kept \in SUBSET Nat
  BY SomeLines
<1>3. ASSUME NEW f \in Firsts(kept)
      PROVE  /\ piece[f] = SpanAt(kept, f) /\ piece[f] \subseteq kept
             /\ piece[f] \subseteq 1..total /\ f \in piece[f]
  BY <1>2, SpanHolds
<1>4. \A l \in kept : \E f \in Firsts(kept) : l \in piece[f]
  BY <1>2, <1>3, InSomeSpan
<1>5. ASSUME NEW f \in Firsts(kept), NEW g \in Firsts(kept)
      PROVE  f = g \/ piece[f] \cap piece[g] = {}
  BY <1>2, <1>3, InOneSpan
<1> HIDE DEF c, piece
<1>6. ASSUME NEW f \in Firsts(kept)
      PROVE  IsFiniteSet(piece[f]) /\ h[f] = Total(c, piece[f])
  <2>1. PICK s : s = piece[f] /\ s \subseteq 1..total /\ s # {} /\ s = SpanAt(kept, f)
    BY <1>3
  <2>2. IsFiniteSet(s)
    BY <2>1, SomeLines
  <2>3. Weight(size, s) \in Nat /\ Bytes(size, s) = Weight(size, s) - 1
    BY <2>1, WeightHolds
  <2>4. Total(c, s) = Weight(size, s)
    <3>1. Costs(c, size, s)
      BY <1>1, <2>1 DEF Costs
    <3> QED BY <2>2, <3>1, WeightIsSum
  <2>5. h[f] = Bytes(size, s) + 1
    BY <2>1
  <2>6. h[f] = Weight(size, s)
    BY <2>3, <2>5
  <2> QED BY <2>1, <2>2, <2>4, <2>6
<1>7. Pieces(Firsts(kept), piece, kept)
  BY <1>3, <1>4, <1>5, <1>6 DEF Pieces
<1>8. IsFiniteSet(Firsts(kept))
  <2>1. Firsts(kept) \subseteq 1..total
    BY DEF Firsts
  <2> QED BY <2>1, SomeLines
<1>9. PICK I, d, e : I = Firsts(kept) /\ d = piece /\ e = c
  OBVIOUS
<1>10. /\ IsFiniteSet(I) /\ Pieces(I, d, kept)
       /\ \A f \in I : h[f] = Total(e, d[f])
  BY <1>6, <1>7, <1>8, <1>9
<1>11. \A x \in kept : e[x] \in Int
  BY <1>1, <1>9
<1>12. Total(h, I) = Total(e, kept)
  <2>1. PICK s, g : s = kept /\ g = h
    OBVIOUS
  <2>2. /\ IsFiniteSet(I) /\ Pieces(I, d, s)
        /\ \A f \in I : g[f] = Total(e, d[f])
    BY <1>10, <2>1
  <2>3. \A x \in s : e[x] \in Int
    BY <1>11, <2>1
  <2>4. Total(g, I) = Total(e, s)
    BY <2>2, <2>3, SumOfPieces
  <2> QED BY <2>1, <2>4
<1>13. Total(c, kept) = Weight(size, kept)
  <2>1. PICK s : s = kept /\ s \subseteq 1..total
    OBVIOUS
  <2>2. IsFiniteSet(s) /\ Costs(c, size, s)
    BY <1>1, <2>1, SomeLines DEF Costs
  <2>3. Total(c, s) = Weight(size, s)
    BY <2>2, WeightIsSum
  <2> QED BY <2>1, <2>3
<1> QED BY <1>9, <1>12, <1>13

(* The parts together are the lines kept and a marker for each gap, each   *)
(* with a newline but the last.                                            *)
LEMMA ResultWeighs ==
    ASSUME NEW total \in Nat, total # 0, NEW size, \A l \in 1..total : size[l] \in Nat,
           NEW kept, kept \subseteq 1..total
    PROVE  ResultBytes(size, AllParts(1..total, kept))
             = (Weight(size, kept)
                  + (Marker + 1) * Cardinality(Firsts((1..total) \ kept))) - 1
<1> DEFINE lines == 1..total
           gaps == lines \ kept
           firsts == PartFirsts(lines, kept)
           first == Ordered(firsts)
           n == Cardinality(firsts)
           parts == AllParts(lines, kept)
           p == [i \in DOMAIN parts |-> PartBytes(size, parts[i])]
           h == [f \in firsts |-> PartBytes(size, PartAt(lines, kept, f)) + 1]
           q == [i \in 1..n |-> h[first[i]]]
<1>1. /\ n \in Nat /\ n # 0 /\ firsts \subseteq 1..total
      /\ DOMAIN parts = 1..n
      /\ first \in [1..n -> firsts]
      /\ \A x \in firsts : \E i \in 1..n : first[i] = x
      /\ \A i, j \in 1..n : first[i] = first[j] => i = j
      /\ \A i \in 1..n : parts[i] = PartAt(lines, kept, first[i])
  BY PartsAreAll
<1>2. kept \in SUBSET Nat /\ gaps \in SUBSET Nat /\ gaps \subseteq 1..total
  <2>1. \A x \in 1..total : x \in Nat
    OBVIOUS
  <2> QED BY <2>1
<1>3. firsts = Firsts(kept) \cup Firsts(gaps) /\ Firsts(kept) \cap Firsts(gaps) = {}
  BY DEF PartFirsts, Firsts
<1>4. Marker + 1 \in Nat /\ Marker \in Nat
  BY SizesAssumption
<1>5. \A f \in Firsts(kept) : h[f] = Bytes(size, SpanAt(kept, f)) + 1
  <2>1. \A f \in Firsts(kept) : f \in firsts /\ f \in kept
    BY <1>3 DEF Firsts
  <2> HIDE DEF firsts
  <2> QED BY <2>1 DEF PartAt, Part, PartBytes
<1>6. \A f \in Firsts(gaps) : h[f] = Marker + 1
  <2>1. \A f \in Firsts(gaps) : f \in firsts /\ f \notin kept
    BY <1>3 DEF Firsts
  <2> HIDE DEF firsts
  <2> QED BY <2>1 DEF PartAt, Part, PartBytes
<1>7. \A i \in 1..n : q[i] = h[first[i]]
  OBVIOUS
<1>8. ASSUME NEW i \in 1..n PROVE q[i] = p[i] + 1
  <2>1. p[i] = PartBytes(size, parts[i]) /\ first[i] \in firsts
    BY <1>1
  <2>2. q[i] = PartBytes(size, PartAt(lines, kept, first[i])) + 1
    BY <2>1
  <2> QED BY <1>1, <2>1, <2>2
<1> HIDE DEF h, q, gaps
<1>9. ASSUME NEW f \in Firsts(kept) PROVE h[f] \in Nat /\ h[f] - 1 \in Nat
  <2>1. PICK s : s = SpanAt(kept, f) /\ s \subseteq 1..total /\ s # {}
    BY <1>2, SpanHolds
  <2>2. Weight(size, s) \in Nat /\ Bytes(size, s) = Weight(size, s) - 1
    BY <2>1, WeightHolds
  <2>3. IsFiniteSet(s) /\ Total(size, s) \in Nat /\ Cardinality(s) \in Nat /\ Cardinality(s) # 0
    <3>1. IsFiniteSet(s) /\ Cardinality(s) \in Nat
      BY <2>1, SomeLines
    <3> QED BY <2>1, <3>1, SumIsNat, FS_EmptySet
  <2>4. Bytes(size, s) \in Nat
    BY <2>1, <2>3 DEF Bytes
  <2>5. h[f] = Bytes(size, s) + 1
    BY <1>5, <2>1
  <2> QED BY <2>4, <2>5
<1>10. \A f \in firsts : h[f] \in Int /\ h[f] - 1 \in Int
  BY <1>3, <1>4, <1>6, <1>9
<1> HIDE DEF firsts, first
<1>11. \A i \in 1..n : p[i] \in Int
  <2> SUFFICES ASSUME NEW i \in 1..n PROVE p[i] \in Int
    OBVIOUS
  <2>1. p[i] = PartBytes(size, parts[i]) /\ first[i] \in firsts
    BY <1>1
  <2>2. h[first[i]] = PartBytes(size, parts[i]) + 1
    BY <1>1, <2>1 DEF h
  <2>3. h[first[i]] - 1 \in Int
    BY <1>10, <2>1
  <2>4. PartBytes(size, parts[i]) \in Int
    <3>1. \/ PartBytes(size, parts[i]) = Marker
          \/ \E f \in Firsts(kept) : PartBytes(size, parts[i]) = Bytes(size, SpanAt(kept, f))
      <4>1. parts[i] = PartAt(lines, kept, first[i])
        BY <1>1
      <4>2. first[i] \in kept => first[i] \in Firsts(kept)
        BY <1>3, <2>1 DEF gaps, Firsts
      <4> QED BY <4>1, <4>2 DEF PartAt, Part, PartBytes
    <3>2. \A f \in Firsts(kept) : Bytes(size, SpanAt(kept, f)) \in Int
      <4> SUFFICES ASSUME NEW f \in Firsts(kept) PROVE Bytes(size, SpanAt(kept, f)) \in Int
        OBVIOUS
      <4>1. PICK s : s = SpanAt(kept, f) /\ s \subseteq 1..total /\ s # {}
        BY <1>2, SpanHolds
      <4>2. Weight(size, s) \in Nat /\ Bytes(size, s) = Weight(size, s) - 1
        BY <4>1, WeightHolds
      <4> QED BY <4>1, <4>2
    <3> QED BY <1>4, <3>1, <3>2
  <2> QED BY <2>1, <2>4
<1> HIDE DEF lines
<1>12. IsFiniteSet(firsts) /\ IsFiniteSet(Firsts(kept)) /\ IsFiniteSet(Firsts(gaps))
       /\ Cardinality(Firsts(gaps)) \in Nat
  <2>1. Firsts(kept) \subseteq 1..total /\ Firsts(gaps) \subseteq 1..total
    BY <1>2 DEF Firsts
  <2> QED BY <1>1, <2>1, SomeLines
<1>13. Total(q, 1..n) = Total(h, firsts)
  <2>1. PICK m, T, g : m = n /\ T = firsts /\ g = first
    OBVIOUS
  <2> HIDE DEF n
  <2>2. /\ m \in Nat /\ IsFiniteSet(T) /\ g \in [1..m -> T]
        /\ \A x \in T : \E i \in 1..m : g[i] = x
        /\ \A i, j \in 1..m : g[i] = g[j] => i = j
    BY <1>1, <1>12, <2>1
  <2>3. (\A x \in T : h[x] \in Int) /\ \A i \in 1..m : q[i] = h[g[i]]
    BY <1>7, <1>10, <2>1
  <2>4. Total(q, 1..m) = Total(h, T)
    BY <2>2, <2>3, SumNumbered
  <2> QED BY <2>1, <2>4
<1>14. Total(h, firsts) = Weight(size, kept) + (Marker + 1) * Cardinality(Firsts(gaps))
  <2>1. Total(h, firsts) = Total(h, Firsts(kept)) + Total(h, Firsts(gaps))
    <3>1. \A x \in Firsts(kept) \cup Firsts(gaps) : h[x] \in Int
      BY <1>3, <1>10
    <3> QED BY <1>3, <1>12, <3>1, SumOfBoth
  <2>2. Total(h, Firsts(kept)) = Weight(size, kept)
    BY <1>5, SpansWeigh
  <2>3. Total(h, Firsts(gaps)) = (Marker + 1) * Cardinality(Firsts(gaps))
    <3>1. PICK k \in Nat, S \in {Firsts(gaps)} : k = Marker + 1
      BY <1>4
    <3>2. IsFiniteSet(S) /\ \A x \in S : h[x] = k
      BY <1>6, <1>12, <3>1
    <3>3. Total(h, S) = k * Cardinality(S)
      BY <3>2, SumOfSame
    <3> QED BY <3>1, <3>3
  <2> QED BY <2>1, <2>2, <2>3
<1>15. Total(q, 1..n) = Total(p, 1..n) + n /\ Total(p, 1..n) \in Int
  <2>1. PICK f, g : f = q /\ g = p
    OBVIOUS
  <2>2. PICK S, k : S = 1..n /\ k = 1 /\ k \in Nat /\ IsFiniteSet(S)
    BY <1>1, FS_Interval
  <2>3. \A x \in S : p[x] \in Int
    BY <1>11, <2>2
  <2>4. Marked(f, g, S, S, k)
    <3>1. Marked(q, p, S, S, k)
      BY <1>8, <2>2, <2>3 DEF Marked
    <3> QED BY <2>1, <3>1
  <2> HIDE DEF p
  <2> HIDE DEF n
  <2>5. k \in Nat /\ IsFiniteSet(S)
    BY <2>2
  <2>6. Total(f, S) = Total(g, S) + k * Cardinality(S \cap S)
    BY <2>4, <2>5, SumOfMarked
  <2>7. S \cap S = S /\ Cardinality(S) = n
    <3>1. n \in Int /\ ~(1 > n) /\ n - 1 + 1 = n
      BY <1>1
    <3> QED BY <2>2, <3>1, FS_Interval
  <2>8. k * n = n
    BY <1>1, <2>2
  <2>9. Total(p, S) \in Int
    BY <2>2, <2>3, SumIsInt
  <2> QED BY <2>1, <2>2, <2>6, <2>7, <2>8, <2>9
<1>16. Len(parts) = n
  <2>1. parts = [i \in 1..n |-> parts[i]]
    BY <1>1 DEF AllParts
  <2> HIDE DEF n, parts
  <2> QED BY <1>1, <2>1, Numbered
<1>17. SumFunction(p) = Total(p, 1..n)
  <2>1. DOMAIN p = 1..n
    BY <1>1
  <2> HIDE DEF p
  <2> QED BY <2>1 DEF SumFunction, Total
<1>18. ResultBytes(size, parts) = Total(p, 1..n) + n - 1
  BY <1>16, <1>17 DEF ResultBytes
<1>19. ResultBytes(size, parts) = Total(h, firsts) - 1
  <2> HIDE DEF n, p, parts
  <2> QED BY <1>1, <1>13, <1>15, <1>18
<1>20. ResultBytes(size, parts)
          = (Weight(size, kept) + (Marker + 1) * Cardinality(Firsts(gaps))) - 1
  <2> HIDE DEF n, p, parts
  <2> QED BY <1>14, <1>19
<1> QED BY <1>20 DEF parts, gaps, lines

(* Lines with a newline each, and a marker with its own for each line that *)
(* begins a piece.                                                         *)
LEMMA LinesAndMarkers ==
    ASSUME NEW size, NEW m, m \in Nat, NEW begins, NEW c, NEW d,
           NEW S, IsFiniteSet(S), Costs(d, size, S), Marked(c, d, S, begins, m)
    PROVE  Total(c, S) = Weight(size, S) + m * Cardinality(S \cap begins)
<1>1. Total(c, S) = Total(d, S) + m * Cardinality(S \cap begins)
  BY SumOfMarked
<1>2. Total(d, S) = Weight(size, S)
  BY WeightIsSum
<1> QED BY <1>1, <1>2

(* What pieces weigh with the markers above them, they weigh together.     *)
LEMMA PiecesWeigh ==
    ASSUME NEW size, NEW kept, IsFiniteSet(kept), \A l \in kept : size[l] \in Nat,
           NEW W, IsFiniteSet(W), NEW of, Pieces(W, of, kept),
           NEW m, m \in Nat, NEW more, more \in Nat, NEW share \in [W -> Nat],
           \A w \in W : Weight(size, of[w]) + m * Cardinality(Firsts(of[w]))
                            <= share[w] + more
    PROVE  Weight(size, kept) + m * Cardinality(Firsts(kept))
               <= Total(share, W) + more * Cardinality(W)
<1> DEFINE begins == Firsts(kept)
           costs == [l \in kept |-> size[l] + 1]
           marked == [l \in kept |-> IF l \in begins THEN costs[l] + m ELSE costs[l]]
           sums == [w \in W |-> Total(marked, of[w])]
           bounds == [w \in W |-> share[w] + more]
<1>1. \A l \in kept : costs[l] = size[l] + 1
  OBVIOUS
<1>2. \A l \in kept :
         costs[l] \in Int /\ marked[l] = IF l \in begins THEN costs[l] + m ELSE costs[l]
  OBVIOUS
<1>3. \A w \in W : sums[w] = Total(marked, of[w]) /\ bounds[w] = share[w] + more
  OBVIOUS
<1> HIDE DEF costs, marked, sums, bounds
<1>4. ASSUME NEW S, S \subseteq kept
      PROVE  Total(marked, S) = Weight(size, S) + m * Cardinality(S \cap begins)
  <2>1. PICK b : b = begins
    OBVIOUS
  <2>2. Marked(marked, costs, S, b, m)
    BY <1>2, <1>4, <2>1 DEF Marked
  <2>3. PICK s, c, d : s = S /\ c = marked /\ d = costs
    OBVIOUS
  <2>4. IsFiniteSet(s) /\ Marked(c, d, s, b, m) /\ Costs(d, size, s)
    <3>1. Costs(costs, size, S) /\ IsFiniteSet(S)
      BY <1>1, <1>4, FS_Subset DEF Costs
    <3> QED BY <2>2, <2>3, <3>1
  <2>5. Total(c, s) = Weight(size, s) + m * Cardinality(s \cap b)
    BY <2>4, LinesAndMarkers
  <2> QED BY <2>1, <2>3, <2>5
<1>5. \A l \in kept : marked[l] \in Int
  BY <1>2
<1>6. ASSUME NEW w \in W PROVE IsFiniteSet(of[w]) /\ sums[w] \in Int /\ sums[w] <= bounds[w]
  <2>1. PICK s : s = of[w] /\ s \subseteq kept
    BY DEF Pieces
  <2>2. IsFiniteSet(s)
    BY <2>1, FS_Subset
  <2>3. \A l \in s : marked[l] \in Int
    BY <1>5, <2>1
  <2>4. Total(marked, s) \in Int
    BY <2>2, <2>3, SumIsInt
  <2>5. PICK a, b \in Nat : a = Cardinality(s \cap begins) /\ b = Cardinality(Firsts(s)) /\ a <= b
    <3>1. s \cap begins \subseteq Firsts(s) /\ Firsts(s) \subseteq s
      BY <2>1 DEF Firsts
    <3>2. IsFiniteSet(Firsts(s))
      BY <2>2, <3>1, FS_Subset
    <3>3. PICK x, y : x = s \cap begins /\ y = Firsts(s) /\ x \subseteq y
      BY <3>1
    <3> HIDE DEF begins
    <3>4. IsFiniteSet(x) /\ Cardinality(x) <= Cardinality(y)
      BY <3>2, <3>3, FS_Subset
    <3>5. Cardinality(x) \in Nat /\ Cardinality(y) \in Nat
      BY <3>2, <3>3, <3>4, FS_CardinalityType
    <3> QED BY <3>3, <3>4, <3>5
  <2>6. m * a <= m * b /\ m * a \in Nat /\ m * b \in Nat
    <3>1. PICK x \in Nat, y \in Nat : x = a /\ y = b /\ x <= y
      BY <2>5
    <3>2. PICK e \in Nat : y = x + e
      <4>1. y - x \in Nat /\ y = x + (y - x)
        BY <3>1
      <4> QED BY <4>1
    <3>3. PICK p \in Nat, q \in Nat : p = m * x /\ q = m * e
      OBVIOUS
    <3>4. m * y = p + q
      BY <3>2, <3>3
    <3> QED BY <3>1, <3>3, <3>4
  <2>7. Total(marked, s) = Weight(size, s) + m * a
    BY <1>4, <2>1, <2>5
  <2>8. Weight(size, s) + m * b <= share[w] + more
    BY <2>1, <2>5
  <2>9. Weight(size, s) \in Nat
    <3>1. Total(size, s) \in Nat /\ Cardinality(s) \in Nat
      <4>1. \A l \in s : size[l] \in Nat
        BY <2>1
      <4> QED BY <2>2, <4>1, SumIsNat, FS_CardinalityType
    <3> QED BY <3>1 DEF Weight
  <2>10. Total(marked, s) <= share[w] + more
    <3>1. PICK x \in Nat, y \in Nat, z \in Nat, u \in Nat :
             x = Weight(size, s) /\ y = m * a /\ z = m * b /\ u = share[w]
      BY <2>6, <2>9
    <3> QED BY <2>6, <2>7, <2>8, <3>1
  <2> QED BY <1>3, <2>1, <2>2, <2>4, <2>10
<1>7. Total(sums, W) = Total(marked, kept)
  <2>1. Pieces(W, of, kept)
    OBVIOUS
  <2>2. PICK s, h, c : s = kept /\ h = sums /\ c = marked
    OBVIOUS
  <2>3. Pieces(W, of, s) /\ (\A x \in s : c[x] \in Int) /\ \A w \in W : h[w] = Total(c, of[w])
    BY <1>3, <1>5, <2>1, <2>2
  <2>4. Total(h, W) = Total(c, s)
    BY <2>3, SumOfPieces
  <2> QED BY <2>2, <2>4
<1>8. Total(marked, kept) = Weight(size, kept) + m * Cardinality(begins)
  <2>1. kept \cap begins = begins
    BY DEF Firsts
  <2> HIDE DEF begins
  <2> QED BY <1>4, <2>1
<1>9. Total(sums, W) <= Total(bounds, W)
  <2>1. \A w \in W : bounds[w] \in Int
    BY <1>3
  <2> QED BY <1>6, <2>1, SumsCompare
<1>10. Total(bounds, W) = Total(share, W) + more * Cardinality(W)
  <2>1. Marked(bounds, share, W, W, more)
    BY <1>3 DEF Marked
  <2>2. PICK g, f, k : g = bounds /\ f = share /\ k = more
    OBVIOUS
  <2>3. Marked(g, f, W, W, k) /\ k \in Nat
    BY <2>1, <2>2
  <2>4. Total(g, W) = Total(f, W) + k * Cardinality(W \cap W)
    BY <2>3, SumOfMarked
  <2> QED BY <2>2, <2>4
<1> QED BY <1>7, <1>8, <1>9, <1>10 DEF begins

(* What is picked of the windows, with the markers above, where no line    *)
(* changed is too large for a share that is cut.                           *)
LEMMA SelectWeighs ==
    ASSUME NEW size \in Seq(Nat), NEW ranges, Hunks(ranges, Len(size)),
           NEW W, W = Windows(ranges, Len(size)), NEW share,
           share = FairShare(WindowSizes(size, ranges), Room(Cardinality(W))),
           share \in [W -> Nat],
           \A w \in W : Bytes(size, w) > share[w] =>
               \A l \in Core(ranges, w) : size[l] + 1 <= share[w] - MarkerBudget
    PROVE  LET kept == Select(size, ranges) IN
           Weight(size, kept) + (Marker + 1) * Cardinality(Firsts(kept))
               <= Total(share, W) + (MarkerBudget + 2) * Cardinality(W)
<1> DEFINE kept == Select(size, ranges)
           of == [w \in W |-> Pick(size, w, Core(ranges, w), share[w])]
<1>1. PICK total \in Nat : total = Len(size)
  OBVIOUS
<1>2. DOMAIN size = 1..total /\ \A l \in 1..total : size[l] \in Nat
  BY <1>1
<1>3. PICK m \in Nat, more \in Nat, spare \in Nat :
         /\ m = Marker + 1 /\ more = MarkerBudget + 2 /\ spare = MarkerBudget
         /\ m + m <= more + spare /\ m + 1 <= more
  BY SizesAssumption
<1>4. /\ \A w \in W : w # {} /\ w \subseteq 1..total /\ Convex(w)
                         /\ \E r \in ranges : r \cap w # {}
      /\ Apart(W) /\ IsFiniteSet(W)
  <2>1. Hunks(ranges, total) /\ W = Windows(ranges, total)
    BY <1>1
  <2> QED BY <2>1, WindowsHold
<1>5. kept = UNION {of[w] : w \in W}
  BY DEF Select
<1> HIDE DEF kept
<1>6. ASSUME NEW w \in W
      PROVE  /\ of[w] \subseteq w
             /\ Weight(size, of[w]) + m * Cardinality(Firsts(of[w])) <= share[w] + more
  <2>1. PICK budget \in Nat : budget = share[w]
    OBVIOUS
  <2>2. PICK core, p :
           /\ core = Core(ranges, w)
           /\ p = Pick(size, w, core, budget) /\ p = of[w]
    BY <2>1
  <2> HIDE DEF of
  <2>3. w \subseteq 1..total /\ w # {} /\ Convex(w)
    BY <1>4
  <2>4. core \subseteq w /\ core # {} /\ Convex(core)
    <3>1. Hunks(ranges, total) /\ w \in Windows(ranges, total)
      BY <1>1
    <3> QED BY <1>4, <2>2, <3>1, CoreHolds
  <2>5. Bytes(size, w) > budget => \A l \in core : size[l] + 1 <= budget - MarkerBudget
    BY <2>1, <2>2
  <2>6. p \subseteq w
    BY <1>2, <2>2, <2>3, <2>4, PickInside
  <2>7. \/ Weight(size, p) <= budget + 1 /\ Cardinality(Firsts(p)) <= 1
        \/ Weight(size, p) <= budget - MarkerBudget /\ Cardinality(Firsts(p)) <= 2
    BY <1>2, <2>2, <2>3, <2>4, <2>5, PickFits
  <2>8. PICK b \in Nat : b = Cardinality(Firsts(p))
    <3>1. Firsts(p) \subseteq 1..total
      BY <2>3, <2>6 DEF Firsts
    <3> QED BY <3>1, SomeLines
  <2>9. PICK t \in Nat : t = Weight(size, p)
    <3>1. p \subseteq 1..total
      BY <2>3, <2>6
    <3>2. IsFiniteSet(p) /\ Cardinality(p) \in Nat
      BY <3>1, SomeLines
    <3>3. \A l \in p : size[l] \in Nat
      BY <1>2, <3>1
    <3>4. Total(size, p) \in Nat
      BY <3>2, <3>3, SumIsNat
    <3> QED BY <3>2, <3>4 DEF Weight
  <2>10. t + m * b <= budget + more
    <3>1. \/ t <= budget + 1 /\ b <= 1
          \/ t <= budget - spare /\ b <= 2
      BY <1>3, <2>7, <2>8, <2>9
    <3>2. b = 0 => m * b = 0
      OBVIOUS
    <3>3. b = 1 => m * b = m
      OBVIOUS
    <3>4. b = 2 => m * b = m + m
      OBVIOUS
    <3>5. b = 0 \/ b = 1 \/ b = 2
      BY <3>1
    <3>6. PICK x \in Nat : x = m * b
      OBVIOUS
    <3>7. x <= m \/ (x = m + m /\ t <= budget - spare)
      BY <3>1, <3>2, <3>3, <3>4, <3>5, <3>6
    <3>8. m + m <= more + spare /\ m + 1 <= more /\ (t <= budget + 1 \/ t <= budget - spare)
      BY <1>3, <3>1
    <3>9. t + x <= budget + more
      BY <3>8, <3>7
    <3> QED BY <3>6, <3>9
  <2> QED BY <2>1, <2>6, <2>8, <2>9, <2>10, <2>2
<1> HIDE DEF of
<1>7. IsFiniteSet(kept) /\ \A l \in kept : size[l] \in Nat
  <2>1. kept \subseteq 1..total
    BY <1>4, <1>5, <1>6
  <2> QED BY <1>2, <2>1, SomeLines
<1>8. Pieces(W, of, kept)
  <2>1. ASSUME NEW w \in W PROVE IsFiniteSet(of[w]) /\ of[w] \subseteq kept
    <3>1. of[w] \subseteq 1..total
      BY <1>4, <1>6
    <3> QED BY <1>5, <3>1, SomeLines
  <2>2. \A v, w \in W : v = w \/ of[v] \cap of[w] = {}
    <3>1. ASSUME NEW v \in W, NEW w \in W, v # w PROVE v \cap w = {}
      BY <1>4, <3>1 DEF Apart
    <3>2. \A v \in W : of[v] \subseteq v
      BY <1>6
    <3> QED BY <3>1, <3>2
  <2>3. \A l \in kept : \E w \in W : l \in of[w]
    BY <1>5
  <2> QED BY <2>1, <2>2, <2>3 DEF Pieces
<1>9. Weight(size, kept) + m * Cardinality(Firsts(kept)) <= Total(share, W) + more * Cardinality(W)
  <2>1. PICK k, o : k = kept /\ o = of
    OBVIOUS
  <2>2. /\ IsFiniteSet(k) /\ (\A l \in k : size[l] \in Nat) /\ Pieces(W, o, k)
        /\ \A w \in W : Weight(size, o[w]) + m * Cardinality(Firsts(o[w])) <= share[w] + more
    BY <1>6, <1>7, <1>8, <2>1
  <2>3. Weight(size, k) + m * Cardinality(Firsts(k)) <= Total(share, W) + more * Cardinality(W)
    BY <1>4, <2>2, PiecesWeigh
  <2> QED BY <2>1, <2>3
<1> QED BY <1>3, <1>9 DEF kept

(* What is left of the cap when the markers are allowed for. *)
LEMMA RoomForAll ==
    ASSUME NEW n \in Nat, MarkerBudget * (2 * n + 2) <= MaxRead \div 2,
           NEW weight \in Nat, NEW kept \in Nat, NEW gaps \in Nat, NEW sum \in Nat,
           gaps <= kept + 1, sum <= Room(n),
           weight + (Marker + 1) * kept <= sum + (MarkerBudget + 2) * n
    PROVE  (weight + (Marker + 1) * gaps) - 1 <= MaxRead
<1>1. PICK max \in Nat, spare \in Nat, m \in Nat :
         /\ max = MaxRead /\ spare = MarkerBudget /\ m = Marker + 1
         /\ m <= spare + 1 /\ spare >= 2
  BY SizesAssumption
<1>2. PICK a \in Nat : a = spare * n
  OBVIOUS
<1>3. spare * (2 * n + 2) = a + a + spare + spare
  BY <1>2
<1>4. (spare + 2) * n = a + n + n
  BY <1>2
<1>5. PICK half \in Nat : half = max \div 2 /\ half <= max
  OBVIOUS
<1>6. Room(n) = max - (a + a + spare + spare)
  <2>1. a + a + spare + spare <= half
    BY <1>1, <1>3, <1>5
  <2>2. Smaller(spare * (2 * n + 2), half) = a + a + spare + spare
    BY <1>3, <2>1 DEF Smaller
  <2> QED BY <1>1, <1>5, <2>2 DEF Room
<1>7. PICK x \in Nat, y \in Nat : x = m * kept /\ y = m * gaps
  OBVIOUS
<1>8. y <= x + m
  <2>1. m * (kept + 1) = x + m
    BY <1>7
  <2>2. PICK d \in Nat : kept + 1 = gaps + d
    <3>1. kept + 1 - gaps \in Nat /\ kept + 1 = gaps + (kept + 1 - gaps)
      OBVIOUS
    <3> QED BY <3>1
  <2>3. PICK z \in Nat : z = m * d
    OBVIOUS
  <2>4. m * (gaps + d) = y + z
    BY <1>7, <2>3
  <2> QED BY <2>1, <2>2, <2>3, <2>4
<1>9. weight + x <= sum + (a + n + n)
  BY <1>1, <1>4, <1>7
<1>10. n + n <= a + spare
  <2>1. PICK e \in Nat : spare = 2 + e
    <3>1. spare - 2 \in Nat /\ spare = 2 + (spare - 2)
      BY <1>1
    <3> QED BY <3>1
  <2>2. PICK b \in Nat : b = e * n
    OBVIOUS
  <2>3. a = n + n + b
    BY <1>2, <2>1, <2>2
  <2> QED BY <2>3
<1>11. sum <= max - (a + a + spare + spare)
  BY <1>6
<1>12. (weight + y) - 1 <= max
  BY <1>1, <1>8, <1>9, <1>10, <1>11
<1> QED BY <1>1, <1>7, <1>12

(* All the parts together are inside the cap, where the markers leave the  *)
(* room allowed for and no line changed is too large for its share.        *)
LEMMA PartsFit ==
    ASSUME NEW size \in Seq(Nat), Len(size) # 0,
           NEW ranges, Hunks(ranges, Len(size)),
           NEW W, W = Windows(ranges, Len(size)), NEW share,
           share = FairShare(WindowSizes(size, ranges), Room(Cardinality(W))),
           share \in [W -> Nat], Total(share, W) <= Room(Cardinality(W)),
           MarkerBudget * (2 * Cardinality(W) + 2) <= MaxRead \div 2,
           \A w \in W : Bytes(size, w) > share[w] =>
               \A l \in Core(ranges, w) : size[l] + 1 <= share[w] - MarkerBudget
    PROVE  ResultBytes(size, AllParts(DOMAIN size, Select(size, ranges))) <= MaxRead
<1>1. PICK total \in Nat : total = Len(size)
  OBVIOUS
<1>2. DOMAIN size = 1..total /\ total # 0 /\ \A l \in 1..total : size[l] \in Nat
  BY <1>1
<1>3. PICK kept : kept = Select(size, ranges)
  OBVIOUS
<1>4. kept \subseteq 1..total
  BY <1>2, <1>3, SelectHolds
<1>5. PICK gaps : gaps = (1..total) \ kept
  OBVIOUS
<1>6. PICK g \in Nat, k \in Nat : g = Cardinality(Firsts(gaps)) /\ k = Cardinality(Firsts(kept)) /\ g <= k + 1
  BY <1>4, <1>5, GapsBetween
<1>7. IsFiniteSet(W)
  <2>1. Hunks(ranges, total) /\ W = Windows(ranges, total)
    BY <1>1
  <2> QED BY <2>1, WindowsHold
<1>8. PICK n \in Nat : n = Cardinality(W)
  BY <1>7, FS_CardinalityType
<1>9. PICK sum \in Nat : sum = Total(share, W)
  BY <1>7, SumIsNat
<1>10. PICK weight \in Nat : weight = Weight(size, kept)
  <2>1. IsFiniteSet(kept) /\ Cardinality(kept) \in Nat
    BY <1>4, SomeLines
  <2>2. \A l \in kept : size[l] \in Nat
    BY <1>2, <1>4
  <2>3. Total(size, kept) \in Nat
    BY <2>1, <2>2, SumIsNat
  <2> QED BY <2>1, <2>3 DEF Weight
<1>11. weight + (Marker + 1) * k <= sum + (MarkerBudget + 2) * n
  <2>1. Weight(size, kept) + (Marker + 1) * Cardinality(Firsts(kept))
               <= Total(share, W) + (MarkerBudget + 2) * Cardinality(W)
    BY <1>3, SelectWeighs
  <2> QED BY <1>6, <1>8, <1>9, <1>10, <2>1
<1>12. (weight + (Marker + 1) * g) - 1 <= MaxRead
  <2>1. MarkerBudget * (2 * n + 2) <= MaxRead \div 2 /\ sum <= Room(n)
    BY <1>8, <1>9
  <2> QED BY <1>6, <1>11, <2>1, RoomForAll
<1>13. ResultBytes(size, AllParts(1..total, kept)) = (weight + (Marker + 1) * g) - 1
  <2>1. ResultBytes(size, AllParts(1..total, kept))
             = (Weight(size, kept)
                  + (Marker + 1) * Cardinality(Firsts((1..total) \ kept))) - 1
    BY <1>2, <1>4, ResultWeighs
  <2> QED BY <1>5, <1>6, <1>10, <2>1
<1> QED BY <1>2, <1>3, <1>12, <1>13

(* Parts that fit are all returned. *)
LEMMA NoneDropped ==
    ASSUME NEW size \in Seq(Nat), Len(size) # 0,
           NEW ranges, Hunks(ranges, Len(size)),
           ResultBytes(size, AllParts(DOMAIN size, Select(size, ranges))) <= MaxRead
    PROVE  /\ ResultBytes(size, Elide(size, ranges)) <= MaxRead
           /\ UNION {part.lines : part \in Range(Elide(size, ranges))} = DOMAIN size
<1> DEFINE kept == Select(size, ranges)
           parts == AllParts(DOMAIN size, kept)
           n == Cardinality(PartFirsts(DOMAIN size, kept))
           fit == {i \in DOMAIN parts : ResultBytes(size, SubSeq(parts, 1, i)) <= MaxRead}
           m == Max({1} \cup fit)
<1>1. Elide(size, ranges) = SubSeq(parts, 1, m)
  BY DEF Elide, AllParts, PartAt, PartFirsts
<1>2. PICK total \in Nat : total = Len(size) /\ total # 0 /\ DOMAIN size = 1..total
  OBVIOUS
<1>3. kept \subseteq 1..total
  BY <1>2, SelectHolds
<1> HIDE DEF kept
<1>4. /\ n \in Nat /\ n # 0 /\ DOMAIN parts = 1..n
      /\ Covered(parts) = 1..total
  <2>1. PICK k : k = kept
    OBVIOUS
  <2>2. k \subseteq 1..total /\ total # 0
    BY <1>2, <1>3, <2>1
  <2>3. LET all == AllParts(1..total, k)
            count == Cardinality(PartFirsts(1..total, k))
        IN /\ count \in Nat /\ count # 0 /\ DOMAIN all = 1..count
           /\ Covered(all) = 1..total
    BY <2>2, PartsAreAll
  <2> QED BY <1>2, <2>1, <2>3
<1>5. parts = [i \in 1..n |-> parts[i]]
  BY <1>4 DEF AllParts
<1> HIDE DEF n, parts
<1>6. /\ Len(parts) = n /\ SubSeq(parts, 1, n) = parts
  BY <1>4, <1>5, Numbered
<1>7. m = n
  <2>1. PICK fits : fits = {1} \cup fit
    OBVIOUS
  <2>2. fits \subseteq 1..n /\ n \in fits
    <3>1. n \in 1..n /\ 1 \in 1..n
      BY <1>4
    <3>2. ResultBytes(size, SubSeq(parts, 1, n)) <= MaxRead
      BY <1>6 DEF parts, kept
    <3> QED BY <1>4, <2>1, <3>1, <3>2
  <2> HIDE DEF fit
  <2>3. fits \subseteq Nat /\ IsFiniteSet(fits)
    BY <1>4, <2>2, SomeLines
  <2>4. PICK top \in Nat : top = n
    BY <1>4
  <2>5. fits \in SUBSET (0..top) /\ fits # {}
    BY <2>2, <2>4
  <2>6. Max(fits) \in fits /\ \A x \in fits : x <= Max(fits)
    BY <2>5, Greatest
  <2>7. Max(fits) <= n /\ n <= Max(fits) /\ Max(fits) \in Nat
    <3>1. PICK x \in 0..top : x = Max(fits)
      BY <2>6, <2>5
    <3>2. top \in fits
      BY <2>2, <2>4
    <3> QED BY <2>6, <2>4, <3>1, <3>2
  <2> QED BY <1>4, <2>1, <2>7
<1>8. Elide(size, ranges) = parts
  BY <1>1, <1>6, <1>7
<1>9. UNION {part.lines : part \in Range(parts)} = Covered(parts)
  BY DEF Range, Covered
<1> QED BY <1>2, <1>4, <1>8, <1>9 DEF parts, kept
=============================================================================
