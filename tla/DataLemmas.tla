----------------------------- MODULE DataLemmas -----------------------------
(***************************************************************************)
(* Facts about data that proofs of several components rest on.  Induction  *)
(* is stated of sets, and a recursion of a step given as a function, so    *)
(* that either can be cited for whatever a proof is about.  A sum over a   *)
(* set is counted: its units are the pairs of a member and a number up to  *)
(* the member's term.                                                      *)
(***************************************************************************)
EXTENDS Integers, Sequences, FiniteSetsExt, FiniteSetTheorems, WellFoundedInduction, TLAPS

-----------------------------------------------------------------------------
(* Numbers. *)

\* A nonempty set of naturals has a least element.
LEMMA Least ==
  ASSUME NEW S \in SUBSET Nat, S # {}
  PROVE  \E x \in S : \A y \in S : x <= y
<1> DEFINE R == {ss \in Nat \X Nat : ss[1] < ss[2]}
<1>1. IsWellFoundedOn(R, Nat)
  BY NatLessThanWellFounded DEF OpToRel
<1>2. PICK x \in S : \A y \in S : ~ (<<y, x>> \in R)
  <2> HIDE DEF R
  <2> QED BY <1>1, WFMin
<1>3. ASSUME NEW y \in S, ~(x <= y) PROVE FALSE
  <2>1. <<y, x>> \in R  BY <1>3 DEF R
  <2> QED BY <2>1, <1>2
<1> QED BY <1>2, <1>3

\* Max of a nonempty bounded set of naturals is its greatest element.
LEMMA Greatest ==
  ASSUME NEW S \in SUBSET Nat, S # {}, NEW b \in Nat, \A x \in S : x <= b
  PROVE  Max(S) \in S /\ \A x \in S : x <= Max(S)
<1> DEFINE D == {n \in Nat : b - n \in S}
<1>1. D # {}
  <2>1. PICK x \in S : TRUE  OBVIOUS
  <2>2. b - x \in Nat /\ b - (b - x) = x  BY <2>1
  <2> QED BY <2>1, <2>2
<1>2. PICK n \in D : \A k \in D : n <= k  BY <1>1, Least
<1>3. \A x \in S : x <= b - n
  <2> SUFFICES ASSUME NEW x \in S PROVE x <= b - n  OBVIOUS
  <2>1. b - x \in Nat /\ b - (b - x) = x /\ x \in Nat  OBVIOUS
  <2>2. b - x \in D  BY <2>1
  <2>3. n <= b - x /\ n \in Nat  BY <2>2, <1>2
  <2> QED BY <2>1, <2>3
<1>4. \E m \in S : \A x \in S : m >= x  BY <1>2, <1>3
<1>5. Max(S) \in S /\ \A x \in S : Max(S) >= x  BY <1>4 DEF Max
<1> QED BY <1>5

\* Min of a nonempty set of naturals is its least element.
LEMMA Smallest ==
  ASSUME NEW S \in SUBSET Nat, S # {}
  PROVE  Min(S) \in S /\ \A x \in S : Min(S) <= x
<1>1. \E m \in S : \A x \in S : m <= x  BY Least
<1>2. Min(S) \in S /\ \A x \in S : Min(S) <= x  BY <1>1 DEF Min
<1> QED BY <1>2

\* Induction up to n: what holds of 0 and of every successor holds of all.
LEMMA UpTo ==
  ASSUME NEW n \in Nat, NEW S, 0 \in S, \A k \in 0 .. n - 1 : k \in S => k + 1 \in S
  PROVE  \A k \in 0 .. n : k \in S
<1> DEFINE Bad == {k \in 0 .. n : k \notin S}
<1>1. SUFFICES ASSUME Bad # {} PROVE FALSE  OBVIOUS
<1>2. PICK m \in Bad : \A k \in Bad : m <= k
  <2>1. Bad \in SUBSET Nat  OBVIOUS
  <2> HIDE DEF Bad
  <2> QED BY <1>1, <2>1, Least
<1>3. m # 0 /\ m \in 0 .. n  OBVIOUS
<1>4. m - 1 \in 0 .. n - 1 /\ m - 1 + 1 = m  BY <1>3
<1>5. m - 1 \notin Bad
  <2>1. m \in Nat /\ ~(m <= m - 1)  BY <1>3
  <2> HIDE DEF Bad
  <2> QED BY <1>2, <2>1
<1> QED BY <1>4, <1>5

\* Of the subsets of a finite set that are bad, there is one that is bad no more when it
\* loses a member.
LEMMA Minimal ==
  ASSUME NEW S, IsFiniteSet(S), NEW Bad \in SUBSET SUBSET S, Bad # {}
  PROVE  \E T \in Bad : \A x \in T : T \ {x} \notin Bad
<1> DEFINE Sizes == {k \in Nat : \E T \in Bad : Cardinality(T) = k}
<1>1. \A T \in SUBSET S : IsFiniteSet(T) /\ Cardinality(T) \in Nat  BY FS_Subset, FS_CardinalityType
<1>2. Sizes # {} /\ Sizes \in SUBSET Nat
  <2>1. PICK T \in Bad : TRUE  OBVIOUS
  <2>2. Cardinality(T) \in Nat  BY <1>1
  <2>3. Cardinality(T) \in Sizes  BY <2>2
  <2> QED BY <2>3
<1>3. PICK n \in Sizes : \A k \in Sizes : n <= k
  <2> HIDE DEF Sizes
  <2> QED BY <1>2, Least
<1>4. PICK T \in Bad : Cardinality(T) = n  BY <1>3
<1>5. ASSUME NEW x \in T PROVE T \ {x} \notin Bad
  <2>1. IsFiniteSet(T) /\ Cardinality(T \ {x}) \in Nat  BY <1>1
  <2>2. Cardinality(T \ {x}) = n - 1  BY <2>1, <1>4, FS_RemoveElement
  <2>3. n \in Nat /\ ~(n <= n - 1)  BY <1>3
  <2>4. n - 1 \notin Sizes
    <3> HIDE DEF Sizes
    <3> QED BY <1>3, <2>3
  <2> QED BY <2>1, <2>2, <2>4
<1> QED BY <1>4, <1>5

\* Induction over a finite set: what holds of nothing and survives one more member holds.
LEMMA Members ==
  ASSUME NEW S, IsFiniteSet(S), NEW F, {} \in F,
         \A T \in SUBSET S : \A x \in S \ T : T \in F => T \cup {x} \in F
  PROVE  \A T \in SUBSET S : T \in F
<1> DEFINE Bad == {T \in SUBSET S : T \notin F}
<1>1. SUFFICES ASSUME Bad # {} PROVE FALSE  OBVIOUS
<1>2. PICK T \in Bad : \A x \in T : T \ {x} \notin Bad
  <2>1. Bad \in SUBSET SUBSET S  OBVIOUS
  <2> HIDE DEF Bad
  <2> QED BY <1>1, <2>1, Minimal
<1>3. PICK x \in T : TRUE  OBVIOUS
<1>4. T \ {x} \in SUBSET S /\ x \in S \ (T \ {x}) /\ (T \ {x}) \cup {x} = T  OBVIOUS
<1> QED BY <1>2, <1>4

-----------------------------------------------------------------------------
(* Recursion. *)

\* f takes n steps from base.
Takes(f, n, X, base, step) ==
  f \in [0 .. n -> X] /\ f[0] = base /\ \A i \in 1 .. n : f[i] = step[<<i, f[i - 1]>>]

\* There is a function that takes n steps from base.
LEMMA Recursion ==
  ASSUME NEW n \in Nat, NEW X, NEW base \in X, NEW step \in [(1 .. n) \X X -> X]
  PROVE  \E f : Takes(f, n, X, base, step)
<1> USE DEF Takes
<1> DEFINE Goes(m, f) == f[0] = base /\ \A i \in 1 .. m : f[i] = step[<<i, f[i - 1]>>]
<1> DEFINE Good == {m \in 0 .. n : \E f \in [0 .. m -> X] : Goes(m, f)}
<1>1. 0 \in Good
  <2> DEFINE f == [i \in 0 .. 0 |-> base]
  <2>1. f \in [0 .. 0 -> X] /\ f[0] = base /\ 1 .. 0 = {}  OBVIOUS
  <2> HIDE DEF f
  <2>2. Goes(0, f)  BY <2>1
  <2> QED BY <2>1, <2>2
<1>2. ASSUME NEW m \in 0 .. n - 1, m \in Good PROVE m + 1 \in Good
  <2>1. PICK f \in [0 .. m -> X] : Goes(m, f)  BY <1>2
  <2>2. m + 1 \in 1 .. n /\ m \in 0 .. m /\ m \in Nat  OBVIOUS
  <2> DEFINE g == [i \in 0 .. m + 1 |-> IF i = m + 1 THEN step[<<m + 1, f[m]>>] ELSE f[i]]
  <2>3. g \in [0 .. m + 1 -> X]
    <3>1. step[<<m + 1, f[m]>>] \in X  BY <2>2
    <3>2. \A i \in 0 .. m + 1 : i # m + 1 => i \in 0 .. m  BY <2>2
    <3> QED BY <3>1, <3>2
  <2>4. ASSUME NEW i \in 1 .. m + 1 PROVE g[i] = step[<<i, g[i - 1]>>]
    <3>1. CASE i = m + 1
      <4>1. i - 1 = m /\ m # m + 1 /\ m \in 0 .. m + 1  BY <2>2, <3>1
      <4>2. g[m] = f[m] /\ g[m + 1] = step[<<m + 1, f[m]>>]  BY <2>2, <4>1
      <4> HIDE DEF g
      <4> QED BY <3>1, <4>1, <4>2
    <3>2. CASE i # m + 1
      <4>1. i \in 1 .. m /\ i - 1 \in 0 .. m + 1 /\ i - 1 # m + 1  BY <2>2, <3>2
      <4>2. g[i] = f[i] /\ g[i - 1] = f[i - 1]  BY <4>1, <3>2
      <4> QED BY <2>1, <4>1, <4>2
    <3> QED BY <3>1, <3>2
  <2>5. g[0] = base  BY <2>1, <2>2
  <2> HIDE DEF g
  <2>6. Goes(m + 1, g)  BY <2>4, <2>5
  <2> QED BY <2>2, <2>3, <2>6
<1>3. \A m \in 0 .. n : m \in Good
  <2> HIDE DEF Good
  <2> QED BY <1>1, <1>2, UpTo
<1>4. n \in Good  BY <1>3
<1> QED BY <1>4

-----------------------------------------------------------------------------
(* Sums. *)

\* The units of the terms g of the members of T, and their number.
Units(g, T) == {u \in T \X Nat : 1 <= u[2] /\ u[2] <= g[u[1]]}
SumOf(g, T) == Cardinality(Units(g, T))

\* One term has as many units as it is large.
LEMMA UnitsOfOne ==
  ASSUME NEW g, NEW s, g[s] \in Nat
  PROVE  IsFiniteSet(Units(g, {s})) /\ Cardinality(Units(g, {s})) = g[s]
<1> DEFINE n == g[s]
<1> DEFINE f == [i \in 1 .. n |-> <<s, i>>]
<1>1. IsFiniteSet(1 .. n) /\ Cardinality(1 .. n) = n
  <2>1. 1 \in Int /\ n \in Int /\ n \in Nat  OBVIOUS
  <2> HIDE DEF n
  <2> QED BY <2>1, FS_Interval
<1>2. Units(g, {s}) = {<<s, i>> : i \in 1 .. n}
  <2>1. ASSUME NEW u \in Units(g, {s}) PROVE u \in {<<s, i>> : i \in 1 .. n}
    <3>1. u \in {s} \X Nat /\ 1 <= u[2] /\ u[2] <= g[u[1]]  BY DEF Units
    <3>2. u = <<s, u[2]>> /\ u[2] \in 1 .. n  BY <3>1
    <3> QED BY <3>2
  <2>2. ASSUME NEW i \in 1 .. n PROVE <<s, i>> \in Units(g, {s})  BY DEF Units
  <2> QED BY <2>1, <2>2
<1>3. f \in Bijection(1 .. n, Units(g, {s}))
  <2>1. f \in [1 .. n -> Units(g, {s})]  BY <1>2
  <2>2. \A i, j \in 1 .. n : f[i] = f[j] => i = j  OBVIOUS
  <2>3. \A u \in Units(g, {s}) : \E i \in 1 .. n : f[i] = u  BY <1>2
  <2> HIDE DEF f, n
  <2> QED BY <2>1, <2>2, <2>3 DEF Bijection, Injection, Surjection, IsInjective
<1>4. ExistsBijection(1 .. n, Units(g, {s}))  BY <1>3 DEF ExistsBijection
<1> HIDE DEF n
<1>5. IsFiniteSet(Units(g, {s})) /\ Cardinality(Units(g, {s})) = n  BY <1>1, <1>4, FS_Bijection
<1> QED BY <1>5 DEF n

\* Finitely many terms have finitely many units.
LEMMA UnitsFinite ==
  ASSUME NEW S, IsFiniteSet(S), NEW g, \A s \in S : g[s] \in Nat
  PROVE  \A T \in SUBSET S : IsFiniteSet(Units(g, T)) /\ SumOf(g, T) \in Nat
<1> DEFINE F == {T \in SUBSET S : IsFiniteSet(Units(g, T))}
<1>1. {} \in F
  <2>1. Units(g, {}) = {}  BY DEF Units
  <2> QED BY <2>1, FS_EmptySet
<1>2. ASSUME NEW T \in SUBSET S, NEW x \in S \ T, T \in F PROVE T \cup {x} \in F
  <2>1. Units(g, T \cup {x}) = Units(g, T) \cup Units(g, {x})  BY DEF Units
  <2>2. IsFiniteSet(Units(g, T)) /\ IsFiniteSet(Units(g, {x}))  BY <1>2, UnitsOfOne
  <2>3. IsFiniteSet(Units(g, T \cup {x}))  BY <2>1, <2>2, FS_Union
  <2> QED BY <2>3
<1>3. \A T \in SUBSET S : T \in F
  <2> HIDE DEF F
  <2> QED BY <1>1, <1>2, Members
<1> QED BY <1>3, FS_CardinalityType DEF SumOf

\* The sum over what two disjoint sets hold.
LEMMA SumApart ==
  ASSUME NEW S, IsFiniteSet(S), NEW g, \A s \in S : g[s] \in Nat,
         NEW T \in SUBSET S, NEW U \in SUBSET S, T \cap U = {}
  PROVE  SumOf(g, T \cup U) = SumOf(g, T) + SumOf(g, U) /\ SumOf(g, T) \in Nat /\ SumOf(g, U) \in Nat
<1> DEFINE P == Units(g, T)
<1> DEFINE Q == Units(g, U)
<1>1. Units(g, T \cup U) = P \cup Q /\ P \cap Q = {}  BY DEF Units
<1>2. IsFiniteSet(P) /\ IsFiniteSet(Q) /\ Cardinality(P) \in Nat /\ Cardinality(Q) \in Nat
  BY UnitsFinite DEF SumOf
<1>3. SumOf(g, T \cup U) = Cardinality(P \cup Q) /\ SumOf(g, T) = Cardinality(P) /\ SumOf(g, U) = Cardinality(Q)
  BY <1>1 DEF SumOf
<1> HIDE DEF P, Q
<1>4. Cardinality(P \cup Q) = Cardinality(P) + Cardinality(Q) - Cardinality(P \cap Q)
  BY <1>2, FS_Union
<1>5. Cardinality(P \cap Q) = 0  BY <1>1, FS_EmptySet
<1> QED BY <1>2, <1>3, <1>4, <1>5

\* One member more.
LEMMA SumAdd ==
  ASSUME NEW S, IsFiniteSet(S), NEW g, \A s \in S : g[s] \in Nat,
         NEW T \in SUBSET S, NEW s \in S, s \notin T
  PROVE  SumOf(g, T \cup {s}) = SumOf(g, T) + g[s]
<1>1. {s} \in SUBSET S /\ T \cap {s} = {} /\ g[s] \in Nat  OBVIOUS
<1>2. SumOf(g, {s}) = g[s]  BY <1>1, UnitsOfOne DEF SumOf
<1> QED BY <1>1, <1>2, SumApart

\* A sum is that over some members and that over the others.
LEMMA SumSplit ==
  ASSUME NEW S, IsFiniteSet(S), NEW g, \A s \in S : g[s] \in Nat, NEW T \in SUBSET S
  PROVE  /\ SumOf(g, S) = SumOf(g, T) + SumOf(g, S \ T)
         /\ SumOf(g, T) \in Nat /\ SumOf(g, S \ T) \in Nat
<1> DEFINE U == S \ T
<1>1. U \in SUBSET S /\ T \cap U = {} /\ T \cup U = S  OBVIOUS
<1> HIDE DEF U
<1>2. SumOf(g, T \cup U) = SumOf(g, T) + SumOf(g, U) /\ SumOf(g, T) \in Nat /\ SumOf(g, U) \in Nat
  BY <1>1, SumApart
<1> QED BY <1>1, <1>2 DEF U

\* Nothing sums up to nothing.
LEMMA SumOfNone == ASSUME NEW g PROVE SumOf(g, {}) = 0
<1>1. Units(g, {}) = {}  BY DEF Units
<1> QED BY <1>1, FS_EmptySet DEF SumOf

\* What one term gains, the sum gains.
LEMMA OneChanges ==
  ASSUME NEW S, IsFiniteSet(S), NEW g, \A s \in S : g[s] \in Nat, NEW h, \A s \in S : h[s] \in Nat,
         NEW s \in S, \A t \in S : t # s => h[t] = g[t]
  PROVE  SumOf(h, S) = SumOf(g, S) - g[s] + h[s]
<1> DEFINE T == S \ {s}
<1>1. T \in SUBSET S /\ s \notin T /\ T \cup {s} = S  OBVIOUS
<1>2. Units(h, T) = Units(g, T)
  <2>1. \A u \in T \X Nat : h[u[1]] = g[u[1]]  OBVIOUS
  <2> QED BY <2>1 DEF Units
<1> HIDE DEF T
<1>3. SumOf(g, S) = SumOf(g, T) + g[s]  BY <1>1, SumAdd
<1>4. SumOf(h, S) = SumOf(h, T) + h[s]  BY <1>1, SumAdd
<1>5. SumOf(g, T) \in Nat /\ SumOf(h, T) = SumOf(g, T)  BY <1>1, <1>2, UnitsFinite DEF SumOf
<1>6. g[s] \in Nat /\ h[s] \in Nat  OBVIOUS
<1> QED BY <1>3, <1>4, <1>5, <1>6

\* A sum taken one member at a time, as MapThenSumSet takes it.
SumStep(g, S, f) ==
  f = [T \in SUBSET S |-> IF T = {} THEN 0
                          ELSE g[CHOOSE x \in T : TRUE] + f[T \ {CHOOSE x \in T : TRUE}]]

\* There is such a sum: the units counted.
LEMMA SumExists ==
  ASSUME NEW S, IsFiniteSet(S), NEW g, \A s \in S : g[s] \in Nat
  PROVE  SumStep(g, S, [T \in SUBSET S |-> SumOf(g, T)])
<1> DEFINE f == [T \in SUBSET S |-> SumOf(g, T)]
<1>1. ASSUME NEW T \in SUBSET S
      PROVE  f[T] = IF T = {} THEN 0
                    ELSE g[CHOOSE x \in T : TRUE] + f[T \ {CHOOSE x \in T : TRUE}]
  <2>1. CASE T = {}  BY <2>1, SumOfNone
  <2>2. CASE T # {}
    <3> DEFINE x == CHOOSE x \in T : TRUE
    <3> DEFINE R == T \ {x}
    <3>1. x \in T  BY <2>2
    <3> HIDE DEF x
    <3>2. R \in SUBSET S /\ x \in S /\ x \notin R /\ T = R \cup {x}  BY <3>1
    <3>3. SumOf(g, R) \in Nat  BY <3>2, UnitsFinite
    <3> HIDE DEF R
    <3>4. SumOf(g, T) = SumOf(g, R) + g[x]  BY <3>2, SumAdd
    <3>5. g[x] \in Nat  BY <3>2
    <3>6. f[T] = g[x] + f[R]  BY <3>2, <3>3, <3>4, <3>5
    <3> QED BY <2>2, <3>6 DEF R, x
  <2> QED BY <2>1, <2>2
<1> HIDE DEF f
<1>2. DOMAIN f = SUBSET S /\ f = [T \in SUBSET S |-> f[T]]  BY DEF f
<1>3. SumStep(g, S, f)  BY <1>1, <1>2 DEF SumStep
<1> QED BY <1>3 DEF f

\* And any such sum counts the units.
LEMMA SumUnique ==
  ASSUME NEW S, IsFiniteSet(S), NEW g, \A s \in S : g[s] \in Nat, NEW f, SumStep(g, S, f)
  PROVE  f[S] = SumOf(g, S)
<1> DEFINE c == [T \in SUBSET S |-> SumOf(g, T)]
<1> DEFINE Bad == {T \in SUBSET S : f[T] # c[T]}
<1>1. SUFFICES ASSUME Bad # {} PROVE FALSE
  <2>1. S \notin Bad => f[S] = c[S]  OBVIOUS
  <2> QED BY <1>1, <2>1
<1>2. PICK T \in Bad : \A x \in T : T \ {x} \notin Bad
  <2>1. Bad \in SUBSET SUBSET S  OBVIOUS
  <2> HIDE DEF Bad
  <2> QED BY <1>1, <2>1, Minimal
<1>3. SumStep(g, S, c)  BY SumExists
<1> HIDE DEF c
<1>4. T \in SUBSET S /\ f[T] # c[T]  BY <1>2
<1>5. f[T] = IF T = {} THEN 0 ELSE g[CHOOSE x \in T : TRUE] + f[T \ {CHOOSE x \in T : TRUE}]
  BY <1>4 DEF SumStep
<1>6. c[T] = IF T = {} THEN 0 ELSE g[CHOOSE x \in T : TRUE] + c[T \ {CHOOSE x \in T : TRUE}]
  BY <1>3, <1>4 DEF SumStep
<1>7. T # {}  BY <1>4, <1>5, <1>6
<1>8. (CHOOSE x \in T : TRUE) \in T  BY <1>7
<1> QED BY <1>2, <1>4, <1>5, <1>6, <1>7, <1>8

\* The sum the community modules take of terms that a function gives.
LEMMA SumTaken ==
  ASSUME NEW S, IsFiniteSet(S), NEW g, \A s \in S : g[s] \in Nat
  PROVE  MapThenSumSet(LAMBDA s : g[s], S) = SumOf(g, S)
<1> DEFINE Step(f) == SumStep(g, S, f)
<1>1. Step([T \in SUBSET S |-> SumOf(g, T)])  BY SumExists
<1>2. Step(CHOOSE f : Step(f))
  <2> HIDE DEF Step
  <2> QED BY <1>1
<1>3. (CHOOSE f : Step(f))[S] = SumOf(g, S)
  <2>1. SumStep(g, S, CHOOSE f : Step(f))  BY <1>2
  <2> HIDE DEF Step
  <2> QED BY <2>1, SumUnique
<1>4. MapThenSumSet(LAMBDA s : g[s], S) = (CHOOSE f : Step(f))[S]
  BY DEF MapThenSumSet, MapThenFoldSet, SumStep
<1> QED BY <1>3, <1>4

-----------------------------------------------------------------------------
(* Order. *)

\* Of finitely many terms one is the largest.
LEMMA Largest ==
  ASSUME NEW S, IsFiniteSet(S), S # {}, NEW g, \A s \in S : g[s] \in Nat
  PROVE  \E s \in S : \A t \in S : g[t] <= g[s]
<1> DEFINE F == {T \in SUBSET S : T # {} => \E s \in T : \A t \in T : g[t] <= g[s]}
<1>1. {} \in F  OBVIOUS
<1>2. ASSUME NEW T \in SUBSET S, NEW y \in S \ T, T \in F PROVE T \cup {y} \in F
  <2>1. CASE T = {}
    <3>1. \A t \in T \cup {y} : g[t] <= g[y]  BY <2>1
    <3> QED BY <3>1
  <2>2. CASE T # {}
    <3>1. PICK s \in T : \A t \in T : g[t] <= g[s]  BY <1>2, <2>2
    <3>2. CASE g[y] <= g[s]
      <4>1. \A t \in T \cup {y} : g[t] <= g[s]  BY <3>1, <3>2
      <4> QED BY <4>1
    <3>3. CASE ~(g[y] <= g[s])
      <4>1. \A t \in T \cup {y} : g[t] <= g[y]  BY <3>1, <3>3
      <4> QED BY <4>1
    <3> QED BY <3>2, <3>3
  <2> QED BY <2>1, <2>2
<1>3. S \in F
  <2> HIDE DEF F
  <2> QED BY <1>1, <1>2, Members
<1> QED BY <1>3

\* The members of S that come before p in the order R, p among them.
Before(S, R, p) == {q \in S : <<q, p>> \in R}

\* R is a total order of S.
Ordering(S, R) ==
  /\ \A p \in S : <<p, p>> \in R
  /\ \A p, q \in S : <<p, q>> \in R \/ <<q, p>> \in R
  /\ \A p, q \in S : <<p, q>> \in R /\ <<q, p>> \in R => p = q
  /\ \A p, q, r \in S : <<p, q>> \in R /\ <<q, r>> \in R => <<p, r>> \in R

\* e has in the k-th place a member with k at or before it, where there is one.
Ranked(S, R, e) ==
  \A k \in 1 .. Cardinality(S) :
    (\E p \in S : Cardinality(Before(S, R, p)) = k)
      => e[k] \in S /\ Cardinality(Before(S, R, e[k])) = k

\* e has the members of S each once, in the order R.
InLine(S, R, e) ==
  /\ Cardinality(S) \in Nat /\ \A k \in 1 .. Cardinality(S) : e[k] \in S
  /\ \A p \in S : \E k \in 1 .. Cardinality(S) : e[k] = p
  /\ \A i, j \in 1 .. Cardinality(S) : i < j => e[i] # e[j] /\ <<e[i], e[j]>> \in R

\* A total order of a finite set lines its members up.
LEMMA LinedUp ==
  ASSUME NEW S, IsFiniteSet(S), NEW R, Ordering(S, R), NEW e, Ranked(S, R, e)
  PROVE  InLine(S, R, e)
<1> USE DEF Ordering, Ranked, InLine
<1> DEFINE n == Cardinality(S)
<1> DEFINE rank == [p \in S |-> Cardinality(Before(S, R, p))]
<1>1. n \in Nat /\ IsFiniteSet(1 .. n) /\ Cardinality(1 .. n) = n
  <2>1. n \in Nat  BY FS_CardinalityType
  <2> HIDE DEF n
  <2>2. 1 \in Int /\ n \in Int  BY <2>1
  <2> QED BY <2>1, <2>2, FS_Interval
<1>2. \A p \in S : Before(S, R, p) \in SUBSET S /\ IsFiniteSet(Before(S, R, p))
  BY FS_Subset DEF Before
<1>3. \A p, q \in S : <<p, q>> \in R => Before(S, R, p) \in SUBSET Before(S, R, q)  BY DEF Before
<1>4. \A p \in S : rank[p] \in 1 .. n
  <2> SUFFICES ASSUME NEW p \in S PROVE rank[p] \in 1 .. n  OBVIOUS
  <2>1. Cardinality(Before(S, R, p)) \in Nat /\ Cardinality(Before(S, R, p)) <= n
    BY <1>2, FS_Subset, FS_CardinalityType
  <2>2. p \in Before(S, R, p)  BY DEF Before
  <2>3. Cardinality(Before(S, R, p)) # 0  BY <1>2, <2>2, FS_EmptySet
  <2> QED BY <1>1, <2>1, <2>3
<1>5. \A p, q \in S : <<p, q>> \in R /\ p # q => rank[p] < rank[q]
  <2> SUFFICES ASSUME NEW p \in S, NEW q \in S, <<p, q>> \in R, p # q PROVE rank[p] < rank[q]  OBVIOUS
  <2>1. q \in Before(S, R, q) /\ q \notin Before(S, R, p)  BY DEF Before
  <2>2. Before(S, R, p) \in SUBSET Before(S, R, q) /\ Before(S, R, p) # Before(S, R, q)  BY <1>3, <2>1
  <2>3. /\ Cardinality(Before(S, R, p)) <= Cardinality(Before(S, R, q))
        /\ Cardinality(Before(S, R, p)) # Cardinality(Before(S, R, q))
    BY <1>2, <2>2, FS_Subset
  <2>4. rank[p] \in Nat /\ rank[q] \in Nat  BY <1>4
  <2> QED BY <2>3, <2>4
<1>6. rank \in Injection(S, 1 .. n)
  <2>1. rank \in [S -> 1 .. n]  BY <1>4
  <2>2. \A p, q \in S : rank[p] \in Nat /\ rank[q] \in Nat  BY <1>4
  <2>3. \A p, q \in S : rank[p] = rank[q] => p = q
    <3> SUFFICES ASSUME NEW p \in S, NEW q \in S, rank[p] = rank[q], p # q PROVE FALSE  OBVIOUS
    <3>1. rank[p] < rank[q] \/ rank[q] < rank[p]  BY <1>5
    <3> HIDE DEF rank
    <3> QED BY <2>2, <3>1
  <2> HIDE DEF rank, n
  <2> QED BY <2>1, <2>3 DEF Injection, IsInjective
<1>7. \A k \in 1 .. n : \E p \in S : rank[p] = k
  <2> HIDE DEF rank
  <2>1. rank \in Surjection(S, 1 .. n)  BY <1>1, <1>6, FS_Injection
  <2> HIDE DEF n
  <2> QED BY <2>1 DEF Surjection
<1>8. \A k \in 1 .. n : e[k] \in S /\ rank[e[k]] = k
  <2> SUFFICES ASSUME NEW k \in 1 .. n PROVE e[k] \in S /\ rank[e[k]] = k  OBVIOUS
  <2>1. \E p \in S : Cardinality(Before(S, R, p)) = k  BY <1>7
  <2> QED BY <2>1
<1>9. \A k \in 1 .. n : e[k] \in S  BY <1>8
<1>10. \A p \in S : \E k \in 1 .. n : e[k] = p
  <2> SUFFICES ASSUME NEW p \in S PROVE e[rank[p]] = p  BY <1>4
  <2>1. rank[p] \in 1 .. n  BY <1>4
  <2>2. e[rank[p]] \in S /\ rank[e[rank[p]]] = rank[p]  BY <1>8, <2>1
  <2> HIDE DEF rank, n
  <2> QED BY <1>6, <2>2 DEF Injection, IsInjective
<1>11. \A i, j \in 1 .. n : i < j => e[i] # e[j] /\ <<e[i], e[j]>> \in R
  <2> SUFFICES ASSUME NEW i \in 1 .. n, NEW j \in 1 .. n, i < j PROVE e[i] # e[j] /\ <<e[i], e[j]>> \in R
    OBVIOUS
  <2>1. e[i] \in S /\ e[j] \in S /\ rank[e[i]] = i /\ rank[e[j]] = j  BY <1>8
  <2> HIDE DEF rank, n
  <2>2. i \in Int /\ j \in Int /\ ~(j < i) /\ i # j  OBVIOUS
  <2>3. e[i] # e[j]  BY <2>1, <2>2
  <2>4. <<e[j], e[i]>> \notin R  BY <1>5, <2>1, <2>2, <2>3
  <2> QED BY <2>1, <2>3, <2>4
<1> QED BY <1>1, <1>9, <1>10, <1>11
-----------------------------------------------------------------------------
(* Sequences. *)

\* s begins t.
Begins(s, t) == Len(s) <= Len(t) /\ \A i \in 1 .. Len(s) : s[i] = t[i]

\* Two sequences are the same if either begins the other.
LEMMA SameSequence ==
  ASSUME NEW X, NEW s \in Seq(X), NEW t \in Seq(X), Len(s) = Len(t), \A i \in 1 .. Len(s) : s[i] = t[i]
  PROVE  s = t
OBVIOUS

\* What s1 begins, and s2 begins what begins with s1, and so on.
LEMMA BeginsOn ==
  ASSUME NEW X, NEW s \in Seq(X), NEW t \in Seq(X), NEW u \in Seq(X)
  PROVE  /\ Begins(s, s \o t)
         /\ Begins(s, t) /\ Begins(t, u) => Begins(s, u)
<1>1. Begins(s, s \o t)  BY DEF Begins
<1>2. ASSUME Begins(s, t), Begins(t, u) PROVE Begins(s, u)
  <2>1. Len(s) \in Nat /\ Len(t) \in Nat /\ Len(u) \in Nat  OBVIOUS
  <2> QED BY <1>2, <2>1 DEF Begins
<1> QED BY <1>1, <1>2

\* The head of a sequence can be appended to what precedes it.
LEMMA HeadMoves ==
  ASSUME NEW X, NEW s \in Seq(X), NEW t \in Seq(X), t # <<>>
  PROVE  /\ Append(s, Head(t)) \o Tail(t) = s \o t /\ Head(t) \in X /\ Tail(t) \in Seq(X)
         /\ Len(t) \in Nat \ {0} /\ Len(Tail(t)) = Len(t) - 1 /\ Head(t) = t[1]
         /\ \A i \in 1 .. Len(t) - 1 : Tail(t)[i] = t[i + 1]
<1>1. /\ Head(t) \in X /\ Tail(t) \in Seq(X) /\ Len(t) \in Nat \ {0} /\ Len(Tail(t)) = Len(t) - 1
      /\ Head(t) = t[1] /\ \A i \in 1 .. Len(t) - 1 : Tail(t)[i] = t[i + 1]
  OBVIOUS
<1>2. Append(s, Head(t)) \o Tail(t) = s \o t
  <2> DEFINE a == Append(s, Head(t)) \o Tail(t)
  <2> DEFINE b == s \o t
  <2>1. a \in Seq(X) /\ b \in Seq(X) /\ Len(a) = Len(b) /\ Len(b) = Len(s) + Len(t)  BY <1>1
  <2>2. ASSUME NEW i \in 1 .. Len(s) + Len(t) PROVE a[i] = b[i]
    <3>1. CASE i <= Len(s)  BY <1>1, <3>1
    <3>2. CASE i = Len(s) + 1  BY <1>1, <3>2
    <3>3. CASE i > Len(s) + 1
      <4>1. i - Len(s) - 1 \in 1 .. Len(t) - 1 /\ i - Len(s) \in 1 .. Len(t)  BY <3>3
      <4>2. Tail(t)[i - Len(s) - 1] = t[i - Len(s)]  BY <1>1, <4>1
      <4>3. b[i] = t[i - Len(s)]  BY <4>1, <3>3
      <4>4. a[i] = Tail(t)[i - Len(s) - 1]  BY <1>1, <4>1, <3>3
      <4> QED BY <4>2, <4>3, <4>4
    <3> QED BY <3>1, <3>2, <3>3
  <2> HIDE DEF a, b
  <2>3. a = b  BY <2>1, <2>2, SameSequence
  <2> QED BY <2>3 DEF a, b
<1> QED BY <1>1, <1>2

\* A sequence of one.
LEMMA Alone ==
  ASSUME NEW X, NEW d \in Seq(X), NEW s \in Seq(X), Len(s) = 1
  PROVE  /\ s[1] \in X /\ s = <<s[1]>> /\ Head(s) = s[1] /\ Tail(s) = <<>>
         /\ Append(d, s[1]) \o <<>> = d \o s
<1>1. s # <<>> /\ Head(s) = s[1] /\ s[1] \in X  OBVIOUS
<1>2. Tail(s) \in Seq(X) /\ Len(Tail(s)) = 0  BY HeadMoves
<1>3. Tail(s) = <<>>
  <2> DEFINE t == Tail(s)
  <2>1. t \in Seq(X) /\ Len(t) = 0  BY <1>2
  <2> HIDE DEF t
  <2>2. t = <<>>  BY <2>1
  <2> QED BY <2>2 DEF t
<1>4. s = <<s[1]>>  BY <1>1
<1>5. Append(d, Head(s)) \o Tail(s) = d \o s  BY <1>1, HeadMoves
<1> QED BY <1>1, <1>3, <1>4, <1>5

\* What stands before a sequence is its head.
LEMMA HeadAdded ==
  ASSUME NEW X, NEW x \in X, NEW s \in Seq(X)
  PROVE  Head(<<x>> \o s) = x /\ Tail(<<x>> \o s) = s
<1> DEFINE t == <<x>> \o s
<1>1. /\ t \in Seq(X) /\ t # <<>> /\ Len(t) = Len(s) + 1 /\ t[1] = x
      /\ \A i \in 1 .. Len(s) : t[i + 1] = s[i]
  OBVIOUS
<1> HIDE DEF t
<1>2. /\ Tail(t) \in Seq(X) /\ Len(Tail(t)) = Len(s) /\ Head(t) = x
      /\ \A i \in 1 .. Len(s) : Tail(t)[i] = s[i]
  <2>1. /\ Tail(t) \in Seq(X) /\ Len(Tail(t)) = Len(t) - 1 /\ Head(t) = t[1]
        /\ \A i \in 1 .. Len(t) - 1 : Tail(t)[i] = t[i + 1]
    BY <1>1, HeadMoves
  <2>2. Len(s) \in Nat /\ Len(t) - 1 = Len(s)  BY <1>1
  <2> QED BY <1>1, <2>1, <2>2
<1> DEFINE r == Tail(t)
<1> HIDE DEF r
<1>3. r \in Seq(X) /\ Len(r) = Len(s) /\ \A i \in 1 .. Len(s) : r[i] = s[i]  BY <1>2 DEF r
<1>4. r = s  BY <1>3, SameSequence
<1> QED BY <1>2, <1>4 DEF t, r

\* A concatenation of s[1], s[2], ... taken as FlattenSeq takes it.
Chained(s, m, g) == g = [i \in 1 .. m |-> IF i = 1 THEN s[i] ELSE g[i - 1] \o s[i]]

\* n sequences over X, and what the first of them concatenate to.
Links(s, n, X) == \A i \in 1 .. n : s[i] \in Seq(X)
Chain(f, s, n, X) ==
  f \in [0 .. n -> Seq(X)] /\ f[0] = <<>> /\ \A i \in 1 .. n : f[i] = f[i - 1] \o s[i]

\* There is such a chain.
LEMMA ChainExists ==
  ASSUME NEW X, NEW n \in Nat, NEW s, Links(s, n, X)
  PROVE  \E f : Chain(f, s, n, X)
<1> USE DEF Links, Chain
<1> DEFINE Y == Seq(X)
<1> DEFINE step == [x \in (1 .. n) \X Y |-> x[2] \o s[x[1]]]
<1>1. step \in [(1 .. n) \X Y -> Y]  OBVIOUS
<1>2. <<>> \in Y  OBVIOUS
<1>3. \A i \in 1 .. n, y \in Y : step[<<i, y>>] = y \o s[i]  OBVIOUS
<1> HIDE DEF step, Y
<1>4. PICK f : Takes(f, n, Y, <<>>, step)  BY <1>1, <1>2, Recursion
<1>5. \A i \in 1 .. n : i - 1 \in 0 .. n  OBVIOUS
<1>6. \A i \in 1 .. n : f[i] = f[i - 1] \o s[i]  BY <1>3, <1>4, <1>5 DEF Takes
<1> QED BY <1>4, <1>6 DEF Y, Takes

\* And that is what they are flattened to.
LEMMA ChainTaken ==
  ASSUME NEW X, NEW n \in Nat, NEW s, Links(s, n, X), NEW f, Chain(f, s, n, X),
         NEW m \in 1 .. n, NEW t, \A i \in 1 .. m : t[i] = s[i]
  PROVE  (CHOOSE g : Chained(t, m, g))[m] = f[m]
<1> USE DEF Links, Chain
<1> DEFINE h == [i \in 1 .. m |-> f[i]]
<1>1. Chained(t, m, h)
  <2>1. ASSUME NEW i \in 1 .. m PROVE h[i] = IF i = 1 THEN t[i] ELSE h[i - 1] \o t[i]
    <3>1. i \in 1 .. n /\ h[i] = f[i - 1] \o t[i]  OBVIOUS
    <3>2. CASE i = 1
      <4>1. s[i] \in Seq(X) /\ t[i] = s[i] /\ f[i - 1] = <<>>  BY <3>1, <3>2
      <4>2. <<>> \o s[i] = s[i]  BY <4>1
      <4> QED BY <3>1, <3>2, <4>1, <4>2
    <3>3. CASE i # 1
      <4>1. i - 1 \in 1 .. m  BY <3>3
      <4> QED BY <3>1, <3>3, <4>1
    <3> QED BY <3>2, <3>3
  <2>2. h = [i \in 1 .. m |-> h[i]]  OBVIOUS
  <2> HIDE DEF h
  <2> QED BY <2>1, <2>2 DEF Chained
<1> DEFINE g == CHOOSE c : Chained(t, m, c)
<1>2. Chained(t, m, g)  BY <1>1
<1> HIDE DEF g, h
<1>3. \A i \in 1 .. m : g[i] = IF i = 1 THEN t[i] ELSE g[i - 1] \o t[i]  BY <1>2 DEF Chained
<1> DEFINE S == {k \in 0 .. m - 1 : g[k + 1] = f[k + 1]}
<1>4. 0 \in S
  <2>1. 1 \in 1 .. m /\ 1 \in 1 .. n /\ 0 \in 0 .. m - 1 /\ 1 - 1 = 0 /\ 0 + 1 = 1  OBVIOUS
  <2>2. g[1] = s[1] /\ f[1] = <<>> \o s[1] /\ s[1] \in Seq(X)  BY <1>3, <2>1
  <2>3. <<>> \o s[1] = s[1]  BY <2>2
  <2> QED BY <2>1, <2>2, <2>3
<1>5. ASSUME NEW k \in 0 .. (m - 1) - 1, k \in S PROVE k + 1 \in S
  <2>1. k + 2 \in 1 .. m /\ k + 2 \in 1 .. n /\ k + 2 # 1 /\ (k + 2) - 1 = k + 1 /\ (k + 1) + 1 = k + 2
        /\ k + 1 \in 0 .. m - 1
    OBVIOUS
  <2>2. g[k + 2] = g[k + 1] \o s[k + 2] /\ f[k + 2] = f[k + 1] \o s[k + 2]  BY <1>3, <2>1
  <2> QED BY <1>5, <2>1, <2>2
<1>6. \A k \in 0 .. m - 1 : k \in S
  <2>1. m - 1 \in Nat  OBVIOUS
  <2> HIDE DEF S
  <2> QED BY <1>4, <1>5, <2>1, UpTo
<1>7. m - 1 \in S
  <2>1. m - 1 \in 0 .. m - 1  OBVIOUS
  <2> HIDE DEF S
  <2> QED BY <1>6, <2>1
<1>8. (m - 1) + 1 = m  OBVIOUS
<1> QED BY <1>7, <1>8 DEF g

\* What FlattenSeq takes of a sequence of sequences, and of its first k.
Flat(t) == IF Len(t) = 0 THEN t ELSE (CHOOSE g : Chained(t, Len(t), g))[Len(t)]
FlatFirst(s, k) == Flat([i \in 1 .. k |-> s[i]])

\* One more sequence is added at the end.
LEMMA FlatGrows ==
  ASSUME NEW X, NEW n \in Nat, NEW s, Links(s, n, X)
  PROVE  /\ FlatFirst(s, 0) = <<>>
         /\ \A k \in 0 .. n : FlatFirst(s, k) \in Seq(X)
         /\ \A k \in 0 .. n - 1 : FlatFirst(s, k + 1) = FlatFirst(s, k) \o s[k + 1]
<1>1. PICK f : Chain(f, s, n, X)  BY ChainExists
<1>2. FlatFirst(s, 0) = <<>>
  <2> DEFINE t == [i \in 1 .. 0 |-> s[i]]
  <2>1. t = <<>> /\ Len(t) = 0
    <3>1. 1 .. 0 = {}  OBVIOUS
    <3> QED BY <3>1
  <2> HIDE DEF t
  <2> QED BY <2>1 DEF FlatFirst, Flat, t
<1>3. ASSUME NEW k \in 1 .. n PROVE FlatFirst(s, k) = f[k]
  <2> DEFINE t == [i \in 1 .. k |-> s[i]]
  <2>1. Len(t) = k /\ k # 0 /\ \A i \in 1 .. k : t[i] = s[i]  OBVIOUS
  <2>2. (CHOOSE g : Chained(t, k, g))[k] = f[k]
    <3> HIDE DEF t
    <3> QED BY <1>1, <2>1, ChainTaken
  <2> HIDE DEF t
  <2> QED BY <2>1, <2>2 DEF FlatFirst, Flat, t
<1>4. \A k \in 0 .. n : FlatFirst(s, k) = f[k]  BY <1>1, <1>2, <1>3 DEF Chain
<1>5. \A k \in 0 .. n - 1 : k + 1 \in 1 .. n /\ k + 1 \in 0 .. n /\ k \in 0 .. n /\ (k + 1) - 1 = k  OBVIOUS
<1> QED BY <1>1, <1>2, <1>4, <1>5 DEF Chain

\* x occurs in a sequence.
Occurs(x, q) == \E i \in 1 .. Len(q) : q[i] = x

\* What occurs in a concatenation occurs in one part of it.
LEMMA ConcatHolds ==
  ASSUME NEW X, NEW a \in Seq(X), NEW b \in Seq(X), NEW x
  PROVE  Occurs(x, a \o b) <=> Occurs(x, a) \/ Occurs(x, b)
<1> DEFINE c == a \o b
<1>1. /\ Len(a) \in Nat /\ Len(b) \in Nat /\ Len(c) = Len(a) + Len(b)
      /\ \A i \in 1 .. Len(a) : c[i] = a[i]
      /\ \A i \in 1 .. Len(b) : c[Len(a) + i] = b[i]
  OBVIOUS
<1> HIDE DEF c
<1>2. ASSUME NEW i \in 1 .. Len(c), c[i] = x PROVE Occurs(x, a) \/ Occurs(x, b)
  <2>1. CASE i <= Len(a)
    <3>1. i \in 1 .. Len(a)  BY <1>1, <2>1
    <3> QED BY <3>1, <1>1, <1>2 DEF Occurs
  <2>2. CASE i > Len(a)
    <3> DEFINE j == i - Len(a)
    <3>1. j \in 1 .. Len(b) /\ Len(a) + j = i  BY <1>1, <2>2
    <3> HIDE DEF j
    <3>2. b[j] = x  BY <1>1, <1>2, <3>1
    <3> QED BY <3>1, <3>2 DEF Occurs
  <2> QED BY <2>1, <2>2, <1>1
<1>3. ASSUME NEW i \in 1 .. Len(a), a[i] = x PROVE Occurs(x, c)
  <2>1. i \in 1 .. Len(c)  BY <1>1
  <2> QED BY <2>1, <1>1, <1>3 DEF Occurs
<1>4. ASSUME NEW i \in 1 .. Len(b), b[i] = x PROVE Occurs(x, c)
  <2> DEFINE j == Len(a) + i
  <2>1. j \in 1 .. Len(c) /\ c[j] = x  BY <1>1, <1>4
  <2> HIDE DEF j
  <2> QED BY <2>1 DEF Occurs
<1>5. Occurs(x, c) <=> Occurs(x, a) \/ Occurs(x, b)  BY <1>2, <1>3, <1>4 DEF Occurs
<1> QED BY <1>5 DEF c

\* x occurs in one of the first n links.
InALink(x, s, n) == \E k \in 1 .. n : Occurs(x, s[k])

\* And what occurs in a chain occurs in a link.
LEMMA ChainHolds ==
  ASSUME NEW X, NEW n \in Nat, NEW s, Links(s, n, X), NEW f, Chain(f, s, n, X), NEW x
  PROVE  Occurs(x, f[n]) <=> InALink(x, s, n)
<1> DEFINE S == {m \in 0 .. n : Occurs(x, f[m]) <=> \E k \in 1 .. m : Occurs(x, s[k])}
<1>1. 0 \in S
  <2>1. f[0] = <<>> /\ 0 \in 0 .. n /\ Len(<<>>) = 0  BY DEF Chain
  <2>2. ~Occurs(x, f[0])  BY <2>1 DEF Occurs
  <2>3. ~\E k \in 1 .. 0 : Occurs(x, s[k])  OBVIOUS
  <2> QED BY <2>1, <2>2, <2>3
<1>2. ASSUME NEW m \in 0 .. n - 1, m \in S PROVE m + 1 \in S
  <2>1. m + 1 \in 1 .. n /\ m + 1 \in 0 .. n /\ (m + 1) - 1 = m /\ m \in 0 .. n  OBVIOUS
  <2>2. f[m + 1] = f[m] \o s[m + 1] /\ f[m] \in Seq(X) /\ s[m + 1] \in Seq(X)
    BY <2>1 DEF Chain, Links
  <2>3. Occurs(x, f[m + 1]) <=> Occurs(x, f[m]) \/ Occurs(x, s[m + 1])  BY <2>2, ConcatHolds
  <2>4. Occurs(x, f[m]) <=> \E k \in 1 .. m : Occurs(x, s[k])  BY <1>2
  <2>5. \A k : k \in 1 .. m + 1 <=> k \in 1 .. m \/ k = m + 1  OBVIOUS
  <2>6. Occurs(x, f[m + 1]) <=> \E k \in 1 .. m + 1 : Occurs(x, s[k])  BY <2>3, <2>4, <2>5
  <2> QED BY <2>1, <2>6
<1>3. \A m \in 0 .. n : m \in S
  <2> HIDE DEF S
  <2> QED BY <1>1, <1>2, UpTo
<1>4. n \in S
  <2>1. n \in 0 .. n  OBVIOUS
  <2> HIDE DEF S
  <2> QED BY <1>3, <2>1
<1> QED BY <1>4 DEF InALink
=============================================================================
