--------------------------- MODULE ProfileProofs ----------------------------
(***************************************************************************)
(* What keeps a profile sound: the levels a hunter climbs and falls        *)
(* (progression.py), the edits of one profile, its karma and its days; and *)
(* how sums over the hunters change with one of them.                      *)
(*                                                                         *)
(* Climb, Descend, Below and the sums are recursive functions: what they   *)
(* give is proved from their least counterexample (Recursion, SumIsReached)*)
(***************************************************************************)
EXTENDS Profile, Functions, FiniteSetTheorems, WellFoundedInduction, TLAPS

-----------------------------------------------------------------------------
(* Recursion on what decreases.                                             *)

(* A set of naturals that is not empty has a least element.                 *)
LEMMA LeastNatural ==
    ASSUME NEW T \in SUBSET Nat, T # {}
    PROVE  \E x \in T : \A y \in T : x <= y
<1>1. PICK x \in T : \A y \in T : ~(<<y, x>> \in OpToRel(<, Nat))
  BY NatLessThanWellFounded, WFMin
<1>2. \A y \in T : ~(y < x)
  BY <1>1 DEF OpToRel
<1> QED
  BY <1>2

(* A function defined by recursion over what a measure counts down exists.  *)
CountsDown(S, V, measure, stop, value, next, step) ==
    /\ measure \in [S -> Nat] /\ stop \in SUBSET S /\ value \in [S -> V]
    /\ \A s \in S \ stop : /\ next[s] \in S /\ measure[next[s]] < measure[s]
                           /\ \A v \in V : step[<<s, v>>] \in V

Solves(f, S, stop, value, next, step) ==
    \A s \in S : f[s] = IF s \in stop THEN value[s] ELSE step[<<s, f[next[s]]>>]

(* A definition by recursion that counts down has a solution.               *)
LEMMA Recursion ==
    ASSUME NEW S, NEW V, NEW measure, NEW stop, NEW value, NEW next, NEW step,
           CountsDown(S, V, measure, stop, value, next, step)
    PROVE  \E f \in [S -> V] : Solves(f, S, stop, value, next, step)
<1> USE DEF CountsDown
<1> DEFINE At(f, s) == IF s \in stop THEN value[s] ELSE step[<<s, f[next[s]]>>]
           Upto(f, k) == \A s \in S : measure[s] <= k => f[s] = At(f, s)
<1>0. \A f \in [S -> V] : \A s \in S : At(f, s) \in V
  OBVIOUS
<1>1. \A k \in Nat : \E f \in [S -> V] : Upto(f, k)
  <2> DEFINE Bad == {k \in Nat : ~\E f \in [S -> V] : Upto(f, k)}
  <2> SUFFICES ASSUME Bad # {} PROVE FALSE
    OBVIOUS
  <2>1. PICK k \in Bad : \A j \in Bad : k <= j
    BY LeastNatural
  <2>2. k # 0
    <3>1. \A s \in S : measure[s] <= 0 => s \in stop
      OBVIOUS
    <3>2. Upto(value, 0)
      BY <3>1
    <3> QED
      BY <2>1, <3>2
  <2>3. PICK f \in [S -> V] : Upto(f, k - 1)
    <3>1. k - 1 \in Nat /\ k - 1 < k /\ k - 1 \notin Bad
      BY <2>1, <2>2
    <3> QED
      BY <3>1
  <2> DEFINE g == [s \in S |-> IF measure[s] <= k - 1 THEN f[s] ELSE At(f, s)]
  <2>4. g \in [S -> V]
    BY <1>0
  <2>5. \A s \in S : measure[s] <= k => At(g, s) = At(f, s)
    <3> SUFFICES ASSUME NEW s \in S, measure[s] <= k, s \notin stop PROVE g[next[s]] = f[next[s]]
      OBVIOUS
    <3> QED
      BY <2>1
  <2>6. Upto(g, k)
    BY <2>1, <2>3, <2>5
  <2> QED
    BY <2>1, <2>4, <2>6
<1>2. ASSUME NEW f \in [S -> V], NEW g \in [S -> V], NEW k \in Nat, Upto(f, k), Upto(g, k)
      PROVE  \A s \in S : measure[s] <= k => f[s] = g[s]
  <2> DEFINE Bad == {s \in S : measure[s] <= k /\ f[s] # g[s]}
             Sizes == {measure[s] : s \in Bad}
  <2> SUFFICES ASSUME Bad # {} PROVE FALSE
    OBVIOUS
  <2>1. Sizes \in SUBSET Nat /\ Sizes # {}
    OBVIOUS
  <2>2. PICK m \in Sizes : \A j \in Sizes : m <= j
    BY <2>1, LeastNatural
  <2>3. PICK s \in Bad : m = measure[s]
    OBVIOUS
  <2>4. s \notin stop
    BY <1>2, <2>3
  <2>5. next[s] \in S /\ measure[next[s]] < measure[s]
    BY <2>4
  <2>6. next[s] \notin Bad
    <3> SUFFICES ASSUME next[s] \in Bad PROVE FALSE
      OBVIOUS
    <3>1. measure[next[s]] \in Sizes
      OBVIOUS
    <3>2. measure[s] <= measure[next[s]] /\ measure[s] \in Nat /\ measure[next[s]] \in Nat
      BY <2>2, <2>3, <2>5, <3>1
    <3> QED
      BY <2>5, <3>2
  <2>7. f[next[s]] = g[next[s]]
    BY <2>3, <2>5, <2>6
  <2>8. f[s] = At(f, s) /\ g[s] = At(g, s)
    BY <1>2, <2>3
  <2> QED
    BY <2>3, <2>4, <2>7, <2>8
<1>3. PICK F : F = [k \in Nat |-> CHOOSE f \in [S -> V] : Upto(f, k)]
  OBVIOUS
<1>4. \A k \in Nat : F[k] \in [S -> V] /\ Upto(F[k], k)
  BY <1>1, <1>3
<1>5. PICK h \in [S -> V] : \A s \in S : h[s] = F[measure[s]][s]
  <2>1. [s \in S |-> F[measure[s]][s]] \in [S -> V]
    BY <1>4
  <2> QED
    BY <2>1
<1>6. ASSUME NEW s \in S PROVE h[s] = At(h, s)
  <2>1. PICK m \in Nat : m = measure[s]
    OBVIOUS
  <2>2. h[s] = At(F[m], s)
    BY <1>4, <1>5, <2>1
  <2>3. CASE s \in stop
    BY <2>2, <2>3
  <2>4. CASE s \notin stop
    <3>1. PICK t \in S, l \in Nat : t = next[s] /\ l = measure[t] /\ l < m
      BY <2>1, <2>4
    <3>2. /\ F[m] \in [S -> V] /\ F[l] \in [S -> V]
          /\ Upto(F[m], l) /\ Upto(F[l], l)
      BY <1>4, <3>1
    <3>3. F[m][t] = F[l][t]
      <4> HIDE DEF Upto
      <4> QED
        BY <1>2, <3>1, <3>2
    <3>4. h[t] = F[l][t]
      BY <1>5, <3>1
    <3> QED
      BY <2>2, <2>4, <3>1, <3>3, <3>4
  <2> QED
    BY <2>3, <2>4
<1> QED
  BY <1>6 DEF Solves

-----------------------------------------------------------------------------
(* Sums over finite sets.                                                   *)

Pick(s) == CHOOSE x \in s : TRUE

(* The sum over a finite set, and how it is reached. *)
Adds(f, D, iter) ==
    \A s \in SUBSET D : iter[s] = IF s = {} THEN 0 ELSE f[Pick(s)] + iter[s \ {Pick(s)}]

(* The library's sum over a finite set is the last of a chain of partial    *)
(* sums.                                                                    *)
LEMMA SumIsReached ==
    ASSUME NEW D, IsFiniteSet(D), NEW f, \A x \in D : f[x] \in Int
    PROVE  \E iter : Adds(f, D, iter) /\ SumFunctionOnSet(f, D) = iter[D]
<1> DEFINE S == SUBSET D
           measure == [s \in S |-> Cardinality(s)]
           next == [s \in S |-> s \ {Pick(s)}]
           value == [s \in S |-> 0]
           stop == {{}}
           step == [p \in S \X Int |-> f[Pick(p[1])] + p[2]]
           body(iter) == [s \in S |-> IF s = {} THEN 0 ELSE f[Pick(s)] + iter[s \ {Pick(s)}]]
<1>1. measure \in [S -> Nat] /\ value \in [S -> Int] /\ stop \in SUBSET S
  BY FS_Subset, FS_CardinalityType
<1>2. \A s \in S \ stop : Pick(s) \in s
  BY DEF Pick
<1>3. \A s \in S \ stop : /\ next[s] \in S /\ measure[next[s]] < measure[s]
                          /\ \A v \in Int : step[<<s, v>>] \in Int
  <2> SUFFICES ASSUME NEW s \in S \ stop
               PROVE  /\ next[s] \in S /\ measure[next[s]] < measure[s]
                      /\ \A v \in Int : step[<<s, v>>] \in Int
    OBVIOUS
  <2>1. IsFiniteSet(s) /\ Pick(s) \in s /\ Cardinality(s) \in Nat
    BY <1>2, FS_Subset, FS_CardinalityType
  <2>2. \A x \in s : Cardinality(s \ {x}) = Cardinality(s) - 1
    BY <2>1, FS_RemoveElement
  <2> QED
    BY <2>1, <2>2
<1>4. PICK it \in [S -> Int] : Solves(it, S, stop, value, next, step)
  <2>1. CountsDown(S, Int, measure, stop, value, next, step)
    BY <1>1, <1>3 DEF CountsDown
  <2> HIDE DEF S, stop, measure, next, value, step
  <2> QED
    BY <2>1, Recursion
<1>5. it = body(it)
  <2>1. \A s \in S : it[s] = body(it)[s]
    <3> SUFFICES ASSUME NEW s \in S PROVE it[s] = body(it)[s]
      OBVIOUS
    <3>1. next[s] = s \ {Pick(s)} /\ next[s] \in S
      OBVIOUS
    <3>2. it[next[s]] \in Int
      BY <3>1
    <3> QED
      BY <1>4, <3>1, <3>2 DEF Solves
  <2> QED
    BY <2>1
<1> DEFINE iter == CHOOSE i : i = body(i)
<1>6. iter = body(iter)
  BY <1>5
<1>7. SumFunctionOnSet(f, D) = iter[D]
  BY DEF SumFunctionOnSet, FoldFunctionOnSet, MapThenFoldSet, Pick
<1> HIDE DEF iter
<1>8. Adds(f, D, iter)
  BY <1>6 DEF Adds
<1> QED
  BY <1>6, <1>7, <1>8

(* A smallest one of some finite sets. *)
LEMMA SmallestSet ==
    ASSUME NEW D, IsFiniteSet(D), NEW B \in SUBSET (SUBSET D), B # {}
    PROVE  \E s \in B : \A t \in SUBSET s : t # s => t \notin B
<1> DEFINE Sizes == {Cardinality(s) : s \in B}
<1>1. \A s \in SUBSET D : IsFiniteSet(s) /\ Cardinality(s) \in Nat
  BY FS_Subset, FS_CardinalityType
<1>2. Sizes \in SUBSET Nat /\ Sizes # {}
  BY <1>1
<1>3. PICK n \in Sizes : \A m \in Sizes : n <= m
  BY <1>2, LeastNatural
<1>4. PICK s \in B : n = Cardinality(s)
  OBVIOUS
<1>5. ASSUME NEW t \in SUBSET s, t # s PROVE t \notin B
  <2>1. Cardinality(t) <= Cardinality(s) /\ Cardinality(t) # Cardinality(s)
    BY <1>1, <1>5, FS_Subset
  <2>2. Cardinality(t) \notin Sizes
    BY <1>1, <1>3, <1>4, <2>1
  <2> QED
    BY <2>2
<1> QED
  BY <1>5

(* Two chains agree on every subset on which the summands do.               *)
LEMMA Agreement ==
    ASSUME NEW D, IsFiniteSet(D), NEW E \in SUBSET D, NEW f, NEW g, \A x \in E : f[x] = g[x],
           NEW i, NEW j, Adds(f, D, i), Adds(g, E, j)
    PROVE  i[E] = j[E]
<1> DEFINE Bad == {s \in SUBSET E : i[s] # j[s]}
<1> SUFFICES ASSUME Bad # {} PROVE FALSE
  OBVIOUS
<1>1. PICK s \in Bad : \A t \in SUBSET s : t # s => t \notin Bad
  <2>1. Bad \in SUBSET (SUBSET D)
    OBVIOUS
  <2> HIDE DEF Bad
  <2> QED
    BY <2>1, SmallestSet
<1>2. /\ i[s] = IF s = {} THEN 0 ELSE f[Pick(s)] + i[s \ {Pick(s)}]
      /\ j[s] = IF s = {} THEN 0 ELSE g[Pick(s)] + j[s \ {Pick(s)}]
  BY DEF Adds
<1>3. s # {} /\ Pick(s) \in s
  BY <1>2 DEF Pick
<1>4. i[s \ {Pick(s)}] = j[s \ {Pick(s)}]
  BY <1>1, <1>3
<1> QED
  BY <1>2, <1>3, <1>4

(* Equal summands have equal sums.                                          *)
LEMMA SumEqual ==
    ASSUME NEW D, IsFiniteSet(D), NEW f, NEW g, \A x \in D : f[x] \in Int /\ f[x] = g[x]
    PROVE  SumFunctionOnSet(f, D) = SumFunctionOnSet(g, D)
<1>1. \A x \in D : f[x] \in Int /\ g[x] \in Int
  OBVIOUS
<1>2. PICK i : Adds(f, D, i) /\ SumFunctionOnSet(f, D) = i[D]
  BY <1>1, SumIsReached
<1>3. PICK j : Adds(g, D, j) /\ SumFunctionOnSet(g, D) = j[D]
  BY <1>1, SumIsReached
<1> QED
  BY <1>2, <1>3, Agreement

(* The sum over nothing is 0.                                               *)
LEMMA SumEmpty == ASSUME NEW f PROVE SumFunctionOnSet(f, {}) = 0
<1>1. PICK i : Adds(f, {}, i) /\ SumFunctionOnSet(f, {}) = i[{}]
  BY SumIsReached, FS_EmptySet
<1> QED
  BY <1>1 DEF Adds

(* The sum over a set is one summand and the sum over the rest.             *)
LEMMA SumStep ==
    ASSUME NEW D, IsFiniteSet(D), D # {}, NEW f, \A x \in D : f[x] \in Int
    PROVE  /\ Pick(D) \in D
           /\ SumFunctionOnSet(f, D) = f[Pick(D)] + SumFunctionOnSet(f, D \ {Pick(D)})
<1>1. Pick(D) \in D
  BY DEF Pick
<1>2. PICK i : Adds(f, D, i) /\ SumFunctionOnSet(f, D) = i[D]
  BY SumIsReached
<1> DEFINE E == D \ {Pick(D)}
<1>3. IsFiniteSet(E) /\ E \in SUBSET D
  BY FS_RemoveElement
<1>4. PICK j : Adds(f, E, j) /\ SumFunctionOnSet(f, E) = j[E]
  BY <1>3, SumIsReached
<1>5. i[E] = j[E]
  <2> HIDE DEF E
  <2> QED
    BY <1>2, <1>3, <1>4, Agreement
<1> QED
  BY <1>1, <1>2, <1>4, <1>5 DEF Adds

(* A sum of integers is an integer.                                         *)
LEMMA SumInt ==
    ASSUME NEW D, IsFiniteSet(D), NEW f, \A x \in D : f[x] \in Int
    PROVE  SumFunctionOnSet(f, D) \in Int
<1> DEFINE Bad == {s \in SUBSET D : SumFunctionOnSet(f, s) \notin Int}
<1> SUFFICES ASSUME Bad # {} PROVE FALSE
  OBVIOUS
<1>1. PICK s \in Bad : \A t \in SUBSET s : t # s => t \notin Bad
  <2>1. Bad \in SUBSET (SUBSET D)
    OBVIOUS
  <2> HIDE DEF Bad
  <2> QED
    BY <2>1, SmallestSet
<1>2. IsFiniteSet(s) /\ s # {}
  <2>1. s \in SUBSET D /\ SumFunctionOnSet(f, s) \notin Int
    OBVIOUS
  <2>2. IsFiniteSet(s)
    BY <2>1, FS_Subset
  <2> QED
    BY <2>1, <2>2, SumEmpty
<1>3. /\ Pick(s) \in s
      /\ SumFunctionOnSet(f, s) = f[Pick(s)] + SumFunctionOnSet(f, s \ {Pick(s)})
  BY <1>2, SumStep
<1>4. s \ {Pick(s)} \notin Bad
  BY <1>1, <1>3
<1> QED
  BY <1>3, <1>4

(* Any element may be taken out first. *)
LEMMA SumRemove ==
    ASSUME NEW D, IsFiniteSet(D), NEW f, \A x \in D : f[x] \in Int, NEW a \in D
    PROVE  SumFunctionOnSet(f, D) = f[a] + SumFunctionOnSet(f, D \ {a})
<1> DEFINE Total(s) == SumFunctionOnSet(f, s)
           Bad == {s \in SUBSET D : \E x \in s : Total(s) # f[x] + Total(s \ {x})}
<1> SUFFICES ASSUME Bad # {} PROVE FALSE
  OBVIOUS
<1>0. \A s \in SUBSET D : IsFiniteSet(s) /\ Total(s) \in Int
  BY FS_Subset, SumInt
<1>1. PICK s \in Bad : \A t \in SUBSET s : t # s => t \notin Bad
  <2>1. Bad \in SUBSET (SUBSET D)
    OBVIOUS
  <2> HIDE DEF Bad
  <2> QED
    BY <2>1, SmallestSet
<1>2. PICK x \in s : Total(s) # f[x] + Total(s \ {x})
  OBVIOUS
<1>3. PICK y \in s : Total(s) = f[y] + Total(s \ {y})
  BY <1>0, SumStep
<1>4. x # y
  BY <1>2, <1>3
<1> HIDE DEF Total
<1>5. Total(s \ {y}) = f[x] + Total((s \ {y}) \ {x})
  BY <1>1, <1>4
<1>6. Total(s \ {x}) = f[y] + Total((s \ {x}) \ {y})
  BY <1>1, <1>4
<1>7. (s \ {y}) \ {x} = (s \ {x}) \ {y}
  OBVIOUS
<1>8. f[x] \in Int /\ f[y] \in Int /\ Total((s \ {x}) \ {y}) \in Int
  BY <1>0
<1>9. Total((s \ {y}) \ {x}) = Total((s \ {x}) \ {y})
  BY <1>7
<1> QED
  BY <1>2, <1>3, <1>5, <1>6, <1>8, <1>9

(* Two functions that differ at one place. *)
LEMMA SumChange ==
    ASSUME NEW D, IsFiniteSet(D), NEW f, NEW g, NEW a \in D,
           \A x \in D : f[x] \in Int /\ g[x] \in Int, \A x \in D \ {a} : f[x] = g[x]
    PROVE  SumFunctionOnSet(g, D) = SumFunctionOnSet(f, D) + g[a] - f[a]
<1>1. IsFiniteSet(D \ {a})
  BY FS_RemoveElement
<1>2. SumFunctionOnSet(f, D \ {a}) = SumFunctionOnSet(g, D \ {a})
  BY <1>1, SumEqual
<1>3. SumFunctionOnSet(f, D \ {a}) \in Int
  BY <1>1, SumInt
<1>4. /\ SumFunctionOnSet(f, D) = f[a] + SumFunctionOnSet(f, D \ {a})
      /\ SumFunctionOnSet(g, D) = g[a] + SumFunctionOnSet(g, D \ {a})
  BY SumRemove
<1> QED
  BY <1>2, <1>3, <1>4

-----------------------------------------------------------------------------
(* Levels.                                                                  *)

(* What one level takes. *)
LEMMA RequiredType == \A level \in Nat : Required(level) \in Nat \ {0}
<1> SUFFICES ASSUME NEW level \in Nat PROVE Required(level) \in Nat \ {0}
  OBVIOUS
<1> DEFINE times == CASE level <= 60 -> 10 [] level \in 61..69 -> 20 [] level \in 70..79 -> 30
                      [] OTHER -> 40 + 10 * ((level - 80) \div 10)
<1>1. times \in Nat \ {0}
  <2>1. CASE level <= 60 \/ level \in 61..69 \/ level \in 70..79
    BY <2>1
  <2>2. CASE ~(level <= 60 \/ level \in 61..69 \/ level \in 70..79)
    <3>1. (level - 80) \div 10 \in Nat
      BY <2>2
    <3>2. times = 40 + 10 * ((level - 80) \div 10)
      BY <2>2
    <3> HIDE DEF times
    <3> QED
      BY <3>1, <3>2
  <2> QED
    BY <2>1, <2>2
<1>2. Required(level) = (level + 1) * times
  BY DEF Required
<1> HIDE DEF times
<1>3. \A a, b \in Nat \ {0} : a * b \in Nat \ {0}
  OBVIOUS
<1>4. level + 1 \in Nat \ {0}
  OBVIOUS
<1> QED
  BY <1>1, <1>2, <1>3, <1>4

(* The experience below a level, level by level.                            *)
LEMMA BelowEquation ==
    /\ Below \in [Nat -> Nat] /\ Below[0] = 0 /\ Below[1] = 0
    /\ \A level \in Nat \ {0} : Below[level + 1] = Below[level] + Required(level)
<1> DEFINE S == Nat
           measure == [level \in S |-> level]
           next == [level \in S |-> level - 1]
           value == [level \in S |-> 0]
           stop == {0, 1}
           step == [p \in S \X Nat |-> p[2] + Required(p[1] - 1)]
           body(f) == [level \in Nat |->
                          IF level <= 1 THEN 0 ELSE f[level - 1] + Required(level - 1)]
<1>1. CountsDown(S, Nat, measure, stop, value, next, step)
  BY RequiredType DEF CountsDown
<1>2. PICK f \in [S -> Nat] : Solves(f, S, stop, value, next, step)
  <2> HIDE DEF S, stop, measure, next, value, step
  <2> QED
    BY <1>1, Recursion
<1>3. f = body(f)
  <2>1. ASSUME NEW level \in Nat PROVE f[level] = body(f)[level]
    <3>1. CASE level \in stop
      <4>1. f[level] = value[level]
        BY <1>2, <3>1 DEF Solves
      <4> QED
        BY <3>1, <4>1
    <3>2. CASE level \notin stop
      <4>1. level > 1 /\ next[level] = level - 1 /\ level - 1 \in Nat /\ f[level - 1] \in Nat
        BY <3>2
      <4>2. f[level] = step[<<level, f[next[level]]>>]
        BY <1>2, <3>2 DEF Solves
      <4>3. <<level, f[level - 1]>> \in S \X Nat
        BY <4>1
      <4>4. step[<<level, f[level - 1]>>] = f[level - 1] + Required(level - 1)
        BY <4>3
      <4> QED
        BY <4>1, <4>2, <4>4
    <3> QED
      BY <3>1, <3>2
  <2> QED
    BY <2>1
<1>4. Below = body(Below)
  BY <1>3 DEF Below
<1> HIDE DEF body
<1>5. \A level \in Nat \ {0} : Below[level + 1] = Below[level] + Required(level)
  BY <1>4 DEF body
<1>6. \A level \in Nat : Below[level] = f[level]
  <2> DEFINE Bad == {level \in Nat : Below[level] # f[level]}
  <2> SUFFICES ASSUME Bad # {} PROVE FALSE
    OBVIOUS
  <2>1. PICK level \in Bad : \A l \in Bad : level <= l
    BY LeastNatural
  <2>2. level > 1
    BY <1>3, <1>4, <2>1 DEF body
  <2>3. level - 1 \in Nat /\ level - 1 \notin Bad
    BY <2>1, <2>2
  <2> QED
    BY <1>3, <1>4, <2>1, <2>2, <2>3 DEF body
<1>7. Below \in [Nat -> Nat]
  <2>1. \A level \in Nat : Below[level] \in Nat
    BY <1>6
  <2> QED
    BY <1>4, <2>1 DEF body
<1>8. Below[0] = 0 /\ Below[1] = 0
  BY <1>4 DEF body
<1> QED
  BY <1>5, <1>7, <1>8

(* Where overflow is carried to. *)
LEMMA ClimbEquation ==
    \A at \in Nat \X Nat :
       Climb[at] = IF at[2] < Required(at[1]) THEN at
                   ELSE Climb[<<at[1] + 1, at[2] - Required(at[1])>>]
<1> DEFINE S == Nat \X Nat
           measure == [at \in S |-> at[2]]
           next == [at \in S |-> <<at[1] + 1, at[2] - Required(at[1])>>]
           value == [at \in S |-> at]
           stop == {at \in S : at[2] < Required(at[1])}
           step == [p \in S \X S |-> p[2]]
           body(f) == [at \in Nat \X Nat |->
                          IF at[2] < Required(at[1]) THEN at
                          ELSE f[<<at[1] + 1, at[2] - Required(at[1])>>]]
<1>0. \A at \in S : at[1] \in Nat /\ at[2] \in Nat
  OBVIOUS
<1>1. CountsDown(S, S, measure, stop, value, next, step)
  <2>1. measure \in [S -> Nat] /\ stop \in SUBSET S /\ value \in [S -> S]
    OBVIOUS
  <2>2. ASSUME NEW s \in S \ stop
        PROVE  next[s] \in S /\ measure[next[s]] < measure[s] /\ \A v \in S : step[<<s, v>>] \in S
    <3>1. s[1] \in Nat /\ s[2] \in Nat /\ Required(s[1]) \in Nat \ {0} /\ ~(s[2] < Required(s[1]))
      BY RequiredType
    <3>2. next[s] = <<s[1] + 1, s[2] - Required(s[1])>> /\ next[s] \in S
      BY <3>1
    <3>3. measure[next[s]] < measure[s]
      BY <3>1, <3>2
    <3> QED
      BY <3>2, <3>3
  <2> QED
    BY <2>1, <2>2 DEF CountsDown
<1>2. PICK f \in [S -> S] : Solves(f, S, stop, value, next, step)
  <2> HIDE DEF S, stop, measure, next, value, step
  <2> QED
    BY <1>1, Recursion
<1>3. f = body(f)
  <2>1. ASSUME NEW at \in S PROVE f[at] = body(f)[at]
    <3>1. CASE at \in stop
      BY <1>2, <3>1 DEF Solves
    <3>2. CASE at \notin stop
      <4>1. next[at] \in S
        BY <1>1, <3>2 DEF CountsDown
      <4>2. f[next[at]] \in S
        BY <4>1
      <4>3. f[at] = step[<<at, f[next[at]]>>]
        BY <1>2, <3>2 DEF Solves
      <4> QED
        BY <3>2, <4>2, <4>3
    <3> QED
      BY <3>1, <3>2
  <2> QED
    BY <2>1
<1>4. Climb = body(Climb)
  BY <1>3 DEF Climb
<1> QED
  BY <1>4

(* A hunter keeps what it has, and a level is left behind when it is full.  *)
LEMMA ClimbReaches ==
    ASSUME NEW at \in Nat \X Nat, at[1] >= 1
    PROVE  /\ Climb[at] \in Nat \X Nat /\ Climb[at][1] >= at[1]
           /\ Climb[at][2] < Required(Climb[at][1])
           /\ Climb[at][2] + Below[Climb[at][1]] = at[2] + Below[at[1]]
<1> DEFINE Reaches(s) == /\ Climb[s] \in Nat \X Nat /\ Climb[s][1] >= s[1]
                         /\ Climb[s][2] < Required(Climb[s][1])
                         /\ Climb[s][2] + Below[Climb[s][1]] = s[2] + Below[s[1]]
           Bad == {e \in Nat : \E level \in Nat \ {0} : ~Reaches(<<level, e>>)}
<1>1. Bad = {}
  <2> SUFFICES ASSUME Bad # {} PROVE FALSE
    OBVIOUS
  <2>1. PICK e \in Bad : \A x \in Bad : e <= x
    <3>1. Bad \in SUBSET Nat
      OBVIOUS
    <3> HIDE DEF Bad
    <3> QED
      BY <3>1, LeastNatural
  <2>e. e \in Nat
    OBVIOUS
  <2>2. PICK level \in Nat \ {0} : ~Reaches(<<level, e>>)
    BY <2>1
  <2> DEFINE need == Required(level)
             s == <<level, e>>
             t == <<level + 1, e - need>>
  <2>3. need \in Nat \ {0} /\ Below[level] \in Nat /\ Below[level + 1] = Below[level] + need
    BY <2>2, RequiredType, BelowEquation
  <2>4. CASE e < need
    <3>1. Climb[s] = s
      BY <2>4, ClimbEquation
    <3> QED
      BY <2>2, <2>4, <3>1
  <2>5. CASE ~(e < need)
    <3>1. t \in Nat \X Nat /\ Climb[s] = Climb[t]
      BY <2>3, <2>5, ClimbEquation
    <3>2. e - need \in Nat /\ e - need < e
      BY <2>e, <2>3, <2>5
    <3>3. e - need \notin Bad
      <4>1. ~(e <= e - need)
        BY <2>e, <2>3, <3>2
      <4> HIDE DEF Bad, need
      <4> QED
        BY <2>1, <4>1
    <3>4. Reaches(t)
      BY <3>2, <3>3
    <3>5. /\ Climb[s] \in Nat \X Nat /\ Climb[s][1] >= level + 1
          /\ Climb[s][2] < Required(Climb[s][1])
          /\ Climb[s][2] + Below[Climb[s][1]] = e - need + Below[level + 1]
      BY <3>1, <3>4
    <3>6. Climb[s][1] \in Nat /\ Climb[s][2] \in Nat /\ Below[Climb[s][1]] \in Nat
      BY <3>5, BelowEquation
    <3> HIDE DEF need
    <3>7. Reaches(s)
      BY <2>3, <3>5, <3>6
    <3> QED
      BY <2>2, <3>7
  <2> QED
    BY <2>4, <2>5
<1>2. at[1] \in Nat \ {0} /\ at[2] \in Nat /\ at = <<at[1], at[2]>>
  OBVIOUS
<1>3. at[2] \notin Bad
  BY <1>1
<1>4. Reaches(<<at[1], at[2]>>)
  BY <1>2, <1>3
<1> QED
  BY <1>2, <1>4

(* Where debt is carried to. *)
LEMMA DescendEquation ==
    \A at \in Nat \X Int :
       Descend[at] = IF at[2] >= 0 \/ at[1] = 0 THEN at
                     ELSE Descend[<<at[1] - 1, at[2] + Required(at[1] - 1)>>]
<1> DEFINE S == Nat \X Int
           measure == [at \in S |-> at[1]]
           next == [at \in S |-> <<at[1] - 1, at[2] + Required(at[1] - 1)>>]
           value == [at \in S |-> at]
           stop == {at \in S : at[2] >= 0 \/ at[1] = 0}
           step == [p \in S \X S |-> p[2]]
           body(f) == [at \in Nat \X Int |->
                          IF at[2] >= 0 \/ at[1] = 0 THEN at
                          ELSE f[<<at[1] - 1, at[2] + Required(at[1] - 1)>>]]
<1>0. \A at \in S : at[1] \in Nat /\ at[2] \in Int
  OBVIOUS
<1>1. CountsDown(S, S, measure, stop, value, next, step)
  <2>1. measure \in [S -> Nat] /\ stop \in SUBSET S /\ value \in [S -> S]
    OBVIOUS
  <2>2. ASSUME NEW s \in S \ stop
        PROVE  next[s] \in S /\ measure[next[s]] < measure[s] /\ \A v \in S : step[<<s, v>>] \in S
    <3>1. s[1] \in Nat \ {0} /\ s[2] \in Int
      OBVIOUS
    <3>2. s[1] - 1 \in Nat /\ Required(s[1] - 1) \in Nat
      BY <3>1, RequiredType
    <3>3. next[s] = <<s[1] - 1, s[2] + Required(s[1] - 1)>> /\ next[s] \in S
      BY <3>1, <3>2
    <3>4. measure[next[s]] < measure[s]
      BY <3>1, <3>3
    <3> QED
      BY <3>3, <3>4
  <2> QED
    BY <2>1, <2>2 DEF CountsDown
<1>2. PICK f \in [S -> S] : Solves(f, S, stop, value, next, step)
  <2> HIDE DEF S, stop, measure, next, value, step
  <2> QED
    BY <1>1, Recursion
<1>3. f = body(f)
  <2>1. ASSUME NEW at \in S PROVE f[at] = body(f)[at]
    <3>1. CASE at \in stop
      BY <1>2, <3>1 DEF Solves
    <3>2. CASE at \notin stop
      <4>1. next[at] \in S
        BY <1>1, <3>2 DEF CountsDown
      <4>2. f[next[at]] \in S
        BY <4>1
      <4>3. f[at] = step[<<at, f[next[at]]>>]
        BY <1>2, <3>2 DEF Solves
      <4> QED
        BY <3>2, <4>2, <4>3
    <3> QED
      BY <3>1, <3>2
  <2> QED
    BY <2>1
<1>4. Descend = body(Descend)
  BY <1>3 DEF Descend
<1> QED
  BY <1>4

(* A debt that the levels below can pay is paid, and costs a level. *)
LEMMA DescendReaches ==
    ASSUME NEW at \in Nat \X Int, at[1] >= 1, at[2] < Required(at[1]), at[2] + Below[at[1]] >= 0
    PROVE  /\ Descend[at] \in Nat \X Nat /\ Descend[at][1] \in 1..at[1]
           /\ Descend[at][2] < Required(Descend[at][1])
           /\ Descend[at][2] + Below[Descend[at][1]] = at[2] + Below[at[1]]
           /\ at[2] >= 0 => Descend[at] = at
           /\ at[2] < 0 => Descend[at][1] < at[1]
<1> DEFINE Pays(s) == /\ Descend[s] \in Nat \X Nat /\ Descend[s][1] \in 1..s[1]
                      /\ Descend[s][2] < Required(Descend[s][1])
                      /\ Descend[s][2] + Below[Descend[s][1]] = s[2] + Below[s[1]]
                      /\ s[2] >= 0 => Descend[s] = s
                      /\ s[2] < 0 => Descend[s][1] < s[1]
           Solvent(s) == s[2] < Required(s[1]) /\ s[2] + Below[s[1]] >= 0
           Bad == {level \in Nat \ {0} : \E e \in Int : Solvent(<<level, e>>) /\ ~Pays(<<level, e>>)}
<1>1. Bad = {}
  <2> SUFFICES ASSUME Bad # {} PROVE FALSE
    OBVIOUS
  <2>1. PICK level \in Bad : \A x \in Bad : level <= x
    <3>1. Bad \in SUBSET Nat
      OBVIOUS
    <3> HIDE DEF Bad
    <3> QED
      BY <3>1, LeastNatural
  <2>2. PICK e \in Int : Solvent(<<level, e>>) /\ ~Pays(<<level, e>>)
    BY <2>1
  <2> DEFINE s == <<level, e>>
  <2>3. CASE e >= 0
    <3>1. Descend[s] = s
      BY <2>3, DescendEquation
    <3> QED
      BY <2>2, <2>3, <3>1
  <2>4. CASE ~(e >= 0)
    <3>1. PICK l \in Nat \ {0} : level = l + 1
      <4>1. level # 1
        BY <2>2, <2>4, BelowEquation
      <4>2. level - 1 \in Nat \ {0} /\ level = level - 1 + 1
        BY <4>1
      <4> QED
        BY <4>2
    <3>2. PICK need \in Nat \ {0} : need = Required(l)
      BY RequiredType
    <3> DEFINE t == <<l, e + need>>
    <3>3. /\ Below[l] \in Nat /\ Below[level] = Below[l] + need
      BY <3>1, <3>2, BelowEquation
    <3>4. Descend[s] = Descend[t]
      BY <2>4, <3>1, <3>2, DescendEquation
    <3>5. Solvent(t)
      BY <2>2, <2>4, <3>1, <3>2, <3>3
    <3>6. l \notin Bad
      <4>1. ~(level <= l)
        BY <3>1
      <4> HIDE DEF Bad
      <4> QED
        BY <2>1, <4>1
    <3>7. Pays(t)
      BY <3>5, <3>6
    <3>8. /\ Descend[s] \in Nat \X Nat /\ Descend[s][1] \in 1..l
          /\ Descend[s][2] < Required(Descend[s][1])
          /\ Descend[s][2] + Below[Descend[s][1]] = e + need + Below[l]
      BY <3>4, <3>7
    <3>9. Below[Descend[s][1]] \in Nat /\ Descend[s][2] \in Nat
      BY <3>8, BelowEquation
    <3>10. Pays(s)
      BY <2>4, <3>1, <3>3, <3>8, <3>9
    <3> QED
      BY <2>2, <3>10
  <2> QED
    BY <2>3, <2>4
<1>2. at[1] \in Nat \ {0} /\ at[2] \in Int /\ at = <<at[1], at[2]>>
  OBVIOUS
<1>3. at[1] \notin Bad
  BY <1>1
<1>4. Solvent(<<at[1], at[2]>>)
  BY <1>2
<1>5. Pays(<<at[1], at[2]>>)
  BY <1>2, <1>3, <1>4
<1> QED
  BY <1>2, <1>5

-----------------------------------------------------------------------------
(* Profiles, and the edits that keep them sound.                            *)

(* A hunter as the game holds it at the time t. *)
SoundPlayer(p, t) == p \in PlayerState /\ ValidPlayer(p) /\ OfToday(p, t)

(* The same, by what it is about: the weapon, the level, the rest. *)
SoundWeapon(p) == p.capacity >= 1 /\ p.ammo <= p.capacity /\ p.magazines <= p.magazineCapacity
SoundLevel(p) == p.level >= 1 /\ p.experience < Required(p.level)
SoundRest(p, t) ==
    /\ p.permanent => p.confiscated
    /\ MinFatigue <= p.fatigue /\ p.fatigue <= MaxFatigue
    /\ MinKarma <= p.karma /\ p.karma <= MaxKarma
    /\ p.karma = 0 <=> p.decays = Never
    /\ OfToday(p, t)

(* The bounds of the fatigue and the karma.                                 *)
LEMMA BoundsAreIntegers ==
    /\ MinFatigue \in Int /\ MaxFatigue \in Int /\ MinFatigue <= 0 /\ 0 <= MaxFatigue
    /\ MinKarma \in Int /\ MaxKarma \in Int /\ MinKarma <= 0 /\ 0 <= MaxKarma
BY DEF MinFatigue, MaxFatigue, MinKarma, MaxKarma

(* A sound profile is one whose parts are sound.                            *)
LEMMA SoundParts ==
    ASSUME NEW t, NEW p \in PlayerState
    PROVE  SoundPlayer(p, t) <=> SoundWeapon(p) /\ SoundLevel(p) /\ SoundRest(p, t)
<1>1. /\ p.ammo \in Nat /\ p.capacity \in Nat /\ p.magazines \in Nat /\ p.magazineCapacity \in Nat
      /\ p.level \in Nat /\ p.experience \in Nat /\ p.karma \in Int /\ p.fatigue \in Int
      /\ p.credit \in Nat /\ p.spent \in Nat /\ p.carried \in Nat /\ p.hits \in Nat
      /\ p.letters \subseteq Letters /\ p.permanent \in BOOLEAN
  BY DEF PlayerState
<1>2. Required(p.level) \in Nat
  BY <1>1, RequiredType
<1>3. ValidPlayer(p) <=> /\ SoundWeapon(p) /\ SoundLevel(p)
                         /\ p.permanent => p.confiscated
                         /\ MinFatigue <= p.fatigue /\ p.fatigue <= MaxFatigue
                         /\ MinKarma <= p.karma /\ p.karma <= MaxKarma
                         /\ p.karma = 0 <=> p.decays = Never
  <2>1. {p.credit, p.spent, p.carried, p.hits} \subseteq Nat
    BY <1>1
  <2>2. p.fatigue \in MinFatigue..MaxFatigue <=> MinFatigue <= p.fatigue /\ p.fatigue <= MaxFatigue
    BY <1>1, BoundsAreIntegers
  <2>3. p.karma \in MinKarma..MaxKarma <=> MinKarma <= p.karma /\ p.karma <= MaxKarma
    BY <1>1, BoundsAreIntegers
  <2>4. p.capacity >= 1 /\ p.ammo \in 0..p.capacity /\ p.magazines \in 0..p.magazineCapacity
        <=> SoundWeapon(p)
    BY <1>1 DEF SoundWeapon
  <2>5. p.level >= 1 /\ p.experience \in 0..Required(p.level)-1 <=> SoundLevel(p)
    BY <1>1, <1>2 DEF SoundLevel
  <2> QED
    BY <1>1, <2>1, <2>2, <2>3, <2>4, <2>5, Zenon DEF ValidPlayer
<1> QED
  BY <1>3 DEF SoundPlayer, SoundRest

(* What a hunter may become without touching the effects. *)
Balances(p, q) == Balanced(p) => Balanced(q)
Follows(p, q, t) ==
    /\ SoundPlayer(q, t) /\ (WeaponFits(p) => WeaponFits(q)) /\ Balances(p, q)
    /\ q.upgrades = p.upgrades

(* Levels and the weapon may differ, and nothing else. *)
LevelledOnly(p, q) ==
    /\ q.spent = p.spent /\ q.credit = p.credit /\ q.jammed = p.jammed
    /\ q.confiscated = p.confiscated /\ q.permanent = p.permanent
    /\ q.hits = p.hits /\ q.shots = p.shots /\ q.caused = p.caused
    /\ q.received = p.received /\ q.survived = p.survived /\ q.deaths = p.deaths
    /\ q.fatigue = p.fatigue /\ q.karma = p.karma /\ q.decays = p.decays
    /\ q.carried = p.carried /\ q.day = p.day
    /\ q.upgrades = p.upgrades /\ q.letters = p.letters

(* Rounds and magazines of the levels.                                      *)
LEMMA LevelTables ==
    \A l \in Nat : AmmoOf(l) \in 1..6 /\ MagazinesOf(l) \in 2..6
BY DEF AmmoOf, MagazinesOf

(* A higher level never holds more rounds.                                  *)
LEMMA AmmoFalls ==
    \A k, l \in Nat : k <= l => AmmoOf(l) <= AmmoOf(k)
BY DEF AmmoOf

(* The weapon follows the level, and nothing else of the profile changes.   *)
LEMMA AtLevelFollows ==
    ASSUME NEW t \in Nat, NEW p, SoundPlayer(p, t),
           NEW level \in Nat \ {0}, NEW e \in Nat, e < Required(level)
    PROVE  LET q == AtLevel(p, level, e)
           IN  /\ Follows(p, q, t) /\ LevelledOnly(p, q)
               /\ q.level = level /\ q.experience = e
<1> DEFINE q == AtLevel(p, level, e)
           most == AmmoOf(level) + Most(0, p.capacity - AmmoOf(p.level))
           extra == MagazinesOf(level) + Most(0, p.magazineCapacity - MagazinesOf(p.level))
<1>1. p \in PlayerState /\ Required(level) \in Nat
  BY RequiredType DEF SoundPlayer
<1>2. /\ p.level \in Nat /\ p.capacity \in Nat /\ p.magazineCapacity \in Nat
      /\ p.ammo \in Nat /\ p.magazines \in Nat
  BY <1>1 DEF PlayerState
<1>3. /\ AmmoOf(level) \in 1..6 /\ AmmoOf(p.level) \in 1..6
      /\ MagazinesOf(level) \in 2..6 /\ MagazinesOf(p.level) \in 2..6
  BY <1>2, LevelTables
<1>4. most \in Nat /\ most >= 1 /\ extra \in Nat
  BY <1>2, <1>3 DEF Most
<1>5. Least(p.ammo, most) \in 0..most /\ Least(p.magazines, extra) \in 0..extra
  BY <1>2, <1>4 DEF Least
<1>s. SoundWeapon(p) /\ SoundLevel(p) /\ SoundRest(p, t)
  BY <1>1, SoundParts
<1>6. CASE level = p.level
  <2>1. q = [p EXCEPT !.experience = e]
    BY <1>6 DEF AtLevel
  <2> HIDE DEF q
  <2>2. /\ q \in PlayerState /\ LevelledOnly(p, q) /\ q.level = level /\ q.experience = e
        /\ q.ammo = p.ammo /\ q.capacity = p.capacity
        /\ q.magazines = p.magazines /\ q.magazineCapacity = p.magazineCapacity
    BY <1>1, <1>6, <2>1 DEF PlayerState, LevelledOnly
  <2>3. SoundWeapon(q) /\ SoundLevel(q) /\ SoundRest(q, t)
    BY <1>s, <2>2 DEF SoundWeapon, SoundLevel, SoundRest, OfToday, LevelledOnly
  <2>4. WeaponFits(p) => WeaponFits(q)
    BY <1>6, <2>2 DEF WeaponFits, LevelledOnly
  <2>5. SoundPlayer(q, t)
    BY <2>2, <2>3, SoundParts
  <2> QED
    BY <2>2, <2>4, <2>5 DEF Follows, LevelledOnly, Balances, Balanced, q
<1>7. CASE level # p.level
  <2>1. q = [p EXCEPT !.level = level, !.experience = e,
                      !.ammo = Least(@, most), !.capacity = most,
                      !.magazines = Least(@, extra), !.magazineCapacity = extra]
    BY <1>7 DEF AtLevel
  <2>2. /\ q \in PlayerState /\ LevelledOnly(p, q) /\ q.level = level /\ q.experience = e
        /\ q.ammo = Least(p.ammo, most) /\ q.capacity = most
        /\ q.magazines = Least(p.magazines, extra) /\ q.magazineCapacity = extra
    <3>1. Least(p.ammo, most) \in Nat /\ Least(p.magazines, extra) \in Nat
      BY <1>4, <1>5
    <3>2. PICK rounds \in Nat, full \in Nat, kept \in Nat, reserve \in Nat :
             /\ rounds = Least(p.ammo, most) /\ full = most
             /\ kept = Least(p.magazines, extra) /\ reserve = extra
      BY <1>4, <3>1
    <3>3. q = [p EXCEPT !.level = level, !.experience = e, !.ammo = rounds, !.capacity = full,
                        !.magazines = kept, !.magazineCapacity = reserve]
      BY <1>1, <2>1, <3>2 DEF PlayerState
    <3> HIDE DEF most, extra, q
    <3>4. q \in PlayerState
      BY <1>1, <3>3 DEF PlayerState
    <3>5. LevelledOnly(p, q)
      BY <1>1, <3>3 DEF PlayerState, LevelledOnly
    <3>6. /\ q.level = level /\ q.experience = e /\ q.ammo = rounds /\ q.capacity = full
          /\ q.magazines = kept /\ q.magazineCapacity = reserve
      BY <1>1, <3>3 DEF PlayerState
    <3> QED
      BY <3>2, <3>4, <3>5, <3>6
  <2>3. WeaponFits(p) => WeaponFits(q)
    <3>1. WeaponFits(p) => /\ most = AmmoOf(level) + (IF "magazine" \in p.upgrades THEN 1 ELSE 0)
                           /\ extra = MagazinesOf(level) + (IF "bag" \in p.upgrades THEN 1 ELSE 0)
      BY <1>2, <1>3 DEF WeaponFits, Most
    <3> HIDE DEF q
    <3> QED
      BY <2>2, <3>1 DEF WeaponFits, LevelledOnly
  <2> HIDE DEF q
  <2>4. SoundWeapon(q) /\ SoundLevel(q) /\ SoundRest(q, t)
    BY <1>s, <1>4, <1>5, <2>2 DEF SoundWeapon, SoundLevel, SoundRest, OfToday, LevelledOnly
  <2>5. SoundPlayer(q, t)
    BY <2>2, <2>4, SoundParts
  <2> QED
    BY <2>2, <2>3, <2>5 DEF Follows, LevelledOnly, Balances, Balanced, q
<1> QED
  BY <1>6, <1>7

(* Experience granted is experience had, across the levels it carries over. *)
LEMMA GrantFollows ==
    ASSUME NEW t \in Nat, NEW p, SoundPlayer(p, t), NEW amount \in Nat
    PROVE  /\ Follows(p, Grant(p, amount), t) /\ LevelledOnly(p, Grant(p, amount))
           /\ Available(Grant(p, amount)) = Available(p) + amount
<1> DEFINE at == <<p.level, p.experience + amount>>
           level == Climb[at][1]
           e == Climb[at][2]
           q == AtLevel(p, level, e)
<1>1. p.level \in Nat /\ p.level >= 1 /\ p.experience \in Nat
  BY SoundParts DEF SoundPlayer, SoundLevel, PlayerState
<1>2. at \in Nat \X Nat /\ at[1] = p.level /\ at[2] = p.experience + amount
  BY <1>1
<1>3. /\ Climb[at] \in Nat \X Nat /\ Climb[at][1] >= at[1]
      /\ Climb[at][2] < Required(Climb[at][1])
      /\ Climb[at][2] + Below[Climb[at][1]] = at[2] + Below[at[1]]
  <2> HIDE DEF at
  <2> QED
    BY <1>1, <1>2, ClimbReaches
<1>4. level \in Nat \ {0} /\ e \in Nat /\ e < Required(level)
  BY <1>1, <1>2, <1>3
<1>5. Grant(p, amount) = q
  BY DEF Grant
<1>6. Follows(p, q, t) /\ LevelledOnly(p, q) /\ q.level = level /\ q.experience = e
  <2> HIDE DEF level, e
  <2> QED
    BY <1>4, AtLevelFollows
<1>7. Available(q) = Available(p) + amount
  <2>1. Below[p.level] \in Nat /\ Below[level] \in Nat
    BY <1>1, <1>4, BelowEquation
  <2> QED
    BY <1>1, <1>2, <1>3, <1>6, <2>1 DEF Available
<1> QED
  BY <1>5, <1>6, <1>7

(* A weapon that is not full is not full at a lower level either.           *)
LEMMA AtLevelWeapon ==
    ASSUME NEW p \in PlayerState, NEW level \in Nat \ {0}, NEW e \in Nat, level <= p.level,
           p.ammo < p.capacity
    PROVE  LET q == AtLevel(p, level, e) IN q.ammo < q.capacity
<1> DEFINE q == AtLevel(p, level, e)
           most == AmmoOf(level) + Most(0, p.capacity - AmmoOf(p.level))
           extra == MagazinesOf(level) + Most(0, p.magazineCapacity - MagazinesOf(p.level))
<1>1. p.ammo \in Nat /\ p.capacity \in Nat /\ p.level \in Nat
  BY DEF PlayerState
<1>2. AmmoOf(level) \in 1..6 /\ AmmoOf(p.level) \in 1..6 /\ AmmoOf(p.level) <= AmmoOf(level)
  BY <1>1, LevelTables, AmmoFalls
<1>3. Least(p.ammo, most) < most
  BY <1>1, <1>2 DEF Least, Most
<1>4. CASE level = p.level
  <2>1. q = [p EXCEPT !.experience = e]
    BY <1>4 DEF AtLevel
  <2> HIDE DEF q
  <2>2. q.ammo = p.ammo /\ q.capacity = p.capacity
    BY <2>1 DEF PlayerState
  <2> QED
    BY <2>2 DEF q
<1>5. CASE level # p.level
  <2>1. q = [p EXCEPT !.level = level, !.experience = e,
                      !.ammo = Least(@, most), !.capacity = most,
                      !.magazines = Least(@, extra), !.magazineCapacity = extra]
    BY <1>5 DEF AtLevel
  <2> HIDE DEF q, most, extra
  <2>2. q.ammo = Least(p.ammo, most) /\ q.capacity = most
    BY <2>1 DEF PlayerState
  <2> QED
    BY <1>3, <2>2 DEF q
<1> QED
  BY <1>4, <1>5

(* The same level leaves the weapon alone.                                  *)
LEMMA AtSameLevel ==
    ASSUME NEW p \in PlayerState, NEW e \in Nat
    PROVE  LET q == AtLevel(p, p.level, e)
           IN  /\ q.ammo = p.ammo /\ q.capacity = p.capacity
               /\ q.magazines = p.magazines /\ q.magazineCapacity = p.magazineCapacity
BY DEF AtLevel, PlayerState

(* Experience spent is experience no longer had, across the levels it takes *)
(* away.                                                                    *)
LEMMA SpendFollows ==
    ASSUME NEW t \in Nat, NEW p, SoundPlayer(p, t), NEW amount \in Nat, amount <= Available(p)
    PROVE  LET q == Spend(p, amount)
           IN  /\ Follows(p, q, t) /\ LevelledOnly(p, q) /\ q.level <= p.level
               /\ Available(q) = Available(p) - amount
               /\ p.ammo < p.capacity => q.ammo < q.capacity
               /\ q.level = p.level => q.magazines = p.magazines
                                       /\ q.magazineCapacity = p.magazineCapacity
<1> DEFINE at == <<p.level, p.experience - amount>>
           level == Descend[at][1]
           e == Descend[at][2]
           q == AtLevel(p, level, e)
<1>1. /\ p \in PlayerState /\ p.level \in Nat /\ p.level >= 1 /\ p.experience \in Nat
      /\ p.experience < Required(p.level) /\ Required(p.level) \in Nat /\ Below[p.level] \in Nat
  BY SoundParts, RequiredType, BelowEquation DEF SoundPlayer, SoundLevel, PlayerState
<1>2. at \in Nat \X Int /\ at[1] = p.level /\ at[2] = p.experience - amount
  BY <1>1
<1>3. at[1] >= 1 /\ at[2] < Required(at[1]) /\ at[2] + Below[at[1]] >= 0
  BY <1>1, <1>2 DEF Available
<1>4. /\ Descend[at] \in Nat \X Nat /\ Descend[at][1] \in 1..at[1]
      /\ Descend[at][2] < Required(Descend[at][1])
      /\ Descend[at][2] + Below[Descend[at][1]] = at[2] + Below[at[1]]
  <2> HIDE DEF at
  <2> QED
    BY <1>2, <1>3, DescendReaches
<1>5. level \in Nat \ {0} /\ e \in Nat /\ e < Required(level) /\ level <= p.level
  BY <1>1, <1>2, <1>4
<1>6. Spend(p, amount) = q
  BY DEF Spend
<1>7. Follows(p, q, t) /\ LevelledOnly(p, q) /\ q.level = level /\ q.experience = e
  <2> HIDE DEF level, e
  <2> QED
    BY <1>5, AtLevelFollows
<1>8. Available(q) = Available(p) - amount
  <2>1. Below[level] \in Nat
    BY <1>5, BelowEquation
  <2> QED
    BY <1>1, <1>2, <1>4, <1>7, <2>1 DEF Available
<1>9. p.ammo < p.capacity => q.ammo < q.capacity
  <2> HIDE DEF level, e
  <2> QED
    BY <1>1, <1>5, AtLevelWeapon
<1>10. q.level = p.level => q.magazines = p.magazines /\ q.magazineCapacity = p.magazineCapacity
  <2> HIDE DEF level, e
  <2> QED
    BY <1>1, <1>5, <1>7, AtSameLevel
<1> QED
  BY <1>5, <1>6, <1>7, <1>8, <1>9, <1>10

(* A debit takes what there is at most.                                     *)
LEMMA DebitFollows ==
    ASSUME NEW t \in Nat, NEW p, SoundPlayer(p, t), NEW amount \in Nat
    PROVE  Follows(p, Debit(p, amount), t) /\ LevelledOnly(p, Debit(p, amount))
<1>1. p.level \in Nat /\ p.experience \in Nat
  BY DEF SoundPlayer, PlayerState
<1>2. Available(p) \in Nat
  BY <1>1, BelowEquation DEF Available
<1>3. PICK paid \in Nat : paid = Least(amount, Available(p)) /\ paid <= Available(p)
  BY <1>2 DEF Least
<1> QED
  BY <1>3, SpendFollows DEF Debit

(* What an edit that leaves level and weapon alone must not break.          *)
LEMMA EditFollows ==
    ASSUME NEW t, NEW p, SoundPlayer(p, t), NEW q \in PlayerState,
           q.level = p.level, q.experience = p.experience, q.upgrades = p.upgrades,
           q.capacity = p.capacity, q.magazineCapacity = p.magazineCapacity,
           q.ammo <= q.capacity, q.magazines <= q.magazineCapacity, SoundRest(q, t),
           Balances(p, q)
    PROVE  Follows(p, q, t)
<1>1. p \in PlayerState /\ SoundWeapon(p) /\ SoundLevel(p)
  BY SoundParts DEF SoundPlayer
<1>2. SoundWeapon(q) /\ SoundLevel(q)
  BY <1>1 DEF SoundWeapon, SoundLevel
<1>3. SoundPlayer(q, t)
  BY <1>2, SoundParts
<1> QED
  BY <1>3 DEF Follows, WeaponFits

Keeps(p, q) == q.caused = p.caused /\ q.received = p.received

(* A sound profile follows itself.                                          *)
LEMMA FollowsItself ==
    ASSUME NEW t, NEW p, SoundPlayer(p, t) PROVE Follows(p, p, t) /\ Keeps(p, p)
BY DEF Follows, Keeps, Balances

(* What follows a follower follows.                                         *)
LEMMA FollowsOn ==
    ASSUME NEW t, NEW p, NEW q, NEW r, Follows(p, q, t), Follows(q, r, t) PROVE Follows(p, r, t)
BY DEF Follows, Balances

(* Anything but level, weapon, upgrades and incidents. *)
Lives(p, q) ==
    /\ q.level = p.level /\ q.experience = p.experience /\ q.upgrades = p.upgrades
    /\ q.capacity = p.capacity /\ q.magazineCapacity = p.magazineCapacity
    /\ q.ammo = p.ammo /\ q.magazines = p.magazines
    /\ q.caused = p.caused /\ q.received = p.received
    /\ q.survived = p.survived /\ q.deaths = p.deaths

(* An edit of the state of mind, the days and the purse of a hunter.        *)
LEMMA LivesFollows ==
    ASSUME NEW t, NEW p, SoundPlayer(p, t), NEW q \in PlayerState, Lives(p, q),
           q.permanent => q.confiscated, MinFatigue <= q.fatigue, q.fatigue <= MaxFatigue,
           MinKarma <= q.karma, q.karma <= MaxKarma, q.karma = 0 <=> q.decays = Never,
           OfToday(q, t)
    PROVE  Follows(p, q, t) /\ Keeps(p, q)
<1>1. SoundWeapon(p) /\ SoundRest(p, t)
  BY SoundParts DEF SoundPlayer
<1>2. SoundRest(q, t) /\ q.ammo <= q.capacity /\ q.magazines <= q.magazineCapacity
  BY <1>1 DEF SoundRest, Lives, SoundWeapon
<1> QED
  BY <1>2, EditFollows DEF Lives, Keeps, Balances, Balanced

(* What a confiscation, and a purchase, must leave alone. *)
Undisturbed(p, q) ==
    /\ q.shots = p.shots /\ q.confiscated = p.confiscated /\ q.permanent = p.permanent
    /\ q.day = p.day
SameWealth(p, q) == q.level = p.level /\ q.experience = p.experience /\ q.credit = p.credit

(* What no command but the owner's, or a return of the weapon, may do.      *)
Firm(p, q) ==
    /\ q.permanent = p.permanent /\ q.day = p.day
    /\ p.confiscated => q.confiscated

(* The edits of the engine, the shop and the loot. *)
LEMMA FatigueFollows ==
    ASSUME NEW t, NEW p, SoundPlayer(p, t), NEW fatigue \in Int,
           MinFatigue <= fatigue, fatigue <= MaxFatigue
    PROVE  LET q == [p EXCEPT !.fatigue = fatigue]
           IN  Follows(p, q, t) /\ Keeps(p, q) /\ SameWealth(p, q) /\ Undisturbed(p, q)
<1> DEFINE q == [p EXCEPT !.fatigue = fatigue]
<1>1. p \in PlayerState /\ SoundRest(p, t)
  BY SoundParts DEF SoundPlayer
<1>2. /\ q \in PlayerState /\ Lives(p, q)
      /\ q.fatigue = fatigue /\ q.permanent = p.permanent /\ q.confiscated = p.confiscated
      /\ q.karma = p.karma /\ q.decays = p.decays /\ q.day = p.day
  BY <1>1 DEF PlayerState, Lives
<1>3. SameWealth(p, q) /\ Undisturbed(p, q)
  BY <1>1 DEF PlayerState, SameWealth, Undisturbed
<1> HIDE DEF q
<1>4. Follows(p, q, t) /\ Keeps(p, q)
  BY <1>1, <1>2, LivesFollows DEF SoundRest, OfToday
<1> QED
  BY <1>3, <1>4 DEF q

(* Jammed, or unlocked again. *)
LEMMA JamFollows ==
    ASSUME NEW t, NEW p, SoundPlayer(p, t), NEW jammed \in BOOLEAN
    PROVE  LET q == [p EXCEPT !.jammed = jammed]
           IN  Follows(p, q, t) /\ Keeps(p, q) /\ SameWealth(p, q) /\ Undisturbed(p, q)
<1> DEFINE q == [p EXCEPT !.jammed = jammed]
<1>1. p \in PlayerState /\ SoundRest(p, t)
  BY SoundParts DEF SoundPlayer
<1>2. /\ q \in PlayerState /\ Lives(p, q)
      /\ q.fatigue = p.fatigue /\ q.permanent = p.permanent /\ q.confiscated = p.confiscated
      /\ q.karma = p.karma /\ q.decays = p.decays /\ q.day = p.day
  BY <1>1 DEF PlayerState, Lives
<1>3. SameWealth(p, q) /\ Undisturbed(p, q)
  BY <1>1 DEF PlayerState, SameWealth, Undisturbed
<1> HIDE DEF q
<1>4. Follows(p, q, t) /\ Keeps(p, q)
  BY <1>1, <1>2, LivesFollows DEF SoundRest, OfToday
<1> QED
  BY <1>3, <1>4 DEF q

(* Disarmed by an incident. *)
LEMMA DisarmFollows ==
    ASSUME NEW t, NEW p, SoundPlayer(p, t), NEW confiscated, confiscated = TRUE
    PROVE  LET q == [p EXCEPT !.confiscated = confiscated]
           IN  Follows(p, q, t) /\ Keeps(p, q) /\ SameWealth(p, q) /\ Firm(p, q)
<1> DEFINE q == [p EXCEPT !.confiscated = confiscated]
<1>1. p \in PlayerState /\ SoundRest(p, t)
  BY SoundParts DEF SoundPlayer
<1>2. /\ q \in PlayerState /\ Lives(p, q)
      /\ q.fatigue = p.fatigue /\ q.permanent = p.permanent /\ q.confiscated = confiscated
      /\ q.karma = p.karma /\ q.decays = p.decays /\ q.day = p.day
  BY <1>1 DEF PlayerState, Lives
<1>3. SameWealth(p, q) /\ Firm(p, q)
  BY <1>1 DEF PlayerState, SameWealth, Firm
<1> HIDE DEF q
<1>4. Follows(p, q, t) /\ Keeps(p, q)
  BY <1>1, <1>2, LivesFollows DEF SoundRest, OfToday
<1> QED
  BY <1>3, <1>4 DEF q

(* What the owner, or a purchase, decides of the weapon. *)
LEMMA ControlFollows ==
    ASSUME NEW t, NEW p, SoundPlayer(p, t), NEW confiscated \in BOOLEAN, NEW permanent \in BOOLEAN,
           permanent => confiscated
    PROVE  LET q == [p EXCEPT !.confiscated = confiscated, !.permanent = permanent]
           IN  Follows(p, q, t) /\ Keeps(p, q) /\ SameWealth(p, q)
<1> DEFINE q == [p EXCEPT !.confiscated = confiscated, !.permanent = permanent]
<1>1. p \in PlayerState /\ SoundRest(p, t)
  BY SoundParts DEF SoundPlayer
<1>2. /\ q \in PlayerState /\ Lives(p, q)
      /\ q.fatigue = p.fatigue /\ q.permanent = permanent /\ q.confiscated = confiscated
      /\ q.karma = p.karma /\ q.decays = p.decays /\ q.day = p.day
  BY <1>1 DEF PlayerState, Lives
<1>3. SameWealth(p, q)
  BY <1>1 DEF PlayerState, SameWealth
<1> HIDE DEF q
<1>4. Follows(p, q, t) /\ Keeps(p, q)
  BY <1>1, <1>2, LivesFollows DEF SoundRest, OfToday
<1> QED
  BY <1>3, <1>4 DEF q

(* A shot counted. *)
LEMMA ShotFollows ==
    ASSUME NEW t, NEW p, SoundPlayer(p, t), NEW shots \in Nat
    PROVE  LET q == [p EXCEPT !.shots = shots]
           IN  Follows(p, q, t) /\ Keeps(p, q) /\ SameWealth(p, q) /\ Firm(p, q)
<1> DEFINE q == [p EXCEPT !.shots = shots]
<1>1. p \in PlayerState /\ SoundRest(p, t)
  BY SoundParts DEF SoundPlayer
<1>2. /\ q \in PlayerState /\ Lives(p, q)
      /\ q.fatigue = p.fatigue /\ q.permanent = p.permanent /\ q.confiscated = p.confiscated
      /\ q.karma = p.karma /\ q.decays = p.decays /\ q.day = p.day
  BY <1>1 DEF PlayerState, Lives
<1>3. SameWealth(p, q) /\ Firm(p, q)
  BY <1>1 DEF PlayerState, SameWealth, Firm
<1> HIDE DEF q
<1>4. Follows(p, q, t) /\ Keeps(p, q)
  BY <1>1, <1>2, LivesFollows DEF SoundRest, OfToday
<1> QED
  BY <1>3, <1>4 DEF q

(* A hit counted. *)
LEMMA HitFollows ==
    ASSUME NEW t, NEW p, SoundPlayer(p, t), NEW hits \in Nat, NEW carried \in Nat, NEW credit \in Nat
    PROVE  LET q == [p EXCEPT !.hits = hits, !.carried = carried, !.credit = credit]
           IN  Follows(p, q, t) /\ Keeps(p, q) /\ Undisturbed(p, q)
<1> DEFINE q == [p EXCEPT !.hits = hits, !.carried = carried, !.credit = credit]
<1>1. p \in PlayerState /\ SoundRest(p, t)
  BY SoundParts DEF SoundPlayer
<1>2. /\ q \in PlayerState /\ Lives(p, q)
      /\ q.fatigue = p.fatigue /\ q.permanent = p.permanent /\ q.confiscated = p.confiscated
      /\ q.karma = p.karma /\ q.decays = p.decays /\ q.day = p.day
  BY <1>1 DEF PlayerState, Lives
<1>3. Undisturbed(p, q)
  BY <1>1 DEF PlayerState, Undisturbed
<1> HIDE DEF q
<1>4. Follows(p, q, t) /\ Keeps(p, q)
  BY <1>1, <1>2, LivesFollows DEF SoundRest, OfToday
<1> QED
  BY <1>3, <1>4 DEF q

(* A voucher. *)
LEMMA CreditFollows ==
    ASSUME NEW t, NEW p, SoundPlayer(p, t), NEW credit \in Nat
    PROVE  LET q == [p EXCEPT !.credit = credit]
           IN  Follows(p, q, t) /\ Keeps(p, q) /\ Undisturbed(p, q)
<1> DEFINE q == [p EXCEPT !.credit = credit]
<1>1. p \in PlayerState /\ SoundRest(p, t)
  BY SoundParts DEF SoundPlayer
<1>2. /\ q \in PlayerState /\ Lives(p, q)
      /\ q.fatigue = p.fatigue /\ q.permanent = p.permanent /\ q.confiscated = p.confiscated
      /\ q.karma = p.karma /\ q.decays = p.decays /\ q.day = p.day
  BY <1>1 DEF PlayerState, Lives
<1>3. Undisturbed(p, q)
  BY <1>1 DEF PlayerState, Undisturbed
<1> HIDE DEF q
<1>4. Follows(p, q, t) /\ Keeps(p, q)
  BY <1>1, <1>2, LivesFollows DEF SoundRest, OfToday
<1> QED
  BY <1>3, <1>4 DEF q

(* What is left of a voucher. *)
LEMMA PaidFollows ==
    ASSUME NEW t, NEW p, SoundPlayer(p, t), NEW credit \in Nat, NEW spent \in Nat
    PROVE  LET q == [p EXCEPT !.credit = credit, !.spent = spent]
           IN  Follows(p, q, t) /\ Keeps(p, q) /\ Undisturbed(p, q)
<1> DEFINE q == [p EXCEPT !.credit = credit, !.spent = spent]
<1>1. p \in PlayerState /\ SoundRest(p, t)
  BY SoundParts DEF SoundPlayer
<1>2. /\ q \in PlayerState /\ Lives(p, q)
      /\ q.fatigue = p.fatigue /\ q.permanent = p.permanent /\ q.confiscated = p.confiscated
      /\ q.karma = p.karma /\ q.decays = p.decays /\ q.day = p.day
  BY <1>1 DEF PlayerState, Lives
<1>3. Undisturbed(p, q)
  BY <1>1 DEF PlayerState, Undisturbed
<1> HIDE DEF q
<1>4. Follows(p, q, t) /\ Keeps(p, q)
  BY <1>1, <1>2, LivesFollows DEF SoundRest, OfToday
<1> QED
  BY <1>3, <1>4 DEF q

(* A letter found, or the phrase traded. *)
LEMMA LettersFollows ==
    ASSUME NEW t, NEW p, SoundPlayer(p, t), NEW letters \in SUBSET Letters
    PROVE  LET q == [p EXCEPT !.letters = letters]
           IN  Follows(p, q, t) /\ Keeps(p, q) /\ SameWealth(p, q) /\ Undisturbed(p, q)
<1> DEFINE q == [p EXCEPT !.letters = letters]
<1>1. p \in PlayerState /\ SoundRest(p, t)
  BY SoundParts DEF SoundPlayer
<1>2. /\ q \in PlayerState /\ Lives(p, q)
      /\ q.fatigue = p.fatigue /\ q.permanent = p.permanent /\ q.confiscated = p.confiscated
      /\ q.karma = p.karma /\ q.decays = p.decays /\ q.day = p.day
  BY <1>1 DEF PlayerState, Lives
<1>3. SameWealth(p, q) /\ Undisturbed(p, q)
  BY <1>1 DEF PlayerState, SameWealth, Undisturbed
<1> HIDE DEF q
<1>4. Follows(p, q, t) /\ Keeps(p, q)
  BY <1>1, <1>2, LivesFollows DEF SoundRest, OfToday
<1> QED
  BY <1>3, <1>4 DEF q

(* Rounds and magazines. *)
LEMMA LoadFollows ==
    ASSUME NEW t, NEW p, SoundPlayer(p, t), NEW ammo \in Nat, NEW magazines \in Nat,
           ammo <= p.capacity, magazines <= p.magazineCapacity
    PROVE  LET q == [p EXCEPT !.ammo = ammo, !.magazines = magazines]
           IN  Follows(p, q, t) /\ Keeps(p, q) /\ SameWealth(p, q) /\ Undisturbed(p, q)
<1> DEFINE q == [p EXCEPT !.ammo = ammo, !.magazines = magazines]
<1>1. p \in PlayerState /\ SoundWeapon(p) /\ SoundRest(p, t)
  BY SoundParts DEF SoundPlayer
<1>2. /\ q \in PlayerState /\ q.ammo = ammo /\ q.magazines = magazines
      /\ q.level = p.level /\ q.experience = p.experience /\ q.upgrades = p.upgrades
      /\ q.capacity = p.capacity /\ q.magazineCapacity = p.magazineCapacity
  BY <1>1 DEF PlayerState
<1>3. /\ q.fatigue = p.fatigue /\ q.permanent = p.permanent /\ q.confiscated = p.confiscated
      /\ q.karma = p.karma /\ q.decays = p.decays /\ q.day = p.day
      /\ q.caused = p.caused /\ q.received = p.received
      /\ q.survived = p.survived /\ q.deaths = p.deaths
  BY <1>1 DEF PlayerState
<1>4. SameWealth(p, q) /\ Undisturbed(p, q)
  BY <1>1 DEF PlayerState, SameWealth, Undisturbed
<1> HIDE DEF q
<1>5. SoundRest(q, t) /\ Keeps(p, q) /\ q.ammo <= q.capacity /\ q.magazines <= q.magazineCapacity
  BY <1>1, <1>2, <1>3 DEF SoundRest, SoundWeapon, OfToday, Keeps
<1>6. Follows(p, q, t)
  BY <1>2, <1>3, <1>5, EditFollows DEF Balances, Balanced
<1> QED
  BY <1>4, <1>5, <1>6 DEF q

(* Rounds. *)
LEMMA AmmoFollows ==
    ASSUME NEW t, NEW p, SoundPlayer(p, t), NEW ammo \in Nat,
           ammo <= p.capacity
    PROVE  LET q == [p EXCEPT !.ammo = ammo]
           IN  Follows(p, q, t) /\ Keeps(p, q) /\ SameWealth(p, q) /\ Undisturbed(p, q)
<1> DEFINE q == [p EXCEPT !.ammo = ammo]
<1>1. p \in PlayerState /\ SoundWeapon(p) /\ SoundRest(p, t)
  BY SoundParts DEF SoundPlayer
<1>2. /\ q \in PlayerState /\ q.ammo = ammo /\ q.magazines = p.magazines
      /\ q.level = p.level /\ q.experience = p.experience /\ q.upgrades = p.upgrades
      /\ q.capacity = p.capacity /\ q.magazineCapacity = p.magazineCapacity
  BY <1>1 DEF PlayerState
<1>3. /\ q.fatigue = p.fatigue /\ q.permanent = p.permanent /\ q.confiscated = p.confiscated
      /\ q.karma = p.karma /\ q.decays = p.decays /\ q.day = p.day
      /\ q.caused = p.caused /\ q.received = p.received
      /\ q.survived = p.survived /\ q.deaths = p.deaths
  BY <1>1 DEF PlayerState
<1>4. SameWealth(p, q) /\ Undisturbed(p, q)
  BY <1>1 DEF PlayerState, SameWealth, Undisturbed
<1> HIDE DEF q
<1>5. SoundRest(q, t) /\ Keeps(p, q) /\ q.ammo <= q.capacity /\ q.magazines <= q.magazineCapacity
  BY <1>1, <1>2, <1>3 DEF SoundRest, SoundWeapon, OfToday, Keeps
<1>6. Follows(p, q, t)
  BY <1>2, <1>3, <1>5, EditFollows DEF Balances, Balanced
<1> QED
  BY <1>4, <1>5, <1>6 DEF q

(* Magazines. *)
LEMMA MagazinesFollows ==
    ASSUME NEW t, NEW p, SoundPlayer(p, t), NEW magazines \in Nat,
           magazines <= p.magazineCapacity
    PROVE  LET q == [p EXCEPT !.magazines = magazines]
           IN  Follows(p, q, t) /\ Keeps(p, q) /\ SameWealth(p, q) /\ Undisturbed(p, q)
<1> DEFINE q == [p EXCEPT !.magazines = magazines]
<1>1. p \in PlayerState /\ SoundWeapon(p) /\ SoundRest(p, t)
  BY SoundParts DEF SoundPlayer
<1>2. /\ q \in PlayerState /\ q.ammo = p.ammo /\ q.magazines = magazines
      /\ q.level = p.level /\ q.experience = p.experience /\ q.upgrades = p.upgrades
      /\ q.capacity = p.capacity /\ q.magazineCapacity = p.magazineCapacity
  BY <1>1 DEF PlayerState
<1>3. /\ q.fatigue = p.fatigue /\ q.permanent = p.permanent /\ q.confiscated = p.confiscated
      /\ q.karma = p.karma /\ q.decays = p.decays /\ q.day = p.day
      /\ q.caused = p.caused /\ q.received = p.received
      /\ q.survived = p.survived /\ q.deaths = p.deaths
  BY <1>1 DEF PlayerState
<1>4. SameWealth(p, q) /\ Undisturbed(p, q)
  BY <1>1 DEF PlayerState, SameWealth, Undisturbed
<1> HIDE DEF q
<1>5. SoundRest(q, t) /\ Keeps(p, q) /\ q.ammo <= q.capacity /\ q.magazines <= q.magazineCapacity
  BY <1>1, <1>2, <1>3 DEF SoundRest, SoundWeapon, OfToday, Keeps
<1>6. Follows(p, q, t)
  BY <1>2, <1>3, <1>5, EditFollows DEF Balances, Balanced
<1> QED
  BY <1>4, <1>5, <1>6 DEF q

(* Rounds fired, and what it costs to fire them. *)
LEMMA FireFollows ==
    ASSUME NEW t, NEW p, SoundPlayer(p, t), NEW ammo \in Nat, NEW fatigue \in Int,
           ammo <= p.capacity, MinFatigue <= fatigue, fatigue <= MaxFatigue
    PROVE  LET q == [p EXCEPT !.ammo = ammo, !.fatigue = fatigue]
           IN  Follows(p, q, t) /\ Keeps(p, q) /\ SameWealth(p, q) /\ Undisturbed(p, q)
<1> DEFINE q == [p EXCEPT !.ammo = ammo, !.fatigue = fatigue]
<1>1. p \in PlayerState /\ SoundWeapon(p) /\ SoundRest(p, t)
  BY SoundParts DEF SoundPlayer
<1>2. /\ q \in PlayerState /\ q.ammo = ammo /\ q.magazines = p.magazines
      /\ q.level = p.level /\ q.experience = p.experience /\ q.upgrades = p.upgrades
      /\ q.capacity = p.capacity /\ q.magazineCapacity = p.magazineCapacity
  BY <1>1 DEF PlayerState
<1>3. /\ q.fatigue = fatigue /\ q.permanent = p.permanent /\ q.confiscated = p.confiscated
      /\ q.karma = p.karma /\ q.decays = p.decays /\ q.day = p.day
      /\ q.caused = p.caused /\ q.received = p.received
      /\ q.survived = p.survived /\ q.deaths = p.deaths
  BY <1>1 DEF PlayerState
<1>4. SameWealth(p, q) /\ Undisturbed(p, q)
  BY <1>1 DEF PlayerState, SameWealth, Undisturbed
<1> HIDE DEF q
<1>5. SoundRest(q, t) /\ Keeps(p, q) /\ q.ammo <= q.capacity /\ q.magazines <= q.magazineCapacity
  BY <1>1, <1>2, <1>3 DEF SoundRest, SoundWeapon, OfToday, Keeps
<1>6. Follows(p, q, t)
  BY <1>2, <1>3, <1>5, EditFollows DEF Balances, Balanced
<1> QED
  BY <1>4, <1>5, <1>6 DEF q

(* The full weapon and the voucher of a phrase. *)
LEMMA PrizeFollows ==
    ASSUME NEW t, NEW p, SoundPlayer(p, t), NEW ammo \in Nat, NEW magazines \in Nat, NEW credit \in Nat,
           ammo <= p.capacity, magazines <= p.magazineCapacity
    PROVE  LET q == [p EXCEPT !.ammo = ammo, !.magazines = magazines, !.credit = credit]
           IN  Follows(p, q, t) /\ Keeps(p, q) /\ Undisturbed(p, q)
<1> DEFINE q == [p EXCEPT !.ammo = ammo, !.magazines = magazines, !.credit = credit]
<1>1. p \in PlayerState /\ SoundWeapon(p) /\ SoundRest(p, t)
  BY SoundParts DEF SoundPlayer
<1>2. /\ q \in PlayerState /\ q.ammo = ammo /\ q.magazines = magazines
      /\ q.level = p.level /\ q.experience = p.experience /\ q.upgrades = p.upgrades
      /\ q.capacity = p.capacity /\ q.magazineCapacity = p.magazineCapacity
  BY <1>1 DEF PlayerState
<1>3. /\ q.fatigue = p.fatigue /\ q.permanent = p.permanent /\ q.confiscated = p.confiscated
      /\ q.karma = p.karma /\ q.decays = p.decays /\ q.day = p.day
      /\ q.caused = p.caused /\ q.received = p.received
      /\ q.survived = p.survived /\ q.deaths = p.deaths
  BY <1>1 DEF PlayerState
<1>4. Undisturbed(p, q)
  BY <1>1 DEF PlayerState, Undisturbed
<1> HIDE DEF q
<1>5. SoundRest(q, t) /\ Keeps(p, q) /\ q.ammo <= q.capacity /\ q.magazines <= q.magazineCapacity
  BY <1>1, <1>2, <1>3 DEF SoundRest, SoundWeapon, OfToday, Keeps
<1>6. Follows(p, q, t)
  BY <1>2, <1>3, <1>5, EditFollows DEF Balances, Balanced
<1> QED
  BY <1>4, <1>5, <1>6 DEF q

(* A weapon nobody touches stays where it is.                               *)
LEMMA UndisturbedIsFirm ==
    ASSUME NEW p, NEW q, Undisturbed(p, q) PROVE Firm(p, q)
BY DEF Undisturbed, Firm

(* A change of level touches neither the incidents nor the hold on the      *)
(* weapon.                                                                  *)
LEMMA LevelledKeeps ==
    ASSUME NEW p, NEW q, LevelledOnly(p, q) PROVE Keeps(p, q) /\ Undisturbed(p, q) /\ Firm(p, q)
BY DEF LevelledOnly, Keeps, Undisturbed, Firm

(* The two sides of a ricochet. *)
LEMMA CausedFollows ==
    ASSUME NEW t, NEW p, SoundPlayer(p, t), NEW caused \in Nat
    PROVE  LET q == [p EXCEPT !.caused = caused]
           IN  /\ Follows(p, q, t) /\ Undisturbed(p, q)
               /\ q.caused = caused /\ q.received = p.received
<1> DEFINE q == [p EXCEPT !.caused = caused]
<1>1. p \in PlayerState /\ SoundWeapon(p) /\ SoundRest(p, t)
  BY SoundParts DEF SoundPlayer
<1>2. /\ q \in PlayerState /\ q.ammo = p.ammo /\ q.magazines = p.magazines
      /\ q.level = p.level /\ q.experience = p.experience /\ q.upgrades = p.upgrades
      /\ q.capacity = p.capacity /\ q.magazineCapacity = p.magazineCapacity
  BY <1>1 DEF PlayerState
<1>3. /\ q.fatigue = p.fatigue /\ q.permanent = p.permanent /\ q.confiscated = p.confiscated
      /\ q.karma = p.karma /\ q.decays = p.decays /\ q.day = p.day
      /\ q.caused = caused /\ q.received = p.received
      /\ q.survived = p.survived /\ q.deaths = p.deaths
  BY <1>1 DEF PlayerState
<1>4. Undisturbed(p, q)
  BY <1>1 DEF PlayerState, Undisturbed
<1> HIDE DEF q
<1>5. SoundRest(q, t) /\ q.ammo <= q.capacity /\ q.magazines <= q.magazineCapacity
  BY <1>1, <1>2, <1>3 DEF SoundRest, SoundWeapon, OfToday
<1>6. Follows(p, q, t)
  BY <1>2, <1>3, <1>5, EditFollows DEF Balances, Balanced
<1> QED
  BY <1>3, <1>4, <1>6 DEF q

Struck(p, received, survived, deaths) ==
    [p EXCEPT !.received = received, !.survived = survived, !.deaths = deaths]

(* A ricochet received is one survived or died of.                          *)
LEMMA ReceivedFollows ==
    ASSUME NEW t, NEW p, SoundPlayer(p, t), NEW received \in Nat, NEW survived \in Nat,
           NEW deaths \in Nat, Balanced(p) => received = survived + deaths
    PROVE  LET q == Struck(p, received, survived, deaths)
           IN  /\ Follows(p, q, t) /\ Undisturbed(p, q)
               /\ q.received = received /\ q.caused = p.caused
<1> DEFINE q == [p EXCEPT !.received = received, !.survived = survived, !.deaths = deaths]
<1>1. p \in PlayerState /\ SoundWeapon(p) /\ SoundRest(p, t)
  BY SoundParts DEF SoundPlayer
<1>2. /\ q \in PlayerState /\ q.ammo = p.ammo /\ q.magazines = p.magazines
      /\ q.level = p.level /\ q.experience = p.experience /\ q.upgrades = p.upgrades
      /\ q.capacity = p.capacity /\ q.magazineCapacity = p.magazineCapacity
  BY <1>1 DEF PlayerState
<1>3. /\ q.fatigue = p.fatigue /\ q.permanent = p.permanent /\ q.confiscated = p.confiscated
      /\ q.karma = p.karma /\ q.decays = p.decays /\ q.day = p.day
      /\ q.caused = p.caused /\ q.received = received
      /\ q.survived = survived /\ q.deaths = deaths
  BY <1>1 DEF PlayerState
<1>4. Undisturbed(p, q)
  BY <1>1 DEF PlayerState, Undisturbed
<1> HIDE DEF q
<1>5. SoundRest(q, t) /\ q.ammo <= q.capacity /\ q.magazines <= q.magazineCapacity
  BY <1>1, <1>2, <1>3 DEF SoundRest, SoundWeapon, OfToday
<1>6. Follows(p, q, t)
  BY <1>2, <1>3, <1>5, EditFollows DEF Balances, Balanced
<1> QED
  BY <1>3, <1>4, <1>6 DEF q, Struck

(* Days are integers.                                                       *)
LEMMA DayOfInt == \A t \in Nat : DayOf(t) \in Int
BY ProfileConstants DEF DayOf, Day, Hour, Minute

(* A newcomer is sound, with the weapon of the first level.                 *)
LEMMA NewcomerSound ==
    ASSUME NEW t \in Nat
    PROVE  /\ SoundPlayer(Newcomer(t), t) /\ WeaponFits(Newcomer(t)) /\ Balanced(Newcomer(t))
           /\ Newcomer(t).upgrades = {} /\ Newcomer(t).caused = 0 /\ Newcomer(t).received = 0
<1> DEFINE p == Newcomer(t)
<1>1. p \in PlayerState
  BY DayOfInt DEF Newcomer, PlayerState, Never
<1>2. /\ p.level = 1 /\ p.experience = 0 /\ p.ammo = 6 /\ p.capacity = 6 /\ p.magazines = 2
      /\ p.magazineCapacity = 2 /\ p.upgrades = {} /\ p.caused = 0 /\ p.received = 0
      /\ p.survived = 0 /\ p.deaths = 0 /\ p.permanent = FALSE /\ p.fatigue = 0 /\ p.karma = 0
      /\ p.decays = Never /\ p.day = DayOf(t)
  BY DEF Newcomer
<1> HIDE DEF p
<1>3. Required(1) = 20
  BY DEF Required
<1>4. SoundWeapon(p) /\ SoundLevel(p) /\ SoundRest(p, t)
  BY <1>2, <1>3, BoundsAreIntegers DEF SoundWeapon, SoundLevel, SoundRest, OfToday
<1>5. WeaponFits(p) /\ Balanced(p)
  BY <1>2 DEF WeaponFits, AmmoOf, MagazinesOf, Balanced
<1>6. SoundPlayer(p, t)
  BY <1>1, <1>4, SoundParts
<1> QED
  BY <1>2, <1>5, <1>6 DEF p

(* Karma stays in its bounds and has a deadline when it is not 0.           *)
LEMMA AdjustKarmaFollows ==
    ASSUME NEW t \in Nat, NEW p, SoundPlayer(p, t), NEW delta \in Int
    PROVE  LET q == AdjustKarma(p, delta, t)
           IN  Follows(p, q, t) /\ Keeps(p, q) /\ Undisturbed(p, q) /\ SameWealth(p, q)
<1>1. p \in PlayerState /\ p.karma \in Int /\ p.decays \in Int /\ SoundRest(p, t)
  BY SoundParts DEF SoundPlayer, PlayerState
<1>2. PICK karma \in Int : /\ karma = Least(MaxKarma, Most(MinKarma, p.karma + delta))
                           /\ MinKarma <= karma /\ karma <= MaxKarma
  BY <1>1 DEF Least, Most, MinKarma, MaxKarma
<1>3. KarmaPeriod \in Nat \ {0} /\ Never = -1
  BY DEF KarmaPeriod, Hour, Minute, Never
<1> DEFINE next == IF karma = 0 THEN Never ELSE IF p.decays = Never THEN t + KarmaPeriod
                   ELSE p.decays
<1>4. PICK decays \in Int : /\ decays = next
                            /\ karma = 0 <=> decays = Never
                            /\ decays = Never \/ decays \in t+1..t+KarmaPeriod
  <2>1. CASE karma = 0
    <3>1. next = Never
      BY <2>1
    <3> HIDE DEF next
    <3> QED
      BY <1>3, <2>1, <3>1
  <2>2. CASE karma # 0 /\ p.decays = Never
    <3>1. next = t + KarmaPeriod
      BY <2>2
    <3>2. t + KarmaPeriod \in t+1..t+KarmaPeriod /\ t + KarmaPeriod # Never
      BY <1>3
    <3> HIDE DEF next
    <3> QED
      BY <2>2, <3>1, <3>2
  <2>3. CASE karma # 0 /\ p.decays # Never
    <3>1. next = p.decays
      BY <2>3
    <3>2. p.decays \in t+1..t+KarmaPeriod
      BY <1>1, <2>3 DEF SoundRest, OfToday
    <3> HIDE DEF next
    <3> QED
      BY <1>1, <2>3, <3>1, <3>2
  <2> QED
    BY <2>1, <2>2, <2>3
<1> HIDE DEF next
<1> DEFINE q == [p EXCEPT !.karma = karma, !.decays = decays]
<1>5. AdjustKarma(p, delta, t) = q
  <2>1. AdjustKarma(p, delta, t) = [p EXCEPT !.karma = karma, !.decays = next]
    BY <1>1, <1>2 DEF AdjustKarma, PlayerState, next
  <2> QED
    BY <1>4, <2>1, Zenon
<1>6. Follows(p, q, t) /\ Keeps(p, q)
  <2>1. /\ q \in PlayerState /\ Lives(p, q)
        /\ q.fatigue = p.fatigue /\ q.permanent = p.permanent /\ q.confiscated = p.confiscated
        /\ q.karma = karma /\ q.decays = decays /\ q.day = p.day
    BY <1>1 DEF PlayerState, Lives
  <2> HIDE DEF q
  <2>2. OfToday(q, t)
    BY <1>1, <1>4, <2>1 DEF SoundRest, OfToday
  <2>3. /\ q.permanent => q.confiscated
        /\ MinFatigue <= q.fatigue /\ q.fatigue <= MaxFatigue
        /\ MinKarma <= q.karma /\ q.karma <= MaxKarma
        /\ q.karma = 0 <=> q.decays = Never
    BY <1>1, <1>2, <1>4, <2>1 DEF SoundRest
  <2> QED
    BY <2>1, <2>2, <2>3, LivesFollows
<1>7. Undisturbed(p, q) /\ SameWealth(p, q)
  BY <1>1 DEF PlayerState, Undisturbed, SameWealth
<1> QED
  BY <1>5, <1>6, <1>7

(* What time alone leaves of a profile. *)
Endures(p, q) ==
    /\ Lives(p, q) /\ SameWealth(p, q)
    /\ q.shots = p.shots /\ q.hits = p.hits /\ q.permanent = p.permanent /\ q.jammed = p.jammed

(* The next deadline of the karma is in the future, a period away at most.  *)
LEMMA NextPeriod ==
    \A at, t \in Nat : at <= t =>
        LET periods == (t - at) \div KarmaPeriod + 1
        IN  /\ periods \in Nat \ {0}
            /\ at + periods * KarmaPeriod \in t+1..t+KarmaPeriod
BY DEF KarmaPeriod, Hour, Minute

(* The decay of the karma touches nothing else.                             *)
LEMMA DecayFollows ==
    ASSUME NEW s \in Nat, NEW t \in Nat, s <= t, NEW p, SoundPlayer(p, s)
    PROVE  LET q == DecayKarma(p, t)
           IN  /\ q \in PlayerState /\ Endures(p, q)
               /\ q.fatigue = p.fatigue /\ q.day = p.day /\ q.confiscated = p.confiscated
               /\ MinKarma <= q.karma /\ q.karma <= MaxKarma
               /\ q.karma = 0 <=> q.decays = Never
               /\ q.decays = Never \/ q.decays \in t+1..t+KarmaPeriod
<1>1. p \in PlayerState /\ p.karma \in Int /\ p.decays \in Int /\ SoundRest(p, s)
  BY SoundParts DEF SoundPlayer, PlayerState
<1>2. KarmaPeriod \in Nat \ {0} /\ Never = -1
  BY DEF KarmaPeriod, Hour, Minute, Never
<1>3. p.decays = Never \/ p.decays \in s+1..s+KarmaPeriod
  BY <1>1 DEF SoundRest, OfToday
<1>4. /\ p.karma = 0 <=> p.decays = Never
      /\ MinKarma <= p.karma /\ p.karma <= MaxKarma
  BY <1>1 DEF SoundRest
<1> DEFINE q == DecayKarma(p, t)
<1>5. CASE p.decays = Never \/ t < p.decays
  <2>1. q = p
    BY <1>5 DEF DecayKarma
  <2> HIDE DEF q
  <2>2. q.decays = Never \/ q.decays \in t+1..t+KarmaPeriod
    BY <1>1, <1>2, <1>3, <1>5, <2>1
  <2> QED
    BY <1>1, <1>4, <2>1, <2>2 DEF q, Endures, Lives, SameWealth
<1>6. CASE ~(p.decays = Never \/ t < p.decays)
  <2>1. p.decays \in Nat /\ p.decays <= t
    BY <1>1, <1>2, <1>3, <1>6
  <2>2. PICK periods \in Nat \ {0}, at \in t+1..t+KarmaPeriod :
           /\ periods = (t - p.decays) \div KarmaPeriod + 1
           /\ at = p.decays + periods * KarmaPeriod
    BY <2>1, NextPeriod
  <2>3. PICK karma \in Int :
           /\ karma = IF p.karma > 0 THEN Most(0, p.karma - 12 * periods)
                      ELSE Least(0, p.karma + 12 * periods)
           /\ MinKarma <= karma /\ karma <= MaxKarma
    BY <1>1, <1>4, <2>2, BoundsAreIntegers DEF Most, Least
  <2> DEFINE next == IF karma = 0 THEN Never ELSE at
  <2>4. /\ next \in Int
        /\ karma = 0 <=> next = Never
        /\ next = Never \/ next \in t+1..t+KarmaPeriod
    BY <1>2, <2>2
  <2>5. q = [p EXCEPT !.karma = karma, !.decays = next]
    BY <1>1, <1>6, <2>2, <2>3 DEF DecayKarma, PlayerState
  <2>6. PICK decays \in Int : decays = next
    BY <2>4
  <2>7. q = [p EXCEPT !.karma = karma, !.decays = decays]
    BY <2>5, <2>6
  <2> HIDE DEF q, next
  <2>8. /\ q \in PlayerState /\ Endures(p, q)
        /\ q.fatigue = p.fatigue /\ q.day = p.day /\ q.confiscated = p.confiscated
        /\ q.karma = karma /\ q.decays = decays
    BY <1>1, <2>7 DEF PlayerState, Endures, Lives, SameWealth
  <2> QED
    BY <2>3, <2>4, <2>6, <2>8 DEF q
<1> QED
  BY <1>5, <1>6

(* What the time t makes of a hunter: today's, and still sound. *)
Ages(p, q, t) ==
    /\ SoundPlayer(q, t) /\ (WeaponFits(p) => WeaponFits(q)) /\ Balances(p, q)
    /\ q.upgrades = p.upgrades /\ Keeps(p, q) /\ SameWealth(p, q)
    /\ q.shots = p.shots /\ q.hits = p.hits /\ q.deaths = p.deaths
    /\ q.permanent = p.permanent /\ q.capacity = p.capacity
    /\ q.magazineCapacity = p.magazineCapacity
    /\ p.day = DayOf(t) => /\ q.confiscated = p.confiscated /\ q.jammed = p.jammed
                           /\ q.ammo = p.ammo /\ q.magazines = p.magazines
    /\ p.day # DayOf(t) => q.magazines = q.magazineCapacity

(* An infusion that wears off leaves the fatigue in its bounds.             *)
LEMMA WearOffFatigue ==
    ASSUME NEW p \in PlayerState, NEW infusions, \A e \in infusions : e.magnitude \in Nat,
           MinFatigue <= p.fatigue, p.fatigue <= MaxFatigue
    PROVE  \E fatigue \in Int : /\ MinFatigue <= fatigue /\ fatigue <= MaxFatigue
                                /\ WearOff(p, infusions) = [p EXCEPT !.fatigue = fatigue]
<1> DEFINE given == UNION {{e.magnitude} : e \in infusions}
<1>1. given \subseteq Nat /\ p.fatigue \in Int
  BY DEF PlayerState
<1>2. CASE given = {}
  <2>1. p = [p EXCEPT !.fatigue = p.fatigue]
    BY DEF PlayerState
  <2> QED
    BY <1>1, <1>2, <2>1 DEF WearOff
<1>3. CASE given # {}
  <2>1. PICK m \in Nat : m = CHOOSE x \in given : TRUE
    BY <1>1, <1>3
  <2>2. WearOff(p, infusions) = [p EXCEPT !.fatigue = p.fatigue - Least(m, Most(0, p.fatigue))]
    BY <1>3, <2>1 DEF WearOff, PlayerState
  <2> HIDE DEF given
  <2>3. PICK fatigue \in Int : /\ fatigue = p.fatigue - Least(m, Most(0, p.fatigue))
                               /\ MinFatigue <= fatigue /\ fatigue <= MaxFatigue
    BY <1>1, BoundsAreIntegers DEF Least, Most
  <2> QED
    BY <2>2, <2>3
<1> QED
  BY <1>2, <1>3

(* What time does to a profile.                                             *)
LEMMA AgesFollows ==
    ASSUME NEW s \in Nat, NEW t \in Nat, s <= t, NEW p, SoundPlayer(p, s),
           NEW infusions, \A e \in infusions : e.magnitude \in Nat
    PROVE  Ages(p, WearOff(NewDay(DecayKarma(p, t), t), infusions), t)
<1> DEFINE d == DecayKarma(p, t)
           n == NewDay(d, t)
           q == WearOff(n, infusions)
<1>1. /\ d \in PlayerState /\ Endures(p, d)
      /\ d.fatigue = p.fatigue /\ d.day = p.day /\ d.confiscated = p.confiscated
      /\ MinKarma <= d.karma /\ d.karma <= MaxKarma
      /\ d.karma = 0 <=> d.decays = Never
      /\ d.decays = Never \/ d.decays \in t+1..t+KarmaPeriod
  BY DecayFollows
<1>2. SoundWeapon(p) /\ SoundLevel(p) /\ SoundRest(p, s) /\ p \in PlayerState
  BY SoundParts DEF SoundPlayer
<1> HIDE DEF d
<1>3. /\ n \in PlayerState /\ n.day = DayOf(t)
      /\ n.level = p.level /\ n.experience = p.experience /\ n.upgrades = p.upgrades
      /\ n.credit = p.credit /\ n.shots = p.shots /\ n.permanent = p.permanent /\ n.hits = p.hits
      /\ n.capacity = p.capacity /\ n.magazineCapacity = p.magazineCapacity
      /\ n.jammed = p.jammed /\ n.karma = d.karma /\ n.decays = d.decays
      /\ n.caused = p.caused /\ n.received = p.received /\ n.survived = p.survived
      /\ n.deaths = p.deaths
      /\ p.day = DayOf(t) => /\ n.confiscated = p.confiscated /\ n.ammo = p.ammo
                             /\ n.magazines = p.magazines /\ n.fatigue = p.fatigue
      /\ p.day # DayOf(t) => /\ n.magazines = n.magazineCapacity /\ n.ammo = n.capacity
                             /\ n.fatigue = 0 /\ n.confiscated = n.permanent
  <2>1. CASE p.day = DayOf(t)
    <3>1. n = d
      BY <1>1, <2>1 DEF NewDay
    <3> HIDE DEF n
    <3> QED
      BY <1>1, <2>1, <3>1 DEF Endures, Lives, SameWealth
  <2>2. CASE p.day # DayOf(t)
    <3>1. PICK day \in Int : day = DayOf(t)
      BY DayOfInt
    <3>2. n = [d EXCEPT !.ammo = d.capacity, !.magazines = d.magazineCapacity,
                   !.confiscated = d.permanent, !.carried = 0, !.day = day, !.fatigue = 0]
      BY <1>1, <2>2, <3>1 DEF NewDay
    <3> HIDE DEF n
    <3>3. n \in PlayerState
      <4>1. PICK ammo \in Nat, magazines \in Nat, confiscated \in BOOLEAN :
               /\ ammo = d.capacity /\ magazines = d.magazineCapacity
               /\ confiscated = d.permanent
        BY <1>1 DEF PlayerState
      <4> DEFINE e == [d EXCEPT !.ammo = ammo, !.magazines = magazines, !.day = day]
      <4>2. n = [e EXCEPT !.confiscated = confiscated, !.carried = 0, !.fatigue = 0]
        BY <1>1, <3>2, <4>1 DEF PlayerState
      <4>3. e \in PlayerState
        BY <1>1 DEF PlayerState
      <4> HIDE DEF e, q
      <4>4. PICK none \in Nat, rested \in Int : none = 0 /\ rested = 0
        OBVIOUS
      <4> DEFINE f == [e EXCEPT !.carried = none, !.fatigue = rested]
      <4>5. n = [f EXCEPT !.confiscated = confiscated]
        BY <4>2, <4>3, <4>4 DEF PlayerState
      <4>6. f \in PlayerState
        BY <4>3 DEF PlayerState
      <4> HIDE DEF f
      <4> QED
        BY <4>5, <4>6 DEF PlayerState
    <3>4. /\ n.ammo = d.capacity /\ n.magazines = d.magazineCapacity /\ n.confiscated = d.permanent
          /\ n.day = day /\ n.fatigue = 0 /\ n.level = d.level /\ n.experience = d.experience
          /\ n.credit = d.credit /\ n.shots = d.shots /\ n.permanent = d.permanent
          /\ n.capacity = d.capacity /\ n.magazineCapacity = d.magazineCapacity
          /\ n.upgrades = d.upgrades /\ n.jammed = d.jammed /\ n.karma = d.karma
          /\ n.decays = d.decays /\ n.caused = d.caused /\ n.received = d.received
          /\ n.survived = d.survived /\ n.deaths = d.deaths /\ n.hits = d.hits
      BY <1>1, <3>2 DEF PlayerState
    <3> QED
      BY <1>1, <2>2, <3>1, <3>3, <3>4 DEF Endures, Lives, SameWealth
  <2> QED
    BY <2>1, <2>2
<1> HIDE DEF n
<1>4. MinFatigue <= n.fatigue /\ n.fatigue <= MaxFatigue
  BY <1>2, <1>3, BoundsAreIntegers DEF SoundRest
<1>5. PICK fatigue \in Int : /\ MinFatigue <= fatigue /\ fatigue <= MaxFatigue
                             /\ q = [n EXCEPT !.fatigue = fatigue]
  BY <1>3, <1>4, WearOffFatigue
<1> HIDE DEF q
<1>6. /\ q \in PlayerState /\ q.fatigue = fatigue /\ q.day = n.day /\ q.level = n.level
      /\ q.experience = n.experience /\ q.upgrades = n.upgrades /\ q.credit = n.credit
      /\ q.shots = n.shots /\ q.permanent = n.permanent /\ q.confiscated = n.confiscated
      /\ q.ammo = n.ammo /\ q.capacity = n.capacity /\ q.magazines = n.magazines
      /\ q.magazineCapacity = n.magazineCapacity /\ q.jammed = n.jammed /\ q.karma = n.karma
      /\ q.decays = n.decays /\ q.caused = n.caused /\ q.received = n.received
      /\ q.survived = n.survived /\ q.deaths = n.deaths /\ q.hits = n.hits
  BY <1>3, <1>5 DEF PlayerState
<1>7. SoundLevel(q) /\ SoundWeapon(q)
  <2>1. q.capacity \in Nat /\ q.magazineCapacity \in Nat
    BY <1>6 DEF PlayerState
  <2> QED
    BY <1>2, <1>3, <1>6, <2>1 DEF SoundLevel, SoundWeapon
<1>8. SoundRest(q, t)
  <2>1. OfToday(q, t)
    BY <1>1, <1>3, <1>6 DEF OfToday
  <2>2. q.permanent => q.confiscated
    BY <1>2, <1>3, <1>6 DEF SoundRest
  <2> QED
    BY <1>1, <1>3, <1>5, <1>6, <2>1, <2>2 DEF SoundRest
<1>9. (WeaponFits(p) => WeaponFits(q)) /\ Balances(p, q)
  BY <1>3, <1>6 DEF WeaponFits, Balances, Balanced
<1>10. SoundPlayer(q, t)
  BY <1>6, <1>7, <1>8, SoundParts
<1> QED
  BY <1>3, <1>6, <1>9, <1>10 DEF Ages, Keeps, SameWealth, q, n, d

=============================================================================
