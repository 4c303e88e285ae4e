----------------------------- MODULE BackendProofs -----------------------------
(***************************************************************************)
(* What is answered is so, for any number of articles, sales, days,        *)
(* accounts, expenses, windows of collecting and items: the report of      *)
(* articles (Accruals), the month of the marketplaces (Pnl), buyouts       *)
(* (Buyouts), pushes of stocks (StockPush), and the three of them together *)
(* as MCBackend runs them; what a change of a price waits for              *)
(* (PriceSnapshot); and the rows that are kept of what a marketplace       *)
(* answers (RawRows).                                                      *)
(*                                                                         *)
(* The sums are folds of the community modules.  What a fold over a finite *)
(* set computes is proved of a smallest set for which it would not.        *)
(***************************************************************************)
EXTENDS MCBackend, RawRows, FiniteSetTheorems, WellFoundedInduction, TLAPS

-----------------------------------------------------------------------------
(* Sums over finite sets, and a sum that is shared out (Money) *)

SumChoice(T) == CHOOSE x \in T : TRUE
\* What the fold computes: the sums of the subsets of S, each from one of its elements and the rest.
IsSums(g, f, D) ==
  g = [T \in D |-> IF T = {} THEN 0 ELSE f[SumChoice(T)] + g[T \ {SumChoice(T)}]]
SumFcn(f, S) == CHOOSE g : IsSums(g, f, SUBSET S)

\* The sum is the value at S of the function the fold is defined with.
LEMMA SumIs ==
  ASSUME NEW f, NEW S
  PROVE  SumOver(f, S) = SumFcn(f, S)[S]
BY DEF SumOver, MapThenSumSet, MapThenFoldSet, SumFcn, SumChoice, IsSums

\* Among sets of numbers one is least.
LEMMA LeastOf ==
  ASSUME NEW T \in SUBSET Nat, T # {}
  PROVE  \E m \in T : \A y \in T : m <= y
<1>1. \E m \in T : \A y \in T : ~ (<<y, m>> \in OpToRel(<, Nat))
  BY NatLessThanWellFounded, WFMin
<1>2. PICK m \in T : \A y \in T : ~ (<<y, m>> \in OpToRel(<, Nat))
  BY <1>1
<1>3. \A y \in T : ~ (y < m)
  BY <1>2 DEF OpToRel
<1> QED
  BY <1>3

\* If some subsets of a finite set are bad, one of them has no bad part.
LEMMA SmallestOf ==
  ASSUME NEW S, IsFiniteSet(S), NEW Bad \in SUBSET (SUBSET S), Bad # {}
  PROVE  \E T \in Bad : IsFiniteSet(T) /\ \A x \in T : T \ {x} \notin Bad
<1> DEFINE N == {Cardinality(T) : T \in Bad}
<1>1. \A T \in Bad : IsFiniteSet(T) /\ Cardinality(T) \in Nat
  BY FS_Subset, FS_CardinalityType
<1>2. N \in SUBSET Nat /\ N # {}
  BY <1>1
<1>3. PICK n \in N : \A m \in N : n <= m
  BY <1>2, LeastOf
<1>4. PICK T \in Bad : n = Cardinality(T)
  OBVIOUS
<1>5. ASSUME NEW x \in T, T \ {x} \in Bad
      PROVE  FALSE
  <2>1. Cardinality(T \ {x}) = Cardinality(T) - 1
    BY <1>1, FS_RemoveElement
  <2>2. n <= Cardinality(T \ {x})
    BY <1>3, <1>5
  <2> QED
    BY <2>1, <2>2, <1>1, <1>4
<1> QED
  BY <1>1, <1>5

\* For the subsets of at most n elements the function exists.
LEMMA SumLevel ==
  ASSUME NEW f, NEW S, IsFiniteSet(S), NEW n \in Nat
  PROVE  \E g : IsSums(g, f, {T \in SUBSET S : Cardinality(T) <= n})
<1> DEFINE D(k) == {T \in SUBSET S : Cardinality(T) <= k}
           Short == {k \in Nat : ~ \E g : IsSums(g, f, D(k))}
<1>1. \A T \in SUBSET S : IsFiniteSet(T) /\ Cardinality(T) \in Nat
  BY FS_Subset, FS_CardinalityType
<1>2. SUFFICES ASSUME Short # {} PROVE FALSE
  OBVIOUS
<1>3. PICK k \in Short : \A j \in Short : k <= j
  BY <1>2, LeastOf
<1>4. CASE k = 0
  <2> DEFINE g == [T \in D(0) |-> 0]
  <2>1. \A T \in D(0) : T = {}
    BY <1>1, FS_EmptySet
  <2>2. IsSums(g, f, D(0))
    BY <2>1 DEF IsSums
  <2> QED
    BY <2>2, <1>4
<1>5. CASE k # 0
  <2>1. k - 1 \in Nat /\ k \in Nat
    BY <1>5
  <2>2. k - 1 \notin Short
    <3>1. ~ (k <= k - 1)
      BY <2>1
    <3> HIDE DEF Short
    <3> QED
      BY <1>3, <3>1
  <2>3. PICK h : IsSums(h, f, D(k - 1))
    BY <2>1, <2>2
  <2> DEFINE g == [T \in D(k) |-> IF T = {} THEN 0
                                  ELSE f[SumChoice(T)] + h[T \ {SumChoice(T)}]]
  <2>4. D(k - 1) \subseteq D(k)
    BY <1>1, <2>1
  <2>5. \A T \in D(k - 1) : g[T] = h[T]
    <3> TAKE T \in D(k - 1)
    <3>1. T \in D(k)
      BY <2>4
    <3>2. g[T] = IF T = {} THEN 0 ELSE f[SumChoice(T)] + h[T \ {SumChoice(T)}]
      BY <3>1
    <3>3. h[T] = IF T = {} THEN 0 ELSE f[SumChoice(T)] + h[T \ {SumChoice(T)}]
      BY <2>3 DEF IsSums
    <3> QED
      BY <3>2, <3>3
  <2>6. \A T \in D(k) : T # {} => T \ {SumChoice(T)} \in D(k - 1)
    <3> TAKE T \in D(k)
    <3> HAVE T # {}
    <3>1. SumChoice(T) \in T
      BY DEF SumChoice
    <3>2. Cardinality(T \ {SumChoice(T)}) = Cardinality(T) - 1
      BY <3>1, <1>1, FS_RemoveElement
    <3> QED
      BY <3>2, <1>1, <2>1
  <2>7. IsSums(g, f, D(k))
    <3>1. \A T \in D(k) : T # {} => h[T \ {SumChoice(T)}] = g[T \ {SumChoice(T)}]
      BY <2>5, <2>6
    <3> HIDE DEF D
    <3>2. g = [T \in D(k) |-> IF T = {} THEN 0 ELSE f[SumChoice(T)] + g[T \ {SumChoice(T)}]]
      BY <3>1
    <3> QED
      BY <3>2 DEF IsSums
  <2> QED
    BY <2>7
<1> QED
  BY <1>4, <1>5

\* The function of the fold exists.
LEMMA SumDefined ==
  ASSUME NEW f, NEW S, IsFiniteSet(S)
  PROVE  IsSums(SumFcn(f, S), f, SUBSET S)
<1>1. Cardinality(S) \in Nat /\ \A T \in SUBSET S : Cardinality(T) <= Cardinality(S)
  BY FS_Subset, FS_CardinalityType
<1>2. {T \in SUBSET S : Cardinality(T) <= Cardinality(S)} = SUBSET S
  BY <1>1
<1>3. \E g : IsSums(g, f, SUBSET S)
  <2>1. \E g : IsSums(g, f, {T \in SUBSET S : Cardinality(T) <= Cardinality(S)})
    <3>1. \A n \in Nat : \E g : IsSums(g, f, {T \in SUBSET S : Cardinality(T) <= n})
      BY SumLevel
    <3> QED
      BY <1>1, <3>1
  <2> QED
    BY <2>1, <1>2
<1> QED
  BY <1>3 DEF SumFcn

\* The value at a set does not depend on the domain.
LEMMA SumAgrees ==
  ASSUME NEW f, NEW S, IsFiniteSet(S), NEW R \in SUBSET S
  PROVE  SumFcn(f, S)[R] = SumOver(f, R)
<1> DEFINE g == SumFcn(f, S)
           h == SumFcn(f, R)
           Bad == {T \in SUBSET R : g[T] # h[T]}
<1>1. IsSums(g, f, SUBSET S) /\ IsSums(h, f, SUBSET R)
  BY SumDefined, FS_Subset
<1>2. ASSUME Bad # {} PROVE FALSE
  <2>1. IsFiniteSet(R)
    BY FS_Subset
  <2>2. PICK T \in Bad : \A x \in T : T \ {x} \notin Bad
    BY <1>2, <2>1, SmallestOf
  <2> HIDE DEF g, h
  <2>3. g[T] = IF T = {} THEN 0 ELSE f[SumChoice(T)] + g[T \ {SumChoice(T)}]
    BY <1>1 DEF IsSums
  <2>4. h[T] = IF T = {} THEN 0 ELSE f[SumChoice(T)] + h[T \ {SumChoice(T)}]
    BY <1>1 DEF IsSums
  <2>5. T # {} => SumChoice(T) \in T
    BY DEF SumChoice
  <2>6. T # {} => g[T \ {SumChoice(T)}] = h[T \ {SumChoice(T)}]
    BY <2>2, <2>5
  <2> QED
    BY <2>3, <2>4, <2>6
<1>3. g[R] = h[R]
  BY <1>2
<1> QED
  BY <1>3, SumIs

\* Nothing adds up to nothing.
LEMMA SumEmpty ==
  ASSUME NEW f
  PROVE  SumOver(f, {}) = 0
<1>1. IsSums(SumFcn(f, {}), f, SUBSET {})
  BY SumDefined, FS_EmptySet
<1> QED
  BY <1>1, SumIs DEF IsSums

\* The sum is that of one element and the others.
LEMMA SumStepChosen ==
  ASSUME NEW f, NEW S, IsFiniteSet(S), S # {}
  PROVE  SumOver(f, S) = f[SumChoice(S)] + SumOver(f, S \ {SumChoice(S)})
<1> DEFINE x == SumChoice(S)
<1>1. x \in S
  BY DEF SumChoice
<1>2. SumFcn(f, S)[S] = f[x] + SumFcn(f, S)[S \ {x}]
  <2> DEFINE g == SumFcn(f, S)
  <2>1. IsSums(g, f, SUBSET S)
    BY SumDefined
  <2> HIDE DEF g
  <2>2. g[S] = IF S = {} THEN 0 ELSE f[SumChoice(S)] + g[S \ {SumChoice(S)}]
    BY <2>1 DEF IsSums
  <2> QED
    BY <2>2 DEF g
<1>3. SumFcn(f, S)[S \ {x}] = SumOver(f, S \ {x})
  BY SumAgrees
<1> QED
  BY <1>1, <1>2, <1>3, SumIs

\* Integers add up to an integer.
LEMMA SumInt ==
  ASSUME NEW f, NEW S, IsFiniteSet(S), \A x \in S : f[x] \in Int
  PROVE  SumOver(f, S) \in Int
<1> DEFINE Bad == {T \in SUBSET S : SumOver(f, T) \notin Int}
<1>1. ASSUME Bad # {} PROVE FALSE
  <2>1. PICK T \in Bad : IsFiniteSet(T) /\ \A x \in T : T \ {x} \notin Bad
    BY <1>1, SmallestOf
  <2>2. T # {}
    BY SumEmpty
  <2>3. PICK x \in T : SumOver(f, T) = f[x] + SumOver(f, T \ {x})
    BY <2>1, <2>2, SumStepChosen DEF SumChoice
  <2>4. SumOver(f, T \ {x}) \in Int /\ f[x] \in Int
    BY <2>1
  <2> QED
    BY <2>3, <2>4
<1> QED
  BY <1>1

\* Any element may be taken out first.
LEMMA SumRemove ==
  ASSUME NEW f, NEW S, IsFiniteSet(S), \A x \in S : f[x] \in Int, NEW e \in S
  PROVE  SumOver(f, S) = f[e] + SumOver(f, S \ {e})
<1> DEFINE Bad == {T \in SUBSET S : \E x \in T : SumOver(f, T) # f[x] + SumOver(f, T \ {x})}
<1>1. ASSUME Bad # {} PROVE FALSE
  <2>1. PICK T \in Bad : IsFiniteSet(T) /\ \A x \in T : T \ {x} \notin Bad
    BY <1>1, SmallestOf
  <2>2. PICK x \in T : SumOver(f, T) # f[x] + SumOver(f, T \ {x})
    OBVIOUS
  <2>3. PICK y \in T : SumOver(f, T) = f[y] + SumOver(f, T \ {y})
    BY <2>1, <2>2, SumStepChosen DEF SumChoice
  <2>4. x # y
    BY <2>2, <2>3
  <2>5. SumOver(f, T \ {y}) = f[x] + SumOver(f, (T \ {y}) \ {x})
    BY <2>1, <2>4
  <2>6. SumOver(f, T \ {x}) = f[y] + SumOver(f, (T \ {x}) \ {y})
    BY <2>1, <2>4
  <2>7. (T \ {y}) \ {x} = (T \ {x}) \ {y}
    OBVIOUS
  <2> DEFINE r == SumOver(f, (T \ {x}) \ {y})
  <2>8. r \in Int
    <3>1. IsFiniteSet((T \ {x}) \ {y}) /\ \A z \in (T \ {x}) \ {y} : f[z] \in Int
      BY <2>1, FS_Subset
    <3> QED
      BY <3>1, SumInt
  <2>9. f[x] \in Int /\ f[y] \in Int
    OBVIOUS
  <2>10. SumOver(f, T) = f[y] + (f[x] + r) /\ SumOver(f, T \ {x}) = f[y] + r
    BY <2>3, <2>5, <2>6, <2>7
  <2> HIDE DEF r
  <2>11. SumOver(f, T) = f[x] + SumOver(f, T \ {x})
    BY <2>8, <2>9, <2>10
  <2> QED
    BY <2>2, <2>11
<1> QED
  BY <1>1

\* Equal values have equal sums.
LEMMA SumSame ==
  ASSUME NEW f, NEW g, NEW S, IsFiniteSet(S), \A x \in S : f[x] = g[x]
  PROVE  SumOver(f, S) = SumOver(g, S)
<1> DEFINE Bad == {T \in SUBSET S : SumOver(f, T) # SumOver(g, T)}
<1>1. ASSUME Bad # {} PROVE FALSE
  <2>1. PICK T \in Bad : IsFiniteSet(T) /\ \A x \in T : T \ {x} \notin Bad
    BY <1>1, SmallestOf
  <2>2. T # {}
    BY SumEmpty
  <2> DEFINE x == SumChoice(T)
  <2>3. x \in T
    BY <2>2 DEF SumChoice
  <2>4. SumOver(f, T) = f[x] + SumOver(f, T \ {x}) /\ SumOver(g, T) = g[x] + SumOver(g, T \ {x})
    BY <2>1, <2>2, SumStepChosen
  <2>5. SumOver(f, T \ {x}) = SumOver(g, T \ {x}) /\ f[x] = g[x]
    BY <2>1, <2>3
  <2> QED
    BY <2>4, <2>5
<1> QED
  BY <1>1

\* The sum of the sums.
LEMMA SumPlus ==
  ASSUME NEW f, NEW g, NEW h, NEW S, IsFiniteSet(S),
         \A x \in S : f[x] \in Int /\ g[x] \in Int /\ h[x] = f[x] + g[x]
  PROVE  SumOver(h, S) = SumOver(f, S) + SumOver(g, S)
<1> DEFINE Bad == {T \in SUBSET S : SumOver(h, T) # SumOver(f, T) + SumOver(g, T)}
<1>1. ASSUME Bad # {} PROVE FALSE
  <2>1. PICK T \in Bad : IsFiniteSet(T) /\ \A x \in T : T \ {x} \notin Bad
    BY <1>1, SmallestOf
  <2>2. T # {}
    <3>1. SumOver(f, {}) = 0 /\ SumOver(g, {}) = 0 /\ SumOver(h, {}) = 0
      BY SumEmpty
    <3>2. SumOver(h, {}) = SumOver(f, {}) + SumOver(g, {})
      BY <3>1
    <3> QED
      BY <3>2
  <2> DEFINE x == SumChoice(T)
  <2>3. x \in T
    BY <2>2 DEF SumChoice
  <2>4. /\ SumOver(f, T) = f[x] + SumOver(f, T \ {x}) /\ SumOver(g, T) = g[x] + SumOver(g, T \ {x})
        /\ SumOver(h, T) = h[x] + SumOver(h, T \ {x})
    BY <2>1, <2>2, SumStepChosen
  <2>5. SumOver(h, T \ {x}) = SumOver(f, T \ {x}) + SumOver(g, T \ {x})
    BY <2>1, <2>3
  <2>6. /\ f[x] \in Int /\ g[x] \in Int /\ h[x] = f[x] + g[x]
        /\ SumOver(f, T \ {x}) \in Int /\ SumOver(g, T \ {x}) \in Int
    <3>1. IsFiniteSet(T \ {x}) /\ \A y \in T \ {x} : f[y] \in Int /\ g[y] \in Int
      BY <2>1, FS_Subset
    <3> QED
      BY <3>1, <2>3, SumInt
  <2> HIDE DEF x
  <2>7. SumOver(h, T) = SumOver(f, T) + SumOver(g, T)
    BY <2>4, <2>5, <2>6
  <2> QED
    BY <2>7
<1> QED
  BY <1>1

\* A sum of which one term changes.
LEMMA SumChange ==
  ASSUME NEW f, NEW g, NEW S, IsFiniteSet(S), NEW e \in S,
         \A x \in S : f[x] \in Int /\ g[x] \in Int,
         \A x \in S \ {e} : f[x] = g[x]
  PROVE  SumOver(g, S) = SumOver(f, S) - f[e] + g[e]
<1>1. IsFiniteSet(S \ {e})
  BY FS_Subset
<1>2. SumOver(f, S) = f[e] + SumOver(f, S \ {e}) /\ SumOver(g, S) = g[e] + SumOver(g, S \ {e})
  BY SumRemove
<1>3. SumOver(f, S \ {e}) = SumOver(g, S \ {e}) /\ SumOver(f, S \ {e}) \in Int
  BY <1>1, SumSame, SumInt
<1>4. f[e] \in Int /\ g[e] \in Int
  OBVIOUS
<1> QED
  BY <1>2, <1>3, <1>4

\* A new term.
LEMMA SumAdd ==
  ASSUME NEW f, NEW S, IsFiniteSet(S), NEW e, e \notin S, \A x \in S \cup {e} : f[x] \in Int
  PROVE  SumOver(f, S \cup {e}) = f[e] + SumOver(f, S)
<1>1. IsFiniteSet(S \cup {e}) /\ (S \cup {e}) \ {e} = S
  BY FS_AddElement
<1> QED
  BY <1>1, SumRemove

\* The sum of a table, taken by columns and taken by rows.
SumByCols(m, R, C) == SumOver([c \in C |-> SumOver([r \in R |-> m[r][c]], R)], C)
SumByRows(m, R, C) == SumOver([r \in R |-> SumOver([c \in C |-> m[r][c]], C)], R)

\* They are the same.
LEMMA SumExchange ==
  ASSUME NEW m, NEW R, NEW C, IsFiniteSet(R), IsFiniteSet(C),
         \A r \in R, c \in C : m[r][c] \in Int
  PROVE  SumByCols(m, R, C) = SumByRows(m, R, C)
<1> DEFINE col(T) == [c \in C |-> SumOver([r \in R |-> m[r][c]], T)]
           row == [r \in R |-> SumOver([c \in C |-> m[r][c]], C)]
           Bad == {T \in SUBSET R : SumOver(col(T), C) # SumOver(row, T)}
<1>0. \A T \in SUBSET R : IsFiniteSet(T) /\ \A c \in C : col(T)[c] \in Int
  <2> TAKE T \in SUBSET R
  <2>1. IsFiniteSet(T)
    BY FS_Subset
  <2>2. ASSUME NEW c \in C PROVE SumOver([r \in R |-> m[r][c]], T) \in Int
    <3> DEFINE v == [r \in R |-> m[r][c]]
    <3>1. \A r \in T : v[r] \in Int
      OBVIOUS
    <3> HIDE DEF v
    <3>2. SumOver(v, T) \in Int
      BY <2>1, <3>1, SumInt
    <3> QED
      BY <3>2 DEF v
  <2> QED
    BY <2>1, <2>2
<1>1. ASSUME Bad # {} PROVE FALSE
  <2>1. PICK T \in Bad : IsFiniteSet(T) /\ \A x \in T : T \ {x} \notin Bad
    BY <1>1, SmallestOf
  <2>2. CASE T = {}
    <3> DEFINE z == col({})
    <3>1. \A c \in C : z[c] = 0
      BY SumEmpty
    <3> HIDE DEF z
    <3>2. SumOver(z, C) = 0
      <4> DEFINE n == SumOver(z, C)
      <4>1. n = n + n
        BY <3>1, SumPlus
      <4>2. n \in Int
        BY <3>1, SumInt
      <4> HIDE DEF n
      <4>3. n = 0
        BY <4>1, <4>2
      <4> QED
        BY <4>3 DEF n
    <3>3. SumOver(row, {}) = 0
      BY SumEmpty
    <3> QED
      BY <2>2, <3>2, <3>3 DEF z
  <2>3. CASE T # {}
    <3>1. PICK x \in T : TRUE
      BY <2>3
    <3> DEFINE U == T \ {x}
               a == col(T)
               b == col(U)
               v == [c \in C |-> m[x][c]]
    <3>2. U \in SUBSET R /\ x \in R /\ T \in SUBSET R
      OBVIOUS
    <3>3. \A c \in C : a[c] = v[c] + b[c]
      <4> TAKE c \in C
      <4> DEFINE w == [r \in R |-> m[r][c]]
      <4>1. \A r \in T : w[r] \in Int
        OBVIOUS
      <4>2. w[x] = v[c]
        OBVIOUS
      <4> HIDE DEF w
      <4>3. SumOver(w, T) = w[x] + SumOver(w, T \ {x})
        BY <2>1, <4>1, SumRemove
      <4> QED
        BY <4>2, <4>3 DEF w
    <3>4. \A c \in C : v[c] \in Int /\ b[c] \in Int
      BY <1>0, <3>2
    <3>5. row[x] = SumOver(v, C)
      BY <3>2
    <3>6. \A r \in R : row[r] \in Int
      <4> TAKE r \in R
      <4> DEFINE w == [c \in C |-> m[r][c]]
      <4>1. \A c \in C : w[c] \in Int
        OBVIOUS
      <4> HIDE DEF w
      <4>2. SumOver(w, C) \in Int
        BY <4>1, SumInt
      <4> QED
        BY <4>2 DEF w
    <3>7. SumOver(b, C) = SumOver(row, U)
      BY <2>1, <3>2
    <3> HIDE DEF a, b, v, row
    <3>8. SumOver(a, C) = SumOver(v, C) + SumOver(b, C)
      BY <3>3, <3>4, SumPlus
    <3>9. SumOver(row, T) = row[x] + SumOver(row, U)
      BY <2>1, <3>2, <3>6, SumRemove
    <3>10. SumOver(a, C) = SumOver(row, T)
      BY <3>5, <3>7, <3>8, <3>9
    <3> QED
      BY <3>10 DEF a
  <2> QED
    BY <2>2, <2>3
<1>2. R \notin Bad
  BY <1>1
<1>3. SumOver(col(R), C) = SumOver(row, R)
  BY <1>2
<1> QED
  BY <1>3 DEF SumByCols, SumByRows

\* Sums of what is not negative are not.
LEMMA SumNat ==
  ASSUME NEW f, NEW S, IsFiniteSet(S), \A x \in S : f[x] \in Nat
  PROVE  SumOver(f, S) \in Nat
<1> DEFINE Bad == {T \in SUBSET S : SumOver(f, T) \notin Nat}
<1>1. ASSUME Bad # {} PROVE FALSE
  <2>1. PICK T \in Bad : IsFiniteSet(T) /\ \A x \in T : T \ {x} \notin Bad
    BY <1>1, SmallestOf
  <2>2. T # {}
    BY SumEmpty
  <2>3. PICK x \in T : SumOver(f, T) = f[x] + SumOver(f, T \ {x})
    BY <2>1, <2>2, SumStepChosen DEF SumChoice
  <2>4. SumOver(f, T \ {x}) \in Nat /\ f[x] \in Nat
    BY <2>1
  <2> QED
    BY <2>3, <2>4
<1> QED
  BY <1>1

\* What is nothing outside a part adds up to what the part does.
LEMMA SumPart ==
  ASSUME NEW f, NEW S, IsFiniteSet(S), NEW T \in SUBSET S,
         \A x \in T : f[x] \in Int, \A x \in S \ T : f[x] = 0
  PROVE  SumOver(f, S) = SumOver(f, T)
<1> DEFINE Bad == {U \in SUBSET (S \ T) : SumOver(f, T \cup U) # SumOver(f, T)}
<1>1. IsFiniteSet(S \ T) /\ IsFiniteSet(T)
  BY FS_Subset
<1>2. ASSUME Bad # {} PROVE FALSE
  <2>1. PICK U \in Bad : IsFiniteSet(U) /\ \A x \in U : U \ {x} \notin Bad
    BY <1>1, <1>2, SmallestOf
  <2>2. PICK x \in U : TRUE
    <3>1. U # {}
      <4>1. T \cup {} = T
        OBVIOUS
      <4> QED
        BY <4>1
    <3> QED
      BY <3>1
  <2>3. U \ {x} \in SUBSET (S \ T) /\ T \cup U = (T \cup (U \ {x})) \cup {x}
    OBVIOUS
  <2>4. SumOver(f, T \cup (U \ {x})) = SumOver(f, T)
    BY <2>1, <2>3
  <2> DEFINE V == T \cup (U \ {x})
  <2>5. IsFiniteSet(V) /\ x \notin V /\ f[x] = 0 /\ \A y \in V \cup {x} : f[y] \in Int
    <3>1. V \in SUBSET S
      OBVIOUS
    <3>2. \A y \in V \cup {x} : y \in T \/ y \in S \ T
      OBVIOUS
    <3> QED
      BY <3>1, <3>2, FS_Subset
  <2> HIDE DEF V
  <2>6. SumOver(f, V \cup {x}) = f[x] + SumOver(f, V)
    BY <2>5, SumAdd
  <2>7. SumOver(f, V) \in Int
    BY <2>5, SumInt
  <2>8. SumOver(f, V \cup {x}) = SumOver(f, V)
    BY <2>5, <2>6, <2>7
  <2> QED
    BY <2>3, <2>4, <2>8 DEF V
<1>3. S \ T \notin Bad /\ T \cup (S \ T) = S
  BY <1>2
<1> QED
  BY <1>3

\* A sum of one term.
LEMMA SumOne ==
  ASSUME NEW f, NEW e, f[e] \in Int
  PROVE  SumOver(f, {e}) = f[e]
<1>1. IsFiniteSet({e}) /\ {e} \ {e} = {}
  BY FS_Singleton
<1>2. SumOver(f, {e}) = f[e] + SumOver(f, {e} \ {e})
  BY <1>1, SumRemove
<1>3. SumOver(f, {e} \ {e}) = 0
  BY <1>1, SumEmpty
<1> QED
  BY <1>2, <1>3

-----------------------------------------------------------------------------
\* Half-up rounding of n / d gives whole kopecks.
LEMMA RoundIsInt ==
  ASSUME NEW n \in Int, NEW d \in Int, d # 0
  PROVE  MnRound(n, d) \in Int
<1> DEFINE b == 2 * MnAbs(d)
           a == 2 * MnAbs(n) + MnAbs(d)
<1>1. b \in Nat /\ b > 0 /\ a \in Nat
  BY DEF MnAbs
<1> HIDE DEF a, b
<1>2. a \div b \in Int
  BY <1>1
<1>3. MnRound(n, d) = a \div b \/ MnRound(n, d) = - (a \div b)
  BY DEF MnRound, a, b
<1> QED
  BY <1>2, <1>3

\* Weights that add up to nothing are replaced by ones that do not.
LEMMA WeightsAddUp ==
  ASSUME NEW weight, NEW keys, IsFiniteSet(keys), keys # {}, \A k \in keys : weight[k] \in Int
  PROVE  /\ \A k \in keys : MnWeights(weight, keys)[k] \in Int
         /\ SumOver(MnWeights(weight, keys), keys) \in Int \ {0}
<1>1. CASE SumOver(weight, keys) = 0
  <2> DEFINE w == [k \in keys |-> 1]
  <2>1. MnWeights(weight, keys) = w
    BY <1>1 DEF MnWeights
  <2>2. \A k \in keys : w[k] = 1
    OBVIOUS
  <2> HIDE DEF w
  <2>3. PICK e \in keys : TRUE
    OBVIOUS
  <2>4. SumOver(w, keys) = w[e] + SumOver(w, keys \ {e})
    BY <2>2, SumRemove
  <2>5. SumOver(w, keys \ {e}) \in Nat
    <3>1. IsFiniteSet(keys \ {e})
      BY FS_Subset
    <3> QED
      BY <2>2, <3>1, SumNat
  <2> QED
    BY <2>1, <2>2, <2>4, <2>5
<1>2. CASE SumOver(weight, keys) # 0
  <2>1. SumOver(weight, keys) \in Int
    BY SumInt
  <2> QED
    BY <1>2, <2>1 DEF MnWeights
<1> QED
  BY <1>1, <1>2

\* allocate() shares the whole amount and nothing else, whatever the weights are and however the
\* parts are rounded.
LEMMA AllocateAddsUp ==
  ASSUME NEW amount \in Int, NEW weight, NEW keys, IsFiniteSet(keys),
         NEW last \in keys, \A k \in keys : weight[k] \in Int
  PROVE  /\ MnAllocate(amount, weight, keys, last) \in [keys -> Int]
         /\ SumOver(MnAllocate(amount, weight, keys, last), keys) = amount
<1> DEFINE w == MnWeights(weight, keys)
           t == SumOver(w, keys)
           parts == MnParts(amount, weight, keys)
           h == MnAllocate(amount, weight, keys, last)
           left == SumOver(parts, keys \ {last})
<1>1. (\A k \in keys : w[k] \in Int) /\ t \in Int /\ t # 0
  BY WeightsAddUp
<1>2. parts = [k \in keys |-> MnRound(amount * w[k], t)]
  BY DEF MnParts
<1> HIDE DEF w, t
<1>3. \A k \in keys : MnRound(amount * w[k], t) \in Int
  <2> TAKE k \in keys
  <2> DEFINE n == amount * w[k]
  <2>1. n \in Int
    BY <1>1
  <2> HIDE DEF n
  <2>2. MnRound(n, t) \in Int
    BY <1>1, <2>1, RoundIsInt
  <2> QED
    BY <2>2 DEF n
<1>4. parts \in [keys -> Int]
  BY <1>2, <1>3
<1>5. h = [parts EXCEPT ![last] = amount - left]
  BY DEF MnAllocate
<1> HIDE DEF parts, h
<1>6. IsFiniteSet(keys \ {last}) /\ left \in Int
  BY <1>4, FS_Subset, SumInt
<1>7. h \in [keys -> Int] /\ h[last] = amount - left /\ \A k \in keys \ {last} : h[k] = parts[k]
  <2> HIDE DEF left
  <2> QED
    BY <1>4, <1>5, <1>6
<1>8. SumOver(h, keys \ {last}) = left
  BY <1>6, <1>7, SumSame
<1>9. SumOver(h, keys) = h[last] + SumOver(h, keys \ {last})
  BY <1>7, SumRemove
<1>10. SumOver(h, keys) = amount
  <2> HIDE DEF left
  <2> QED
    BY <1>6, <1>7, <1>8, <1>9
<1> QED
  BY <1>7, <1>10 DEF h

\* The elements of S that a function takes to k, and what they add up to.
SumFibre(S, key, k) == {x \in S : key[x] = k}
SumByKey(f, S, key, K) == [k \in K |-> SumOver(f, SumFibre(S, key, k))]

\* A sum is that of the sums by key.
LEMMA SumFibres ==
  ASSUME NEW f, NEW S, IsFiniteSet(S), NEW K, IsFiniteSet(K), NEW key,
         \A x \in S : key[x] \in K /\ f[x] \in Int
  PROVE  SumOver(SumByKey(f, S, key, K), K) = SumOver(f, S)
<1> DEFINE m == [x \in S |-> [k \in K |-> IF key[x] = k THEN f[x] ELSE 0]]
           byKey == [k \in K |-> SumOver([x \in S |-> m[x][k]], S)]
           byOne == [x \in S |-> SumOver([k \in K |-> m[x][k]], K)]
<1>1. \A x \in S, k \in K : m[x][k] = IF key[x] = k THEN f[x] ELSE 0
  OBVIOUS
<1>2. \A x \in S, k \in K : m[x][k] \in Int
  BY <1>1
<1> HIDE DEF m
<1>3. SumOver(byKey, K) = SumOver(byOne, S)
  <2>1. SumByCols(m, S, K) = SumByRows(m, S, K)
    BY <1>2, SumExchange
  <2> QED
    BY <2>1 DEF SumByCols, SumByRows
<1>4. \A k \in K : byKey[k] = SumByKey(f, S, key, K)[k]
  <2> TAKE k \in K
  <2> DEFINE c == [x \in S |-> m[x][k]]
             F == SumFibre(S, key, k)
  <2>1. F \in SUBSET S /\ IsFiniteSet(F)
    BY FS_Subset DEF SumFibre
  <2>2. (\A x \in F : c[x] = f[x] /\ c[x] \in Int) /\ \A x \in S \ F : c[x] = 0
    BY <1>1, <1>2 DEF SumFibre
  <2> HIDE DEF c, F
  <2>3. SumOver(c, S) = SumOver(c, F)
    BY <2>1, <2>2, SumPart
  <2>4. SumOver(c, F) = SumOver(f, F)
    BY <2>1, <2>2, SumSame
  <2> QED
    BY <2>3, <2>4 DEF c, F, SumByKey
<1>5. \A x \in S : byOne[x] = f[x]
  <2> TAKE x \in S
  <2> DEFINE r == [k \in K |-> m[x][k]]
  <2>1. r[key[x]] = f[x] /\ f[x] \in Int /\ key[x] \in K /\ \A k \in K \ {key[x]} : r[k] = 0
    BY <1>1
  <2> HIDE DEF r
  <2>2. SumOver(r, K) = SumOver(r, {key[x]})
    BY <2>1, SumPart
  <2> QED
    BY <2>1, <2>2, SumOne DEF r
<1> HIDE DEF byKey, byOne
<1>6. SumOver(byKey, K) = SumOver(SumByKey(f, S, key, K), K)
  BY <1>4, SumSame
<1>7. SumOver(byOne, S) = SumOver(f, S)
  BY <1>5, SumSame
<1> QED
  BY <1>3, <1>6, <1>7

\* Smaller terms have a smaller sum.
LEMMA SumAtMost ==
  ASSUME NEW f, NEW g, NEW S, IsFiniteSet(S),
         \A x \in S : f[x] \in Int /\ g[x] \in Int /\ f[x] <= g[x]
  PROVE  SumOver(f, S) <= SumOver(g, S)
<1> DEFINE d == [x \in S |-> g[x] - f[x]]
<1>1. \A x \in S : d[x] \in Nat /\ d[x] \in Int /\ g[x] = f[x] + d[x]
  OBVIOUS
<1> HIDE DEF d
<1>2. SumOver(g, S) = SumOver(f, S) + SumOver(d, S)
  BY <1>1, SumPlus
<1>3. SumOver(d, S) \in Nat /\ SumOver(f, S) \in Int
  BY <1>1, SumNat, SumInt
<1> QED
  BY <1>2, <1>3

\* No term is larger than the sum.
LEMMA SumAtLeast ==
  ASSUME NEW f, NEW S, IsFiniteSet(S), NEW e \in S, \A x \in S : f[x] \in Nat
  PROVE  f[e] <= SumOver(f, S)
<1>1. SumOver(f, S) = f[e] + SumOver(f, S \ {e})
  BY SumRemove
<1>2. SumOver(f, S \ {e}) \in Nat
  <2>1. IsFiniteSet(S \ {e})
    BY FS_Subset
  <2> QED
    BY <2>1, SumNat
<1> QED
  BY <1>1, <1>2

\* The values of a function on a finite set.
SumImage(f, S) == {f[x] : x \in S}

\* They are finitely many.
LEMMA ImageFinite ==
  ASSUME NEW f, NEW S, IsFiniteSet(S)
  PROVE  IsFiniteSet(SumImage(f, S))
<1> DEFINE g == [x \in S |-> f[x]]
           T == SumImage(f, S)
<1>1. g \in Surjection(S, T)
  BY DEF SumImage, Surjection
<1> HIDE DEF g, T
<1>2. IsFiniteSet(T)
  BY <1>1, FS_Surjection
<1> QED
  BY <1>2 DEF T

\* Of some numbers up to a bound one is last.
LEMMA LastOf ==
  ASSUME NEW M \in Nat, NEW T \in SUBSET (0..M), T # {}
  PROVE  \E m \in T : \A y \in T : y <= m
<1> DEFINE R == {n \in Nat : M - n \in T}
<1>1. \A y \in T : M - y \in R
  <2> TAKE y \in T
  <2>1. y \in 0..M
    OBVIOUS
  <2>2. M - y \in Nat /\ M - (M - y) = y
    BY <2>1
  <2> QED
    BY <2>2
<1>2. R \in SUBSET Nat /\ R # {}
  BY <1>1
<1>3. PICK n \in R : \A y \in R : n <= y
  BY <1>2, LeastOf
<1>4. \A y \in T : y <= M - n
  <2> TAKE y \in T
  <2>1. n <= M - y /\ y \in 0..M /\ n \in Nat
    BY <1>1, <1>3
  <2> QED
    BY <2>1
<1> QED
  BY <1>3, <1>4

-----------------------------------------------------------------------------
(* The report of articles (Accruals) *)

\* What a change adds to a column.
AcBy(by, c) == IF c \in DOMAIN by THEN by[c] ELSE 0
AcRowsType == [AcRowNames -> [AcColumns -> Int]]
AcNetRow(rs, s) == rs[s].revenue - rs[s].commission - rs[s].marketing - rs[s].costs

\* The rows are finitely many.
LEMMA AcFinite ==
  /\ IsFiniteSet(AcRowNames) /\ IsFiniteSet(AcSkus) /\ IsFiniteSet(AcUnits \X AcSkus)
  /\ AcUnallocated \in AcRowNames /\ AcSkus \subseteq AcRowNames /\ AcUnallocated \notin AcSkus
<1>1. IsFiniteSet(AcSkus) /\ IsFiniteSet(AcUnits) /\ AcUnallocated \notin AcSkus
  BY AcAssumption
<1>2. IsFiniteSet(AcRowNames)
  BY <1>1, FS_AddElement DEF AcRowNames
<1>3. IsFiniteSet(AcUnits \X AcSkus)
  BY <1>1, FS_Product
<1> QED
  BY <1>1, <1>2, <1>3 DEF AcRowNames

\* Adding to a row changes that row by what is added, and the sums by as much.
LEMMA AcAddTo ==
  ASSUME NEW rs \in AcRowsType, NEW s \in AcRowNames, NEW by,
         \A c \in AcColumns : AcBy(by, c) \in Int
  PROVE  LET new == AcAdd(rs, s, by)
         IN /\ new \in AcRowsType
            /\ \A c \in AcColumns : new[s][c] = rs[s][c] + AcBy(by, c)
            /\ \A x \in AcRowNames \ {s} : new[x] = rs[x]
            /\ AcNetOf(new) = AcNetOf(rs) + AcBy(by, "revenue") - AcBy(by, "commission")
                                - AcBy(by, "marketing") - AcBy(by, "costs")
            /\ AcAdsOf(new) = AcAdsOf(rs) + AcBy(by, "marketing")
            /\ AcNetOf(rs) \in Int /\ AcAdsOf(rs) \in Int
<1> DEFINE new == AcAdd(rs, s, by)
           f == [x \in AcRowNames |-> AcNetRow(rs, x)]
           g == [x \in AcRowNames |-> AcNetRow(new, x)]
           p == [x \in AcRowNames |-> rs[x].marketing]
           q == [x \in AcRowNames |-> new[x].marketing]
<1>1. new = [rs EXCEPT ![s] = [c \in AcColumns |-> rs[s][c] + AcBy(by, c)]]
  BY DEF AcAdd, AcBy, AcRowsType
<1>2. \A x \in AcRowNames : rs[x] \in [AcColumns -> Int]
  BY DEF AcRowsType
<1>3. /\ new[s] = [c \in AcColumns |-> rs[s][c] + AcBy(by, c)]
      /\ \A x \in AcRowNames \ {s} : new[x] = rs[x]
  BY <1>1 DEF AcRowsType
<1>4. new[s] \in [AcColumns -> Int]
  BY <1>2, <1>3
<1>5. new \in AcRowsType
  BY <1>1, <1>2, <1>3, <1>4 DEF AcRowsType
<1>6. {"revenue", "commission", "marketing", "costs"} \subseteq AcColumns
  BY DEF AcColumns
<1> HIDE DEF new
<1>7. \A x \in AcRowNames : f[x] \in Int /\ g[x] \in Int /\ p[x] \in Int /\ q[x] \in Int
  <2>1. \A r \in AcRowsType : \A x \in AcRowNames :
          r[x].revenue \in Int /\ r[x].commission \in Int /\ r[x].marketing \in Int /\ r[x].costs \in Int
    BY <1>6 DEF AcRowsType
  <2> QED
    BY <1>5, <2>1 DEF AcNetRow
<1>8. \A x \in AcRowNames \ {s} : f[x] = g[x] /\ p[x] = q[x]
  BY <1>3 DEF AcNetRow
<1>9. /\ g[s] = f[s] + AcBy(by, "revenue") - AcBy(by, "commission")
                  - AcBy(by, "marketing") - AcBy(by, "costs")
      /\ q[s] = p[s] + AcBy(by, "marketing")
  <2>1. \A c \in {"revenue", "commission", "marketing", "costs"} :
          new[s][c] = rs[s][c] + AcBy(by, c) /\ rs[s][c] \in Int /\ AcBy(by, c) \in Int
    BY <1>2, <1>3, <1>6
  <2> QED
    BY <2>1 DEF AcNetRow
<1> HIDE DEF f, g, p, q
<1>10. /\ SumOver(g, AcRowNames) = SumOver(f, AcRowNames) - f[s] + g[s]
       /\ SumOver(q, AcRowNames) = SumOver(p, AcRowNames) - p[s] + q[s]
       /\ SumOver(f, AcRowNames) \in Int /\ SumOver(p, AcRowNames) \in Int
  <2>1. IsFiniteSet(AcRowNames)
    BY AcFinite
  <2>2. SumOver(g, AcRowNames) = SumOver(f, AcRowNames) - f[s] + g[s]
    BY <2>1, <1>7, <1>8, SumChange
  <2>3. SumOver(q, AcRowNames) = SumOver(p, AcRowNames) - p[s] + q[s]
    BY <2>1, <1>7, <1>8, SumChange
  <2> QED
    BY <2>1, <2>2, <2>3, <1>7, SumInt
<1>11. /\ AcNetOf(rs) = SumOver(f, AcRowNames) /\ AcNetOf(new) = SumOver(g, AcRowNames)
       /\ AcAdsOf(rs) = SumOver(p, AcRowNames) /\ AcAdsOf(new) = SumOver(q, AcRowNames)
  BY DEF AcNetOf, AcAdsOf, f, g, p, q, AcNetRow
<1>12. \A c \in AcColumns : new[s][c] = rs[s][c] + AcBy(by, c)
  BY <1>3
<1>13. f[s] \in Int /\ p[s] \in Int /\ \A c \in {"revenue", "commission", "marketing", "costs"} : AcBy(by, c) \in Int
  BY <1>6, <1>7
<1>14. /\ AcNetOf(new) = AcNetOf(rs) + AcBy(by, "revenue") - AcBy(by, "commission")
                           - AcBy(by, "marketing") - AcBy(by, "costs")
       /\ AcAdsOf(new) = AcAdsOf(rs) + AcBy(by, "marketing")
       /\ AcNetOf(rs) \in Int /\ AcAdsOf(rs) \in Int
  BY <1>9, <1>10, <1>11, <1>13
<1> QED
  BY <1>3, <1>5, <1>12, <1>14 DEF new

-----------------------------------------------------------------------------
AcNothingLeft == [marketing |-> 0, costs |-> 0]
AcSale == [n : Int, gross : Int, deduction : Int]
AcBeforeAds == acPhase \in {"accruals", "second", "reconciled"}

\* Types, those of what was sold included.
AcTyped ==
  /\ AcTypeOK
  /\ acDomestic \in [DOMAIN acDomestic -> AcSale]

\* The books balance: at Ozon with the ads, which allocate has in the pool until then; elsewhere
\* without them, and there is no pool.
AcBalanced ==
  /\ acPhase # "failed"
  /\ acMarket = "ozon" => AcNet = acRaw
  /\ acMarket # "ozon" => AcNet + AcAdsOf(acRows) = acRaw /\ acPool = AcNothingLeft
  /\ acMarket # "ozon" /\ AcBeforeAds => AcAdsOf(acRows) = 0
  /\ ~ AcBeforeAds /\ acPhase # "conflict" => acPool = AcNothingLeft

\* The row of no article, next to what allocate answered and the ads that were linked since.
AcSpared ==
  /\ AcBeforeAds => acLinked = 0
  /\ acMarket = "ozon" /\ AcBeforeAds =>
       acRows[AcUnallocated].marketing = 0 /\ acRows[AcUnallocated].costs = 0
  /\ acMarket = "ozon" /\ acPhase = "ads" =>
       /\ acRows[AcUnallocated].marketing = acSpare.marketing - acLinked
       /\ acRows[AcUnallocated].costs = acSpare.costs

\* No buyout is read before the accruals are.
AcInOrder == acPhase = "accruals" => DOMAIN acSeen = {}

AcInv ==
  /\ AcTyped /\ AcBalanced /\ AcSpared /\ AcInOrder
  /\ RevenueSplits /\ BuyoutsCountOnce /\ SpareIsShown /\ TaxesAreShared

\* The invariant is what the report promises, and more.
LEMMA AcInvSuffices == AcInv => ReportSound
BY DEF AcInv, ReportSound, AcTyped, AcBalanced, AttributionReconciles

\* The columns of a row go on splitting when what is added does.
LEMMA AcSplitKept ==
  ASSUME NEW rs \in AcRowsType, NEW s \in AcRowNames, NEW by,
         \A c \in AcColumns : AcBy(by, c) \in Int,
         \A x \in AcRowNames : rs[x].revenue = rs[x].rf + rs[x].abroad,
         AcBy(by, "revenue") = AcBy(by, "rf") + AcBy(by, "abroad")
  PROVE  \A x \in AcRowNames :
           AcAdd(rs, s, by)[x].revenue = AcAdd(rs, s, by)[x].rf + AcAdd(rs, s, by)[x].abroad
<1> DEFINE new == AcAdd(rs, s, by)
<1>1. /\ \A c \in AcColumns : new[s][c] = rs[s][c] + AcBy(by, c)
      /\ \A x \in AcRowNames \ {s} : new[x] = rs[x]
  BY AcAddTo
<1> HIDE DEF new
<1>2. \A c \in {"revenue", "rf", "abroad"} :
        new[s][c] = rs[s][c] + AcBy(by, c) /\ rs[s][c] \in Int /\ AcBy(by, c) \in Int
  BY <1>1 DEF AcRowsType, AcColumns
<1>3. new[s].revenue = new[s].rf + new[s].abroad
  BY <1>2
<1> QED
  BY <1>1, <1>3 DEF new

\* One more sale of a posting is one more sale of its article, and of no other.
LEMMA AcSalePut ==
  ASSUME NEW D \in SUBSET (AcUnits \X AcSkus), NEW d \in [D -> AcSale],
         NEW key \in AcUnits \X AcSkus, NEW v \in AcSale,
         v.n = (IF key \in D THEN d[key].n ELSE 0) + 1
  PROVE  /\ AcPut(d, key, v) \in [D \cup {key} -> AcSale]
         /\ \A s \in AcSkus : AcSoldOf(AcPut(d, key, v), s)
                                = AcSoldOf(d, s) + (IF s = key[2] THEN 1 ELSE 0)
         /\ \A s \in AcSkus : AcSoldOf(d, s) \in Int
<1> DEFINE e == AcPut(d, key, v)
           f == [k \in D |-> d[k].n]
           g == [k \in D \cup {key} |-> e[k].n]
           of(s) == {k \in D : k[2] = s}
<1>1. /\ DOMAIN d = D /\ DOMAIN e = D \cup {key} /\ e[key] = v
      /\ \A k \in D \ {key} : e[k] = d[k]
  BY DEF AcPut
<1>2. e \in [D \cup {key} -> AcSale]
  BY <1>1 DEF AcPut
<1> HIDE DEF e
<1>3. /\ \A k \in D : f[k] \in Int
      /\ \A k \in D \cup {key} : g[k] \in Int
      /\ \A k \in D \ {key} : g[k] = f[k]
      /\ g[key] = (IF key \in D THEN f[key] ELSE 0) + 1
  BY <1>1, <1>2 DEF AcSale
<1>4. \A s \in AcSkus : /\ AcSoldOf(d, s) = SumOver(f, of(s))
                        /\ AcSoldOf(e, s) = SumOver(g, {k \in D \cup {key} : k[2] = s})
  BY <1>1 DEF AcSoldOf
<1>5. IsFiniteSet(D)
  BY AcFinite, FS_Subset
<1> HIDE DEF f, g
<1>6. ASSUME NEW s \in AcSkus
      PROVE  /\ SumOver(g, {k \in D \cup {key} : k[2] = s})
                  = SumOver(f, of(s)) + (IF s = key[2] THEN 1 ELSE 0)
             /\ SumOver(f, of(s)) \in Int
  <2> DEFINE K == of(s)
  <2>1. IsFiniteSet(K) /\ K \subseteq D /\ \A k \in K : f[k] \in Int
    BY <1>3, <1>5, FS_Subset
  <2>2. SumOver(f, K) \in Int
    <3> HIDE DEF K
    <3> QED
      BY <2>1, SumInt
  <2>3. CASE s # key[2]
    <3>1. {k \in D \cup {key} : k[2] = s} = K /\ key \notin K
      BY <2>3
    <3> HIDE DEF K
    <3>2. \A k \in K : g[k] = f[k]
      BY <1>3, <2>1, <3>1
    <3>3. SumOver(g, K) = SumOver(f, K)
      BY <2>1, <3>2, SumSame
    <3>4. SumOver(g, K) = SumOver(f, K) + (IF s = key[2] THEN 1 ELSE 0)
      BY <2>2, <2>3, <3>3
    <3> QED
      BY <2>2, <3>1, <3>4 DEF K
  <2>4. CASE s = key[2] /\ key \in D
    <3>1. {k \in D \cup {key} : k[2] = s} = K /\ key \in K
      BY <2>4
    <3> HIDE DEF K
    <3>2. /\ \A k \in K : f[k] \in Int /\ g[k] \in Int
          /\ \A k \in K \ {key} : f[k] = g[k]
      BY <1>3, <2>1, <3>1
    <3>3. SumOver(g, K) = SumOver(f, K) - f[key] + g[key]
      BY <2>1, <3>1, <3>2, SumChange
    <3>4. f[key] \in Int /\ g[key] = f[key] + 1
      BY <1>3, <2>4
    <3>5. SumOver(g, K) = SumOver(f, K) + 1
      BY <2>2, <3>3, <3>4
    <3> QED
      BY <2>2, <2>4, <3>1, <3>5 DEF K
  <2>5. CASE s = key[2] /\ key \notin D
    <3>1. {k \in D \cup {key} : k[2] = s} = K \cup {key} /\ key \notin K
      BY <2>5
    <3> HIDE DEF K
    <3>2. \A k \in K \cup {key} : g[k] \in Int
      BY <1>3, <2>1
    <3>3. \A k \in K : f[k] = g[k]
      BY <1>3, <2>1, <3>1
    <3>4. SumOver(g, K \cup {key}) = g[key] + SumOver(g, K) /\ SumOver(f, K) = SumOver(g, K)
      BY <2>1, <3>1, <3>2, <3>3, SumAdd, SumSame
    <3>5. g[key] = 1
      BY <1>3, <2>5
    <3>6. SumOver(g, K \cup {key}) = SumOver(f, K) + 1
      BY <2>2, <3>4, <3>5
    <3> QED
      BY <2>2, <2>5, <3>1, <3>6 DEF K
  <2> QED
    BY <2>3, <2>4, <2>5
<1> HIDE DEF of
<1>7. \A s \in AcSkus : /\ AcSoldOf(e, s) = AcSoldOf(d, s) + (IF s = key[2] THEN 1 ELSE 0)
                        /\ AcSoldOf(d, s) \in Int
  BY <1>4, <1>6
<1> QED
  BY <1>2, <1>7 DEF e

-----------------------------------------------------------------------------
\* Sales and buyouts, counted for each article.
AcCounts(rs, d, dom) ==
  \A s \in AcSkus : rs[s].sold + rs[s].cis
    = AcSoldOf(d, s) + Cardinality({k \in DOMAIN dom \ DOMAIN d : k[2] = s})

\* Writing to one row: types, the sums, and what is in the rows after it.
LEMMA AcRowWritten ==
  ASSUME AcTyped, RevenueSplits, NEW s \in AcRowNames, NEW by, AcPlus(s, by),
         \A c \in AcColumns : AcBy(by, c) \in Int,
         AcBy(by, "revenue") = AcBy(by, "rf") + AcBy(by, "abroad")
  PROVE  /\ acRows' \in AcRowsType /\ acNamed' \subseteq AcRowNames
         /\ RevenueSplits'
         /\ \A c \in AcColumns : acRows'[s][c] = acRows[s][c] + AcBy(by, c)
         /\ \A x \in AcRowNames \ {s} : acRows'[x] = acRows[x]
         /\ AcNetOf(acRows') = AcNetOf(acRows) + AcBy(by, "revenue") - AcBy(by, "commission")
                                 - AcBy(by, "marketing") - AcBy(by, "costs")
         /\ AcAdsOf(acRows') = AcAdsOf(acRows) + AcBy(by, "marketing")
         /\ AcNetOf(acRows) \in Int /\ AcAdsOf(acRows) \in Int
<1>1. acRows \in AcRowsType /\ acNamed \subseteq AcRowNames
  BY DEF AcTyped, AcTypeOK, AcRowsType
<1>2. acRows' = AcAdd(acRows, s, by) /\ acNamed' = acNamed \cup {s}
  BY DEF AcPlus
<1>3. \A x \in AcRowNames : acRows[x].revenue = acRows[x].rf + acRows[x].abroad
  BY DEF RevenueSplits
<1>4. RevenueSplits'
  BY <1>1, <1>2, <1>3, AcSplitKept DEF RevenueSplits
<1> QED
  BY <1>1, <1>2, <1>4, AcAddTo

\* The sums are sums of integers.
LEMMA AcSumsInt == AcTyped => AcNetOf(acRows) \in Int /\ AcAdsOf(acRows) \in Int
<1>1. acRows \in AcRowsType <=> acRows \in [AcRowNames -> [AcColumns -> Int]]
  BY DEF AcRowsType
<1>2. \A c \in AcColumns : AcBy(AcNothing, c) \in Int
  BY DEF AcBy, AcNothing
<1> QED
  BY <1>1, <1>2, AcAddTo, AcFinite DEF AcTyped, AcTypeOK

\* A posting of one article is counted for its article, and its money once.
LEMMA AddPostingKeeps ==
  ASSUME AcInv, NEW s \in AcSkus, NEW u \in AcUnits, NEW sale \in Int, NEW commission \in Int,
         NEW services \in Int, NEW rest \in Int, AddPosting(s, u, sale, commission, services, rest)
  PROVE  AcInv'
<1> DEFINE n == IF sale > 0 THEN 1 ELSE IF sale < 0 THEN -1 ELSE 0
           fee == IF sale = 0 THEN 0 ELSE commission
           old == IF <<u, s>> \in DOMAIN acDomestic THEN acDomestic[<<u, s>>]
                  ELSE [n |-> 0, gross |-> 0, deduction |-> 0]
           new == [n |-> old.n + 1, gross |-> old.gross + sale, deduction |-> old.deduction - commission]
           by == [sold |-> MnMax0(n), returned |-> n - MnMax0(n), revenue |-> sale, rf |-> sale,
                  commission |-> -fee, costs |-> -services]
<1>0. /\ AcTyped /\ AcBalanced /\ AcSpared /\ AcInOrder /\ RevenueSplits /\ BuyoutsCountOnce
      /\ s \in AcRowNames /\ s # AcUnallocated /\ AcUnallocated \in AcRowNames
  BY AcFinite DEF AcInv
<1>1. /\ acMarket = "ozon" /\ acPhase = "accruals"
      /\ AcPlus(s, by)
      /\ acPool' = [acPool EXCEPT !.costs = @ - rest]
      /\ acRaw' = acRaw + sale + fee + services + rest
      /\ acDomestic' = IF sale > 0 THEN AcPut(acDomestic, <<u, s>>, new) ELSE acDomestic
      /\ UNCHANGED <<acMarket, acPhase, acSeen, acCharges, acEnds>>
  BY DEF AddPosting, AcReads
<1>2. /\ n \in Int /\ fee \in Int /\ MnMax0(n) \in Int /\ MnMax0(n) = (IF sale > 0 THEN 1 ELSE 0)
  BY DEF MnMax0
<1> HIDE DEF n, fee
<1>3. /\ AcBy(by, "revenue") = sale /\ AcBy(by, "rf") = sale /\ AcBy(by, "abroad") = 0
      /\ AcBy(by, "commission") = -fee /\ AcBy(by, "costs") = -services
      /\ AcBy(by, "marketing") = 0 /\ AcBy(by, "cis") = 0 /\ AcBy(by, "sold") = MnMax0(n)
      /\ AcBy(by, "returned") = n - MnMax0(n)
  BY DEF AcBy
<1> HIDE DEF by
<1>4. (\A c \in AcColumns : AcBy(by, c) \in Int) /\ AcBy(by, "revenue") = AcBy(by, "rf") + AcBy(by, "abroad")
  BY <1>2, <1>3 DEF AcColumns
<1>5. /\ acRows' \in AcRowsType /\ acNamed' \subseteq AcRowNames /\ RevenueSplits'
      /\ \A c \in AcColumns : acRows'[s][c] = acRows[s][c] + AcBy(by, c)
      /\ \A x \in AcRowNames \ {s} : acRows'[x] = acRows[x]
      /\ AcNetOf(acRows') = AcNetOf(acRows) + AcBy(by, "revenue") - AcBy(by, "commission")
                              - AcBy(by, "marketing") - AcBy(by, "costs")
      /\ AcNetOf(acRows) \in Int
  BY <1>0, <1>1, <1>4, AcRowWritten
<1>6. acPool \in [marketing : Int, costs : Int] /\ acRaw \in Int
  BY <1>0 DEF AcTyped, AcTypeOK
<1>7. /\ acPool' \in [marketing : Int, costs : Int] /\ acRaw' \in Int
      /\ acPool'.marketing = acPool.marketing /\ acPool'.costs = acPool.costs - rest
  BY <1>1, <1>2, <1>6
<1>8. /\ AcCounts(acRows', acDomestic', acSeen') /\ acDomestic' \in [DOMAIN acDomestic' -> AcSale]
      /\ DOMAIN acDomestic' \subseteq AcUnits \X AcSkus
  <2> DEFINE D == DOMAIN acDomestic
             key == <<u, s>>
  <2>1. /\ D \in SUBSET (AcUnits \X AcSkus) /\ acDomestic \in [D -> AcSale]
        /\ key \in AcUnits \X AcSkus /\ key[2] = s
    BY <1>0 DEF AcTyped, AcTypeOK
  <2>2. new \in AcSale /\ new.n = (IF key \in D THEN acDomestic[key].n ELSE 0) + 1
    BY <2>1 DEF AcSale
  <2> HIDE DEF key, new, D
  <2>3. /\ AcPut(acDomestic, key, new) \in [D \cup {key} -> AcSale]
        /\ \A x \in AcSkus : AcSoldOf(AcPut(acDomestic, key, new), x)
                               = AcSoldOf(acDomestic, x) + (IF x = s THEN 1 ELSE 0)
        /\ \A x \in AcSkus : AcSoldOf(acDomestic, x) \in Int
    <3>1. /\ AcPut(acDomestic, key, new) \in [D \cup {key} -> AcSale]
          /\ \A x \in AcSkus : AcSoldOf(AcPut(acDomestic, key, new), x)
                                 = AcSoldOf(acDomestic, x) + (IF x = key[2] THEN 1 ELSE 0)
          /\ \A x \in AcSkus : AcSoldOf(acDomestic, x) \in Int
      BY <2>1, <2>2, AcSalePut, ZenonT(60)
    <3> QED
      BY <2>1, <3>1
  <2>4. acDomestic' = IF sale > 0 THEN AcPut(acDomestic, key, new) ELSE acDomestic
    BY <1>1 DEF key
  <2>5. /\ acDomestic' \in [DOMAIN acDomestic' -> AcSale]
        /\ DOMAIN acDomestic' \subseteq AcUnits \X AcSkus
        /\ \A x \in AcSkus : AcSoldOf(acDomestic', x)
                               = AcSoldOf(acDomestic, x) + (IF x = s THEN MnMax0(n) ELSE 0)
    <3> USE DEF D
    <3>1. CASE sale > 0
      <4>1. acDomestic' = AcPut(acDomestic, key, new) /\ MnMax0(n) = 1
        BY <1>2, <2>4, <3>1
      <4> QED
        BY <2>1, <2>3, <4>1
    <3>2. CASE ~ (sale > 0)
      <4>1. acDomestic' = acDomestic /\ MnMax0(n) = 0
        BY <1>2, <2>4, <3>2
      <4>2. \A x \in AcSkus : AcSoldOf(acDomestic, x)
                                = AcSoldOf(acDomestic, x) + (IF x = s THEN MnMax0(n) ELSE 0)
        BY <2>3, <4>1
      <4> QED
        BY <2>1, <4>1, <4>2
    <3> QED
      BY <3>1, <3>2
  <2>6. DOMAIN acSeen = {} /\ acSeen' = acSeen
    BY <1>0, <1>1 DEF AcInOrder
  <2>7. \A x \in AcSkus : /\ Cardinality({k \in DOMAIN acSeen \ DOMAIN acDomestic : k[2] = x}) = 0
                          /\ Cardinality({k \in DOMAIN acSeen' \ DOMAIN acDomestic' : k[2] = x}) = 0
    BY <2>6, FS_EmptySet
  <2>8. \A x \in AcSkus : acRows[x].sold + acRows[x].cis = AcSoldOf(acDomestic, x) + 0
    BY <1>0, <1>1, <2>7 DEF BuyoutsCountOnce
  <2>9. ASSUME NEW x \in AcSkus
        PROVE  acRows'[x].sold + acRows'[x].cis = AcSoldOf(acDomestic', x) + 0
    <3>1. /\ acRows[x].sold \in Int /\ acRows[x].cis \in Int /\ x \in AcRowNames
          /\ {"sold", "cis"} \subseteq AcColumns
      BY <1>0 DEF AcTyped, AcTypeOK, AcRowNames, AcColumns
    <3>2. /\ acRows'[x].cis = acRows[x].cis
          /\ acRows'[x].sold = acRows[x].sold + (IF x = s THEN MnMax0(n) ELSE 0)
      <4>1. CASE x = s
        BY <1>3, <1>5, <3>1, <4>1
      <4>2. CASE x # s
        BY <1>5, <3>1, <4>2
      <4> QED
        BY <4>1, <4>2
    <3>3. /\ AcSoldOf(acDomestic', x) = AcSoldOf(acDomestic, x) + (IF x = s THEN MnMax0(n) ELSE 0)
          /\ acRows[x].sold + acRows[x].cis = AcSoldOf(acDomestic, x) + 0
          /\ AcSoldOf(acDomestic, x) \in Int
      BY <2>3, <2>5, <2>8
    <3> QED
      BY <1>2, <3>1, <3>2, <3>3
  <2>10. AcCounts(acRows', acDomestic', acSeen')
    BY <2>7, <2>9 DEF AcCounts
  <2> QED
    BY <2>5, <2>10
<1>9. AcTyped'
  BY <1>0, <1>1, <1>5, <1>7, <1>8 DEF AcTyped, AcTypeOK, AcRowsType, acEnds
<1>10. AcBalanced'
  <2>1. AcNet = acRaw
    BY <1>0, <1>1 DEF AcBalanced
  <2>2. AcNetOf(acRows') - acPool'.marketing - acPool'.costs = acRaw'
    BY <1>1, <1>2, <1>3, <1>5, <1>6, <1>7, <2>1 DEF AcNet
  <2> QED
    BY <1>1, <2>2 DEF AcBalanced, AcNet, AcBeforeAds
<1>11. AcSpared'
  BY <1>0, <1>1, <1>5 DEF AcSpared, AcBeforeAds, acEnds
<1>12. AcInOrder'
  BY <1>0, <1>1 DEF AcInOrder
<1>13. BuyoutsCountOnce'
  BY <1>8 DEF AcCounts, BuyoutsCountOnce
<1>14. SpareIsShown' /\ TaxesAreShared'
  BY <1>1 DEF SpareIsShown, TaxesAreShared
<1> QED
  BY <1>5, <1>9, <1>10, <1>11, <1>12, <1>13, <1>14 DEF AcInv

\* A fee without an article waits in the pool.
LEMMA AddFeeKeeps ==
  ASSUME AcInv, NEW u \in AcUnits, NEW isAd \in BOOLEAN, NEW amount \in Int,
         AddFee(u, isAd, amount)
  PROVE  AcInv'
<1>1. /\ acMarket = "ozon" /\ acPhase = "accruals"
      /\ acPool' = IF isAd THEN [acPool EXCEPT !.marketing = @ - amount]
                   ELSE [acPool EXCEPT !.costs = @ - amount]
      /\ acRaw' = acRaw + amount
      /\ acCharges' = IF isAd THEN acCharges \cup {u} ELSE acCharges
      /\ UNCHANGED <<acMarket, acPhase, acRows, acNamed, acDomestic, acSeen, acEnds>>
  BY DEF AddFee, AcReads
<1>2. /\ AcTyped /\ AcBalanced /\ AcSpared /\ AcInOrder /\ RevenueSplits /\ BuyoutsCountOnce
  BY DEF AcInv
<1>3. acPool \in [marketing : Int, costs : Int] /\ acRaw \in Int /\ AcNetOf(acRows) \in Int
  BY <1>2, AcSumsInt DEF AcTyped, AcTypeOK
<1>4. /\ acPool' \in [marketing : Int, costs : Int] /\ acRaw' \in Int
      /\ acPool'.marketing + acPool'.costs = acPool.marketing + acPool.costs - amount
  BY <1>1, <1>3
<1>5. AcTyped'
  BY <1>1, <1>2, <1>4 DEF AcTyped, AcTypeOK, acEnds
<1>6. AcBalanced'
  <2>1. AcNetOf(acRows) - acPool.marketing - acPool.costs = acRaw
    BY <1>1, <1>2 DEF AcBalanced, AcNet
  <2>2. AcNetOf(acRows) - acPool'.marketing - acPool'.costs = acRaw'
    BY <1>1, <1>3, <1>4, <2>1
  <2> QED
    BY <1>1, <2>2 DEF AcBalanced, AcNet, AcBeforeAds
<1>7. AcSpared' /\ AcInOrder' /\ RevenueSplits' /\ BuyoutsCountOnce'
  BY <1>1, <1>2 DEF AcSpared, AcInOrder, RevenueSplits, BuyoutsCountOnce, AcBeforeAds, acEnds
<1>8. SpareIsShown' /\ TaxesAreShared'
  BY <1>1 DEF SpareIsShown, TaxesAreShared
<1> QED
  BY <1>5, <1>6, <1>7, <1>8 DEF AcInv

\* The first feed ends.
LEMMA FirstFeedReadKeeps == AcInv /\ FirstFeedRead => AcInv'
<1> SUFFICES ASSUME AcInv, FirstFeedRead PROVE AcInv'
  OBVIOUS
<1>1. /\ acPhase = "accruals" /\ acPhase' = "second"
      /\ UNCHANGED <<acMarket, acRows, acNamed, acPool, acRaw, acDomestic, acSeen, acCharges,
                     acSpare, acLinked, acSheet>>
  BY DEF FirstFeedRead, acSums, acKeys, acEnds
<1>2. AcTyped' /\ AcBalanced' /\ AcSpared' /\ AcInOrder'
  BY <1>1 DEF AcInv, AcTyped, AcTypeOK, AcBalanced, AcNet, AcBeforeAds, AcSpared, AcInOrder
<1>3. RevenueSplits' /\ BuyoutsCountOnce' /\ SpareIsShown' /\ TaxesAreShared'
  BY <1>1 DEF AcInv, RevenueSplits, BuyoutsCountOnce, SpareIsShown, TaxesAreShared
<1> QED
  BY <1>2, <1>3 DEF AcInv

\* The postings of S of an article that are not in D.
AcOthersOf(S, D, s) == Cardinality({k \in S \ D : k[2] = s})

\* A buyout of a posting that was not seen is one more for its article, if it was not sold there.
LEMMA AcBuyoutSeen ==
  ASSUME NEW S \in SUBSET (AcUnits \X AcSkus), NEW D, NEW key \in AcUnits \X AcSkus, key \notin S
  PROVE  \A s \in AcSkus :
           /\ AcOthersOf(S \cup {key}, D, s)
                = AcOthersOf(S, D, s) + (IF key \notin D /\ s = key[2] THEN 1 ELSE 0)
           /\ AcOthersOf(S, D, s) \in Nat
<1> TAKE s \in AcSkus
<1> DEFINE K == {k \in S \ D : k[2] = s}
           L == {k \in (S \cup {key}) \ D : k[2] = s}
<1>1. IsFiniteSet(K) /\ key \notin K
  BY AcFinite, FS_Subset
<1>2. Cardinality(K) \in Nat
  BY <1>1, FS_CardinalityType
<1>3. CASE key \notin D /\ s = key[2]
  <2>1. L = K \cup {key}
    BY <1>3
  <2> HIDE DEF K, L
  <2>2. Cardinality(L) = Cardinality(K) + 1
    BY <1>1, <2>1, FS_AddElement
  <2> QED
    BY <1>2, <1>3, <2>2 DEF K, L, AcOthersOf
<1>4. CASE ~ (key \notin D /\ s = key[2])
  <2>1. L = K
    BY <1>4
  <2> HIDE DEF K, L
  <2>2. Cardinality(L) = Cardinality(K) + (IF key \notin D /\ s = key[2] THEN 1 ELSE 0)
    BY <1>2, <1>4, <2>1
  <2> QED
    BY <1>2, <2>2 DEF K, L, AcOthersOf
<1> QED
  BY <1>3, <1>4

\* A buyout is counted once, wherever its posting was read first.
LEMMA AddBuyoutKeeps ==
  ASSUME AcInv, NEW u \in AcUnits, NEW s \in AcSkus, NEW gross \in Int, NEW receipt \in Int,
         AddBuyout(u, s, gross, receipt)
  PROVE  AcInv'
<1> DEFINE key == <<u, s>>
           again == key \in DOMAIN acSeen
           sold == acDomestic[key]
           fresh == [cis |-> 1, revenue |-> gross, abroad |-> gross, commission |-> gross - receipt]
<1>0. /\ AcTyped /\ AcBalanced /\ AcSpared /\ AcInOrder /\ RevenueSplits /\ BuyoutsCountOnce
      /\ s \in AcRowNames /\ s # AcUnallocated /\ AcUnallocated \in AcRowNames
  BY AcFinite DEF AcInv
<1>1. /\ acMarket = "ozon" /\ acPhase = "second" /\ acPhase' \in {"second", "conflict"}
      /\ UNCHANGED <<acMarket, acPool, acDomestic, acCharges, acSpare, acLinked, acSheet>>
  BY DEF AddBuyout, AcReads, acEnds
<1>2. acPool \in [marketing : Int, costs : Int] /\ acRaw \in Int /\ AcNetOf(acRows) \in Int
  BY <1>0, AcSumsInt DEF AcTyped, AcTypeOK
<1>3. AcNetOf(acRows) - acPool.marketing - acPool.costs = acRaw
  BY <1>0, <1>1 DEF AcBalanced, AcNet
<1>4. CASE again
  <2>1. UNCHANGED <<acSeen, acRows, acNamed, acRaw>>
    BY <1>4 DEF AddBuyout
  <2>2. AcTyped' /\ AcBalanced' /\ AcSpared' /\ AcInOrder'
    BY <1>0, <1>1, <2>1
       DEF AcTyped, AcTypeOK, AcBalanced, AcNet, AcBeforeAds, AcSpared, AcInOrder
  <2>3. RevenueSplits' /\ BuyoutsCountOnce' /\ SpareIsShown' /\ TaxesAreShared'
    BY <1>0, <1>1, <2>1 DEF RevenueSplits, BuyoutsCountOnce, SpareIsShown, TaxesAreShared
  <2> QED
    BY <2>2, <2>3 DEF AcInv
<1>5. CASE ~ again
  <2> DEFINE S == DOMAIN acSeen
             D == DOMAIN acDomestic
             by == IF key \in D THEN AcAbroad(sold) ELSE fresh
  <2>1. /\ acSeen' = AcPut(acSeen, key, [gross |-> gross, receipt |-> receipt])
        /\ AcPlus(s, by)
        /\ acRaw' = IF key \in D THEN acRaw ELSE acRaw + receipt
        /\ acPhase' = "second"
    BY <1>1, <1>5 DEF AddBuyout, AcSoldHere
  <2>2. /\ D \subseteq AcUnits \X AcSkus /\ S \subseteq AcUnits \X AcSkus
        /\ acDomestic \in [D -> AcSale] /\ key \in AcUnits \X AcSkus /\ key[2] = s
    BY <1>0 DEF AcTyped, AcTypeOK
  <2>3. DOMAIN acSeen' = S \cup {key}
    BY <2>1 DEF AcPut
  <2>4. key \in D => sold.n \in Int /\ sold.gross \in Int
    BY <2>2 DEF AcSale
  <2>5. /\ \A c \in AcColumns : AcBy(by, c) \in Int
        /\ AcBy(by, "revenue") = AcBy(by, "rf") + AcBy(by, "abroad")
        /\ AcBy(by, "marketing") = 0 /\ AcBy(by, "costs") = 0
        /\ AcBy(by, "sold") + AcBy(by, "cis") = (IF key \in D THEN 0 ELSE 1)
        /\ AcBy(by, "revenue") - AcBy(by, "commission") = (IF key \in D THEN 0 ELSE receipt)
    <3>1. CASE key \in D
      <4>1. by = [sold |-> -sold.n, cis |-> sold.n, rf |-> -sold.gross, abroad |-> sold.gross]
        BY <3>1 DEF AcAbroad
      <4> HIDE DEF by, sold
      <4>2. /\ AcBy(by, "sold") = -sold.n /\ AcBy(by, "cis") = sold.n
            /\ AcBy(by, "rf") = -sold.gross /\ AcBy(by, "abroad") = sold.gross
            /\ AcBy(by, "revenue") = 0 /\ AcBy(by, "commission") = 0
            /\ AcBy(by, "returned") = 0 /\ AcBy(by, "marketing") = 0 /\ AcBy(by, "costs") = 0
        BY <4>1 DEF AcBy
      <4> QED
        BY <2>4, <3>1, <4>2 DEF AcColumns
    <3>2. CASE key \notin D
      <4>1. by = fresh
        BY <3>2
      <4> HIDE DEF by
      <4>2. /\ AcBy(by, "sold") = 0 /\ AcBy(by, "cis") = 1
            /\ AcBy(by, "rf") = 0 /\ AcBy(by, "abroad") = gross
            /\ AcBy(by, "revenue") = gross /\ AcBy(by, "commission") = gross - receipt
            /\ AcBy(by, "returned") = 0 /\ AcBy(by, "marketing") = 0 /\ AcBy(by, "costs") = 0
        BY <4>1 DEF AcBy
      <4> QED
        BY <3>2, <4>2 DEF AcColumns
    <3> QED
      BY <3>1, <3>2
  <2> HIDE DEF by, key
  <2>6. /\ acRows' \in AcRowsType /\ acNamed' \subseteq AcRowNames /\ RevenueSplits'
        /\ \A c \in AcColumns : acRows'[s][c] = acRows[s][c] + AcBy(by, c)
        /\ \A x \in AcRowNames \ {s} : acRows'[x] = acRows[x]
        /\ AcNetOf(acRows') = AcNetOf(acRows) + AcBy(by, "revenue") - AcBy(by, "commission")
                                - AcBy(by, "marketing") - AcBy(by, "costs")
    BY <1>0, <2>1, <2>5, AcRowWritten
  <2>7. /\ AcBy(by, "revenue") \in Int /\ AcBy(by, "commission") \in Int
        /\ AcBy(by, "sold") \in Int /\ AcBy(by, "cis") \in Int
        /\ {"sold", "cis"} \subseteq AcColumns
    BY <2>5 DEF AcColumns
  <2>8. AcNetOf(acRows') - acPool'.marketing - acPool'.costs = acRaw' /\ acRaw' \in Int
    <3>1. AcNetOf(acRows') = AcNetOf(acRows) + (IF key \in D THEN 0 ELSE receipt)
      BY <1>2, <2>5, <2>6, <2>7
    <3> QED
      BY <1>1, <1>2, <1>3, <2>1, <3>1
  <2>9. AcBalanced'
    BY <1>1, <2>1, <2>8 DEF AcBalanced, AcNet, AcBeforeAds
  <2>10. AcTyped'
    <3>1. key \in AcUnits \X AcSkus /\ DOMAIN acSeen' \subseteq AcUnits \X AcSkus
      BY <2>2, <2>3
    <3> QED
      BY <1>0, <1>1, <2>1, <2>6, <2>8, <3>1 DEF AcTyped, AcTypeOK, AcRowsType
  <2>11. AcSpared' /\ AcInOrder'
    BY <1>0, <1>1, <2>1, <2>6 DEF AcSpared, AcBeforeAds, AcInOrder
  <2>12. BuyoutsCountOnce'
    <3>1. \A x \in AcSkus :
            /\ AcOthersOf(S \cup {key}, D, x)
                 = AcOthersOf(S, D, x) + (IF key \notin D /\ x = key[2] THEN 1 ELSE 0)
            /\ AcOthersOf(S, D, x) \in Nat
      <4>1. key \notin S
        BY <1>5 DEF key
      <4> HIDE DEF S, D
      <4>2. S \in SUBSET (AcUnits \X AcSkus) /\ key \in AcUnits \X AcSkus
        BY <2>2
      <4> QED
        BY <4>1, <4>2, AcBuyoutSeen
    <3>2. ASSUME NEW x \in AcSkus
          PROVE  acRows'[x].sold + acRows'[x].cis
                   = AcSoldOf(acDomestic', x)
                       + Cardinality({k \in DOMAIN acSeen' \ DOMAIN acDomestic' : k[2] = x})
      <4> DEFINE c == AcOthersOf(S, D, x)
                 d == AcOthersOf(S \cup {key}, D, x)
                 m == AcSoldOf(acDomestic, x)
      <4>1. /\ d = c + (IF key \notin D /\ x = s THEN 1 ELSE 0) /\ c \in Nat
        BY <2>2, <3>1
      <4>2. acRows[x].sold + acRows[x].cis = m + c
        BY <1>0, <1>1 DEF BuyoutsCountOnce, AcOthersOf
      <4>3. m \in Int
        <5>1. IsFiniteSet(D)
          BY <2>2, AcFinite, FS_Subset
        <5> DEFINE f == [k \in D |-> acDomestic[k].n]
                   K == {k \in D : k[2] = x}
        <5>2. IsFiniteSet(K) /\ \A k \in K : f[k] \in Int
          BY <2>2, <5>1, FS_Subset DEF AcSale
        <5>3. m = SumOver(f, K)
          BY DEF AcSoldOf
        <5> HIDE DEF f, K, m
        <5> QED
          BY <5>2, <5>3, SumInt
      <4>4. acRows[x].sold \in Int /\ acRows[x].cis \in Int /\ x \in AcRowNames
        BY <1>0, <2>7 DEF AcTyped, AcTypeOK, AcRowNames
      <4>5. acDomestic' = acDomestic /\ DOMAIN acSeen' = S \cup {key}
        BY <1>1, <2>3
      <4> HIDE DEF c, d, m
      <4>6. acRows'[x].sold + acRows'[x].cis = m + d
        <5>1. CASE x = s
          <6>1. acRows'[x].sold = acRows[x].sold + AcBy(by, "sold")
                /\ acRows'[x].cis = acRows[x].cis + AcBy(by, "cis")
            BY <2>6, <2>7, <5>1
          <6>2. d = c + (IF key \in D THEN 0 ELSE 1)
            BY <4>1, <5>1
          <6> QED
            BY <2>5, <2>7, <4>1, <4>2, <4>3, <4>4, <6>1, <6>2
        <5>2. CASE x # s
          <6>1. acRows'[x] = acRows[x] /\ d = c
            BY <2>6, <4>1, <4>4, <5>2
          <6> QED
            BY <4>2, <6>1
        <5> QED
          BY <5>1, <5>2
      <4> QED
        BY <4>5, <4>6 DEF d, m, AcOthersOf
    <3> QED
      BY <3>2 DEF BuyoutsCountOnce
  <2>13. SpareIsShown' /\ TaxesAreShared'
    BY <2>1 DEF SpareIsShown, TaxesAreShared
  <2> QED
    BY <2>6, <2>9, <2>10, <2>11, <2>12, <2>13 DEF AcInv
<1> QED
  BY <1>4, <1>5

\* Elsewhere than at Ozon one row is written at a time, and what was accrued goes along with it;
\* the ads alone, which come later, do not count as accrued.
LEMMA AcElsewhere ==
  ASSUME AcInv, acMarket # "ozon", NEW s \in AcRowNames, NEW by, AcPlus(s, by),
         \A c \in AcColumns : AcBy(by, c) \in Int,
         AcBy(by, "revenue") = AcBy(by, "rf") + AcBy(by, "abroad"),
         acRaw' = acRaw + AcBy(by, "revenue") - AcBy(by, "commission") - AcBy(by, "costs"),
         acPhase' \in {"accruals", "second", "reconciled", "ads", "done"},
         AcBeforeAds' => AcBeforeAds /\ AcBy(by, "marketing") = 0 /\ acLinked' = 0,
         acPhase' = "accruals" => acPhase = "accruals",
         acLinked' \in Int,
         UNCHANGED <<acMarket, acPool, acKeys, acSpare, acSheet>>
  PROVE  AcInv'
<1>0. AcTyped /\ AcBalanced /\ AcInOrder /\ RevenueSplits /\ acMarket' # "ozon" /\ acMarket' = acMarket
  BY DEF AcInv
<1>1. /\ acRows' \in AcRowsType /\ acNamed' \subseteq AcRowNames /\ RevenueSplits'
      /\ AcNetOf(acRows') = AcNetOf(acRows) + AcBy(by, "revenue") - AcBy(by, "commission")
                              - AcBy(by, "marketing") - AcBy(by, "costs")
      /\ AcAdsOf(acRows') = AcAdsOf(acRows) + AcBy(by, "marketing")
      /\ AcNetOf(acRows) \in Int /\ AcAdsOf(acRows) \in Int
  BY <1>0, AcRowWritten
<1>2. \A c \in {"revenue", "commission", "marketing", "costs"} : AcBy(by, c) \in Int
  BY DEF AcColumns
<1>3. acRaw \in Int /\ acPool \in [marketing : Int, costs : Int]
  BY <1>0 DEF AcTyped, AcTypeOK
<1>4. acRaw' \in Int
  BY <1>2, <1>3
<1>5. acPool = AcNothingLeft /\ acPool' = AcNothingLeft /\ acPool.marketing = 0 /\ acPool.costs = 0
  BY <1>0 DEF AcBalanced, AcNothingLeft
<1>6. AcNetOf(acRows) + AcAdsOf(acRows) = acRaw
  BY <1>0, <1>1, <1>3, <1>5 DEF AcBalanced, AcNet
<1>7. AcNetOf(acRows') + AcAdsOf(acRows') = acRaw'
  BY <1>1, <1>2, <1>3, <1>6
<1>8. AcNetOf(acRows') \in Int /\ AcAdsOf(acRows') \in Int
  BY <1>1, <1>2
<1>9. AcNet' + AcAdsOf(acRows') = acRaw'
  <2>1. AcNet' = AcNetOf(acRows') - 0 - 0
    BY <1>5 DEF AcNet, AcNothingLeft
  <2> QED
    BY <1>7, <1>8, <2>1
<1>10. AcBeforeAds' => AcAdsOf(acRows') = 0
  BY <1>0, <1>1, <1>2 DEF AcBalanced
<1>11. AcBalanced'
  BY <1>0, <1>5, <1>9, <1>10 DEF AcBalanced, AcNothingLeft
<1>12. AcTyped'
  BY <1>0, <1>1, <1>4 DEF AcTyped, AcTypeOK, AcRowsType, acKeys
<1>13. AcSpared' /\ AcInOrder' /\ BuyoutsCountOnce' /\ SpareIsShown' /\ TaxesAreShared'
  BY <1>0 DEF AcSpared, AcInOrder, BuyoutsCountOnce, SpareIsShown, TaxesAreShared, acKeys
<1> QED
  BY <1>1, <1>11, <1>12, <1>13 DEF AcInv

\* A row of the realization report: WB pays what the commission leaves of the price.
LEMMA AddWbRowKeeps ==
  ASSUME WbPaysAtMost = TRUE, AcInv, AddWbRow
  PROVE  AcInv'
<1>0. /\ acMarket = "wb" /\ acPhase = "accruals"
      /\ UNCHANGED <<acMarket, acPhase, acPool, acKeys, acEnds>>
  BY DEF AddWbRow, AcReads
<1>1. acRaw \in Int /\ acLinked = 0 /\ acLinked' = 0
  BY <1>0 DEF AcInv, AcTyped, AcTypeOK, AcSpared, AcBeforeAds, acEnds
<1>2. AcPrices \subseteq Int /\ AcFees \subseteq Int
  BY AcAssumption
<1>3. PICK s \in AcRowNames :
        \/ \E full, pay \in AcPrices : WbSale(s, full, pay) \/ WbReturn(s, full, pay)
        \/ \E fee, paid \in AcFees : WbCharge(s, fee, paid)
  BY DEF AddWbRow
<1>4. ASSUME NEW full \in Int, NEW pay \in Int, WbSale(s, full, pay) PROVE AcInv'
  <2> DEFINE by == [sold |-> 1, revenue |-> full, rf |-> full, commission |-> MnMax0(full - pay)]
  <2>1. AcPlus(s, by) /\ acRaw' = acRaw + pay /\ pay <= full
    BY <1>4 DEF WbSale
  <2>2. MnMax0(full - pay) = full - pay
    BY <2>1 DEF MnMax0
  <2>3. /\ AcBy(by, "sold") = 1 /\ AcBy(by, "revenue") = full /\ AcBy(by, "rf") = full
        /\ AcBy(by, "commission") = MnMax0(full - pay)
        /\ \A c \in {"returned", "cis", "abroad", "marketing", "costs"} : AcBy(by, c) = 0
    BY DEF AcBy
  <2> HIDE DEF by
  <2>4. /\ \A c \in AcColumns : AcBy(by, c) \in Int
        /\ AcBy(by, "revenue") = AcBy(by, "rf") + AcBy(by, "abroad")
        /\ acRaw' = acRaw + AcBy(by, "revenue") - AcBy(by, "commission") - AcBy(by, "costs")
    BY <1>1, <2>1, <2>2, <2>3 DEF AcColumns
  <2> QED
    BY <1>0, <1>1, <2>1, <2>3, <2>4, AcElsewhere DEF AcBeforeAds, acEnds
<1>5. ASSUME NEW full \in Int, NEW pay \in Int, WbReturn(s, full, pay) PROVE AcInv'
  <2> DEFINE by == [returned |-> -1, revenue |-> -full, rf |-> -full,
                    commission |-> -MnMax0(full - pay)]
  <2>1. AcPlus(s, by) /\ acRaw' = acRaw - pay /\ pay <= full
    BY <1>5 DEF WbReturn
  <2>2. MnMax0(full - pay) = full - pay
    BY <2>1 DEF MnMax0
  <2>3. /\ AcBy(by, "returned") = -1 /\ AcBy(by, "revenue") = -full /\ AcBy(by, "rf") = -full
        /\ AcBy(by, "commission") = -MnMax0(full - pay)
        /\ \A c \in {"sold", "cis", "abroad", "marketing", "costs"} : AcBy(by, c) = 0
    BY DEF AcBy
  <2> HIDE DEF by
  <2>4. /\ \A c \in AcColumns : AcBy(by, c) \in Int
        /\ AcBy(by, "revenue") = AcBy(by, "rf") + AcBy(by, "abroad")
        /\ acRaw' = acRaw + AcBy(by, "revenue") - AcBy(by, "commission") - AcBy(by, "costs")
    BY <1>1, <2>1, <2>2, <2>3 DEF AcColumns
  <2> QED
    BY <1>0, <1>1, <2>1, <2>3, <2>4, AcElsewhere DEF AcBeforeAds, acEnds
<1>6. ASSUME NEW fee \in Int, NEW paid \in Int, WbCharge(s, fee, paid) PROVE AcInv'
  <2> DEFINE by == [costs |-> fee - paid]
  <2>1. AcPlus(s, by) /\ acRaw' = acRaw - fee + paid
    BY <1>6 DEF WbCharge
  <2>2. /\ AcBy(by, "costs") = fee - paid
        /\ \A c \in {"sold", "returned", "cis", "revenue", "rf", "abroad", "commission", "marketing"} :
             AcBy(by, c) = 0
    BY DEF AcBy
  <2> HIDE DEF by
  <2>3. /\ \A c \in AcColumns : AcBy(by, c) \in Int
        /\ AcBy(by, "revenue") = AcBy(by, "rf") + AcBy(by, "abroad")
        /\ acRaw' = acRaw + AcBy(by, "revenue") - AcBy(by, "commission") - AcBy(by, "costs")
    BY <1>1, <2>1, <2>2 DEF AcColumns
  <2> QED
    BY <1>0, <1>1, <2>1, <2>2, <2>3, AcElsewhere DEF AcBeforeAds, acEnds
<1> QED
  BY <1>2, <1>3, <1>4, <1>5, <1>6

\* A sale at today's price accrues what its commission and its costs leave.
LEMMA AddStandardSaleKeeps ==
  ASSUME AcInv, NEW s \in AcSkus, NEW sale \in Int, NEW commission \in Int, NEW costs \in Int,
         AddStandardSale(s, sale, commission, costs)
  PROVE  AcInv'
<1> DEFINE by == [sold |-> IF sale > 0 THEN 1 ELSE 0, returned |-> IF sale > 0 THEN 0 ELSE -1,
                  revenue |-> sale, rf |-> sale, commission |-> commission, costs |-> costs]
<1>1. /\ acMarket # "ozon" /\ acPhase = "second" /\ s \in AcRowNames
      /\ AcPlus(s, by) /\ acRaw' = acRaw + sale - commission - costs
      /\ UNCHANGED <<acMarket, acPhase, acPool, acKeys, acEnds>>
  BY AcFinite DEF AddStandardSale, AcReads
<1>2. acRaw \in Int /\ acLinked = 0 /\ acLinked' = 0
  BY <1>1 DEF AcInv, AcTyped, AcTypeOK, AcSpared, AcBeforeAds, acEnds
<1>3. /\ AcBy(by, "sold") = (IF sale > 0 THEN 1 ELSE 0)
      /\ AcBy(by, "returned") = (IF sale > 0 THEN 0 ELSE -1)
      /\ AcBy(by, "revenue") = sale /\ AcBy(by, "rf") = sale
      /\ AcBy(by, "commission") = commission /\ AcBy(by, "costs") = costs
      /\ \A c \in {"cis", "abroad", "marketing"} : AcBy(by, c) = 0
  BY DEF AcBy
<1> HIDE DEF by
<1>4. /\ \A c \in AcColumns : AcBy(by, c) \in Int
      /\ AcBy(by, "revenue") = AcBy(by, "rf") + AcBy(by, "abroad")
      /\ acRaw' = acRaw + AcBy(by, "revenue") - AcBy(by, "commission") - AcBy(by, "costs")
  BY <1>1, <1>2, <1>3 DEF AcColumns
<1> QED
  BY <1>1, <1>2, <1>3, <1>4, AcElsewhere DEF AcBeforeAds, acEnds

\* What one row would get of costs alone.
LEMMA AcCostsOnly ==
  ASSUME NEW n \in Int
  PROVE  LET by == [costs |-> n] IN
         /\ AcBy(by, "costs") = n /\ AcBy(by, "revenue") = 0 /\ AcBy(by, "commission") = 0
         /\ AcBy(by, "marketing") = 0 /\ AcBy(by, "rf") = 0 /\ AcBy(by, "abroad") = 0
         /\ \A c \in AcColumns : AcBy(by, c) \in Int
BY DEF AcBy, AcColumns

\* What one row would get of ads alone.
LEMMA AcAdsOnly ==
  ASSUME NEW n \in Int
  PROVE  LET by == [marketing |-> n] IN
         /\ AcBy(by, "marketing") = n /\ AcBy(by, "revenue") = 0 /\ AcBy(by, "commission") = 0
         /\ AcBy(by, "costs") = 0 /\ AcBy(by, "rf") = 0 /\ AcBy(by, "abroad") = 0
         /\ AcBy(by, "sold") = 0 /\ AcBy(by, "cis") = 0
         /\ \A c \in AcColumns : AcBy(by, c) \in Int
BY DEF AcBy, AcColumns

\* The difference to the finance mart is accrued and is a cost of no article.
LEMMA ReconcileKeeps ==
  ASSUME AcInv, NEW delta \in Int, Reconcile(delta)
  PROVE  AcInv'
<1>1. /\ acMarket # "ozon" /\ acPhase = "second" /\ acPhase' = "reconciled"
      /\ IF delta # 0 THEN AcPlus(AcUnallocated, [costs |-> -delta])
         ELSE UNCHANGED <<acRows, acNamed>>
      /\ acRaw' = acRaw + delta /\ UNCHANGED <<acMarket, acPool, acKeys, acEnds>>
  BY DEF Reconcile
<1>2. acRaw \in Int /\ acLinked = 0 /\ acLinked' = 0 /\ AcUnallocated \in AcRowNames
  BY <1>1, AcFinite DEF AcInv, AcTyped, AcTypeOK, AcSpared, AcBeforeAds, acEnds
<1>3. CASE delta # 0
  <2> DEFINE by == [costs |-> -delta]
  <2>1. AcPlus(AcUnallocated, by)
    BY <1>1, <1>3
  <2>2. /\ AcBy(by, "costs") = -delta /\ AcBy(by, "revenue") = 0 /\ AcBy(by, "commission") = 0
        /\ AcBy(by, "marketing") = 0 /\ AcBy(by, "rf") = 0 /\ AcBy(by, "abroad") = 0
        /\ \A c \in AcColumns : AcBy(by, c) \in Int
    BY -delta \in Int, AcCostsOnly
  <2> HIDE DEF by
  <2>3. /\ AcBy(by, "revenue") = AcBy(by, "rf") + AcBy(by, "abroad")
        /\ acRaw' = acRaw + AcBy(by, "revenue") - AcBy(by, "commission") - AcBy(by, "costs")
    BY <1>1, <1>2, <2>2
  <2> QED
    BY <1>1, <1>2, <2>1, <2>2, <2>3, AcElsewhere DEF AcBeforeAds, acEnds
<1>4. CASE delta = 0
  <2>1. acRaw' = acRaw
    BY <1>1, <1>2, <1>4
  <2>2. UNCHANGED <<acMarket, acRows, acNamed, acPool, acDomestic, acSeen, acCharges,
                    acSpare, acLinked, acSheet>>
    BY <1>1, <1>4 DEF acKeys, acEnds
  <2>3. AcTyped' /\ AcBalanced' /\ AcSpared' /\ AcInOrder'
    BY <1>1, <2>1, <2>2
       DEF AcInv, AcTyped, AcTypeOK, AcBalanced, AcNet, AcBeforeAds, AcSpared, AcInOrder
  <2>4. RevenueSplits' /\ BuyoutsCountOnce' /\ SpareIsShown' /\ TaxesAreShared'
    BY <1>1, <2>2 DEF AcInv, RevenueSplits, BuyoutsCountOnce, SpareIsShown, TaxesAreShared
  <2> QED
    BY <2>3, <2>4 DEF AcInv
<1> QED
  BY <1>3, <1>4

\* Ads linked to an article are in its row.
LEMMA LinkAdKeeps ==
  ASSUME AcInv, NEW s \in AcSkus, NEW cost \in Int, LinkAd(s, cost)
  PROVE  AcInv'
<1> DEFINE by == [marketing |-> cost]
<1>1. /\ acMarket # "ozon" /\ acPhase = "ads" /\ s \in AcRowNames /\ AcPlus(s, by)
      /\ acLinked' = acLinked + cost
      /\ UNCHANGED <<acMarket, acPhase, acPool, acRaw, acKeys, acSpare, acSheet>>
  BY AcFinite DEF LinkAd, AcAdRow
<1>2. acRaw \in Int /\ acLinked' \in Int
  BY <1>1 DEF AcInv, AcTyped, AcTypeOK
<1>3. /\ AcBy(by, "marketing") = cost /\ AcBy(by, "revenue") = 0 /\ AcBy(by, "commission") = 0
      /\ AcBy(by, "costs") = 0 /\ AcBy(by, "rf") = 0 /\ AcBy(by, "abroad") = 0
      /\ \A c \in AcColumns : AcBy(by, c) \in Int
  BY AcAdsOnly
<1> HIDE DEF by
<1>4. /\ AcBy(by, "revenue") = AcBy(by, "rf") + AcBy(by, "abroad")
      /\ acRaw' = acRaw + AcBy(by, "revenue") - AcBy(by, "commission") - AcBy(by, "costs")
  BY <1>1, <1>2, <1>3
<1> QED
  BY <1>1, <1>2, <1>3, <1>4, AcElsewhere DEF AcBeforeAds

\* What the ads cost beyond the linked ones is in the row of no article.
LEMMA AdsLinkedKeeps ==
  ASSUME AcInv, NEW total \in Int, AdsLinked(total)
  PROVE  AcInv'
<1> DEFINE left == MnMax0(total - acLinked)
           by == [marketing |-> left]
<1>1. /\ acMarket # "ozon" /\ acPhase = "ads" /\ acPhase' = "done"
      /\ IF left # 0 THEN AcPlus(AcUnallocated, by) ELSE UNCHANGED <<acRows, acNamed>>
      /\ UNCHANGED <<acMarket, acPool, acRaw, acKeys, acEnds>>
  BY DEF AdsLinked
<1>2. acRaw \in Int /\ acLinked \in Int /\ left \in Int /\ AcUnallocated \in AcRowNames
  BY AcFinite DEF AcInv, AcTyped, AcTypeOK, MnMax0
<1> HIDE DEF left
<1>3. CASE left # 0
  <2>1. AcPlus(AcUnallocated, by)
    BY <1>1, <1>3
  <2>2. /\ AcBy(by, "revenue") = 0 /\ AcBy(by, "commission") = 0
        /\ AcBy(by, "costs") = 0 /\ AcBy(by, "rf") = 0 /\ AcBy(by, "abroad") = 0
        /\ \A c \in AcColumns : AcBy(by, c) \in Int
    BY <1>2, AcAdsOnly
  <2> HIDE DEF by
  <2>3. /\ AcBy(by, "revenue") = AcBy(by, "rf") + AcBy(by, "abroad")
        /\ acRaw' = acRaw + AcBy(by, "revenue") - AcBy(by, "commission") - AcBy(by, "costs")
        /\ acLinked' \in Int
    BY <1>1, <1>2, <2>2 DEF acEnds
  <2> QED
    BY <1>1, <1>2, <2>1, <2>2, <2>3, AcElsewhere DEF AcBeforeAds, acEnds
<1>4. CASE left = 0
  <2>1. UNCHANGED <<acMarket, acRows, acNamed, acPool, acRaw, acDomestic, acSeen, acCharges,
                    acSpare, acLinked, acSheet>>
    BY <1>1, <1>4 DEF acKeys, acEnds
  <2>2. AcTyped' /\ AcBalanced' /\ AcSpared' /\ AcInOrder'
    BY <1>1, <2>1
       DEF AcInv, AcTyped, AcTypeOK, AcBalanced, AcNet, AcBeforeAds, AcSpared, AcInOrder
  <2>3. RevenueSplits' /\ BuyoutsCountOnce' /\ SpareIsShown' /\ TaxesAreShared'
    BY <1>1, <2>1 DEF AcInv, RevenueSplits, BuyoutsCountOnce, SpareIsShown, TaxesAreShared
  <2> QED
    BY <2>2, <2>3 DEF AcInv
<1> QED
  BY <1>3, <1>4

\* allocate() moves the pool into the row of no article, and the report is not refused.
LEMMA AllocateKeeps ==
  ASSUME AcInv, Allocate
  PROVE  AcInv'
<1> DEFINE U == AcUnallocated
<1>0. /\ AcTyped /\ AcBalanced /\ AcSpared /\ AcInOrder /\ RevenueSplits /\ BuyoutsCountOnce
      /\ U \in AcRowNames /\ U \notin AcSkus
  BY AcFinite DEF AcInv
<1>1. /\ acPhase = IF acMarket = "ozon" THEN "second" ELSE "reconciled"
      /\ acRows' = AcAdd(acRows, U, acPool)
      /\ acNamed' \subseteq acNamed \cup {U}
      /\ acPool' = AcNothingLeft /\ acSpare' = acPool
      /\ acPhase' = IF AcNetOf(acRows') = acRaw THEN "ads" ELSE "failed"
      /\ UNCHANGED <<acMarket, acRaw, acDomestic, acSeen, acCharges, acLinked, acSheet>>
  BY DEF Allocate, acKeys, AcNothingLeft
<1>2. acPool \in [marketing : Int, costs : Int] /\ acRaw \in Int /\ acRows \in AcRowsType
  BY <1>0 DEF AcTyped, AcTypeOK, AcRowsType
<1>3. /\ AcBy(acPool, "marketing") = acPool.marketing /\ AcBy(acPool, "costs") = acPool.costs
      /\ \A c \in {"sold", "returned", "cis", "revenue", "rf", "abroad", "commission"} :
           AcBy(acPool, c) = 0
  BY <1>2 DEF AcBy
<1>4. /\ \A c \in AcColumns : AcBy(acPool, c) \in Int
      /\ AcBy(acPool, "revenue") = AcBy(acPool, "rf") + AcBy(acPool, "abroad")
  BY <1>2, <1>3 DEF AcColumns
<1>5. /\ acRows' \in AcRowsType
      /\ \A c \in AcColumns : acRows'[U][c] = acRows[U][c] + AcBy(acPool, c)
      /\ \A x \in AcRowNames \ {U} : acRows'[x] = acRows[x]
      /\ AcNetOf(acRows') = AcNetOf(acRows) + AcBy(acPool, "revenue") - AcBy(acPool, "commission")
                              - AcBy(acPool, "marketing") - AcBy(acPool, "costs")
      /\ AcAdsOf(acRows') = AcAdsOf(acRows) + AcBy(acPool, "marketing")
      /\ AcNetOf(acRows) \in Int /\ AcAdsOf(acRows) \in Int
  BY <1>0, <1>1, <1>2, <1>4, AcAddTo
<1>6. \A x \in AcRowNames : acRows[x].revenue = acRows[x].rf + acRows[x].abroad
  BY <1>0 DEF RevenueSplits
<1>7. RevenueSplits'
  BY <1>0, <1>1, <1>2, <1>4, <1>6, AcSplitKept DEF RevenueSplits
<1>8. acPool'.marketing = 0 /\ acPool'.costs = 0
  BY <1>1 DEF AcNothingLeft
<1>9. AcNet = AcNetOf(acRows) - acPool.marketing - acPool.costs
  BY DEF AcNet
<1>10. AcNetOf(acRows') = AcNet /\ AcNet \in Int
  BY <1>2, <1>3, <1>5, <1>9
<1>11. AcNet' = AcNetOf(acRows')
  <2>1. AcNet' = AcNetOf(acRows') - 0 - 0
    BY <1>8 DEF AcNet
  <2> QED
    BY <1>10, <2>1
<1>12. acMarket # "ozon" => AcAdsOf(acRows) = 0 /\ acPool.marketing = 0
  BY <1>0, <1>1 DEF AcBalanced, AcBeforeAds, AcNothingLeft
<1>13. AcNetOf(acRows') = acRaw /\ acPhase' = "ads"
  <2>1. CASE acMarket = "ozon"
    BY <1>0, <1>1, <1>10, <2>1 DEF AcBalanced
  <2>2. CASE acMarket # "ozon"
    <3>1. AcNet + AcAdsOf(acRows) = acRaw /\ AcAdsOf(acRows) = 0
      BY <1>0, <1>12, <2>2 DEF AcBalanced
    <3> QED
      BY <1>1, <1>10, <3>1
  <2> QED
    BY <2>1, <2>2
<1>14. acMarket # "ozon" => AcAdsOf(acRows') = 0
  BY <1>3, <1>5, <1>12
<1>15. AcBalanced'
  <2>1. acMarket # "ozon" => AcNet' + AcAdsOf(acRows') = acRaw'
    BY <1>1, <1>2, <1>11, <1>13, <1>14
  <2> QED
    BY <1>1, <1>11, <1>13, <2>1 DEF AcBalanced, AcBeforeAds, AcNothingLeft
<1>16. AcTyped'
  BY <1>0, <1>1, <1>2, <1>5, <1>13 DEF AcTyped, AcTypeOK, AcRowsType, AcNothingLeft
<1>17. AcSpared'
  <2>1. acLinked' = 0
    BY <1>0, <1>1 DEF AcSpared, AcBeforeAds
  <2>2. ASSUME acMarket = "ozon"
        PROVE  acRows'[U].marketing = acPool.marketing - 0 /\ acRows'[U].costs = acPool.costs
    <3>1. acRows[U].marketing = 0 /\ acRows[U].costs = 0
      BY <1>0, <1>1, <2>2 DEF AcSpared, AcBeforeAds
    <3>2. /\ acRows'[U].marketing = acRows[U].marketing + AcBy(acPool, "marketing")
          /\ acRows'[U].costs = acRows[U].costs + AcBy(acPool, "costs")
      BY <1>5 DEF AcColumns
    <3> QED
      BY <1>2, <1>3, <3>1, <3>2
  <2> QED
    BY <1>1, <1>13, <2>1, <2>2 DEF AcSpared, AcBeforeAds
<1>18. AcInOrder' /\ BuyoutsCountOnce'
  <2>1. \A x \in AcSkus : acRows'[x] = acRows[x]
    BY <1>0, <1>5 DEF AcRowNames
  <2> QED
    BY <1>0, <1>1, <1>13, <2>1 DEF AcInOrder, BuyoutsCountOnce
<1>19. SpareIsShown' /\ TaxesAreShared'
  BY <1>13 DEF SpareIsShown, TaxesAreShared
<1> QED
  BY <1>7, <1>15, <1>16, <1>17, <1>18, <1>19 DEF AcInv

\* Ad costs that go from the row of no article to the article leave every sum as it was.
LEMMA BindAdKeeps ==
  ASSUME AcInv, NEW u \in AcUnits, NEW s \in AcSkus, NEW cost \in Int, BindAd(u, s, cost)
  PROVE  AcInv'
<1> DEFINE U == AcUnallocated
           by == [marketing |-> cost]
           back == [marketing |-> -cost]
           mid == AcAdd(acRows, s, by)
<1>0. /\ AcTyped /\ AcBalanced /\ AcSpared /\ AcInOrder /\ RevenueSplits /\ BuyoutsCountOnce
      /\ U \in AcRowNames /\ s \in AcRowNames /\ s # U
      /\ acRows \in AcRowsType
  BY AcFinite DEF AcInv, AcTyped, AcTypeOK, AcRowsType
<1>1. /\ acMarket = "ozon" /\ acPhase = "ads"
      /\ acRows' = AcTaken(mid, cost) /\ acNamed' = acNamed \cup {s, U}
      /\ acLinked' = acLinked + cost
      /\ UNCHANGED <<acMarket, acPhase, acPool, acRaw, acDomestic, acSeen, acCharges,
                     acSpare, acSheet>>
  BY DEF BindAd, AcAdRow, acKeys
<1>2. /\ AcBy(by, "marketing") = cost /\ AcBy(by, "revenue") = 0 /\ AcBy(by, "commission") = 0
      /\ AcBy(by, "costs") = 0 /\ AcBy(by, "rf") = 0 /\ AcBy(by, "abroad") = 0
      /\ AcBy(by, "sold") = 0 /\ AcBy(by, "cis") = 0
      /\ \A c \in AcColumns : AcBy(by, c) \in Int
  BY AcAdsOnly
<1>3. /\ AcBy(back, "marketing") = -cost /\ AcBy(back, "revenue") = 0
      /\ AcBy(back, "commission") = 0
      /\ AcBy(back, "costs") = 0 /\ AcBy(back, "rf") = 0 /\ AcBy(back, "abroad") = 0
      /\ AcBy(back, "sold") = 0 /\ AcBy(back, "cis") = 0
      /\ \A c \in AcColumns : AcBy(back, c) \in Int
  BY -cost \in Int, AcAdsOnly
<1>4. \A rs \in AcRowsType : AcTaken(rs, cost) = AcAdd(rs, U, back)
  <2> TAKE rs \in AcRowsType
  <2>1. rs[U] \in [AcColumns -> Int]
    BY <1>0 DEF AcRowsType
  <2>2. AcTaken(rs, cost) = [rs EXCEPT ![U] = [rs[U] EXCEPT !.marketing = @ - cost]]
    BY DEF AcTaken
  <2>3. AcAdd(rs, U, back) = [rs EXCEPT ![U] = [c \in AcColumns |-> rs[U][c] + AcBy(back, c)]]
    BY <1>0 DEF AcAdd, AcBy, AcRowsType
  <2> DEFINE left == [rs[U] EXCEPT !.marketing = @ - cost]
             right == [c \in AcColumns |-> rs[U][c] + AcBy(back, c)]
  <2>4. \A c \in AcColumns : c # "marketing" => AcBy(back, c) = 0
    BY DEF AcBy
  <2> HIDE DEF back
  <2>5. ASSUME NEW c \in AcColumns PROVE left[c] = right[c]
    <3>1. rs[U][c] \in Int
      BY <2>1
    <3>2. CASE c = "marketing"
      BY <1>3, <2>1, <3>1, <3>2
    <3>3. CASE c # "marketing"
      BY <2>1, <2>4, <3>1, <3>3
    <3> QED
      BY <3>2, <3>3
  <2>6. left = right
    BY <2>1, <2>5
  <2> QED
    BY <2>2, <2>3, <2>6
<1> HIDE DEF by, back
<1>5. /\ mid \in AcRowsType
      /\ \A c \in AcColumns : mid[s][c] = acRows[s][c] + AcBy(by, c)
      /\ \A x \in AcRowNames \ {s} : mid[x] = acRows[x]
      /\ AcNetOf(mid) = AcNetOf(acRows) + AcBy(by, "revenue") - AcBy(by, "commission")
                          - AcBy(by, "marketing") - AcBy(by, "costs")
      /\ AcNetOf(acRows) \in Int
  BY <1>0, <1>2, AcAddTo
<1>6. \A x \in AcRowNames : mid[x].revenue = mid[x].rf + mid[x].abroad
  <2>1. /\ \A x \in AcRowNames : acRows[x].revenue = acRows[x].rf + acRows[x].abroad
        /\ AcBy(by, "revenue") = AcBy(by, "rf") + AcBy(by, "abroad")
    BY <1>0, <1>2 DEF RevenueSplits
  <2> QED
    BY <1>0, <1>2, <2>1, AcSplitKept
<1>7. acRows' = AcAdd(mid, U, back)
  BY <1>1, <1>4, <1>5
<1> HIDE DEF mid
<1>8. /\ acRows' \in AcRowsType
      /\ \A c \in AcColumns : acRows'[U][c] = mid[U][c] + AcBy(back, c)
      /\ \A x \in AcRowNames \ {U} : acRows'[x] = mid[x]
      /\ AcNetOf(acRows') = AcNetOf(mid) + AcBy(back, "revenue") - AcBy(back, "commission")
                              - AcBy(back, "marketing") - AcBy(back, "costs")
  BY <1>0, <1>3, <1>5, <1>7, AcAddTo
<1>9. RevenueSplits'
  <2>1. AcBy(back, "revenue") = AcBy(back, "rf") + AcBy(back, "abroad")
    BY <1>3
  <2> QED
    BY <1>0, <1>3, <1>5, <1>6, <1>7, <2>1, AcSplitKept DEF RevenueSplits
<1>10. AcNetOf(acRows') = AcNetOf(acRows)
  BY <1>2, <1>3, <1>5, <1>8
<1>11. AcTyped'
  <2>1. acLinked' \in Int
    BY <1>0, <1>1 DEF AcTyped, AcTypeOK
  <2> QED
    BY <1>0, <1>1, <1>8, <2>1 DEF AcTyped, AcTypeOK, AcRowsType
<1>12. AcBalanced'
  BY <1>0, <1>1, <1>10 DEF AcBalanced, AcNet, AcBeforeAds
<1>13. AcSpared'
  <2>1. /\ acRows[U].marketing = acSpare.marketing - acLinked
        /\ acRows[U].costs = acSpare.costs
        /\ acRows[U].costs \in Int /\ acSpare.marketing \in Int /\ acLinked \in Int
    BY <1>0, <1>1 DEF AcSpared, AcTyped, AcTypeOK, AcColumns
  <2>2. /\ acRows'[U].marketing = acRows[U].marketing + AcBy(back, "marketing")
        /\ acRows'[U].costs = acRows[U].costs + AcBy(back, "costs")
    BY <1>0, <1>5, <1>8 DEF AcColumns
  <2>3. /\ acRows'[U].marketing = acSpare.marketing - (acLinked + cost)
        /\ acRows'[U].costs = acSpare.costs
    BY <1>3, <2>1, <2>2
  <2> QED
    BY <1>1, <2>3 DEF AcSpared, AcBeforeAds
<1>14. AcInOrder' /\ BuyoutsCountOnce'
  <2>1. ASSUME NEW x \in AcSkus
        PROVE  acRows'[x].sold = acRows[x].sold /\ acRows'[x].cis = acRows[x].cis
    <3>1. x \in AcRowNames \ {U} /\ {"sold", "cis"} \subseteq AcColumns
      BY AcFinite DEF AcRowNames, AcColumns
    <3>2. acRows'[x] = mid[x] /\ acRows[x].sold \in Int /\ acRows[x].cis \in Int
      BY <1>0, <1>8, <3>1 DEF AcRowsType
    <3> QED
      BY <1>2, <1>5, <3>1, <3>2
  <2> QED
    BY <1>0, <1>1, <2>1 DEF AcInOrder, BuyoutsCountOnce
<1>15. SpareIsShown' /\ TaxesAreShared'
  BY <1>1 DEF SpareIsShown, TaxesAreShared
<1> QED
  BY <1>9, <1>11, <1>12, <1>13, <1>14, <1>15 DEF AcInv

\* bind_ad_costs() does not refuse the report, and says of the rest what the row of no article has.
LEMMA AdsBoundKeeps ==
  ASSUME AcInv, AdsBound
  PROVE  AcInv'
<1>0. /\ AcTyped /\ AcBalanced /\ AcSpared /\ AcInOrder /\ RevenueSplits /\ BuyoutsCountOnce
  BY DEF AcInv
<1>1. /\ acMarket = "ozon" /\ acPhase = "ads"
      /\ acPhase' = IF AcNetOf(acRows) = acRaw THEN "done" ELSE "failed"
      /\ acSpare' = [acSpare EXCEPT !.marketing = @ - acLinked]
      /\ UNCHANGED <<acMarket, acRows, acNamed, acPool, acRaw, acDomestic, acSeen, acCharges,
                     acLinked, acSheet>>
  BY DEF AdsBound, acSums, acKeys
<1>2. acSpare \in [marketing : Int, costs : Int] /\ acLinked \in Int /\ AcNetOf(acRows) \in Int
  BY <1>0, AcSumsInt DEF AcTyped, AcTypeOK
<1>3. /\ acSpare' \in [marketing : Int, costs : Int]
      /\ acSpare'.marketing = acSpare.marketing - acLinked /\ acSpare'.costs = acSpare.costs
  BY <1>1, <1>2
<1>4. AcNetOf(acRows) = acRaw
  <2>1. AcNet = acRaw /\ acPool.marketing = 0 /\ acPool.costs = 0
    BY <1>0, <1>1 DEF AcBalanced, AcBeforeAds, AcNothingLeft
  <2>2. AcNet = AcNetOf(acRows) - 0 - 0
    BY <2>1 DEF AcNet
  <2> QED
    BY <1>2, <2>1, <2>2
<1>5. AcTyped'
  BY <1>0, <1>1, <1>3, <1>4 DEF AcTyped, AcTypeOK
<1>6. AcBalanced' /\ AcSpared' /\ AcInOrder' /\ RevenueSplits' /\ BuyoutsCountOnce'
  BY <1>0, <1>1, <1>4 DEF AcBalanced, AcNet, AcBeforeAds, AcSpared, AcInOrder, RevenueSplits,
                          BuyoutsCountOnce
<1>7. SpareIsShown'
  BY <1>0, <1>1, <1>3, <1>4 DEF AcSpared, SpareIsShown
<1>8. TaxesAreShared'
  BY <1>1, <1>4 DEF TaxesAreShared
<1> QED
  BY <1>5, <1>6, <1>7, <1>8 DEF AcInv

\* A function that is `amount` at one key and nothing elsewhere.
LEMMA AcCarried ==
  ASSUME NEW f, NEW S, IsFiniteSet(S), NEW e, NEW amount \in Int,
         \A x \in S : f[x] = IF x = e THEN amount ELSE 0
  PROVE  SumOver(f, S) = amount \/ (SumOver(f, S) = 0 /\ e \notin S)
<1>1. CASE e \in S
  <2>1. {e} \in SUBSET S /\ f[e] \in Int /\ f[e] = amount /\ \A x \in S \ {e} : f[x] = 0
    BY <1>1
  <2>2. SumOver(f, S) = SumOver(f, {e})
    BY <2>1, SumPart
  <2> QED
    BY <2>1, <2>2, SumOne
<1>2. CASE e \notin S
  <2>1. {} \in SUBSET S /\ \A x \in S \ {} : f[x] = 0
    BY <1>2
  <2>2. SumOver(f, S) = SumOver(f, {})
    BY <2>1, SumPart
  <2> QED
    BY <1>2, <2>2, SumEmpty
<1> QED
  BY <1>1, <1>2

\* The rows that are there share the tax to the kopeck, and that of no article has the expenses.
LEMMA PutTogetherKeeps ==
  ASSUME AcInv, NEW tax \in Int, NEW external \in Int, NEW paid \in [AcSkus -> AcFees],
         NEW last \in AcSkus, PutTogether(tax, external, paid, last)
  PROVE  AcInv'
<1> DEFINE U == AcUnallocated
           skus == {s \in AcSkus : paid[s] > 0}
           shares == AcShares(tax, paid, last)
           f == [s \in acNamed |-> IF s \in DOMAIN shares THEN shares[s] ELSE 0]
           g == [s \in acNamed |-> IF s = U THEN external ELSE 0]
<1>0. /\ AcTyped /\ AcBalanced /\ AcSpared /\ AcInOrder /\ RevenueSplits /\ BuyoutsCountOnce
      /\ SpareIsShown
  BY DEF AcInv
<1>1. /\ acPhase = "done" /\ acPhase' = "told"
      /\ \A s \in AcSkus : paid[s] > 0 => s \in acNamed /\ paid[last] > 0
      /\ acSheet' = [tax |-> tax, external |-> external, taxes |-> f, externals |-> g]
      /\ UNCHANGED <<acMarket, acRows, acNamed, acPool, acRaw, acDomestic, acSeen, acCharges,
                     acSpare, acLinked>>
  BY DEF PutTogether, acSums, acKeys
<1>2. IsFiniteSet(acNamed) /\ IsFiniteSet(skus)
  BY <1>0, AcFinite, FS_Subset DEF AcTyped, AcTypeOK
<1>3. SumOver(f, acNamed) = tax \/ (SumOver(f, acNamed) = 0 /\ U \notin acNamed)
  <2>1. CASE skus = {}
    <3>1. shares = [s \in {U} |-> tax]
      BY <2>1 DEF AcShares
    <3>2. \A x \in acNamed : f[x] = IF x = U THEN tax ELSE 0
      BY <3>1
    <3> HIDE DEF f
    <3> QED
      BY <1>2, <3>2, AcCarried
  <2>2. CASE skus # {}
    <3>1. shares = MnAllocate(tax, paid, skus, last)
      BY <2>2 DEF AcShares
    <3>2. last \in skus /\ skus \in SUBSET acNamed
      BY <1>1, <2>2
    <3>3. \A k \in skus : paid[k] \in Int
      <4>1. AcFees \subseteq Int
        BY AcAssumption
      <4> QED
        BY <4>1
    <3> HIDE DEF skus, shares
    <3>4. shares \in [skus -> Int] /\ SumOver(shares, skus) = tax
      BY <1>2, <3>1, <3>2, <3>3, AllocateAddsUp
    <3>5. /\ \A x \in skus : f[x] \in Int /\ f[x] = shares[x]
          /\ \A x \in acNamed \ skus : f[x] = 0
      BY <3>2, <3>4
    <3> HIDE DEF f
    <3>6. SumOver(f, acNamed) = SumOver(f, skus)
      BY <1>2, <3>2, <3>5, SumPart
    <3>7. SumOver(f, skus) = SumOver(shares, skus)
      BY <1>2, <3>5, SumSame
    <3> QED
      BY <3>4, <3>6, <3>7
  <2> QED
    BY <2>1, <2>2
<1>4. SumOver(g, acNamed) = external \/ (SumOver(g, acNamed) = 0 /\ U \notin acNamed)
  <2>1. \A x \in acNamed : g[x] = IF x = U THEN external ELSE 0
    OBVIOUS
  <2> HIDE DEF g
  <2> QED
    BY <1>2, <2>1, AcCarried
<1>5. TaxesAreShared'
  <2>1. /\ acSheet'.tax = tax /\ acSheet'.external = external
        /\ acSheet'.taxes = f /\ acSheet'.externals = g /\ acNamed' = acNamed
    BY <1>1
  <2> HIDE DEF f, g
  <2> QED
    BY <1>3, <1>4, <2>1 DEF TaxesAreShared
<1>6. AcTyped' /\ AcBalanced' /\ AcSpared' /\ AcInOrder'
  BY <1>0, <1>1 DEF AcTyped, AcTypeOK, AcBalanced, AcNet, AcBeforeAds, AcSpared, AcInOrder
<1>7. RevenueSplits' /\ BuyoutsCountOnce' /\ SpareIsShown'
  BY <1>0, <1>1 DEF RevenueSplits, BuyoutsCountOnce, SpareIsShown
<1> QED
  BY <1>5, <1>6, <1>7 DEF AcInv

\* An empty table adds up to nothing.
LEMMA AcInitInv == AcInit => AcInv
<1> SUFFICES ASSUME AcInit PROVE AcInv
  OBVIOUS
<1>1. /\ acMarket \in {"ozon", "wb", "ym"} /\ acPhase = "accruals"
      /\ acRows = [s \in AcRowNames |-> AcEmpty] /\ acNamed = {}
      /\ acPool = AcNothingLeft /\ acRaw = 0
      /\ acDomestic = AcNothing /\ acSeen = AcNothing /\ acCharges = {}
      /\ acSpare = AcNothingLeft /\ acLinked = 0
  BY DEF AcInit, AcNothingLeft
<1>2. /\ DOMAIN acSeen = {} /\ DOMAIN acDomestic = {} /\ acDomestic \in [DOMAIN acDomestic -> AcSale]
  BY <1>1 DEF AcNothing
<1>3. \A s \in AcRowNames : acRows[s] = AcEmpty
  BY <1>1
<1>4. \A s \in AcRowNames : \A c \in AcColumns : acRows[s][c] = 0
  BY <1>3 DEF AcEmpty
<1>5. AcTyped
  <2>1. acRows \in [AcRowNames -> [AcColumns -> Int]]
    BY <1>1 DEF AcEmpty
  <2> QED
    BY <1>1, <1>2, <2>1 DEF AcTyped, AcTypeOK, AcNothingLeft
<1>6. AcNetOf(acRows) = 0 /\ AcAdsOf(acRows) = 0
  <2> DEFINE f == [s \in AcRowNames |-> acRows[s].revenue - acRows[s].commission
                                          - acRows[s].marketing - acRows[s].costs]
             g == [s \in AcRowNames |-> acRows[s].marketing]
  <2>1. \A s \in AcRowNames : f[s] = 0 /\ g[s] = 0
    <3>1. {"revenue", "commission", "marketing", "costs"} \subseteq AcColumns
      BY DEF AcColumns
    <3>2. ASSUME NEW s \in AcRowNames PROVE f[s] = 0 - 0 - 0 - 0 /\ g[s] = 0
      BY <1>4, <3>1
    <3> QED
      BY <3>2
  <2>2. IsFiniteSet(AcRowNames) /\ {} \in SUBSET AcRowNames
    BY AcFinite
  <2>3. AcNetOf(acRows) = SumOver(f, AcRowNames) /\ AcAdsOf(acRows) = SumOver(g, AcRowNames)
    BY DEF AcNetOf, AcAdsOf
  <2> HIDE DEF f, g
  <2>4. SumOver(f, AcRowNames) = SumOver(f, {}) /\ SumOver(g, AcRowNames) = SumOver(g, {})
    BY <2>1, <2>2, SumPart
  <2> QED
    BY <2>3, <2>4, SumEmpty
<1>7. AcBalanced
  <2>1. AcNet = 0 - 0 - 0
    BY <1>1, <1>6 DEF AcNet, AcNothingLeft
  <2> QED
    BY <1>1, <1>6, <2>1 DEF AcBalanced, AcBeforeAds
<1>8. AcSpared /\ AcInOrder /\ SpareIsShown /\ TaxesAreShared
  <2>1. acRows[AcUnallocated].marketing = 0 /\ acRows[AcUnallocated].costs = 0
    BY <1>4, AcFinite DEF AcColumns
  <2> QED
    BY <1>1, <1>2, <2>1 DEF AcSpared, AcInOrder, SpareIsShown, TaxesAreShared, AcBeforeAds
<1>9. RevenueSplits
  <2>1. \A s \in AcRowNames : acRows[s].revenue = 0 /\ acRows[s].rf = 0 /\ acRows[s].abroad = 0
    BY <1>4 DEF AcColumns
  <2> QED
    BY <2>1 DEF RevenueSplits
<1>10. BuyoutsCountOnce
  <2> SUFFICES ASSUME NEW s \in AcSkus
               PROVE  acRows[s].sold + acRows[s].cis
                        = AcSoldOf(acDomestic, s)
                            + Cardinality({k \in DOMAIN acSeen \ DOMAIN acDomestic : k[2] = s})
    BY DEF BuyoutsCountOnce
  <2>1. acRows[s].sold = 0 /\ acRows[s].cis = 0
    BY <1>4 DEF AcColumns, AcRowNames
  <2>2. {k \in DOMAIN acSeen \ DOMAIN acDomestic : k[2] = s} = {}
        /\ {k \in DOMAIN acDomestic : k[2] = s} = {}
    BY <1>2
  <2>3. AcSoldOf(acDomestic, s) = 0
    BY <2>2, SumEmpty DEF AcSoldOf
  <2>4. Cardinality({k \in DOMAIN acSeen \ DOMAIN acDomestic : k[2] = s}) = 0
    BY <2>2, FS_EmptySet
  <2> QED
    BY <2>1, <2>3, <2>4
<1> QED
  BY <1>5, <1>7, <1>8, <1>9, <1>10 DEF AcInv

\* Prices, fees and taxes are whole numbers, and so are returns.
LEMMA AcNumbers ==
  /\ AcPrices \subseteq Int /\ AcFees \subseteq Int /\ AcTaxes \subseteq Int /\ AcSales \subseteq Int
  /\ 0 \in Int /\ \A n \in Int : -n \in Int
<1>1. AcPrices \subseteq Int /\ AcFees \subseteq Int /\ AcTaxes \subseteq Int
  BY AcAssumption
<1>2. \A n \in Int : -n \in Int
  OBVIOUS
<1>3. {-n : n \in AcPrices} \subseteq Int
  BY <1>1, <1>2, Zenon
<1>4. AcSales \subseteq Int
  BY <1>1, <1>3, Zenon DEF AcSales
<1> QED
  BY <1>1, <1>2, <1>4

\* Every step of the report keeps the invariant, as long as WB pays at most the price.
LEMMA AcStep ==
  ASSUME WbPaysAtMost = TRUE, AcInv, [AcNext]_acVars
  PROVE  AcInv'
<1>0. /\ AcPrices \subseteq Int /\ AcFees \subseteq Int /\ AcTaxes \subseteq Int /\ AcSales \subseteq Int
      /\ 0 \in Int /\ \A n \in Int : -n \in Int
  BY AcNumbers
<1>1. ASSUME NEW s \in AcSkus, NEW u \in AcUnits, NEW fee \in AcFees, NEW services \in AcFees,
             NEW rest \in AcFees, NEW sale \in AcSales \cup {0},
             AddPosting(s, u, sale, -fee, -services, rest)
      PROVE  AcInv'
  <2>1. -fee \in Int /\ -services \in Int /\ rest \in Int /\ sale \in Int
    BY <1>0
  <2> QED
    BY <1>1, <2>1, AddPostingKeeps
<1>2. ASSUME NEW u \in AcUnits, NEW isAd \in BOOLEAN, NEW amount \in AcFees, AddFee(u, isAd, amount)
      PROVE  AcInv'
  BY <1>0, <1>2, AddFeeKeeps
<1>3. CASE FirstFeedRead
  BY <1>3, FirstFeedReadKeeps
<1>4. ASSUME NEW u \in AcUnits, NEW s \in AcSkus, NEW gross \in AcPrices, NEW receipt \in AcPrices,
             AddBuyout(u, s, gross, receipt)
      PROVE  AcInv'
  BY <1>0, <1>4, AddBuyoutKeeps
<1>5. CASE AddWbRow
  BY <1>5, AddWbRowKeeps
<1>6. ASSUME NEW s \in AcSkus, NEW sale \in AcSales, NEW fee \in AcFees, NEW costs \in AcFees,
             AddStandardSale(s, sale, IF sale > 0 THEN fee ELSE -fee, costs)
      PROVE  AcInv'
  <2>1. sale \in Int /\ costs \in Int /\ (IF sale > 0 THEN fee ELSE -fee) \in Int
    BY <1>0
  <2> QED
    BY <1>6, <2>1, AddStandardSaleKeeps
<1>7. ASSUME NEW delta \in AcFees \cup {-fee : fee \in AcFees}, Reconcile(delta)
      PROVE  AcInv'
  <2>1. delta \in Int
    BY <1>0
  <2> QED
    BY <1>7, <2>1, ReconcileKeeps
<1>8. CASE Allocate
  BY <1>8, AllocateKeeps
<1>9. ASSUME NEW u \in AcUnits, NEW s \in AcSkus, NEW cost \in AcPrices, BindAd(u, s, cost)
      PROVE  AcInv'
  BY <1>0, <1>9, BindAdKeeps
<1>10. CASE AdsBound
  BY <1>10, AdsBoundKeeps
<1>11. ASSUME NEW s \in AcSkus, NEW cost \in AcPrices, LinkAd(s, cost)
       PROVE  AcInv'
  BY <1>0, <1>11, LinkAdKeeps
<1>12. ASSUME NEW total \in AcFees, AdsLinked(total)
       PROVE  AcInv'
  BY <1>0, <1>12, AdsLinkedKeeps
<1>13. ASSUME NEW tax \in AcTaxes, NEW external \in AcTaxes, NEW paid \in [AcSkus -> AcFees],
              NEW last \in AcSkus, PutTogether(tax, external, paid, last)
       PROVE  AcInv'
  BY <1>0, <1>13, PutTogetherKeeps
<1>14. CASE UNCHANGED acVars
  <2>1. UNCHANGED <<acMarket, acPhase, acRows, acNamed, acPool, acRaw, acDomestic, acSeen,
                    acCharges, acSpare, acLinked, acSheet>>
    BY <1>14 DEF acVars, acFeed, acSums, acKeys, acEnds
  <2>2. AcTyped' /\ AcBalanced' /\ AcSpared' /\ AcInOrder'
    BY <2>1 DEF AcInv, AcTyped, AcTypeOK, AcBalanced, AcNet, AcBeforeAds, AcSpared, AcInOrder
  <2>3. RevenueSplits' /\ BuyoutsCountOnce' /\ SpareIsShown' /\ TaxesAreShared'
    BY <2>1 DEF AcInv, RevenueSplits, BuyoutsCountOnce, SpareIsShown, TaxesAreShared
  <2> QED
    BY <2>2, <2>3 DEF AcInv
<1> QED
  BY <1>1, <1>2, <1>3, <1>4, <1>5, <1>6, <1>7, <1>8, <1>9, <1>10, <1>11, <1>12, <1>13, <1>14
     DEF AcNext

\* The article report adds up, whatever the feeds hold, as long as WB pays at most the price.
THEOREM ReportIsSound ==
  ASSUME WbPaysAtMost = TRUE
  PROVE  AcSpec => []ReportSound
<1>1. AcInit => AcInv
  BY AcInitInv
<1>2. AcInv /\ [AcNext]_acVars => AcInv'
  BY AcStep
<1>3. AcInv => ReportSound
  BY AcInvSuffices
<1> QED
  BY <1>1, <1>2, <1>3, PTL DEF AcSpec

-----------------------------------------------------------------------------
(* The month of the marketplaces (Pnl) *)

PnDated == PnMonthDays \cup {PnUndated}
PnRow == [id : PnExpenses, month : PnMonths, day : PnDated, amount : Int]

\* The change of an expense under way: a row is written under its id, and only a move deletes.
PnEditOK(edit) ==
  /\ edit.pc \in {"write", "unlink"} /\ edit.old \in PnRow /\ edit.new \in PnRow
  /\ edit = [pc |-> edit.pc, old |-> edit.old, new |-> edit.new]
  /\ edit.new.id = edit.old.id
  /\ edit.pc = "unlink" => PnMoves(edit)

\* Types.
PnTyped ==
  /\ pnDays \in [PnAccounts -> [PnMonthDays -> PnDay]] /\ pnReport \in Int
  /\ pnRows \in SUBSET PnRow /\ IsFiniteSet(pnRows)
  /\ pnAlive \in SUBSET PnExpenses
  /\ pnEdit = [t \in PnThreads |-> pnEdit[t]]
  /\ \A t \in PnThreads : pnEdit[t] = PnNoEdit \/ PnEditOK(pnEdit[t])

\* The mart is that of the data as they are, as long as they have not changed.
PnMartFresh ==
  pnFresh => pnMart = [row |-> [a \in PnAccounts |-> PnMartRow(a)], spent |-> PnSpent]

\* A thread that changes an expense.
PnAt(t, id) == pnEdit[t] # PnNoEdit /\ pnEdit[t].old.id = id

\* Two rows of one expense: while a thread moves it, under the two months of the move.
PnTwins(t, r, x) ==
  /\ pnEdit[t].pc = "unlink"
  /\ {r.month, x.month} = {pnEdit[t].old.month, pnEdit[t].new.month}

\* An expense has a row as long as it is there, also while it moves, as the new row is written
\* first; one that is moved is changed by one thread; and only while it moves it has two rows.
PnTidy(id) ==
  /\ \A r \in pnRows : r.id = id => id \in pnAlive
  /\ id \in pnAlive => \E r \in pnRows : r.id = id
  /\ \A t \in PnThreads : PnAt(t, id) =>
       /\ pnEdit[t].pc = "write" => \E r \in pnRows : r.id = id /\ r.month = pnEdit[t].old.month
       /\ pnEdit[t].pc = "unlink" => \E r \in pnRows : r.id = id /\ r.month = pnEdit[t].new.month
  /\ \A t, u \in PnThreads : PnAt(t, id) /\ PnAt(u, id) /\ t # u => ~PnMoves(pnEdit[t])
  /\ \A r, x \in pnRows :
       r.id = id /\ x.id = id /\ r # x => \E t \in PnThreads : PnAt(t, id) /\ PnTwins(t, r, x)

PnKept == \A id \in PnExpenses \ pnMixed : PnTidy(id)

PnInv == PnTyped /\ PnMartFresh /\ PnKept

-----------------------------------------------------------------------------
\* The month has finitely many days, and its last one is one of them.
LEMMA PnMonth ==
  /\ IsFiniteSet(PnMonthDays) /\ PnLast \in PnMonthDays /\ PnUndated \notin PnMonthDays
  /\ \A S \in SUBSET PnMonthDays : IsFiniteSet(S)
<1>1. PnLast \in Nat \ {0}
  BY PnAssumption
<1>2. IsFiniteSet(PnMonthDays)
  BY <1>1, FS_Interval DEF PnMonthDays
<1>3. \A S \in SUBSET PnMonthDays : IsFiniteSet(S)
  BY <1>2, FS_Subset
<1> QED
  BY <1>1, <1>2, <1>3 DEF PnMonthDays, PnUndated

\* An amount spread over the month is spread without a remainder.
LEMMA PnSpreadAll ==
  ASSUME NEW amount \in Int
  PROVE  /\ PnSpread(amount) \in [PnMonthDays -> Int]
         /\ SumOver(PnSpread(amount), PnMonthDays) = amount
<1> DEFINE w == [d \in PnMonthDays |-> 1]
<1>1. \A d \in PnMonthDays : w[d] \in Int
  OBVIOUS
<1>2. PnSpread(amount) = MnAllocate(amount, w, PnMonthDays, PnLast)
  BY DEF PnSpread
<1> HIDE DEF w
<1> QED
  BY <1>1, <1>2, PnMonth, AllocateAddsUp

\* What an expense is to the days of a period is what it is to the period.
LEMMA PnShares ==
  ASSUME NEW r \in PnRow, NEW days \in SUBSET PnMonthDays
  PROVE  /\ \A d \in PnMonthDays : PnShare(r, d) \in Int
         /\ SumOver([d \in PnMonthDays |-> PnShare(r, d)], days) = PnPeriodShare(r, days)
         /\ PnPeriodShare(r, days) \in Int
<1> DEFINE f == [d \in PnMonthDays |-> PnShare(r, d)]
<1>1. r.amount \in Int /\ IsFiniteSet(days)
  BY PnMonth DEF PnRow
<1>2. CASE r.day = PnUndated
  <2> DEFINE s == PnSpread(r.amount)
  <2>1. s \in [PnMonthDays -> Int] /\ SumOver(s, PnMonthDays) = r.amount
    BY <1>1, PnSpreadAll
  <2>2. \A d \in PnMonthDays : PnShare(r, d) = s[d]
    BY <1>2 DEF PnShare
  <2>3. PnPeriodShare(r, days) = IF days = PnMonthDays THEN r.amount ELSE SumOver(s, days)
    BY <1>2 DEF PnPeriodShare
  <2> HIDE DEF s
  <2>4. (\A d \in PnMonthDays : f[d] = s[d] /\ f[d] \in Int)
    BY <2>1, <2>2
  <2> HIDE DEF f
  <2>5. SumOver(f, days) = SumOver(s, days) /\ SumOver(f, days) \in Int
    BY <1>1, <2>4, SumSame, SumInt
  <2>6. SumOver(f, days) = PnPeriodShare(r, days)
    BY <2>1, <2>3, <2>5
  <2> QED
    BY <2>1, <2>2, <2>5, <2>6 DEF f
<1>3. CASE r.day # PnUndated
  <2>1. \A d \in PnMonthDays : PnShare(r, d) = IF d = r.day THEN r.amount ELSE 0
    BY <1>3 DEF PnShare
  <2>2. PnPeriodShare(r, days) = IF r.day \in days THEN r.amount ELSE 0
    BY <1>3 DEF PnPeriodShare
  <2>3. \A d \in days : f[d] = IF d = r.day THEN r.amount ELSE 0
    BY <2>1
  <2>4. \A d \in PnMonthDays : PnShare(r, d) \in Int
    BY <1>1, <2>1
  <2> HIDE DEF f
  <2>5. SumOver(f, days) = IF r.day \in days THEN r.amount ELSE 0
    <3>1. CASE r.day \in days
      <4>1. {r.day} \in SUBSET days /\ f[r.day] = r.amount /\ \A d \in days \ {r.day} : f[d] = 0
        BY <2>3, <3>1
      <4>2. SumOver(f, days) = SumOver(f, {r.day})
        BY <1>1, <4>1, SumPart
      <4> QED
        BY <1>1, <3>1, <4>1, <4>2, SumOne
    <3>2. CASE r.day \notin days
      <4>1. {} \in SUBSET days /\ \A d \in days \ {} : f[d] = 0
        BY <2>3, <3>2
      <4>2. SumOver(f, days) = SumOver(f, {})
        BY <1>1, <4>1, SumPart
      <4> QED
        BY <3>2, <4>2, SumEmpty
    <3> QED
      BY <3>1, <3>2
  <2>6. PnPeriodShare(r, days) \in Int
    BY <1>1, <2>2
  <2> QED
    BY <2>2, <2>4, <2>5, <2>6 DEF f
<1> QED
  BY <1>2, <1>3

\* The expenses of the month are finitely many rows.
LEMMA PnRowsOfMonth ==
  ASSUME PnTyped
  PROVE  IsFiniteSet(PnMonthRows) /\ PnMonthRows \in SUBSET pnRows /\ PnMonthRows \in SUBSET PnRow
<1>1. PnMonthRows \in SUBSET pnRows
  BY DEF PnMonthRows
<1>2. IsFiniteSet(PnMonthRows)
  <2> HIDE DEF PnMonthRows
  <2> QED
    BY <1>1, FS_Subset DEF PnTyped
<1> QED
  BY <1>1, <1>2 DEF PnTyped

\* The expenses of a period are those of its days.
LEMMA PnPeriodAddsUp ==
  ASSUME PnTyped, NEW days \in SUBSET PnMonthDays
  PROVE  PnPeriodExternal(days) = SumOver([d \in PnMonthDays |-> PnExternal(d)], days)
<1> DEFINE R == PnMonthRows
           m == [r \in R |-> [d \in PnMonthDays |-> PnShare(r, d)]]
           row == [r \in R |-> SumOver([d \in days |-> m[r][d]], days)]
           col == [d \in days |-> SumOver([r \in R |-> m[r][d]], R)]
           ext == [d \in PnMonthDays |-> PnExternal(d)]
           per == [r \in pnRows |-> PnPeriodShare(r, days)]
<1>1. IsFiniteSet(R) /\ R \in SUBSET pnRows /\ R \in SUBSET PnRow /\ IsFiniteSet(days)
  BY PnRowsOfMonth, PnMonth
<1> HIDE DEF R
<1>2. \A r \in R, d \in days : m[r][d] \in Int /\ m[r][d] = PnShare(r, d)
  <2>1. ASSUME NEW r \in R PROVE \A d \in PnMonthDays : PnShare(r, d) \in Int
    BY <1>1, PnShares
  <2> QED
    BY <2>1
<1>3. SumOver(col, days) = SumOver(row, R)
  <2> HIDE DEF m
  <2>1. \A r \in R, c \in days : m[r][c] \in Int
    BY <1>2
  <2>2. SumByCols(m, R, days) = SumByRows(m, R, days)
    BY <1>1, <2>1, SumExchange
  <2>3. SumOver(col, days) = SumByCols(m, R, days) /\ SumOver(row, R) = SumByRows(m, R, days)
    BY DEF SumByCols, SumByRows
  <2> QED
    BY <2>2, <2>3
<1>4. ASSUME NEW d \in days PROVE ext[d] = col[d]
  <2> DEFINE f == [r \in pnRows |-> PnShare(r, d)]
             g == [r \in R |-> m[r][d]]
  <2>1. \A r \in R : f[r] = g[r]
    BY <1>1, <1>2
  <2>2. ext[d] = SumOver(f, R) /\ col[d] = SumOver(g, R)
    BY DEF PnExternal, R
  <2> HIDE DEF f, g, ext, col
  <2> QED
    BY <1>1, <2>1, <2>2, SumSame
<1>5. ASSUME NEW r \in R PROVE row[r] = per[r]
  <2> DEFINE f == [d \in days |-> m[r][d]]
             g == [d \in PnMonthDays |-> PnShare(r, d)]
  <2>1. \A d \in days : f[d] = g[d]
    BY <1>2
  <2>2. row[r] = SumOver(f, days) /\ per[r] = PnPeriodShare(r, days)
    BY <1>1
  <2>3. SumOver(g, days) = PnPeriodShare(r, days)
    BY <1>1, PnShares
  <2> HIDE DEF f, g, row, per
  <2> QED
    BY <1>1, <2>1, <2>2, <2>3, SumSame
<1>6. PnPeriodExternal(days) = SumOver(per, R)
  BY DEF PnPeriodExternal, R
<1> HIDE DEF col, row, ext, per
<1>7. SumOver(ext, days) = SumOver(col, days)
  BY <1>1, <1>4, SumSame
<1>8. SumOver(row, R) = SumOver(per, R)
  BY <1>1, <1>5, SumSame
<1> QED
  BY <1>3, <1>6, <1>7, <1>8 DEF ext

\* Those of the whole month are what the mart has.
LEMMA PnWholeMonth ==
  ASSUME PnTyped
  PROVE  PnPeriodExternal(PnMonthDays) = PnSpent
<1> DEFINE f == [r \in pnRows |-> PnPeriodShare(r, PnMonthDays)]
           g == [r \in pnRows |-> r.amount]
<1>1. IsFiniteSet(PnMonthRows) /\ PnMonthRows \in SUBSET pnRows /\ PnMonthRows \in SUBSET PnRow
  BY PnRowsOfMonth
<1>2. \A r \in PnMonthRows : f[r] = g[r]
  <2> SUFFICES ASSUME NEW r \in PnMonthRows PROVE PnPeriodShare(r, PnMonthDays) = r.amount
    BY <1>1
  <2>1. r.day \in PnMonthDays \/ r.day = PnUndated
    BY <1>1 DEF PnRow, PnDated
  <2> QED
    BY <2>1 DEF PnPeriodShare
<1>3. PnPeriodExternal(PnMonthDays) = SumOver(f, PnMonthRows) /\ PnSpent = SumOver(g, PnMonthRows)
  BY DEF PnPeriodExternal, PnSpent
<1> HIDE DEF f, g
<1> QED
  BY <1>1, <1>2, <1>3, SumSame

-----------------------------------------------------------------------------
PnSumsOfMoney == {"revenue", "accrued", "lent", "paid", "netted", "cogs", "buyer", "receipts", "cis"}

\* Money is whole kopecks, by the day and by the month.
LEMMA PnMoney ==
  ASSUME PnTyped, NEW a \in PnAccounts
  PROVE  /\ \A d \in PnMonthDays : \A c \in PnSumsOfMoney : pnDays[a][d][c] \in Int
         /\ \A c \in PnSumsOfMoney : PnOf(a, c) \in Int
<1>1. \A d \in PnMonthDays : pnDays[a][d] \in PnDay
  BY DEF PnTyped
<1>2. \A d \in PnMonthDays : \A c \in PnSumsOfMoney : pnDays[a][d][c] \in Int
  BY <1>1 DEF PnDay, PnSumsOfMoney
<1>3. ASSUME NEW c \in PnSumsOfMoney PROVE PnOf(a, c) \in Int
  <2> DEFINE f == [d \in PnMonthDays |-> pnDays[a][d][c]]
  <2>1. \A d \in PnMonthDays : f[d] \in Int
    BY <1>2
  <2>2. PnOf(a, c) = SumOver(f, PnMonthDays)
    BY DEF PnOf, PnSum
  <2> HIDE DEF f
  <2> QED
    BY <2>1, <2>2, PnMonth, SumInt
<1> QED
  BY <1>2, <1>3

\* Days that stay at less than others by a column add up to less by that column of the month.
LEMMA PnColumnLess ==
  ASSUME PnTyped, NEW a \in PnAccounts, NEW c \in PnSumsOfMoney,
         NEW f, NEW g, \A d \in PnMonthDays : f[d] \in Int /\ f[d] + pnDays[a][d][c] = g[d]
  PROVE  SumOver(f, PnMonthDays) + PnOf(a, c) = SumOver(g, PnMonthDays)
<1> DEFINE h == [d \in PnMonthDays |-> pnDays[a][d][c]]
<1>1. \A d \in PnMonthDays : f[d] \in Int /\ h[d] \in Int /\ g[d] = f[d] + h[d]
  BY PnMoney
<1>2. PnOf(a, c) = SumOver(h, PnMonthDays)
  BY DEF PnOf, PnSum
<1> HIDE DEF h
<1> QED
  BY <1>1, <1>2, PnMonth, SumPlus

\* An account that has a row of the month.
PnHasRow(a) == pnMart.row[a] # <<>>

\* The days of an account add up to its month.
LEMMA PnResult ==
  ASSUME PnTyped, PnMartFresh
  PROVE  ResultAddsUp
<1> SUFFICES ASSUME pnFresh, NEW a \in PnAccounts, PnHasRow(a)
             PROVE  PnSum([d \in PnMonthDays |-> PnDayBeforeTax(a, d)])
                      = PnBeforeTax(a) + pnMart.row[a].ads
  BY DEF ResultAddsUp, PnHasRow
<1> DEFINE ozon == PnMarket[a] = "ozon"
           acc == [d \in PnMonthDays |-> pnDays[a][d].accrued]
           t == [d \in PnMonthDays |-> PnDayBeforeTax(a, d)]
           u == [d \in PnMonthDays |-> t[d] + pnDays[a][d].cogs]
           v == [d \in PnMonthDays |-> u[d] + pnDays[a][d].cis]
           w == [d \in PnMonthDays |-> acc[d] + pnDays[a][d].lent]
           A == PnOf(a, "accrued")
           P == PnAdCost(a)
<1>1. /\ \A d \in PnMonthDays :
            /\ pnDays[a][d].accrued \in Int /\ pnDays[a][d].lent \in Int
            /\ pnDays[a][d].receipts \in Int /\ pnDays[a][d].cis \in Int
            /\ pnDays[a][d].cogs \in Int
      /\ PnOf(a, "accrued") \in Int /\ PnOf(a, "lent") \in Int /\ PnOf(a, "receipts") \in Int
      /\ PnOf(a, "cis") \in Int /\ PnOf(a, "cogs") \in Int /\ PnOf(a, "paid") \in Int
      /\ PnOf(a, "netted") \in Int
  BY PnMoney DEF PnSumsOfMoney
<1>2. /\ "accrued" \in PnSumsOfMoney /\ "lent" \in PnSumsOfMoney /\ "cogs" \in PnSumsOfMoney
      /\ "receipts" \in PnSumsOfMoney /\ "cis" \in PnSumsOfMoney
  BY DEF PnSumsOfMoney
<1>3. P \in Int
  BY <1>1 DEF PnAdCost
<1>4. pnMart.row[a].profit = A - PnOf(a, "cogs") - P /\ pnMart.row[a].ads = P
  <2>1. pnMart.row[a] = PnMartRow(a) /\ pnMart.row[a] # <<>>
    BY DEF PnMartFresh, PnHasRow
  <2>. QED BY <2>1 DEF PnMartRow
<1>5. \A d \in PnMonthDays : t[d] = PnDayBeforeTax(a, d)
  OBVIOUS
<1>6. PnSum(t) = SumOver(t, PnMonthDays) /\ A = SumOver(acc, PnMonthDays)
  BY DEF PnSum, PnOf
<1> HIDE DEF P
<1>7. CASE ozon
  <2>1. \A d \in PnMonthDays : t[d] = pnDays[a][d].accrued
          + (pnDays[a][d].lent + pnDays[a][d].receipts - pnDays[a][d].cis) - pnDays[a][d].cogs
    BY <1>5, <1>7 DEF PnDayBeforeTax
  <2>2. \A d \in PnMonthDays : t[d] \in Int /\ t[d] + pnDays[a][d].cogs = u[d]
    BY <1>1, <2>1
  <2>3. \A d \in PnMonthDays : u[d] \in Int /\ u[d] + pnDays[a][d].cis = v[d]
    BY <1>1, <2>2
  <2>4. \A d \in PnMonthDays : acc[d] \in Int /\ acc[d] + pnDays[a][d].lent = w[d]
    BY <1>1
  <2> HIDE DEF t
  <2>5. \A d \in PnMonthDays : w[d] \in Int /\ w[d] + pnDays[a][d].receipts = v[d]
    BY <1>1, <2>1
  <2> HIDE DEF acc, u, v, w
  <2>6. SumOver(t, PnMonthDays) + PnOf(a, "cogs") = SumOver(u, PnMonthDays)
    BY <1>2, <2>2, PnColumnLess
  <2>7. SumOver(u, PnMonthDays) + PnOf(a, "cis") = SumOver(v, PnMonthDays)
    BY <1>2, <2>3, PnColumnLess
  <2>8. SumOver(acc, PnMonthDays) + PnOf(a, "lent") = SumOver(w, PnMonthDays)
    BY <1>2, <2>4, PnColumnLess
  <2>9. SumOver(w, PnMonthDays) + PnOf(a, "receipts") = SumOver(v, PnMonthDays)
    BY <1>2, <2>5, PnColumnLess
  <2>10. SumOver(t, PnMonthDays) \in Int
    BY <2>2, PnMonth, SumInt
  <2>11. PnBeforeTax(a) = pnMart.row[a].profit + PnOf(a, "lent") + PnOf(a, "receipts") - PnOf(a, "cis")
    BY <1>7 DEF PnBeforeTax, PnBuyouts, PnBought
  <2>12. SumOver(t, PnMonthDays) = PnBeforeTax(a) + pnMart.row[a].ads
    <3>1. SumOver(u, PnMonthDays) \in Int
      BY <1>1, <2>6, <2>10
    <3> QED
      BY <1>1, <1>3, <1>4, <1>6, <2>6, <2>7, <2>8, <2>9, <2>10, <2>11, <3>1
  <2> QED
    BY <1>6, <2>12 DEF t
<1>8. CASE ~ ozon
  <2>1. \A d \in PnMonthDays : t[d] = pnDays[a][d].accrued + 0 - pnDays[a][d].cogs
    BY <1>5, <1>8 DEF PnDayBeforeTax
  <2>2. \A d \in PnMonthDays : t[d] \in Int /\ t[d] + pnDays[a][d].cogs = acc[d]
    BY <1>1, <2>1
  <2> HIDE DEF t, acc
  <2>3. SumOver(t, PnMonthDays) + PnOf(a, "cogs") = SumOver(acc, PnMonthDays)
    BY <1>2, <2>2, PnColumnLess
  <2>4. SumOver(t, PnMonthDays) \in Int
    BY <2>2, PnMonth, SumInt
  <2>5. PnBeforeTax(a) = pnMart.row[a].profit + 0 + 0 - 0
    BY <1>8 DEF PnBeforeTax, PnBuyouts, PnBought
  <2>6. SumOver(t, PnMonthDays) = PnBeforeTax(a) + pnMart.row[a].ads
    BY <1>1, <1>3, <1>4, <1>6, <2>3, <2>4, <2>5
  <2> QED
    BY <1>6, <2>6 DEF t
<1> QED
  BY <1>7, <1>8

\* A tax is whole kopecks.
LEMMA PnTaxInt ==
  ASSUME NEW base \in Int
  PROVE  PnTaxOf(base) \in Int
<1>1. MnMax0(base) \in Int /\ PnRate \in Int
  BY PnAssumption DEF MnMax0
<1>2. MnMax0(base) * PnRate \in Int
  <2> DEFINE m == MnMax0(base)
  <2>1. m \in Int
    BY <1>1
  <2> HIDE DEF m
  <2>2. m * PnRate \in Int
    BY <1>1, <2>1
  <2> QED
    BY <2>2 DEF m
<1>3. 100 \in Int /\ 100 # 0
  OBVIOUS
<1> QED
  BY <1>2, <1>3, RoundIsInt DEF PnTaxOf, MnTax

\* The tax of the days is that of the month.
LEMMA PnTaxes ==
  ASSUME PnTyped
  PROVE  TaxAddsUp
<1> SUFFICES ASSUME PnAnswered, NEW a \in PnTaxed, pnMart.row[a] # <<>>,
                    \/ PnMarket[a] = "wb" =>
                         {d \in PnMonthDays : pnDays[a][d].reported} \in {{}, PnMonthDays}
                    \/ PnMonthTax(a).status = "confirmed"
             PROVE  PnSum(PnDayTax(a)) = PnMonthTax(a).tax
  BY DEF TaxAddsUp
<1> DEFINE weight == [d \in PnMonthDays |-> PnBuyer(a, d)]
           base == SumOver(weight, PnMonthDays)
           some == {d \in PnMonthDays : pnDays[a][d].reported}
           T == PnMonthTax(a)
           buyer == [d \in PnMonthDays |-> pnDays[a][d].buyer]
           revenue == [d \in PnMonthDays |-> pnDays[a][d].revenue]
<1>1. a \in PnAccounts /\ PnMarket[a] \in {"ozon", "wb", "ym"} /\ T.status # "error"
  BY PnAssumption DEF PnAnswered
<1>2. \A d \in PnMonthDays : buyer[d] \in Int /\ revenue[d] \in Int
  BY <1>1, PnMoney DEF PnSumsOfMoney
<1>3. PnOf(a, "buyer") = SumOver(buyer, PnMonthDays) /\ PnOf(a, "revenue") = SumOver(revenue, PnMonthDays)
  BY DEF PnOf, PnSum
<1>4. \A d \in PnMonthDays :
        weight[d] = IF PnMarket[a] = "ozon" \/ (PnMarket[a] = "wb" /\ pnDays[a][d].reported)
                    THEN buyer[d] ELSE revenue[d]
  BY DEF PnBuyer
<1>5. some \in SUBSET PnMonthDays /\ IsFiniteSet(some) /\ IsFiniteSet(PnMonthDays)
  <2>1. some \in SUBSET PnMonthDays
    OBVIOUS
  <2> HIDE DEF some
  <2> QED
    BY <2>1, PnMonth
<1> HIDE DEF weight, buyer, revenue
<1>6. \A d \in PnMonthDays : weight[d] \in Int
  BY <1>2, <1>4
<1>7. base \in Int
  BY <1>5, <1>6, SumInt
<1>8. /\ PnMarket[a] = "ozon" => base = PnOf(a, "buyer")
      /\ PnMarket[a] = "ym" => base = PnOf(a, "revenue")
      /\ PnMarket[a] = "wb" /\ some = {} => base = PnOf(a, "revenue")
      /\ PnMarket[a] = "wb" /\ some = PnMonthDays => base = SumOver(buyer, some)
  <2>1. CASE PnMarket[a] = "ozon"
    <3>1. \A d \in PnMonthDays : weight[d] = buyer[d]
      BY <1>4, <2>1
    <3>2. base = SumOver(buyer, PnMonthDays)
      BY <1>5, <3>1, SumSame
    <3> QED
      BY <1>3, <2>1, <3>2
  <2>2. CASE PnMarket[a] # "ozon"
    <3>1. CASE PnMarket[a] = "ym" \/ some = {}
      <4>1. \A d \in PnMonthDays : weight[d] = revenue[d]
        BY <1>4, <2>2, <3>1
      <4>2. base = SumOver(revenue, PnMonthDays)
        BY <1>5, <4>1, SumSame
      <4>3. PnMonthDays # {}
        BY PnMonth
      <4> QED
        BY <1>3, <2>2, <3>1, <4>2, <4>3
    <3>2. CASE PnMarket[a] = "wb" /\ some = PnMonthDays
      <4>1. \A d \in PnMonthDays : weight[d] = buyer[d]
        <5>1. \A d \in PnMonthDays : pnDays[a][d].reported
          BY <3>2
        <5> QED
          BY <1>4, <3>2, <5>1
      <4>2. base = SumOver(buyer, PnMonthDays)
        BY <1>5, <4>1, SumSame
      <4>3. PnMonthDays # {}
        BY PnMonth
      <4> QED
        BY <3>2, <4>2, <4>3
    <3> QED
      BY <2>2, <3>1, <3>2
  <2> QED
    BY <2>1, <2>2
<1>9. T.tax \in Int /\ (T.status # "confirmed" => T.tax = PnTaxOf(base))
  <2> DEFINE partial == SumOver(buyer, some)
  <2>1. /\ PnOf(a, "buyer") \in Int /\ PnOf(a, "revenue") \in Int /\ PnOf(a, "receipts") \in Int
        /\ pnReport \in Int
    BY <1>1, PnMoney DEF PnSumsOfMoney, PnTyped
  <2>2. partial \in Int
    BY <1>2, <1>5, SumInt
  <2>3. CASE PnMarket[a] = "ozon"
    <3>1. T = PnTaxOzon(a)
      BY <2>3 DEF PnMonthTax
    <3>2. PnBuyouts(a) = PnOf(a, "receipts")
      BY <2>3 DEF PnBuyouts
    <3>3. \/ T = [status |-> "confirmed", tax |-> PnTaxOf(pnReport + PnBuyouts(a))]
          \/ T = [status |-> "error", tax |-> 0]
          \/ T = [status |-> "estimated", tax |-> PnTaxOf(PnOf(a, "buyer"))]
      BY <3>1 DEF PnTaxOzon
    <3>4. PnTaxOf(pnReport + PnBuyouts(a)) \in Int /\ PnTaxOf(PnOf(a, "buyer")) \in Int
      <4>1. pnReport + PnBuyouts(a) \in Int
        BY <2>1, <3>2
      <4> QED
        BY <2>1, <4>1, PnTaxInt
    <3> HIDE DEF T
    <3> QED
      BY <1>1, <1>8, <2>3, <3>3, <3>4
  <2>4. CASE PnMarket[a] = "wb"
    <3>1. T = PnTaxWb(a)
      BY <2>4 DEF PnMonthTax
    <3>2. T = IF some # {}
              THEN [status |-> IF pnClosed THEN "confirmed" ELSE "estimated", tax |-> PnTaxOf(partial)]
              ELSE [status |-> "estimated", tax |-> PnTaxOf(PnOf(a, "revenue"))]
      BY <3>1 DEF PnTaxWb, PnRevenue, buyer
    <3>3. PnTaxOf(partial) \in Int /\ PnTaxOf(PnOf(a, "revenue")) \in Int
      BY <2>1, <2>2, PnTaxInt
    <3>4. some \in {{}, PnMonthDays} \/ T.status = "confirmed"
      BY <2>4
    <3> HIDE DEF T, some, partial
    <3>5. CASE some = {}
      BY <1>8, <2>4, <3>2, <3>3, <3>5
    <3>6. CASE some # {}
      <4>1. T.tax = PnTaxOf(partial)
        BY <3>2, <3>6
      <4>2. T.status # "confirmed" => base = partial
        BY <1>8, <2>4, <3>4, <3>6 DEF partial
      <4> QED
        BY <3>3, <4>1, <4>2
    <3> QED
      BY <3>5, <3>6
  <2>5. CASE PnMarket[a] = "ym"
    <3>1. T = PnTaxYm(a)
      BY <2>5 DEF PnMonthTax
    <3>2. T.tax = PnTaxOf(PnOf(a, "revenue"))
      BY <3>1 DEF PnTaxYm, PnRevenue
    <3>3. PnTaxOf(PnOf(a, "revenue")) \in Int
      BY <2>1, PnTaxInt
    <3> HIDE DEF T
    <3> QED
      BY <1>8, <2>5, <3>2, <3>3
  <2> QED
    BY <1>1, <2>3, <2>4, <2>5
<1>10. PnDayTax(a) = MnAllocate(IF T.status = "confirmed" THEN T.tax ELSE PnTaxOf(base),
                                weight, PnMonthDays, PnLast)
  BY DEF PnDayTax, PnSum, weight
<1> HIDE DEF T, base
<1>11. PnDayTax(a) = MnAllocate(T.tax, weight, PnMonthDays, PnLast)
  BY <1>9, <1>10
<1>12. SumOver(MnAllocate(T.tax, weight, PnMonthDays, PnLast), PnMonthDays) = T.tax
  BY <1>5, <1>6, <1>9, PnMonth, AllocateAddsUp
<1> QED
  BY <1>11, <1>12 DEF PnSum, T

-----------------------------------------------------------------------------
\* One row for each expense that is there, none for the others.
LEMMA PnOneEach ==
  ASSUME PnTyped, PnKept, NEW id \in PnExpenses \ pnMixed
  PROVE  LET mine == {r \in pnRows : r.id = id}
         IN IF id \notin pnAlive THEN mine = {}
            ELSE mine # {} /\ (PnEditing(id) = {} => Cardinality(mine) = 1)
<1> DEFINE mine == {r \in pnRows : r.id = id}
<1>1. PnTidy(id)
  BY DEF PnKept
<1>2. CASE id \notin pnAlive
  BY <1>1, <1>2 DEF PnTidy
<1>3. CASE id \in pnAlive
  <2>1. PICK y \in pnRows : y.id = id
    BY <1>1, <1>3 DEF PnTidy
  <2>2. ASSUME PnEditing(id) = {} PROVE mine = {y}
    <3>1. \A t \in PnThreads : ~PnAt(t, id)
      BY <2>2 DEF PnEditing, PnAt
    <3>2. \A r \in pnRows : r.id = id => r = y
      BY <1>1, <2>1, <3>1 DEF PnTidy
    <3>. QED BY <2>1, <3>2
  <2>3. Cardinality({y}) = 1
    BY FS_Singleton
  <2>4. mine # {}
    BY <2>1
  <2> HIDE DEF mine
  <2>. QED BY <1>3, <2>2, <2>3, <2>4 DEF mine
<1>. QED BY <1>2, <1>3

\* Expenses are once in the month, in its days and in the mart.
LEMMA PnExpensesOnce ==
  ASSUME PnInv
  PROVE  ExpensesOnce
<1> DEFINE ext == [d \in PnMonthDays |-> PnExternal(d)]
<1>0. PnTyped /\ PnMartFresh /\ PnKept
  BY DEF PnInv
<1>1. \A days \in SUBSET PnMonthDays : PnPeriodExternal(days) = SumOver(ext, days)
  BY <1>0, PnPeriodAddsUp
<1>2. SumOver(ext, PnMonthDays) = PnSpent
  BY <1>0, <1>1, PnWholeMonth
<1>3. \A to \in PnMonthDays : \A from \in 1..to : from..to \in SUBSET PnMonthDays
  BY PnAssumption DEF PnMonthDays
<1> HIDE DEF ext
<1>4. \A to \in PnMonthDays : \A from \in 1..to :
        PnPeriodExternal(from..to) = SumOver(ext, from..to)
  BY <1>1, <1>3
<1>5. PnSum(ext) = PnSpent
  BY <1>2 DEF PnSum
<1>6. pnFresh => pnMart.spent = PnSpent
  BY <1>0 DEF PnMartFresh
<1>7. \A id \in PnExpenses \ pnMixed :
        LET mine == {r \in pnRows : r.id = id}
        IN IF id \notin pnAlive THEN mine = {}
           ELSE mine # {} /\ (PnEditing(id) = {} => Cardinality(mine) = 1)
  BY <1>0, PnOneEach
<1> QED
  BY <1>4, <1>5, <1>6, <1>7 DEF ExpensesOnce, ext

-----------------------------------------------------------------------------
\* At first there are no expenses and no mart.
LEMMA PnInitInv == PnInit => PnInv
<1> SUFFICES ASSUME PnInit PROVE PnInv
  OBVIOUS
<1>1. pnDays \in [PnAccounts -> [PnMonthDays -> PnDay]] /\ pnReport \in Int
  BY PnAssumption DEF PnInit, PnMonthDays
<1>2. IsFiniteSet({})
  BY FS_EmptySet
<1>3. pnRows = {} /\ pnAlive = {} /\ ~ pnFresh /\ pnEdit = [t \in PnThreads |-> PnNoEdit]
  BY DEF PnInit
<1>4. \A t \in PnThreads : pnEdit[t] = PnNoEdit
  BY <1>3
<1>5. PnTyped
  BY <1>1, <1>2, <1>3, <1>4 DEF PnTyped
<1> QED
  BY <1>3, <1>4, <1>5 DEF PnInv, PnMartFresh, PnKept, PnTidy, PnAt

\* The changes that are not of an expense leave it as it is.
LEMMA PnElsewhere ==
  ASSUME NEW id, PnTidy(id), (id \in pnAlive') <=> (id \in pnAlive),
         \A r : r.id = id => (r \in pnRows' <=> r \in pnRows),
         \A t \in PnThreads : PnAt(t, id)' <=> PnAt(t, id),
         \A t \in PnThreads : PnAt(t, id) => pnEdit'[t] = pnEdit[t]
  PROVE  PnTidy(id)'
<1>1. \A r \in pnRows' : r.id = id => id \in pnAlive'
  BY DEF PnTidy
<1>2. id \in pnAlive' => \E r \in pnRows' : r.id = id
  BY DEF PnTidy
<1>3. \A t \in PnThreads : PnAt(t, id)' =>
        /\ pnEdit'[t].pc = "write" => \E r \in pnRows' : r.id = id /\ r.month = pnEdit'[t].old.month
        /\ pnEdit'[t].pc = "unlink" => \E r \in pnRows' : r.id = id /\ r.month = pnEdit'[t].new.month
  <2> TAKE t \in PnThreads
  <2> SUFFICES ASSUME PnAt(t, id)
               PROVE  /\ pnEdit'[t].pc = "write" =>
                           \E r \in pnRows' : r.id = id /\ r.month = pnEdit'[t].old.month
                      /\ pnEdit'[t].pc = "unlink" =>
                           \E r \in pnRows' : r.id = id /\ r.month = pnEdit'[t].new.month
    OBVIOUS
  <2>1. /\ pnEdit[t].pc = "write" => \E r \in pnRows : r.id = id /\ r.month = pnEdit[t].old.month
        /\ pnEdit[t].pc = "unlink" => \E r \in pnRows : r.id = id /\ r.month = pnEdit[t].new.month
    BY DEF PnTidy
  <2>2. pnEdit'[t] = pnEdit[t]
    OBVIOUS
  <2>. QED BY <2>1, <2>2
<1>4. \A t, u \in PnThreads : PnAt(t, id)' /\ PnAt(u, id)' /\ t # u => ~PnMoves(pnEdit'[t])
  <2> TAKE t, u \in PnThreads
  <2>1. PnAt(t, id) /\ PnAt(u, id) /\ t # u => ~PnMoves(pnEdit[t])
    BY DEF PnTidy
  <2>. QED BY <2>1 DEF PnMoves
<1>5. \A r, x \in pnRows' :
        r.id = id /\ x.id = id /\ r # x => \E t \in PnThreads : PnAt(t, id)' /\ PnTwins(t, r, x)'
  <2> SUFFICES ASSUME NEW r \in pnRows', NEW x \in pnRows', r.id = id, x.id = id, r # x
               PROVE  \E t \in PnThreads : PnAt(t, id)' /\ PnTwins(t, r, x)'
    OBVIOUS
  <2>1. r \in pnRows /\ x \in pnRows
    OBVIOUS
  <2>2. PICK t \in PnThreads : PnAt(t, id) /\ PnTwins(t, r, x)
    BY <2>1 DEF PnTidy
  <2>3. pnEdit'[t] = pnEdit[t] /\ PnAt(t, id)'
    BY <2>2
  <2>. QED BY <2>2, <2>3 DEF PnTwins
<1>. QED BY <1>1, <1>2, <1>3, <1>4, <1>5 DEF PnTidy, PnMoves

\* Nor do those that are not of expenses.
LEMMA PnBooksStay ==
  ASSUME PnKept, UNCHANGED <<pnRows, pnEdit, pnAlive, pnMixed>>
  PROVE  PnKept'
<1>1. \A t \in PnThreads, id \in PnExpenses : PnAt(t, id)' <=> PnAt(t, id)
  BY DEF PnAt
<1>2. ASSUME NEW id \in PnExpenses \ pnMixed PROVE PnTidy(id)'
  <2>1. PnTidy(id)
    BY DEF PnKept
  <2>. QED BY <1>1, <2>1, PnElsewhere
<1>. QED BY <1>2 DEF PnKept

\* The data change, the books do not.
LEMMA PnDataStep ==
  ASSUME PnInv, PnDataNext
  PROVE  PnInv'
<1>0. PnTyped /\ PnMartFresh /\ PnKept
  BY DEF PnInv
<1>1. UNCHANGED <<pnRows, pnEdit, pnAlive, pnMixed>>
  BY DEF PnDataNext, PnArrive, PnMonthEnds, PnRealize, PnRebuild, pnBooks
<1>2. PnKept'
  BY <1>0, <1>1, PnBooksStay
<1>3. pnDays' \in [PnAccounts -> [PnMonthDays -> PnDay]] /\ pnReport' \in Int
  <2>1. ASSUME NEW a \in PnAccounts, NEW d \in PnMonthDays, NEW x \in PnFacts[a], PnArrive(a, d, x)
        PROVE  pnDays' \in [PnAccounts -> [PnMonthDays -> PnDay]] /\ pnReport' \in Int
    <3>1. x \in PnDay
      BY PnAssumption
    <3>2. pnDays' = [pnDays EXCEPT ![a][d] = x] /\ pnReport' = pnReport
      BY <2>1 DEF PnArrive
    <3> QED
      BY <1>0, <3>1, <3>2 DEF PnTyped
  <2>2. ASSUME NEW amount \in PnAmounts, PnRealize(amount)
        PROVE  pnDays' \in [PnAccounts -> [PnMonthDays -> PnDay]] /\ pnReport' \in Int
    BY <1>0, <2>2, PnAssumption DEF PnRealize, PnTyped
  <2>3. CASE PnMonthEnds \/ PnRebuild
    BY <1>0, <2>3 DEF PnMonthEnds, PnRebuild, PnTyped
  <2> QED
    BY <2>1, <2>2, <2>3 DEF PnDataNext
<1>4. PnTyped'
  BY <1>0, <1>1, <1>3 DEF PnTyped
<1>5. PnMartFresh'
  <2>1. CASE PnRebuild
    <3>1. /\ pnMart' = [row |-> [a \in PnAccounts |-> PnMartRow(a)], spent |-> PnSpent]
          /\ pnDays' = pnDays /\ pnRows' = pnRows
      BY <2>1 DEF PnRebuild, pnBooks
    <3> QED
      BY <3>1 DEF PnMartFresh, PnMartRow, PnSpent, PnMonthRows, PnOf, PnRevenue, PnAdCost
  <2>2. CASE PnMonthEnds \/ \E amount \in PnAmounts : PnRealize(amount)
    <3>1. pnMart' = pnMart /\ pnFresh' = pnFresh /\ pnDays' = pnDays /\ pnRows' = pnRows
      BY <2>2 DEF PnMonthEnds, PnRealize, pnBooks
    <3> QED
      BY <1>0, <3>1 DEF PnMartFresh, PnMartRow, PnSpent, PnMonthRows, PnOf, PnRevenue, PnAdCost
  <2>3. CASE \E a \in PnAccounts, d \in PnMonthDays : \E x \in PnFacts[a] : PnArrive(a, d, x)
    BY <2>3 DEF PnArrive, PnMartFresh
  <2> QED
    BY <2>1, <2>2, <2>3 DEF PnDataNext
<1> QED
  BY <1>2, <1>4, <1>5 DEF PnInv

\* A row put in replaces that of its expense and month, and leaves the others.
LEMMA PnPutRow ==
  ASSUME PnTyped, NEW r \in PnRow
  PROVE  /\ PnPut(r) \in SUBSET PnRow /\ IsFiniteSet(PnPut(r)) /\ r \in PnPut(r)
         /\ \A x \in PnPut(r) : x = r \/ (x \in pnRows /\ (x.id # r.id \/ x.month # r.month))
         /\ \A x \in pnRows : x.id # r.id \/ x.month # r.month => x \in PnPut(r)
<1> DEFINE S == {x \in pnRows : ~PnSameKey(x, r)}
<1>1. S \in SUBSET pnRows
  OBVIOUS
<1>2. \A x \in pnRows : x \in S <=> x.id # r.id \/ x.month # r.month
  BY DEF PnSameKey
<1>3. PnPut(r) = S \cup {r}
  BY DEF PnPut
<1> HIDE DEF S
<1>4. IsFiniteSet(S \cup {r})
  BY <1>1, FS_Subset, FS_AddElement DEF PnTyped
<1> QED
  BY <1>1, <1>2, <1>3, <1>4 DEF PnTyped

\* Where a row is kept.
LEMMA PnPlaced ==
  ASSUME NEW month \in PnMonths, NEW day \in PnDated
  PROVE  PnPlace(month, day) \in PnDated
BY DEF PnPlace, PnDated

\* A new expense has an id of its own.
LEMMA PnCreateKeeps ==
  ASSUME PnInv, NEW id \in PnExpenses, NEW month \in PnMonths, NEW day \in PnDated,
         NEW amount \in Int, PnCreate(id, month, day, amount)
  PROVE  PnInv'
<1> DEFINE new == [id |-> id, month |-> month, day |-> PnPlace(month, day), amount |-> amount]
<1>0. PnTyped /\ PnMartFresh /\ PnKept
  BY DEF PnInv
<1>1. /\ id \notin pnAlive /\ \A r \in pnRows : r.id # id
      /\ \A t \in PnThreads : ~PnAt(t, id)
      /\ pnRows' = PnPut(new) /\ pnAlive' = pnAlive \cup {id} /\ pnFresh' = FALSE
      /\ UNCHANGED <<pnDays, pnReport, pnEdit, pnMixed>>
  BY DEF PnCreate, pnData, PnEditing, PnAt
<1>2. new \in PnRow /\ new.id = id
  BY PnPlaced DEF PnRow
<1> HIDE DEF new
<1>3. /\ pnRows' \in SUBSET PnRow /\ IsFiniteSet(pnRows') /\ new \in pnRows'
      /\ \A x \in pnRows' : x = new \/ (x \in pnRows /\ x.id # id)
      /\ \A x \in pnRows : x \in pnRows'
  BY <1>0, <1>1, <1>2, PnPutRow
<1>4. PnTyped'
  BY <1>0, <1>1, <1>3 DEF PnTyped
<1>5. PnMartFresh'
  BY <1>1 DEF PnMartFresh
<1>6. PnTidy(id)'
  <2>1. \A t \in PnThreads : ~PnAt(t, id)'
    BY <1>1 DEF PnAt
  <2>2. \A r, x \in pnRows' : r.id = id /\ x.id = id => r = x
    BY <1>3
  <2>. QED BY <1>1, <1>2, <1>3, <2>1, <2>2 DEF PnTidy
<1>7. ASSUME NEW i \in PnExpenses \ pnMixed, i # id PROVE PnTidy(i)'
  <2>1. PnTidy(i)
    BY <1>0 DEF PnKept
  <2>2. \A r : r.id = i => (r \in pnRows' <=> r \in pnRows)
    BY <1>2, <1>3, <1>7
  <2>3. \A t \in PnThreads : PnAt(t, i)' <=> PnAt(t, i)
    BY <1>1 DEF PnAt
  <2>. QED BY <1>1, <1>7, <2>1, <2>2, <2>3, PnElsewhere
<1>. QED BY <1>1, <1>4, <1>5, <1>6, <1>7 DEF PnInv, PnKept

\* What a thread does with its change, the others go on.
LEMMA PnThread ==
  ASSUME PnTyped, NEW t \in PnThreads, NEW edit, edit = PnNoEdit \/ PnEditOK(edit),
         pnEdit' = [pnEdit EXCEPT ![t] = edit]
  PROVE  /\ pnEdit'[t] = edit
         /\ \A u \in PnThreads : u # t => pnEdit'[u] = pnEdit[u]
         /\ pnEdit' = [u \in PnThreads |-> pnEdit'[u]]
         /\ \A u \in PnThreads : pnEdit'[u] = PnNoEdit \/ PnEditOK(pnEdit'[u])
<1>1. pnEdit' = [u \in PnThreads |-> IF u = t THEN edit ELSE pnEdit[u]]
  BY DEF PnTyped
<1>2. pnEdit'[t] = edit /\ \A u \in PnThreads : u # t => pnEdit'[u] = pnEdit[u]
  BY <1>1
<1>3. \A u \in PnThreads : pnEdit'[u] = PnNoEdit \/ PnEditOK(pnEdit'[u])
  <2> TAKE u \in PnThreads
  <2>1. CASE u = t
    BY <1>2, <2>1
  <2>2. CASE u # t
    <3>1. pnEdit'[u] = pnEdit[u] /\ (pnEdit[u] = PnNoEdit \/ PnEditOK(pnEdit[u]))
      BY <1>2, <2>2 DEF PnTyped
    <3>. QED BY <3>1, Zenon
  <2>. QED BY <2>1, <2>2
<1>4. pnEdit' = [u \in PnThreads |-> pnEdit'[u]]
  BY <1>1
<1>. QED BY <1>2, <1>3, <1>4

\* A change of an expense starts with a row as it is.
LEMMA PnUpdateKeeps ==
  ASSUME PnInv, NEW t \in PnThreads, NEW old \in pnRows, NEW month \in PnMonths,
         NEW day \in PnDated, NEW amount \in Int, PnUpdate(t, old, month, day, amount)
  PROVE  PnInv'
<1> DEFINE place == PnPlace(month, IF day # PnUndated THEN day ELSE old.day)
           new == [id |-> old.id, month |-> month, amount |-> amount, day |-> place]
           edit == [pc |-> "write", old |-> old, new |-> new]
           meets == \E u \in PnEditing(old.id) : PnMoves(edit) \/ PnMoves(pnEdit[u])
<1>0. PnTyped /\ PnMartFresh /\ PnKept
  BY DEF PnInv
<1>1. /\ pnEdit[t] = PnNoEdit /\ pnEdit' = [pnEdit EXCEPT ![t] = edit]
      /\ pnMixed' = IF meets THEN pnMixed \cup {old.id} ELSE pnMixed
      /\ UNCHANGED <<pnDays, pnReport, pnMart, pnFresh, pnRows, pnAlive>>
  BY DEF PnUpdate, pnData
<1>2. old \in PnRow
  BY <1>0 DEF PnTyped
<1>3. place \in PnDated
  BY <1>2, PnPlaced DEF PnRow
<1> HIDE DEF place
<1>4. new \in PnRow /\ new.id = old.id
  BY <1>2, <1>3 DEF PnRow
<1> HIDE DEF new
<1>5. PnEditOK(edit) /\ edit # PnNoEdit /\ edit.pc = "write" /\ edit.old = old
  BY <1>2, <1>4 DEF PnEditOK, PnNoEdit
<1> HIDE DEF edit
<1>6. /\ pnEdit'[t] = edit /\ \A u \in PnThreads : u # t => pnEdit'[u] = pnEdit[u]
      /\ PnTyped'
  <2>1. /\ pnEdit'[t] = edit
        /\ \A u \in PnThreads : u # t => pnEdit'[u] = pnEdit[u]
        /\ pnEdit' = [u \in PnThreads |-> pnEdit'[u]]
        /\ \A u \in PnThreads : pnEdit'[u] = PnNoEdit \/ PnEditOK(pnEdit'[u])
    BY <1>0, <1>1, <1>5, PnThread
  <2>. QED BY <1>0, <1>1, <2>1 DEF PnTyped
<1>7. PnMartFresh'
  BY <1>0, <1>1 DEF PnMartFresh, PnMartRow, PnSpent, PnMonthRows, PnOf, PnRevenue, PnAdCost
<1>8. ASSUME NEW i \in PnExpenses \ pnMixed' PROVE PnTidy(i)'
  <2>1. PnTidy(i)
    BY <1>0, <1>1, <1>8 DEF PnKept
  <2>2. CASE i # old.id
    <3>1. \A u \in PnThreads : PnAt(u, i)' <=> PnAt(u, i)
      BY <1>1, <1>5, <1>6, <2>2 DEF PnAt
    <3>2. \A u \in PnThreads : PnAt(u, i) => pnEdit'[u] = pnEdit[u]
      BY <1>1, <1>6 DEF PnAt
    <3>. QED BY <1>1, <2>1, <3>1, <3>2, PnElsewhere
  <2>3. CASE i = old.id
    <3>1. ~meets
      BY <1>1, <1>8, <2>3
    <3>2. \A u \in PnThreads : PnAt(u, i) => ~PnMoves(edit) /\ ~PnMoves(pnEdit[u])
      BY <2>3, <3>1 DEF PnEditing, PnAt
    <3>3. \A u \in PnThreads : PnAt(u, i)' => u = t \/ (PnAt(u, i) /\ pnEdit'[u] = pnEdit[u])
      BY <1>6 DEF PnAt
    <3>4. \A u \in PnThreads : PnAt(u, i) => PnAt(u, i)' /\ pnEdit'[u] = pnEdit[u]
      BY <1>1, <1>6 DEF PnAt
    <3>5. \A u \in PnThreads : PnAt(u, i)' =>
            /\ pnEdit'[u].pc = "write" =>
                 \E r \in pnRows : r.id = i /\ r.month = pnEdit'[u].old.month
            /\ pnEdit'[u].pc = "unlink" =>
                 \E r \in pnRows : r.id = i /\ r.month = pnEdit'[u].new.month
      <4> SUFFICES ASSUME NEW u \in PnThreads, PnAt(u, i)'
                   PROVE  /\ pnEdit'[u].pc = "write" =>
                               \E r \in pnRows : r.id = i /\ r.month = pnEdit'[u].old.month
                          /\ pnEdit'[u].pc = "unlink" =>
                               \E r \in pnRows : r.id = i /\ r.month = pnEdit'[u].new.month
        OBVIOUS
      <4>1. CASE u = t
        BY <1>5, <1>6, <2>3, <4>1
      <4>2. CASE PnAt(u, i) /\ pnEdit'[u] = pnEdit[u]
        <5>1. /\ pnEdit[u].pc = "write" =>
                   \E r \in pnRows : r.id = i /\ r.month = pnEdit[u].old.month
              /\ pnEdit[u].pc = "unlink" =>
                   \E r \in pnRows : r.id = i /\ r.month = pnEdit[u].new.month
          BY <2>1, <4>2 DEF PnTidy
        <5>. QED BY <4>2, <5>1
      <4>. QED BY <3>3, <4>1, <4>2
    <3>6. \A u, v \in PnThreads : PnAt(u, i)' /\ PnAt(v, i)' /\ u # v => ~PnMoves(pnEdit'[u])
      <4> SUFFICES ASSUME NEW u \in PnThreads, NEW v \in PnThreads, PnAt(u, i)', PnAt(v, i)', u # v
                   PROVE  ~PnMoves(pnEdit'[u])
        OBVIOUS
      <4>1. CASE u = t
        <5>1. PnAt(v, i)
          BY <3>3, <4>1
        <5>. QED BY <1>6, <3>2, <4>1, <5>1
      <4>2. CASE u # t
        <5>1. PnAt(u, i) /\ pnEdit'[u] = pnEdit[u]
          BY <3>3, <4>2
        <5>2. CASE v = t
          BY <3>2, <5>1
        <5>3. CASE v # t
          <6>1. PnAt(v, i)
            BY <3>3, <5>3
          <6>2. ~PnMoves(pnEdit[u])
            BY <2>1, <5>1, <6>1 DEF PnTidy
          <6>. QED BY <5>1, <6>2
        <5>. QED BY <5>2, <5>3
      <4>. QED BY <4>1, <4>2
    <3>7. ASSUME NEW r \in pnRows, NEW x \in pnRows, r.id = i, x.id = i, r # x
          PROVE  \E u \in PnThreads : PnAt(u, i)' /\ PnTwins(u, r, x)'
      <4>1. PICK u \in PnThreads : PnAt(u, i) /\ PnTwins(u, r, x)
        BY <2>1, <3>7 DEF PnTidy
      <4>2. PnAt(u, i)' /\ pnEdit'[u] = pnEdit[u]
        BY <3>4, <4>1
      <4>. QED BY <4>1, <4>2 DEF PnTwins
    <3>8. i \in pnAlive
      BY <2>1, <2>3 DEF PnTidy
    <3>. QED BY <1>1, <2>3, <3>5, <3>6, <3>7, <3>8 DEF PnTidy, PnMoves
  <2>. QED BY <2>2, <2>3
<1>. QED BY <1>6, <1>7, <1>8 DEF PnInv, PnKept

\* An expense of which a thread is about to write a row has one row, under the month it was read
\* with, and if the thread moves it no other changes it.
LEMMA PnLone ==
  ASSUME PnTyped, NEW t \in PnThreads, pnEdit[t].pc = "write", PnTidy(pnEdit[t].old.id)
  PROVE  \E y \in pnRows :
           /\ y.id = pnEdit[t].old.id /\ y.month = pnEdit[t].old.month
           /\ \A r \in pnRows : r.id = y.id => r = y
<1> DEFINE i == pnEdit[t].old.id
<1>1. PnAt(t, i)
  BY DEF PnAt, PnNoEdit
<1>2. PICK y \in pnRows : y.id = i /\ y.month = pnEdit[t].old.month
  BY <1>1 DEF PnTidy
<1>3. ASSUME NEW r \in pnRows, r.id = i, r # y PROVE FALSE
  <2>1. PICK u \in PnThreads : PnAt(u, i) /\ PnTwins(u, r, y)
    BY <1>2, <1>3 DEF PnTidy
  <2>2. u # t /\ PnMoves(pnEdit[u])
    BY <2>1 DEF PnTwins, PnTyped, PnEditOK, PnAt
  <2>. QED BY <1>1, <2>1, <2>2 DEF PnTidy
<1>. QED BY <1>2, <1>3

\* The new row is there before the old one goes.
LEMMA PnWriteKeeps ==
  ASSUME PnInv, NEW t \in PnThreads, PnWrite(t)
  PROVE  PnInv'
<1> DEFINE edit == pnEdit[t]
           new == edit.new
           old == edit.old
           next == IF PnMoves(edit) THEN [edit EXCEPT !.pc = "unlink"] ELSE PnNoEdit
<1>0. PnTyped /\ PnMartFresh /\ PnKept
  BY DEF PnInv
<1>1. /\ edit.pc = "write" /\ pnEdit' = [pnEdit EXCEPT ![t] = next] /\ pnFresh' = FALSE
      /\ \/ pnRows' = PnPut(new)
         \/ (\E x \in pnRows : PnSameKey(x, new) /\ x # old) /\ pnRows' = pnRows
      /\ UNCHANGED <<pnDays, pnReport, pnAlive, pnMixed>>
  BY DEF PnWrite, pnData
<1>2. PnEditOK(edit) /\ new \in PnRow /\ old \in PnRow /\ new.id = old.id
  <2>1. edit # PnNoEdit
    BY <1>1 DEF PnNoEdit
  <2>. QED BY <1>0, <2>1 DEF PnTyped, PnEditOK
<1>3. \/ /\ PnMoves(edit) /\ next.pc = "unlink" /\ next.old = old /\ next.new = new
         /\ next # PnNoEdit /\ PnEditOK(next)
      \/ ~PnMoves(edit) /\ next = PnNoEdit
  <2>1. CASE PnMoves(edit)
    <3>1. edit = [pc |-> edit.pc, old |-> old, new |-> new]
      BY <1>2 DEF PnEditOK
    <3>2. next = [edit EXCEPT !.pc = "unlink"]
      BY <2>1
    <3> HIDE DEF next, edit
    <3>3. next = [pc |-> "unlink", old |-> old, new |-> new]
      BY <3>1, <3>2
    <3>4. next.pc = "unlink" /\ next.old = old /\ next.new = new /\ next # PnNoEdit
      BY <3>3 DEF PnNoEdit
    <3>5. PnMoves(next)
      BY <2>1, <3>4 DEF PnMoves
    <3>6. PnEditOK(next)
      BY <1>2, <3>3, <3>4, <3>5 DEF PnEditOK
    <3>. QED BY <2>1, <3>4, <3>6
  <2>2. CASE ~PnMoves(edit)
    BY <2>2
  <2>. QED BY <2>1, <2>2
<1> HIDE DEF next
<1>4. /\ PnPut(new) \in SUBSET PnRow /\ IsFiniteSet(PnPut(new)) /\ new \in PnPut(new)
      /\ \A x \in PnPut(new) : x = new \/ (x \in pnRows /\ (x.id # new.id \/ x.month # new.month))
      /\ \A x \in pnRows : x.id # new.id \/ x.month # new.month => x \in PnPut(new)
  BY <1>0, <1>2, PnPutRow
<1>5. /\ pnEdit'[t] = next /\ \A u \in PnThreads : u # t => pnEdit'[u] = pnEdit[u]
      /\ PnTyped'
  <2>1. /\ pnEdit'[t] = next
        /\ \A u \in PnThreads : u # t => pnEdit'[u] = pnEdit[u]
        /\ pnEdit' = [u \in PnThreads |-> pnEdit'[u]]
        /\ \A u \in PnThreads : pnEdit'[u] = PnNoEdit \/ PnEditOK(pnEdit'[u])
    BY <1>0, <1>1, <1>3, PnThread
  <2>2. pnRows' \in SUBSET PnRow /\ IsFiniteSet(pnRows')
    BY <1>0, <1>1, <1>4 DEF PnTyped
  <2>. QED BY <1>0, <1>1, <2>1, <2>2 DEF PnTyped
<1>6. PnMartFresh'
  BY <1>1 DEF PnMartFresh
<1>7. ASSUME NEW i \in PnExpenses \ pnMixed' PROVE PnTidy(i)'
  <2>1. PnTidy(i)
    BY <1>0, <1>1, <1>7 DEF PnKept
  <2>2. CASE i # old.id
    <3>1. \A u \in PnThreads : PnAt(u, i)' <=> PnAt(u, i)
      BY <1>3, <1>5, <2>2 DEF PnAt
    <3>2. \A u \in PnThreads : PnAt(u, i) => pnEdit'[u] = pnEdit[u]
      BY <1>5, <2>2 DEF PnAt
    <3>3. \A r : r.id = i => (r \in pnRows' <=> r \in pnRows)
      BY <1>1, <1>2, <1>4, <2>2
    <3>. QED BY <1>1, <2>1, <3>1, <3>2, <3>3, PnElsewhere
  <2>3. CASE i = old.id
    <3>1. PICK y \in pnRows : /\ y.id = i /\ y.month = old.month
                              /\ \A r \in pnRows : r.id = y.id => r = y
      BY <1>0, <1>1, <2>1, <2>3, PnLone
    <3>2. i \in pnAlive
      BY <2>1, <3>1 DEF PnTidy
    <3>3. PnAt(t, i)
      BY <1>1, <2>3 DEF PnAt, PnNoEdit
    <3>4. CASE PnMoves(edit)
      <4>1. pnRows' = PnPut(new)
        BY <1>1, <1>2, <2>3, <3>1, <3>4 DEF PnSameKey, PnMoves
      <4>2. /\ y \in pnRows' /\ new \in pnRows' /\ y # new
            /\ \A r \in pnRows' : r.id = i => r = y \/ r = new
        BY <1>2, <1>4, <2>3, <3>1, <3>4, <4>1 DEF PnMoves
      <4>3. \A u \in PnThreads : PnAt(u, i)' => u = t
        <5> SUFFICES ASSUME NEW u \in PnThreads, u # t, PnAt(u, i)' PROVE FALSE
          OBVIOUS
        <5>1. PnAt(u, i)
          BY <1>5 DEF PnAt
        <5>. QED BY <2>1, <3>3, <3>4, <5>1 DEF PnTidy
      <4>4. PnAt(t, i)' /\ pnEdit'[t].pc = "unlink" /\ pnEdit'[t].old = old /\ pnEdit'[t].new = new
        BY <1>3, <1>5, <2>3, <3>4 DEF PnAt
      <4>5. \A r, x \in pnRows' : r.id = i /\ x.id = i /\ r # x => PnTwins(t, r, x)'
        <5> SUFFICES ASSUME NEW r \in pnRows', NEW x \in pnRows', r.id = i, x.id = i, r # x
                     PROVE  PnTwins(t, r, x)'
          OBVIOUS
        <5>1. (r = y /\ x = new) \/ (r = new /\ x = y)
          BY <4>2
        <5>2. {r.month, x.month} = {old.month, new.month}
          BY <3>1, <5>1
        <5>. QED BY <4>4, <5>2 DEF PnTwins
      <4>6. new.id = i
        BY <1>2, <2>3
      <4>7. \A u \in PnThreads : PnAt(u, i)' =>
              /\ pnEdit'[u].pc = "write" =>
                   \E r \in pnRows' : r.id = i /\ r.month = pnEdit'[u].old.month
              /\ pnEdit'[u].pc = "unlink" =>
                   \E r \in pnRows' : r.id = i /\ r.month = pnEdit'[u].new.month
        BY <4>2, <4>3, <4>4, <4>6
      <4>. QED BY <1>1, <3>2, <4>2, <4>3, <4>4, <4>5, <4>6, <4>7 DEF PnTidy
    <3>5. CASE ~PnMoves(edit)
      <4>1. \E z \in pnRows' : z.id = i /\ z.month = old.month
                               /\ \A r \in pnRows' : r.id = i => r = z
        <5>1. CASE pnRows' = PnPut(new)
          <6>1. new \in pnRows' /\ new.id = i /\ new.month = old.month
            BY <1>2, <1>4, <2>3, <3>5, <5>1 DEF PnMoves
          <6>2. \A r \in pnRows' : r.id = i => r = new
            BY <1>4, <3>1, <5>1, <6>1
          <6>. QED BY <6>1, <6>2
        <5>2. CASE pnRows' = pnRows
          BY <3>1, <5>2
        <5>. QED BY <1>1, <5>1, <5>2
      <4>2. PICK z \in pnRows' : z.id = i /\ z.month = old.month /\ \A r \in pnRows' : r.id = i => r = z
        BY <4>1
      <4>3. \A u \in PnThreads : PnAt(u, i)' => u # t /\ PnAt(u, i) /\ pnEdit'[u] = pnEdit[u]
        BY <1>3, <1>5, <3>5 DEF PnAt
      <4>4. \A u \in PnThreads : PnAt(u, i)' => ~PnMoves(pnEdit'[u])
        <5> SUFFICES ASSUME NEW u \in PnThreads, PnAt(u, i)' PROVE ~PnMoves(pnEdit'[u])
          OBVIOUS
        <5>1. u # t /\ PnAt(u, i) /\ pnEdit'[u] = pnEdit[u]
          BY <4>3
        <5>2. ~PnMoves(pnEdit[u])
          BY <2>1, <3>3, <5>1 DEF PnTidy
        <5>. QED BY <5>1, <5>2
      <4>5. \A u \in PnThreads : PnAt(u, i)' =>
              /\ pnEdit'[u].pc = "write" =>
                   \E r \in pnRows' : r.id = i /\ r.month = pnEdit'[u].old.month
              /\ pnEdit'[u].pc = "unlink" =>
                   \E r \in pnRows' : r.id = i /\ r.month = pnEdit'[u].new.month
        <5> SUFFICES ASSUME NEW u \in PnThreads, PnAt(u, i)'
                     PROVE  /\ pnEdit'[u].pc = "write" =>
                                 \E r \in pnRows' : r.id = i /\ r.month = pnEdit'[u].old.month
                            /\ pnEdit'[u].pc = "unlink" =>
                                 \E r \in pnRows' : r.id = i /\ r.month = pnEdit'[u].new.month
          OBVIOUS
        <5>1. PnAt(u, i) /\ pnEdit'[u] = pnEdit[u] /\ ~PnMoves(pnEdit[u])
          BY <4>3, <4>4
        <5>2. pnEdit[u].pc # "unlink"
          BY <1>0, <5>1 DEF PnTyped, PnEditOK, PnAt
        <5>3. pnEdit[u].pc = "write" => \E r \in pnRows : r.id = i /\ r.month = pnEdit[u].old.month
          BY <2>1, <5>1 DEF PnTidy
        <5>4. pnEdit[u].pc = "write" => pnEdit[u].old.month = old.month
          BY <3>1, <5>3
        <5>. QED BY <4>2, <5>1, <5>2, <5>4
      <4>6. \A u, v \in PnThreads : PnAt(u, i)' /\ PnAt(v, i)' /\ u # v => ~PnMoves(pnEdit'[u])
        BY <4>4
      <4>. QED BY <1>1, <3>2, <4>2, <4>5, <4>6 DEF PnTidy, PnMoves
    <3>. QED BY <3>4, <3>5
  <2>. QED BY <2>2, <2>3
<1>. QED BY <1>5, <1>6, <1>7 DEF PnInv, PnKept

\* A thread that leaves an expense whose rows do not tell of it, or is cut short before it wrote.
LEMMA PnLeaves ==
  ASSUME PnTyped, NEW t \in PnThreads, NEW id, PnTidy(id), pnEdit[t] # PnNoEdit,
         pnEdit' = [pnEdit EXCEPT ![t] = PnNoEdit],
         (id \in pnAlive') <=> (id \in pnAlive), pnRows' \in SUBSET pnRows,
         id \in pnAlive => \E r \in pnRows' : r.id = id,
         \A u \in PnThreads : u # t /\ PnAt(u, id) =>
           /\ pnEdit[u].pc = "write" => \E r \in pnRows' : r.id = id /\ r.month = pnEdit[u].old.month
           /\ pnEdit[u].pc = "unlink" => \E r \in pnRows' : r.id = id /\ r.month = pnEdit[u].new.month,
         \A r, x \in pnRows' : r.id = id /\ x.id = id /\ r # x => ~(PnAt(t, id) /\ PnTwins(t, r, x))
  PROVE  PnTidy(id)'
<1>1. /\ pnEdit'[t] = PnNoEdit /\ \A u \in PnThreads : u # t => pnEdit'[u] = pnEdit[u]
  BY PnThread
<1>2. \A u \in PnThreads : PnAt(u, id)' => u # t /\ PnAt(u, id) /\ pnEdit'[u] = pnEdit[u]
  BY <1>1 DEF PnAt
<1>3. \A u \in PnThreads : PnAt(u, id) => u = t \/ (PnAt(u, id)' /\ pnEdit'[u] = pnEdit[u])
  BY <1>1 DEF PnAt
<1>4. \A u \in PnThreads : PnAt(u, id)' =>
        /\ pnEdit'[u].pc = "write" => \E r \in pnRows' : r.id = id /\ r.month = pnEdit'[u].old.month
        /\ pnEdit'[u].pc = "unlink" => \E r \in pnRows' : r.id = id /\ r.month = pnEdit'[u].new.month
  <2> SUFFICES ASSUME NEW u \in PnThreads, PnAt(u, id)'
               PROVE  /\ pnEdit'[u].pc = "write" =>
                           \E r \in pnRows' : r.id = id /\ r.month = pnEdit'[u].old.month
                      /\ pnEdit'[u].pc = "unlink" =>
                           \E r \in pnRows' : r.id = id /\ r.month = pnEdit'[u].new.month
    OBVIOUS
  <2>1. u # t /\ PnAt(u, id) /\ pnEdit'[u] = pnEdit[u]
    BY <1>2
  <2>. QED BY <2>1
<1>5. \A u, v \in PnThreads : PnAt(u, id)' /\ PnAt(v, id)' /\ u # v => ~PnMoves(pnEdit'[u])
  <2> SUFFICES ASSUME NEW u \in PnThreads, NEW v \in PnThreads, PnAt(u, id)', PnAt(v, id)', u # v
               PROVE  ~PnMoves(pnEdit'[u])
    OBVIOUS
  <2>1. PnAt(u, id) /\ PnAt(v, id) /\ pnEdit'[u] = pnEdit[u]
    BY <1>2
  <2>2. ~PnMoves(pnEdit[u])
    BY <2>1 DEF PnTidy
  <2>. QED BY <2>1, <2>2
<1>6. \A r, x \in pnRows' :
        r.id = id /\ x.id = id /\ r # x => \E u \in PnThreads : PnAt(u, id)' /\ PnTwins(u, r, x)'
  <2> SUFFICES ASSUME NEW r \in pnRows', NEW x \in pnRows', r.id = id, x.id = id, r # x
               PROVE  \E u \in PnThreads : PnAt(u, id)' /\ PnTwins(u, r, x)'
    OBVIOUS
  <2>1. PICK u \in PnThreads : PnAt(u, id) /\ PnTwins(u, r, x)
    BY DEF PnTidy
  <2>2. u # t
    BY <2>1
  <2>3. PnAt(u, id)' /\ pnEdit'[u] = pnEdit[u]
    BY <1>3, <2>1, <2>2
  <2>. QED BY <2>1, <2>3 DEF PnTwins
<1>7. \A r \in pnRows' : r.id = id => id \in pnAlive'
  BY DEF PnTidy
<1>. QED BY <1>4, <1>5, <1>6, <1>7 DEF PnTidy, PnMoves

\* The old row goes, the new one stays.
LEMMA PnUnlinkKeeps ==
  ASSUME PnInv, NEW t \in PnThreads, PnUnlink(t)
  PROVE  PnInv'
<1> DEFINE new == pnEdit[t].new
           old == pnEdit[t].old
<1>0. PnTyped /\ PnMartFresh /\ PnKept
  BY DEF PnInv
<1>1. /\ pnEdit[t].pc = "unlink" /\ pnEdit[t] # PnNoEdit
      /\ pnRows' = {r \in pnRows : ~PnSameKey(r, old)}
      /\ pnEdit' = [pnEdit EXCEPT ![t] = PnNoEdit] /\ pnFresh' = FALSE
      /\ UNCHANGED <<pnDays, pnReport, pnAlive, pnMixed>>
  BY DEF PnUnlink, pnData, PnNoEdit
<1>2. /\ pnRows' \in SUBSET pnRows
      /\ \A r \in pnRows : r \in pnRows' <=> r.id # old.id \/ r.month # old.month
  BY <1>1 DEF PnSameKey
<1>3. IsFiniteSet(pnRows') /\ pnRows' \in SUBSET PnRow
  BY <1>0, <1>2, FS_Subset DEF PnTyped
<1>4. PnMoves(pnEdit[t]) /\ new.month # old.month
  BY <1>0, <1>1 DEF PnTyped, PnEditOK, PnMoves
<1>5. PnTyped'
  <2>1. /\ pnEdit' = [u \in PnThreads |-> pnEdit'[u]]
        /\ \A u \in PnThreads : pnEdit'[u] = PnNoEdit \/ PnEditOK(pnEdit'[u])
    BY <1>0, <1>1, PnThread
  <2>. QED BY <1>0, <1>1, <1>3, <2>1 DEF PnTyped
<1>6. PnMartFresh'
  BY <1>1 DEF PnMartFresh
<1>7. ASSUME NEW i \in PnExpenses \ pnMixed' PROVE PnTidy(i)'
  <2>1. PnTidy(i)
    BY <1>0, <1>1, <1>7 DEF PnKept
  <2>2. CASE i # old.id
    <3>1. \A r \in pnRows : r.id = i => r \in pnRows'
      BY <1>2, <2>2
    <3>2. i \in pnAlive => \E r \in pnRows' : r.id = i
      BY <2>1, <3>1 DEF PnTidy
    <3>3. \A u \in PnThreads : u # t /\ PnAt(u, i) =>
            /\ pnEdit[u].pc = "write" =>
                 \E r \in pnRows' : r.id = i /\ r.month = pnEdit[u].old.month
            /\ pnEdit[u].pc = "unlink" =>
                 \E r \in pnRows' : r.id = i /\ r.month = pnEdit[u].new.month
      <4> SUFFICES ASSUME NEW u \in PnThreads, PnAt(u, i)
                   PROVE  /\ pnEdit[u].pc = "write" =>
                               \E r \in pnRows' : r.id = i /\ r.month = pnEdit[u].old.month
                          /\ pnEdit[u].pc = "unlink" =>
                               \E r \in pnRows' : r.id = i /\ r.month = pnEdit[u].new.month
        OBVIOUS
      <4>1. /\ pnEdit[u].pc = "write" =>
                 \E r \in pnRows : r.id = i /\ r.month = pnEdit[u].old.month
            /\ pnEdit[u].pc = "unlink" =>
                 \E r \in pnRows : r.id = i /\ r.month = pnEdit[u].new.month
        BY <2>1 DEF PnTidy
      <4>. QED BY <3>1, <4>1
    <3>4. ~PnAt(t, i)
      BY <2>2 DEF PnAt
    <3>. QED BY <1>0, <1>1, <1>2, <2>1, <3>2, <3>3, <3>4, PnLeaves
  <2>3. CASE i = old.id
    <3>1. PnAt(t, i)
      BY <1>1, <2>3 DEF PnAt
    <3>2. \E r \in pnRows : r.id = i /\ r.month = new.month
      BY <1>1, <2>1, <3>1 DEF PnTidy
    <3>3. \E r \in pnRows' : r.id = i
      BY <1>2, <1>4, <3>2
    <3>4. \A u \in PnThreads : u # t => ~PnAt(u, i)
      BY <1>4, <2>1, <3>1 DEF PnTidy
    <3>5. ASSUME NEW r \in pnRows', NEW x \in pnRows', r.id = i, x.id = i, r # x
          PROVE  ~PnTwins(t, r, x)
      <4>1. r.month # old.month /\ x.month # old.month
        BY <1>2, <2>3, <3>5
      <4>2. {r.month, x.month} # {old.month, new.month}
        BY <4>1
      <4>. QED BY <4>2 DEF PnTwins
    <3>. QED BY <1>0, <1>1, <1>2, <2>1, <3>3, <3>4, <3>5, PnLeaves
  <2>. QED BY <2>2, <2>3
<1>. QED BY <1>5, <1>6, <1>7 DEF PnInv, PnKept

\* A change that is cut short leaves the rows as they are.
LEMMA PnCutShortKeeps ==
  ASSUME PnInv, NEW t \in PnThreads, PnCutShort(t)
  PROVE  PnInv'
<1>0. PnTyped /\ PnMartFresh /\ PnKept
  BY DEF PnInv
<1>1. /\ pnEdit[t] # PnNoEdit /\ pnEdit' = [pnEdit EXCEPT ![t] = PnNoEdit]
      /\ pnMixed' = IF pnEdit[t].pc = "write" THEN pnMixed ELSE pnMixed \cup {pnEdit[t].old.id}
      /\ UNCHANGED <<pnDays, pnReport, pnMart, pnFresh, pnRows, pnAlive>>
  BY DEF PnCutShort, pnData
<1>2. PnTyped'
  <2>1. /\ pnEdit' = [u \in PnThreads |-> pnEdit'[u]]
        /\ \A u \in PnThreads : pnEdit'[u] = PnNoEdit \/ PnEditOK(pnEdit'[u])
    BY <1>0, <1>1, PnThread
  <2>. QED BY <1>0, <1>1, <2>1 DEF PnTyped
<1>3. PnMartFresh'
  BY <1>0, <1>1 DEF PnMartFresh, PnMartRow, PnSpent, PnMonthRows, PnOf, PnRevenue, PnAdCost
<1>4. ASSUME NEW i \in PnExpenses \ pnMixed' PROVE PnTidy(i)'
  <2>1. PnTidy(i)
    BY <1>0, <1>1, <1>4 DEF PnKept
  <2>2. PnAt(t, i) => pnEdit[t].pc = "write"
    BY <1>1, <1>4 DEF PnAt
  <2>3. \A r, x \in pnRows : ~(PnAt(t, i) /\ PnTwins(t, r, x))
    BY <2>2 DEF PnTwins
  <2>4. \A u \in PnThreads : PnAt(u, i) =>
          /\ pnEdit[u].pc = "write" =>
               \E r \in pnRows : r.id = i /\ r.month = pnEdit[u].old.month
          /\ pnEdit[u].pc = "unlink" =>
               \E r \in pnRows : r.id = i /\ r.month = pnEdit[u].new.month
    BY <2>1 DEF PnTidy
  <2>5. i \in pnAlive => \E r \in pnRows : r.id = i
    BY <2>1 DEF PnTidy
  <2>. QED BY <1>0, <1>1, <2>1, <2>3, <2>4, <2>5, PnLeaves
<1>. QED BY <1>2, <1>3, <1>4 DEF PnInv, PnKept

\* A deletion takes every row of the expense.
LEMMA PnDeleteKeeps ==
  ASSUME PnInv, NEW id \in PnExpenses, PnDelete(id)
  PROVE  PnInv'
<1>0. PnTyped /\ PnMartFresh /\ PnKept
  BY DEF PnInv
<1>1. /\ pnRows' = {r \in pnRows : r.id # id} /\ pnAlive' = pnAlive \ {id}
      /\ pnMixed' = IF PnEditing(id) = {} THEN pnMixed ELSE pnMixed \cup {id}
      /\ pnFresh' = FALSE /\ UNCHANGED <<pnDays, pnReport, pnEdit>>
  BY DEF PnDelete, pnData
<1>2. /\ pnRows' \in SUBSET pnRows /\ pnAlive' \in SUBSET pnAlive
      /\ \A r \in pnRows : r \in pnRows' <=> r.id # id
  BY <1>1
<1>3. IsFiniteSet(pnRows') /\ pnRows' \in SUBSET PnRow
  BY <1>0, <1>2, FS_Subset DEF PnTyped
<1>4. PnTyped'
  BY <1>0, <1>1, <1>2, <1>3 DEF PnTyped
<1>5. PnMartFresh'
  BY <1>1 DEF PnMartFresh
<1>6. ASSUME NEW i \in PnExpenses \ pnMixed' PROVE PnTidy(i)'
  <2>1. PnTidy(i)
    BY <1>0, <1>1, <1>6 DEF PnKept
  <2>2. \A t \in PnThreads : PnAt(t, i)' <=> PnAt(t, i)
    BY <1>1 DEF PnAt
  <2>3. CASE i # id
    BY <1>1, <2>1, <2>2, <2>3, PnElsewhere
  <2>4. CASE i = id
    <3>1. \A t \in PnThreads : ~PnAt(t, i)
      BY <1>1, <1>6, <2>4 DEF PnEditing, PnAt
    <3>2. \A r \in pnRows' : r.id # i
      BY <1>1, <2>4
    <3>3. i \notin pnAlive'
      BY <1>1, <2>4
    <3>. QED BY <2>2, <3>1, <3>2, <3>3 DEF PnTidy
  <2>. QED BY <2>3, <2>4
<1>. QED BY <1>4, <1>5, <1>6 DEF PnInv, PnKept

\* Every step of the data and of the books keeps the invariant.
LEMMA PnStep ==
  ASSUME PnInv, [PnNext]_pnVars
  PROVE  PnInv'
<1>1. {PnUndated, PnLast} \subseteq PnDated /\ PnAmounts \subseteq Int
  BY PnMonth, PnAssumption DEF PnDated
<1>2. CASE PnDataNext
  BY <1>2, PnDataStep
<1>3. CASE PnBooksNext
  <2>1. ASSUME NEW id \in PnExpenses, NEW month \in PnMonths, NEW day \in {PnUndated, PnLast},
               NEW amount \in PnAmounts, PnCreate(id, month, day, amount)
        PROVE  PnInv'
    BY <1>1, <2>1, PnCreateKeeps
  <2>2. ASSUME NEW t \in PnThreads, NEW month \in PnMonths, NEW day \in {PnUndated, PnLast},
               NEW amount \in PnAmounts, NEW old \in pnRows, PnUpdate(t, old, month, day, amount)
        PROVE  PnInv'
    BY <1>1, <2>2, PnUpdateKeeps
  <2>3. ASSUME NEW t \in PnThreads, PnWrite(t)
        PROVE  PnInv'
    BY <2>3, PnWriteKeeps
  <2>4. ASSUME NEW t \in PnThreads, PnUnlink(t)
        PROVE  PnInv'
    BY <2>4, PnUnlinkKeeps
  <2>5. ASSUME NEW t \in PnThreads, PnCutShort(t)
        PROVE  PnInv'
    BY <2>5, PnCutShortKeeps
  <2>6. ASSUME NEW id \in PnExpenses, PnDelete(id)
        PROVE  PnInv'
    BY <2>6, PnDeleteKeeps
  <2> QED
    BY <1>3, <2>1, <2>2, <2>3, <2>4, <2>5, <2>6 DEF PnBooksNext
<1>4. CASE UNCHANGED pnVars
  <2>1. UNCHANGED <<pnDays, pnReport, pnMart, pnFresh, pnRows, pnEdit, pnAlive, pnMixed>>
    BY <1>4 DEF pnVars
  <2>2. PnTyped' /\ PnKept'
    <3>1. PnKept'
      BY <2>1, PnBooksStay DEF PnInv
    <3>. QED BY <2>1, <3>1 DEF PnInv, PnTyped
  <2>3. PnMartFresh'
    BY <2>1 DEF PnInv, PnMartFresh, PnMartRow, PnSpent, PnMonthRows, PnOf, PnRevenue, PnAdCost
  <2> QED
    BY <2>2, <2>3 DEF PnInv
<1> QED
  BY <1>2, <1>3, <1>4 DEF PnNext

\* By the day and by the month the result, its tax and the expenses are the same.
LEMMA PnInvSuffices == PnInv => PnlAddsUp
BY PnResult, PnTaxes, PnExpensesOnce DEF PnInv, PnlAddsUp

\* The result of a month is that of its days, for every organization and every length of a month,
\* and an expense is once in it, for any number of threads that change expenses at the same time,
\* as long as a move of it neither meets another change nor is cut short.
THEOREM MonthAddsUp == PnSpec => []PnlAddsUp
<1>1. PnInit => PnInv
  BY PnInitInv
<1>2. PnInv /\ [PnNext]_pnVars => PnInv'
  BY PnStep
<1>3. PnInv => PnlAddsUp
  BY PnInvSuffices
<1> QED
  BY <1>1, <1>2, <1>3, PTL DEF PnSpec

-----------------------------------------------------------------------------
(* Buyouts abroad (Buyouts) *)

\* A buyout is filed under the day on which it was bought out, whichever window brought it; one
\* without a day under the last day of a window that has the day on which it was bought out.
CbFiledOnce ==
  \A r \in cbRaw :
    /\ r[2] \in CbPostings /\ cbBought[r[2]] \in CbDays
    /\ r[1] \in cbBought[r[2]]..(cbBought[r[2]] + CbWindow - 1)
    /\ r[2] \notin CbUndated => r[1] = cbBought[r[2]]

CbInv == CbTypeOK /\ CbFiledOnce

\* A posting has no more rows than a window has days.
LEMMA CbInWindow ==
  ASSUME NEW b \in Int, NEW p, NEW S,
         \A r \in S : r = <<r[1], p>> /\ r[1] \in b..(b + CbWindow - 1)
  PROVE  IsFiniteSet(S) /\ Cardinality(S) <= CbWindow
<1> DEFINE days == b..(b + CbWindow - 1)
           f == [d \in days |-> <<d, p>>]
           placed == {<<d, p>> : d \in days}
<1>1. CbWindow \in Int /\ CbWindow > 0
  BY CbAssumption
<1>2. IsFiniteSet(days) /\ Cardinality(days) = CbWindow
  BY <1>1, FS_Interval
<1>3. f \in Surjection(days, placed)
  BY DEF Surjection
<1>4. IsFiniteSet(placed) /\ Cardinality(placed) <= CbWindow
  BY <1>2, <1>3, FS_Surjection
<1>5. S \subseteq placed
  OBVIOUS
<1> HIDE DEF placed
<1>6. IsFiniteSet(S) /\ Cardinality(S) <= Cardinality(placed)
  BY <1>4, <1>5, FS_Subset
<1>7. Cardinality(S) \in Nat /\ Cardinality(placed) \in Nat
  BY <1>4, <1>6, FS_CardinalityType
<1> QED
  BY <1>1, <1>4, <1>6, <1>7

\* Filed under one day it is counted once, and not more often than a window is long otherwise.
LEMMA CbOnce == CbInv => BuyoutsSound
<1> SUFFICES ASSUME CbInv, NEW p \in CbPostings
             PROVE  Cardinality({r \in Adjustments(CbDays) : r[2] = p}) <= CbTimes(p)
  BY DEF BuyoutsSound, CisCountedOnce, CbInv
<1> DEFINE S == {r \in Adjustments(CbDays) : r[2] = p}
           one == {<<cbBought[p], p>>}
<1>1. cbRaw \subseteq CbDays \X CbPostings /\ CbDays \subseteq Int
  BY DEF CbInv, CbTypeOK, CbDays
<1>2. \A r \in S :
        /\ r = <<r[1], p>> /\ cbBought[p] \in Int
        /\ r[1] \in cbBought[p]..(cbBought[p] + CbWindow - 1)
        /\ p \notin CbUndated => r[1] = cbBought[p]
  <2> SUFFICES ASSUME NEW r \in S
               PROVE  /\ r = <<r[1], p>> /\ cbBought[p] \in Int
                      /\ r[1] \in cbBought[p]..(cbBought[p] + CbWindow - 1)
                      /\ p \notin CbUndated => r[1] = cbBought[p]
    OBVIOUS
  <2>1. r \in cbRaw /\ r[2] = p
    BY DEF Adjustments
  <2>2. r = <<r[1], p>>
    BY <1>1, <2>1
  <2>3. /\ cbBought[p] \in CbDays
        /\ r[1] \in cbBought[p]..(cbBought[p] + CbWindow - 1)
        /\ p \notin CbUndated => r[1] = cbBought[p]
    BY <2>1 DEF CbInv, CbFiledOnce
  <2> QED
    BY <1>1, <2>2, <2>3
<1>3. CASE p \in cbAccrued
  <2>1. S = {}
    BY <1>3 DEF Adjustments
  <2> HIDE DEF S
  <2>2. Cardinality(S) = 0
    BY <2>1, FS_EmptySet
  <2> QED
    BY <1>3, <2>2 DEF S, CbTimes
<1>4. CASE p \notin cbAccrued /\ p \notin CbUndated
  <2>1. S \subseteq one
    BY <1>2, <1>4
  <2> HIDE DEF S
  <2>2. IsFiniteSet(one) /\ Cardinality(one) = 1
    BY FS_Singleton
  <2>3. Cardinality(S) <= 1
    BY <2>1, <2>2, FS_Subset
  <2> QED
    BY <1>4, <2>3 DEF S, CbTimes
<1>5. CASE p \notin cbAccrued /\ p \in CbUndated
  <2> HIDE DEF S
  <2>1. CASE S = {}
    <3>1. Cardinality(S) = 0 /\ CbWindow \in Nat
      BY <2>1, FS_EmptySet, CbAssumption
    <3> QED
      BY <1>5, <3>1 DEF S, CbTimes
  <2>2. CASE S # {}
    <3>1. cbBought[p] \in Int
      BY <1>2, <2>2
    <3>2. Cardinality(S) <= CbWindow
      BY <1>2, <3>1, CbInWindow
    <3> QED
      BY <1>5, <3>2 DEF S, CbTimes
  <2> QED
    BY <2>1, <2>2
<1> QED
  BY <1>3, <1>4, <1>5

\* No step files a buyout under another day, but for the end of its window.
LEMMA CbStep ==
  ASSUME CbInv, [CbNext]_cbVars
  PROVE  CbInv'
<1>0. /\ CbTypeOK /\ CbFiledOnce
      /\ CbLastDay \in Nat /\ NoDay \notin Int /\ CbDays = 1..CbLastDay
  BY CbAssumption DEF CbInv, CbDays
<1>1. CASE CbTick
  BY <1>0, <1>1 DEF CbInv, CbTypeOK, CbFiledOnce, CbTick
<1>2. ASSUME NEW p \in CbPostings, CbBuyout(p) PROVE CbInv'
  <2>1. \A q \in CbPostings : cbBought[q] \in CbDays => cbBought'[q] = cbBought[q]
    BY <1>0, <1>2 DEF CbBuyout, CbTypeOK
  <2>2. CbTypeOK'
    BY <1>0, <1>2 DEF CbBuyout, CbTypeOK
  <2>3. CbFiledOnce'
    BY <1>0, <1>2, <2>1 DEF CbBuyout, CbFiledOnce
  <2> QED
    BY <2>2, <2>3 DEF CbInv
<1>3. ASSUME NEW p \in CbPostings, CbAccrue(p) PROVE CbInv'
  BY <1>0, <1>3 DEF CbInv, CbTypeOK, CbFiledOnce, CbAccrue
<1>4. ASSUME NEW from \in Int, NEW to \in Int, CbCollect(from, to),
             to < cbToday, from >= to - CbWindow + 1
      PROVE  CbInv'
  <2> DEFINE new == {<<CbFiled(p, to), p>> : p \in {q \in CbPostings : cbBought[q] \in from..to}}
  <2>1. cbRaw' = cbRaw \cup new /\ UNCHANGED <<cbToday, cbBought, cbAccrued, cbAnswered>>
    BY <1>4 DEF CbCollect
  <2>2. \A p \in CbPostings : cbBought[p] \in from..to =>
          /\ cbBought[p] \in CbDays /\ CbFiled(p, to) \in CbDays
          /\ CbFiled(p, to) \in cbBought[p]..(cbBought[p] + CbWindow - 1)
          /\ p \notin CbUndated => CbFiled(p, to) = cbBought[p]
    <3>1. cbToday \in CbDays /\ CbWindow \in Int /\ CbWindow > 0
      BY <1>0, CbAssumption DEF CbTypeOK
    <3>2. \A p \in CbPostings : cbBought[p] \in Int => cbBought[p] \in CbDays
      BY <1>0 DEF CbTypeOK
    <3> QED
      BY <1>0, <1>4, <3>1, <3>2 DEF CbFiled
  <2>3. \A r \in new :
          /\ r[2] \in CbPostings /\ cbBought[r[2]] \in CbDays /\ r = <<r[1], r[2]>>
          /\ r[1] \in CbDays /\ r[1] \in cbBought[r[2]]..(cbBought[r[2]] + CbWindow - 1)
          /\ r[2] \notin CbUndated => r[1] = cbBought[r[2]]
    BY <2>2
  <2> HIDE DEF new
  <2>4. new \subseteq CbDays \X CbPostings
    BY <2>3
  <2>5. CbTypeOK'
    BY <1>0, <2>1, <2>4 DEF CbTypeOK
  <2>6. CbFiledOnce'
    BY <1>0, <2>1, <2>3 DEF CbFiledOnce
  <2> QED
    BY <2>5, <2>6 DEF CbInv
<1>5. CASE CbCollectDaily
  <2>1. /\ cbToday - CbWindow \in Int /\ cbToday - 1 \in Int /\ cbToday - 1 < cbToday
        /\ cbToday - CbWindow >= cbToday - 1 - CbWindow + 1
    BY <1>0, CbAssumption DEF CbTypeOK
  <2> QED
    BY <1>4, <1>5, <2>1 DEF CbCollectDaily
<1>6. ASSUME NEW d \in CbDays, CbCollectDay(d) PROVE CbInv'
  <2>1. d \in Int /\ d < cbToday /\ d >= d - CbWindow + 1 /\ CbCollect(d, d)
    BY <1>0, <1>6, CbAssumption DEF CbCollectDay
  <2> QED
    BY <1>4, <2>1
<1>7. ASSUME NEW from \in CbDays, NEW to \in CbDays, CbArticleReport(from..to) PROVE CbInv'
  BY <1>0, <1>7 DEF CbInv, CbTypeOK, CbFiledOnce, CbArticleReport, ParseBuyouts
<1>8. CASE UNCHANGED cbVars
  BY <1>0, <1>8 DEF CbInv, CbTypeOK, CbFiledOnce, cbVars
<1> QED
  BY <1>1, <1>2, <1>3, <1>5, <1>6, <1>7, <1>8 DEF CbNext

\* At first nothing is filed.
LEMMA CbInitInv == CbInit => CbInv
BY CbAssumption DEF CbInit, CbInv, CbTypeOK, CbFiledOnce, CbDays

\* The month counts a buyout once, whichever windows bring it and whenever it is accrued; one whose
\* rows carry no day it counts no more often than a window is long, and never beside its accrual.
THEOREM BuyoutsAreSound == CbSpec => []BuyoutsSound
<1>1. CbInit => CbInv
  BY CbInitInv
<1>2. CbInv /\ [CbNext]_cbVars => CbInv'
  BY CbStep
<1>3. CbInv => BuyoutsSound
  BY CbOnce
<1> QED
  BY <1>1, <1>2, <1>3, PTL DEF CbSpec

-----------------------------------------------------------------------------
(* Pushes of stocks (StockPush) *)

\* The order in which the marketplaces have their turn.
SpTurn == [idle |-> 0, start |-> 0, wb |-> 1, ozon |-> 2, ym |-> 3, told |-> 4, done |-> 4]

\* Marketplaces answer in their turn, and the event comes last.
SpInTurn ==
  /\ spPlace \in SpMarkets => spPlace \in spAsked
  /\ \A mp \in SpMarkets :
       spResult[mp] # "none" <=> mp \in spAsked /\ SpTurn[mp] < SpTurn[spPlace]
  /\ spTold # SpNothing => spTold = spResult /\ spPlace = "done"

\* Nothing is set but what was to be sent, and a success has set all of it.
SpHeld ==
  /\ \A mp \in SpMarkets : spSet[mp] \subseteq SpItemsFor(mp)
  /\ spPlace \in {"idle", "start"} => \A mp \in SpMarkets : spSet[mp] = {}
  /\ \A mp \in SpMarkets :
       spResult[mp] = "success" => ~ SpErrorsFirst(mp) /\ SpItemsFor(mp) \subseteq spSet[mp] \cup SpUntold(mp)

\* Until an error each item is set or is in a call to come.
SpComing ==
  \A mp \in SpMarkets : spPlace = mp =>
    /\ UNION spCalls \subseteq SpItemsFor(mp)
    /\ ~ spErrors => ~ SpErrorsFirst(mp) /\ SpItemsFor(mp) \subseteq spSet[mp] \cup SpUntold(mp) \cup UNION spCalls

SpInv == SpTypeOK /\ SpInTurn /\ SpHeld /\ SpComing

\* The invariant is what the pushes promise, and more.
LEMMA SpInvSuffices == SpInv => PushesSound
<1> SUFFICES ASSUME SpInv PROVE PushesSound
  OBVIOUS
<1>0. SpTypeOK /\ SpInTurn /\ SpHeld
  BY DEF SpInv
<1>1. SuccessIsTrue
  <2> SUFFICES ASSUME NEW mp \in SpMarkets, spResult[mp] = "success", NEW i \in SpAll
               PROVE  i \in spSet[mp] \cup SpUntold(mp) \/ (mp = "ozon" /\ spItems[i].wh = NoWarehouse)
    BY DEF SuccessIsTrue
  <2>1. ~ SpErrorsFirst(mp) /\ SpItemsFor(mp) \subseteq spSet[mp] \cup SpUntold(mp)
    BY <1>0 DEF SpHeld, SpUntold
  <2>2. spItems[i].wh \in SpWarehouses
    BY <1>0 DEF SpTypeOK, SpRequests, SpItem, SpAll
  <2>3. CASE mp = "wb"
    BY <2>1, <2>3 DEF SpErrorsFirst, SpItemsFor
  <2>4. CASE mp = "ozon"
    BY <2>1, <2>2, <2>4 DEF SpItemsFor, SpOzonItems, SpWith
  <2>5. CASE mp = "ym"
    BY <2>1, <2>5 DEF SpErrorsFirst, SpItemsFor, SpYmItems
  <2> QED
    BY <2>3, <2>4, <2>5 DEF SpMarkets
<1>2. YmWholeOrNothing
  <2>1. spSet["ym"] \subseteq SpYmItems
    BY <1>0 DEF SpHeld, SpUntold, SpItemsFor, SpMarkets
  <2> QED
    BY <2>1 DEF YmWholeOrNothing, SpYmItems
<1>3. EmptyIsNoSuccess
  BY <1>0 DEF EmptyIsNoSuccess, SpHeld, SpErrorsFirst, SpUntold
<1>4. EventTellsAll
  <2> SUFFICES ASSUME spTold # SpNothing
               PROVE  spTold = spResult /\ \A mp \in SpMarkets : spTold[mp] # "none" <=> mp \in spAsked
    BY DEF EventTellsAll
  <2>1. spTold = spResult /\ spPlace = "done"
    BY <1>0 DEF SpInTurn
  <2>2. \A mp \in SpMarkets : SpTurn[mp] < SpTurn["done"]
    BY DEF SpTurn, SpMarkets
  <2> QED
    BY <1>0, <2>1, <2>2 DEF SpInTurn
<1> QED
  BY <1>0, <1>1, <1>2, <1>3, <1>4 DEF PushesSound

\* What is to be sent is a matter of the request alone.
LEMMA SpSameRequest ==
  ASSUME UNCHANGED <<spItems, spYm>>
  PROVE  \A mp \in SpMarkets :
           SpItemsFor(mp)' = SpItemsFor(mp) /\ SpErrorsFirst(mp)' = SpErrorsFirst(mp)
BY DEF SpItemsFor, SpErrorsFirst, SpWbItems, SpOzonItems, SpYmItems, SpWith, SpAll, SpTwice

\* The calls to a marketplace are of the items it is sent, and of all of them.
LEMMA SpCallsCover ==
  ASSUME SpTypeOK, NEW mp \in SpMarkets
  PROVE  /\ UNION SpCallsFor(mp) = SpItemsFor(mp)
         /\ SpCallsFor(mp) \in SUBSET (SUBSET (1..MaxSpItems))
         /\ SpItemsFor(mp) \in SUBSET SpAll
<1>1. SpAll \subseteq 1..MaxSpItems
  BY SpAssumption DEF SpTypeOK, SpRequests, SpAll
<1>2. SpWbItems \subseteq SpAll /\ SpOzonItems \subseteq SpAll /\ SpYmItems \subseteq SpAll
  BY DEF SpWbItems, SpOzonItems, SpYmItems, SpWith
<1>3. \A S \in SUBSET SpAll : UNION SpByWarehouse(S) = S
  BY DEF SpByWarehouse
<1>4. ASSUME NEW S \in SUBSET SpAll PROVE UNION SpBatches(S) = S
  <2> DEFINE q(i) == Cardinality({j \in S : j < i}) \div SpBatch
  <2>1. SpBatches(S) = {{i \in S : q(i) = b} : b \in {q(i) : i \in S}}
    BY DEF SpBatches
  <2> HIDE DEF q
  <2>2. ASSUME NEW i \in S PROVE i \in UNION SpBatches(S)
    <3>1. {k \in S : q(k) = q(i)} \in SpBatches(S)
      BY <2>1
    <3> QED
      BY <3>1
  <2>3. \A call \in SpBatches(S) : call \subseteq S
    BY <2>1
  <2> QED
    BY <2>2, <2>3
<1>5. UNION SpCallsFor(mp) = SpItemsFor(mp) /\ SpItemsFor(mp) \in SUBSET SpAll
  BY <1>2, <1>3, <1>4 DEF SpCallsFor, SpItemsFor, SpMarkets
<1> QED
  BY <1>1, <1>5

\* The next turn is that of the first marketplace that is asked and comes after, or the event's.
LEMMA SpNextTurn ==
  ASSUME SpTypeOK, NEW mp \in SpMarkets \cup {"start"}, SpGoOn(mp)
  PROVE  \/ /\ spPlace' = "told" /\ UNCHANGED <<spCalls, spErrors>>
            /\ \A x \in SpMarkets : x \in spAsked => SpTurn[x] <= SpTurn[mp]
         \/ /\ spPlace' \in SpMarkets /\ spPlace' \in spAsked /\ SpTurn[mp] < SpTurn[spPlace']
            /\ \A x \in SpMarkets :
                 x \in spAsked /\ SpTurn[x] < SpTurn[spPlace'] => SpTurn[x] <= SpTurn[mp]
            /\ spCalls' = SpCallsFor(spPlace') /\ spErrors' = SpErrorsFirst(spPlace')
<1> DEFINE rest == {i \in 1..3 : SpOrder[i] \in spAsked /\ \A j \in i..3 : SpOrder[j] # mp}
           n == CHOOSE i \in rest : \A j \in rest : i <= j
<1>1. SpOrder[1] = "wb" /\ SpOrder[2] = "ozon" /\ SpOrder[3] = "ym"
  BY DEF SpOrder
<1>2. /\ SpTurn["start"] = 0 /\ SpTurn["wb"] = 1 /\ SpTurn["ozon"] = 2 /\ SpTurn["ym"] = 3
      /\ SpMarkets = {"wb", "ozon", "ym"}
  BY DEF SpTurn, SpMarkets
<1>3. \A i \in 1..3 : i = 1 \/ i = 2 \/ i = 3
  OBVIOUS
<1>4. /\ 1..3 = {1, 2, 3} /\ 2..3 = {2, 3} /\ 3..3 = {3}
  OBVIOUS
<1>5. /\ 1 \in rest <=> "wb" \in spAsked /\ mp # "wb" /\ mp # "ozon" /\ mp # "ym"
      /\ 2 \in rest <=> "ozon" \in spAsked /\ mp # "ozon" /\ mp # "ym"
      /\ 3 \in rest <=> "ym" \in spAsked /\ mp # "ym"
  BY <1>1, <1>4
<1>6. rest \in SUBSET Nat /\ rest \subseteq 1..3
  OBVIOUS
<1>7. IF rest = {} THEN spPlace' = "told" /\ UNCHANGED <<spCalls, spErrors>>
      ELSE SpEnter(SpOrder[n])
  BY DEF SpGoOn
<1> HIDE DEF rest
<1>8. CASE rest = {}
  <2>1. 1 \notin rest /\ 2 \notin rest /\ 3 \notin rest
    BY <1>8
  <2>2. \A x \in SpMarkets : x \in spAsked => SpTurn[x] <= SpTurn[mp]
    BY <1>2, <1>5, <2>1
  <2> QED
    BY <1>7, <1>8, <2>2
<1>9. CASE rest # {}
  <2>1. \E i \in rest : \A j \in rest : i <= j
    BY <1>6, <1>9, LeastOf
  <2>2. n \in rest /\ \A j \in rest : n <= j
    BY <2>1
  <2> HIDE DEF n
  <2>3. SpEnter(SpOrder[n])
    BY <1>7, <1>9
  <2> DEFINE p == SpOrder[n]
  <2>4. n = 1 \/ n = 2 \/ n = 3
    BY <1>3, <1>6, <2>2
  <2>5. /\ p \in SpMarkets /\ p \in spAsked /\ SpTurn[mp] < SpTurn[p]
        /\ \A x \in SpMarkets : x \in spAsked /\ SpTurn[x] < SpTurn[p] => SpTurn[x] <= SpTurn[mp]
    <3>1. CASE n = 1
      BY <1>1, <1>2, <1>5, <2>2, <3>1
    <3>2. CASE n = 2
      <4>1. 1 \notin rest
        BY <2>2, <3>2
      <4> QED
        BY <1>1, <1>2, <1>5, <2>2, <3>2, <4>1
    <3>3. CASE n = 3
      <4>1. 1 \notin rest /\ 2 \notin rest
        BY <2>2, <3>3
      <4> QED
        BY <1>1, <1>2, <1>5, <2>2, <3>3, <4>1
    <3> QED
      BY <2>4, <3>1, <3>2, <3>3
  <2>6. spPlace' = p /\ spCalls' = SpCallsFor(p) /\ spErrors' = SpErrorsFirst(p)
    BY <2>3 DEF SpEnter
  <2> QED
    BY <2>5, <2>6
<1> QED
  BY <1>8, <1>9

\* At first nothing is set and nothing told.
LEMMA SpInitInv == SpInit => SpInv
<1> SUFFICES ASSUME SpInit PROVE SpInv
  OBVIOUS
<1>1. /\ spYm \in {"grouped", "partner", "off"} /\ spItems = <<>> /\ spAsked = {} /\ spPlace = "idle"
      /\ spCalls = {} /\ spErrors = FALSE /\ spResult = SpNothing /\ spTold = SpNothing
      /\ spSet = [mp \in SpMarkets |-> {}] /\ spMissed = {}
  BY DEF SpInit
<1>2. \A mp \in SpMarkets : spResult[mp] = "none" /\ spSet[mp] = {}
  BY <1>1 DEF SpNothing
<1>3. SpTypeOK
  BY <1>1 DEF SpTypeOK, SpNothing
<1>4. "idle" \notin SpMarkets
  BY DEF SpMarkets
<1> QED
  BY <1>1, <1>2, <1>3, <1>4 DEF SpInv, SpInTurn, SpHeld, SpComing

\* A request: nothing of it is set yet.
LEMMA SpRequestKeeps ==
  ASSUME SpInv, SpRequest
  PROVE  SpInv'
<1>0. SpTypeOK /\ SpInTurn /\ SpHeld
  BY DEF SpInv
<1>1. /\ spPlace = "idle" /\ spPlace' = "start" /\ spItems' \in SpRequests
      /\ spAsked' \in {SpMarkets} \cup {{mp} : mp \in SpMarkets}
      /\ UNCHANGED <<spYm, spCalls, spErrors, spResult, spSet, spMissed, spTold>>
  BY DEF SpRequest
<1>2. SpTypeOK'
  BY <1>0, <1>1 DEF SpTypeOK
<1>3. \A mp \in SpMarkets : SpTurn[mp] >= 1
  BY DEF SpMarkets, SpTurn
<1>4. SpTurn["idle"] = 0 /\ SpTurn["start"] = 0 /\ "start" \notin SpMarkets
  BY DEF SpMarkets, SpTurn
<1>5. \A mp \in SpMarkets : ~ (SpTurn[mp] < 0)
  BY DEF SpMarkets, SpTurn
<1>6. \A mp \in SpMarkets : spResult[mp] = "none" /\ spSet[mp] = {}
  BY <1>0, <1>1, <1>4, <1>5 DEF SpInTurn, SpHeld
<1>7. SpInTurn'
  BY <1>0, <1>1, <1>4, <1>5, <1>6 DEF SpInTurn
<1>8. SpHeld'
  BY <1>1, <1>6 DEF SpHeld, SpUntold
<1>9. SpComing'
  BY <1>1, <1>4 DEF SpComing, SpUntold
<1> QED
  BY <1>2, <1>7, <1>8, <1>9 DEF SpInv

\* The turn goes on: what has answered is what comes before it.
LEMMA SpGoesOn ==
  ASSUME SpTypeOK, SpTypeOK', SpHeld', NEW mp \in SpMarkets \cup {"start"}, SpGoOn(mp),
         \A x \in SpMarkets : spResult'[x] # "none" <=> x \in spAsked /\ SpTurn[x] <= SpTurn[mp],
         spTold' = SpNothing, UNCHANGED <<spItems, spYm, spAsked, spSet, spMissed>>
  PROVE  SpInv'
<1>1. \/ /\ spPlace' = "told"
         /\ \A x \in SpMarkets : x \in spAsked => SpTurn[x] <= SpTurn[mp]
      \/ /\ spPlace' \in SpMarkets /\ spPlace' \in spAsked /\ SpTurn[mp] < SpTurn[spPlace']
         /\ \A x \in SpMarkets :
              x \in spAsked /\ SpTurn[x] < SpTurn[spPlace'] => SpTurn[x] <= SpTurn[mp]
         /\ spCalls' = SpCallsFor(spPlace') /\ spErrors' = SpErrorsFirst(spPlace')
  BY SpNextTurn
<1>2. /\ \A x \in SpMarkets : SpTurn[x] \in Int /\ SpTurn[x] < SpTurn["told"]
      /\ SpTurn[mp] \in Int /\ "told" \notin SpMarkets
  BY DEF SpTurn, SpMarkets
<1>3. \A x \in SpMarkets : SpItemsFor(x)' = SpItemsFor(x) /\ SpErrorsFirst(x)' = SpErrorsFirst(x)
  BY SpSameRequest
<1>4. CASE spPlace' = "told"
  <2>1. SpInTurn'
    BY <1>1, <1>2, <1>4 DEF SpInTurn
  <2>2. SpComing'
    BY <1>2, <1>4 DEF SpComing, SpUntold
  <2> QED
    BY <2>1, <2>2 DEF SpInv
<1>5. CASE spPlace' # "told"
  <2> DEFINE p == spPlace'
  <2>1. p \in SpMarkets /\ p \in spAsked /\ SpTurn[mp] < SpTurn[p]
        /\ spCalls' = SpCallsFor(p) /\ spErrors' = SpErrorsFirst(p)
    BY <1>1, <1>5
  <2>2. \A x \in SpMarkets : x \in spAsked =>
          (SpTurn[x] < SpTurn[p] <=> SpTurn[x] <= SpTurn[mp])
    BY <1>1, <1>2, <1>5
  <2>3. SpInTurn'
    BY <2>1, <2>2 DEF SpInTurn
  <2>4. UNION SpCallsFor(p) = SpItemsFor(p)
    BY <2>1, SpCallsCover
  <2>5. ASSUME NEW x \in SpMarkets, spPlace' = x
        PROVE  /\ UNION spCalls' \subseteq SpItemsFor(x)'
               /\ ~ spErrors' =>
                    /\ ~ SpErrorsFirst(x)'
                    /\ SpItemsFor(x)' \subseteq spSet'[x] \cup SpUntold(x)' \cup UNION spCalls'
    <3>1. spCalls' = SpCallsFor(x) /\ spErrors' = SpErrorsFirst(x)
      BY <2>1, <2>5
    <3>2. UNION SpCallsFor(x) = SpItemsFor(x)
      BY <2>5, SpCallsCover
    <3> QED
      BY <1>3, <3>1, <3>2
  <2>6. SpComing'
    BY <2>5 DEF SpComing, SpUntold
  <2> QED
    BY <2>3, <2>6 DEF SpInv
<1> QED
  BY <1>4, <1>5

\* What the turn leaves behind has its type.
LEMMA SpGoesOnTyped ==
  ASSUME SpTypeOK, NEW mp \in SpMarkets \cup {"start"}, SpGoOn(mp),
         UNCHANGED <<spYm, spItems, spAsked, spSet, spMissed>>,
         spResult' \in [SpMarkets -> {"none", "success", "failed"}],
         spTold' \in [SpMarkets -> {"none", "success", "failed"}]
  PROVE  SpTypeOK'
<1>1. \/ spPlace' = "told" /\ UNCHANGED <<spCalls, spErrors>>
      \/ /\ spPlace' \in SpMarkets
         /\ spCalls' = SpCallsFor(spPlace') /\ spErrors' = SpErrorsFirst(spPlace')
  BY SpNextTurn
<1>2. \A x \in SpMarkets : SpCallsFor(x) \subseteq SUBSET (1..MaxSpItems)
  BY SpCallsCover
<1>3. \A x \in SpMarkets : SpErrorsFirst(x) \in BOOLEAN
  BY DEF SpErrorsFirst
<1>4. spPlace' \in SpMarkets \cup {"start", "told", "idle", "done"}
  BY <1>1
<1>5. spCalls' \subseteq SUBSET (1..MaxSpItems) /\ spErrors' \in BOOLEAN
  BY <1>1, <1>2, <1>3 DEF SpTypeOK
<1> QED
  BY <1>4, <1>5 DEF SpTypeOK

\* Every step keeps the invariant.
LEMMA SpStartKeeps ==
  ASSUME SpInv, SpStart
  PROVE  SpInv'
<1>0. SpTypeOK /\ SpInTurn /\ SpHeld
  BY DEF SpInv
<1>1. /\ spPlace = "start" /\ SpGoOn("start")
      /\ UNCHANGED <<spYm, spItems, spAsked, spResult, spSet, spMissed, spTold>>
  BY DEF SpStart
<1>2. SpTypeOK'
  <2>1. /\ spResult' \in [SpMarkets -> {"none", "success", "failed"}]
        /\ spTold' \in [SpMarkets -> {"none", "success", "failed"}]
    BY <1>0, <1>1 DEF SpTypeOK
  <2> QED
    BY <1>0, <1>1, <2>1, SpGoesOnTyped
<1>3. SpHeld'
  <2>1. \A mp \in SpMarkets : SpItemsFor(mp)' = SpItemsFor(mp) /\ SpErrorsFirst(mp)' = SpErrorsFirst(mp)
    BY <1>1, SpSameRequest
  <2>2. \A mp \in SpMarkets : spSet[mp] = {}
    BY <1>0, <1>1 DEF SpHeld, SpUntold
  <2> QED
    BY <1>0, <1>1, <2>1, <2>2 DEF SpHeld, SpUntold
<1>4. SpTurn["start"] = 0 /\ \A x \in SpMarkets : ~ (SpTurn[x] < 0) /\ ~ (SpTurn[x] <= 0)
  BY DEF SpTurn, SpMarkets
<1>5. \A x \in SpMarkets : spResult'[x] # "none" <=> x \in spAsked /\ SpTurn[x] <= SpTurn["start"]
  BY <1>0, <1>1, <1>4 DEF SpInTurn
<1>6. spTold' = SpNothing
  BY <1>0, <1>1 DEF SpInTurn
<1> QED
  BY <1>0, <1>1, <1>2, <1>3, <1>5, <1>6, SpGoesOn

\* A call: what it sets is of what was to be sent.
LEMMA SpCallKeeps ==
  ASSUME SpInv, SpCall
  PROVE  SpInv'
<1>0. SpTypeOK /\ SpInTurn /\ SpHeld /\ SpComing
  BY DEF SpInv
<1>1. PICK call \in spCalls, outcome \in UNION {SpOutcomes(spPlace, c) : c \in spCalls} :
        /\ outcome \in SpOutcomes(spPlace, call)
        /\ spSet' = [spSet EXCEPT ![spPlace] = @ \cup outcome.set]
        /\ spMissed' = spMissed \cup (IF outcome.ok THEN call \ outcome.set ELSE {})
        /\ spErrors' = (spErrors \/ ~ outcome.ok)
        /\ spCalls' = IF spPlace = "ozon" /\ ~ outcome.ok THEN {} ELSE spCalls \ {call}
  BY DEF SpCall
<1>2. /\ spPlace \in SpMarkets
      /\ UNCHANGED <<spYm, spItems, spAsked, spPlace, spResult, spTold>>
  BY DEF SpCall
<1>3. /\ outcome.set \in SUBSET call /\ outcome.ok \in BOOLEAN
      /\ outcome.ok /\ spPlace # "ozon" => outcome.set = call
  <2>1. PICK S \in SUBSET call, ok \in BOOLEAN :
          outcome = [set |-> S, ok |-> ok] /\ (ok /\ spPlace # "ozon" => S = call)
    BY <1>1 DEF SpOutcomes
  <2>2. outcome.set = S /\ outcome.ok = ok
    BY <2>1
  <2> QED
    BY <2>1, <2>2
<1>4. \A mp \in SpMarkets : SpItemsFor(mp)' = SpItemsFor(mp) /\ SpErrorsFirst(mp)' = SpErrorsFirst(mp)
  BY <1>2, SpSameRequest
<1>5. call \in SUBSET (1..MaxSpItems) /\ spSet \in [SpMarkets -> SUBSET (1..MaxSpItems)]
  BY <1>0, <1>1 DEF SpTypeOK
<1>6. \A mp \in SpMarkets : spSet'[mp] = IF mp = spPlace THEN spSet[mp] \cup outcome.set ELSE spSet[mp]
  BY <1>1, <1>2, <1>5
<1>7. spCalls' \subseteq spCalls
  BY <1>1
<1>8. SpTypeOK'
  <2>1. spSet' \in [SpMarkets -> SUBSET (1..MaxSpItems)]
    BY <1>1, <1>2, <1>3, <1>5
  <2>4. spMissed' \subseteq 1..MaxSpItems
    BY <1>0, <1>1, <1>5 DEF SpTypeOK
  <2>2. spErrors' \in BOOLEAN
    BY <1>0, <1>1, <1>3 DEF SpTypeOK
  <2>3. spCalls' \subseteq SUBSET (1..MaxSpItems)
    BY <1>0, <1>7 DEF SpTypeOK
  <2> QED
    BY <1>0, <1>2, <2>1, <2>2, <2>3, <2>4 DEF SpTypeOK
<1>9. SpInTurn'
  BY <1>0, <1>2 DEF SpInTurn
<1>10. call \subseteq SpItemsFor(spPlace) /\ UNION spCalls' \subseteq SpItemsFor(spPlace)
  BY <1>0, <1>1, <1>2, <1>7 DEF SpComing, SpUntold
<1>11. SpHeld'
  <2>1. ASSUME NEW mp \in SpMarkets PROVE spSet'[mp] \subseteq SpItemsFor(mp)'
    <3>1. spSet[mp] \subseteq SpItemsFor(mp)
      BY <1>0 DEF SpHeld, SpUntold
    <3> QED
      BY <1>3, <1>4, <1>6, <1>10, <3>1
  <2>2. spPlace' \notin {"idle", "start"}
    BY <1>2 DEF SpMarkets
  <2>3. ASSUME NEW mp \in SpMarkets, spResult'[mp] = "success"
        PROVE  ~ SpErrorsFirst(mp)' /\ SpItemsFor(mp)' \subseteq spSet'[mp] \cup SpUntold(mp)'
    <3>1. ~ SpErrorsFirst(mp) /\ SpItemsFor(mp) \subseteq spSet[mp] \cup SpUntold(mp)
      BY <1>0, <1>2, <2>3 DEF SpHeld, SpUntold
    <3> QED
      BY <1>1, <1>4, <1>6, <3>1 DEF SpUntold
  <2> QED
    BY <2>1, <2>2, <2>3 DEF SpHeld, SpUntold
<1>12. ASSUME NEW mp \in SpMarkets, spPlace' = mp
       PROVE  /\ UNION spCalls' \subseteq SpItemsFor(mp)'
              /\ ~ spErrors' =>
                   /\ ~ SpErrorsFirst(mp)'
                   /\ SpItemsFor(mp)' \subseteq spSet'[mp] \cup SpUntold(mp)' \cup UNION spCalls'
  <2>0. mp = spPlace
    BY <1>2, <1>12
  <2>1. UNION spCalls' \subseteq SpItemsFor(mp)'
    BY <1>4, <1>10, <2>0
  <2>2. ASSUME ~ spErrors'
        PROVE  ~ SpErrorsFirst(mp)' /\ SpItemsFor(mp)' \subseteq spSet'[mp] \cup SpUntold(mp)' \cup UNION spCalls'
    <3>1. ~ spErrors /\ outcome.ok
      BY <1>0, <1>1, <1>3, <2>2 DEF SpTypeOK
    <3>2. spCalls' = spCalls \ {call} /\ spMissed' = spMissed \cup (call \ outcome.set)
      BY <1>1, <1>3, <3>1
    <3>3. ~ SpErrorsFirst(mp) /\ SpItemsFor(mp) \subseteq spSet[mp] \cup SpUntold(mp) \cup UNION spCalls
      BY <1>0, <2>0, <3>1 DEF SpComing, SpUntold
    <3>4. UNION spCalls \subseteq call \cup UNION (spCalls \ {call})
      OBVIOUS
    <3>5. spSet[mp] \cup SpUntold(mp) \cup call \subseteq spSet'[mp] \cup SpUntold(mp)'
      <4>1. spSet'[mp] = spSet[mp] \cup outcome.set
        BY <1>6, <2>0
      <4>2. mp # "ozon" => outcome.set = call
        BY <1>3, <2>0, <3>1
      <4> QED
        BY <3>2, <4>1, <4>2 DEF SpUntold
    <3> QED
      BY <1>4, <3>2, <3>3, <3>4, <3>5
  <2> QED
    BY <2>1, <2>2
<1>13. SpComing'
  BY <1>12 DEF SpComing, SpUntold
<1> QED
  BY <1>8, <1>9, <1>11, <1>13 DEF SpInv

\* What a marketplace says once its calls are over: without an error, all of it is set.
LEMMA SpResultKeeps ==
  ASSUME SpInv, SpResultOf
  PROVE  SpInv'
<1>0. SpTypeOK /\ SpInTurn /\ SpHeld /\ SpComing
  BY DEF SpInv
<1>1. /\ spPlace \in SpMarkets /\ spCalls = {}
      /\ spResult' = [spResult EXCEPT ![spPlace] = IF spErrors THEN "failed" ELSE "success"]
      /\ SpGoOn(spPlace)
      /\ UNCHANGED <<spYm, spItems, spAsked, spSet, spMissed, spTold>>
  BY DEF SpResultOf
<1>2. spResult \in [SpMarkets -> {"none", "success", "failed"}]
  BY <1>0 DEF SpTypeOK
<1>3. spResult' \in [SpMarkets -> {"none", "success", "failed"}]
  BY <1>1, <1>2
<1>4. \A mp \in SpMarkets :
        spResult'[mp] = IF mp = spPlace THEN (IF spErrors THEN "failed" ELSE "success")
                        ELSE spResult[mp]
  BY <1>1, <1>2
<1>5. SpTypeOK'
  <2>1. spTold' \in [SpMarkets -> {"none", "success", "failed"}]
    BY <1>0, <1>1 DEF SpTypeOK
  <2> QED
    BY <1>0, <1>1, <1>3, <2>1, SpGoesOnTyped
<1>6. \A mp \in SpMarkets : SpItemsFor(mp)' = SpItemsFor(mp) /\ SpErrorsFirst(mp)' = SpErrorsFirst(mp)
  BY <1>1, SpSameRequest
<1>7. spPlace' \notin {"idle", "start"}
  <2>1. spPlace' \in SpMarkets \cup {"told"}
    BY <1>0, <1>1, SpNextTurn
  <2> QED
    BY <2>1 DEF SpMarkets
<1>8. SpHeld'
  <2>1. ASSUME NEW mp \in SpMarkets PROVE spSet'[mp] \subseteq SpItemsFor(mp)'
    BY <1>0, <1>1, <1>6 DEF SpHeld, SpUntold
  <2>2. ASSUME NEW mp \in SpMarkets, spResult'[mp] = "success"
        PROVE  ~ SpErrorsFirst(mp)' /\ SpItemsFor(mp)' \subseteq spSet'[mp] \cup SpUntold(mp)'
    <3>1. CASE mp = spPlace
      <4>1. ~ spErrors
        BY <1>4, <2>2, <3>1
      <4>2. ~ SpErrorsFirst(mp) /\ SpItemsFor(mp) \subseteq spSet[mp] \cup SpUntold(mp) \cup UNION spCalls
        BY <1>0, <3>1, <4>1 DEF SpComing, SpUntold
      <4> QED
        BY <1>1, <1>6, <4>2 DEF SpUntold
    <3>2. CASE mp # spPlace
      <4>1. spResult[mp] = "success"
        BY <1>4, <2>2, <3>2
      <4> QED
        BY <1>0, <1>1, <1>6, <4>1 DEF SpHeld, SpUntold
    <3> QED
      BY <3>1, <3>2
  <2> QED
    BY <1>7, <2>1, <2>2 DEF SpHeld, SpUntold
<1>9. \A x, y \in SpMarkets : SpTurn[x] \in Int /\ (SpTurn[x] <= SpTurn[y] <=> SpTurn[x] < SpTurn[y] \/ x = y)
  BY DEF SpTurn, SpMarkets
<1>10. \A x \in SpMarkets : spResult'[x] # "none" <=> x \in spAsked /\ SpTurn[x] <= SpTurn[spPlace]
  <2> SUFFICES ASSUME NEW x \in SpMarkets
               PROVE  spResult'[x] # "none" <=> x \in spAsked /\ SpTurn[x] <= SpTurn[spPlace]
    OBVIOUS
  <2>1. spResult[x] # "none" <=> x \in spAsked /\ SpTurn[x] < SpTurn[spPlace]
    BY <1>0 DEF SpInTurn
  <2>2. SpTurn[x] <= SpTurn[spPlace] <=> SpTurn[x] < SpTurn[spPlace] \/ x = spPlace
    BY <1>1, <1>9
  <2>3. x = spPlace => spResult'[x] # "none" /\ x \in spAsked
    BY <1>0, <1>1, <1>4 DEF SpInTurn
  <2>4. x # spPlace => spResult'[x] = spResult[x]
    BY <1>4
  <2> QED
    BY <2>1, <2>2, <2>3, <2>4
<1>11. spTold' = SpNothing
  <2>1. spPlace # "done"
    BY <1>1 DEF SpMarkets
  <2> QED
    BY <1>0, <1>1, <2>1 DEF SpInTurn
<1> QED
  BY <1>0, <1>1, <1>5, <1>8, <1>10, <1>11, SpGoesOn

\* The event tells the results, or is not taken by the broker.
LEMMA SpTellKeeps ==
  ASSUME SpInv, SpTell
  PROVE  SpInv'
<1>0. SpTypeOK /\ SpInTurn /\ SpHeld /\ SpComing
  BY DEF SpInv
<1>1. /\ spPlace = "told" /\ spPlace' = "done" /\ spTold' \in {spResult, SpNothing}
      /\ UNCHANGED <<spYm, spItems, spAsked, spCalls, spErrors, spResult, spSet, spMissed>>
  BY DEF SpTell
<1>2. SpNothing \in [SpMarkets -> {"none", "success", "failed"}]
  BY DEF SpNothing
<1>3. SpTypeOK'
  BY <1>0, <1>1, <1>2 DEF SpTypeOK
<1>4. SpTurn["done"] = SpTurn["told"] /\ "done" \notin SpMarkets
  BY DEF SpTurn, SpMarkets
<1>5. SpInTurn'
  BY <1>0, <1>1, <1>4 DEF SpInTurn
<1>6. \A mp \in SpMarkets : SpItemsFor(mp)' = SpItemsFor(mp) /\ SpErrorsFirst(mp)' = SpErrorsFirst(mp)
  BY <1>1, SpSameRequest
<1>7. SpHeld'
  BY <1>0, <1>1, <1>6 DEF SpHeld, SpUntold
<1>8. SpComing'
  BY <1>1, <1>4 DEF SpComing, SpUntold
<1> QED
  BY <1>3, <1>5, <1>7, <1>8 DEF SpInv

\* A step of the request, or of something else.
LEMMA SpStep ==
  ASSUME SpInv, [SpNext]_spVars
  PROVE  SpInv'
<1>1. CASE UNCHANGED spVars
  <2>0. SpTypeOK /\ SpInTurn /\ SpHeld /\ SpComing
    BY DEF SpInv
  <2>1. UNCHANGED <<spYm, spItems, spAsked, spPlace, spCalls, spErrors, spResult, spSet, spMissed, spTold>>
    BY <1>1 DEF spVars
  <2>2. SpTypeOK'
    BY <2>0, <2>1 DEF SpTypeOK
  <2>3. SpInTurn'
    BY <2>0, <2>1 DEF SpInTurn
  <2>4. \A mp \in SpMarkets : SpItemsFor(mp)' = SpItemsFor(mp) /\ SpErrorsFirst(mp)' = SpErrorsFirst(mp)
    BY <2>1, SpSameRequest
  <2>5. SpHeld'
    BY <2>0, <2>1, <2>4 DEF SpHeld, SpUntold
  <2>6. SpComing'
    BY <2>0, <2>1, <2>4 DEF SpComing, SpUntold
  <2> QED
    BY <2>2, <2>3, <2>5, <2>6 DEF SpInv
<1> QED
  BY <1>1, SpRequestKeeps, SpStartKeeps, SpCallKeeps, SpResultKeeps, SpTellKeeps DEF SpNext

\* Of every request, whatever the calls come to: SuccessIsTrue, YmWholeOrNothing, EmptyIsNoSuccess
\* and EventTellsAll (integrations_service.py, collectors/marketplace_actions.py).
THEOREM PushesAreSound == SpSpec => []PushesSound
<1>1. SpInv /\ [SpNext]_spVars => SpInv'
  BY SpStep
<1> QED
  BY <1>1, SpInitInv, SpInvSuffices, PTL DEF SpSpec

-----------------------------------------------------------------------------
(* All of them (MCBackend) *)

\* What holds of the report, of the buyouts and of the pushes, whichever of them moves.
AllInv == AcInv /\ CbInv /\ SpInv

LEMMA AllInitInv == AllInit => AllInv
BY AcInitInv, CbInitInv, SpInitInv DEF AllInit, AllInv

\* A step of one part is none of another.
LEMMA AllStep ==
  ASSUME WbPaysAtMost = TRUE, AllInv, [AllNext]_allVars
  PROVE  AllInv'
<1>1. [AcNext]_acVars /\ [CbNext]_cbVars /\ [SpNext]_spVars
  <2>1. CASE UNCHANGED allVars
    BY <2>1 DEF allVars
  <2>2. CASE Only("accruals") /\ AcNext
    BY <2>2 DEF Only
  <2>3. CASE Only("buyouts") /\ CbNext
    BY <2>3 DEF Only
  <2>4. CASE Only("stocks") /\ SpNext
    BY <2>4 DEF Only
  <2>5. CASE \E p \in {"snapshot", "sessions", "reviews", "daily", "users", "pnl", "expenses"} : Only(p)
    BY <2>5 DEF Only
  <2> QED
    BY <2>1, <2>2, <2>3, <2>4, <2>5 DEF AllNext
<1>2. AcInv /\ CbInv /\ SpInv
  BY DEF AllInv
<1> QED
  BY <1>1, <1>2, AcStep, CbStep, SpStep DEF AllInv

\* AnswersTrue of the runs of MCBackend: what the report of articles, the buyouts and the pushes
\* answer is so, where WB pays no more than the price.
THEOREM AllAnswersTrue ==
  ASSUME WbPaysAtMost = TRUE
  PROVE  AllSpec => []AnswersTrue
<1>1. AllInv /\ [AllNext]_allVars => AllInv'
  BY AllStep
<1>2. AllInv => AnswersTrue
  BY AcInvSuffices, CbOnce, SpInvSuffices DEF AllInv, AnswersTrue
<1> QED
  BY <1>1, <1>2, AllInitInv, PTL DEF AllSpec


-----------------------------------------------------------------------------
(* The price a rule acts on (PriceSnapshot) *)

USE DEF NoPrice, Prices, catalogue, ledger

\* What is between the runs, the snapshot and the mart when nothing gets in the way.
Calm ==
  /\ queued = NoPrice
  /\ read # NoPrice => run = "idle" /\ read = price
  /\ run # "idle" => rows > seen
  /\ run = "idle" /\ seen >= rows => head = price
  /\ run = "idle" /\ mart.seen >= rows => mart.price = price
  /\ run = "marked" => asked = price + 1 \/ asked = price - 1

\* mart is a record of the two fields; SnapTypeOK speaks of the fields only.
MartRow == mart = [price |-> mart.price, seen |-> mart.seen] /\ mart.seen <= seen

IInv == SnapTypeOK /\ MartRow /\ (perils = {} => Calm)

-----------------------------------------------------------------------------
LEMMA InitIInv == SnapInit => IInv
BY BoundsAreNumbers DEF SnapInit, IInv, SnapTypeOK, MartRow, Calm

\* One step of the repricer stays within the prices: it goes towards a goal among them.
LEMMA StepFromIsPrice ==
  ASSUME NEW p \in Prices, goal \in Prices, p # goal
  PROVE  StepFrom(p) \in Prices /\ (StepFrom(p) = p + 1 \/ StepFrom(p) = p - 1)
BY BoundsAreNumbers DEF StepFrom

\* Every step keeps the types and the order of the times.
LEMMA TypeStep ==
  ASSUME SnapTypeOK, MartRow, [SnapNext]_snapVars
  PROVE  SnapTypeOK' /\ MartRow'
<1> USE BoundsAreNumbers DEF SnapTypeOK, MartRow
<1>1. CASE ReadCatalogue
  BY <1>1 DEF ReadCatalogue
<1>2. CASE Commit
  BY <1>2 DEF Commit
<1>3. CASE LogSnapshot
  BY <1>3 DEF LogSnapshot
<1>4. CASE SnapshotFails
  BY <1>4 DEF SnapshotFails
<1>5. CASE BuildMart
  BY <1>5 DEF BuildMart
<1>6. CASE Mark
  <2>1. StepFrom(mart.price) \in Prices
    BY <1>6, StepFromIsPrice DEF Mark
  <2>. QED BY <1>6, <2>1 DEF Mark
<1>7. CASE Accepted
  BY <1>7 DEF Accepted
<1>8. CASE Rejected
  BY <1>8 DEF Rejected
<1>9. CASE Record
  BY <1>9 DEF Record
<1>10. CASE Crash
  BY <1>10 DEF Crash
<1>11. CASE ShowQueued \/ DropQueued
  BY <1>11 DEF ShowQueued, DropQueued
<1>12. CASE SetGoal \/ NextDay
  BY <1>12 DEF SetGoal, NextDay
<1>13. CASE UNCHANGED snapVars
  BY <1>13 DEF snapVars
<1>. QED BY <1>1, <1>2, <1>3, <1>4, <1>5, <1>6, <1>7, <1>8, <1>9, <1>10, <1>11, <1>12, <1>13
         DEF SnapNext

\* In the calm world a snapshot and a change never overlap, so every step keeps Calm.
LEMMA CalmStep ==
  ASSUME SnapTypeOK, MartRow, Calm, perils = {}, [SnapNext]_snapVars
  PROVE  Calm' /\ perils' = {}
<1> USE BoundsAreNumbers DEF SnapTypeOK, MartRow, Calm
<1>1. CASE ReadCatalogue
  BY <1>1 DEF ReadCatalogue
<1>2. CASE Commit
  BY <1>2 DEF Commit
<1>3. CASE LogSnapshot
  BY <1>3 DEF LogSnapshot
<1>4. CASE SnapshotFails
  BY <1>4 DEF SnapshotFails
<1>5. CASE BuildMart
  BY <1>5 DEF BuildMart
<1>6. CASE Mark
  <2>1. mart.price = price /\ goal \in Prices /\ price \in Prices /\ price # goal
    BY <1>6 DEF Mark
  <2>2. StepFrom(mart.price) = price + 1 \/ StepFrom(mart.price) = price - 1
    BY <2>1, StepFromIsPrice
  <2>. QED BY <1>6, <2>2 DEF Mark
<1>7. CASE Accepted
  BY <1>7 DEF Accepted
<1>8. CASE Rejected
  BY <1>8 DEF Rejected
<1>9. CASE Record
  BY <1>9 DEF Record
<1>10. CASE Crash
  BY <1>10 DEF Crash
<1>11. CASE ShowQueued \/ DropQueued
  BY <1>11 DEF ShowQueued, DropQueued
<1>12. CASE SetGoal \/ NextDay
  BY <1>12 DEF SetGoal, NextDay
<1>13. CASE UNCHANGED snapVars
  BY <1>13 DEF snapVars
<1>. QED BY <1>1, <1>2, <1>3, <1>4, <1>5, <1>6, <1>7, <1>8, <1>9, <1>10, <1>11, <1>12, <1>13
         DEF SnapNext

\* What may happen in a world does not change.
LEMMA PerilsStay == ASSUME [SnapNext]_snapVars PROVE perils' = perils
BY DEF SnapNext, ReadCatalogue, Commit, LogSnapshot, SnapshotFails, BuildMart, Mark, Accepted,
   Rejected, Record, Crash, ShowQueued, DropQueued, SetGoal, NextDay, snapVars

LEMMA IInvStep == ASSUME IInv, [SnapNext]_snapVars PROVE IInv'
BY TypeStep, CalmStep, PerilsStay DEF IInv

THEOREM Inductive == SnapSpec => []IInv
BY InitIInv, IInvStep, PTL DEF SnapSpec

-----------------------------------------------------------------------------
\* Only Mark starts a change, from a row of the mart that a snapshot has stamped since.
LEMMA MarkOnly ==
  ASSUME IInv, [SnapNext]_snapVars, run = "idle", run' = "marked"
  PROVE  Mark /\ mart.seen >= rows /\ mart.seen <= seen
BY DEF IInv, MartRow, SnapNext, ReadCatalogue, Commit, LogSnapshot, SnapshotFails, BuildMart, Mark,
   Accepted, Rejected, Record, Crash, ShowQueued, DropQueued, SetGoal, NextDay, catalogue, snapVars

\* However late the mart is built, whatever the snapshots read and the marketplace shows: a
\* change waits for a snapshot that finished after the last change (last_applied_at and
\* price_seen_at).
THEOREM ChangeAwaitsSnapshot == SnapSpec => AwaitsSnapshot
<1>1. IInv /\ [SnapNext]_snapVars => (run = "idle" /\ run' = "marked" => seen >= rows)
  BY MarkOnly, BoundsAreNumbers DEF IInv, SnapTypeOK
<1>2. IInv /\ IInv' /\ [SnapNext]_snapVars =>
        [SnapTypeOK' /\ (run = "idle" /\ run' = "marked" => seen >= rows)]_snapVars
  BY <1>1 DEF IInv
<1>3. IInv => SnapTypeOK
  BY DEF IInv
<1>. QED BY <1>2, <1>3, Inductive, PTL DEF SnapSpec, AwaitsSnapshot

\* In the calm world a change moves the price buyers see by one max_step_pct, also after a
\* worker died with its change on the way: that change has a row, and waits for a snapshot.
THEOREM OneStepOnMarket == SnapSpec => StepOnMarket
<1>1. IInv /\ [SnapNext]_snapVars => [perils = {} => price' \in {price - 1, price, price + 1}]_snapVars
  <2> SUFFICES ASSUME IInv, [SnapNext]_snapVars, perils = {}
               PROVE  price' \in {price - 1, price, price + 1}
    OBVIOUS
  <2>1. CASE Accepted
    BY <2>1 DEF IInv, Calm, Accepted
  <2>2. CASE ~Accepted
    BY <2>2 DEF IInv, Calm, SnapNext, ReadCatalogue, Commit, LogSnapshot, SnapshotFails, BuildMart,
       Mark, Rejected, Record, Crash, ShowQueued, DropQueued, SetGoal, NextDay, snapVars
  <2>. QED BY <2>1, <2>2
<1>. QED BY <1>1, Inductive, PTL DEF SnapSpec, StepOnMarket

\* In the calm world a change is planned from the result of the last one.
THEOREM PlansFromResult == SnapSpec => WaitsForResult
<1>1. IInv /\ [SnapNext]_snapVars => [perils = {} /\ run = "idle" /\ run' = "marked" => mart.price = price]_snapVars
  BY MarkOnly DEF IInv, Calm
<1>. QED BY <1>1, Inductive, PTL DEF SnapSpec, WaitsForResult

-----------------------------------------------------------------------------
(* The rows kept of an answer (RawRows) *)

\* The key an entry has in its table.
RrKeyIn(t, e) ==
  CASE t = "wb_sales" -> <<e.doc, e.item, e.no>>
    [] t \in {"wb_orders", "ozon_items", "ym_orders", "ym_stats"} -> <<e.doc, e.item>>
    [] t \in {"wb_stocks", "ym_offers", "ym_quotes"} -> e.item
    [] t \in {"wb_funnel", "ym_funnel"} -> <<e.day, e.item>>
    [] t = "wb_report" -> e.doc
    [] t \in {"ozon_stocks", "ym_stocks"} -> <<e.item, e.place>>
    [] t \in {"ozon_ads", "ozon_accruals"} -> <<e.day, e.doc>>
    [] t \in {"ozon_sku_ads", "ym_ads"} -> <<e.day, e.doc, e.item>>
    [] t = "ozon_balance" -> e.day
    [] t = "ym_finance" ->
         <<e.day, IF e.doc # 0 THEN <<e.doc>> ELSE <<"hash", e.amount>>>>
RrKey(e) == RrKeyIn(rrTable, e)

\* Tables that have a row for each entry, and those that have one unless the entry is not alone.
RrEachTables ==
  {"wb_sales", "wb_orders", "wb_funnel", "wb_report", "ozon_items", "ozon_ads", "ozon_sku_ads",
   "ozon_accruals", "ym_orders", "ym_stocks", "ym_offers", "ym_finance", "ym_ads", "ym_funnel"}
RrAloneTables == {"ym_stats", "ym_quotes"}

\* One of the tables it is.
LEMMA RrTableIs ==
  ASSUME RrTypeOK
  PROVE  rrTable \in RrEachTables \cup RrAloneTables
                      \cup {"wb_stocks", "ozon_stocks", "ozon_balance"}
BY RrAssumption DEF RrTypeOK, RrFields, RrEachTables, RrAloneTables

\* The row of a key is one of those inserted, and there are no rows but those and the old.
LEMMA RrInsertKeys ==
  ASSUME NEW lines
  PROVE  DOMAIN RrInsert(lines) = (IF rrTable \in RrSnapshots THEN {} ELSE DOMAIN rrKept)
                                   \cup {lines[i].key : i \in DOMAIN lines}
BY DEF RrInsert

\* The row of a key is one of those inserted.
LEMMA RrInsertRow ==
  ASSUME NEW lines, NEW M \in Nat, DOMAIN lines \subseteq 0..M, NEW n \in DOMAIN lines
  PROVE  \E i \in DOMAIN lines : /\ lines[i].key = lines[n].key
                                 /\ RrInsert(lines)[lines[n].key] = lines[i].amount
<1> DEFINE k == lines[n].key
           T == {i \in DOMAIN lines : lines[i].key = k}
           Last(i) == /\ lines[i].key = k
                      /\ \A j \in DOMAIN lines : lines[j].key = k => j <= i
           l == CHOOSE i \in DOMAIN lines : Last(i)
<1>1. T \in SUBSET (0..M) /\ T # {}
  OBVIOUS
<1>2. PICK i \in T : \A y \in T : y <= i
  <2> HIDE DEF T
  <2> QED
    BY <1>1, LastOf
<1>3. l \in DOMAIN lines /\ Last(l)
  <2>1. i \in DOMAIN lines /\ Last(i)
    BY <1>2
  <2> HIDE DEF Last
  <2> QED
    BY <2>1
<1>4. RrInsert(lines)[k] = lines[l].amount
  BY DEF RrInsert
<1> QED
  BY <1>3, <1>4

\* The rows kept already stay as they were, but for the keys of the new.
LEMMA RrInsertOld ==
  ASSUME NEW lines, NEW k \in DOMAIN RrInsert(lines), k \notin {lines[i].key : i \in DOMAIN lines}
  PROVE  k \in DOMAIN rrKept /\ RrInsert(lines)[k] = rrKept[k]
BY DEF RrInsert

\* What a parser makes of entries that are told by a key.
LEMMA RrParsedEach ==
  ASSUME NEW a, rrTable \in RrEachTables,
         rrTable \in {"wb_report", "ozon_ads", "ozon_accruals"} => \A i \in DOMAIN a : a[i].day # 0,
         rrTable \in {"wb_report", "ozon_accruals"} => \A i \in DOMAIN a : a[i].doc # 0
  PROVE  /\ DOMAIN RrParsed(a) = DOMAIN a
         /\ \A i \in DOMAIN a : RrParsed(a)[i] = RrRow(RrKey(a[i]), a[i].amount)
<1> USE DEF RrParsed, RrKey, RrKeyIn, RrEach
<1>1. CASE rrTable = "wb_sales"
  BY <1>1 DEF RrSales
<1>2. CASE rrTable \in {"wb_orders", "ozon_items", "ym_orders"}
  BY <1>2 DEF RrOrders, RrItems, RrYmOrders, RrLines
<1>3. CASE rrTable \in {"wb_funnel", "ym_funnel"}
  BY <1>3 DEF RrWbFunnel, RrYmFunnel, RrByDay
<1>4. CASE rrTable = "wb_report"
  <2>1. RrNamed(a) = DOMAIN a
    BY <1>4 DEF RrNamed, RrDated
  <2> QED
    BY <1>4, <2>1 DEF RrReportLines
<1>5. CASE rrTable = "ozon_ads"
  <2>1. RrDated(a) = DOMAIN a
    BY <1>5 DEF RrDated
  <2> QED
    BY <1>5, <2>1 DEF RrAds
<1>6. CASE rrTable = "ozon_accruals"
  <2>1. RrNamed(a) = DOMAIN a
    BY <1>6 DEF RrNamed, RrDated
  <2> QED
    BY <1>6, <2>1 DEF RrAccruals
<1>7. CASE rrTable \in {"ozon_sku_ads", "ym_ads"}
  BY <1>7 DEF RrSkuAds, RrYmAds
<1>8. CASE rrTable = "ym_stocks"
  BY <1>8 DEF RrYmStocks
<1>9. CASE rrTable = "ym_offers"
  BY <1>9 DEF RrOffers
<1>10. CASE rrTable = "ym_finance"
  BY <1>10 DEF RrNetting
<1> QED
  BY <1>1, <1>2, <1>3, <1>4, <1>5, <1>6, <1>7, <1>8, <1>9, <1>10 DEF RrEachTables

\* What it makes of those of which the fees are unknown when there are several.
RrAlone(a, i) ==
  IF rrTable = "ym_stats" THEN \A j \in DOMAIN a \ {i} : a[j].doc # a[i].doc
  ELSE \A j \in DOMAIN a \ {i} : a[j].item # a[i].item

\* What a parser makes of fees that are unknown when there are several.
LEMMA RrParsedAlone ==
  ASSUME NEW a, rrTable \in RrAloneTables
  PROVE  /\ DOMAIN RrParsed(a) = DOMAIN a
         /\ \A i \in DOMAIN a :
              RrParsed(a)[i] = RrRow(RrKey(a[i]), IF RrAlone(a, i) THEN a[i].amount ELSE 0)
<1> USE DEF RrParsed, RrKey, RrKeyIn, RrAlone
<1>1. CASE rrTable = "ym_stats"
  BY <1>1 DEF RrYmStats
<1>2. CASE rrTable = "ym_quotes"
  BY <1>2 DEF RrQuotes
<1> QED
  BY <1>1, <1>2 DEF RrAloneTables

\* The entries are such as the marketplace has in the table.
RrKnown == \A n \in DOMAIN rrSource : rrSource[n] \in RrNew /\ rrSource[n].no = n
RrApart ==
  \A n, m \in DOMAIN rrSource : n # m => ~RrNever(rrSource[n], rrSource[m])

\* What did not happen shows in the entries.
RrTold ==
  /\ "unnamed" \notin rrHit => \A n \in DOMAIN rrSource : rrSource[n].doc # 0
  /\ "undated" \notin rrHit => \A n \in DOMAIN rrSource : rrSource[n].day # 0
  /\ "alike" \notin rrHit /\ "moved" \notin rrHit =>
       \A n, m \in DOMAIN rrSource : n # m => ~RrTwin(rrSource[n], rrSource[m])
  /\ "several" \notin rrHit =>
       \A n, m \in DOMAIN rrSource : n # m => rrSource[n].doc # rrSource[m].doc
  /\ "day" \notin RrFields[rrTable] => "moved" \notin rrHit

\* No row is of an entry that is gone.
RrKeySetOf(t, source) ==
  IF t = "ozon_balance" THEN RrSome ELSE {RrKeyIn(t, source[n]) : n \in DOMAIN source}
RrKeySet == RrKeySetOf(rrTable, rrSource)
RrLosing == IF rrTable \in RrAloneTables THEN {"withdrawn"} ELSE RrLoses[rrTable]
RrStored ==
  rrTable \notin RrSnapshots /\ rrHit \cap RrLosing = {} => DOMAIN rrKept \subseteq RrKeySet

RrInv ==
  /\ RrTypeOK /\ RrKnown /\ RrApart /\ RrTold /\ RrStored
  /\ RowsAddUp /\ NeverTakenTwice

\* What is known of an entry of the table.
LEMMA RrEntryHas ==
  ASSUME NEW e \in RrNew
  PROVE  /\ e \in RrEntry
         /\ e.doc \in 0..RrMost /\ e.item \in RrSome /\ e.place \in 0..RrMost /\ e.day \in 0..RrMost
         /\ e.amount \in RrAmounts /\ e.amount \in Nat /\ e.amount \in Int
         /\ "doc" \notin RrFields[rrTable] => e.doc = 1
         /\ "item" \notin RrFields[rrTable] => e.item = 1
         /\ "place" \notin RrFields[rrTable] => e.place = 0
         /\ "day" \notin RrFields[rrTable] => e.day = 1
         /\ rrTable \notin RrMayUndate => e.day # 0
         /\ rrTable # "ozon_stocks" => e.fbo = FALSE
<1> DEFINE may(field, omit) == IF field \notin RrFields[rrTable] THEN {1}
                               ELSE IF rrTable \in omit THEN 0..RrMost ELSE RrSome
<1>1. RrMost \in Nat /\ 1 \in RrSome /\ RrSome \subseteq 0..RrMost /\ RrAmounts \subseteq Nat
  BY RrAssumption DEF RrSome
<1>2. 0 \in 0..RrMost /\ 0 \notin RrSome
  BY <1>1 DEF RrSome
<1>3. \A field, omit : may(field, omit) \subseteq 0..RrMost
  BY <1>1
<1>4. may("item", {}) \subseteq RrSome
  BY <1>1
<1> DEFINE places == IF "place" \in RrFields[rrTable] THEN RrSome ELSE {0}
           kinds == IF rrTable = "ozon_stocks" THEN BOOLEAN ELSE {FALSE}
<1>5. e \in [no : RrNumbers, doc : may("doc", RrMayOmit), item : may("item", {}),
            place : places, day : may("day", RrMayUndate),
            amount : RrAmounts, fbo : kinds, from : {"listing"}]
  BY DEF RrNew
<1>6. /\ "doc" \notin RrFields[rrTable] => may("doc", RrMayOmit) = {1}
      /\ "item" \notin RrFields[rrTable] => may("item", {}) = {1}
      /\ "day" \notin RrFields[rrTable] => may("day", RrMayUndate) = {1}
      /\ rrTable \notin RrMayUndate => may("day", RrMayUndate) \subseteq RrSome
      /\ "place" \notin RrFields[rrTable] => places = {0}
      /\ rrTable # "ozon_stocks" => kinds = {FALSE}
      /\ places \subseteq 0..RrMost /\ kinds \subseteq BOOLEAN
  BY <1>1, <1>2
<1> HIDE DEF may, places, kinds
<1>7. /\ e = [no |-> e.no, doc |-> e.doc, item |-> e.item, place |-> e.place, day |-> e.day,
              amount |-> e.amount, fbo |-> e.fbo, from |-> e.from]
      /\ e.no \in RrNumbers /\ e.doc \in may("doc", RrMayOmit) /\ e.item \in may("item", {})
      /\ e.place \in places /\ e.day \in may("day", RrMayUndate) /\ e.amount \in RrAmounts
      /\ e.fbo \in kinds /\ e.from \in {"listing"}
  BY <1>5
<1>8. e.doc \in 0..RrMost /\ e.item \in RrSome /\ e.place \in 0..RrMost /\ e.day \in 0..RrMost
  BY <1>3, <1>4, <1>6, <1>7
<1>9. e \in RrEntry
  BY <1>6, <1>7, <1>8 DEF RrEntry
<1>10. e.amount \in RrAmounts /\ e.amount \in Nat /\ e.amount \in Int
  BY <1>1, <1>7
<1>11. rrTable \notin RrMayUndate => e.day # 0
  BY <1>2, <1>6, <1>7
<1>12. rrTable # "ozon_stocks" => e.fbo = FALSE
  BY <1>6, <1>7, Zenon
<1>13. /\ "doc" \notin RrFields[rrTable] => e.doc = 1
       /\ "item" \notin RrFields[rrTable] => e.item = 1
       /\ "place" \notin RrFields[rrTable] => e.place = 0
       /\ "day" \notin RrFields[rrTable] => e.day = 1
  BY <1>6, <1>7, Zenon
<1> QED
  BY <1>8, <1>9, <1>10, <1>11, <1>12, <1>13, Zenon

\* The source is finite, and has numbers.
LEMMA RrSourceFinite ==
  ASSUME RrTypeOK, RrKnown
  PROVE  /\ IsFiniteSet(DOMAIN rrSource) /\ DOMAIN rrSource \subseteq RrNumbers
         /\ \A n \in DOMAIN rrSource :
              /\ RrFigures(rrSource)[n] = rrSource[n].amount
              /\ RrFigures(rrSource)[n] \in Nat /\ RrFigures(rrSource)[n] \in Int
         /\ DOMAIN RrFigures(rrSource) = DOMAIN rrSource
<1>1. IsFiniteSet(RrNumbers)
  BY RrAssumption, FS_Interval DEF RrNumbers
<1> QED
  BY <1>1, FS_Subset, RrEntryHas DEF RrTypeOK, RrKnown, RrFigures

\* When nothing was lost that a table loses, no two entries have a key.
LEMMA RrKeysApart ==
  ASSUME RrKnown, RrApart, RrTold, rrHit \cap RrLoses[rrTable] = {},
         rrTable \in RrEachTables \cup RrAloneTables,
         NEW n \in DOMAIN rrSource, NEW m \in DOMAIN rrSource,
         RrKey(rrSource[n]) = RrKey(rrSource[m])
  PROVE  n = m
<1> DEFINE e == rrSource[n]
           f == rrSource[m]
           t == rrTable
<1>1. e \in RrNew /\ f \in RrNew /\ e.no = n /\ f.no = m
  BY DEF RrKnown
<1>2. /\ "doc" \notin RrFields[t] => e.doc = 1 /\ f.doc = 1
      /\ "item" \notin RrFields[t] => e.item = 1 /\ f.item = 1
      /\ "place" \notin RrFields[t] => e.place = 0 /\ f.place = 0
      /\ "day" \notin RrFields[t] => e.day = 1 /\ f.day = 1
      /\ t # "ozon_stocks" => e.fbo = f.fbo
  BY <1>1, RrEntryHas
<1>3. "alike" \in RrLoses[t] /\ ("moved" \in RrLoses[t] \/ "day" \notin RrFields[t]) /\ RrTwin(e, f)
        => n = m
  BY DEF RrTold
<1>4. RrKey(e) = RrKey(f)
  OBVIOUS
<1>5. CASE t = "wb_sales"
  <2>1. e.no = f.no
    BY <1>4, <1>5 DEF RrKey, RrKeyIn
  <2> QED
    BY <2>1, <1>1
<1>6. CASE t \in {"wb_orders", "ozon_items", "ym_orders"}
  <2>1. e.doc = f.doc /\ e.item = f.item
    BY <1>4, <1>6 DEF RrKey, RrKeyIn
  <2>2. "alike" \in RrLoses[t] /\ "day" \notin RrFields[t] /\ "place" \notin RrFields[t]
    BY <1>6 DEF RrLoses, RrFields
  <2> QED
    BY <2>1, <2>2, <1>2, <1>3 DEF RrTwin
<1>7. CASE t = "ym_stats"
  <2>1. e.doc = f.doc
    BY <1>4, <1>7 DEF RrKey, RrKeyIn
  <2>2. "several" \in RrLoses[t]
    BY <1>7 DEF RrLoses
  <2> QED
    BY <2>1, <2>2 DEF RrTold
<1>8. CASE t \in {"ym_offers", "ym_quotes"}
  <2>1. e.item = f.item
    BY <1>4, <1>8 DEF RrKey, RrKeyIn
  <2>2. /\ "alike" \in RrLoses[t] /\ "day" \notin RrFields[t] /\ "place" \notin RrFields[t]
        /\ "doc" \notin RrFields[t]
    BY <1>8 DEF RrLoses, RrFields
  <2> QED
    BY <2>1, <2>2, <1>2, <1>3 DEF RrTwin
<1>9. CASE t \in {"wb_funnel", "ym_funnel"}
  <2>1. e.day = f.day /\ e.item = f.item
    BY <1>4, <1>9 DEF RrKey, RrKeyIn
  <2>2. /\ "alike" \in RrLoses[t] /\ "moved" \in RrLoses[t] /\ "place" \notin RrFields[t]
        /\ "doc" \notin RrFields[t]
    BY <1>9 DEF RrLoses, RrFields
  <2> QED
    BY <2>1, <2>2, <1>2, <1>3 DEF RrTwin
<1>10. CASE t = "wb_report"
  <2>1. e.doc = f.doc
    BY <1>4, <1>10 DEF RrKey, RrKeyIn
  <2>2. "unnamed" \in RrLoses[t] /\ t \in RrOwnNumber
    BY <1>10 DEF RrLoses, RrOwnNumber
  <2>3. e.doc # 0
    BY <2>2 DEF RrTold
  <2> QED
    BY <2>1, <2>2, <2>3 DEF RrApart, RrNever
<1>11. CASE t \in {"ozon_ads", "ozon_accruals"}
  <2>1. e.day = f.day /\ e.doc = f.doc
    BY <1>4, <1>11 DEF RrKey, RrKeyIn
  <2>2. CASE t = "ozon_ads"
    <3>1. /\ "alike" \in RrLoses[t] /\ "moved" \in RrLoses[t] /\ "place" \notin RrFields[t]
          /\ "item" \notin RrFields[t]
      BY <2>2 DEF RrLoses, RrFields
    <3> QED
      BY <2>1, <3>1, <1>2, <1>3 DEF RrTwin
  <2>3. CASE t = "ozon_accruals"
    <3>1. "unnamed" \in RrLoses[t] /\ t \in RrOwnNumber
      BY <2>3 DEF RrLoses, RrOwnNumber
    <3>2. e.doc # 0
      BY <3>1 DEF RrTold
    <3> QED
      BY <2>1, <3>1, <3>2 DEF RrApart, RrNever
  <2> QED
    BY <2>2, <2>3, <1>11
<1>12. CASE t \in {"ozon_sku_ads", "ym_ads"}
  <2>1. e.day = f.day /\ e.doc = f.doc /\ e.item = f.item
    BY <1>4, <1>12 DEF RrKey, RrKeyIn
  <2>2. /\ "alike" \in RrLoses[t] /\ "moved" \in RrLoses[t] /\ "place" \notin RrFields[t]
    BY <1>12 DEF RrLoses, RrFields
  <2> QED
    BY <2>1, <2>2, <1>2, <1>3 DEF RrTwin
<1>13. CASE t = "ym_stocks"
  <2>1. e.item = f.item /\ e.place = f.place
    BY <1>4, <1>13 DEF RrKey, RrKeyIn
  <2>2. t \in RrSnapshots /\ "doc" \notin RrFields[t] /\ "day" \notin RrFields[t]
    BY <1>13 DEF RrSnapshots, RrFields
  <2>3. e.fbo = f.fbo
    BY <1>2, <1>13
  <2> QED
    BY <2>1, <2>2, <2>3, <1>2 DEF RrApart, RrNever, RrTwin
<1>14. CASE t = "ym_finance"
  <2>1. "unnamed" \in RrLoses[t] /\ t \in RrOwnNumber
    BY <1>14 DEF RrLoses, RrOwnNumber
  <2>2. e.doc # 0 /\ f.doc # 0
    BY <2>1 DEF RrTold
  <2>3. <<e.doc>> = <<f.doc>>
    BY <1>4, <1>14, <2>2 DEF RrKey, RrKeyIn
  <2>4. e.doc = f.doc
    BY <2>3
  <2> QED
    BY <2>1, <2>2, <2>4 DEF RrApart, RrNever
<1> HIDE DEF e, f
<1> QED
  BY <1>5, <1>6, <1>7, <1>8, <1>9, <1>10, <1>11, <1>12, <1>13, <1>14
  DEF RrEachTables, RrAloneTables

\* What an answer has of the source.
LEMMA RrAnswerIs ==
  ASSUME RrTypeOK, RrKnown, NEW a \in RrAnswers
  PROVE  /\ DOMAIN a \subseteq 0..(MaxRrEntries + 1) /\ DOMAIN rrSource \subseteq DOMAIN a
         /\ \A n \in DOMAIN rrSource : a[n] = rrSource[n]
         /\ \A i \in DOMAIN a : \E n \in DOMAIN rrSource : a[i] = rrSource[n]
         /\ RrAgain \notin DOMAIN a => a = rrSource
<1>1. DOMAIN rrSource \subseteq 1..MaxRrEntries /\ MaxRrEntries \in Nat
  BY RrAssumption DEF RrTypeOK, RrNumbers
<1>2. RrAgain \notin DOMAIN rrSource /\ RrAgain \in 0..(MaxRrEntries + 1)
  BY <1>1 DEF RrAgain
<1>3. CASE a = rrSource
  BY <1>1, <1>3
<1>4. ASSUME NEW m \in DOMAIN rrSource,
             a = [i \in DOMAIN rrSource \cup {RrAgain} |-> rrSource[IF i = RrAgain THEN m ELSE i]]
      PROVE  /\ DOMAIN a \subseteq 0..(MaxRrEntries + 1) /\ DOMAIN rrSource \subseteq DOMAIN a
             /\ \A n \in DOMAIN rrSource : a[n] = rrSource[n]
             /\ \A i \in DOMAIN a : \E n \in DOMAIN rrSource : a[i] = rrSource[n]
             /\ RrAgain \in DOMAIN a
  <2>1. DOMAIN a = DOMAIN rrSource \cup {RrAgain}
    BY <1>4
  <2>2. \A i \in DOMAIN a : a[i] = rrSource[IF i = RrAgain THEN m ELSE i]
    BY <1>4
  <2>3. DOMAIN rrSource \subseteq 0..(MaxRrEntries + 1)
    BY <1>1
  <2>4. \A n \in DOMAIN rrSource : a[n] = rrSource[n]
    BY <2>1, <2>2, <1>2
  <2>5. \A i \in DOMAIN a : \E n \in DOMAIN rrSource : a[i] = rrSource[n]
    BY <2>1, <2>2
  <2> QED
    BY <2>1, <2>3, <2>4, <2>5, <1>2
<1> QED
  BY <1>3, <1>4 DEF RrAnswers

\* The entries of the source by their key.
RrKeys == [n \in DOMAIN rrSource |-> RrKey(rrSource[n])]
RrOf(k) == SumOver(RrFigures(rrSource), SumFibre(DOMAIN rrSource, RrKeys, k))

\* Rows that have the figures of the entries of their key add up to what the source has.
LEMMA RrKeptSum ==
  ASSUME RrTypeOK, RrKnown, NEW kept, IsFiniteSet(DOMAIN kept),
         \A n \in DOMAIN rrSource : RrKey(rrSource[n]) \in DOMAIN kept,
         \A k \in DOMAIN kept : kept[k] \in Int
  PROVE  /\ (\A k \in DOMAIN kept : kept[k] = RrOf(k)) => RrSum(kept) = RrSum(RrFigures(rrSource))
         /\ (\A k \in DOMAIN kept : kept[k] <= RrOf(k)) => RrSum(kept) <= RrSum(RrFigures(rrSource))
<1> DEFINE S == DOMAIN rrSource
           f == RrFigures(rrSource)
           g == SumByKey(f, S, RrKeys, DOMAIN kept)
<1>1. IsFiniteSet(S) /\ DOMAIN f = S /\ \A n \in S : f[n] \in Int /\ RrKeys[n] \in DOMAIN kept
  BY RrSourceFinite DEF RrKeys
<1>2. SumOver(g, DOMAIN kept) = SumOver(f, S)
  BY <1>1, SumFibres
<1>3. \A k \in DOMAIN kept : g[k] = RrOf(k) /\ g[k] \in Int
  <2> TAKE k \in DOMAIN kept
  <2>1. g[k] = RrOf(k)
    BY DEF SumByKey, RrOf
  <2>2. IsFiniteSet(SumFibre(S, RrKeys, k)) /\ \A n \in SumFibre(S, RrKeys, k) : f[n] \in Int
    BY <1>1, FS_Subset DEF SumFibre
  <2>3. RrOf(k) \in Int
    BY <2>2, SumInt DEF RrOf
  <2> QED
    BY <2>1, <2>3
<1> HIDE DEF g
<1>4. ASSUME \A k \in DOMAIN kept : kept[k] = RrOf(k)
      PROVE  SumOver(kept, DOMAIN kept) = SumOver(g, DOMAIN kept)
  BY <1>3, <1>4, SumSame
<1>5. ASSUME \A k \in DOMAIN kept : kept[k] <= RrOf(k)
      PROVE  SumOver(kept, DOMAIN kept) <= SumOver(g, DOMAIN kept)
  BY <1>3, <1>5, SumAtMost
<1> QED
  BY <1>1, <1>2, <1>4, <1>5 DEF RrSum

\* A parser that adds up has a row for each key, with the figures of its entries.
LEMMA RrSummedRows ==
  ASSUME NEW a, NEW key, NEW M \in Nat, DOMAIN key \subseteq 0..M, DOMAIN key \subseteq DOMAIN a,
         \A i \in DOMAIN key : a[i].amount \in Nat
  PROVE  /\ DOMAIN RrSummed(a, key) \subseteq DOMAIN key
         /\ \A i \in DOMAIN RrSummed(a, key) :
              /\ RrSummed(a, key)[i].key = key[i]
              /\ RrSummed(a, key)[i].amount =
                   SumOver(RrFigures(a), SumFibre(DOMAIN key, key, key[i]))
              /\ RrSummed(a, key)[i].amount \in Nat
         /\ \A j \in DOMAIN key : \E i \in DOMAIN RrSummed(a, key) : key[i] = key[j]
<1> DEFINE F(i) == SumFibre(DOMAIN key, key, key[i])
           First == {i \in DOMAIN key : \A j \in F(i) : i <= j}
           s == RrSummed(a, key)
<1>1. s = [i \in First |-> RrRow(key[i], SumOver(RrFigures(a), F(i)))]
  BY DEF RrSummed, SumFibre
<1>2. \A i \in DOMAIN key : SumOver(RrFigures(a), F(i)) \in Nat
  <2> TAKE i \in DOMAIN key
  <2>1. IsFiniteSet(0..M) /\ F(i) \subseteq 0..M
    BY FS_Interval DEF SumFibre
  <2>2. IsFiniteSet(F(i))
    BY <2>1, FS_Subset
  <2>3. \A x \in F(i) : RrFigures(a)[x] \in Nat
    BY DEF SumFibre, RrFigures
  <2> HIDE DEF F
  <2> QED
    BY <2>2, <2>3, SumNat
<1>3. \A j \in DOMAIN key : \E i \in First : key[i] = key[j]
  <2> TAKE j \in DOMAIN key
  <2>1. F(j) \in SUBSET Nat /\ F(j) # {} /\ F(j) \subseteq DOMAIN key
    BY DEF SumFibre
  <2>2. PICK i \in F(j) : \A y \in F(j) : i <= y
    <3> HIDE DEF F
    <3> QED
      BY <2>1, LeastOf
  <2>3. key[i] = key[j] /\ i \in DOMAIN key
    BY DEF SumFibre
  <2>4. F(i) = F(j)
    BY <2>3
  <2> HIDE DEF F
  <2> QED
    BY <2>2, <2>3, <2>4
<1> HIDE DEF F, s
<1>4. DOMAIN s = First /\ \A i \in First : s[i] = RrRow(key[i], SumOver(RrFigures(a), F(i)))
  BY <1>1
<1>5. \A i \in First : i \in DOMAIN key
  OBVIOUS
<1> HIDE DEF First
<1>6. \A i \in First : s[i].key = key[i] /\ s[i].amount = SumOver(RrFigures(a), F(i))
  BY <1>4 DEF RrRow
<1>7. \A i \in First : s[i].amount \in Nat
  BY <1>2, <1>5, <1>6
<1> QED
  BY <1>3, <1>4, <1>5, <1>6, <1>7 DEF s, F

\* What the balance says was accrued on a day.
RrAccrued(d) == SumOver(RrFigures(rrSource), {n \in DOMAIN rrSource : rrSource[n].day = d})

\* The row of a day has all that was accrued, whatever the services explain.
LEMMA RrBalanceRows ==
  ASSUME RrTypeOK, RrKnown, NEW a, IsFiniteSet(DOMAIN a), \A i \in DOMAIN a : a[i].amount \in Nat
  PROVE  /\ DOMAIN RrBalance(a) = RrSome
         /\ \A d \in RrSome : /\ RrBalance(a)[d].key = d
                              /\ RrBalance(a)[d].amount = RrAccrued(d)
                              /\ RrAccrued(d) \in Nat
<1> DEFINE services(d) == SumOver(RrFigures(a), {i \in DOMAIN a : a[i].day = d})
<1>1. \A d : services(d) \in Nat
  <2> TAKE d
  <2> DEFINE T == {i \in DOMAIN a : a[i].day = d}
  <2>1. IsFiniteSet(T)
    BY FS_Subset
  <2>2. \A x \in T : RrFigures(a)[x] \in Nat
    BY DEF RrFigures
  <2> HIDE DEF T
  <2>3. SumOver(RrFigures(a), T) \in Nat
    BY <2>1, <2>2, SumNat
  <2> QED
    BY <2>3 DEF T
<1>2. \A d : RrAccrued(d) \in Nat
  <2> TAKE d
  <2> DEFINE T == {n \in DOMAIN rrSource : rrSource[n].day = d}
  <2>1. IsFiniteSet(T) /\ \A x \in T : RrFigures(rrSource)[x] \in Nat
    BY RrSourceFinite, FS_Subset
  <2> HIDE DEF T
  <2>2. SumOver(RrFigures(rrSource), T) \in Nat
    BY <2>1, SumNat
  <2> QED
    BY <2>2 DEF T, RrAccrued
<1>3. RrBalance(a) = [d \in RrSome |-> RrRow(d, services(d) + (RrAccrued(d) - services(d)))]
  BY DEF RrBalance, RrAccrued
<1> HIDE DEF services
<1>4. \A d : services(d) + (RrAccrued(d) - services(d)) = RrAccrued(d)
  BY <1>1, <1>2
<1> QED
  BY <1>2, <1>3, <1>4 DEF RrRow

\* Whatever the table, a row has a number at a position.
LEMMA RrRowsNat ==
  ASSUME RrTypeOK, RrKnown, NEW a, NEW M \in Nat, DOMAIN a \subseteq 0..M,
         \A i \in DOMAIN a : a[i].amount \in Nat
  PROVE  /\ DOMAIN RrParsed(a) \subseteq 0..(M + RrMost)
         /\ \A i \in DOMAIN RrParsed(a) : RrParsed(a)[i].amount \in Nat
<1>1. RrMost \in Nat /\ 0..M \subseteq 0..(M + RrMost) /\ RrSome \subseteq 0..(M + RrMost)
  BY RrAssumption DEF RrSome
<1>2. CASE rrTable \in RrEachTables
  <2>1. /\ DOMAIN RrParsed(a) \subseteq DOMAIN a
        /\ \A i \in DOMAIN RrParsed(a) : RrParsed(a)[i].amount = a[i].amount
    <3> USE DEF RrParsed, RrEach, RrRow
    <3>1. CASE rrTable \in {"wb_sales", "wb_orders", "ozon_items", "ym_orders"}
      BY <3>1 DEF RrSales, RrOrders, RrItems, RrYmOrders, RrLines
    <3>2. CASE rrTable \in {"wb_funnel", "ym_funnel"}
      BY <3>2 DEF RrWbFunnel, RrYmFunnel, RrByDay
    <3>3. CASE rrTable = "wb_report"
      BY <3>3 DEF RrReportLines, RrNamed, RrDated
    <3>4. CASE rrTable = "ozon_ads"
      BY <3>4 DEF RrAds, RrDated
    <3>5. CASE rrTable = "ozon_accruals"
      BY <3>5 DEF RrAccruals, RrNamed, RrDated
    <3>6. CASE rrTable \in {"ozon_sku_ads", "ym_ads"}
      BY <3>6 DEF RrSkuAds, RrYmAds
    <3>7. CASE rrTable \in {"ym_stocks", "ym_offers"}
      BY <3>7 DEF RrYmStocks, RrOffers
    <3>8. CASE rrTable = "ym_finance"
      BY <3>8 DEF RrNetting
    <3> QED
      BY <3>1, <3>2, <3>3, <3>4, <3>5, <3>6, <3>7, <3>8, <1>2 DEF RrEachTables
  <2> QED
    BY <2>1, <1>1
<1>3. CASE rrTable \in RrAloneTables
  <2>1. DOMAIN RrParsed(a) = DOMAIN a
    BY <1>3, RrParsedAlone
  <2>2. \A i \in DOMAIN a :
          RrParsed(a)[i] = RrRow(RrKey(a[i]), IF RrAlone(a, i) THEN a[i].amount ELSE 0)
    BY <1>3, RrParsedAlone
  <2>3. \A i \in DOMAIN a : RrParsed(a)[i].amount \in {a[i].amount, 0}
    <3> TAKE i \in DOMAIN a
    <3>1. PICK v : v \in {a[i].amount, 0} /\ RrParsed(a)[i] = RrRow(RrKey(a[i]), v)
      BY <2>2, Zenon
    <3>2. RrParsed(a)[i].amount = v
      BY <3>1 DEF RrRow
    <3> QED
      BY <3>1, <3>2
  <2> QED
    BY <2>1, <2>3, <1>1
<1>4. CASE rrTable = "wb_stocks"
  <2> DEFINE key == [i \in DOMAIN a |-> a[i].item]
  <2>1. RrParsed(a) = RrSummed(a, key)
    BY <1>4 DEF RrParsed, RrWbStocks
  <2>2. DOMAIN key = DOMAIN a
    OBVIOUS
  <2> HIDE DEF key
  <2>3. DOMAIN RrSummed(a, key) \subseteq DOMAIN key
    BY <2>2, RrSummedRows
  <2>4. \A i \in DOMAIN RrSummed(a, key) : RrSummed(a, key)[i].amount \in Nat
    BY <2>2, RrSummedRows
  <2> QED
    BY <2>1, <2>2, <2>3, <2>4, <1>1
<1>5. CASE rrTable = "ozon_stocks"
  <2> DEFINE analytics == {i \in DOMAIN a : a[i].from = "analytics"}
             counted == IF analytics = {} THEN DOMAIN a
                        ELSE analytics \cup {i \in DOMAIN a : ~a[i].fbo}
             key == [i \in counted |-> <<a[i].item, a[i].place>>]
  <2>1. RrParsed(a) = RrSummed(a, key)
    BY <1>5 DEF RrParsed, RrOzonStocks
  <2>2. DOMAIN key \subseteq DOMAIN a
    OBVIOUS
  <2> HIDE DEF key
  <2>3. DOMAIN key \subseteq 0..M /\ \A i \in DOMAIN key : a[i].amount \in Nat
    BY <2>2
  <2>4. DOMAIN RrSummed(a, key) \subseteq DOMAIN key
    BY <2>2, <2>3, RrSummedRows
  <2>5. \A i \in DOMAIN RrSummed(a, key) : RrSummed(a, key)[i].amount \in Nat
    BY <2>2, <2>3, RrSummedRows
  <2> QED
    BY <2>1, <2>2, <2>4, <2>5, <1>1
<1>6. CASE rrTable = "ozon_balance"
  <2>1. RrParsed(a) = RrBalance(a)
    BY <1>6 DEF RrParsed
  <2>2. IsFiniteSet(0..M)
    BY FS_Interval
  <2>3. IsFiniteSet(DOMAIN a)
    BY <2>2, FS_Subset
  <2>4. /\ DOMAIN RrBalance(a) = RrSome
        /\ \A d \in RrSome : /\ RrBalance(a)[d].amount = RrAccrued(d)
                             /\ RrAccrued(d) \in Nat
    BY <2>3, RrBalanceRows
  <2> QED
    BY <2>1, <2>4, <1>1
<1> QED
  BY <1>2, <1>3, <1>4, <1>5, <1>6, RrTableIs

\* So has every row the table keeps.
LEMMA RrKeptNat ==
  ASSUME RrTypeOK, RrKnown, NEW a, NEW M \in Nat, DOMAIN a \subseteq 0..M,
         \A i \in DOMAIN a : a[i].amount \in Nat,
         NEW k \in DOMAIN RrInsert(RrParsed(a))
  PROVE  RrInsert(RrParsed(a))[k] \in Nat
<1> DEFINE s == RrParsed(a)
<1>1. DOMAIN s \subseteq 0..(M + RrMost) /\ \A i \in DOMAIN s : s[i].amount \in Nat
  BY RrRowsNat
<1>2. M + RrMost \in Nat
  BY RrAssumption
<1> HIDE DEF s
<1>3. CASE k \in {s[i].key : i \in DOMAIN s}
  <2>1. PICK n \in DOMAIN s : s[n].key = k
    BY <1>3
  <2>2. \E i \in DOMAIN s : RrInsert(s)[s[n].key] = s[i].amount
    BY <1>1, <1>2, RrInsertRow
  <2> QED
    BY <1>1, <2>1, <2>2 DEF s
<1>4. CASE k \notin {s[i].key : i \in DOMAIN s}
  <2>1. k \in DOMAIN rrKept /\ RrInsert(s)[k] = rrKept[k]
    BY <1>4, RrInsertOld DEF s
  <2> QED
    BY <2>1 DEF RrTypeOK, s
<1> QED
  BY <1>3, <1>4

\* The amount is that of the row made of an entry of the key.
RrMadeOf(lines, a, k, amount) ==
  \E i \in DOMAIN a, n \in DOMAIN rrSource :
     a[i] = rrSource[n] /\ RrKey(rrSource[n]) = k /\ amount = lines[i].amount

\* Rows made of the entries of an answer, one for each: each row the table keeps is of an entry
\* there is.
LEMMA RrRowsOfEntries ==
  ASSUME RrTypeOK, RrKnown, RrStored, rrHit \cap RrLosing = {}, NEW a \in RrAnswers,
         rrTable \in RrEachTables \cup RrAloneTables, NEW lines, DOMAIN lines = DOMAIN a,
         \A i \in DOMAIN a : lines[i].key = RrKey(a[i])
  PROVE  /\ DOMAIN RrInsert(lines) = {RrKey(rrSource[n]) : n \in DOMAIN rrSource}
         /\ \A k \in DOMAIN RrInsert(lines) : RrMadeOf(lines, a, k, RrInsert(lines)[k])
<1> DEFINE K == {RrKey(rrSource[n]) : n \in DOMAIN rrSource}
<1>1. /\ DOMAIN a \subseteq 0..(MaxRrEntries + 1) /\ DOMAIN rrSource \subseteq DOMAIN a
      /\ \A n \in DOMAIN rrSource : a[n] = rrSource[n]
      /\ \A i \in DOMAIN a : \E n \in DOMAIN rrSource : a[i] = rrSource[n]
  BY RrAnswerIs
<1>2. rrTable # "ozon_balance"
  BY DEF RrEachTables, RrAloneTables
<1>3. rrTable \notin RrSnapshots => DOMAIN rrKept \subseteq K
  BY <1>2 DEF RrStored, RrKeySet, RrKeySetOf, RrKey
<1>4. {lines[i].key : i \in DOMAIN lines} = K
  <2>1. \A i \in DOMAIN lines : lines[i].key \in K
    BY <1>1
  <2>2. \A n \in DOMAIN rrSource : n \in DOMAIN lines /\ lines[n].key = RrKey(rrSource[n])
    BY <1>1
  <2> QED
    BY <2>1, <2>2
<1>5. DOMAIN RrInsert(lines) = K
  <2> HIDE DEF K
  <2> QED
    BY <1>3, <1>4, RrInsertKeys
<1>6. ASSUME NEW k \in DOMAIN RrInsert(lines)
      PROVE  RrMadeOf(lines, a, k, RrInsert(lines)[k])
  <2>1. PICK m \in DOMAIN lines : lines[m].key = k
    BY <1>4, <1>5
  <2>2. MaxRrEntries + 1 \in Nat
    BY RrAssumption
  <2>3. PICK i \in DOMAIN lines : /\ lines[i].key = lines[m].key
                                  /\ RrInsert(lines)[lines[m].key] = lines[i].amount
    BY <1>1, <2>2, RrInsertRow
  <2>4. PICK n \in DOMAIN rrSource : a[i] = rrSource[n]
    BY <1>1, <2>3
  <2>5. RrInsert(lines)[k] = lines[i].amount /\ i \in DOMAIN a
    BY <2>1, <2>3
  <2>6. RrKey(rrSource[n]) = k
    BY <2>1, <2>3, <2>4
  <2> QED
    BY <2>4, <2>5, <2>6 DEF RrMadeOf
<1> QED
  BY <1>5, <1>6

\* The figures of an entry are among those of its key.
LEMMA RrOfEntry ==
  ASSUME RrTypeOK, RrKnown, NEW n \in DOMAIN rrSource
  PROVE  /\ rrSource[n].amount <= RrOf(RrKey(rrSource[n]))
         /\ (\A m \in DOMAIN rrSource : RrKey(rrSource[m]) = RrKey(rrSource[n]) => m = n)
              => RrOf(RrKey(rrSource[n])) = rrSource[n].amount
<1> DEFINE F == SumFibre(DOMAIN rrSource, RrKeys, RrKey(rrSource[n]))
           f == RrFigures(rrSource)
<1>1. n \in F /\ F \subseteq DOMAIN rrSource
  BY DEF SumFibre, RrKeys
<1>2. IsFiniteSet(F) /\ (\A x \in F : f[x] \in Nat) /\ f[n] = rrSource[n].amount /\ f[n] \in Int
  BY <1>1, RrSourceFinite, FS_Subset
<1>3. ASSUME \A m \in DOMAIN rrSource : RrKey(rrSource[m]) = RrKey(rrSource[n]) => m = n
      PROVE  F = {n}
  BY <1>1, <1>3 DEF SumFibre, RrKeys
<1>4. RrOf(RrKey(rrSource[n])) = SumOver(f, F)
  BY DEF RrOf
<1> HIDE DEF F, f
<1>5. f[n] <= SumOver(f, F)
  BY <1>1, <1>2, SumAtLeast
<1>6. SumOver(f, {n}) = f[n]
  BY <1>2, SumOne
<1> QED
  BY <1>2, <1>3, <1>4, <1>5, <1>6

\* The keys of the source are finitely many.
LEMMA RrKeysFinite ==
  ASSUME RrTypeOK, RrKnown
  PROVE  IsFiniteSet({RrKey(rrSource[n]) : n \in DOMAIN rrSource})
<1>1. IsFiniteSet(SumImage(RrKeys, DOMAIN rrSource))
  BY RrSourceFinite, ImageFinite
<1>2. SumImage(RrKeys, DOMAIN rrSource) = {RrKey(rrSource[n]) : n \in DOMAIN rrSource}
  BY DEF SumImage, RrKeys
<1> QED
  BY <1>1, <1>2

\* With a row for each entry, and no two of a key, nothing is lost.
LEMMA RrEachAddsUp ==
  ASSUME RrTypeOK, RrKnown, RrApart, RrTold, RrStored, rrHit \cap RrLosing = {},
         rrHit \cap RrLoses[rrTable] = {}, NEW a \in RrAnswers,
         rrTable \in RrEachTables \cup RrAloneTables, NEW lines, DOMAIN lines = DOMAIN a,
         \A i \in DOMAIN a : lines[i].key = RrKey(a[i]) /\ lines[i].amount = a[i].amount
  PROVE  RrSum(RrInsert(lines)) = RrSum(RrFigures(rrSource))
<1> DEFINE kept == RrInsert(lines)
<1>0. \A i \in DOMAIN a : lines[i].key = RrKey(a[i])
  OBVIOUS
<1>1. DOMAIN kept = {RrKey(rrSource[n]) : n \in DOMAIN rrSource}
  BY <1>0, RrRowsOfEntries
<1>2. \A k \in DOMAIN kept : RrMadeOf(lines, a, k, kept[k])
  BY <1>0, RrRowsOfEntries
<1> HIDE DEF kept
<1>3. \A k \in DOMAIN kept : kept[k] = RrOf(k) /\ kept[k] \in Int
  <2> TAKE k \in DOMAIN kept
  <2>1. PICK i \in DOMAIN a, n \in DOMAIN rrSource :
          a[i] = rrSource[n] /\ RrKey(rrSource[n]) = k /\ kept[k] = lines[i].amount
    BY <1>2 DEF RrMadeOf
  <2>2. kept[k] = rrSource[n].amount
    BY <2>1
  <2>3. \A m \in DOMAIN rrSource : RrKey(rrSource[m]) = RrKey(rrSource[n]) => m = n
    BY RrKeysApart
  <2>4. RrOf(k) = rrSource[n].amount
    BY <2>1, <2>3, RrOfEntry
  <2>5. rrSource[n].amount \in Int
    BY RrSourceFinite
  <2> QED
    BY <2>2, <2>4, <2>5
<1>4. IsFiniteSet(DOMAIN kept)
  BY <1>1, RrKeysFinite
<1>5. \A n \in DOMAIN rrSource : RrKey(rrSource[n]) \in DOMAIN kept
  BY <1>1
<1>6. RrSum(kept) = RrSum(RrFigures(rrSource))
  BY <1>3, <1>4, <1>5, RrKeptSum
<1> QED
  BY <1>6 DEF kept

\* With figures left out, nothing is taken twice.
LEMMA RrEachAtMost ==
  ASSUME RrTypeOK, RrKnown, RrStored, rrHit \cap RrLosing = {}, NEW a \in RrAnswers,
         rrTable \in RrEachTables \cup RrAloneTables, NEW lines, DOMAIN lines = DOMAIN a,
         \A i \in DOMAIN a : lines[i].key = RrKey(a[i]) /\ lines[i].amount \in {a[i].amount, 0}
  PROVE  RrSum(RrInsert(lines)) <= RrSum(RrFigures(rrSource))
<1> DEFINE kept == RrInsert(lines)
<1>0. \A i \in DOMAIN a : lines[i].key = RrKey(a[i])
  OBVIOUS
<1>1. DOMAIN kept = {RrKey(rrSource[n]) : n \in DOMAIN rrSource}
  BY <1>0, RrRowsOfEntries
<1>2. \A k \in DOMAIN kept : RrMadeOf(lines, a, k, kept[k])
  BY <1>0, RrRowsOfEntries
<1> HIDE DEF kept
<1>3. \A k \in DOMAIN kept : kept[k] <= RrOf(k) /\ kept[k] \in Int
  <2> TAKE k \in DOMAIN kept
  <2>1. PICK i \in DOMAIN a, n \in DOMAIN rrSource :
          a[i] = rrSource[n] /\ RrKey(rrSource[n]) = k /\ kept[k] = lines[i].amount
    BY <1>2 DEF RrMadeOf
  <2>2. kept[k] \in {rrSource[n].amount, 0}
    BY <2>1
  <2>3. rrSource[n].amount \in Nat
    BY RrSourceFinite
  <2>4. rrSource[n].amount <= RrOf(k)
    BY <2>1, RrOfEntry
  <2>5. RrOf(k) \in Int
    <3> DEFINE F == SumFibre(DOMAIN rrSource, RrKeys, k)
    <3>1. IsFiniteSet(F) /\ \A x \in F : RrFigures(rrSource)[x] \in Int
      BY RrSourceFinite, FS_Subset DEF SumFibre
    <3> HIDE DEF F
    <3>2. SumOver(RrFigures(rrSource), F) \in Int
      BY <3>1, SumInt
    <3> QED
      BY <3>2 DEF F, RrOf
  <2> QED
    BY <2>2, <2>3, <2>4, <2>5
<1>4. IsFiniteSet(DOMAIN kept)
  BY <1>1, RrKeysFinite
<1>5. \A n \in DOMAIN rrSource : RrKey(rrSource[n]) \in DOMAIN kept
  BY <1>1
<1>6. RrSum(kept) <= RrSum(RrFigures(rrSource))
  BY <1>3, <1>4, <1>5, RrKeptSum
<1> QED
  BY <1>6 DEF kept

\* A snapshot whose rows add up has what the entries counted have together.
LEMMA RrSnapshotAddsUp ==
  ASSUME rrTable \in RrSnapshots, NEW a, NEW key, NEW M \in Nat, DOMAIN key \subseteq 0..M,
         DOMAIN key \subseteq DOMAIN a, \A i \in DOMAIN key : a[i].amount \in Nat
  PROVE  RrSum(RrInsert(RrSummed(a, key))) = SumOver(RrFigures(a), DOMAIN key)
<1> DEFINE D == DOMAIN key
           f == RrFigures(a)
           lines == RrSummed(a, key)
           kept == RrInsert(lines)
           K == SumImage(key, D)
<1>1. DOMAIN lines \subseteq D
  BY RrSummedRows
<1>2. \A i \in DOMAIN lines : /\ lines[i].key = key[i]
                              /\ lines[i].amount = SumOver(f, SumFibre(D, key, key[i]))
  BY RrSummedRows
<1>3. \A j \in D : \E i \in DOMAIN lines : key[i] = key[j]
  BY RrSummedRows
<1>4. \A x \in D : f[x] \in Nat /\ f[x] \in Int
  BY DEF RrFigures
<1>5. IsFiniteSet(D)
  <2>1. IsFiniteSet(0..M)
    BY FS_Interval
  <2> QED
    BY <2>1, FS_Subset
<1>6. IsFiniteSet(K) /\ \A x \in D : key[x] \in K
  BY <1>5, ImageFinite DEF SumImage
<1> HIDE DEF lines
<1>7. DOMAIN kept = K
  <2>1. DOMAIN kept = {lines[i].key : i \in DOMAIN lines}
    BY RrInsertKeys
  <2> HIDE DEF kept
  <2> QED
    BY <2>1, <1>1, <1>2, <1>3 DEF SumImage
<1>8. \A k \in K : kept[k] = SumByKey(f, D, key, K)[k]
  <2> TAKE k \in K
  <2>1. PICK n \in DOMAIN lines : lines[n].key = k
    BY <1>2, <1>3 DEF SumImage
  <2>2. DOMAIN lines \subseteq 0..M
    BY <1>1
  <2>3. PICK i \in DOMAIN lines : /\ lines[i].key = lines[n].key
                                  /\ kept[lines[n].key] = lines[i].amount
    BY <2>2, RrInsertRow
  <2>4. key[i] = k
    BY <2>1, <2>3, <1>2
  <2>5. lines[i].amount = SumOver(f, SumFibre(D, key, k))
    BY <2>4, <1>2
  <2> QED
    BY <2>1, <2>3, <2>5 DEF SumByKey
<1> HIDE DEF kept, K, f
<1>9. SumOver(kept, K) = SumOver(SumByKey(f, D, key, K), K)
  BY <1>6, <1>8, SumSame
<1>10. SumOver(SumByKey(f, D, key, K), K) = SumOver(f, D)
  BY <1>4, <1>5, <1>6, SumFibres
<1> QED
  BY <1>7, <1>9, <1>10 DEF RrSum, kept, f, lines

\* The stock of a size is that of its warehouses.
LEMMA RrWbStocksAddUp ==
  ASSUME RrTypeOK, RrKnown, rrTable = "wb_stocks"
  PROVE  RrSum(RrInsert(RrWbStocks(rrSource))) = RrSum(RrFigures(rrSource))
<1> DEFINE key == [i \in DOMAIN rrSource |-> rrSource[i].item]
<1>1. MaxRrEntries \in Nat /\ DOMAIN rrSource \subseteq 0..MaxRrEntries
  BY RrAssumption DEF RrTypeOK, RrNumbers
<1>2. DOMAIN key = DOMAIN rrSource /\ \A i \in DOMAIN key : rrSource[i].amount \in Nat
  BY RrSourceFinite
<1>3. RrWbStocks(rrSource) = RrSummed(rrSource, key) /\ rrTable \in RrSnapshots
  BY DEF RrWbStocks, RrSnapshots
<1>4. DOMAIN RrFigures(rrSource) = DOMAIN rrSource
  BY DEF RrFigures
<1> HIDE DEF key
<1>5. RrSum(RrInsert(RrSummed(rrSource, key))) = SumOver(RrFigures(rrSource), DOMAIN key)
  BY <1>1, <1>2, <1>3, RrSnapshotAddsUp
<1> QED
  BY <1>2, <1>3, <1>4, <1>5 DEF RrSum

\* The entries of which the analytics have a row.
RrStockedIn(T) == {n \in DOMAIN rrSource : rrSource[n].fbo /\ rrSource[n].item \in T}

\* What a listing of products and the analytics have of the stock.
LEMMA RrStocksAnswerIs ==
  ASSUME RrTypeOK, RrKnown, NEW a \in RrStocksAnswers
  PROVE  \E T \in SUBSET RrSome :
           /\ DOMAIN a = DOMAIN rrSource \cup {MaxRrEntries + n : n \in RrStockedIn(T)}
           /\ \A i \in DOMAIN rrSource :
                /\ i \in 1..MaxRrEntries /\ a[i].amount = rrSource[i].amount
                /\ a[i].item = rrSource[i].item /\ a[i].fbo = rrSource[i].fbo
                /\ a[i].from = "listing"
           /\ \A n \in RrStockedIn(T) :
                /\ a[MaxRrEntries + n].amount = rrSource[n].amount
                /\ a[MaxRrEntries + n].item = rrSource[n].item
                /\ a[MaxRrEntries + n].fbo = rrSource[n].fbo
                /\ a[MaxRrEntries + n].from = "analytics"
                /\ MaxRrEntries + n \in 0..(2 * MaxRrEntries)
                /\ MaxRrEntries + n \notin DOMAIN rrSource
<1>1. PICK T \in SUBSET RrSome :
        a = [i \in DOMAIN rrSource \cup RrAnalytics(T) |->
               IF i \in DOMAIN rrSource THEN RrListed(i)
               ELSE [rrSource[i - MaxRrEntries] EXCEPT !.from = "analytics"]]
  BY DEF RrStocksAnswers
<1>2. RrAnalytics(T) = {MaxRrEntries + n : n \in RrStockedIn(T)}
  BY DEF RrAnalytics, RrStockedIn
<1>3. MaxRrEntries \in Nat /\ \A i \in DOMAIN rrSource : i \in 1..MaxRrEntries
  BY RrAssumption DEF RrTypeOK, RrNumbers
<1>4. \A i \in DOMAIN rrSource : rrSource[i] \in RrEntry
  BY RrEntryHas DEF RrKnown
<1>5. DOMAIN a = DOMAIN rrSource \cup {MaxRrEntries + n : n \in RrStockedIn(T)}
  BY <1>1, <1>2
<1>6. ASSUME NEW i \in DOMAIN rrSource
      PROVE  /\ a[i].amount = rrSource[i].amount /\ a[i].item = rrSource[i].item
             /\ a[i].fbo = rrSource[i].fbo /\ a[i].from = "listing"
  <2>1. a[i] = RrListed(i)
    BY <1>1
  <2>2. PICK v : a[i] = [rrSource[i] EXCEPT !.place = v]
    BY <2>1 DEF RrListed
  <2> QED
    BY <2>2, <1>4 DEF RrEntry
<1>7. ASSUME NEW n \in RrStockedIn(T)
      PROVE  /\ a[MaxRrEntries + n].amount = rrSource[n].amount
             /\ a[MaxRrEntries + n].item = rrSource[n].item
             /\ a[MaxRrEntries + n].fbo = rrSource[n].fbo
             /\ a[MaxRrEntries + n].from = "analytics"
             /\ MaxRrEntries + n \in 0..(2 * MaxRrEntries)
             /\ MaxRrEntries + n \notin DOMAIN rrSource
  <2> DEFINE i == MaxRrEntries + n
  <2>1. n \in DOMAIN rrSource /\ n \in 1..MaxRrEntries
    BY <1>3 DEF RrStockedIn
  <2>2. i \in 0..(2 * MaxRrEntries) /\ i \notin 1..MaxRrEntries /\ i - MaxRrEntries = n
    BY <2>1, <1>3
  <2>3. i \notin DOMAIN rrSource /\ i \in DOMAIN a
    BY <2>2, <1>3, <1>5
  <2> HIDE DEF i
  <2>4. a[i] = [rrSource[n] EXCEPT !.from = "analytics"]
    BY <2>2, <2>3, <1>1
  <2>5. /\ a[i].amount = rrSource[n].amount /\ a[i].item = rrSource[n].item
        /\ a[i].fbo = rrSource[n].fbo /\ a[i].from = "analytics"
    BY <2>1, <2>4, <1>4 DEF RrEntry
  <2> QED
    BY <2>2, <2>3, <2>5 DEF i
<1> QED
  BY <1>3, <1>5, <1>6, <1>7

\* FBO stock counts once, in the analytics when they have all of it, in the products when not.
LEMMA RrStocksAddUp ==
  ASSUME RrTypeOK, RrKnown, rrTable = "ozon_stocks", NEW a \in RrStocksAnswers, ~RrPartial(a)
  PROVE  RrSum(RrInsert(RrOzonStocks(a))) = RrSum(RrFigures(rrSource))
<1> DEFINE S == DOMAIN rrSource
           f == RrFigures(a)
           g == RrFigures(rrSource)
           at(n) == MaxRrEntries + n
           analytics == {i \in DOMAIN a : a[i].from = "analytics"}
           counted == IF analytics = {} THEN DOMAIN a
                      ELSE analytics \cup {i \in DOMAIN a : ~a[i].fbo}
           key == [i \in counted |-> <<a[i].item, a[i].place>>]
<1>1. PICK T \in SUBSET RrSome :
           /\ DOMAIN a = S \cup {at(n) : n \in RrStockedIn(T)}
           /\ \A i \in S :
                /\ i \in 1..MaxRrEntries /\ a[i].amount = rrSource[i].amount
                /\ a[i].item = rrSource[i].item /\ a[i].fbo = rrSource[i].fbo
                /\ a[i].from = "listing"
           /\ \A n \in RrStockedIn(T) :
                /\ a[at(n)].amount = rrSource[n].amount
                /\ a[at(n)].item = rrSource[n].item
                /\ a[at(n)].fbo = rrSource[n].fbo
                /\ a[at(n)].from = "analytics"
                /\ at(n) \in 0..(2 * MaxRrEntries)
                /\ at(n) \notin S
  BY RrStocksAnswerIs
<1>2. MaxRrEntries \in Nat /\ 2 * MaxRrEntries \in Nat
  BY RrAssumption
<1>3. \A n \in S : g[n] = rrSource[n].amount /\ g[n] \in Nat /\ g[n] \in Int
  BY RrSourceFinite
<1>4. IsFiniteSet(S) /\ DOMAIN g = S
  BY RrSourceFinite
<1>5. \A n \in RrStockedIn(T) : n \in S /\ rrSource[n].fbo /\ at(n) \in DOMAIN a
  BY <1>1 DEF RrStockedIn
<1>6. analytics = {at(n) : n \in RrStockedIn(T)}
  <2>1. "listing" # "analytics"
    OBVIOUS
  <2> QED
    BY <2>1, <1>1
<1>7. \A i \in DOMAIN a : i \in 0..(2 * MaxRrEntries) /\ a[i].amount \in Nat /\ f[i] = a[i].amount
  <2> TAKE i \in DOMAIN a
  <2>1. CASE i \in S
    BY <2>1, <1>1, <1>2, <1>3 DEF RrFigures
  <2>2. CASE i \notin S
    <3>1. PICK n \in RrStockedIn(T) : i = at(n)
      BY <2>2, <1>1
    <3>2. a[i].amount = rrSource[n].amount /\ i \in 0..(2 * MaxRrEntries)
      BY <3>1, <1>1
    <3> QED
      BY <3>2, <1>3, <1>5 DEF RrFigures
  <2> QED
    BY <2>1, <2>2
<1>8. DOMAIN key = counted /\ counted \subseteq DOMAIN a
  OBVIOUS
<1>9. RrOzonStocks(a) = RrSummed(a, key)
  BY DEF RrOzonStocks
<1> HIDE DEF key
<1>10. RrSum(RrInsert(RrOzonStocks(a))) = SumOver(f, counted)
  <2>1. DOMAIN key \subseteq 0..(2 * MaxRrEntries) /\ DOMAIN key \subseteq DOMAIN a
    BY <1>7, <1>8
  <2>2. \A i \in DOMAIN key : a[i].amount \in Nat
    BY <2>1, <1>7
  <2>3. rrTable \in RrSnapshots
    BY DEF RrSnapshots
  <2>4. RrSum(RrInsert(RrSummed(a, key))) = SumOver(RrFigures(a), DOMAIN key)
    BY <2>1, <2>2, <2>3, <1>2, RrSnapshotAddsUp
  <2> QED
    BY <2>4, <1>8, <1>9
<1>11. CASE analytics = {}
  <2>1. counted = S
    BY <1>1, <1>6, <1>11
  <2>2. \A n \in S : f[n] = g[n]
    BY <1>1, <1>3, <1>7
  <2> HIDE DEF f, g, counted
  <2>3. SumOver(f, S) = SumOver(g, S)
    BY <2>2, <1>4, SumSame
  <2> QED
    BY <2>1, <2>3, <1>4, <1>10 DEF RrSum, f, g
<1>12. CASE analytics # {}
  <2>1. \A n \in S : rrSource[n].fbo => n \in RrStockedIn(T)
    <3> DEFINE has(from) == {a[i].item : i \in {j \in DOMAIN a : a[j].fbo /\ a[j].from = from}}
    <3>1. PICK m \in RrStockedIn(T) : at(m) \in DOMAIN a /\ a[at(m)].fbo
      BY <1>1, <1>5, <1>6, <1>12
    <3>2. has("analytics") # {}
      BY <3>1, <1>1
    <3>3. has("listing") = has("analytics")
      BY <3>2 DEF RrPartial
    <3> TAKE n \in S
    <3> HAVE rrSource[n].fbo
    <3>4. n \in DOMAIN a /\ a[n].fbo /\ a[n].from = "listing" /\ a[n].item = rrSource[n].item
      BY <1>1
    <3>5. rrSource[n].item \in has("listing")
      BY <3>4
    <3>6. PICK i \in DOMAIN a : a[i].from = "analytics" /\ a[i].item = rrSource[n].item
      BY <3>3, <3>5
    <3>7. PICK k \in RrStockedIn(T) : i = at(k)
      BY <3>6, <1>6
    <3>8. rrSource[k].item = rrSource[n].item /\ rrSource[k].item \in T
      BY <3>6, <3>7, <1>1 DEF RrStockedIn
    <3> QED
      BY <3>8 DEF RrStockedIn
  <2>2. counted = {at(n) : n \in RrStockedIn(T)} \cup {n \in S : ~rrSource[n].fbo}
    <3>1. \A i \in DOMAIN a : ~a[i].fbo <=> i \in S /\ ~rrSource[i].fbo
      BY <1>1, <1>5
    <3>2. counted = analytics \cup {i \in DOMAIN a : ~a[i].fbo}
      BY <1>12
    <3>3. S \subseteq DOMAIN a
      BY <1>1
    <3> HIDE DEF counted, analytics
    <3> QED
      BY <3>1, <3>2, <3>3, <1>6
  <2> DEFINE own == [i \in counted |-> IF i \in S THEN i ELSE i - MaxRrEntries]
  <2>3. \A n \in RrStockedIn(T) : at(n) \in counted /\ at(n) \notin S /\ own[at(n)] = n
    <3> TAKE n \in RrStockedIn(T)
    <3>1. at(n) \in counted /\ at(n) \notin S /\ n \in 1..MaxRrEntries
      BY <2>2, <1>1, <1>5
    <3>2. at(n) - MaxRrEntries = n
      BY <3>1, <1>2
    <3> QED
      BY <3>1, <3>2
  <2>4. \A n \in S : ~rrSource[n].fbo => n \in counted /\ own[n] = n
    BY <2>2
  <2>5. \A i \in counted : /\ own[i] \in S /\ f[i] \in Int /\ f[i] = g[own[i]]
                           /\ i = IF rrSource[own[i]].fbo THEN at(own[i]) ELSE own[i]
    <3> TAKE i \in counted
    <3> HIDE DEF own, at
    <3>1. ASSUME NEW n \in RrStockedIn(T), i = at(n)
          PROVE  /\ own[i] \in S /\ f[i] \in Int /\ f[i] = g[own[i]]
                 /\ i = IF rrSource[own[i]].fbo THEN at(own[i]) ELSE own[i]
      BY <3>1, <2>3, <1>1, <1>3, <1>5, <1>7
    <3>2. ASSUME i \in S, ~rrSource[i].fbo
          PROVE  /\ own[i] \in S /\ f[i] \in Int /\ f[i] = g[own[i]]
                 /\ i = IF rrSource[own[i]].fbo THEN at(own[i]) ELSE own[i]
      BY <3>2, <2>4, <1>1, <1>3, <1>7
    <3> QED
      BY <3>1, <3>2, <2>2
  <2>6. \A n \in S : SumFibre(counted, own, n) = {IF rrSource[n].fbo THEN at(n) ELSE n}
    <3> TAKE n \in S
    <3>1. \A i \in SumFibre(counted, own, n) : i = IF rrSource[n].fbo THEN at(n) ELSE n
      BY <2>5 DEF SumFibre
    <3>2. (IF rrSource[n].fbo THEN at(n) ELSE n) \in SumFibre(counted, own, n)
      BY <2>1, <2>3, <2>4 DEF SumFibre
    <3> HIDE DEF own, at, counted
    <3> QED
      BY <3>1, <3>2
  <2>7. IsFiniteSet(counted)
    <3>1. IsFiniteSet(0..(2 * MaxRrEntries)) /\ counted \subseteq 0..(2 * MaxRrEntries)
      BY <1>2, <1>7, FS_Interval
    <3> HIDE DEF counted
    <3> QED
      BY <3>1, FS_Subset
  <2> DEFINE h == SumByKey(f, counted, own, S)
  <2>8. \A n \in S : h[n] = g[n]
    <3> TAKE n \in S
    <3> DEFINE i == IF rrSource[n].fbo THEN at(n) ELSE n
    <3>1. SumFibre(counted, own, n) = {i}
      BY <2>6
    <3>2. i \in counted /\ own[i] = n
      BY <2>1, <2>3, <2>4
    <3> HIDE DEF i, own, counted, f, g
    <3>3. f[i] \in Int /\ f[i] = g[n]
      BY <3>2, <2>5
    <3>4. SumOver(f, {i}) = f[i]
      BY <3>3, SumOne
    <3> QED
      BY <3>1, <3>3, <3>4 DEF SumByKey
  <2> HIDE DEF f, g, counted, own
  <2>9. SumOver(h, S) = SumOver(f, counted)
    BY <2>5, <2>7, <1>4, SumFibres
  <2> HIDE DEF h
  <2>10. SumOver(h, S) = SumOver(g, S)
    BY <2>8, <1>4, SumSame
  <2> QED
    BY <2>9, <2>10, <1>4, <1>10 DEF RrSum, f, g
<1> QED
  BY <1>11, <1>12

\* The rows of the balance are all that was accrued, whatever the services explain.
LEMMA RrBalanceAddsUp ==
  ASSUME RrTypeOK, RrKnown, RrStored, rrTable = "ozon_balance",
         NEW a, IsFiniteSet(DOMAIN a), \A i \in DOMAIN a : a[i].amount \in Nat
  PROVE  /\ RrSum(RrInsert(RrBalance(a))) = RrSum(RrFigures(rrSource))
         /\ DOMAIN RrInsert(RrBalance(a)) = RrSome
<1> DEFINE lines == RrBalance(a)
           kept == RrInsert(lines)
<1>1. /\ DOMAIN lines = RrSome
      /\ \A d \in RrSome : /\ lines[d].key = d /\ lines[d].amount = RrAccrued(d)
                           /\ RrAccrued(d) \in Nat
  BY RrBalanceRows
<1>2. RrMost \in Nat /\ RrSome \subseteq 0..RrMost /\ IsFiniteSet(RrSome)
  BY RrAssumption, FS_Interval DEF RrSome
<1>3. DOMAIN rrKept \subseteq RrSome
  <2>1. RrLosing = {} /\ rrTable \notin RrSnapshots
    BY DEF RrLosing, RrLoses, RrAloneTables, RrSnapshots
  <2> QED
    BY <2>1 DEF RrStored, RrKeySet, RrKeySetOf, RrKey
<1> HIDE DEF lines
<1>4. {lines[i].key : i \in DOMAIN lines} = RrSome
  BY <1>1
<1>5. DOMAIN kept = RrSome
  BY <1>3, <1>4, RrInsertKeys
<1>6. \A d \in RrSome : kept[d] = RrAccrued(d)
  <2> TAKE d \in RrSome
  <2>1. PICK i \in DOMAIN lines : /\ lines[i].key = lines[d].key
                                  /\ kept[lines[d].key] = lines[i].amount
    BY <1>1, <1>2, RrInsertRow
  <2> QED
    BY <1>1, <2>1
<1>7. \A d \in RrSome : RrAccrued(d) = RrOf(d)
  <2>1. \A n \in DOMAIN rrSource : RrKeys[n] = rrSource[n].day
    BY DEF RrKeys, RrKey, RrKeyIn
  <2>2. \A d : SumFibre(DOMAIN rrSource, RrKeys, d) = {n \in DOMAIN rrSource : rrSource[n].day = d}
    BY <2>1 DEF SumFibre
  <2> QED
    BY <2>2 DEF RrAccrued, RrOf
<1>8. \A n \in DOMAIN rrSource : RrKey(rrSource[n]) \in RrSome
  <2> TAKE n \in DOMAIN rrSource
  <2>1. rrSource[n].day \in 0..RrMost /\ rrSource[n].day # 0
    BY RrEntryHas DEF RrKnown, RrMayUndate
  <2>2. RrKey(rrSource[n]) = rrSource[n].day
    BY DEF RrKey, RrKeyIn
  <2> QED
    BY <2>1, <2>2, <1>2 DEF RrSome
<1> HIDE DEF kept
<1>9. \A d \in DOMAIN kept : kept[d] = RrOf(d) /\ kept[d] \in Int
  BY <1>1, <1>5, <1>6, <1>7
<1>10. IsFiniteSet(DOMAIN kept) /\ \A n \in DOMAIN rrSource : RrKey(rrSource[n]) \in DOMAIN kept
  BY <1>2, <1>5, <1>8
<1>11. RrSum(kept) = RrSum(RrFigures(rrSource))
  BY <1>9, <1>10, RrKeptSum
<1> QED
  BY <1>5, <1>11 DEF kept, lines

\* Before anything is asked for there is nothing.
LEMMA RrInitInv == RrInit => RrInv
<1> SUFFICES ASSUME RrInit PROVE RrInv
  OBVIOUS
<1> USE DEF RrInit
<1>1. DOMAIN rrSource = {} /\ DOMAIN rrKept = {} /\ rrHit = {}
  BY DEF RrNone
<1>2. RrTypeOK
  BY <1>1, RrAssumption DEF RrTypeOK
<1>3. RrKnown /\ RrApart /\ RrTold /\ RrStored
  BY <1>1 DEF RrKnown, RrApart, RrTold, RrStored
<1>4. RrSum(rrKept) = 0 /\ RrSum(RrFigures(rrSource)) = 0
  <2>1. DOMAIN RrFigures(rrSource) = {}
    BY <1>1 DEF RrFigures
  <2> QED
    BY <2>1, <1>1, SumEmpty DEF RrSum
<1>5. RowsAddUp /\ NeverTakenTwice
  BY <1>4 DEF RowsAddUp, NeverTakenTwice
<1> QED
  BY <1>2, <1>3, <1>5 DEF RrInv

\* The table stays, and with it what its entries are like and how they are told.
LEMMA RrTableStays ==
  ASSUME rrTable' = rrTable
  PROVE  RrNew' = RrNew /\ RrLosing' = RrLosing
BY DEF RrNew, RrLosing

\* What a marketplace never has stays.
LEMMA RrNeverStays ==
  ASSUME rrTable' = rrTable, NEW e, NEW f
  PROVE  RrNever(e, f)' <=> RrNever(e, f)
BY DEF RrNever

\* What remains to be shown of a step that changes the source.
LEMMA RrChangedKeeps ==
  ASSUME RrInv, NEW source, NEW hits, RrChanged(source, hits),
         rrEvents' \in 0..MaxRrEvents, DOMAIN source \subseteq RrNumbers,
         hits \subseteq {"unnamed", "undated", "alike", "amended", "moved", "withdrawn", "several"},
         \A n \in DOMAIN source : source[n] \in RrNew /\ source[n].no = n,
         \A n, m \in DOMAIN source : n # m => ~RrNever(source[n], source[m]),
         RrTold',
         rrTable \notin RrSnapshots /\ (rrHit \cup hits) \cap RrLosing = {}
           => RrKeySet \subseteq RrKeySetOf(rrTable, source)
  PROVE  RrInv'
<1>1. rrTable' = rrTable /\ rrKept' = rrKept /\ rrSource' = source /\ rrAsked' = FALSE
      /\ rrHit' = rrHit \cup hits
  BY DEF RrChanged
<1>2. RrTypeOK'
  <2>1. \A n \in DOMAIN source : source[n] \in RrEntry
    BY RrEntryHas
  <2> QED
    BY <1>1, <2>1 DEF RrInv, RrTypeOK
<1>3. RrKnown' /\ RrApart'
  <2>1. RrKnown'
    BY <1>1, RrTableStays DEF RrKnown
  <2>2. \A n, m \in DOMAIN source : n # m => ~(RrNever(source[n], source[m])')
    BY <1>1, RrNeverStays
  <2> QED
    BY <1>1, <2>1, <2>2 DEF RrApart
<1>4. RrStored'
  <2>1. RrKeySet' = RrKeySetOf(rrTable, source)
    BY <1>1 DEF RrKeySet
  <2> QED
    BY <1>1, <2>1, RrTableStays DEF RrInv, RrStored
<1>5. RowsAddUp' /\ NeverTakenTwice'
  BY <1>1 DEF RowsAddUp, NeverTakenTwice
<1> QED
  BY <1>2, <1>3, <1>4, <1>5 DEF RrInv

\* A new entry.
LEMMA RrListKeeps ==
  ASSUME RrInv, NEW e \in RrNew, RrList(e)
  PROVE  RrInv'
<1> DEFINE S == DOMAIN rrSource
           source == [n \in S \cup {e.no} |-> IF n = e.no THEN e ELSE rrSource[n]]
<1> USE DEF RrInv
<1>1. /\ e.no \notin S /\ (\A n \in S : ~RrNever(e, rrSource[n]))
      /\ RrChanged(source, RrEventsOf(e)) /\ rrEvents' = rrEvents
  BY DEF RrList
<1>2. e.no \in RrNumbers /\ S \subseteq RrNumbers
  BY RrEntryHas DEF RrEntry, RrTypeOK
<1>3. DOMAIN source = S \cup {e.no} /\ source[e.no] = e /\ \A n \in S : source[n] = rrSource[n]
  BY <1>1
<1> HIDE DEF source
<1>4. \A n \in DOMAIN source : source[n] \in RrNew /\ source[n].no = n
  BY <1>3 DEF RrKnown
<1>5. \A n, m \in DOMAIN source : n # m => ~RrNever(source[n], source[m])
  <2>1. \A n \in S : ~RrNever(rrSource[n], e)
    BY <1>1 DEF RrNever, RrTwin
  <2> QED
    BY <1>1, <1>3, <2>1 DEF RrApart
<1>6. rrSource' = source /\ rrTable' = rrTable /\ rrHit' = rrHit \cup RrEventsOf(e)
  BY <1>1 DEF RrChanged
<1>7. RrTold'
  <2>1. "unnamed" \notin rrHit' => \A n \in DOMAIN source : source[n].doc # 0
    BY <1>3, <1>6 DEF RrTold, RrEventsOf
  <2>2. "undated" \notin rrHit' => \A n \in DOMAIN source : source[n].day # 0
    BY <1>3, <1>6 DEF RrTold, RrEventsOf
  <2>3. "alike" \notin rrHit' /\ "moved" \notin rrHit' =>
          \A n, m \in DOMAIN source : n # m => ~RrTwin(source[n], source[m])
    <3> SUFFICES ASSUME "alike" \notin rrHit', "moved" \notin rrHit',
                        NEW n \in DOMAIN source, NEW m \in DOMAIN source, n # m,
                        RrTwin(source[n], source[m])
                 PROVE  FALSE
      OBVIOUS
    <3>1. \A x \in S : ~RrTwin(e, rrSource[x]) /\ ~RrTwin(rrSource[x], e)
      BY <1>6 DEF RrEventsOf, RrTwin
    <3>2. \A x, y \in S : x # y => ~RrTwin(rrSource[x], rrSource[y])
      BY <1>6 DEF RrTold
    <3> QED
      BY <3>1, <3>2, <1>3
  <2>4. "several" \notin rrHit' =>
          \A n, m \in DOMAIN source : n # m => source[n].doc # source[m].doc
    <3> SUFFICES ASSUME "several" \notin rrHit',
                        NEW n \in DOMAIN source, NEW m \in DOMAIN source, n # m,
                        source[n].doc = source[m].doc
                 PROVE  FALSE
      OBVIOUS
    <3>1. \A x \in S : e.doc # rrSource[x].doc
      BY <1>6 DEF RrEventsOf
    <3>2. \A x, y \in S : x # y => rrSource[x].doc # rrSource[y].doc
      BY <1>6 DEF RrTold
    <3> QED
      BY <3>1, <3>2, <1>3
  <2>5. "day" \notin RrFields[rrTable] => "moved" \notin rrHit'
    BY <1>6 DEF RrTold, RrEventsOf
  <2> QED
    BY <2>1, <2>2, <2>3, <2>4, <2>5, <1>6 DEF RrTold
<1>8. RrKeySet \subseteq RrKeySetOf(rrTable, source)
  BY <1>3 DEF RrKeySet, RrKeySetOf
<1>9. RrEventsOf(e) \subseteq
        {"unnamed", "undated", "alike", "amended", "moved", "withdrawn", "several"}
  BY DEF RrEventsOf
<1>10. rrEvents' \in 0..MaxRrEvents
  BY <1>1 DEF RrTypeOK
<1>11. DOMAIN source \subseteq RrNumbers
  BY <1>2, <1>3
<1> QED
  BY <1>1, <1>4, <1>5, <1>7, <1>8, <1>9, <1>10, <1>11, RrChangedKeeps

\* A correction.
LEMMA RrAmendKeeps ==
  ASSUME RrInv, NEW n \in RrNumbers, NEW amount \in RrAmounts, RrAmend(n, amount)
  PROVE  RrInv'
<1> DEFINE S == DOMAIN rrSource
           source == [rrSource EXCEPT ![n].amount = amount]
<1> USE DEF RrInv
<1>1. /\ n \in S /\ rrEvents \in 0..MaxRrEvents /\ rrEvents < MaxRrEvents
      /\ rrEvents' = rrEvents + 1 /\ RrChanged(source, {"amended"})
  BY DEF RrAmend, RrCounted, RrTypeOK
<1>2. \A m \in S : rrSource[m] \in RrNew /\ rrSource[m] \in RrEntry /\ rrSource[m].no = m
  BY RrEntryHas DEF RrKnown
<1>3. DOMAIN source = S /\ \A m \in S : m # n => source[m] = rrSource[m]
  OBVIOUS
<1>4. source[n] = [rrSource[n] EXCEPT !.amount = amount]
  BY <1>1
<1> HIDE DEF source
<1>5. \A m \in S : /\ source[m].no = m /\ source[m].doc = rrSource[m].doc
                   /\ source[m].item = rrSource[m].item /\ source[m].place = rrSource[m].place
                   /\ source[m].day = rrSource[m].day /\ source[m].fbo = rrSource[m].fbo
  BY <1>1, <1>2, <1>3, <1>4 DEF RrEntry
<1>6. \A m \in S : source[m] \in RrNew
  <2>1. source[n] \in RrNew
    BY <1>1, <1>2, <1>4 DEF RrNew
  <2> QED
    BY <2>1, <1>2, <1>3
<1>7. \A k, m \in S : k # m => ~RrNever(source[k], source[m])
  BY <1>5 DEF RrApart, RrNever, RrTwin
<1>8. rrSource' = source /\ rrTable' = rrTable /\ rrHit' = rrHit \cup {"amended"}
  BY <1>1 DEF RrChanged
<1>9. RrTold'
  <2>1. \A k, m \in S : RrTwin(source[k], source[m]) <=> RrTwin(rrSource[k], rrSource[m])
    BY <1>5 DEF RrTwin
  <2> QED
    BY <2>1, <1>3, <1>5, <1>8 DEF RrTold
<1>10. (rrHit \cup {"amended"}) \cap RrLosing = {} => RrKeySet \subseteq RrKeySetOf(rrTable, source)
  <2> SUFFICES ASSUME (rrHit \cup {"amended"}) \cap RrLosing = {}
               PROVE  RrKeySet \subseteq RrKeySetOf(rrTable, source)
    OBVIOUS
  <2>1. ASSUME rrTable = "ym_finance", NEW m \in S
        PROVE  rrSource[m].doc # 0
    <3>1. "unnamed" \in RrLosing
      BY <2>1 DEF RrLosing, RrAloneTables, RrLoses
    <3> QED
      BY <3>1 DEF RrTold
  <2>2. \A m \in S : RrKey(source[m]) = RrKey(rrSource[m])
    <3> TAKE m \in S
    <3> DEFINE e == rrSource[m]
               f == source[m]
    <3>1. /\ f.no = e.no /\ f.doc = e.doc /\ f.item = e.item /\ f.place = e.place
          /\ f.day = e.day
      BY <1>2, <1>5
    <3>2. rrTable = "ym_finance" => e.doc # 0
      BY <2>1
    <3> HIDE DEF e, f
    <3>3. RrKey(f) = RrKey(e)
      BY <3>1, <3>2 DEF RrKey, RrKeyIn
    <3> QED
      BY <3>3 DEF e, f
  <2> QED
    BY <1>3, <2>2 DEF RrKeySet, RrKeySetOf, RrKey
<1>11. rrEvents' \in 0..MaxRrEvents
  BY <1>1, RrAssumption
<1>12. DOMAIN source \subseteq RrNumbers
  BY <1>3 DEF RrTypeOK
<1> QED
  BY <1>1, <1>3, <1>5, <1>6, <1>7, <1>9, <1>10, <1>11, <1>12, RrChangedKeeps

\* An accrual is moved to another day.
LEMMA RrMoveKeeps ==
  ASSUME RrInv, NEW n \in RrNumbers, NEW day \in RrSome, RrMove(n, day)
  PROVE  RrInv'
<1> DEFINE S == DOMAIN rrSource
           source == [rrSource EXCEPT ![n].day = day]
<1> USE DEF RrInv
<1>1. /\ n \in S /\ rrEvents \in 0..MaxRrEvents /\ rrEvents < MaxRrEvents
      /\ rrEvents' = rrEvents + 1 /\ RrChanged(source, {"moved"})
      /\ "day" \in RrFields[rrTable] /\ rrSource[n].day # 0
  BY DEF RrMove, RrCounted, RrTypeOK
<1>2. \A m \in S : rrSource[m] \in RrNew /\ rrSource[m] \in RrEntry /\ rrSource[m].no = m
  BY RrEntryHas DEF RrKnown
<1>3. DOMAIN source = S /\ \A m \in S : m # n => source[m] = rrSource[m]
  OBVIOUS
<1>4. source[n] = [rrSource[n] EXCEPT !.day = day]
  BY <1>1
<1> HIDE DEF source
<1>5. \A m \in S : /\ source[m].no = m /\ source[m].doc = rrSource[m].doc
                   /\ source[m].item = rrSource[m].item
  BY <1>1, <1>2, <1>3, <1>4 DEF RrEntry
<1>6. \A m \in S : source[m] \in RrNew
  <2>1. day \in 0..RrMost /\ day \in RrSome
    BY RrAssumption DEF RrSome
  <2> DEFINE may(field, omit) == IF field \notin RrFields[rrTable] THEN {1}
                                 ELSE IF rrTable \in omit THEN 0..RrMost ELSE RrSome
             docs == may("doc", RrMayOmit)
             items == may("item", {})
             days == may("day", RrMayUndate)
             places == IF "place" \in RrFields[rrTable] THEN RrSome ELSE {0}
             kinds == IF rrTable = "ozon_stocks" THEN BOOLEAN ELSE {FALSE}
             New == [no : RrNumbers, doc : docs, item : items, place : places, day : days,
                     amount : RrAmounts, fbo : kinds, from : {"listing"}]
  <2>2. RrNew = New
    BY DEF RrNew
  <2>3. day \in days
    BY <1>1, <2>1
  <2> HIDE DEF may, docs, items, days, places, kinds
  <2>4. source[n] \in New
    BY <1>1, <1>2, <1>4, <2>2, <2>3
  <2> QED
    BY <2>2, <2>4, <1>2, <1>3
<1>7. rrTable \notin RrSnapshots
  BY <1>1 DEF RrSnapshots, RrFields
<1>8. \A k, m \in S : k # m => ~RrNever(source[k], source[m])
  BY <1>5, <1>7 DEF RrApart, RrNever
<1>9. rrSource' = source /\ rrTable' = rrTable /\ rrHit' = rrHit \cup {"moved"}
  BY <1>1 DEF RrChanged
<1>10. \A m \in S : source[m].day = 0 => rrSource[m].day = 0
  <2>1. source[n].day = day /\ day # 0
    BY <1>1, <1>2, <1>4 DEF RrEntry, RrSome
  <2> QED
    BY <2>1, <1>3
<1>11. RrTold'
  BY <1>1, <1>3, <1>5, <1>9, <1>10 DEF RrTold
<1>12. (rrHit \cup {"moved"}) \cap RrLosing = {} => RrKeySet \subseteq RrKeySetOf(rrTable, source)
  <2> SUFFICES ASSUME (rrHit \cup {"moved"}) \cap RrLosing = {}
               PROVE  RrKeySet \subseteq RrKeySetOf(rrTable, source)
    OBVIOUS
  <2>1. rrTable \in {"wb_report", "ozon_balance"}
    <3>1. "moved" \notin RrLosing
      OBVIOUS
    <3>2. rrTable \in DOMAIN RrFields
      BY RrAssumption DEF RrTypeOK
    <3> QED
      BY <3>1, <3>2, <1>1 DEF RrLosing, RrAloneTables, RrLoses, RrFields
  <2>2. CASE rrTable = "ozon_balance"
    BY <2>2, <1>9 DEF RrKeySet, RrKeySetOf, RrKey
  <2>3. CASE rrTable = "wb_report"
    <3>1. \A m \in S : RrKey(source[m]) = RrKey(rrSource[m])
      BY <2>3, <1>5 DEF RrKey, RrKeyIn
    <3> QED
      BY <1>3, <3>1 DEF RrKeySet, RrKeySetOf, RrKey
  <2> QED
    BY <2>1, <2>2, <2>3
<1>13. rrEvents' \in 0..MaxRrEvents
  BY <1>1, RrAssumption
<1>14. DOMAIN source \subseteq RrNumbers
  BY <1>3 DEF RrTypeOK
<1> QED
  BY <1>1, <1>3, <1>5, <1>6, <1>8, <1>11, <1>12, <1>13, <1>14, RrChangedKeeps

\* An entry goes.
LEMMA RrWithdrawKeeps ==
  ASSUME RrInv, NEW n \in RrNumbers, RrWithdraw(n)
  PROVE  RrInv'
<1> DEFINE S == DOMAIN rrSource
           source == [m \in S \ {n} |-> rrSource[m]]
<1> USE DEF RrInv
<1>1. /\ rrEvents \in 0..MaxRrEvents /\ rrEvents < MaxRrEvents
      /\ rrEvents' = rrEvents + 1 /\ RrChanged(source, {"withdrawn"})
  BY DEF RrWithdraw, RrCounted, RrTypeOK
<1>2. DOMAIN source = S \ {n} /\ \A m \in S \ {n} : source[m] = rrSource[m]
  OBVIOUS
<1> HIDE DEF source
<1>3. \A m \in DOMAIN source : source[m] \in RrNew /\ source[m].no = m
  BY <1>2 DEF RrKnown
<1>4. \A k, m \in DOMAIN source : k # m => ~RrNever(source[k], source[m])
  BY <1>2 DEF RrApart
<1>5. rrSource' = source /\ rrTable' = rrTable /\ rrHit' = rrHit \cup {"withdrawn"}
  BY <1>1 DEF RrChanged
<1>6. RrTold'
  BY <1>2, <1>5 DEF RrTold
<1>7. rrTable \notin RrSnapshots /\ (rrHit \cup {"withdrawn"}) \cap RrLosing = {}
        => RrKeySet \subseteq RrKeySetOf(rrTable, source)
  <2> SUFFICES ASSUME rrTable \notin RrSnapshots, "withdrawn" \notin RrLosing
               PROVE  RrKeySet \subseteq RrKeySetOf(rrTable, source)
    OBVIOUS
  <2>1. rrTable = "ozon_balance"
    <3>1. rrTable \in DOMAIN RrFields
      BY RrAssumption DEF RrTypeOK
    <3> QED
      BY <3>1 DEF RrLosing, RrAloneTables, RrLoses, RrFields, RrSnapshots
  <2> QED
    BY <2>1, <1>5 DEF RrKeySet, RrKeySetOf, RrKey
<1>8. rrEvents' \in 0..MaxRrEvents
  BY <1>1, RrAssumption
<1>9. DOMAIN source \subseteq RrNumbers
  BY <1>2 DEF RrTypeOK
<1> QED
  BY <1>1, <1>3, <1>4, <1>6, <1>7, <1>8, <1>9, RrChangedKeeps

\* What remains to be shown of an answer.
LEMMA RrAskKeeps ==
  ASSUME RrInv, NEW a, NEW M \in Nat, DOMAIN a \subseteq 0..M,
         \A i \in DOMAIN a : a[i].amount \in Nat, RrAsk(a),
         NEW hits \in SUBSET {"repeated", "partial"}, rrHit' = rrHit \cup hits,
         rrEvents' \in 0..MaxRrEvents,
         rrTable \notin RrSnapshots /\ (rrHit \cup hits) \cap RrLosing = {}
           => DOMAIN RrInsert(RrParsed(a)) \subseteq RrKeySet,
         (rrHit \cup hits) \cap RrLoses[rrTable] = {}
           => RrSum(RrInsert(RrParsed(a))) = RrSum(RrFigures(rrSource)),
         rrTable \in RrAloneTables /\ "withdrawn" \notin rrHit
           => RrSum(RrInsert(RrParsed(a))) <= RrSum(RrFigures(rrSource))
  PROVE  RrInv'
<1> DEFINE kept == RrInsert(RrParsed(a))
<1> USE DEF RrInv
<1>1. rrTable' = rrTable /\ rrSource' = rrSource /\ rrKept' = kept /\ rrAsked' = TRUE
  BY DEF RrAsk
<1>2. \A k \in DOMAIN kept : kept[k] \in Nat
  BY RrKeptNat
<1> HIDE DEF kept
<1>3. RrTypeOK'
  BY <1>1, <1>2 DEF RrTypeOK
<1>4. RrKnown' /\ RrApart'
  <2>1. RrKnown'
    BY <1>1, RrTableStays DEF RrKnown
  <2>2. \A n, m \in DOMAIN rrSource : n # m => ~(RrNever(rrSource[n], rrSource[m])')
    BY <1>1, RrNeverStays DEF RrApart
  <2> QED
    BY <1>1, <2>1, <2>2 DEF RrApart
<1>5. RrTold'
  BY <1>1 DEF RrTold
<1>6. RrKeySet' = RrKeySet /\ RrLosing' = RrLosing
  BY <1>1, RrTableStays DEF RrKeySet
<1>7. RrStored'
  BY <1>1, <1>6 DEF RrStored, kept
<1>8. RrSum(rrKept)' = RrSum(kept) /\ RrSum(RrFigures(rrSource))' = RrSum(RrFigures(rrSource))
  BY <1>1
<1>9. RowsAddUp'
  BY <1>1, <1>8 DEF RowsAddUp, kept
<1>10. NeverTakenTwice'
  BY <1>1, <1>8 DEF NeverTakenTwice, RrAloneTables, kept
<1> QED
  BY <1>3, <1>4, <1>5, <1>7, <1>9, <1>10

\* An answer, from which rows are made one for each entry.
LEMMA RrCollectEach ==
  ASSUME RrInv, NEW a \in RrAnswers, rrTable \in RrEachTables, rrHit \cap RrLosing = {}
  PROVE  /\ DOMAIN RrInsert(RrParsed(a)) \subseteq RrKeySet
         /\ RrSum(RrInsert(RrParsed(a))) = RrSum(RrFigures(rrSource))
<1> DEFINE lines == RrParsed(a)
<1> USE DEF RrInv
<1>1. RrLosing = RrLoses[rrTable]
  BY DEF RrLosing, RrEachTables, RrAloneTables
<1>2. \A i \in DOMAIN a : \E n \in DOMAIN rrSource : a[i] = rrSource[n]
  BY RrAnswerIs
<1>3. rrTable \in {"wb_report", "ozon_ads", "ozon_accruals"} => \A i \in DOMAIN a : a[i].day # 0
  <2> HAVE rrTable \in {"wb_report", "ozon_ads", "ozon_accruals"}
  <2>1. "undated" \in RrLoses[rrTable]
    BY DEF RrLoses
  <2> QED
    BY <2>1, <1>1, <1>2 DEF RrTold
<1>4. rrTable \in {"wb_report", "ozon_accruals"} => \A i \in DOMAIN a : a[i].doc # 0
  <2> HAVE rrTable \in {"wb_report", "ozon_accruals"}
  <2>1. "unnamed" \in RrLoses[rrTable]
    BY DEF RrLoses
  <2> QED
    BY <2>1, <1>1, <1>2 DEF RrTold
<1>5. DOMAIN lines = DOMAIN a
  BY <1>3, <1>4, RrParsedEach
<1>6. \A i \in DOMAIN a : lines[i].key = RrKey(a[i]) /\ lines[i].amount = a[i].amount
  <2> TAKE i \in DOMAIN a
  <2>1. lines[i] = RrRow(RrKey(a[i]), a[i].amount)
    BY <1>3, <1>4, RrParsedEach
  <2> HIDE DEF lines
  <2> QED
    BY <2>1 DEF RrRow
<1> HIDE DEF lines
<1>7. DOMAIN RrInsert(lines) = {RrKey(rrSource[n]) : n \in DOMAIN rrSource}
  BY <1>5, <1>6, RrRowsOfEntries
<1>8. RrSum(RrInsert(lines)) = RrSum(RrFigures(rrSource))
  BY <1>1, <1>5, <1>6, RrEachAddsUp
<1>9. rrTable # "ozon_balance"
  BY DEF RrEachTables
<1>10. RrKeySet = {RrKey(rrSource[n]) : n \in DOMAIN rrSource}
  BY <1>9 DEF RrKeySet, RrKeySetOf, RrKey
<1> QED
  BY <1>7, <1>8, <1>10 DEF lines

\* An answer, in which the fees of some are left out.
LEMMA RrCollectAlone ==
  ASSUME RrInv, NEW a \in RrAnswers, rrTable \in RrAloneTables, "withdrawn" \notin rrHit
  PROVE  /\ DOMAIN RrInsert(RrParsed(a)) \subseteq RrKeySet
         /\ RrSum(RrInsert(RrParsed(a))) <= RrSum(RrFigures(rrSource))
         /\ rrHit \cap RrLoses[rrTable] = {} /\ RrAgain \notin DOMAIN a
              => RrSum(RrInsert(RrParsed(a))) = RrSum(RrFigures(rrSource))
<1> DEFINE lines == RrParsed(a)
<1> USE DEF RrInv
<1>1. rrHit \cap RrLosing = {}
  BY DEF RrLosing
<1>2. DOMAIN lines = DOMAIN a
  BY RrParsedAlone
<1>3. \A i \in DOMAIN a : /\ lines[i].key = RrKey(a[i]) /\ lines[i].amount \in {a[i].amount, 0}
                          /\ RrAlone(a, i) => lines[i].amount = a[i].amount
  <2> TAKE i \in DOMAIN a
  <2>1. lines[i] = RrRow(RrKey(a[i]), IF RrAlone(a, i) THEN a[i].amount ELSE 0)
    BY RrParsedAlone
  <2> HIDE DEF lines
  <2>2. lines[i].key = RrKey(a[i])
    BY <2>1 DEF RrRow
  <2>3. lines[i].amount = IF RrAlone(a, i) THEN a[i].amount ELSE 0
    BY <2>1 DEF RrRow
  <2> QED
    BY <2>2, <2>3
<1> HIDE DEF lines
<1>4. DOMAIN RrInsert(lines) = {RrKey(rrSource[n]) : n \in DOMAIN rrSource}
  BY <1>1, <1>2, <1>3, RrRowsOfEntries
<1>5. RrSum(RrInsert(lines)) <= RrSum(RrFigures(rrSource))
  BY <1>1, <1>2, <1>3, RrEachAtMost
<1>6. ASSUME rrHit \cap RrLoses[rrTable] = {}, RrAgain \notin DOMAIN a
      PROVE  RrSum(RrInsert(lines)) = RrSum(RrFigures(rrSource))
  <2>1. a = rrSource
    BY <1>6, RrAnswerIs
  <2>2. \A i \in DOMAIN a : RrAlone(a, i)
    <3> TAKE i \in DOMAIN a
    <3>1. CASE rrTable = "ym_stats"
      <4>1. "several" \in RrLoses[rrTable]
        BY <3>1 DEF RrLoses
      <4> QED
        BY <3>1, <4>1, <2>1, <1>6 DEF RrTold, RrAlone
    <3>2. CASE rrTable = "ym_quotes"
      <4> SUFFICES ASSUME NEW j \in DOMAIN a \ {i}, a[j].item = a[i].item PROVE FALSE
        BY <3>2 DEF RrAlone
      <4>1. RrKey(rrSource[j]) = RrKey(rrSource[i])
        BY <3>2, <2>1 DEF RrKey, RrKeyIn
      <4> QED
        BY <4>1, <2>1, <1>6, RrKeysApart
    <3> QED
      BY <3>1, <3>2 DEF RrAloneTables
  <2>3. \A i \in DOMAIN a : lines[i].key = RrKey(a[i]) /\ lines[i].amount = a[i].amount
    BY <2>2, <1>3
  <2> QED
    BY <1>1, <1>2, <1>6, <2>3, RrEachAddsUp
<1>7. rrTable # "ozon_balance"
  BY DEF RrAloneTables
<1>8. RrKeySet = {RrKey(rrSource[n]) : n \in DOMAIN rrSource}
  BY <1>7 DEF RrKeySet, RrKeySetOf, RrKey
<1> QED
  BY <1>4, <1>5, <1>6, <1>8 DEF lines

\* An answer of any table but the stock of Ozon.
LEMMA RrCollectKeeps ==
  ASSUME RrInv, rrTable # "ozon_stocks", NEW a \in RrAnswers, RrCollect(a)
  PROVE  RrInv'
<1> DEFINE hits == IF RrAgain \in DOMAIN a THEN {"repeated"} ELSE {}
           after == rrHit \cup hits
<1> USE DEF RrInv
<1>1. RrAsk(a) /\ rrHit' = after /\ hits \in SUBSET {"repeated", "partial"}
      /\ rrEvents' = rrEvents + (IF RrAgain \in DOMAIN a THEN 1 ELSE 0)
  BY DEF RrCollect
<1>2. MaxRrEntries \in Nat /\ MaxRrEvents \in Nat /\ MaxRrEntries + 1 \in Nat
  BY RrAssumption
<1>3. /\ DOMAIN a \subseteq 0..(MaxRrEntries + 1)
      /\ \A i \in DOMAIN a : \E n \in DOMAIN rrSource : a[i] = rrSource[n]
      /\ RrAgain \notin DOMAIN a => a = rrSource
  BY RrAnswerIs
<1>4. \A i \in DOMAIN a : a[i].amount \in Nat
  BY <1>3, RrSourceFinite
<1>5. rrEvents' \in 0..MaxRrEvents
  <2>1. RrAgain \in DOMAIN a => rrEvents < MaxRrEvents
    <3>1. RrAgain \notin DOMAIN rrSource
      BY <1>2 DEF RrAgain, RrTypeOK, RrNumbers
    <3>2. CASE rrEvents < MaxRrEvents
      BY <3>2
    <3>3. CASE ~(rrEvents < MaxRrEvents)
      BY <3>1, <3>3 DEF RrAnswers
    <3> QED
      BY <3>2, <3>3
  <2>2. rrEvents \in 0..MaxRrEvents
    BY DEF RrTypeOK
  <2> QED
    BY <1>1, <1>2, <2>1, <2>2
<1>6. rrHit \subseteq after /\ ("repeated" \notin after => RrAgain \notin DOMAIN a)
  OBVIOUS
<1> HIDE DEF hits, after
<1>7. rrTable \notin RrSnapshots /\ after \cap RrLosing = {}
        => DOMAIN RrInsert(RrParsed(a)) \subseteq RrKeySet
  <2> SUFFICES ASSUME rrTable \notin RrSnapshots, after \cap RrLosing = {}
               PROVE  DOMAIN RrInsert(RrParsed(a)) \subseteq RrKeySet
    OBVIOUS
  <2>1. rrHit \cap RrLosing = {}
    BY <1>6
  <2>2. CASE rrTable \in RrEachTables
    BY <2>1, <2>2, RrCollectEach
  <2>3. CASE rrTable \in RrAloneTables
    <3>1. "withdrawn" \notin rrHit
      BY <2>1, <2>3 DEF RrLosing
    <3> QED
      BY <2>3, <3>1, RrCollectAlone
  <2>4. CASE rrTable = "ozon_balance"
    <3>1. RrParsed(a) = RrBalance(a)
      BY <2>4 DEF RrParsed
    <3>2. IsFiniteSet(0..(MaxRrEntries + 1))
      BY <1>2, FS_Interval
    <3>3. IsFiniteSet(DOMAIN a)
      BY <1>3, <3>2, FS_Subset
    <3>4. DOMAIN RrInsert(RrBalance(a)) = RrSome
      BY <1>4, <2>4, <3>3, RrBalanceAddsUp
    <3> QED
      BY <2>4, <3>1, <3>4 DEF RrKeySet, RrKeySetOf
  <2> QED
    BY <2>2, <2>3, <2>4, RrTableIs DEF RrSnapshots
<1>8. after \cap RrLoses[rrTable] = {}
        => RrSum(RrInsert(RrParsed(a))) = RrSum(RrFigures(rrSource))
  <2> SUFFICES ASSUME after \cap RrLoses[rrTable] = {}
               PROVE  RrSum(RrInsert(RrParsed(a))) = RrSum(RrFigures(rrSource))
    OBVIOUS
  <2>1. rrHit \cap RrLoses[rrTable] = {}
    BY <1>6
  <2>2. CASE rrTable \in RrEachTables
    <3>1. RrLosing = RrLoses[rrTable]
      BY <2>2 DEF RrLosing, RrEachTables, RrAloneTables
    <3> QED
      BY <2>1, <2>2, <3>1, RrCollectEach
  <2>3. CASE rrTable \in RrAloneTables
    <3>1. "withdrawn" \in RrLoses[rrTable] /\ "repeated" \in RrLoses[rrTable]
      BY <2>3 DEF RrLoses, RrAloneTables
    <3>2. "withdrawn" \notin rrHit /\ RrAgain \notin DOMAIN a
      BY <2>1, <3>1, <1>6
    <3> QED
      BY <2>1, <2>3, <3>2, RrCollectAlone
  <2>4. CASE rrTable = "wb_stocks"
    <3>1. "repeated" \in RrLoses[rrTable]
      BY <2>4 DEF RrLoses
    <3>2. a = rrSource
      BY <3>1, <1>3, <1>6
    <3>3. RrParsed(a) = RrWbStocks(rrSource)
      BY <2>4, <3>2 DEF RrParsed
    <3> QED
      BY <2>4, <3>3, RrWbStocksAddUp
  <2>5. CASE rrTable = "ozon_balance"
    <3>1. RrParsed(a) = RrBalance(a)
      BY <2>5 DEF RrParsed
    <3>2. IsFiniteSet(0..(MaxRrEntries + 1))
      BY <1>2, FS_Interval
    <3>3. IsFiniteSet(DOMAIN a)
      BY <1>3, <3>2, FS_Subset
    <3> QED
      BY <1>4, <2>5, <3>1, <3>3, RrBalanceAddsUp
  <2> QED
    BY <2>2, <2>3, <2>4, <2>5, RrTableIs
<1>9. rrTable \in RrAloneTables /\ "withdrawn" \notin rrHit
        => RrSum(RrInsert(RrParsed(a))) <= RrSum(RrFigures(rrSource))
  BY RrCollectAlone
<1> QED
  BY <1>1, <1>2, <1>3, <1>4, <1>5, <1>7, <1>8, <1>9, RrAskKeeps DEF after

\* An answer with the stock of Ozon.
LEMMA RrCollectStocksKeeps ==
  ASSUME RrInv, rrTable = "ozon_stocks", NEW a \in RrStocksAnswers, RrCollectStocks(a)
  PROVE  RrInv'
<1> DEFINE hits == IF RrPartial(a) THEN {"partial"} ELSE {}
           M == 2 * MaxRrEntries
<1> USE DEF RrInv
<1>1. RrAsk(a) /\ rrHit' = rrHit \cup hits /\ rrEvents' = rrEvents
      /\ hits \in SUBSET {"repeated", "partial"}
  BY DEF RrCollectStocks
<1>2. MaxRrEntries \in Nat /\ M \in Nat
  BY RrAssumption
<1>3. DOMAIN a \subseteq 0..M /\ \A i \in DOMAIN a : a[i].amount \in Nat
  <2>1. PICK T \in SUBSET RrSome :
           /\ DOMAIN a = DOMAIN rrSource \cup {MaxRrEntries + n : n \in RrStockedIn(T)}
           /\ \A i \in DOMAIN rrSource :
                /\ i \in 1..MaxRrEntries /\ a[i].amount = rrSource[i].amount
                /\ a[i].item = rrSource[i].item /\ a[i].fbo = rrSource[i].fbo
                /\ a[i].from = "listing"
           /\ \A n \in RrStockedIn(T) :
                /\ a[MaxRrEntries + n].amount = rrSource[n].amount
                /\ a[MaxRrEntries + n].item = rrSource[n].item
                /\ a[MaxRrEntries + n].fbo = rrSource[n].fbo
                /\ a[MaxRrEntries + n].from = "analytics"
                /\ MaxRrEntries + n \in 0..(2 * MaxRrEntries)
                /\ MaxRrEntries + n \notin DOMAIN rrSource
    BY RrStocksAnswerIs
  <2>2. \A n \in RrStockedIn(T) : n \in DOMAIN rrSource
    BY DEF RrStockedIn
  <2>3. \A n \in DOMAIN rrSource : rrSource[n].amount \in Nat
    BY RrSourceFinite
  <2>4. \A i \in DOMAIN rrSource : i \in 0..M
    BY <2>1, <1>2
  <2> QED
    BY <2>1, <2>2, <2>3, <2>4
<1>4. rrEvents' \in 0..MaxRrEvents
  BY <1>1 DEF RrTypeOK
<1>5. rrTable \in RrSnapshots /\ rrTable \notin RrAloneTables
  BY DEF RrSnapshots, RrAloneTables
<1>6. (rrHit \cup hits) \cap RrLoses[rrTable] = {}
        => RrSum(RrInsert(RrParsed(a))) = RrSum(RrFigures(rrSource))
  <2> SUFFICES ASSUME (rrHit \cup hits) \cap RrLoses[rrTable] = {}
               PROVE  RrSum(RrInsert(RrParsed(a))) = RrSum(RrFigures(rrSource))
    OBVIOUS
  <2>1. "partial" \in RrLoses[rrTable]
    BY DEF RrLoses
  <2>2. ~RrPartial(a)
    BY <2>1
  <2>3. RrParsed(a) = RrOzonStocks(a)
    BY DEF RrParsed
  <2> QED
    BY <2>2, <2>3, RrStocksAddUp
<1> HIDE DEF hits, M
<1> QED
  BY <1>1, <1>2, <1>3, <1>4, <1>5, <1>6, RrAskKeeps

\* Every step keeps it.
LEMMA RrStep == RrInv /\ [RrNext]_rrVars => RrInv'
<1> SUFFICES ASSUME RrInv, [RrNext]_rrVars PROVE RrInv'
  OBVIOUS
<1>1. ASSUME NEW e \in RrNew, RrList(e) PROVE RrInv'
  BY <1>1, RrListKeeps
<1>2. ASSUME NEW n \in RrNumbers, NEW amount \in RrAmounts, RrAmend(n, amount) PROVE RrInv'
  BY <1>2, RrAmendKeeps
<1>3. ASSUME NEW n \in RrNumbers, NEW day \in RrSome, RrMove(n, day) PROVE RrInv'
  BY <1>3, RrMoveKeeps
<1>4. ASSUME NEW n \in RrNumbers, RrWithdraw(n) PROVE RrInv'
  BY <1>4, RrWithdrawKeeps
<1>5. ASSUME rrTable # "ozon_stocks", NEW a \in RrAnswers, RrCollect(a) PROVE RrInv'
  BY <1>5, RrCollectKeeps
<1>6. ASSUME rrTable = "ozon_stocks", NEW a \in RrStocksAnswers, RrCollectStocks(a) PROVE RrInv'
  BY <1>6, RrCollectStocksKeeps
<1>7. CASE UNCHANGED rrVars
  <2> USE <1>7 DEF rrVars, RrInv
  <2>1. RrTypeOK' /\ RrTold'
    BY DEF RrTypeOK, RrTold
  <2>2. RrKnown'
    BY RrTableStays DEF RrKnown
  <2>3. RrApart'
    <3>1. \A n, m \in DOMAIN rrSource : n # m => ~(RrNever(rrSource[n], rrSource[m])')
      BY RrNeverStays DEF RrApart
    <3> QED
      BY <3>1 DEF RrApart
  <2>4. RrStored'
    BY RrTableStays DEF RrStored, RrKeySet
  <2>5. RowsAddUp' /\ NeverTakenTwice'
    BY DEF RowsAddUp, NeverTakenTwice
  <2> QED
    BY <2>1, <2>2, <2>3, <2>4, <2>5
<1> QED
  BY <1>1, <1>2, <1>3, <1>4, <1>5, <1>6, <1>7 DEF RrNext

\* What the parsers make of an answer is kept so that the rows of a table add up to what the
\* marketplace has, of any number of entries, whatever is corrected, moved, withdrawn or answered
\* twice, but for what the table is known not to survive; and no fee is taken twice.
THEOREM RowsAreSound == RrSpec => []RowsSound
<1>1. RrInit => RrInv
  BY RrInitInv
<1>2. RrInv /\ [RrNext]_rrVars => RrInv'
  BY RrStep
<1>3. RrInv => RowsSound
  BY DEF RrInv, RowsSound
<1> QED
  BY <1>1, <1>2, <1>3, PTL DEF RrSpec
=============================================================================
