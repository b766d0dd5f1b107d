------------------------------ MODULE SumProofs ------------------------------
(***************************************************************************)
(* Facts about the sums of Notes and Operations: the value of a set of     *)
(* notes, and the balances of all wallets together.                        *)
(*                                                                         *)
(* SumFunctionOnSet is a fold that takes the elements in an order of its   *)
(* own.  That the order does not matter is shown by taking a smallest set  *)
(* for which it does: strict inclusion is well founded on finite sets.     *)
(***************************************************************************)
EXTENDS Notes, FiniteSetTheorems, TLAPS

Pick(T) == CHOOSE x \in T : TRUE

\* g is the fold over the subsets of S.
IsFold(f, S, g) ==
    g = [T \in SUBSET S |-> IF T = {} THEN 0 ELSE f[Pick(T)] + g[T \ {Pick(T)}]]

LEMMA SumIsFold ==
    ASSUME NEW f, NEW S
    PROVE  SumFunctionOnSet(f, S) = (CHOOSE g : IsFold(f, S, g))[S]
BY Zenon DEF SumFunctionOnSet, FoldFunctionOnSet, MapThenFoldSet, IsFold, Pick

LEMMA PickFromSet ==
    ASSUME NEW T, T # {}
    PROVE  Pick(T) \in T
BY DEF Pick

\* A set of subsets of a finite set has a smallest member.
LEMMA SmallestSubset ==
    ASSUME NEW S, IsFiniteSet(S), NEW X, X \subseteq SUBSET S, X # {}
    PROVE  \E T \in X : \A U \in X : U \subseteq T => U = T
<1>1. FiniteSubsetsOf(S) = SUBSET S
  BY FS_FiniteSubsetsOfFinite
<1>2. IsWellFoundedOn(StrictSubsetOrdering(S), SUBSET S)
  BY <1>1, FS_StrictSubsetOrderingWellFounded
<1>3. PICK T \in X : \A U \in X : <<U, T>> \notin StrictSubsetOrdering(S)
  BY <1>2, WFMin
<1>4. \A U \in X : U \subseteq T => U = T
  BY <1>3 DEF StrictSubsetOrdering
<1> QED
  BY <1>4

LEMMA FoldRestricts ==
    ASSUME NEW f, NEW S, NEW g, IsFold(f, S, g), NEW U \in SUBSET S
    PROVE  IsFold(f, U, [T \in SUBSET U |-> g[T]])
<1> DEFINE h == [T \in SUBSET U |-> g[T]]
<1>1. ASSUME NEW T \in SUBSET U
      PROVE  h[T] = IF T = {} THEN 0 ELSE f[Pick(T)] + h[T \ {Pick(T)}]
  <2>1. T \in SUBSET S /\ T \ {Pick(T)} \in SUBSET U
    OBVIOUS
  <2>2. h[T] = g[T] /\ h[T \ {Pick(T)}] = g[T \ {Pick(T)}]
    BY <2>1
  <2>3. g[T] = IF T = {} THEN 0 ELSE f[Pick(T)] + g[T \ {Pick(T)}]
    BY <2>1 DEF IsFold
  <2> QED
    BY <2>2, <2>3
<1>2. h = [T \in SUBSET U |-> IF T = {} THEN 0 ELSE f[Pick(T)] + h[T \ {Pick(T)}]]
  BY <1>1
<1> QED
  BY <1>2 DEF IsFold

LEMMA FoldUnique ==
    ASSUME NEW f, NEW S, IsFiniteSet(S), NEW g, NEW h, IsFold(f, S, g), IsFold(f, S, h)
    PROVE  g = h
<1> DEFINE X == {T \in SUBSET S : g[T] # h[T]}
<1>1. SUFFICES ASSUME X # {} PROVE FALSE
  BY DEF IsFold
<1>0. X \subseteq SUBSET S
  OBVIOUS
<1>2. PICK T \in X : \A U \in X : U \subseteq T => U = T
  <2> HIDE DEF X
  <2> QED
    BY <1>0, <1>1, SmallestSubset
<1>3. /\ g[T] = IF T = {} THEN 0 ELSE f[Pick(T)] + g[T \ {Pick(T)}]
      /\ h[T] = IF T = {} THEN 0 ELSE f[Pick(T)] + h[T \ {Pick(T)}]
  BY DEF IsFold
<1>4. T # {}
  BY <1>3
<1>5. Pick(T) \in T
  BY <1>4, PickFromSet
<1>6. T \ {Pick(T)} \notin X
  BY <1>2, <1>5
<1>7. g[T \ {Pick(T)}] = h[T \ {Pick(T)}]
  BY <1>6
<1> QED
  BY <1>3, <1>7

TheFold(f, S) == CHOOSE g : IsFold(f, S, g)

LEMMA FoldExists ==
    ASSUME NEW f, NEW S, IsFiniteSet(S)
    PROVE  IsFold(f, S, TheFold(f, S))
<1> DEFINE X == {U \in SUBSET S : ~ \E g : IsFold(f, U, g)}
<1>1. ASSUME X # {}
      PROVE  FALSE
  <2>0. X \subseteq SUBSET S
    OBVIOUS
  <2>1. PICK U \in X : \A V \in X : V \subseteq U => V = U
    <3> HIDE DEF X
    <3> QED
      BY <1>1, <2>0, SmallestSubset
  <2>2. ASSUME NEW V \in SUBSET U, V # U
        PROVE  IsFold(f, V, TheFold(f, V)) /\ IsFiniteSet(V)
    <3>1. \E g : IsFold(f, V, g)
      BY <2>1, <2>2
    <3>2. IsFiniteSet(V)
      BY FS_Subset
    <3> QED
      BY <3>1, <3>2 DEF TheFold
  <2> DEFINE Rest(T) == T \ {Pick(T)}
             g == [T \in SUBSET U |-> IF T = {} THEN 0
                                      ELSE f[Pick(T)] + TheFold(f, Rest(T))[Rest(T)]]
  <2>3. ASSUME NEW V \in SUBSET U, V # U
        PROVE  g[V] = TheFold(f, V)[V]
    <3>1. IsFold(f, V, TheFold(f, V)) /\ IsFiniteSet(V)
      BY <2>2, <2>3
    <3>2. TheFold(f, V)[V] = IF V = {} THEN 0 ELSE f[Pick(V)] + TheFold(f, V)[Rest(V)]
      BY <3>1 DEF IsFold
    <3>3. CASE V = {}
      BY <3>2, <3>3
    <3>4. CASE V # {}
      <4>1. Rest(V) \in SUBSET V /\ Rest(V) # U
        BY <2>3, <3>4, PickFromSet
      <4>2. IsFold(f, Rest(V), [T \in SUBSET Rest(V) |-> TheFold(f, V)[T]])
        BY <3>1, <4>1, FoldRestricts
      <4>3. IsFold(f, Rest(V), TheFold(f, Rest(V))) /\ IsFiniteSet(Rest(V))
        BY <2>2, <4>1
      <4>4. TheFold(f, Rest(V)) = [T \in SUBSET Rest(V) |-> TheFold(f, V)[T]]
        BY <4>2, <4>3, FoldUnique
      <4>5. TheFold(f, Rest(V))[Rest(V)] = TheFold(f, V)[Rest(V)]
        BY <4>4
      <4> QED
        BY <3>2, <3>4, <4>5
    <3> QED
      BY <3>3, <3>4
  <2>4. ASSUME NEW T \in SUBSET U
        PROVE  g[T] = IF T = {} THEN 0 ELSE f[Pick(T)] + g[Rest(T)]
    <3>1. CASE T = {}
      BY <3>1
    <3>2. CASE T # {}
      <4>1. Rest(T) \in SUBSET U /\ Rest(T) # U
        BY <3>2, PickFromSet
      <4>2. g[Rest(T)] = TheFold(f, Rest(T))[Rest(T)]
        BY <2>3, <4>1
      <4> QED
        BY <3>2, <4>2
    <3> QED
      BY <3>1, <3>2
  <2>5. g = [T \in SUBSET U |-> IF T = {} THEN 0 ELSE f[Pick(T)] + g[T \ {Pick(T)}]]
    BY <2>4
  <2>6. IsFold(f, U, g)
    BY <2>5 DEF IsFold
  <2> QED
    BY <2>1, <2>6
<1>2. \E g : IsFold(f, S, g)
  BY <1>1
<1> QED
  BY <1>2 DEF TheFold

-----------------------------------------------------------------------------
(* Sums *)

Sum(f, S) == SumFunctionOnSet(f, S)

LEMMA SumEmpty ==
    ASSUME NEW f
    PROVE  Sum(f, {}) = 0
<1>1. IsFold(f, {}, TheFold(f, {}))
  BY FoldExists, FS_EmptySet
<1>2. TheFold(f, {})[{}] = 0
  BY <1>1 DEF IsFold
<1> QED
  BY <1>2, SumIsFold DEF Sum, TheFold

LEMMA SumPick ==
    ASSUME NEW f, NEW S, IsFiniteSet(S), S # {}
    PROVE  Sum(f, S) = f[Pick(S)] + Sum(f, S \ {Pick(S)})
<1> DEFINE R == S \ {Pick(S)}
<1>1. IsFold(f, S, TheFold(f, S))
  BY FoldExists
<1>2. IsFiniteSet(R)
  BY FS_RemoveElement
<1>3. IsFold(f, R, TheFold(f, R))
  BY <1>2, FoldExists
<1>4. IsFold(f, R, [T \in SUBSET R |-> TheFold(f, S)[T]])
  BY <1>1, FoldRestricts
<1>5. TheFold(f, R) = [T \in SUBSET R |-> TheFold(f, S)[T]]
  BY <1>2, <1>3, <1>4, FoldUnique
<1>6. TheFold(f, R)[R] = TheFold(f, S)[R]
  BY <1>5
<1>7. TheFold(f, S)[S] = f[Pick(S)] + TheFold(f, S)[R]
  BY <1>1 DEF IsFold
<1> QED
  BY <1>6, <1>7, SumIsFold DEF Sum, TheFold

\* The sum depends on the values of f on S only.
LEMMA SumCongruent ==
    ASSUME NEW S, IsFiniteSet(S), NEW f, NEW g, \A x \in S : f[x] = g[x]
    PROVE  Sum(f, S) = Sum(g, S)
<1> DEFINE X == {T \in SUBSET S : Sum(f, T) # Sum(g, T)}
<1>0. X \subseteq SUBSET S
  OBVIOUS
<1>1. SUFFICES ASSUME X # {} PROVE FALSE
  OBVIOUS
<1>2. PICK T \in X : \A U \in X : U \subseteq T => U = T
  <2> HIDE DEF X
  <2> QED
    BY <1>0, <1>1, SmallestSubset
<1>3. IsFiniteSet(T)
  BY FS_Subset
<1>4. T # {}
  BY SumEmpty
<1>5. /\ Sum(f, T) = f[Pick(T)] + Sum(f, T \ {Pick(T)})
      /\ Sum(g, T) = g[Pick(T)] + Sum(g, T \ {Pick(T)})
  BY <1>3, <1>4, SumPick
<1>6. Pick(T) \in T
  BY <1>4, PickFromSet
<1>7. T \ {Pick(T)} \notin X
  BY <1>2, <1>6
<1> QED
  BY <1>5, <1>6, <1>7

LEMMA SumInt ==
    ASSUME NEW S, IsFiniteSet(S), NEW f, \A x \in S : f[x] \in Int
    PROVE  Sum(f, S) \in Int
<1> DEFINE X == {T \in SUBSET S : Sum(f, T) \notin Int}
<1>0. X \subseteq SUBSET S
  OBVIOUS
<1>1. SUFFICES ASSUME X # {} PROVE FALSE
  OBVIOUS
<1>2. PICK T \in X : \A U \in X : U \subseteq T => U = T
  <2> HIDE DEF X
  <2> QED
    BY <1>0, <1>1, SmallestSubset
<1>3. IsFiniteSet(T)
  BY FS_Subset
<1>4. T # {}
  BY SumEmpty
<1>5. Sum(f, T) = f[Pick(T)] + Sum(f, T \ {Pick(T)})
  BY <1>3, <1>4, SumPick
<1>6. Pick(T) \in T
  BY <1>4, PickFromSet
<1>7. T \ {Pick(T)} \notin X
  BY <1>2, <1>6
<1>8. f[Pick(T)] \in Int /\ Sum(f, T \ {Pick(T)}) \in Int
  BY <1>6, <1>7
<1> HIDE DEF X
<1>9. Sum(f, T) \in Int
  BY <1>5, <1>8
<1> QED
  BY <1>9 DEF X

\* Any element can be taken out first.
LEMMA SumRemove ==
    ASSUME NEW S, IsFiniteSet(S), NEW f, \A x \in S : f[x] \in Int, NEW x \in S
    PROVE  Sum(f, S) = f[x] + Sum(f, S \ {x})
<1> DEFINE X == {T \in SUBSET S : \E z \in T : Sum(f, T) # f[z] + Sum(f, T \ {z})}
<1>0. X \subseteq SUBSET S
  OBVIOUS
<1>1. SUFFICES ASSUME X # {} PROVE FALSE
  OBVIOUS
<1>2. PICK T \in X : \A U \in X : U \subseteq T => U = T
  <2> HIDE DEF X
  <2> QED
    BY <1>0, <1>1, SmallestSubset
<1>3. T \in SUBSET S /\ IsFiniteSet(T)
  BY FS_Subset
<1>4. PICK z \in T : Sum(f, T) # f[z] + Sum(f, T \ {z})
  OBVIOUS
<1> DEFINE y == Pick(T)
<1>5. y \in T
  BY <1>4, PickFromSet
<1>6. Sum(f, T) = f[y] + Sum(f, T \ {y})
  BY <1>3, <1>4, SumPick
<1>7. y # z
  BY <1>4, <1>6
<1>8. \A U \in SUBSET T : U # T => \A w \in U : Sum(f, U) = f[w] + Sum(f, U \ {w})
  BY <1>2, <1>3
<1> DEFINE R == T \ {y, z}
<1>9. (T \ {y}) \ {z} = R /\ (T \ {z}) \ {y} = R
  OBVIOUS
<1> HIDE DEF X, y
<1>10. Sum(f, T \ {y}) = f[z] + Sum(f, R) /\ Sum(f, T \ {z}) = f[y] + Sum(f, R)
  BY <1>5, <1>7, <1>8, <1>9
<1>11. IsFiniteSet(R) /\ \A w \in R : f[w] \in Int
  BY <1>3, FS_Subset
<1>12. Sum(f, R) \in Int /\ f[y] \in Int /\ f[z] \in Int
  BY <1>3, <1>5, <1>11, SumInt
<1> QED
  BY <1>4, <1>6, <1>10, <1>12

LEMMA SumSingleton ==
    ASSUME NEW f, NEW x, f[x] \in Int
    PROVE  Sum(f, {x}) = f[x]
<1>1. Sum(f, {x}) = f[x] + Sum(f, {x} \ {x})
  BY FS_Singleton, SumRemove
<1> QED
  BY <1>1, SumEmpty

LEMMA SumUnion ==
    ASSUME NEW S, IsFiniteSet(S), NEW T, IsFiniteSet(T), S \cap T = {},
           NEW f, \A x \in S \cup T : f[x] \in Int
    PROVE  Sum(f, S \cup T) = Sum(f, S) + Sum(f, T)
<1> DEFINE X == {U \in SUBSET T : Sum(f, S \cup U) # Sum(f, S) + Sum(f, U)}
<1>0. X \subseteq SUBSET T
  OBVIOUS
<1>1. SUFFICES ASSUME X # {} PROVE FALSE
  OBVIOUS
<1>2. PICK U \in X : \A V \in X : V \subseteq U => V = U
  <2> HIDE DEF X
  <2> QED
    BY <1>0, <1>1, SmallestSubset
<1>3. /\ U \in SUBSET T /\ IsFiniteSet(U) /\ IsFiniteSet(S \cup U)
      /\ \A x \in S \cup U : f[x] \in Int
      /\ Sum(f, S \cup U) # Sum(f, S) + Sum(f, U)
  BY FS_Subset, FS_Union
<1>4. Sum(f, S) \in Int /\ S \cup {} = S
  BY SumInt
<1>a. U # {}
  BY <1>3, <1>4, SumEmpty
<1>5. PICK x : x \in U
  BY <1>a
<1> DEFINE V == U \ {x}
<1>6. V \notin X /\ V \in SUBSET T
  BY <1>2, <1>3, <1>5
<1>7. Sum(f, S \cup V) = Sum(f, S) + Sum(f, V)
  BY <1>6
<1>8. (S \cup U) \ {x} = S \cup V
  BY <1>3, <1>5
<1>9. /\ Sum(f, S \cup U) = f[x] + Sum(f, (S \cup U) \ {x})
      /\ Sum(f, U) = f[x] + Sum(f, V)
  BY <1>3, <1>5, SumRemove
<1>10. IsFiniteSet(V) /\ \A y \in V : f[y] \in Int
  BY <1>3, FS_Subset
<1>11. Sum(f, V) \in Int /\ f[x] \in Int
  BY <1>3, <1>5, <1>10, SumInt
<1>12. Sum(f, S \cup U) = f[x] + Sum(f, S \cup V)
  BY <1>8, <1>9
<1> HIDE DEF X, V
<1> QED
  BY <1>3, <1>4, <1>7, <1>9, <1>11, <1>12

LEMMA SumNat ==
    ASSUME NEW S, IsFiniteSet(S), NEW f, \A x \in S : f[x] \in Nat
    PROVE  Sum(f, S) \in Nat
<1> DEFINE X == {T \in SUBSET S : Sum(f, T) \notin Nat}
<1>0. X \subseteq SUBSET S
  OBVIOUS
<1>1. SUFFICES ASSUME X # {} PROVE FALSE
  OBVIOUS
<1>2. PICK T \in X : \A U \in X : U \subseteq T => U = T
  <2> HIDE DEF X
  <2> QED
    BY <1>0, <1>1, SmallestSubset
<1>3. IsFiniteSet(T)
  BY FS_Subset
<1>4. T # {}
  BY SumEmpty
<1>5. Sum(f, T) = f[Pick(T)] + Sum(f, T \ {Pick(T)})
  BY <1>3, <1>4, SumPick
<1>6. Pick(T) \in T
  BY <1>4, PickFromSet
<1>7. T \ {Pick(T)} \notin X
  BY <1>2, <1>6
<1>8. f[Pick(T)] \in Nat /\ Sum(f, T \ {Pick(T)}) \in Nat
  BY <1>6, <1>7
<1> HIDE DEF X
<1>9. Sum(f, T) \in Nat
  BY <1>5, <1>8
<1> QED
  BY <1>9 DEF X

\* Sums are added term by term.
LEMMA SumAdds ==
    ASSUME NEW S, IsFiniteSet(S), NEW f, NEW g, NEW h,
           \A x \in S : f[x] \in Int /\ g[x] \in Int /\ h[x] = f[x] + g[x]
    PROVE  Sum(h, S) = Sum(f, S) + Sum(g, S)
<1> DEFINE X == {T \in SUBSET S : Sum(h, T) # Sum(f, T) + Sum(g, T)}
<1>0. X \subseteq SUBSET S
  OBVIOUS
<1>1. SUFFICES ASSUME X # {} PROVE FALSE
  OBVIOUS
<1>2. PICK T \in X : \A U \in X : U \subseteq T => U = T
  <2> HIDE DEF X
  <2> QED
    BY <1>0, <1>1, SmallestSubset
<1>3. IsFiniteSet(T) /\ T \in SUBSET S /\ Sum(h, T) # Sum(f, T) + Sum(g, T)
  BY FS_Subset
<1>4. T # {}
  BY <1>3, SumEmpty
<1> DEFINE y == Pick(T)
           R == T \ {y}
<1>5. /\ Sum(f, T) = f[y] + Sum(f, R)
      /\ Sum(g, T) = g[y] + Sum(g, R)
      /\ Sum(h, T) = h[y] + Sum(h, R)
  BY <1>3, <1>4, SumPick
<1>6. y \in T
  BY <1>4, PickFromSet
<1>7. R \notin X /\ R \in SUBSET S
  BY <1>2, <1>6
<1>8. Sum(h, R) = Sum(f, R) + Sum(g, R)
  BY <1>7
<1>9. IsFiniteSet(R) /\ \A x \in R : f[x] \in Int /\ g[x] \in Int
  BY <1>7, FS_Subset
<1>10. Sum(f, R) \in Int /\ Sum(g, R) \in Int
  BY <1>9, SumInt
<1> HIDE DEF X, y, R
<1>11. f[y] \in Int /\ g[y] \in Int /\ h[y] = f[y] + g[y]
  BY <1>3, <1>6
<1> QED
  BY <1>3, <1>5, <1>8, <1>10, <1>11

-----------------------------------------------------------------------------
(* The value of a set of notes *)

NoteAmount == [n \in NoteSet |-> n.amount]

LEMMA NoteSetFinite == IsFiniteSet(NoteSet)
<1> DEFINE Ids == 1 .. MaxNotes
           D == (Ids \X Accounts) \X Amounts
           f == [d \in D |-> [id |-> d[1][1], target |-> d[1][2], amount |-> d[2]]]
<1>1. IsFiniteSet(Ids) /\ IsFiniteSet(Amounts)
  BY NotesAssumption, FS_Interval
<1>2. IsFiniteSet(Accounts)
  BY NotesAssumption, FS_AddElement DEF Accounts
<1>3. IsFiniteSet(D)
  <2>1. IsFiniteSet(Ids \X Accounts)
    BY <1>1, <1>2, FS_Product
  <2> HIDE DEF Ids
  <2> QED
    BY <1>1, <2>1, FS_Product
<1>4. f \in Surjection(D, NoteSet)
  <2>1. f \in [D -> NoteSet]
    BY DEF NoteSet
  <2>2. ASSUME NEW n \in NoteSet
        PROVE  \E d \in D : f[d] = n
    <3>1. n = [id |-> n.id, target |-> n.target, amount |-> n.amount]
          /\ n.id \in Ids /\ n.target \in Accounts /\ n.amount \in Amounts
      BY DEF NoteSet
    <3>2. << <<n.id, n.target>>, n.amount>> \in D
      BY <3>1
    <3> QED
      BY <3>1, <3>2
  <2> QED
    BY <2>1, <2>2 DEF Surjection
<1> HIDE DEF D, f
<1> QED
  BY <1>3, <1>4, FS_Surjection

LEMMA NotesFinite ==
    ASSUME NEW S \in SUBSET NoteSet
    PROVE  /\ IsFiniteSet(S)
           /\ \A n \in S : NoteAmount[n] = n.amount /\ n.amount \in Nat \ {0}
BY NotesAssumption, NoteSetFinite, FS_Subset DEF NoteAmount, NoteSet

LEMMA ValueIsSum ==
    ASSUME NEW S \in SUBSET NoteSet
    PROVE  Value(S) = Sum(NoteAmount, S)
<1>1. Value(S) = Sum([n \in S |-> n.amount], S)
  BY DEF Value, SumFunction, Sum
<1>2. \A n \in S : [m \in S |-> m.amount][n] = NoteAmount[n]
  BY NotesFinite
<1> QED
  BY <1>1, <1>2, NotesFinite, SumCongruent

LEMMA ValueNat ==
    ASSUME NEW S \in SUBSET NoteSet
    PROVE  Value(S) \in Nat
BY ValueIsSum, NotesFinite, SumNat

LEMMA ValueEmpty == Value({}) = 0
BY ValueIsSum, SumEmpty

LEMMA ValueSingleton ==
    ASSUME NEW n \in NoteSet
    PROVE  Value({n}) = n.amount
<1>1. {n} \in SUBSET NoteSet /\ NoteAmount[n] = n.amount /\ n.amount \in Nat
  BY NotesFinite
<1> QED
  BY <1>1, ValueIsSum, SumSingleton

\* Notes that are added are counted once.
LEMMA ValueUnion ==
    ASSUME NEW S \in SUBSET NoteSet, NEW T \in SUBSET NoteSet, S \cap T = {}
    PROVE  Value(S \cup T) = Value(S) + Value(T)
<1>1. IsFiniteSet(S) /\ IsFiniteSet(T) /\ S \cup T \in SUBSET NoteSet
  BY NotesFinite
<1>2. \A n \in S \cup T : NoteAmount[n] \in Int
  BY <1>1, NotesFinite
<1>3. Sum(NoteAmount, S \cup T) = Sum(NoteAmount, S) + Sum(NoteAmount, T)
  BY <1>1, <1>2, SumUnion
<1> QED
  BY <1>1, <1>3, ValueIsSum

LEMMA ValueDifference ==
    ASSUME NEW S \in SUBSET NoteSet, NEW T \in SUBSET S
    PROVE  Value(S \ T) = Value(S) - Value(T) /\ Value(T) <= Value(S)
<1>1. S \ T \in SUBSET NoteSet /\ T \in SUBSET NoteSet /\ (S \ T) \cap T = {} /\ (S \ T) \cup T = S
  OBVIOUS
<1>2. Value(S) = Value(S \ T) + Value(T)
  BY <1>1, ValueUnion
<1> QED
  BY <1>1, <1>2, ValueNat

\* The value of notes that are kept apart by owner is the sum over the
\* owners.
LEMMA ValueByOwner ==
    ASSUME NEW W, IsFiniteSet(W), NEW F \in [W -> SUBSET NoteSet],
           \A v, w \in W : v # w => F[v] \cap F[w] = {}
    PROVE  Value(UNION {F[w] : w \in W}) = Sum([w \in W |-> Value(F[w])], W)
<1> DEFINE v == [w \in W |-> Value(F[w])]
           All(T) == UNION {F[w] : w \in T}
           X == {T \in SUBSET W : Value(All(T)) # Sum(v, T)}
<1>0. X \subseteq SUBSET W
  OBVIOUS
<1>1. SUFFICES ASSUME X # {} PROVE FALSE
  OBVIOUS
<1>2. PICK T \in X : \A U \in X : U \subseteq T => U = T
  <2> HIDE DEF X
  <2> QED
    BY <1>0, <1>1, SmallestSubset
<1>3. T \in SUBSET W /\ IsFiniteSet(T) /\ Value(All(T)) # Sum(v, T)
  BY FS_Subset
<1>4. T # {}
  <2>1. All({}) = {}
    OBVIOUS
  <2> QED
    BY <1>3, <2>1, SumEmpty, ValueEmpty
<1>5. PICK x : x \in T
  BY <1>4
<1> DEFINE R == T \ {x}
<1>6. R \in SUBSET W /\ Value(All(R)) = Sum(v, R)
  BY <1>2, <1>3, <1>5
<1>7. \A w \in W : Value(F[w]) \in Nat /\ v[w] = Value(F[w])
  BY ValueNat
<1>8. Sum(v, T) = v[x] + Sum(v, R)
  <2>1. \A w \in T : v[w] \in Int
    BY <1>3, <1>7
  <2> HIDE DEF v
  <2> QED
    BY <1>3, <1>5, <2>1, SumRemove
<1>9. /\ All(T) = F[x] \cup All(R) /\ F[x] \cap All(R) = {}
      /\ F[x] \in SUBSET NoteSet /\ All(R) \in SUBSET NoteSet
  BY <1>3, <1>5
<1>10. Value(All(T)) = Value(F[x]) + Value(All(R))
  BY <1>9, ValueUnion
<1> HIDE DEF X, v, All, R
<1> QED
  BY <1>3, <1>5, <1>6, <1>7, <1>8, <1>10
=============================================================================
