----------------------------- MODULE ForestProofs -----------------------------
(***************************************************************************)
(* Three forests: pages below pages, the tree of them that is shown, and   *)
(* the tasks of a board below epics with the links between them.           *)
(*                                                                         *)
(* Deleting a page reaches everything below it, the check before a move    *)
(* and the restoring of a tree close no cycle, and emptying the trash      *)
(* leaves alone what is not in it.  An edit of a board changes one task or *)
(* link in every tab, and the tasks highlighted as critical are those      *)
(* whose delay delays the project.  The tree shows every page that is      *)
(* listed once, whatever the rows say of parents, and a page that is moved *)
(* in it comes to where it was put and moves no other.                     *)
(*                                                                         *)
(* The walks of the modules go level by level, as many levels as there    *)
(* are nodes.  That this is enough is a fact about finite sets: as long as *)
(* a walk is not done, each level adds a node.                             *)
(***************************************************************************)
EXTENDS PageTree, ProjectBoard, DocumentTree, FiniteSetTheorems, SequenceTheorems, TLAPS

-----------------------------------------------------------------------------
(* Walks.                                                                   *)

\* A set of numbers has a least one.
LEMMA LeastNumber ==
  ASSUME NEW T, T \subseteq Nat, T # {}
  PROVE  \E x \in T : \A y \in T : x <= y
<1> DEFINE R == OpToRel(<, Nat)
<1>1. IsWellFoundedOn(R, Nat)
  BY NatLessThanWellFounded
<1>2. \A x, y \in Nat : y < x => <<y, x>> \in R
  BY DEF OpToRel
<1> HIDE DEF R
<1>3. PICK x \in T : \A y \in T : <<y, x>> \notin R
  BY <1>1, WFMin
<1>4. ASSUME NEW y \in T PROVE x <= y
  <2>1. x \in Nat /\ y \in Nat
    OBVIOUS
  <2>2. ~(y < x)
    BY <2>1, <1>2, <1>3, Zenon
  <2> QED BY <2>1, <2>2
<1> QED BY <1>4

\* A walk from A: each level is what F makes of the one before.
Walks(W, N, F, A) == W = [n \in 0 .. N |-> IF n = 0 THEN A ELSE F[W[n - 1]]]

LEMMA WalkLevels ==
  ASSUME NEW N \in Nat, NEW F, NEW A, NEW W, Walks(W, N, F, A)
  PROVE  W[0] = A /\ \A n \in Nat : n < N => W[n + 1] = F[W[n]]
<1>1. \A n \in 0 .. N : W[n] = IF n = 0 THEN A ELSE F[W[n - 1]]
  BY DEF Walks
<1>2. W[0] = A
  BY <1>1
<1>3. ASSUME NEW n \in Nat, n < N PROVE W[n + 1] = F[W[n]]
  <2>1. n + 1 \in 0 .. N /\ n + 1 # 0 /\ n + 1 - 1 = n
    BY <1>3
  <2> QED BY <1>1, <2>1
<1> QED BY <1>2, <1>3

\* There is one of any length.
LEMMA WalkExists ==
  ASSUME NEW N \in Nat, NEW F, NEW A
  PROVE  \E W : Walks(W, N, F, A)
<1> DEFINE P(n) == \E W : Walks(W, n, F, A)
           T == {n \in Nat : ~P(n)}
<1>1. P(0)
  <2> DEFINE V == [n \in 0 .. 0 |-> A]
  <2>1. V = [n \in 0 .. 0 |-> IF n = 0 THEN A ELSE F[V[n - 1]]]
    OBVIOUS
  <2> QED BY <2>1 DEF Walks
<1>2. ASSUME NEW k \in Nat, P(k) PROVE P(k + 1)
  <2>1. PICK W : Walks(W, k, F, A)
    BY <1>2
  <2>2. \A n \in 0 .. k : W[n] = IF n = 0 THEN A ELSE F[W[n - 1]]
    BY <2>1 DEF Walks
  <2> DEFINE V == [n \in 0 .. k + 1 |-> IF n = k + 1 THEN F[W[k]] ELSE W[n]]
             U == [n \in 0 .. k + 1 |-> IF n = 0 THEN A ELSE F[V[n - 1]]]
  <2>3. ASSUME NEW n \in 0 .. k + 1 PROVE V[n] = IF n = 0 THEN A ELSE F[V[n - 1]]
    <3>1. CASE n = k + 1
      <4>1. n - 1 = k /\ k \in 0 .. k + 1 /\ k # k + 1 /\ n # 0
        BY <3>1
      <4> QED BY <3>1, <4>1
    <3>2. CASE n \in 0 .. k /\ n # 0
      <4>1. n - 1 \in 0 .. k + 1 /\ n - 1 # k + 1 /\ n # k + 1
        BY <3>2
      <4> QED BY <2>2, <3>2, <4>1
    <3>3. CASE n = 0
      BY <2>2, <3>3
    <3> QED BY <3>1, <3>2, <3>3
  <2>4. V = U
    BY <2>3
  <2> QED BY <2>4 DEF Walks
<1>3. T = {}
  <2> SUFFICES ASSUME T # {} PROVE FALSE
    OBVIOUS
  <2> HIDE DEF P
  <2>1. PICK m \in T : \A y \in T : m <= y
    BY LeastNumber
  <2>2. m \in Nat \ {0} /\ ~P(m)
    BY <1>1
  <2>3. m - 1 \in Nat /\ m - 1 + 1 = m /\ ~(m <= m - 1)
    BY <2>2
  <2>4. P(m - 1)
    BY <2>1, <2>3
  <2> QED BY <1>2, <2>2, <2>3, <2>4
<1> QED BY <1>3

\* A set of levels that has 0 and, with each level, the next one has them all.
LEMMA LevelInduction ==
  ASSUME NEW N \in Nat, NEW T \in SUBSET (0 .. N), 0 \in T, \A n \in T : n < N => n + 1 \in T
  PROVE  T = 0 .. N
<1> DEFINE R == (0 .. N) \ T
<1> SUFFICES ASSUME R # {} PROVE FALSE
  OBVIOUS
<1>1. PICK m \in R : \A y \in R : m <= y
  <2>1. R \subseteq Nat
    OBVIOUS
  <2> HIDE DEF R
  <2> QED BY <2>1, LeastNumber
<1>2. m \in 0 .. N /\ m # 0 /\ m - 1 \in 0 .. N /\ m - 1 < N /\ m - 1 + 1 = m
  BY <1>1
<1>3. m - 1 \in T
  BY <1>1, <1>2
<1> QED BY <1>1, <1>2, <1>3

\* Steps within X that never lose anything.
Grows(X, F) == F \in [SUBSET X -> SUBSET X] /\ \A S \in SUBSET X : S \subseteq F[S]

\* A walk through a finite set by steps that never lose anything is done after as
\* many levels as the set has members, less those it began with.
LEMMA WalkIsDone ==
  ASSUME NEW X, IsFiniteSet(X), NEW A \in SUBSET X, NEW F, Grows(X, F),
         NEW N \in Nat, Cardinality(X) <= N + Cardinality(A),
         NEW W, Walks(W, N, F, A)
  PROVE  /\ \A n \in 0 .. N : W[n] \in SUBSET X
         /\ \A n \in 0 .. N : W[n] \subseteq W[N]
         /\ F[W[N]] = W[N]
<1>1. N \in Nat /\ F \in [SUBSET X -> SUBSET X] /\ \A S \in SUBSET X : S \subseteq F[S]
  BY DEF Grows
<1>2. W[0] = A /\ \A n \in Nat : n < N => W[n + 1] = F[W[n]]
  BY <1>1, WalkLevels
<1>4. \A n \in 0 .. N : W[n] \in SUBSET X
  <2> DEFINE T == {n \in 0 .. N : W[n] \in SUBSET X}
  <2>1. 0 \in T /\ T \in SUBSET (0 .. N)
    BY <1>1, <1>2
  <2>2. \A n \in T : n < N => n + 1 \in T
    BY <1>1, <1>2
  <2> HIDE DEF T
  <2>3. T = 0 .. N
    BY <1>1, <2>1, <2>2, LevelInduction
  <2> QED BY <2>3 DEF T
<1>5. ASSUME NEW n \in 0 .. N, n < N, W[n + 1] = W[n]
      PROVE  W[N] = W[n]
  <2> DEFINE T == {k \in 0 .. N : k >= n => W[k] = W[n]}
  <2>1. 0 \in T /\ T \in SUBSET (0 .. N)
    BY <1>1
  <2>2. ASSUME NEW k \in T, k < N PROVE k + 1 \in T
    <3>1. k \in Nat /\ k + 1 \in 0 .. N /\ W[k + 1] = F[W[k]] /\ n \in Nat
      BY <1>1, <1>2, <2>2
    <3>2. CASE k >= n
      <4>1. W[k] = W[n] /\ W[n + 1] = F[W[n]]
        BY <1>2, <1>5, <3>1, <3>2
      <4> QED BY <1>5, <3>1, <4>1
    <3>3. CASE k < n
      <4>1. k + 1 >= n => k + 1 = n
        BY <3>1, <3>3
      <4> QED BY <3>1, <4>1
    <3> QED BY <3>1, <3>2, <3>3
  <2> HIDE DEF T
  <2>3. T = 0 .. N
    BY <1>1, <2>1, <2>2, LevelInduction
  <2>4. N \in 0 .. N /\ N >= n
    BY <1>1
  <2> QED BY <2>3, <2>4 DEF T
<1>6. F[W[N]] = W[N]
  <2>1. CASE \E n \in 0 .. N : n < N /\ W[n + 1] = W[n]
    <3>1. PICK n \in 0 .. N : n < N /\ W[n + 1] = W[n]
      BY <2>1
    <3>2. W[N] = W[n] /\ F[W[n]] = W[n]
      BY <1>1, <1>2, <1>5, <3>1
    <3> QED BY <3>2
  <2>2. CASE \A n \in 0 .. N : n < N => W[n + 1] # W[n]
    <3> DEFINE T == {n \in 0 .. N : Cardinality(W[n]) >= n + Cardinality(A)}
    <3>1. /\ \A n \in 0 .. N : /\ IsFiniteSet(W[n]) /\ Cardinality(W[n]) \in Nat
                                /\ Cardinality(W[n]) <= Cardinality(X)
          /\ Cardinality(X) \in Nat /\ Cardinality(A) \in Nat
      BY <1>4, FS_Subset, FS_CardinalityType
    <3>2. 0 \in T /\ T \in SUBSET (0 .. N)
      BY <1>1, <1>2, <3>1
    <3>3. ASSUME NEW n \in T, n < N PROVE n + 1 \in T
      <4>1. n \in 0 .. N /\ n + 1 \in 0 .. N /\ n \in Nat
        BY <1>1, <3>3
      <4>2. W[n] \subseteq W[n + 1] /\ W[n + 1] # W[n]
        BY <1>1, <1>2, <1>4, <2>2, <3>3, <4>1
      <4>3. Cardinality(W[n]) # Cardinality(W[n + 1]) /\ Cardinality(W[n]) <= Cardinality(W[n + 1])
        BY <3>1, <4>1, <4>2, FS_Subset
      <4>4. Cardinality(W[n]) >= n + Cardinality(A)
        BY <3>3
      <4>5. Cardinality(W[n + 1]) >= n + 1 + Cardinality(A)
        BY <3>1, <4>1, <4>3, <4>4
      <4> QED BY <4>1, <4>5
    <3> HIDE DEF T
    <3>4. T = 0 .. N
      BY <1>1, <3>2, <3>3, LevelInduction
    <3>5. N \in 0 .. N
      BY <1>1
    <3>6. Cardinality(W[N]) = Cardinality(X)
      BY <1>1, <3>1, <3>4, <3>5 DEF T
    <3>7. W[N] = X
      BY <1>4, <3>5, <3>6, FS_Subset
    <3>8. X \in SUBSET X /\ F[X] \in SUBSET X /\ X \subseteq F[X]
      BY <1>1
    <3> QED BY <3>7, <3>8
  <2> QED BY <2>1, <2>2
<1>7. \A n \in 0 .. N : W[n] \subseteq W[N]
  <2> DEFINE T == {n \in 0 .. N : W[N - n] \subseteq W[N]}
  <2>1. 0 \in T /\ T \in SUBSET (0 .. N)
    BY <1>1
  <2>2. ASSUME NEW n \in T, n < N PROVE n + 1 \in T
    <3>1. N - (n + 1) \in 0 .. N /\ N - (n + 1) < N /\ N - (n + 1) + 1 = N - n /\ n + 1 \in 0 .. N
      BY <1>1, <2>2
    <3>2. W[N - (n + 1)] \subseteq W[N - n]
      BY <1>1, <1>2, <1>4, <3>1
    <3> QED BY <2>2, <3>1, <3>2
  <2> HIDE DEF T
  <2>3. T = 0 .. N
    BY <1>1, <2>1, <2>2, LevelInduction
  <2>4. ASSUME NEW n \in 0 .. N PROVE W[n] \subseteq W[N]
    <3>1. N - n \in 0 .. N /\ N - (N - n) = n
      BY <1>1
    <3> QED BY <2>3, <3>1 DEF T
  <2> QED BY <2>4
<1> QED BY <1>4, <1>6, <1>7

-----------------------------------------------------------------------------
(* The two walks of the bridge.                                             *)

LEMMA StoredPages ==
  ASSUME TypeOK
  PROVE  /\ Stored \subseteq Docs /\ \A d \in Stored : docs[d] \in Page
         /\ Cardinality(Docs) \in Nat /\ NoDoc \notin Docs
  BY PageTreeAssumption, FS_CardinalityType DEF TypeOK, Stored

\* CollectDocumentTreeIds: the root and what lies below what it has.
LEMMA WalkedLevels ==
  ASSUME TypeOK, NEW root \in Docs
  PROVE  /\ Walked(root)[0] = {root}
         /\ \A n \in Nat : n < Cardinality(Docs) => Walked(root)[n + 1] = Below(Walked(root)[n])
         /\ \A n \in 0 .. Cardinality(Docs) :
              /\ Walked(root)[n] \subseteq Docs
              /\ Walked(root)[n] \subseteq CollectDocumentTreeIds(root)
         /\ Children(CollectDocumentTreeIds(root)) \subseteq CollectDocumentTreeIds(root)
<1> DEFINE N == Cardinality(Docs)
           F == [S \in SUBSET Docs |-> Below(S)]
<1>1. IsFiniteSet(Docs) /\ N \in Nat /\ Cardinality(Docs) <= N + Cardinality({root})
  <2>1. IsFiniteSet(Docs) /\ Cardinality(Docs) \in Nat
    BY PageTreeAssumption, FS_CardinalityType
  <2>2. Cardinality({root}) = 1
    BY FS_Singleton
  <2> QED BY <2>1, <2>2
<1>2. /\ F \in [SUBSET Docs -> SUBSET Docs] /\ \A S \in SUBSET Docs : S \subseteq F[S]
      /\ \A S \in SUBSET Docs : F[S] = Below(S)
  BY DEF Below, Children, Stored
<1> HIDE DEF F, N
<1>3. ASSUME NEW W, Walks(W, N, F, {root})
      PROVE  /\ W = [n \in 0 .. N |-> IF n = 0 THEN {root} ELSE Below(W[n - 1])]
             /\ \A n \in 0 .. N : W[n] \in SUBSET Docs /\ W[n] \subseteq W[N]
             /\ Below(W[N]) = W[N]
  <2>1. /\ \A n \in 0 .. N : W[n] \in SUBSET Docs /\ W[n] \subseteq W[N]
        /\ F[W[N]] = W[N]
    <3>1. {root} \in SUBSET Docs
      OBVIOUS
    <3>2. Grows(Docs, F)
      BY <1>2 DEF Grows
    <3> QED BY <1>1, <1>3, <3>1, <3>2, WalkIsDone
  <2>2. \A n \in 0 .. N : n # 0 => n - 1 \in 0 .. N
    BY <1>1
  <2>3. \A n \in 0 .. N : n # 0 => F[W[n - 1]] = Below(W[n - 1])
    BY <1>2, <2>1, <2>2
  <2>4. Below(W[N]) = W[N]
    BY <1>1, <1>2, <2>1
  <2> QED BY <1>3, <2>1, <2>3, <2>4 DEF Walks
<1>4. Walked(root) = [n \in 0 .. N |-> IF n = 0 THEN {root} ELSE Below(Walked(root)[n - 1])]
  <2>1. PICK V : Walks(V, N, F, {root})
    BY <1>1, WalkExists
  <2>2. V = [n \in 0 .. N |-> IF n = 0 THEN {root} ELSE Below(V[n - 1])]
    BY <1>3, <2>1
  <2> QED BY <2>2 DEF Walked, N

<1> DEFINE W == Walked(root)
<1> HIDE DEF W
<1>5. W = [n \in 0 .. N |-> IF n = 0 THEN {root} ELSE Below(W[n - 1])]
  BY <1>4 DEF W
<1>6. \A n \in 0 .. N : W[n] = IF n = 0 THEN {root} ELSE Below(W[n - 1])
  BY <1>5
<1>7. \A n \in 0 .. N : W[n] \in SUBSET Docs
  <2> DEFINE T == {n \in 0 .. N : W[n] \in SUBSET Docs}
  <2>1. 0 \in T /\ T \in SUBSET (0 .. N)
    BY <1>1, <1>6
  <2>2. ASSUME NEW n \in T, n < N PROVE n + 1 \in T
    <3>1. n + 1 \in 0 .. N /\ n + 1 # 0 /\ n + 1 - 1 = n
      BY <1>1, <2>2
    <3>2. W[n + 1] = Below(W[n])
      BY <1>6, <3>1
    <3> QED BY <1>2, <2>2, <3>1, <3>2
  <2> HIDE DEF T
  <2>3. T = 0 .. N
    BY <1>1, <2>1, <2>2, LevelInduction
  <2> QED BY <2>3 DEF T
<1>8. Walks(W, N, F, {root})
  <2>1. \A n \in 0 .. N : n # 0 => F[W[n - 1]] = Below(W[n - 1])
    <3>1. \A n \in 0 .. N : n # 0 => n - 1 \in 0 .. N
      BY <1>1
    <3> QED BY <1>2, <1>7, <3>1
  <2> QED BY <1>5, <2>1 DEF Walks
<1>9. W[0] = {root} /\ \A n \in Nat : n < N => W[n + 1] = Below(W[n])
  <2>1. \A n \in Nat : n < N => W[n + 1] = F[W[n]] /\ n \in 0 .. N
    BY <1>1, <1>8, WalkLevels
  <2> QED BY <1>1, <1>2, <1>6, <1>7, <2>1
<1>10. Children(W[N]) \subseteq W[N] /\ \A n \in 0 .. N : W[n] \subseteq W[N]
  BY <1>3, <1>8 DEF Below
<1> QED BY <1>7, <1>9, <1>10 DEF W, N, CollectDocumentTreeIds

\* The chain above p, as far as the pages shown go, is closed.
LEMMA AboveIsClosed ==
  ASSUME TypeOK, NEW p \in Docs, NEW w
  PROVE  p \in Above(p, w) /\ \A d \in Above(p, w) \cap Live(w) : docs[d].parent \in Above(p, w)
<1> DEFINE X == Docs \cup {NoDoc}
           N == Cardinality(Docs)
           Up(S) == S \cup {docs[d].parent : d \in S \cap Live(w)}
           F == [S \in SUBSET X |-> Up(S)]
<1>1. IsFiniteSet(X) /\ N \in Nat /\ Cardinality(X) <= N + Cardinality({p})
  <2>1. /\ IsFiniteSet(Docs) /\ Cardinality(Docs) \in Nat
        /\ IsFiniteSet(X) /\ Cardinality(X) = Cardinality(Docs) + 1
    BY PageTreeAssumption, FS_CardinalityType, FS_AddElement
  <2>2. Cardinality({p}) = 1
    BY FS_Singleton
  <2> QED BY <2>1, <2>2
<1>2. \A S \in SUBSET X : Up(S) \in SUBSET X
  BY StoredPages DEF Live, Page
<1>3. F \in [SUBSET X -> SUBSET X] /\ \A S \in SUBSET X : F[S] = Up(S) /\ S \subseteq F[S]
  BY <1>2
<1>4. {p} \in SUBSET X /\ Grows(X, F)
  BY <1>3 DEF Grows
<1> HIDE DEF F, N, X, Up
<1>5. ASSUME NEW W, Walks(W, N, F, {p})
      PROVE  /\ W = [n \in 0 .. N |-> IF n = 0 THEN {p} ELSE Up(W[n - 1])]
             /\ p \in W[N] /\ Up(W[N]) = W[N]
  <2>1. /\ \A n \in 0 .. N : W[n] \in SUBSET X /\ W[n] \subseteq W[N]
        /\ F[W[N]] = W[N]
    BY <1>1, <1>4, <1>5, WalkIsDone
  <2>2. \A n \in 0 .. N : n # 0 => n - 1 \in 0 .. N
    BY <1>1
  <2>3. \A n \in 0 .. N : n # 0 => F[W[n - 1]] = Up(W[n - 1])
    BY <1>3, <2>1, <2>2
  <2>4. Up(W[N]) = W[N]
    BY <1>1, <1>3, <2>1
  <2>5. p \in W[N]
    <3>1. W[0] = {p} /\ 0 \in 0 .. N
      BY <1>1, <1>5, WalkLevels
    <3> QED BY <2>1, <3>1
  <2> QED BY <1>5, <2>3, <2>4, <2>5 DEF Walks
<1> DEFINE Is(W) == W = [n \in 0 .. N |-> IF n = 0 THEN {p} ELSE Up(W[n - 1])]
<1>6. PICK W : Is(W) /\ Above(p, w) = W[N]
  <2>1. PICK V : Walks(V, N, F, {p})
    BY <1>1, WalkExists
  <2>2. Is(V)
    BY <1>5, <2>1
  <2>3. Is(CHOOSE W : Is(W))
    BY <2>2
  <2>4. Above(p, w) = (CHOOSE W : Is(W))[N]
    BY DEF Above, N, Up
  <2> QED BY <2>3, <2>4
<1>7. \A n \in 0 .. N : W[n] \in SUBSET X
  <2> DEFINE T == {n \in 0 .. N : W[n] \in SUBSET X}
  <2>1. \A n \in 0 .. N : W[n] = IF n = 0 THEN {p} ELSE Up(W[n - 1])
    BY <1>6
  <2>2. 0 \in T /\ T \in SUBSET (0 .. N)
    BY <1>1, <1>4, <2>1
  <2>3. ASSUME NEW n \in T, n < N PROVE n + 1 \in T
    <3>1. n + 1 \in 0 .. N /\ n + 1 # 0 /\ n + 1 - 1 = n
      BY <1>1, <2>3
    <3>2. W[n + 1] = Up(W[n])
      BY <2>1, <3>1
    <3> QED BY <1>2, <2>3, <3>1, <3>2
  <2> HIDE DEF T
  <2>4. T = 0 .. N
    BY <1>1, <2>2, <2>3, LevelInduction
  <2> QED BY <2>4 DEF T
<1>8. Walks(W, N, F, {p})
  <2>1. \A n \in 0 .. N : n # 0 => n - 1 \in 0 .. N
    BY <1>1
  <2>2. \A n \in 0 .. N : n # 0 => F[W[n - 1]] = Up(W[n - 1])
    BY <1>3, <1>7, <2>1
  <2> QED BY <1>6, <2>2 DEF Walks
<1>9. p \in W[N] /\ Up(W[N]) = W[N]
  BY <1>5, <1>8
<1> QED BY <1>6, <1>9 DEF Up

-----------------------------------------------------------------------------
(* Types.                                                                   *)

LEMMA ActivateType ==
  ASSUME NEW u \in [pageWs : Workspaces, ws : Workspaces, current : Docs \cup {NoDoc},
                    locked : BOOLEAN],
         NEW w \in Workspaces
  PROVE  /\ ActivateWorkspace(u, w) \in [pageWs : Workspaces, ws : Workspaces,
                                         current : Docs \cup {NoDoc}, locked : BOOLEAN]
         /\ ClearCurrentDocumentSelection(u) \in [pageWs : Workspaces, ws : Workspaces,
                                                  current : Docs \cup {NoDoc}, locked : BOOLEAN]
         /\ \A S : Forget(u, S) \in [pageWs : Workspaces, ws : Workspaces,
                                     current : Docs \cup {NoDoc}, locked : BOOLEAN]
  BY DEF ActivateWorkspace, ClearCurrentDocumentSelection, Forget

\* What a walk that is cut short has handled, and what that costs.
LEMMA HandledType ==
  ASSUME TypeOK, NEW d \in Docs, NEW S \in Beginnings(d)
  PROVE  /\ S \subseteq CollectDocumentTreeIds(d)
         /\ Charge(d, S) => /\ faults' \in 0 .. MaxFaults
                            /\ faults' = faults => S = CollectDocumentTreeIds(d)
<1>1. MaxFaults \in Nat /\ faults \in 0 .. MaxFaults
  BY PageTreeAssumption DEF TypeOK
<1>2. S \subseteq CollectDocumentTreeIds(d) /\ (S = CollectDocumentTreeIds(d) \/ faults < MaxFaults)
  BY DEF Beginnings, Handled
<1> HIDE DEF CollectDocumentTreeIds
<1> QED BY <1>1, <1>2 DEF Charge

LEMMA TrashedType ==
  ASSUME TypeOK, NEW S, NEW t \in BOOLEAN, SetTrashed(S, t)
  PROVE  /\ docs' \in [Docs -> Page \cup {Absent}]
         /\ \A d \in Docs : IF d \in S /\ docs[d] # Absent
                            THEN docs'[d] = [docs[d] EXCEPT !.trashed = t] /\ docs'[d].trashed = t
                            ELSE docs'[d] = docs[d]
  BY DEF TypeOK, SetTrashed, Stored, Page

LEMMA NewPageType ==
  ASSUME TypeOK, NEW d \in Docs, NEW w \in Workspaces, NEW p \in Docs \cup {NoDoc},
         docs' = [docs EXCEPT ![d] = NewPage(w, p)]
  PROVE  /\ docs' \in [Docs -> Page \cup {Absent}] /\ docs'[d] = NewPage(w, p)
         /\ NewPage(w, p).parent = p /\ NewPage(w, p).ws = w
         /\ \A e \in Docs : e # d => docs'[e] = docs[e]
  BY DEF TypeOK, NewPage, Page

LEMMA DeleteType ==
  ASSUME TypeOK, NEW S, Delete(S)
  PROVE  /\ docs' \in [Docs -> Page \cup {Absent}] /\ own' \subseteq Docs
         /\ \A d \in Docs : docs'[d] = IF d \in S THEN Absent ELSE docs[d]
  BY DEF TypeOK, Delete

LEMMA TypeStep ==
  ASSUME TypeOK, [Next]_vars
  PROVE  TypeOK'
<1> DEFINE Ui == [pageWs : Workspaces, ws : Workspaces, current : Docs \cup {NoDoc},
                  locked : BOOLEAN]
<1> USE PageTreeAssumption
<1>1. ui \in Ui /\ ui.ws \in Workspaces /\ \A d \in Stored : docs[d].ws \in Workspaces
  BY StoredPages DEF TypeOK, Page
<1>2. \A w \in Workspaces : ActivateWorkspace(ui, w) \in Ui
  BY <1>1, ActivateType
<1>3. \A S : Forget(ui, S) \in Ui
  BY <1>1, ActivateType
<1> HIDE DEF Ui
<1>4. ASSUME ui' \in Ui, docs' \in [Docs -> Page \cup {Absent}], roots' \subseteq Workspaces,
             own' \subseteq Docs, hung' \in BOOLEAN, faults' \in 0 .. MaxFaults
      PROVE  TypeOK'
  BY <1>4 DEF TypeOK, Ui
<1>5. CASE UNCHANGED vars
  BY <1>5 DEF TypeOK, vars
<1>6. ASSUME NEW w \in Workspaces, OnTreePressed(w) \/ RestoreWorkspaceFromBackup(w)
      PROVE  TypeOK'
  <2>1. ui' \in Ui
    BY <1>1, <1>2, <1>6 DEF OnTreePressed, RestoreWorkspaceFromBackup, Ui
  <2> QED BY <1>4, <1>6, <2>1 DEF OnTreePressed, RestoreWorkspaceFromBackup, TypeOK
<1>7. ASSUME NEW d \in Docs, NEW l \in BOOLEAN, LoadDocument(d, l)
      PROVE  TypeOK'
  <2>1. ui' \in Ui
    BY <1>1, <1>7 DEF LoadDocument, Ui
  <2> QED BY <1>4, <1>7, <2>1 DEF LoadDocument, TypeOK
<1>8. ASSUME NEW l \in BOOLEAN, SetCurrentDocumentAccess(l) PROVE TypeOK'
  <2>1. ui' \in Ui
    BY <1>1, <1>8 DEF SetCurrentDocumentAccess, Ui
  <2> QED BY <1>4, <1>8, <2>1 DEF SetCurrentDocumentAccess, TypeOK
<1>9. ASSUME NEW d \in Docs, NEW w \in Workspaces, NEW p \in Docs \cup {NoDoc},
             CreateDocument(d, w, p)
      PROVE  TypeOK'
  <2>1. docs' \in [Docs -> Page \cup {Absent}]
    BY <1>9, NewPageType DEF CreateDocument
  <2> QED BY <1>2, <1>4, <1>9, <2>1 DEF CreateDocument, TypeOK
<1>10. ASSUME NEW d \in Docs, NEW w \in Workspaces, NEW p \in Docs \cup {NoDoc},
              MoveDocumentToPlacement(d, p, w)
       PROVE  TypeOK'
  <2>1. docs' = [docs EXCEPT ![d].parent = p] /\ docs[d] \in Page
    BY <1>10, StoredPages DEF MoveDocumentToPlacement, CanMove, Live
  <2>2. [docs[d] EXCEPT !.parent = p] \in Page
    BY <2>1 DEF Page
  <2>3. docs' \in [Docs -> Page \cup {Absent}]
    BY <2>1, <2>2 DEF TypeOK
  <2> QED BY <1>2, <1>4, <1>10, <2>3 DEF MoveDocumentToPlacement, TypeOK
<1>11. ASSUME NEW d \in Docs, DeleteDocument(d) PROVE TypeOK'
  <2> DEFINE u == ActivateWorkspace(ui, docs[d].ws)
             c == CollectDocumentTreeIds(d)
  <2>1. u \in Ui
    BY <1>1, <1>2, <1>11 DEF DeleteDocument
  <2>2. ClearCurrentDocumentSelection(u) \in Ui /\ Forget(u, {d}) \in Ui
    BY <1>1, <1>11, <2>1, ActivateType DEF Ui, DeleteDocument
  <2>3. CASE Hang(d)
    BY <1>4, <2>3, <1>1 DEF Hang, TypeOK
  <2>4. ASSUME NEW S \in Beginnings(d), SetTrashed(S, TRUE), own' = own \cup ({d} \cap S),
               ui' = IF S # c THEN u
                     ELSE IF Live(u.pageWs) \subseteq S THEN ClearCurrentDocumentSelection(u)
                     ELSE Forget(u, {d}),
               Charge(d, S), UNCHANGED <<roots, hung>>
        PROVE  TypeOK'
    <3>1. docs' \in [Docs -> Page \cup {Absent}] /\ faults' \in 0 .. MaxFaults
      BY <2>4, TrashedType, HandledType
    <3>2. ui' \in Ui
      BY <2>1, <2>2, <2>4
    <3> QED BY <1>4, <2>4, <3>1, <3>2 DEF TypeOK
  <2> QED BY <1>11, <2>3, <2>4 DEF DeleteDocument
<1>12. ASSUME NEW d \in Docs, RestoreDocument(d) PROVE TypeOK'
  <2>1. CASE Hang(d)
    BY <1>4, <2>1, <1>1 DEF Hang, TypeOK
  <2>2. ASSUME NEW S \in Beginnings(d), SetTrashed(S, FALSE), own' = own \ S, Charge(d, S),
               UNCHANGED <<roots, ui, hung>>
        PROVE  TypeOK'
    <3>1. docs' \in [Docs -> Page \cup {Absent}] /\ faults' \in 0 .. MaxFaults
      BY <2>2, TrashedType, HandledType
    <3> QED BY <1>1, <1>4, <2>2, <3>1 DEF TypeOK
  <2> QED BY <1>12, <2>1, <2>2 DEF RestoreDocument
<1>13. ASSUME NEW d \in Docs, PermanentlyDeleteDocument(d) PROVE TypeOK'
  <2>1. CASE Hang(d)
    BY <1>4, <2>1, <1>1 DEF Hang, TypeOK
  <2>2. CASE /\ Delete(CollectDocumentTreeIds(d)) /\ ui' = Forget(ui, {d})
             /\ UNCHANGED <<roots, hung, faults>>
    BY <1>3, <1>4, <2>2, DeleteType DEF TypeOK
  <2>3. ASSUME NEW S \in Beginnings(d), Delete(CollectDocumentTreeIds(d) \ S), Charge(d, S),
               UNCHANGED <<roots, hung, ui>>
        PROVE  TypeOK'
    BY <1>1, <1>4, <2>3, DeleteType, HandledType DEF TypeOK
  <2> QED BY <1>13, <2>1, <2>2, <2>3 DEF PermanentlyDeleteDocument
<1>14. CASE EmptyTrash
  <2>1. PICK S \in SUBSET Trash(ui.ws) :
          /\ S # Trash(ui.ws) => faults < MaxFaults
          /\ Delete(S) /\ ui' = Forget(ui, S)
          /\ faults' = IF S = Trash(ui.ws) THEN faults ELSE faults + 1
          /\ UNCHANGED <<roots, hung>>
    BY <1>14 DEF EmptyTrash
  <2>2. faults' \in 0 .. MaxFaults
    BY <2>1 DEF TypeOK
  <2> QED BY <1>3, <1>4, <2>1, <2>2, DeleteType DEF TypeOK
<1>15. ASSUME NEW w \in Workspaces, NEW d \in Docs, ListDocumentsInWorkspace(w, d)
       PROVE  TypeOK'
  <2>1. docs' \in [Docs -> Page \cup {Absent}]
    BY <1>15, NewPageType DEF ListDocumentsInWorkspace
  <2>2. faults' \in 0 .. MaxFaults /\ roots' \subseteq Workspaces
    BY <1>15 DEF ListDocumentsInWorkspace, TypeOK
  <2> QED BY <1>1, <1>4, <1>15, <2>1, <2>2 DEF ListDocumentsInWorkspace, TypeOK
<1>16. CASE UpdateSnapshot
  <2>1. docs' \in [Docs -> Page \cup {Absent}]
    BY <1>16, NewPageType DEF UpdateSnapshot
  <2> QED BY <1>1, <1>4, <1>16, <2>1 DEF UpdateSnapshot, TypeOK
<1>17. ASSUME NEW d \in Docs, ReplicatedDelete(d) PROVE TypeOK'
  BY <1>1, <1>4, <1>17, DeleteType DEF ReplicatedDelete, TypeOK
<1>18. ASSUME NEW d \in Docs, NEW r \in Page, ReplicatedPut(d, r) PROVE TypeOK'
  BY <1>1, <1>4, <1>18 DEF ReplicatedPut, TypeOK
<1>19. ASSUME NEW w \in Workspaces, ReplicatedRoot(w) PROVE TypeOK'
  BY <1>1, <1>4, <1>19 DEF ReplicatedRoot, TypeOK
<1>20. CASE LocalStep
  <2> USE <1>20 DEF LocalStep
  <2>1. CASE \E w \in Workspaces : OnTreePressed(w) \/ RestoreWorkspaceFromBackup(w)
    BY <1>6, <2>1
  <2>2. CASE \/ \E d \in Docs, l \in BOOLEAN : LoadDocument(d, l)
             \/ \E l \in BOOLEAN : SetCurrentDocumentAccess(l)
    BY <1>7, <1>8, <2>2
  <2>3. CASE \E d \in Docs, w \in Workspaces, p \in Docs \cup {NoDoc} :
               CreateDocument(d, w, p) \/ MoveDocumentToPlacement(d, p, w)
    BY <1>9, <1>10, <2>3
  <2>4. CASE \E d \in Docs : \/ DeleteDocument(d) \/ RestoreDocument(d)
                             \/ PermanentlyDeleteDocument(d)
    BY <1>11, <1>12, <1>13, <2>4
  <2>5. CASE \E w \in Workspaces, d \in Docs : ListDocumentsInWorkspace(w, d)
    BY <1>15, <2>5
  <2> QED BY <1>14, <1>16, <2>1, <2>2, <2>3, <2>4, <2>5
<1>21. CASE RemoteStep
  BY <1>17, <1>18, <1>19, <1>21 DEF RemoteStep
<1> QED BY <1>5, <1>20, <1>21 DEF Next

-----------------------------------------------------------------------------
(* Types.                                                                   *)

\* Pages, selections and the history of the trash keep their types, whatever
\* other desktops write and wherever a walk is cut short.
THEOREM TypeCorrect == Spec => []TypeOK
<1>1. Init => TypeOK
  <2> SUFFICES ASSUME Init PROVE TypeOK
    OBVIOUS
  <2>1. docs \in [Docs -> Page \cup {Absent}]
    BY DEF Init
  <2>2. ui \in [pageWs : Workspaces, ws : Workspaces, current : Docs \cup {NoDoc},
               locked : BOOLEAN]
    BY PageTreeAssumption DEF Init
  <2>3. 0 \in 0 .. MaxFaults
    BY PageTreeAssumption
  <2> QED BY <2>1, <2>2, <2>3 DEF Init, TypeOK
<1>2. TypeOK /\ [Next]_vars => TypeOK'
  BY TypeStep
<1> QED BY <1>1, <1>2, PTL DEF Spec

-----------------------------------------------------------------------------
(* Cycles.                                                                  *)

\* A set of pages, none in the trash, that has the parent of each of them.
Loop(T, all) ==
  /\ T # {}
  /\ \A d \in T : all[d] # Absent /\ ~all[d].trashed /\ all[d].parent \in T

LEMMA LoopLemma ==
  /\ LiveAcyclic <=> \A T \in SUBSET Docs : ~Loop(T, docs)
  /\ LiveAcyclic' <=> \A T \in SUBSET Docs : ~Loop(T, docs')
<1>1. LiveAcyclic <=> \A T \in SUBSET Docs : ~Loop(T, docs)
  BY DEF LiveAcyclic, Loop, Stored
<1>2. LiveAcyclic' <=> \A T \in SUBSET Docs : ~Loop(T, docs')
  BY DEF LiveAcyclic, Loop, Stored
<1> QED BY <1>1, <1>2

\* Nothing that is live after the step was not live, below the same page, before.
LEMMA FewerLoops ==
  ASSUME LiveAcyclic,
         \A d \in Docs : docs'[d] # Absent /\ ~docs'[d].trashed =>
           docs[d] # Absent /\ ~docs[d].trashed /\ docs[d].parent = docs'[d].parent
  PROVE  LiveAcyclic'
<1>1. \A T \in SUBSET Docs : Loop(T, docs') => Loop(T, docs)
  BY DEF Loop
<1> QED BY <1>1, LoopLemma

\* A page that comes anew, at the top or with nothing below it.
LEMMA NewPageCloses ==
  ASSUME TypeOK, LiveAcyclic, NEW d \in Docs, NEW w \in Workspaces, NEW p \in Docs \cup {NoDoc},
         docs' = [docs EXCEPT ![d] = NewPage(w, p)],
         p = NoDoc \/ (p # d /\ \A c \in Stored : docs[c].parent # d)
  PROVE  LiveAcyclic'
<1>1. SUFFICES ASSUME NEW T \in SUBSET Docs, Loop(T, docs') PROVE FALSE
  BY LoopLemma
<1>2. docs'[d].parent = p /\ \A e \in Docs : e # d => docs'[e] = docs[e]
  BY NewPageType
<1>3. d \notin T \/ p # NoDoc
  BY <1>1, <1>2, StoredPages DEF Loop
<1>4. Loop(T \ {d}, docs)
  <2>1. ASSUME NEW e \in T \ {d}
        PROVE  docs[e] # Absent /\ ~docs[e].trashed /\ docs[e].parent \in T \ {d}
    <3>1. docs[e] # Absent /\ ~docs[e].trashed /\ docs[e].parent \in T
      BY <1>1, <1>2 DEF Loop
    <3>2. d \in T => docs[e].parent # d
      BY <1>3, <3>1 DEF Stored
    <3> QED BY <3>1, <3>2
  <2>2. T \ {d} # {}
    BY <1>1, <1>2, <1>3 DEF Loop
  <2> QED BY <2>1, <2>2 DEF Loop
<1> QED BY <1>4, LoopLemma

\* The check of MoveDocumentToPlacement: the page moved is not above its new parent
\* as far as the pages shown go, and a chain that leaves them stays in "default".
LEMMA MoveCloses ==
  ASSUME TypeOK, Nested, LiveAcyclic, NEW d \in Docs, NEW w \in Workspaces,
         NEW p \in Docs \cup {NoDoc}, MoveDocumentToPlacement(d, p, w)
  PROVE  LiveAcyclic'
<1>1. SUFFICES ASSUME NEW T \in SUBSET Docs, Loop(T, docs') PROVE FALSE
  BY LoopLemma
<1>2. /\ d \in Live(w) /\ docs[d] \in Page /\ docs[d].ws = w
      /\ docs' = [docs EXCEPT ![d].parent = p]
      /\ p # NoDoc => p \in Stored /\ p # d /\ docs[p].ws = w /\ d \notin Above(p, w)
  BY StoredPages DEF MoveDocumentToPlacement, CanMove, Live
<1>3. docs'[d].parent = p /\ \A e \in Docs : e # d => docs'[e] = docs[e]
  BY <1>2 DEF TypeOK, Page
<1>4. \A e \in T : docs[e] # Absent /\ ~docs[e].trashed /\ (e # d => docs[e].parent \in T)
  <2>1. docs[d] # Absent /\ ~docs[d].trashed
    BY <1>2 DEF Live, Stored
  <2> QED BY <1>1, <1>3, <2>1 DEF Loop
<1>5. d \in T
  <2> SUFFICES ASSUME d \notin T PROVE FALSE
    OBVIOUS
  <2>1. Loop(T, docs)
    BY <1>1, <1>4 DEF Loop
  <2> QED BY <2>1, LoopLemma
<1>6. /\ p \in T /\ p \in Docs /\ p # d /\ docs[p].ws = w /\ d \notin Above(p, w)
      /\ p \in Above(p, w)
      /\ \A e \in Above(p, w) \cap Live(w) : docs[e].parent \in Above(p, w)
  <2>1. p \in T /\ p \in Docs /\ p # NoDoc
    BY <1>1, <1>3, <1>5, StoredPages DEF Loop
  <2> QED BY <1>2, <2>1, AboveIsClosed
<1> DEFINE Z == {e \in T \cap Above(p, w) : docs[e].ws = w}
           Y == {e \in T : docs[e].ws = Default}
<1>7. \A e \in T \ {d} : docs[e].parent \in T /\ docs[docs[e].parent].ws \in {docs[e].ws, Default}
  BY <1>4 DEF Nested, Stored
<1>8. CASE \A e \in Z : docs[e].parent \in Z
  <2>1. p \in Z
    BY <1>6
  <2>2. Loop(Z, docs)
    BY <1>4, <1>8, <2>1 DEF Loop
  <2>3. Z \in SUBSET Docs
    OBVIOUS
  <2> QED BY <2>2, <2>3, LoopLemma
<1>9. CASE \E e \in Z : docs[e].parent \notin Z
  <2>1. PICK e \in Z : docs[e].parent \notin Z
    BY <1>9
  <2>2. e \in Live(w) /\ e # d
    BY <1>4, <1>6, <2>1 DEF Live, Stored
  <2>3. docs[e].parent \in T /\ docs[docs[e].parent].ws = Default /\ Default # w
    BY <1>6, <1>7, <2>1, <2>2
  <2>4. docs[e].parent \in Y /\ d \notin Y
    BY <1>2, <2>3
  <2>5. \A c \in Y : docs[c].parent \in Y
    BY <1>7, <2>4
  <2>6. Loop(Y, docs)
    BY <1>4, <2>4, <2>5 DEF Loop
  <2>7. Y \in SUBSET Docs
    OBVIOUS
  <2> QED BY <2>6, <2>7, LoopLemma
<1> QED BY <1>8, <1>9

\* A cycle within the tree that is restored would pass its root, and then the walk
\* would not have ended; one outside it was there before.
LEMMA RestoreCloses ==
  ASSUME TypeOK, LiveAcyclic, NEW d \in Docs, d \in Stored, WalkEnds(d),
         NEW S \in SUBSET CollectDocumentTreeIds(d), SetTrashed(S, FALSE)
  PROVE  LiveAcyclic'
<1>1. SUFFICES ASSUME NEW T \in SUBSET Docs, Loop(T, docs') PROVE FALSE
  BY LoopLemma
<1> DEFINE C == CollectDocumentTreeIds(d)
           N == Cardinality(Docs)
           W == Walked(d)
<1>2. \A e \in Docs : IF e \in S /\ docs[e] # Absent
                      THEN docs'[e] = [docs[e] EXCEPT !.trashed = FALSE] ELSE docs'[e] = docs[e]
  BY TrashedType
<1>3. \A e \in T : docs[e] # Absent /\ docs[e].parent \in T /\ (e \notin S => ~docs[e].trashed)
  <2>1. \A e \in Docs : docs[e] = Absent \/ docs[e] \in Page
    BY DEF TypeOK
  <2> QED BY <1>1, <1>2, <2>1 DEF Loop, Page
<1>4. docs[d].parent \notin C
  BY DEF WalkEnds
<1>5. /\ W[0] = {d} /\ W[N] = C /\ N \in Nat /\ Children(C) \subseteq C
      /\ \A n \in Nat : n < N => W[n + 1] = Below(W[n])
  BY WalkedLevels, StoredPages DEF CollectDocumentTreeIds
<1> HIDE DEF C, N, W
<1>6. CASE T \subseteq C
  <2> DEFINE R == {n \in 0 .. N : W[n] \cap T # {}}
  <2>1. N \in R
    BY <1>1, <1>5, <1>6 DEF Loop
  <2>2. PICK m \in R : \A n \in R : m <= n
    <3>1. R \subseteq Nat
      BY <1>5
    <3> HIDE DEF R
    <3> QED BY <2>1, <3>1, LeastNumber
  <2>3. CASE m = 0
    BY <1>3, <1>4, <1>5, <1>6, <2>2, <2>3
  <2>4. CASE m # 0
    <3>1. m - 1 \in 0 .. N /\ m - 1 \in Nat /\ m - 1 < N /\ m - 1 + 1 = m /\ ~(m <= m - 1)
      BY <1>5, <2>2, <2>4
    <3>2. W[m - 1] \cap T = {} /\ W[m] = Below(W[m - 1])
      BY <1>5, <2>2, <3>1
    <3>3. PICK e \in T : e \in W[m]
      BY <2>2
    <3>4. docs[e].parent \in W[m - 1]
      BY <3>2, <3>3 DEF Below, Children
    <3> QED BY <1>3, <3>2, <3>4
  <2> QED BY <2>3, <2>4
<1>7. CASE ~(T \subseteq C)
  <2>1. \A e \in T \ C : e \notin S /\ docs[e].parent \in T \ C
    <3>1. \A e \in T \ C : docs[e].parent \in C => e \in Children(C)
      BY <1>3 DEF Children, Stored
    <3> QED BY <1>3, <1>5, <3>1 DEF C
  <2>2. Loop(T \ C, docs)
    BY <1>3, <1>7, <2>1 DEF Loop
  <2>3. T \ C \in SUBSET Docs
    OBVIOUS
  <2> QED BY <2>2, <2>3, LoopLemma
<1> QED BY <1>6, <1>7

\* Every handler of this desktop, for a step from a state without a cycle.
LEMMA LocalStaysAcyclic ==
  ASSUME TypeOK, Nested, LiveAcyclic, LocalStep
  PROVE  LiveAcyclic'
<1>1. ASSUME UNCHANGED docs PROVE LiveAcyclic'
  BY <1>1 DEF LiveAcyclic, Stored
<1>2. ASSUME NEW S, SetTrashed(S, TRUE) PROVE LiveAcyclic'
  <2>1. \A d \in Docs : docs[d] # Absent => docs[d] \in Page
    BY DEF TypeOK
  <2>2. \A d \in Docs : docs'[d] # Absent /\ ~docs'[d].trashed => docs'[d] = docs[d]
    BY <1>2, TrashedType
  <2> QED BY <2>2, FewerLoops
<1>3. ASSUME NEW S, Delete(S) PROVE LiveAcyclic'
  <2>1. \A d \in Docs : docs'[d] # Absent => docs'[d] = docs[d]
    BY <1>3, DeleteType
  <2> QED BY <2>1, FewerLoops
<1>4. ASSUME NEW d \in Docs PROVE Hang(d) => LiveAcyclic'
  BY <1>1 DEF Hang
<1>5. CASE \/ \E w \in Workspaces : OnTreePressed(w) \/ RestoreWorkspaceFromBackup(w)
           \/ \E d \in Docs, l \in BOOLEAN : LoadDocument(d, l)
           \/ \E l \in BOOLEAN : SetCurrentDocumentAccess(l)
  <2>1. \A w \in Workspaces : OnTreePressed(w) \/ RestoreWorkspaceFromBackup(w) => docs' = docs
    BY DEF OnTreePressed, RestoreWorkspaceFromBackup
  <2>2. \A d \in Docs, l \in BOOLEAN : LoadDocument(d, l) => docs' = docs
    BY DEF LoadDocument
  <2>3. \A l \in BOOLEAN : SetCurrentDocumentAccess(l) => docs' = docs
    BY DEF SetCurrentDocumentAccess
  <2> QED BY <1>1, <1>5, <2>1, <2>2, <2>3
<1>6. ASSUME NEW d \in Docs, NEW w \in Workspaces, NEW p \in Docs \cup {NoDoc},
             CreateDocument(d, w, p)
      PROVE  LiveAcyclic'
  <2>1. p = NoDoc \/ (p # d /\ \A c \in Stored : docs[c].parent # d)
    BY <1>6 DEF CreateDocument, Fresh
  <2>2. docs' = [docs EXCEPT ![d] = NewPage(w, p)]
    BY <1>6 DEF CreateDocument
  <2> QED BY <2>1, <2>2, NewPageCloses
<1>7. ASSUME NEW d \in Docs, NEW w \in Workspaces, NEW p \in Docs \cup {NoDoc},
             MoveDocumentToPlacement(d, p, w)
      PROVE  LiveAcyclic'
  BY <1>7, MoveCloses
<1>8. ASSUME NEW d \in Docs, DeleteDocument(d) PROVE LiveAcyclic'
  <2>1. Hang(d) \/ \E S \in Beginnings(d) : SetTrashed(S, TRUE)
    BY <1>8 DEF DeleteDocument
  <2> QED BY <1>2, <1>4, <2>1
<1>9. ASSUME NEW d \in Docs, RestoreDocument(d) PROVE LiveAcyclic'
  <2>1. d \in Stored /\ (Hang(d) \/ (WalkEnds(d) /\ \E S \in Beginnings(d) : SetTrashed(S, FALSE)))
    BY <1>9 DEF RestoreDocument, Trash
  <2>2. CASE Hang(d)
    BY <1>4, <2>2
  <2>3. CASE WalkEnds(d) /\ \E S \in Beginnings(d) : SetTrashed(S, FALSE)
    <3>1. PICK S \in Beginnings(d) : SetTrashed(S, FALSE)
      BY <2>3
    <3>2. S \in SUBSET CollectDocumentTreeIds(d)
      BY DEF Beginnings, Handled
    <3> QED BY <2>1, <2>3, <3>1, <3>2, RestoreCloses
  <2> QED BY <2>1, <2>2, <2>3
<1>10. ASSUME NEW d \in Docs, PermanentlyDeleteDocument(d) PROVE LiveAcyclic'
  <2>1. Hang(d) \/ \E S : Delete(S)
    BY <1>10 DEF PermanentlyDeleteDocument
  <2> QED BY <1>3, <1>4, <2>1
<1>11. CASE EmptyTrash
  <2>1. \E S : Delete(S)
    BY <1>11 DEF EmptyTrash
  <2> QED BY <1>3, <2>1
<1>12. ASSUME NEW w \in Workspaces, NEW d \in Docs, ListDocumentsInWorkspace(w, d)
       PROVE  LiveAcyclic'
  BY <1>12, NewPageCloses DEF ListDocumentsInWorkspace
<1>13. CASE UpdateSnapshot
  <2>1. /\ ui.current \in Docs /\ Default \in Workspaces
        /\ docs' = [docs EXCEPT ![ui.current] = NewPage(Default, NoDoc)]
    BY <1>13, PageTreeAssumption DEF UpdateSnapshot
  <2> QED BY <2>1, NewPageCloses
<1>14. CASE \E d \in Docs, w \in Workspaces, p \in Docs \cup {NoDoc} :
              CreateDocument(d, w, p) \/ MoveDocumentToPlacement(d, p, w)
  BY <1>6, <1>7, <1>14
<1>15. CASE \E d \in Docs : \/ DeleteDocument(d) \/ RestoreDocument(d)
                            \/ PermanentlyDeleteDocument(d)
  BY <1>8, <1>9, <1>10, <1>15
<1>16. CASE \E w \in Workspaces, d \in Docs : ListDocumentsInWorkspace(w, d)
  BY <1>12, <1>16
<1> QED BY <1>5, <1>11, <1>13, <1>14, <1>15, <1>16 DEF LocalStep

\* No handler of the desktop makes a page its own ancestor through pages that are
\* not in the trash: MoveDocumentToPlacement climbs the pages shown only, and
\* RestoreDocumentTree brings back whatever it reaches.
THEOREM CyclesCorrect == Spec => OnlyRemotesCloseCycles
<1> DEFINE Step == Nested /\ LiveAcyclic /\ ~LiveAcyclic' => ~LocalStep
<1>1. TypeOK /\ [Next]_vars => [Step]_vars
  BY LocalStaysAcyclic
<1>2. OnlyRemotesCloseCycles <=> [][Step]_vars
  BY DEF OnlyRemotesCloseCycles
<1> HIDE DEF Step
<1> QED BY <1>1, <1>2, TypeCorrect, PTL DEF Spec

-----------------------------------------------------------------------------
(* Deleting and emptying.                                                   *)

\* Walked again without an error, the tree below d is in the trash to its end.
LEMMA DeleteReaches ==
  ASSUME TypeOK, NEW d \in Docs, DeleteDocument(d), faults' = faults, ~hung'
  PROVE  \E S \in SUBSET Stored :
           d \in S /\ Children(S) \subseteq S /\ \A c \in S : docs'[c].trashed
<1> DEFINE C == CollectDocumentTreeIds(d)
           S == C \cap Stored
<1>1. d \in Stored
  BY DEF DeleteDocument
<1>2. PICK T \in Beginnings(d) : SetTrashed(T, TRUE) /\ Charge(d, T)
  BY DEF DeleteDocument, Hang
<1>3. T = C
  BY <1>2 DEF Charge, TypeOK
<1>4. d \in C /\ Children(C) \subseteq C /\ C \subseteq Docs
  <2>1. Walked(d)[0] = {d} /\ 0 \in 0 .. Cardinality(Docs)
    BY WalkedLevels, StoredPages
  <2>2. Cardinality(Docs) \in 0 .. Cardinality(Docs)
    BY StoredPages
  <2> QED BY <2>1, <2>2, WalkedLevels DEF CollectDocumentTreeIds
<1>5. Children(S) \subseteq S
  BY <1>4 DEF Children
<1>6. \A c \in S : docs'[c].trashed
  BY <1>2, <1>3, <1>4, TrashedType DEF Stored
<1> QED BY <1>1, <1>4, <1>5, <1>6

\* A delete without a storage error trashes everything below the page, also below
\* what lay in the trash already: TrashDocumentTree over CollectDocumentTreeIds.
THEOREM DeleteCorrect == Spec => DeleteReachesAll
<1> DEFINE Step == \A d \in Docs : DeleteDocument(d) /\ faults' = faults /\ ~hung' =>
                     \E S \in SUBSET Stored :
                       d \in S /\ Children(S) \subseteq S /\ \A c \in S : docs'[c].trashed
<1>1. TypeOK /\ [Next]_vars => [Step]_vars
  BY DeleteReaches
<1>2. DeleteReachesAll <=> [][Step]_vars
  BY DEF DeleteReachesAll
<1> HIDE DEF Step
<1> QED BY <1>1, <1>2, TypeCorrect, PTL DEF Spec

\* Emptying the trash deletes what it lists and walks no tree, so that a page
\* restored out of a deleted tree stays: emptyTrash.
THEOREM EmptyCorrect == Spec => EmptyTrashKeepsLive
<1> DEFINE Step == EmptyTrash => \A d \in Stored : ~docs[d].trashed => docs'[d] = docs[d]
<1>1. TypeOK /\ [Next]_vars => [Step]_vars
  <2> SUFFICES ASSUME TypeOK, EmptyTrash, NEW d \in Stored, ~docs[d].trashed
               PROVE  docs'[d] = docs[d]
    OBVIOUS
  <2>1. PICK S \in SUBSET Trash(ui.ws) : Delete(S)
    BY DEF EmptyTrash
  <2>2. d \in Docs /\ d \notin S
    BY DEF Trash, Stored
  <2> QED BY <2>1, <2>2, DeleteType
<1>2. EmptyTrashKeepsLive <=> [][Step]_vars
  BY DEF EmptyTrashKeepsLive
<1> HIDE DEF Step
<1> QED BY <1>1, <1>2, TypeCorrect, PTL DEF Spec

-----------------------------------------------------------------------------
(* Graphs: the critical path and the rows of the Gantt tab.                 *)

\* A step that never leaves out what it had when it is given more.
Monotone(X, F) ==
  /\ F \in [SUBSET X -> SUBSET X]
  /\ \A S, R \in SUBSET X : S \subseteq R => F[S] \subseteq F[R]

\* Its walk W from A through X reaches all of X unless members wait for each other.
Reaches(X, F, A, W) ==
  /\ \A n \in 0 .. Cardinality(X) : W[n] \in SUBSET X
  /\ \A n \in Nat : n < Cardinality(X) => W[n + 1] = F[W[n]] /\ W[n] \subseteq W[n + 1]
  /\ W[0] = A
  /\ W[Cardinality(X)] = X <=> \A S \in SUBSET X : S # {} => S \cap F[X \ S] # {}

\* A walk by such steps, from nothing or from the first of them, is done after
\* as many levels as X has members.
LEMMA MonotoneWalk ==
  ASSUME NEW X, IsFiniteSet(X), NEW F, Monotone(X, F), NEW A \in SUBSET X,
         A = {} \/ A = F[{}], NEW W, Walks(W, Cardinality(X), F, A)
  PROVE  Reaches(X, F, A, W)
<1> DEFINE N == Cardinality(X)
           G == [S \in SUBSET X |-> S \cup F[S]]
<1>1. N \in Nat
  BY FS_CardinalityType
<1>2. /\ F \in [SUBSET X -> SUBSET X]
      /\ \A S, R \in SUBSET X : S \subseteq R => F[S] \subseteq F[R]
  BY DEF Monotone
<1>3. W[0] = A /\ \A n \in Nat : n < N => W[n + 1] = F[W[n]]
  BY <1>1, WalkLevels
<1>4. A \subseteq F[A]
  BY <1>2
<1> DEFINE T == {n \in 0 .. N : W[n] \in SUBSET X /\ W[n] \subseteq F[W[n]]}
<1>5. T = 0 .. N
  <2>1. 0 \in T /\ T \in SUBSET (0 .. N)
    BY <1>1, <1>3, <1>4
  <2>2. ASSUME NEW n \in T, n < N PROVE n + 1 \in T
    <3>1. n \in Nat /\ n + 1 \in 0 .. N /\ W[n + 1] = F[W[n]]
      BY <1>1, <1>3, <2>2
    <3>2. W[n] \in SUBSET X /\ W[n] \subseteq F[W[n]]
      BY <2>2
    <3>3. W[n + 1] \in SUBSET X /\ W[n] \subseteq W[n + 1]
      BY <1>2, <3>1, <3>2
    <3>4. F[W[n]] \subseteq F[W[n + 1]]
      BY <1>2, <3>2, <3>3
    <3> QED BY <3>1, <3>3, <3>4
  <2> HIDE DEF T
  <2> QED BY <1>1, <2>1, <2>2, LevelInduction
<1>6. \A n \in 0 .. N : W[n] \in SUBSET X /\ W[n] \subseteq F[W[n]]
  BY <1>5
<1> HIDE DEF T
<1>7. Walks(W, N, G, A)
  <2>1. W = [n \in 0 .. N |-> IF n = 0 THEN A ELSE F[W[n - 1]]]
    BY DEF Walks
  <2>2. \A n \in 0 .. N : n # 0 => G[W[n - 1]] = F[W[n - 1]]
    <3> SUFFICES ASSUME NEW n \in 0 .. N, n # 0 PROVE G[W[n - 1]] = F[W[n - 1]]
      OBVIOUS
    <3>1. n - 1 \in 0 .. N
      BY <1>1
    <3> QED BY <1>6, <3>1
  <2> DEFINE U == [n \in 0 .. N |-> IF n = 0 THEN A ELSE G[W[n - 1]]]
             V == [n \in 0 .. N |-> IF n = 0 THEN A ELSE F[W[n - 1]]]
  <2> HIDE DEF G
  <2>3. U = V
    BY <2>2
  <2> QED BY <2>1, <2>3 DEF Walks
<1>8. Grows(X, G)
  BY <1>2 DEF Grows
<1>9. G[W[N]] = W[N]
  <2>1. IsFiniteSet(A) /\ Cardinality(A) \in Nat
    BY FS_Subset, FS_CardinalityType
  <2>2. Cardinality(X) <= N + Cardinality(A)
    BY <1>1, <2>1
  <2> HIDE DEF G, N
  <2> QED BY <1>1, <1>7, <1>8, <2>2, WalkIsDone
<1>10. W[N] \in SUBSET X /\ F[W[N]] = W[N]
  <2>1. N \in 0 .. N
    BY <1>1
  <2> QED BY <1>6, <1>9, <2>1
<1>11. ASSUME W[N] = X, NEW S \in SUBSET X, S # {}, S \cap F[X \ S] = {}
       PROVE  FALSE
  <2> DEFINE R == {n \in 0 .. N : W[n] \subseteq X \ S}
  <2>1. 0 \in R /\ R \in SUBSET (0 .. N)
    <3>1. F[{}] \subseteq F[X \ S] /\ F[X \ S] \subseteq X
      BY <1>2
    <3> QED BY <1>1, <1>3, <1>11, <3>1
  <2>2. ASSUME NEW n \in R, n < N PROVE n + 1 \in R
    <3>1. n \in Nat /\ n + 1 \in 0 .. N /\ W[n + 1] = F[W[n]]
      BY <1>1, <1>3, <2>2
    <3>2. W[n] \in SUBSET X /\ X \ S \in SUBSET X /\ W[n] \subseteq X \ S
      BY <1>6, <2>2
    <3>3. F[W[n]] \subseteq F[X \ S] /\ F[X \ S] \subseteq X
      BY <1>2, <3>2
    <3> QED BY <1>11, <3>1, <3>3
  <2> HIDE DEF R
  <2>3. R = 0 .. N
    BY <1>1, <2>1, <2>2, LevelInduction
  <2>4. N \in 0 .. N
    BY <1>1
  <2>5. W[N] \subseteq X \ S
    BY <2>3, <2>4 DEF R
  <2> QED BY <1>11, <2>5
<1>12. ASSUME \A S \in SUBSET X : S # {} => S \cap F[X \ S] # {}
       PROVE  W[N] = X
  <2> SUFFICES ASSUME X \ W[N] # {} PROVE FALSE
    BY <1>10
  <2> DEFINE S == X \ W[N]
  <2>1. X \ S = W[N] /\ S \in SUBSET X
    BY <1>10
  <2>2. S \cap F[X \ S] # {}
    BY <1>12, <2>1
  <2> QED BY <1>10, <2>1, <2>2
<1>13. \A n \in Nat : n < N => W[n + 1] = F[W[n]] /\ W[n] \subseteq W[n + 1]
  <2> SUFFICES ASSUME NEW n \in Nat, n < N
               PROVE  W[n + 1] = F[W[n]] /\ W[n] \subseteq W[n + 1]
    OBVIOUS
  <2>1. n \in 0 .. N
    BY <1>1
  <2> QED BY <1>3, <1>6, <2>1
<1> QED BY <1>3, <1>6, <1>11, <1>12, <1>13 DEF Reaches

\* A relation E on X without cycles: no members all come after one another.
Acyclic(X, E) == \A S \in SUBSET X : S # {} => \E t \in S : \A s \in S : <<s, t>> \notin E

\* The level of a node: what comes before it is on a lower level.
Leveled(X, E, N, W) ==
  /\ \A n \in 0 .. N : W[n] \in SUBSET X
  /\ W[0] = {} /\ W[N] = X
  /\ \A n \in Nat : n < N =>
       /\ W[n] \subseteq W[n + 1]
       /\ W[n + 1] = {t \in X : \A s \in X : <<s, t>> \in E => s \in W[n]}

LEMMA LevelsExist ==
  ASSUME NEW X, IsFiniteSet(X), NEW E, Acyclic(X, E)
  PROVE  \E N \in Nat : \E W : Leveled(X, E, N, W)
<1> DEFINE N == Cardinality(X)
           F == [S \in SUBSET X |-> {t \in X : \A s \in X : <<s, t>> \in E => s \in S}]
<1>1. N \in Nat
  BY FS_CardinalityType
<1>2. Monotone(X, F)
  BY DEF Monotone
<1>3. \A S \in SUBSET X : F[S] = {t \in X : \A s \in X : <<s, t>> \in E => s \in S}
  OBVIOUS
<1> HIDE DEF F
<1>4. PICK W : Walks(W, N, F, {})
  BY <1>1, WalkExists
<1>5. \A S \in SUBSET X : S # {} => S \cap F[X \ S] # {}
  <2> SUFFICES ASSUME NEW S \in SUBSET X, S # {} PROVE S \cap F[X \ S] # {}
    OBVIOUS
  <2>1. PICK t \in S : \A s \in S : <<s, t>> \notin E
    BY DEF Acyclic
  <2>2. t \in F[X \ S]
    BY <1>3, <2>1
  <2> QED BY <2>1, <2>2
<1>6. /\ \A n \in 0 .. N : W[n] \in SUBSET X
      /\ \A n \in Nat : n < N => W[n + 1] = F[W[n]] /\ W[n] \subseteq W[n + 1]
      /\ W[0] = {} /\ W[N] = X
  <2>1. {} \in SUBSET X
    OBVIOUS
  <2>2. Reaches(X, F, {}, W)
    BY <1>2, <1>4, <2>1, MonotoneWalk
  <2> QED BY <1>5, <2>2 DEF Reaches
<1>7. ASSUME NEW n \in Nat, n < N
      PROVE  W[n + 1] = {t \in X : \A s \in X : <<s, t>> \in E => s \in W[n]}
  <2>1. n \in 0 .. N
    BY <1>1, <1>7
  <2> QED BY <1>3, <1>6, <1>7, <2>1
<1> QED BY <1>1, <1>6, <1>7 DEF Leveled

\* Read backwards it has no cycles either.
LEMMA AcyclicBackwards ==
  ASSUME NEW X, IsFiniteSet(X), NEW E, Acyclic(X, E), NEW S \in SUBSET X, S # {}
  PROVE  \E t \in S : \A u \in S : <<t, u>> \notin E
<1> SUFFICES ASSUME \A t \in S : \E u \in S : <<t, u>> \in E PROVE FALSE
  OBVIOUS
<1>0. PICK N \in Nat : \E W : Leveled(X, E, N, W)
  BY LevelsExist
<1>1. PICK W : Leveled(X, E, N, W)
  BY <1>0
<1>2. W[0] = {} /\ W[N] = X
  BY <1>1 DEF Leveled
<1> DEFINE T == {n \in 0 .. N : S \subseteq W[N - n]}
<1>3. 0 \in T /\ T \in SUBSET (0 .. N)
  BY <1>2
<1>4. ASSUME NEW n \in T, n < N PROVE n + 1 \in T
  <2>1. /\ n + 1 \in 0 .. N /\ N - (n + 1) \in Nat /\ N - (n + 1) < N
        /\ N - (n + 1) + 1 = N - n
    BY <1>4
  <2>2. W[N - n] = {t \in X : \A s \in X : <<s, t>> \in E => s \in W[N - (n + 1)]}
    BY <1>1, <2>1 DEF Leveled
  <2>3. S \subseteq W[N - (n + 1)]
    BY <1>4, <2>2
  <2> QED BY <2>1, <2>3
<1> HIDE DEF T
<1>5. T = 0 .. N
  BY <1>3, <1>4, LevelInduction
<1>6. N \in 0 .. N /\ N - N = 0
  OBVIOUS
<1>7. S \subseteq W[0]
  BY <1>5, <1>6 DEF T
<1> QED BY <1>2, <1>7

\* The value of a node depends on what comes before it: G[t][f] is the value of t
\* when f has those of the others.
Depends(X, E, G) ==
  /\ G \in [X -> [[X -> Int] -> Int]]
  /\ \A t \in X, f, g \in [X -> Int] :
       (\A s \in X : <<s, t>> \in E => f[s] = g[s]) => G[t][f] = G[t][g]
Solved(X, G) == \E f \in [X -> Int] : \A t \in X : f[t] = G[t][f]

\* Such a value can be given to every node.
LEMMA AcyclicRecursion ==
  ASSUME NEW X, IsFiniteSet(X), NEW E, Acyclic(X, E),
         NEW G, Depends(X, E, G)
  PROVE  Solved(X, G)
<1>0. PICK N \in Nat : \E W : Leveled(X, E, N, W)
  BY LevelsExist
<1>1. PICK W : Leveled(X, E, N, W)
  BY <1>0
<1>2. /\ W[0] = {} /\ W[N] = X /\ \A n \in 0 .. N : W[n] \in SUBSET X
      /\ \A n \in Nat : n < N =>
           /\ W[n] \subseteq W[n + 1]
           /\ W[n + 1] = {t \in X : \A s \in X : <<s, t>> \in E => s \in W[n]}
  BY <1>1 DEF Leveled
<1> DEFINE Solves(f, n) == \A t \in W[n] : f[t] = G[t][f]
           T == {n \in 0 .. N : \E f \in [X -> Int] : Solves(f, n)}
<1>3. 0 \in T /\ T \in SUBSET (0 .. N)
  <2>1. [t \in X |-> 0] \in [X -> Int] /\ Solves([t \in X |-> 0], 0)
    BY <1>2
  <2> QED BY <2>1
<1>4. ASSUME NEW n \in T, n < N PROVE n + 1 \in T
  <2>1. n \in Nat /\ n + 1 \in 0 .. N /\ W[n] \in SUBSET X /\ W[n] \subseteq W[n + 1]
    BY <1>2, <1>4
  <2>2. PICK f \in [X -> Int] : Solves(f, n)
    BY <1>4
  <2> DEFINE g == [t \in X |-> IF t \in W[n] THEN f[t] ELSE G[t][f]]
  <2>3. g \in [X -> Int]
    BY DEF Depends
  <2>4. ASSUME NEW t \in W[n + 1] PROVE g[t] = G[t][g]
    <3>1. t \in X /\ \A s \in X : <<s, t>> \in E => s \in W[n]
      BY <1>2, <1>4, <2>1
    <3>2. \A s \in X : <<s, t>> \in E => g[s] = f[s]
      BY <3>1
    <3> HIDE DEF g
    <3>3. G[t][g] = G[t][f]
      BY <2>3, <3>1, <3>2 DEF Depends
    <3>4. g[t] = G[t][f]
      BY <2>2, <3>1 DEF g
    <3> QED BY <3>3, <3>4
  <2> HIDE DEF g
  <2>5. Solves(g, n + 1)
    BY <2>4
  <2> HIDE DEF Solves
  <2> QED BY <2>1, <2>3, <2>5
<1> HIDE DEF T
<1>5. T = 0 .. N
  BY <1>3, <1>4, LevelInduction
<1>6. N \in T
  BY <1>5
<1> QED BY <1>2, <1>6 DEF T, Solved

\* What comes before x, and before that, without x.
Ancestors(X, E, x, Y) ==
  /\ x \notin Y /\ \A s \in X : <<s, x>> \in E => s \in Y
  /\ \A t \in Y, s \in X : <<s, t>> \in E => s \in Y

LEMMA AncestorsApart ==
  ASSUME NEW X, IsFiniteSet(X), NEW E, Acyclic(X, E), NEW x \in X
  PROVE  \E Y \in SUBSET X : Ancestors(X, E, x, Y)
<1>0. PICK N \in Nat : \E W : Leveled(X, E, N, W)
  BY LevelsExist
<1>1. PICK W : Leveled(X, E, N, W)
  BY <1>0
<1>2. /\ W[0] = {} /\ W[N] = X /\ \A n \in 0 .. N : W[n] \in SUBSET X
      /\ \A n \in Nat : n < N =>
           /\ W[n] \subseteq W[n + 1]
           /\ W[n + 1] = {t \in X : \A s \in X : <<s, t>> \in E => s \in W[n]}
  BY <1>1 DEF Leveled
<1> DEFINE T == {n \in 0 .. N : x \in W[n]}
<1>3. PICK m \in T : \A n \in T : m <= n
  <2>1. T \subseteq Nat /\ N \in T
    BY <1>2
  <2> HIDE DEF T
  <2> QED BY <2>1, LeastNumber
<1>4. m \in 0 .. N /\ m # 0
  BY <1>2, <1>3
<1>5. m - 1 \in Nat /\ m - 1 \in 0 .. N /\ m - 1 < N /\ m - 1 + 1 = m /\ ~(m <= m - 1)
  BY <1>4
<1>6. x \in W[m] /\ x \notin W[m - 1]
  BY <1>3, <1>5
<1>7. /\ W[m - 1] \in SUBSET X /\ W[m - 1] \subseteq W[m]
      /\ W[m] = {t \in X : \A s \in X : <<s, t>> \in E => s \in W[m - 1]}
  BY <1>2, <1>5
<1> QED BY <1>6, <1>7 DEF Ancestors

\* A finite set of numbers has a greatest and a least one.
LEMMA Extremes ==
  ASSUME NEW S \in SUBSET Int, IsFiniteSet(S), S # {}
  PROVE  /\ Max(S) \in S /\ \A y \in S : y <= Max(S)
         /\ Min(S) \in S /\ \A y \in S : Min(S) <= y
<1> DEFINE Bounded(R) == \E x, z \in R : \A y \in R : z <= y /\ y <= x
           T == {n \in Nat : \E R \in SUBSET Int : /\ IsFiniteSet(R) /\ R # {} /\ ~Bounded(R)
                                                   /\ Cardinality(R) = n}
<1>1. T = {}
  <2> SUFFICES ASSUME T # {} PROVE FALSE
    OBVIOUS
  <2>1. PICK m \in T : \A n \in T : m <= n
    <3>1. T \subseteq Nat
      OBVIOUS
    <3> HIDE DEF T
    <3> QED BY <3>1, LeastNumber
  <2>2. PICK R \in SUBSET Int : IsFiniteSet(R) /\ R # {} /\ ~Bounded(R) /\ Cardinality(R) = m
    BY <2>1
  <2>3. PICK r \in R : TRUE
    BY <2>2
  <2> DEFINE Q == R \ {r}
  <2>4. IsFiniteSet(Q) /\ Cardinality(Q) = m - 1 /\ m \in Nat /\ Cardinality(Q) \in Nat
    BY <2>2, <2>3, FS_RemoveElement, FS_CardinalityType
  <2>5. CASE Q = {}
    <3>1. r \in Int /\ r <= r
      BY <2>3
    <3>2. \A y \in R : y = r
      BY <2>5
    <3> QED BY <2>2, <2>3, <3>1, <3>2
  <2>6. CASE Q # {}
    <3>1. m - 1 \notin T
      BY <2>1, <2>4
    <3>2. Q \in SUBSET Int
      OBVIOUS
    <3>3. Bounded(Q)
      BY <2>4, <2>6, <3>1, <3>2
    <3>4. PICK x, z \in Q : \A y \in Q : z <= y /\ y <= x
      BY <3>3
    <3>5. x \in Int /\ z \in Int /\ r \in Int
      BY <3>2, <2>3
    <3> DEFINE u == IF x <= r THEN r ELSE x
               v == IF r <= z THEN r ELSE z
    <3>6. u \in R /\ v \in R
      BY <2>3
    <3>7. ASSUME NEW y \in R PROVE v <= y /\ y <= u
      <4>1. y \in Int /\ (y = r \/ y \in Q)
        OBVIOUS
      <4> QED BY <3>4, <3>5, <4>1
    <3> QED BY <2>2, <3>6, <3>7
  <2> QED BY <2>5, <2>6
<1>2. Bounded(S)
  BY <1>1, FS_CardinalityType
<1> QED BY <1>2 DEF Max, Min

\* What a function makes of a finite set is finite.
LEMMA FiniteImage ==
  ASSUME NEW S, IsFiniteSet(S), NEW f
  PROVE  IsFiniteSet({f[x] : x \in S})
<1> DEFINE T == {f[x] : x \in S}
           g == [x \in S |-> f[x]]
<1>1. g \in Surjection(S, T)
  BY DEF Surjection
<1> HIDE DEF g, T
<1>2. IsFiniteSet(T)
  BY <1>1, FS_Surjection
<1> QED BY <1>2 DEF T

-----------------------------------------------------------------------------
(* The critical path: the two passes.                                       *)

\* A board with durations and links one can compute with.
Plan(b) ==
  /\ IsFiniteSet(DOMAIN b.tasks) /\ IsFiniteSet(b.links)
  /\ \A t \in DOMAIN b.tasks : b.tasks[t].duration \in Int
  /\ \A l \in b.links : l.type \in LinkTypes /\ l.lag \in Int

\* How much later than its source the target of a link starts.
Lead(b, e) == Required(e, 0, b.tasks[e.source].duration, b.tasks[e.target].duration)

Precedes(b) == {<<e.source, e.target>> : e \in Edges(b)}

LEMMA EdgeLemma ==
  ASSUME NEW b, Plan(b), NEW e \in Edges(b)
  PROVE  /\ e.source \in DOMAIN b.tasks /\ e.target \in DOMAIN b.tasks
         /\ b.tasks[e.source].duration \in Int /\ b.tasks[e.target].duration \in Int
         /\ Lead(b, e) \in Int
         /\ \A s \in Int : Required(e, s, b.tasks[e.source].duration, b.tasks[e.target].duration)
                             = s + Lead(b, e)
         /\ \A f \in Int : Allowed(e, f, b.tasks[e.target].duration, b.tasks[e.source].duration)
                             = f - b.tasks[e.target].duration - Lead(b, e)
                               + b.tasks[e.source].duration
<1> DEFINE d == b.tasks[e.source].duration
           c == b.tasks[e.target].duration
<1>1. /\ e.source \in DOMAIN b.tasks /\ e.target \in DOMAIN b.tasks
      /\ d \in Int /\ c \in Int /\ e.lag \in Int /\ e.type \in {"e2s", "s2s", "e2e", "s2e"}
  BY DEF Plan, Edges, LinkTypes
<1> HIDE DEF d, c
<1>2. CASE e.type = "e2s"
  <2>1. \A s \in Int : Required(e, s, d, c) = e.lag + (s + d)
    BY <1>2 DEF Required
  <2>2. \A f \in Int : Allowed(e, f, c, d) = f - c - e.lag
    BY <1>2 DEF Allowed
  <2> QED BY <1>1, <2>1, <2>2 DEF Lead, d, c
<1>3. CASE e.type = "s2s"
  <2>1. \A s \in Int : Required(e, s, d, c) = e.lag + s
    BY <1>3 DEF Required
  <2>2. \A f \in Int : Allowed(e, f, c, d) = f - c - e.lag + d
    BY <1>3 DEF Allowed
  <2> QED BY <1>1, <2>1, <2>2 DEF Lead, d, c
<1>4. CASE e.type = "e2e"
  <2>1. \A s \in Int : Required(e, s, d, c) = e.lag + (s + d - c)
    BY <1>4 DEF Required
  <2>2. \A f \in Int : Allowed(e, f, c, d) = f - e.lag
    BY <1>4 DEF Allowed
  <2> QED BY <1>1, <2>1, <2>2 DEF Lead, d, c
<1>5. CASE e.type = "s2e"
  <2>1. \A s \in Int : Required(e, s, d, c) = e.lag + (s - c)
    BY <1>5 DEF Required
  <2>2. \A f \in Int : Allowed(e, f, c, d) = f - e.lag + d
    BY <1>5 DEF Allowed
  <2> QED BY <1>1, <2>1, <2>2 DEF Lead, d, c
<1> QED BY <1>1, <1>2, <1>3, <1>4, <1>5

\* The earliest starts when each task starts later by its delay.
Earliest(b, delay, es) ==
  /\ es \in [DOMAIN b.tasks -> Int]
  /\ \A t \in DOMAIN b.tasks : es[t] >= delay[t]
  /\ \A e \in Edges(b) : es[e.target] >= es[e.source] + Lead(b, e) + delay[e.target]
  /\ \A t \in DOMAIN b.tasks :
       es[t] = delay[t] \/ \E e \in Edges(b) : /\ e.target = t
                                               /\ es[t] = es[e.source] + Lead(b, e) + delay[t]

\* The latest starts in a project that ends at end.
Latest(b, end, ls) ==
  /\ ls \in [DOMAIN b.tasks -> Int]
  /\ \A t \in DOMAIN b.tasks : ls[t] <= end - b.tasks[t].duration
  /\ \A e \in Edges(b) : ls[e.source] <= ls[e.target] - Lead(b, e)
  /\ \A t \in DOMAIN b.tasks :
       ls[t] = end - b.tasks[t].duration
       \/ \E e \in Edges(b) : e.source = t /\ ls[t] = ls[e.target] - Lead(b, e)

\* The forward pass computes them (EarliestStart), if the links have no cycle.
LEMMA EarliestLemma ==
  ASSUME NEW b, Plan(b), Acyclic(DOMAIN b.tasks, Precedes(b)),
         NEW delay \in [DOMAIN b.tasks -> Int]
  PROVE  Earliest(b, delay, EarliestStart(b, Edges(b), delay))
<1> DEFINE X == DOMAIN b.tasks
           Into(t) == {e \in Edges(b) : e.target = t}
           Asked(t, f) ==
             {Required(e, f[e.source], b.tasks[e.source].duration, b.tasks[t].duration) :
                e \in Into(t)}
           Value(t, f) == Max({0} \cup Asked(t, f)) + delay[t]
           G == [t \in X |-> [f \in [X -> Int] |-> Value(t, f)]]
<1>1. ASSUME NEW t \in X, NEW f \in [X -> Int]
      PROVE  /\ Asked(t, f) = {f[e.source] + Lead(b, e) : e \in Into(t)}
             /\ {0} \cup Asked(t, f) \in SUBSET Int
             /\ IsFiniteSet({0} \cup Asked(t, f))
  <2>1. \A e \in Into(t) :
          /\ Required(e, f[e.source], b.tasks[e.source].duration, b.tasks[t].duration)
               = f[e.source] + Lead(b, e)
          /\ f[e.source] \in Int /\ Lead(b, e) \in Int
    BY EdgeLemma
  <2>2. Asked(t, f) = {f[e.source] + Lead(b, e) : e \in Into(t)}
    BY <2>1
  <2>3. IsFiniteSet(Asked(t, f))
    <3> DEFINE h == [e \in Into(t) |-> f[e.source] + Lead(b, e)]
    <3>1. IsFiniteSet(Into(t))
      <4>1. Into(t) \in SUBSET b.links
        BY DEF Edges
      <4>2. IsFiniteSet(b.links)
        BY DEF Plan
      <4> HIDE DEF Into
      <4> QED BY <4>1, <4>2, FS_Subset
    <3>2. {h[e] : e \in Into(t)} = Asked(t, f)
      BY <2>2
    <3> HIDE DEF h, Into, Asked
    <3> QED BY <3>1, <3>2, FiniteImage
  <2>4. IsFiniteSet({0} \cup Asked(t, f))
    <3>1. {0} \cup Asked(t, f) = Asked(t, f) \cup {0}
      OBVIOUS
    <3> QED BY <2>3, <3>1, FS_AddElement
  <2> QED BY <2>1, <2>2, <2>4
<1>2. ASSUME NEW t \in X, NEW f \in [X -> Int]
      PROVE  /\ Max({0} \cup Asked(t, f)) \in {0} \cup Asked(t, f)
             /\ \A y \in {0} \cup Asked(t, f) : y <= Max({0} \cup Asked(t, f))
             /\ Max({0} \cup Asked(t, f)) \in Int
             /\ Value(t, f) \in Int
  <2> DEFINE A == {0} \cup Asked(t, f)
  <2>1. A \in SUBSET Int /\ IsFiniteSet(A) /\ A # {}
    BY <1>1
  <2> HIDE DEF A, Asked
  <2>2. Max(A) \in A /\ \A y \in A : y <= Max(A)
    BY <2>1, Extremes
  <2> QED BY <2>1, <2>2 DEF A
<1>3. /\ G \in [X -> [[X -> Int] -> Int]]
      /\ \A t \in X, f \in [X -> Int] : G[t][f] = Value(t, f)
  <2> HIDE DEF Value
  <2> QED BY <1>2
<1>4. ASSUME NEW t \in X, NEW f \in [X -> Int], NEW g \in [X -> Int],
             \A s \in X : <<s, t>> \in Precedes(b) => f[s] = g[s]
      PROVE  G[t][f] = G[t][g]
  <2>1. \A e \in Into(t) : f[e.source] = g[e.source]
    BY <1>4, EdgeLemma DEF Precedes
  <2>2. Asked(t, f) = Asked(t, g)
    BY <2>1
  <2> HIDE DEF G, Asked
  <2> QED BY <1>3, <2>2
<1> HIDE DEF G
<1>5. \E f \in [X -> Int] : \A t \in X : f[t] = G[t][f]
  <2>1. IsFiniteSet(X) /\ Acyclic(X, Precedes(b))
    BY DEF Plan
  <2> HIDE DEF X, Value
  <2>2. Depends(X, Precedes(b), G)
    BY <1>3, <1>4 DEF Depends
  <2>3. Solved(X, G)
    BY <2>1, <2>2, AcyclicRecursion
  <2> QED BY <2>3 DEF Solved
<1> DEFINE es == EarliestStart(b, Edges(b), delay)
<1>6. es = [t \in X |-> Value(t, es)]
  <2>1. PICK f \in [X -> Int] : \A t \in X : f[t] = G[t][f]
    BY <1>5
  <2>2. \A t \in X : f[t] = Value(t, f)
    BY <1>3, <2>1
  <2>3. f = [t \in X |-> Value(t, f)]
    <3> HIDE DEF Value
    <3> QED BY <2>2
  <2> QED BY <2>3 DEF EarliestStart
<1> HIDE DEF es
<1>7. es \in [X -> Int]
  <2> DEFINE S == {t \in X : es[t] \notin Int}
  <2> SUFFICES ASSUME S # {} PROVE FALSE
    <3>1. DOMAIN es = X /\ es = [t \in X |-> es[t]]
      BY <1>6
    <3> QED BY <3>1
  <2>1. PICK t \in S : \A s \in S : <<s, t>> \notin Precedes(b)
    BY DEF Acyclic
  <2> DEFINE f == [s \in X |-> IF es[s] \in Int THEN es[s] ELSE 0]
  <2>2. f \in [X -> Int]
    OBVIOUS
  <2>3. \A e \in Into(t) : f[e.source] = es[e.source]
    BY <2>1, EdgeLemma DEF Precedes
  <2>4. Asked(t, es) = Asked(t, f)
    BY <2>3
  <2> HIDE DEF f, Asked
  <2>5. es[t] = Value(t, f)
    BY <1>6, <2>1, <2>4
  <2> QED BY <1>2, <2>1, <2>2, <2>5
<1> DEFINE From(t) == {es[e.source] + Lead(b, e) : e \in Into(t)}
           Bound(t) == Max({0} \cup From(t))
<1>8. ASSUME NEW t \in X
      PROVE  /\ es[t] = Bound(t) + delay[t] /\ Bound(t) \in Int /\ delay[t] \in Int
             /\ Bound(t) \in {0} \cup From(t) /\ \A y \in {0} \cup From(t) : y <= Bound(t)
  <2>1. es[t] = Value(t, es)
    BY <1>6
  <2>2. Asked(t, es) = From(t)
    BY <1>1, <1>7
  <2> HIDE DEF Asked, From
  <2> QED BY <1>2, <1>7, <2>1, <2>2
<1> HIDE DEF Asked, Value, Bound
<1>9. \A t \in X : es[t] >= delay[t]
  <2> HIDE DEF From
  <2> QED BY <1>8
<1>10. ASSUME NEW e \in Edges(b)
       PROVE  es[e.target] >= es[e.source] + Lead(b, e) + delay[e.target]
  <2>1. /\ e.target \in X /\ es[e.source] + Lead(b, e) \in Int
        /\ es[e.source] + Lead(b, e) \in From(e.target)
    BY <1>7, EdgeLemma
  <2> HIDE DEF From
  <2>2. es[e.source] + Lead(b, e) <= Bound(e.target)
    BY <1>8, <2>1
  <2> QED BY <1>8, <2>1, <2>2
<1>11. ASSUME NEW t \in X, es[t] # delay[t]
       PROVE  \E e \in Edges(b) : e.target = t /\ es[t] = es[e.source] + Lead(b, e) + delay[t]
  <2>1. Bound(t) # 0 /\ Bound(t) \in {0} \cup From(t)
    BY <1>8, <1>11
  <2>2. PICK e \in Into(t) : Bound(t) = es[e.source] + Lead(b, e)
    BY <2>1
  <2> QED BY <1>8, <2>2
<1> QED BY <1>7, <1>9, <1>10, <1>11 DEF Earliest, es

\* The backward pass computes the others (LatestFinish), less the durations.
LEMMA LatestLemma ==
  ASSUME NEW b, Plan(b), Acyclic(DOMAIN b.tasks, Precedes(b)), NEW end \in Int
  PROVE  Latest(b, end, [t \in DOMAIN b.tasks |->
                           LatestFinish(b, Edges(b), end)[t] - b.tasks[t].duration])
<1> DEFINE X == DOMAIN b.tasks
           After == {<<e.target, e.source>> : e \in Edges(b)}
           From(t) == {e \in Edges(b) : e.source = t}
           Asked(t, f) ==
             {Allowed(e, f[e.target], b.tasks[e.target].duration, b.tasks[t].duration) :
                e \in From(t)}
           Value(t, f) == Min({end} \cup Asked(t, f))
           Late(e, f) == f[e.target] - b.tasks[e.target].duration - Lead(b, e)
                           + b.tasks[e.source].duration
           G == [t \in X |-> [f \in [X -> Int] |-> Value(t, f)]]
<1>1. ASSUME NEW t \in X, NEW f \in [X -> Int]
      PROVE  /\ Asked(t, f) = {Late(e, f) : e \in From(t)}
             /\ {end} \cup Asked(t, f) \in SUBSET Int
             /\ IsFiniteSet({end} \cup Asked(t, f))
  <2>1. \A e \in From(t) :
          /\ Allowed(e, f[e.target], b.tasks[e.target].duration, b.tasks[t].duration) = Late(e, f)
          /\ Late(e, f) \in Int
    BY EdgeLemma
  <2>2. Asked(t, f) = {Late(e, f) : e \in From(t)}
    <3> HIDE DEF Late
    <3> QED BY <2>1
  <2>3. IsFiniteSet(Asked(t, f))
    <3> DEFINE h == [e \in From(t) |-> Late(e, f)]
    <3>1. IsFiniteSet(From(t))
      <4>1. From(t) \in SUBSET b.links
        BY DEF Edges
      <4>2. IsFiniteSet(b.links)
        BY DEF Plan
      <4> HIDE DEF From
      <4> QED BY <4>1, <4>2, FS_Subset
    <3>2. {h[e] : e \in From(t)} = Asked(t, f)
      BY <2>2
    <3> HIDE DEF h, From, Asked
    <3> QED BY <3>1, <3>2, FiniteImage
  <2>4. IsFiniteSet({end} \cup Asked(t, f))
    <3>1. {end} \cup Asked(t, f) = Asked(t, f) \cup {end}
      OBVIOUS
    <3> QED BY <2>3, <3>1, FS_AddElement
  <2> HIDE DEF Late
  <2> QED BY <2>1, <2>2, <2>4
<1>2. ASSUME NEW t \in X, NEW f \in [X -> Int]
      PROVE  /\ Value(t, f) \in {end} \cup Asked(t, f)
             /\ \A y \in {end} \cup Asked(t, f) : Value(t, f) <= y
             /\ Value(t, f) \in Int
  <2> DEFINE A == {end} \cup Asked(t, f)
  <2>1. A \in SUBSET Int /\ IsFiniteSet(A) /\ A # {}
    BY <1>1
  <2> HIDE DEF A, Asked
  <2>2. Min(A) \in A /\ \A y \in A : Min(A) <= y
    BY <2>1, Extremes
  <2> QED BY <2>1, <2>2 DEF A
<1>3. /\ G \in [X -> [[X -> Int] -> Int]]
      /\ \A t \in X, f \in [X -> Int] : G[t][f] = Value(t, f)
  <2> HIDE DEF Value
  <2> QED BY <1>2
<1>4. ASSUME NEW t \in X, NEW f \in [X -> Int], NEW g \in [X -> Int],
             \A s \in X : <<s, t>> \in After => f[s] = g[s]
      PROVE  G[t][f] = G[t][g]
  <2>1. \A e \in From(t) : f[e.target] = g[e.target]
    BY <1>4, EdgeLemma DEF Precedes
  <2>2. Asked(t, f) = Asked(t, g)
    BY <2>1
  <2> HIDE DEF G, Asked
  <2> QED BY <1>3, <2>2
<1> HIDE DEF G
<1>5. IsFiniteSet(X) /\ Acyclic(X, After)
  <2>1. IsFiniteSet(X)
    BY DEF Plan
  <2>2. ASSUME NEW S \in SUBSET X, S # {}
        PROVE  \E t \in S : \A s \in S : <<s, t>> \notin After
    <3>1. PICK t \in S : \A u \in S : <<t, u>> \notin Precedes(b)
      BY <2>1, <2>2, AcyclicBackwards
    <3>2. ASSUME NEW s \in S, <<s, t>> \in After PROVE FALSE
      <4>1. PICK e \in Edges(b) : e.target = s /\ e.source = t
        BY <3>2
      <4>2. <<e.source, e.target>> \in Precedes(b)
        BY DEF Precedes
      <4>3. <<t, s>> \in Precedes(b)
        BY <4>1, <4>2
      <4> QED BY <3>1, <4>3
    <3> QED BY <3>1, <3>2
  <2> QED BY <2>1, <2>2 DEF Acyclic
<1>6. \E f \in [X -> Int] : \A t \in X : f[t] = G[t][f]
  <2> HIDE DEF X, Value, After
  <2>1. Depends(X, After, G)
    BY <1>3, <1>4 DEF Depends
  <2>2. Solved(X, G)
    BY <1>5, <2>1, AcyclicRecursion
  <2> QED BY <2>2 DEF Solved
<1> DEFINE lf == LatestFinish(b, Edges(b), end)
<1>7. lf = [t \in X |-> Value(t, lf)]
  <2>1. PICK f \in [X -> Int] : \A t \in X : f[t] = G[t][f]
    BY <1>6
  <2>2. \A t \in X : f[t] = Value(t, f)
    BY <1>3, <2>1
  <2>3. f = [t \in X |-> Value(t, f)]
    <3> HIDE DEF Value
    <3> QED BY <2>2
  <2> QED BY <2>3 DEF LatestFinish
<1> HIDE DEF lf
<1>8. lf \in [X -> Int]
  <2> DEFINE S == {t \in X : lf[t] \notin Int}
  <2> SUFFICES ASSUME S # {} PROVE FALSE
    <3>1. DOMAIN lf = X /\ lf = [t \in X |-> lf[t]]
      BY <1>7
    <3> QED BY <3>1
  <2>1. PICK t \in S : \A s \in S : <<s, t>> \notin After
    BY <1>5 DEF Acyclic
  <2> DEFINE f == [s \in X |-> IF lf[s] \in Int THEN lf[s] ELSE 0]
  <2>2. f \in [X -> Int]
    OBVIOUS
  <2>3. \A e \in From(t) : f[e.target] = lf[e.target]
    BY <2>1, EdgeLemma DEF Precedes
  <2>4. Asked(t, lf) = Asked(t, f)
    BY <2>3
  <2> HIDE DEF f, Asked
  <2>5. lf[t] = Value(t, f)
    BY <1>7, <2>1, <2>4
  <2> QED BY <1>2, <2>1, <2>2, <2>5
<1>9. ASSUME NEW t \in X
      PROVE  /\ lf[t] \in {end} \cup {Late(e, lf) : e \in From(t)}
             /\ \A y \in {end} \cup {Late(e, lf) : e \in From(t)} : lf[t] <= y
  <2>1. lf[t] = Value(t, lf)
    BY <1>7
  <2>2. Asked(t, lf) = {Late(e, lf) : e \in From(t)}
    BY <1>1, <1>8
  <2> HIDE DEF Asked, From, Late, Value
  <2> QED BY <1>2, <1>8, <2>1, <2>2
<1> HIDE DEF Asked, Value
<1> DEFINE ls == [t \in X |-> lf[t] - b.tasks[t].duration]
<1>10. ls \in [X -> Int] /\ \A t \in X : /\ ls[t] = lf[t] - b.tasks[t].duration
                                         /\ b.tasks[t].duration \in Int /\ lf[t] \in Int
  BY <1>8 DEF Plan
<1> HIDE DEF ls
<1>11. \A t \in X : ls[t] <= end - b.tasks[t].duration
  <2> HIDE DEF From, Late
  <2> QED BY <1>9, <1>10
<1>12. ASSUME NEW e \in Edges(b)
       PROVE  ls[e.source] <= ls[e.target] - Lead(b, e)
  <2>1. e.source \in X /\ e.target \in X /\ Lead(b, e) \in Int /\ e \in From(e.source)
    BY EdgeLemma
  <2>2. lf[e.source] <= Late(e, lf)
    <3>1. Late(e, lf) \in {Late(f, lf) : f \in From(e.source)}
      <4> HIDE DEF From, Late
      <4> QED BY <2>1
    <3>2. \A y \in {end} \cup {Late(f, lf) : f \in From(e.source)} : lf[e.source] <= y
      BY <1>9, <2>1
    <3> HIDE DEF From, Late
    <3> QED BY <3>1, <3>2
  <2> QED BY <1>10, <2>1, <2>2
<1>13. ASSUME NEW t \in X, ls[t] # end - b.tasks[t].duration
       PROVE  \E e \in Edges(b) : e.source = t /\ ls[t] = ls[e.target] - Lead(b, e)
  <2>1. lf[t] # end
    <3>1. ls[t] = lf[t] - b.tasks[t].duration
      BY <1>10
    <3> QED BY <1>13, <3>1
  <2>2. PICK e \in From(t) : lf[t] = Late(e, lf)
    <3> HIDE DEF Late
    <3> QED BY <1>9, <2>1
  <2>3. e \in Edges(b) /\ e.source = t /\ e.target \in X /\ Lead(b, e) \in Int
    BY EdgeLemma
  <2> QED BY <1>10, <2>2, <2>3
<1> QED BY <1>10, <1>11, <1>12, <1>13 DEF Latest, lf, ls

\* The project of a plan ends when the last task does (ProjectEnd).
LEMMA EndLemma ==
  ASSUME NEW b, Plan(b), NEW es \in [DOMAIN b.tasks -> Int]
  PROVE  /\ ProjectEnd(b, es) \in Int /\ 0 <= ProjectEnd(b, es)
         /\ \A t \in DOMAIN b.tasks : es[t] + b.tasks[t].duration <= ProjectEnd(b, es)
         /\ \A n \in Int : 0 <= n /\ (\A t \in DOMAIN b.tasks : es[t] + b.tasks[t].duration <= n)
                             => ProjectEnd(b, es) <= n
<1> DEFINE X == DOMAIN b.tasks
           h == [t \in X |-> es[t] + b.tasks[t].duration]
           A == {0} \cup {es[t] + b.tasks[t].duration : t \in X}
<1>1. IsFiniteSet(X) /\ \A t \in X : b.tasks[t].duration \in Int /\ es[t] \in Int
  BY DEF Plan
<1>2. {es[t] + b.tasks[t].duration : t \in X} = {h[t] : t \in X}
  OBVIOUS
<1>3. IsFiniteSet({h[t] : t \in X})
  <2> HIDE DEF h, X
  <2> QED BY <1>1, FiniteImage
<1>4. A \in SUBSET Int /\ IsFiniteSet(A) /\ A # {}
  <2>1. A = {h[t] : t \in X} \cup {0}
    BY <1>2
  <2>2. IsFiniteSet(A)
    <3> HIDE DEF h, A, X
    <3> QED BY <1>3, <2>1, FS_AddElement
  <2> QED BY <1>1, <2>2
<1> HIDE DEF A
<1>5. Max(A) \in A /\ \A y \in A : y <= Max(A)
  BY <1>4, Extremes
<1>6. ProjectEnd(b, es) = Max(A)
  BY DEF ProjectEnd, A
<1>7. 0 \in A /\ \A t \in X : es[t] + b.tasks[t].duration \in A
  BY DEF A
<1>8. ASSUME NEW n \in Int, 0 <= n, \A t \in X : es[t] + b.tasks[t].duration <= n
      PROVE  Max(A) <= n
  BY <1>5, <1>8 DEF A
<1> QED BY <1>4, <1>5, <1>6, <1>7, <1>8

\* No task starts earlier than it must in a project that starts later nowhere.
LEMMA EarliestGrows ==
  ASSUME NEW b, Plan(b), Acyclic(DOMAIN b.tasks, Precedes(b)),
         NEW delay \in [DOMAIN b.tasks -> Int], NEW later \in [DOMAIN b.tasks -> Int],
         \A t \in DOMAIN b.tasks : delay[t] <= later[t],
         NEW es, Earliest(b, delay, es), NEW fs, Earliest(b, later, fs)
  PROVE  \A t \in DOMAIN b.tasks : es[t] + (later[t] - delay[t]) <= fs[t]
<1> DEFINE X == DOMAIN b.tasks
           S == {t \in X : ~(es[t] + (later[t] - delay[t]) <= fs[t])}
<1> SUFFICES ASSUME S # {} PROVE FALSE
  OBVIOUS
<1>1. es \in [X -> Int] /\ fs \in [X -> Int]
  BY DEF Earliest
<1>2. PICK t \in S : \A s \in S : <<s, t>> \notin Precedes(b)
  BY DEF Acyclic
<1>3. /\ t \in X /\ es[t] \in Int /\ fs[t] \in Int /\ delay[t] \in Int /\ later[t] \in Int
      /\ fs[t] >= later[t]
  BY <1>1, <1>2 DEF Earliest
<1>4. es[t] # delay[t]
  BY <1>2, <1>3
<1>5. PICK e \in Edges(b) : e.target = t /\ es[t] = es[e.source] + Lead(b, e) + delay[t]
  BY <1>3, <1>4 DEF Earliest
<1>6. e.source \in X /\ Lead(b, e) \in Int /\ <<e.source, t>> \in Precedes(b)
  BY <1>5, EdgeLemma DEF Precedes
<1>7. es[e.source] + (later[e.source] - delay[e.source]) <= fs[e.source]
  BY <1>2, <1>6
<1>8. /\ es[e.source] \in Int /\ fs[e.source] \in Int
      /\ later[e.source] \in Int /\ delay[e.source] \in Int
      /\ delay[e.source] <= later[e.source]
  BY <1>1, <1>6
<1>9. fs[t] >= fs[e.source] + Lead(b, e) + later[t]
  BY <1>5 DEF Earliest
<1>10. ~(es[t] + (later[t] - delay[t]) <= fs[t])
  BY <1>2
<1> QED BY <1>3, <1>5, <1>6, <1>7, <1>8, <1>9, <1>10

\* Kahn's algorithm puts out every task unless some of them wait for each other.
LEMMA TopoLemma ==
  ASSUME NEW X, IsFiniteSet(X), NEW E, \A e \in E : e.source \in X /\ e.target \in X
  PROVE  TopoOrder(X, E) = X <=>
           \A S \in SUBSET X : S # {} => \E t \in S : \A e \in E : e.target = t => e.source \notin S
<1> DEFINE Next1(B) == {t \in X : \A e \in E : e.target = t => e.source \in B}
           F == [S \in SUBSET X |-> Next1(S)]
           N == Cardinality(X)
<1>1. N \in Nat
  BY FS_CardinalityType
<1>2. Monotone(X, F)
  BY DEF Monotone
<1>3. \A S \in SUBSET X : F[S] = Next1(S)
  OBVIOUS
<1>4. \A B : Next1(B) \in SUBSET X
  OBVIOUS
<1> HIDE DEF F
<1>5. ASSUME NEW W, Walks(W, N, F, {})
      PROVE  Reaches(X, F, {}, W)
  <2>1. {} \in SUBSET X
    OBVIOUS
  <2> QED BY <1>2, <1>5, <2>1, MonotoneWalk
<1> DEFINE O == CHOOSE V : V = [n \in 0 .. N |-> IF n = 0 THEN {} ELSE Next1(V[n - 1])]
<1>6. O = [n \in 0 .. N |-> IF n = 0 THEN {} ELSE Next1(O[n - 1])]
  <2> HIDE DEF N, Next1
  <2>1. PICK W : Walks(W, N, F, {})
    BY <1>1, WalkExists
  <2>2. W = [n \in 0 .. N |-> IF n = 0 THEN {} ELSE F[W[n - 1]]]
    BY <2>1 DEF Walks
  <2>3. \A n \in 0 .. N : W[n] \in SUBSET X
    BY <1>5, <2>1 DEF Reaches, N
  <2>4. \A n \in 0 .. N : n # 0 => F[W[n - 1]] = Next1(W[n - 1])
    <3>1. \A n \in 0 .. N : n # 0 => n - 1 \in 0 .. N
      BY <1>1
    <3> QED BY <1>3, <2>3, <3>1
  <2>5. W = [n \in 0 .. N |-> IF n = 0 THEN {} ELSE Next1(W[n - 1])]
    BY <2>2, <2>4
  <2> QED BY <2>5
<1>7. TopoOrder(X, E) = O[N]
  BY Zenon DEF TopoOrder
<1> HIDE DEF O
<1>8. Walks(O, N, F, {})
  <2> HIDE DEF N, Next1
  <2>1. \A n \in 0 .. N : O[n] \in SUBSET X
    BY <1>4, <1>6
  <2>2. \A n \in 0 .. N : n # 0 => F[O[n - 1]] = Next1(O[n - 1])
    <3>1. \A n \in 0 .. N : n # 0 => n - 1 \in 0 .. N
      BY <1>1
    <3> QED BY <1>3, <2>1, <3>1
  <2>3. [n \in 0 .. N |-> IF n = 0 THEN {} ELSE F[O[n - 1]]]
          = [n \in 0 .. N |-> IF n = 0 THEN {} ELSE Next1(O[n - 1])]
    BY <2>2
  <2> QED BY <1>6, <2>3 DEF Walks
<1>9. O[N] = X <=> \A S \in SUBSET X : S # {} => S \cap F[X \ S] # {}
  BY <1>5, <1>8 DEF Reaches
<1>10. ASSUME NEW S \in SUBSET X
       PROVE  S \cap F[X \ S] # {}
                <=> \E t \in S : \A e \in E : e.target = t => e.source \notin S
  <2>1. X \ S \in SUBSET X
    OBVIOUS
  <2>2. F[X \ S] = {t \in X : \A e \in E : e.target = t => e.source \in X \ S}
    BY <1>3, <2>1
  <2> QED BY <2>2
<1> HIDE DEF N, Next1
<1> QED BY <1>7, <1>9, <1>10

\* The tasks below the invisible root are all, unless some are below each other only.
LEMMA RootedLemma ==
  ASSUME NEW ts, IsFiniteSet(DOMAIN ts)
  PROVE  /\ Rooted(ts) \subseteq DOMAIN ts
         /\ Rooted(ts) = DOMAIN ts <=>
              \A S \in SUBSET DOMAIN ts : S # {} => \E t \in S : ts[t].parent \notin S
<1> DEFINE X == DOMAIN ts
           Next1(B) == {t \in X : ts[t].parent \in B \/ ts[t].parent \notin X}
           F == [S \in SUBSET X |-> Next1(S)]
           N == Cardinality(X)
<1>1. N \in Nat /\ N \in 0 .. N /\ IsFiniteSet(X)
  BY FS_CardinalityType
<1>2. Monotone(X, F)
  BY DEF Monotone
<1>3. \A S \in SUBSET X : F[S] = Next1(S)
  OBVIOUS
<1>4. F[{}] = Next1({}) /\ \A B : Next1(B) \in SUBSET X
  OBVIOUS
<1> HIDE DEF F
<1>5. ASSUME NEW W, Walks(W, N, F, F[{}])
      PROVE  Reaches(X, F, F[{}], W)
  <2>1. F[{}] \in SUBSET X
    BY <1>4
  <2> HIDE DEF X, Next1
  <2> QED BY <1>1, <1>2, <1>5, <2>1, MonotoneWalk
<1> DEFINE O == CHOOSE V : V = [n \in 0 .. N |-> Next1(IF n = 0 THEN {} ELSE V[n - 1])]
<1>6. ASSUME NEW W
      PROVE  [n \in 0 .. N |-> Next1(IF n = 0 THEN {} ELSE W[n - 1])]
               = [n \in 0 .. N |-> IF n = 0 THEN F[{}] ELSE Next1(W[n - 1])]
  <2> HIDE DEF N, Next1
  <2> QED BY <1>4
<1>7. O = [n \in 0 .. N |-> IF n = 0 THEN F[{}] ELSE Next1(O[n - 1])]
  <2> HIDE DEF N, Next1
  <2>1. PICK W : Walks(W, N, F, F[{}])
    BY <1>1, WalkExists
  <2>2. W = [n \in 0 .. N |-> IF n = 0 THEN F[{}] ELSE F[W[n - 1]]]
    BY <2>1 DEF Walks
  <2>3. \A n \in 0 .. N : W[n] \in SUBSET X
    BY <1>5, <2>1 DEF Reaches, N
  <2>4. \A n \in 0 .. N : n # 0 => F[W[n - 1]] = Next1(W[n - 1])
    <3>1. \A n \in 0 .. N : n # 0 => n - 1 \in 0 .. N
      BY <1>1
    <3> QED BY <1>3, <2>3, <3>1
  <2>5. W = [n \in 0 .. N |-> IF n = 0 THEN F[{}] ELSE Next1(W[n - 1])]
    BY <2>2, <2>4
  <2>6. W = [n \in 0 .. N |-> Next1(IF n = 0 THEN {} ELSE W[n - 1])]
    BY <1>6, <2>5
  <2>7. O = [n \in 0 .. N |-> Next1(IF n = 0 THEN {} ELSE O[n - 1])]
    BY <2>6
  <2> HIDE DEF O
  <2> QED BY <1>6, <2>7
<1>8. Rooted(ts) = O[N]
  BY Zenon DEF Rooted
<1> HIDE DEF O
<1>9. Walks(O, N, F, F[{}])
  <2> HIDE DEF N, Next1
  <2>1. \A n \in 0 .. N : O[n] \in SUBSET X
    BY <1>4, <1>7
  <2>2. \A n \in 0 .. N : n # 0 => F[O[n - 1]] = Next1(O[n - 1])
    <3>1. \A n \in 0 .. N : n # 0 => n - 1 \in 0 .. N
      BY <1>1
    <3> QED BY <1>3, <2>1, <3>1
  <2>3. [n \in 0 .. N |-> IF n = 0 THEN F[{}] ELSE F[O[n - 1]]]
          = [n \in 0 .. N |-> IF n = 0 THEN F[{}] ELSE Next1(O[n - 1])]
    BY <2>2
  <2> QED BY <1>7, <2>3 DEF Walks
<1>10. /\ O[N] = X <=> \A S \in SUBSET X : S # {} => S \cap F[X \ S] # {}
       /\ O[N] \in SUBSET X
  <2>1. Reaches(X, F, F[{}], O)
    BY <1>5, <1>9
  <2> HIDE DEF X, Next1
  <2> QED BY <1>1, <2>1 DEF Reaches
<1>11. ASSUME NEW S \in SUBSET X
       PROVE  S \cap F[X \ S] # {} <=> \E t \in S : ts[t].parent \notin S
  <2>1. X \ S \in SUBSET X
    OBVIOUS
  <2>2. F[X \ S] = {t \in X : ts[t].parent \in X \ S \/ ts[t].parent \notin X}
    BY <1>3, <2>1
  <2> QED BY <2>2
<1>12. (\A S \in SUBSET X : S # {} => S \cap F[X \ S] # {})
         <=> \A S \in SUBSET X : S # {} => \E t \in S : ts[t].parent \notin S
  BY <1>11
<1> HIDE DEF N, Next1
<1> QED BY <1>8, <1>10, <1>12

\* What both passes answer for a board: no task is late before its time.
Passes(b, es, ls) ==
  /\ Plan(b) /\ Acyclic(DOMAIN b.tasks, Precedes(b))
  /\ Earliest(b, NoDelay(b), es) /\ Latest(b, ProjectEnd(b, es), ls)

Delayed(b, x) == [NoDelay(b) EXCEPT ![x] = 1]

LEMMA PassesLemma ==
  ASSUME NEW b, NEW es, NEW ls, Passes(b, es, ls)
  PROVE  /\ es \in [DOMAIN b.tasks -> Int] /\ ls \in [DOMAIN b.tasks -> Int]
         /\ IsFiniteSet(DOMAIN b.tasks) /\ ProjectEnd(b, es) \in Int
         /\ \A t \in DOMAIN b.tasks : 0 <= es[t] /\ es[t] <= ls[t]
         /\ \A e \in Edges(b) : es[e.target] >= es[e.source] + Lead(b, e)
<1> DEFINE X == DOMAIN b.tasks
           end == ProjectEnd(b, es)
<1>1. /\ es \in [X -> Int] /\ ls \in [X -> Int] /\ IsFiniteSet(X) /\ Plan(b)
      /\ Earliest(b, NoDelay(b), es) /\ Latest(b, end, ls) /\ Acyclic(X, Precedes(b))
      /\ \A t \in X : b.tasks[t].duration \in Int
  BY DEF Passes, Earliest, Latest, Plan
<1>2. end \in Int /\ \A t \in X : es[t] + b.tasks[t].duration <= end
  BY <1>1, EndLemma
<1>3. \A t \in X : NoDelay(b)[t] = 0
  BY DEF NoDelay
<1>4. \A t \in X : 0 <= es[t]
  BY <1>1, <1>3 DEF Earliest
<1>5. \A e \in Edges(b) : es[e.target] >= es[e.source] + Lead(b, e)
  <2> SUFFICES ASSUME NEW e \in Edges(b) PROVE es[e.target] >= es[e.source] + Lead(b, e)
    OBVIOUS
  <2>1. e.source \in X /\ e.target \in X /\ Lead(b, e) \in Int
    BY <1>1, EdgeLemma
  <2>2. es[e.target] >= es[e.source] + Lead(b, e) + NoDelay(b)[e.target]
    BY <1>1 DEF Earliest
  <2> QED BY <1>1, <1>3, <2>1, <2>2
<1> DEFINE S == {t \in X : ~(es[t] <= ls[t])}
<1>6. ASSUME S # {} PROVE FALSE
  <2>1. PICK t \in S : \A u \in S : <<t, u>> \notin Precedes(b)
    <3>1. S \in SUBSET X
      OBVIOUS
    <3> HIDE DEF S, X
    <3> QED BY <1>1, <1>6, <3>1, AcyclicBackwards
  <2>2. /\ t \in X /\ es[t] \in Int /\ ls[t] \in Int /\ b.tasks[t].duration \in Int
        /\ ~(es[t] <= ls[t]) /\ es[t] + b.tasks[t].duration <= end
    BY <1>1, <1>2, <2>1
  <2> HIDE DEF end
  <2>3. ls[t] # end - b.tasks[t].duration
    BY <1>2, <2>2
  <2>4. PICK e \in Edges(b) : e.source = t /\ ls[t] = ls[e.target] - Lead(b, e)
    BY <1>1, <2>2, <2>3 DEF Latest
  <2>5. e.target \in X /\ Lead(b, e) \in Int /\ <<t, e.target>> \in Precedes(b)
    BY <1>1, <2>4, EdgeLemma DEF Precedes
  <2>6. es[e.target] <= ls[e.target] /\ es[e.target] \in Int /\ ls[e.target] \in Int
    BY <1>1, <2>1, <2>5
  <2>7. es[e.target] >= es[t] + Lead(b, e)
    BY <1>5, <2>4
  <2> QED BY <2>2, <2>4, <2>5, <2>6, <2>7
<1> QED BY <1>1, <1>2, <1>4, <1>5, <1>6

\* The delay of a task without slack is passed on to the end of the project.
LEMMA NoSlackDelays ==
  ASSUME NEW b, NEW es, NEW ls, Passes(b, es, ls), NEW x \in DOMAIN b.tasks, ls[x] = es[x],
         NEW fs, Earliest(b, Delayed(b, x), fs)
  PROVE  ProjectEnd(b, fs) > ProjectEnd(b, es)
<1> DEFINE X == DOMAIN b.tasks
           end == ProjectEnd(b, es)
           S == {t \in X : ls[t] = es[t] /\ es[t] + 1 <= fs[t]}
<1>1. /\ es \in [X -> Int] /\ ls \in [X -> Int] /\ fs \in [X -> Int] /\ IsFiniteSet(X) /\ Plan(b)
      /\ Earliest(b, NoDelay(b), es) /\ Latest(b, end, ls) /\ Acyclic(X, Precedes(b))
      /\ end \in Int /\ \A t \in X : b.tasks[t].duration \in Int /\ es[t] <= ls[t]
  BY PassesLemma DEF Passes, Earliest, Latest, Plan
<1>2. /\ NoDelay(b) \in [X -> Int] /\ Delayed(b, x) \in [X -> Int]
      /\ \A t \in X : NoDelay(b)[t] <= Delayed(b, x)[t] /\ 0 <= Delayed(b, x)[t]
      /\ NoDelay(b)[x] = 0 /\ Delayed(b, x)[x] = 1
  BY DEF NoDelay, Delayed
<1>3. \A t \in X : es[t] + (Delayed(b, x)[t] - NoDelay(b)[t]) <= fs[t]
  <2> HIDE DEF X
  <2> QED BY <1>1, <1>2, EarliestGrows DEF X
<1>4. x \in S
  BY <1>1, <1>2, <1>3
<1>5. PICK t \in S : \A u \in S : <<t, u>> \notin Precedes(b)
  <2>1. S \in SUBSET X /\ S # {}
    BY <1>4
  <2> HIDE DEF S, X
  <2> QED BY <1>1, <2>1, AcyclicBackwards
<1>6. /\ t \in X /\ es[t] \in Int /\ ls[t] = es[t] /\ fs[t] \in Int /\ es[t] + 1 <= fs[t]
      /\ b.tasks[t].duration \in Int
  BY <1>1, <1>5
<1>7. ls[t] = end - b.tasks[t].duration
  <2> SUFFICES ASSUME ls[t] # end - b.tasks[t].duration PROVE FALSE
    OBVIOUS
  <2>1. PICK e \in Edges(b) : e.source = t /\ ls[t] = ls[e.target] - Lead(b, e)
    BY <1>1, <1>6 DEF Latest
  <2>2. e.target \in X /\ Lead(b, e) \in Int /\ <<t, e.target>> \in Precedes(b)
    BY <1>1, <2>1, EdgeLemma DEF Precedes
  <2>3. /\ es[e.target] \in Int /\ ls[e.target] \in Int /\ fs[e.target] \in Int
        /\ es[e.target] <= ls[e.target]
        /\ Delayed(b, x)[e.target] \in Int /\ 0 <= Delayed(b, x)[e.target]
    BY <1>1, <1>2, <2>2
  <2>4. es[e.target] >= es[t] + Lead(b, e)
    BY <2>1, PassesLemma
  <2>5. fs[e.target] >= fs[t] + Lead(b, e) + Delayed(b, x)[e.target]
    BY <2>1 DEF Earliest
  <2>6. es[e.target] = ls[e.target] /\ es[e.target] + 1 <= fs[e.target]
    BY <1>6, <2>1, <2>2, <2>3, <2>4, <2>5
  <2>7. e.target \in S
    BY <2>2, <2>6
  <2> QED BY <1>5, <2>2, <2>7
<1>8. fs[t] + b.tasks[t].duration <= ProjectEnd(b, fs) /\ ProjectEnd(b, fs) \in Int
  BY <1>1, <1>6, EndLemma
<1> QED BY <1>1, <1>6, <1>7, <1>8

\* The delay of any other is absorbed.
LEMMA SlackAbsorbs ==
  ASSUME NEW b, NEW es, NEW ls, Passes(b, es, ls), NEW x \in DOMAIN b.tasks, ls[x] # es[x],
         NEW fs, Earliest(b, Delayed(b, x), fs)
  PROVE  ProjectEnd(b, fs) <= ProjectEnd(b, es)
<1> DEFINE X == DOMAIN b.tasks
           end == ProjectEnd(b, es)
           later == Delayed(b, x)
<1>1. /\ es \in [X -> Int] /\ ls \in [X -> Int] /\ fs \in [X -> Int] /\ IsFiniteSet(X) /\ Plan(b)
      /\ Earliest(b, NoDelay(b), es) /\ Latest(b, end, ls) /\ Acyclic(X, Precedes(b))
      /\ end \in Int /\ \A t \in X : /\ b.tasks[t].duration \in Int /\ es[t] \in Int
                                     /\ ls[t] \in Int /\ fs[t] \in Int
                                     /\ 0 <= es[t] /\ es[t] <= ls[t]
  BY PassesLemma DEF Passes, Earliest, Latest, Plan
<1>2. later[x] = 1 /\ \A t \in X \ {x} : later[t] = 0
  BY DEF NoDelay, Delayed
<1> HIDE DEF later
<1>3. ASSUME NEW t \in X, fs[t] # later[t]
      PROVE  \E e \in Edges(b) : /\ e.target = t /\ e.source \in X /\ Lead(b, e) \in Int
                                 /\ <<e.source, t>> \in Precedes(b)
                                 /\ fs[t] = fs[e.source] + Lead(b, e) + later[t]
                                 /\ es[t] >= es[e.source] + Lead(b, e)
                                 /\ ls[e.source] <= ls[t] - Lead(b, e)
  <2>1. PICK e \in Edges(b) : e.target = t /\ fs[t] = fs[e.source] + Lead(b, e) + later[t]
    BY <1>3 DEF Earliest, later
  <2>2. e.source \in X /\ Lead(b, e) \in Int /\ <<e.source, t>> \in Precedes(b)
    BY <1>1, <2>1, EdgeLemma DEF Precedes
  <2>3. es[t] >= es[e.source] + Lead(b, e)
    BY <2>1, PassesLemma
  <2>4. ls[e.source] <= ls[t] - Lead(b, e)
    BY <1>1, <2>1 DEF Latest
  <2> QED BY <2>1, <2>2, <2>3, <2>4
<1>4. PICK Y \in SUBSET X : Ancestors(X, Precedes(b), x, Y)
  <2> HIDE DEF X
  <2>1. x \in X
    BY DEF X
  <2> QED BY <1>1, <2>1, AncestorsApart
<1>5. \A t \in Y : fs[t] <= es[t]
  <2> DEFINE S == {t \in Y : ~(fs[t] <= es[t])}
  <2> SUFFICES ASSUME S # {} PROVE FALSE
    OBVIOUS
  <2>1. PICK t \in S : \A s \in S : <<s, t>> \notin Precedes(b)
    BY <1>1 DEF Acyclic
  <2>2. /\ t \in X /\ t \in Y /\ t # x /\ ~(fs[t] <= es[t])
        /\ fs[t] \in Int /\ es[t] \in Int /\ 0 <= es[t] /\ later[t] = 0
    BY <1>1, <1>2, <1>4, <2>1 DEF Ancestors
  <2>3. fs[t] # later[t]
    BY <2>2
  <2>4. PICK e \in Edges(b) : /\ e.source \in X /\ Lead(b, e) \in Int
                              /\ <<e.source, t>> \in Precedes(b)
                              /\ fs[t] = fs[e.source] + Lead(b, e) + later[t]
                              /\ es[t] >= es[e.source] + Lead(b, e)
    BY <1>3, <2>2, <2>3
  <2>5. e.source \in Y /\ fs[e.source] \in Int /\ es[e.source] \in Int
    BY <1>1, <1>4, <2>2, <2>4 DEF Ancestors
  <2>6. fs[e.source] <= es[e.source]
    BY <2>1, <2>4, <2>5
  <2> QED BY <2>2, <2>4, <2>5, <2>6
<1>6. fs[x] <= ls[x]
  <2>1. /\ es[x] \in Int /\ ls[x] \in Int /\ fs[x] \in Int /\ 0 <= es[x] /\ es[x] + 1 <= ls[x]
    BY <1>1
  <2>2. CASE fs[x] = later[x]
    BY <1>2, <2>1, <2>2
  <2>3. CASE fs[x] # later[x]
    <3>1. PICK e \in Edges(b) : /\ e.source \in X /\ Lead(b, e) \in Int
                                /\ <<e.source, x>> \in Precedes(b)
                                /\ fs[x] = fs[e.source] + Lead(b, e) + later[x]
                                /\ es[x] >= es[e.source] + Lead(b, e)
      BY <1>3, <2>3
    <3>2. e.source \in Y /\ fs[e.source] \in Int /\ es[e.source] \in Int
      BY <1>1, <1>4, <3>1 DEF Ancestors
    <3>3. fs[e.source] <= es[e.source]
      BY <1>5, <3>2
    <3> QED BY <1>2, <2>1, <3>1, <3>2, <3>3
  <2> QED BY <2>2, <2>3
<1>7. \A t \in X : fs[t] <= ls[t]
  <2> DEFINE S == {t \in X : ~(fs[t] <= ls[t])}
  <2> SUFFICES ASSUME S # {} PROVE FALSE
    OBVIOUS
  <2>1. PICK t \in S : \A s \in S : <<s, t>> \notin Precedes(b)
    BY <1>1 DEF Acyclic
  <2>2. t \in X /\ t # x /\ ~(fs[t] <= ls[t])
    BY <1>6, <2>1
  <2>3. /\ fs[t] \in Int /\ ls[t] \in Int /\ es[t] \in Int /\ 0 <= es[t] /\ es[t] <= ls[t]
        /\ later[t] = 0
    BY <1>1, <1>2, <2>2
  <2>4. fs[t] # later[t]
    BY <2>2, <2>3
  <2>5. PICK e \in Edges(b) : /\ e.source \in X /\ Lead(b, e) \in Int
                              /\ <<e.source, t>> \in Precedes(b)
                              /\ fs[t] = fs[e.source] + Lead(b, e) + later[t]
                              /\ ls[e.source] <= ls[t] - Lead(b, e)
    BY <1>3, <2>2, <2>4
  <2>6. fs[e.source] <= ls[e.source] /\ fs[e.source] \in Int /\ ls[e.source] \in Int
    BY <1>1, <2>1, <2>5
  <2> QED BY <2>2, <2>3, <2>5, <2>6
<1>8. ASSUME NEW t \in X PROVE fs[t] + b.tasks[t].duration <= end
  <2>1. ls[t] <= end - b.tasks[t].duration
    BY <1>1 DEF Latest
  <2>2. fs[t] <= ls[t] /\ b.tasks[t].duration \in Int /\ fs[t] \in Int /\ ls[t] \in Int
    BY <1>1, <1>7
  <2> HIDE DEF end
  <2> QED BY <1>1, <2>1, <2>2
<1>9. end \in Int /\ 0 <= end
  BY <1>1, EndLemma
<1> HIDE DEF end
<1>10. ProjectEnd(b, fs) <= end
  BY <1>1, <1>8, <1>9, EndLemma
<1> QED BY <1>10 DEF end

\* The tasks found without slack are those whose delay delays the project.
LEMMA CriticalLemma ==
  ASSUME NEW b, Plan(b)
  PROVE  ComputeCriticalPath(b)
           = IF Cyclic(b) THEN {} ELSE {t \in DOMAIN b.tasks : Delays(b, t)}
<1> DEFINE X == DOMAIN b.tasks
<1>1. IsFiniteSet(X) /\ \A e \in Edges(b) : e.source \in X /\ e.target \in X
  BY DEF Plan, Edges
<1>2. TopoOrder(X, Edges(b)) = X <=> ~Cyclic(b)
  <2>1. TopoOrder(X, Edges(b)) = X <=>
           \A S \in SUBSET X :
             S # {} => \E t \in S : \A e \in Edges(b) : e.target = t => e.source \notin S
    <3> HIDE DEF X
    <3> QED BY <1>1, TopoLemma
  <2>2. Cyclic(b) <=>
           ~\A S \in SUBSET X :
             S # {} => \E t \in S : \A e \in Edges(b) : e.target = t => e.source \notin S
    BY DEF Cyclic
  <2> QED BY <2>1, <2>2
<1>3. CASE Cyclic(b)
  BY <1>2, <1>3 DEF ComputeCriticalPath
<1>4. CASE ~Cyclic(b)
  <2>1. Acyclic(X, Precedes(b))
    <3> SUFFICES ASSUME NEW S \in SUBSET X, S # {}
                 PROVE  \E t \in S : \A s \in S : <<s, t>> \notin Precedes(b)
      BY DEF Acyclic
    <3>1. PICK t \in S : \A e \in Edges(b) : e.target = t => e.source \notin S
      BY <1>4 DEF Cyclic
    <3>2. \A s \in S : <<s, t>> \notin Precedes(b)
      BY <3>1 DEF Precedes
    <3> QED BY <3>2
  <2> DEFINE es == EarliestStart(b, Edges(b), NoDelay(b))
             lf == LatestFinish(b, Edges(b), ProjectEnd(b, es))
             ls == [t \in X |-> lf[t] - b.tasks[t].duration]
  <2>2. Earliest(b, NoDelay(b), es)
    <3>1. NoDelay(b) \in [X -> Int]
      BY DEF NoDelay
    <3> QED BY <2>1, <3>1, EarliestLemma
  <2>3. Passes(b, es, ls)
    <3>1. es \in [X -> Int]
      BY <2>2 DEF Earliest
    <3> HIDE DEF es
    <3>2. ProjectEnd(b, es) \in Int
      BY <3>1, EndLemma
    <3>3. Latest(b, ProjectEnd(b, es), ls)
      BY <2>1, <3>2, LatestLemma
    <3> QED BY <2>1, <2>2, <3>3 DEF Passes
  <2>4. ComputeCriticalPath(b) = {t \in X : ls[t] = es[t]}
    <3>1. TopoOrder(X, Edges(b)) = X
      BY <1>2, <1>4
    <3>2. ComputeCriticalPath(b) = {t \in X : lf[t] - b.tasks[t].duration = es[t]}
      BY <3>1 DEF ComputeCriticalPath
    <3>3. \A t \in X : ls[t] = lf[t] - b.tasks[t].duration
      OBVIOUS
    <3> HIDE DEF es, lf, ls
    <3> QED BY <3>2, <3>3
  <2>5. ASSUME NEW x \in X PROVE ls[x] = es[x] <=> Delays(b, x)
    <3> DEFINE fs == EarliestStart(b, Edges(b), Delayed(b, x))
    <3>1. Delays(b, x) <=> ProjectEnd(b, fs) > ProjectEnd(b, es)
      BY DEF Delays, Delayed
    <3>2. Earliest(b, Delayed(b, x), fs)
      <4>1. Delayed(b, x) \in [X -> Int]
        BY DEF NoDelay, Delayed
      <4> QED BY <2>1, <4>1, EarliestLemma
    <3>3. ProjectEnd(b, fs) \in Int /\ ProjectEnd(b, es) \in Int
      <4>1. fs \in [X -> Int] /\ es \in [X -> Int]
        BY <2>2, <3>2 DEF Earliest
      <4> HIDE DEF fs, es
      <4> QED BY <4>1, EndLemma
    <3> HIDE DEF es, ls, fs
    <3>4. CASE ls[x] = es[x]
      BY <2>3, <3>1, <3>2, <3>4, NoSlackDelays
    <3>5. CASE ls[x] # es[x]
      <4>1. ProjectEnd(b, fs) <= ProjectEnd(b, es)
        BY <2>3, <3>2, <3>5, SlackAbsorbs
      <4> QED BY <3>1, <3>3, <3>5, <4>1
    <3> QED BY <3>4, <3>5
  <2> HIDE DEF es, ls
  <2> QED BY <1>4, <2>4, <2>5
<1> QED BY <1>3, <1>4

-----------------------------------------------------------------------------
(* The board: what the tabs hold.                                           *)

\* The rows of the Gantt tab: parents are epics, and no tasks are below each
\* other only.
RowsOK(r) ==
  /\ DOMAIN r \subseteq Tasks
  /\ r \in [DOMAIN r -> [start : Int, end : Int, type : {"task", "summary", "milestone"},
                         parent : Tasks \cup {None}, column : Columns \cup {None}]]
  /\ \A t \in DOMAIN r : r[t].parent \in {u \in DOMAIN r : r[u].type = "summary"} \cup {None}
  /\ \A S \in SUBSET DOMAIN r : S # {} => \E t \in S : r[t].parent \notin S

Row(b, t) ==
  [start |-> Start(b.tasks[t]), end |-> End(b.tasks[t]), type |-> ItemType(b.tasks[t]),
   parent |-> b.tasks[t].parent, column |-> b.tasks[t].column]

LEMMA DayOrMore ==
  ASSUME NEW m \in Int
  PROVE  Max({1, m}) \in Int
<1>1. IsFiniteSet({1} \cup {m})
  BY FS_Singleton, FS_AddElement
<1>2. {1, m} = {1} \cup {m} /\ {1, m} \in SUBSET Int /\ {1, m} # {}
  OBVIOUS
<1>3. Max({1, m}) \in {1, m}
  BY <1>1, <1>2, Extremes
<1> QED BY <1>3

\* A well-formed board becomes rows, one for each task.
LEMMA RowsLemma ==
  ASSUME NEW b, WellFormed(b)
  PROVE  /\ DOMAIN GanttRows(b) = DOMAIN b.tasks /\ IsFiniteSet(DOMAIN b.tasks)
         /\ \A t \in DOMAIN b.tasks : GanttRows(b)[t] = Row(b, t)
         /\ RowsOK(GanttRows(b))
         /\ GanttLinks(b) = b.links
<1> DEFINE X == DOMAIN b.tasks
           r == GanttRows(b)
<1>1. /\ X \subseteq Tasks /\ b.tasks \in [X -> KanbanTask] /\ Rooted(b.tasks) = X
      /\ \A t \in X : b.tasks[t].parent \in Epics(b) \cup {None}
      /\ b.links \subseteq Link /\ \A l \in b.links : {l.source, l.target} \subseteq X
  BY DEF WellFormed
<1>2. IsFiniteSet(X) /\ None \notin X /\ None \notin Int /\ Today \in Int
  BY <1>1, ProjectBoardAssumption, FS_Subset
<1>3. DOMAIN r = X /\ GanttLinks(b) = b.links
  BY <1>1 DEF GanttRows, GanttLinks
<1>4. ASSUME NEW t \in X PROVE r[t] = Row(b, t)
  <2>1. b.tasks[t].parent \in X \/ b.tasks[t].parent = None
    BY <1>1 DEF Epics
  <2>2. (IF b.tasks[t].parent \in X THEN b.tasks[t].parent ELSE None) = b.tasks[t].parent
    BY <2>1
  <2> QED BY <1>1, <2>2 DEF GanttRows, Row
<1>5. ASSUME NEW t \in X
      PROVE  /\ Row(b, t) \in [start : Int, end : Int, type : {"task", "summary", "milestone"},
                               parent : Tasks \cup {None}, column : Columns \cup {None}]
             /\ Row(b, t).type = "summary" <=> b.tasks[t].type = "summary"
             /\ Row(b, t).parent = b.tasks[t].parent
  <2>1. b.tasks[t] \in KanbanTask
    BY <1>1
  <2>2. Start(b.tasks[t]) \in Int
    BY <1>2, <2>1 DEF Start, KanbanTask
  <2>3. End(b.tasks[t]) \in Int
    <3>1. b.tasks[t].duration \in Int /\ b.tasks[t].end \in Int \cup {None}
      BY <2>1 DEF KanbanTask
    <3>2. Max({1, b.tasks[t].duration}) \in Int
      BY <3>1, DayOrMore
    <3> QED BY <2>2, <3>1, <3>2 DEF End
  <2>4. /\ ItemType(b.tasks[t]) \in {"task", "summary", "milestone"}
        /\ ItemType(b.tasks[t]) = "summary" <=> b.tasks[t].type = "summary"
    BY DEF ItemType
  <2>5. /\ b.tasks[t].parent \in Tasks \cup {None} /\ b.tasks[t].column \in Columns \cup {None}
    BY <2>1 DEF KanbanTask
  <2> QED BY <2>2, <2>3, <2>4, <2>5 DEF Row
<1>6. RowsOK(r)
  <2>1. r = [t \in X |-> r[t]]
    BY <1>3 DEF GanttRows
  <2> HIDE DEF r
  <2>2. r \in [X -> [start : Int, end : Int, type : {"task", "summary", "milestone"},
                     parent : Tasks \cup {None}, column : Columns \cup {None}]]
    BY <1>4, <1>5, <2>1
  <2>3. ASSUME NEW t \in X
        PROVE  r[t].parent \in {u \in X : r[u].type = "summary"} \cup {None}
    BY <1>1, <1>4, <1>5 DEF Epics, IsEpic
  <2>4. ASSUME NEW S \in SUBSET X, S # {} PROVE \E t \in S : r[t].parent \notin S
    <3>1. PICK t \in S : b.tasks[t].parent \notin S
      BY <1>1, <1>2, <2>4, RootedLemma
    <3> QED BY <1>4, <1>5, <3>1
  <2> QED BY <1>1, <1>3, <2>2, <2>3, <2>4 DEF RowsOK
<1> QED BY <1>2, <1>3, <1>4, <1>6

\* Rows become a well-formed board, from which they can be read again.
LEMMA JsonLemma ==
  ASSUME NEW g, RowsOK(g.rows), g.columns \subseteq Columns,
         g.links \subseteq Link, IsFiniteSet(g.links),
         \A l \in g.links : {l.source, l.target} \subseteq DOMAIN g.rows
  PROVE  /\ WellFormed(GanttJson(g)) /\ Plan(GanttJson(g))
         /\ GanttRows(GanttJson(g)) = g.rows
         /\ GanttJson(g).columns = g.columns /\ GanttJson(g).links = g.links
         /\ DOMAIN GanttJson(g).tasks = DOMAIN g.rows
<1> DEFINE X == DOMAIN g.rows
           r == g.rows
           b == GanttJson(g)
           ts == [t \in X |-> [start |-> r[t].start, end |-> r[t].end,
                               duration |-> DurationInDays(r[t].start, r[t].end),
                               type |-> r[t].type, parent |-> r[t].parent,
                               column |-> r[t].column]]
<1>1. /\ X \subseteq Tasks
      /\ r \in [X -> [start : Int, end : Int, type : {"task", "summary", "milestone"},
                      parent : Tasks \cup {None}, column : Columns \cup {None}]]
      /\ \A t \in X : r[t].parent \in {u \in X : r[u].type = "summary"} \cup {None}
      /\ \A S \in SUBSET X : S # {} => \E t \in S : r[t].parent \notin S
  BY DEF RowsOK
<1>2. IsFiniteSet(X) /\ None \notin X /\ None \notin Int /\ None \notin Tasks
  BY <1>1, ProjectBoardAssumption, FS_Subset
<1>3. b.tasks = ts /\ b.columns = g.columns /\ b.links = g.links
  BY DEF GanttJson
<1>4. ASSUME NEW t \in X PROVE DurationInDays(r[t].start, r[t].end) \in Int
  <2>1. r[t].end - r[t].start \in Int
    BY <1>1
  <2> QED BY <2>1, DayOrMore DEF DurationInDays
<1>5. /\ DOMAIN ts = X /\ ts \in [X -> KanbanTask]
      /\ \A t \in X : /\ ts[t].start = r[t].start /\ ts[t].end = r[t].end
                      /\ ts[t].type = r[t].type /\ ts[t].parent = r[t].parent
                      /\ ts[t].column = r[t].column /\ ts[t].duration \in Int
  <2>1. ts \in [X -> KanbanTask]
    BY <1>1, <1>4 DEF KanbanTask
  <2>2. \A t \in X : ts[t].duration \in Int
    BY <1>4
  <2> QED BY <2>1, <2>2
<1> HIDE DEF b, ts
<1>6. Epics(b) = {u \in X : r[u].type = "summary"}
  BY <1>3, <1>5 DEF Epics, IsEpic
<1>7. Rooted(b.tasks) = X
  <2>1. \A S \in SUBSET X : S # {} => \E t \in S : ts[t].parent \notin S
    BY <1>1, <1>5
  <2> QED BY <1>2, <1>3, <1>5, <2>1, RootedLemma
<1>8. WellFormed(b)
  <2>1. \A t \in X : b.tasks[t].parent \in Epics(b) \cup {None}
    BY <1>1, <1>3, <1>5, <1>6
  <2> QED BY <1>1, <1>3, <1>5, <1>7, <2>1 DEF WellFormed
<1>9. Plan(b)
  BY <1>2, <1>3, <1>5 DEF Plan, Link
<1>10. GanttRows(b) = r
  <2>1. DOMAIN GanttRows(b) = X /\ \A t \in X : GanttRows(b)[t] = Row(b, t)
    BY <1>3, <1>5, <1>8, RowsLemma
  <2>2. ASSUME NEW t \in X PROVE Row(b, t) = r[t]
    <3>1. /\ b.tasks[t].start = r[t].start /\ b.tasks[t].end = r[t].end
          /\ b.tasks[t].type = r[t].type /\ b.tasks[t].parent = r[t].parent
          /\ b.tasks[t].column = r[t].column
      BY <1>3, <1>5
    <3>2. /\ r[t] \in [start : Int, end : Int, type : {"task", "summary", "milestone"},
                       parent : Tasks \cup {None}, column : Columns \cup {None}]
      BY <1>1
    <3>3. /\ Start(b.tasks[t]) = r[t].start /\ End(b.tasks[t]) = r[t].end
          /\ ItemType(b.tasks[t]) = r[t].type
      BY <1>2, <3>1, <3>2 DEF Start, End, ItemType
    <3> QED BY <3>1, <3>2, <3>3 DEF Row
  <2>3. GanttRows(b) = [t \in X |-> GanttRows(b)[t]] /\ r = [t \in X |-> r[t]]
    BY <1>1, <2>1 DEF GanttRows
  <2> QED BY <2>1, <2>2, <2>3
<1> QED BY <1>3, <1>5, <1>8, <1>9, <1>10 DEF b

\* What the Gantt tab holds once a board is loaded.
GanttOf(b, marked) ==
  SetCriticalPathTaskIds(
    [rows |-> GanttRows(b), columns |-> b.columns, links |-> GanttLinks(b), critical |-> {}],
    marked)

\* Its parts; any other record of the same rows, columns and links shows the same.
LEMMA LoadedLemma ==
  ASSUME NEW b, WellFormed(b), NEW marked \in BOOLEAN
  PROVE  /\ GanttOf(b, marked).rows = GanttRows(b)
         /\ GanttOf(b, marked).columns = b.columns /\ GanttOf(b, marked).links = b.links
         /\ GanttOf(b, marked).critical
              = IF marked THEN ComputeCriticalPath(GanttJson(GanttOf(b, marked))) ELSE {}
         /\ \A c : SetCriticalPathTaskIds([rows |-> GanttRows(b), columns |-> b.columns,
                                           links |-> b.links, critical |-> c], marked)
                     = GanttOf(b, marked)
         /\ \E c : GanttOf(b, marked) = [rows |-> GanttRows(b), columns |-> b.columns,
                                        links |-> b.links, critical |-> c]
<1> DEFINE Shape(c) == [rows |-> GanttRows(b), columns |-> b.columns,
                        links |-> b.links, critical |-> c]
           crit == IF marked THEN ComputeCriticalPath(GanttJson(Shape({}))) ELSE {}
           g == GanttOf(b, marked)
<1>1. GanttLinks(b) = b.links
  BY RowsLemma
<1>2. \A c, d : GanttJson(Shape(c)) = GanttJson(Shape(d))
  BY DEF GanttJson
<1>3. ASSUME NEW c PROVE SetCriticalPathTaskIds(Shape(c), marked) = Shape(crit)
  <2>1. GanttJson(Shape(c)) = GanttJson(Shape({}))
    BY <1>2
  <2>2. SetCriticalPathTaskIds(Shape(c), marked) = [Shape(c) EXCEPT !.critical = crit]
    BY <2>1 DEF SetCriticalPathTaskIds
  <2> HIDE DEF crit
  <2> QED BY <2>2
<1>4. g = SetCriticalPathTaskIds(Shape({}), marked)
  BY <1>1 DEF GanttOf
<1> HIDE DEF g, crit
<1>5. g = Shape(crit)
  BY <1>3, <1>4
<1>6. GanttJson(g) = GanttJson(Shape({}))
  BY <1>2, <1>5
<1>7. /\ g.rows = GanttRows(b) /\ g.columns = b.columns /\ g.links = b.links /\ g.critical = crit
  BY <1>5
<1>8. g.critical = IF marked THEN ComputeCriticalPath(GanttJson(g)) ELSE {}
  BY <1>6, <1>7 DEF crit
<1>9. \A c : SetCriticalPathTaskIds(Shape(c), marked) = g
  BY <1>3, <1>5
<1> HIDE DEF Shape
<1>10. \E c : g = Shape(c)
  BY <1>5
<1> QED BY <1>7, <1>8, <1>9, <1>10 DEF g, Shape

\* All three tabs hold what the table has.
BoardInv ==
  /\ WellFormed(table)
  /\ table = TableDocument(table) /\ kanban = KanbanDocument(table) /\ links = table.links
  /\ gantt = GanttOf(table, highlight)
  /\ highlight \in BOOLEAN /\ edits \in 0..MaxEdits

\* A step after which they hold the board b.
Shown(b) ==
  /\ gantt' = GanttOf(b, highlight') /\ kanban' = KanbanDocument(b)
  /\ table' = TableDocument(b) /\ links' = b.links

LEMMA ShownLemma ==
  ASSUME NEW b, WellFormed(b), Shown(b), highlight' \in BOOLEAN, edits' \in 0..MaxEdits
  PROVE  BoardInv' /\ gantt'.rows = GanttRows(b) /\ gantt'.links = b.links
<1> DEFINE d == TableDocument(b)
<1>1. d.tasks = b.tasks /\ d.columns = b.columns /\ d.links = b.links
  BY DEF TableDocument
<1> HIDE DEF d
<1>2. Epics(d) = Epics(b) /\ GanttRows(d) = GanttRows(b) /\ GanttLinks(d) = GanttLinks(b)
  BY <1>1 DEF Epics, GanttRows, GanttLinks
<1>3. WellFormed(d)
  BY <1>1, <1>2 DEF WellFormed
<1>4. d = TableDocument(d) /\ KanbanDocument(b) = KanbanDocument(d)
  BY <1>1 DEF TableDocument, KanbanDocument, d
<1>5. GanttOf(b, highlight') = GanttOf(d, highlight')
  BY <1>1, <1>2 DEF GanttOf
<1>6. table' = d /\ gantt' = GanttOf(d, highlight') /\ kanban' = KanbanDocument(d) /\ links' = d.links
  BY <1>1, <1>4, <1>5 DEF Shown, d
<1>7. BoardInv'
  BY <1>3, <1>4, <1>6 DEF BoardInv
<1>8. gantt'.rows = GanttRows(b) /\ gantt'.links = b.links
  BY LoadedLemma DEF Shown
<1> QED BY <1>7, <1>8

\* One task of a board is changed: a card in its column, kind and lane, or any
\* task in what is neither its kind nor its parent.
LEMMA ChangeLemma ==
  ASSUME NEW b, WellFormed(b), NEW t \in DOMAIN b.tasks, NEW x \in KanbanTask,
         \/ t \notin Epics(b) /\ x.parent \in Epics(b) \cup {None}
         \/ x.parent = b.tasks[t].parent /\ x.type = b.tasks[t].type,
         NEW d, d.tasks = [b.tasks EXCEPT ![t] = x], d.columns = b.columns, d.links = b.links
  PROVE  /\ WellFormed(d) /\ DOMAIN d.tasks = DOMAIN b.tasks
         /\ \A u \in DOMAIN b.tasks \ {t} : Row(d, u) = Row(b, u)
<1> DEFINE X == DOMAIN b.tasks
<1>1. /\ X \subseteq Tasks /\ b.tasks \in [X -> KanbanTask] /\ Rooted(b.tasks) = X
      /\ b.columns \subseteq Columns
      /\ \A u \in X : b.tasks[u].parent \in Epics(b) \cup {None}
      /\ b.links \subseteq Link /\ IsFiniteSet(b.links)
      /\ \A l \in b.links : {l.source, l.target} \subseteq X
  BY DEF WellFormed
<1>2. IsFiniteSet(X) /\ None \notin X
  BY <1>1, ProjectBoardAssumption, FS_Subset
<1>3. DOMAIN d.tasks = X /\ d.tasks[t] = x /\ \A u \in X \ {t} : d.tasks[u] = b.tasks[u]
  BY <1>1
<1>4. d.tasks \in [X -> KanbanTask]
  BY <1>1
<1>5. Epics(b) \subseteq Epics(d)
  <2>1. \A u \in Epics(b) : IsEpic(d.tasks[u])
    BY <1>3 DEF Epics, IsEpic
  <2> QED BY <1>3, <2>1 DEF Epics
<1>6. \A u \in X : d.tasks[u].parent \in Epics(d) \cup {None}
  BY <1>1, <1>3, <1>5
<1>7. \A S \in SUBSET X : S # {} => \E u \in S : b.tasks[u].parent \notin S
  BY <1>1, <1>2, RootedLemma
<1>8. ASSUME NEW S \in SUBSET X, S # {} PROVE \E u \in S : d.tasks[u].parent \notin S
  <2>1. CASE x.parent = b.tasks[t].parent
    BY <1>3, <1>7, <1>8, <2>1
  <2>2. CASE t \notin Epics(b) /\ x.parent \in Epics(b) \cup {None}
    <3>1. CASE S = {t}
      <4>1. x.parent # t
        BY <1>2, <2>2
      <4> QED BY <1>3, <3>1, <4>1
    <3>2. CASE S # {t}
      <4>1. S \ {t} \in SUBSET X /\ S \ {t} # {}
        BY <1>8, <3>2
      <4>2. PICK u \in S \ {t} : b.tasks[u].parent \notin S \ {t}
        BY <1>7, <4>1
      <4>3. b.tasks[u].parent # t
        BY <1>1, <1>2, <2>2
      <4> QED BY <1>3, <4>2, <4>3
    <3> QED BY <3>1, <3>2
  <2> QED BY <2>1, <2>2
<1>9. Rooted(d.tasks) = X
  BY <1>2, <1>3, <1>8, RootedLemma
<1>10. WellFormed(d)
  BY <1>1, <1>3, <1>4, <1>6, <1>9 DEF WellFormed
<1>11. \A u \in X \ {t} : Row(d, u) = Row(b, u)
  BY <1>3 DEF Row
<1> QED BY <1>3, <1>10, <1>11

\* A task without a parent is added.
LEMMA AddLemma ==
  ASSUME NEW b, WellFormed(b), NEW t \in Tasks \ DOMAIN b.tasks, NEW x \in KanbanTask,
         x.parent = None,
         NEW d, d.tasks = [u \in DOMAIN b.tasks \cup {t} |-> IF u # t THEN b.tasks[u] ELSE x],
         d.columns = b.columns, d.links = b.links
  PROVE  /\ WellFormed(d) /\ DOMAIN b.tasks \subseteq DOMAIN d.tasks
         /\ \A u \in DOMAIN b.tasks : Row(d, u) = Row(b, u)
<1> DEFINE X == DOMAIN b.tasks
           Y == X \cup {t}
<1>1. /\ X \subseteq Tasks /\ b.tasks \in [X -> KanbanTask] /\ Rooted(b.tasks) = X
      /\ b.columns \subseteq Columns
      /\ \A u \in X : b.tasks[u].parent \in Epics(b) \cup {None}
      /\ b.links \subseteq Link /\ IsFiniteSet(b.links)
      /\ \A l \in b.links : {l.source, l.target} \subseteq X
  BY DEF WellFormed
<1>2. Y \subseteq Tasks /\ IsFiniteSet(X) /\ IsFiniteSet(Y) /\ None \notin Y
  BY <1>1, ProjectBoardAssumption, FS_Subset
<1>3. DOMAIN d.tasks = Y /\ d.tasks[t] = x /\ \A u \in X : d.tasks[u] = b.tasks[u]
  OBVIOUS
<1>4. d.tasks \in [Y -> KanbanTask]
  BY <1>1
<1>5. Epics(b) \subseteq Epics(d)
  BY <1>3 DEF Epics
<1>6. \A u \in Y : d.tasks[u].parent \in Epics(d) \cup {None}
  BY <1>1, <1>3, <1>5
<1>7. \A S \in SUBSET X : S # {} => \E u \in S : b.tasks[u].parent \notin S
  BY <1>1, <1>2, RootedLemma
<1>8. ASSUME NEW S \in SUBSET Y, S # {} PROVE \E u \in S : d.tasks[u].parent \notin S
  <2>1. CASE t \in S
    BY <1>2, <1>3, <2>1
  <2>2. CASE t \notin S
    <3>1. S \in SUBSET X
      BY <2>2
    <3> QED BY <1>3, <1>7, <1>8, <3>1
  <2> QED BY <2>1, <2>2
<1>9. Rooted(d.tasks) = Y
  BY <1>2, <1>3, <1>8, RootedLemma
<1>10. WellFormed(d)
  <2>1. \A l \in d.links : {l.source, l.target} \subseteq Y
    BY <1>1
  <2> QED BY <1>1, <1>2, <1>3, <1>4, <1>6, <1>9, <2>1 DEF WellFormed
<1>11. \A u \in X : Row(d, u) = Row(b, u)
  BY <1>3 DEF Row
<1> QED BY <1>3, <1>10, <1>11

\* A step that changes one row or one link of the Gantt tab; it may add a row.
OneChange ==
  \/ /\ gantt'.links = gantt.links
     /\ \E t : \A u \in DOMAIN gantt.rows \ {t} :
          u \in DOMAIN gantt'.rows /\ gantt'.rows[u] = gantt.rows[u]
  \/ /\ \A u \in DOMAIN gantt.rows : u \in DOMAIN gantt'.rows /\ gantt'.rows[u] = gantt.rows[u]
     /\ \E l : (gantt.links \ gantt'.links) \cup (gantt'.links \ gantt.links) \subseteq {l}

\* The parts of the Gantt tab.
LEMMA GanttParts ==
  ASSUME BoardInv
  PROVE  /\ gantt.rows = GanttRows(table) /\ RowsOK(gantt.rows)
         /\ DOMAIN gantt.rows = DOMAIN table.tasks
         /\ \A t \in DOMAIN table.tasks : gantt.rows[t] = Row(table, t)
         /\ gantt.columns = table.columns /\ gantt.columns \subseteq Columns
         /\ gantt.links = table.links /\ gantt.links \subseteq Link /\ IsFiniteSet(gantt.links)
         /\ \A l \in gantt.links : {l.source, l.target} \subseteq DOMAIN gantt.rows
         /\ gantt = [rows |-> gantt.rows, columns |-> gantt.columns, links |-> gantt.links,
                     critical |-> gantt.critical]
         /\ gantt.critical = IF highlight THEN ComputeCriticalPath(GanttJson(gantt)) ELSE {}
<1>1. WellFormed(table) /\ highlight \in BOOLEAN /\ gantt = GanttOf(table, highlight)
  BY DEF BoardInv
<1>2. /\ gantt.rows = GanttRows(table) /\ gantt.columns = table.columns
      /\ gantt.links = table.links
      /\ gantt.critical = IF highlight THEN ComputeCriticalPath(GanttJson(gantt)) ELSE {}
      /\ \E c : gantt = [rows |-> GanttRows(table), columns |-> table.columns,
                         links |-> table.links, critical |-> c]
  BY <1>1, LoadedLemma
<1>3. /\ RowsOK(gantt.rows) /\ DOMAIN gantt.rows = DOMAIN table.tasks
      /\ \A t \in DOMAIN table.tasks : gantt.rows[t] = Row(table, t)
  BY <1>1, <1>2, RowsLemma
<1>4. /\ table.columns \subseteq Columns /\ table.links \subseteq Link /\ IsFiniteSet(table.links)
      /\ \A l \in table.links : {l.source, l.target} \subseteq DOMAIN table.tasks
  BY <1>1 DEF WellFormed
<1>5. gantt = [rows |-> gantt.rows, columns |-> gantt.columns, links |-> gantt.links,
               critical |-> gantt.critical]
  BY <1>2
<1> QED BY <1>2, <1>3, <1>4, <1>5

\* What the Gantt tab saves is loaded as it is by the other two.
LEMMA GanttEdited ==
  ASSUME BoardInv, NEW r, RowsOK(r), NEW L \in SUBSET Link, IsFiniteSet(L),
         \A l \in L : {l.source, l.target} \subseteq DOMAIN r,
         HandleGanttEdited([rows |-> r, columns |-> gantt.columns, links |-> L,
                            critical |-> gantt.critical]),
         highlight' = highlight, edits < MaxEdits
  PROVE  BoardInv' /\ gantt'.rows = r /\ gantt'.links = L
<1> DEFINE g == [rows |-> r, columns |-> gantt.columns, links |-> L, critical |-> gantt.critical]
           sg == SetCriticalPathTaskIds(g, highlight)
           b == GanttJson(g)
<1>1. g.rows = r /\ g.columns = gantt.columns /\ g.links = L /\ gantt.columns \subseteq Columns
  BY GanttParts
<1>2. /\ WellFormed(b) /\ GanttRows(b) = r /\ b.columns = gantt.columns /\ b.links = L
  <2> HIDE DEF g
  <2> QED BY <1>1, JsonLemma
<1>3. highlight \in BOOLEAN /\ edits' \in 0..MaxEdits
  BY ProjectBoardAssumption DEF BoardInv, HandleGanttEdited, HandleProjectBoardEdited
<1> HIDE DEF b
<1>4. sg = GanttOf(b, highlight)
  <2>1. g = [rows |-> GanttRows(b), columns |-> b.columns, links |-> b.links,
             critical |-> gantt.critical]
    BY <1>2
  <2> HIDE DEF g
  <2> QED BY <1>2, <1>3, <2>1, LoadedLemma
<1>5. GanttJson(sg) = b
  <2>1. sg.rows = g.rows /\ sg.columns = g.columns /\ sg.links = g.links
    BY <1>2, <1>3, <1>4, LoadedLemma
  <2> HIDE DEF g, sg
  <2> QED BY <2>1 DEF GanttJson, b
<1>6. Shown(b)
  <2>1. gantt' = sg /\ links' = GanttJson(sg).links
        /\ kanban' = KanbanDocument(GanttJson(sg)) /\ table' = TableDocument(GanttJson(sg))
    BY DEF HandleGanttEdited
  <2> HIDE DEF sg
  <2> QED BY <1>4, <1>5, <2>1 DEF Shown
<1>7. BoardInv' /\ gantt'.rows = GanttRows(b) /\ gantt'.links = b.links
  <2>1. highlight' \in BOOLEAN
    BY <1>3
  <2> QED BY <1>2, <1>3, <1>6, <2>1, ShownLemma
<1> QED BY <1>2, <1>7

LEMMA GanttStep ==
  ASSUME BoardInv, GanttEdit
  PROVE  BoardInv' /\ OneChange
<1> DEFINE R == gantt.rows
           L == gantt.links
           g(r, ls) == [rows |-> r, columns |-> gantt.columns, links |-> ls,
                        critical |-> gantt.critical]
<1>1. /\ RowsOK(R) /\ L \in SUBSET Link /\ IsFiniteSet(L)
      /\ \A l \in L : {l.source, l.target} \subseteq DOMAIN R
      /\ gantt = g(R, L)
  BY GanttParts
<1>2. ASSUME NEW t \in DOMAIN R, NEW s \in Days, NEW e \in Days, DragBar(t, s, e)
      PROVE  BoardInv' /\ OneChange
  <2> DEFINE y == [R[t] EXCEPT !.start = s]
             R1 == [R EXCEPT ![t] = y]
             x == [R1[t] EXCEPT !.end = e]
             r == [R1 EXCEPT ![t] = x]
             gantt1 == [gantt EXCEPT !.rows = R1]
  <2>1. /\ DOMAIN R \subseteq Tasks
        /\ R \in [DOMAIN R -> [start : Int, end : Int, type : {"task", "summary", "milestone"},
                               parent : Tasks \cup {None}, column : Columns \cup {None}]]
        /\ \A u \in DOMAIN R : R[u].parent \in {v \in DOMAIN R : R[v].type = "summary"} \cup {None}
        /\ \A S \in SUBSET DOMAIN R : S # {} => \E u \in S : R[u].parent \notin S
    BY <1>1 DEF RowsOK
  <2>2. /\ x \in [start : Int, end : Int, type : {"task", "summary", "milestone"},
                  parent : Tasks \cup {None}, column : Columns \cup {None}]
        /\ x.type = R[t].type /\ x.parent = R[t].parent
    <3>1. s \in Int /\ e \in Int
      BY ProjectBoardAssumption
    <3>2. R[t] \in [start : Int, end : Int, type : {"task", "summary", "milestone"},
                   parent : Tasks \cup {None}, column : Columns \cup {None}]
      BY <2>1
    <3> HIDE DEF R
    <3>3. /\ y \in [start : Int, end : Int, type : {"task", "summary", "milestone"},
                    parent : Tasks \cup {None}, column : Columns \cup {None}]
          /\ y.type = R[t].type /\ y.parent = R[t].parent
      BY <3>1, <3>2
    <3> HIDE DEF y
    <3>4. R1[t] = y
      OBVIOUS
    <3> HIDE DEF R1
    <3> QED BY <3>1, <3>3, <3>4
  <2>3. [gantt EXCEPT !.rows[t].start = s, !.rows[t].end = e] = g(r, L)
    <3>1. [gantt EXCEPT !.rows[t].start = s, !.rows[t].end = e]
            = [gantt1 EXCEPT !.rows = [gantt1.rows EXCEPT ![t] = [gantt1.rows[t] EXCEPT !.end = e]]]
      OBVIOUS
    <3> HIDE DEF R1, y
    <3>2. gantt1 = g(R1, L)
      BY <1>1
    <3> HIDE DEF gantt1
    <3>3. gantt1.rows = R1
      BY <3>2
    <3>4. [gantt1.rows EXCEPT ![t] = [gantt1.rows[t] EXCEPT !.end = e]] = r
      BY <3>3
    <3> HIDE DEF r
    <3>5. [gantt1 EXCEPT !.rows = r] = g(r, L)
      BY <3>2
    <3> QED BY <3>1, <3>4, <3>5
  <2> HIDE DEF x, R
  <2>4. /\ DOMAIN r = DOMAIN R /\ r[t] = x /\ \A u \in DOMAIN R \ {t} : r[u] = R[u]
    <3> HIDE DEF y
    <3> QED OBVIOUS
  <2>5. r \in [DOMAIN R -> [start : Int, end : Int, type : {"task", "summary", "milestone"},
                            parent : Tasks \cup {None}, column : Columns \cup {None}]]
    BY <2>1, <2>2
  <2> HIDE DEF r
  <2>6. \A u \in DOMAIN R : r[u].type = R[u].type /\ r[u].parent = R[u].parent
    BY <2>2, <2>4
  <2>7. RowsOK(r)
    BY <2>1, <2>4, <2>5, <2>6 DEF RowsOK
  <2>8. \A l \in L : {l.source, l.target} \subseteq DOMAIN r
    BY <1>1, <2>4
  <2>9. HandleGanttEdited(g(r, L)) /\ highlight' = highlight /\ edits < MaxEdits
    BY <1>2, <2>3 DEF DragBar, Editing, R
  <2>10. BoardInv' /\ gantt'.rows = r /\ gantt'.links = L
    <3> HIDE DEF L
    <3> QED BY <1>1, <2>7, <2>8, <2>9, GanttEdited
  <2> QED BY <2>4, <2>10 DEF OneChange, R
<1>3. ASSUME NEW s \in DOMAIN R, NEW t \in DOMAIN R, NEW type \in LinkTypes, AddLink(s, t, type)
      PROVE  BoardInv' /\ OneChange
  <2> DEFINE l == [source |-> s, target |-> t, type |-> type, lag |-> 0]
             M == L \cup {l}
  <2>1. l \in Link /\ {l.source, l.target} \subseteq DOMAIN R
    BY <1>1 DEF Link, RowsOK
  <2>2. HandleGanttEdited([gantt EXCEPT !.links = M]) /\ highlight' = highlight /\ edits < MaxEdits
    BY <1>3 DEF AddLink, Editing
  <2> HIDE DEF l
  <2>3. M \in SUBSET Link /\ IsFiniteSet(M) /\ \A k \in M : {k.source, k.target} \subseteq DOMAIN R
    BY <1>1, <2>1, FS_AddElement
  <2> HIDE DEF M
  <2>4. [gantt EXCEPT !.links = M] = g(R, M)
    BY <1>1
  <2>5. BoardInv' /\ gantt'.rows = R /\ gantt'.links = M
    BY <1>1, <2>2, <2>3, <2>4, GanttEdited
  <2>6. (L \ gantt'.links) \cup (gantt'.links \ L) \subseteq {l}
    BY <2>5 DEF M
  <2> QED BY <2>5, <2>6 DEF OneChange
<1>4. ASSUME NEW l \in L, RemoveLink(l)
      PROVE  BoardInv' /\ OneChange
  <2> DEFINE M == L \ {l}
  <2>1. HandleGanttEdited([gantt EXCEPT !.links = M]) /\ highlight' = highlight /\ edits < MaxEdits
    BY <1>4 DEF RemoveLink, Editing
  <2>2. M \in SUBSET Link /\ IsFiniteSet(M) /\ \A k \in M : {k.source, k.target} \subseteq DOMAIN R
    BY <1>1, FS_RemoveElement
  <2> HIDE DEF M
  <2>3. [gantt EXCEPT !.links = M] = g(R, M)
    BY <1>1
  <2>4. BoardInv' /\ gantt'.rows = R /\ gantt'.links = M
    BY <1>1, <2>1, <2>2, <2>3, GanttEdited
  <2>5. (L \ gantt'.links) \cup (gantt'.links \ L) \subseteq {l}
    BY <2>4 DEF M
  <2> QED BY <2>4, <2>5 DEF OneChange
<1> QED BY <1>2, <1>3, <1>4 DEF GanttEdit

\* What the Kanban tab has is loaded by the other two, with the widget's links.
LEMMA KanbanEdited ==
  ASSUME BoardInv, NEW ts, NEW cs,
         WellFormed(KanbanBoard([tasks |-> ts, columns |-> cs])),
         HandleKanbanEdited([tasks |-> ts, columns |-> cs]),
         highlight' = highlight, edits < MaxEdits
  PROVE  /\ BoardInv' /\ gantt'.rows = GanttRows(KanbanBoard([tasks |-> ts, columns |-> cs]))
         /\ gantt'.links = gantt.links
<1> DEFINE k == [tasks |-> ts, columns |-> cs]
           b == KanbanBoard(k)
<1>1. highlight \in BOOLEAN /\ edits' \in 0..MaxEdits
  BY ProjectBoardAssumption DEF BoardInv, HandleKanbanEdited, HandleProjectBoardEdited
<1>2. b.tasks = ts /\ b.columns = cs /\ b.links = links /\ KanbanDocument(b) = k
  BY DEF KanbanBoard, KanbanDocument
<1>3. Shown(b)
  BY <1>2 DEF Shown, HandleKanbanEdited, GanttLoadFromJson, GanttOf
<1>4. BoardInv' /\ gantt'.rows = GanttRows(b) /\ gantt'.links = b.links
  <2>1. highlight' \in BOOLEAN
    BY <1>1
  <2> HIDE DEF b
  <2> QED BY <1>1, <1>3, <2>1, ShownLemma DEF b
<1>5. gantt.links = links
  BY GanttParts DEF BoardInv
<1> QED BY <1>2, <1>4, <1>5

\* What the Kanban tab holds: the tasks of the table without its links.
LEMMA KanbanParts ==
  ASSUME BoardInv
  PROVE  /\ kanban = [tasks |-> table.tasks, columns |-> table.columns]
         /\ links = table.links /\ Epics(kanban) = Epics(table)
         /\ table.tasks \in [DOMAIN table.tasks -> KanbanTask] /\ DOMAIN table.tasks \subseteq Tasks
         /\ table.columns \subseteq Columns /\ WellFormed(table)
         /\ table = [tasks |-> table.tasks, columns |-> table.columns, links |-> table.links]
<1>1. kanban = [tasks |-> table.tasks, columns |-> table.columns]
  BY DEF BoardInv, KanbanDocument
<1>2. Epics(kanban) = Epics(table)
  BY <1>1 DEF Epics
<1>3. table = [tasks |-> table.tasks, columns |-> table.columns, links |-> table.links]
  BY DEF BoardInv, TableDocument
<1> QED BY <1>1, <1>2, <1>3 DEF BoardInv, WellFormed

\* One card is changed.
LEMMA CardStep ==
  ASSUME BoardInv, NEW t \in Cards(kanban), NEW x \in KanbanTask,
         x.parent \in Epics(kanban) \cup {None},
         HandleKanbanEdited([tasks |-> [table.tasks EXCEPT ![t] = x], columns |-> table.columns]),
         highlight' = highlight, edits < MaxEdits
  PROVE  BoardInv' /\ OneChange
<1> DEFINE ts == [table.tasks EXCEPT ![t] = x]
           k == [tasks |-> ts, columns |-> table.columns]
           d == KanbanBoard(k)
           X == DOMAIN table.tasks
<1>1. t \in X /\ t \notin Epics(table) /\ x.parent \in Epics(table) \cup {None}
  BY KanbanParts DEF Cards, Epics
<1>2. d.tasks = ts /\ d.columns = table.columns /\ d.links = table.links
  BY KanbanParts DEF KanbanBoard
<1>3. WellFormed(table)
  BY DEF BoardInv
<1> HIDE DEF d
<1>4. WellFormed(d) /\ DOMAIN d.tasks = X /\ \A u \in X \ {t} : Row(d, u) = Row(table, u)
  BY <1>1, <1>2, <1>3, ChangeLemma
<1>5. BoardInv' /\ gantt'.rows = GanttRows(d) /\ gantt'.links = gantt.links
  <2> HIDE DEF ts
  <2> QED BY <1>4, KanbanEdited DEF d, ts
<1>6. DOMAIN gantt'.rows = X /\ \A u \in X : gantt'.rows[u] = Row(d, u)
  BY <1>4, <1>5, RowsLemma
<1>7. DOMAIN gantt.rows = X /\ \A u \in X : gantt.rows[u] = Row(table, u)
  BY GanttParts
<1> QED BY <1>4, <1>5, <1>6, <1>7 DEF OneChange

LEMMA KanbanStep ==
  ASSUME BoardInv, KanbanEdit
  PROVE  BoardInv' /\ OneChange
<1> DEFINE T == table.tasks
           C == table.columns
           X == DOMAIN T
<1>1. /\ kanban = [tasks |-> T, columns |-> C] /\ links = table.links
      /\ T \in [X -> KanbanTask] /\ X \subseteq Tasks /\ C \subseteq Columns /\ WellFormed(table)
      /\ Epics(kanban) = Epics(table)
  BY KanbanParts
<1>2. kanban.tasks = T /\ kanban.columns = C
  BY <1>1
<1>3. ASSUME NEW t \in Cards(kanban), NEW c \in kanban.columns,
             NEW lane \in Epics(kanban) \cup {None}, MoveCard(t, c, lane)
      PROVE  BoardInv' /\ OneChange
  <2> DEFINE y == [T[t] EXCEPT !.column = c]
             T1 == [T EXCEPT ![t] = y]
             x == [T1[t] EXCEPT !.parent = lane]
             kanban1 == [kanban EXCEPT !.tasks = T1]
  <2>1. t \in X /\ T[t] \in KanbanTask /\ c \in Columns /\ lane \in Tasks \cup {None}
    BY <1>1, <1>2 DEF Cards, Epics
  <2> HIDE DEF T
  <2>2. y \in KanbanTask
    BY <2>1 DEF KanbanTask
  <2> HIDE DEF y
  <2>3. T1[t] = y
    BY <2>1
  <2>4. x \in KanbanTask /\ x.parent = lane
    <3> HIDE DEF T1
    <3> QED BY <2>1, <2>2, <2>3 DEF KanbanTask
  <2>5. moveCard(kanban, t, c, lane)
          = [kanban1 EXCEPT !.tasks = [kanban1.tasks EXCEPT ![t] = [kanban1.tasks[t] EXCEPT !.parent = lane]]]
    BY <1>2 DEF moveCard, T1, y
  <2>6. [T1 EXCEPT ![t] = x] = [T EXCEPT ![t] = x]
    <3> HIDE DEF x
    <3> QED OBVIOUS
  <2>7. moveCard(kanban, t, c, lane) = [tasks |-> [T EXCEPT ![t] = x], columns |-> C]
    <3> HIDE DEF T1, C
    <3>1. kanban1 = [tasks |-> T1, columns |-> C]
      BY <1>1
    <3> HIDE DEF kanban1
    <3>2. kanban1.tasks = T1
      BY <3>1
    <3>3. [kanban1.tasks EXCEPT ![t] = [kanban1.tasks[t] EXCEPT !.parent = lane]]
            = [T EXCEPT ![t] = x]
      BY <2>6, <3>2
    <3> HIDE DEF x
    <3> QED BY <2>5, <3>1, <3>3
  <2>8. /\ HandleKanbanEdited(moveCard(kanban, t, c, lane)) /\ highlight' = highlight
        /\ edits < MaxEdits
    BY <1>3 DEF MoveCard, Editing
  <2> HIDE DEF x
  <2> QED BY <2>4, <2>7, <2>8, CardStep DEF T
<1>4. ASSUME NEW c \in Columns \ kanban.columns, AddColumn(c)
      PROVE  BoardInv' /\ OneChange
  <2> DEFINE k == [tasks |-> T, columns |-> C \cup {c}]
             d == KanbanBoard(k)
  <2>1. addColumn(kanban, c) = k
    BY <1>1 DEF addColumn
  <2>2. d.tasks = T /\ d.columns = C \cup {c} /\ d.links = table.links
    BY <1>1 DEF KanbanBoard
  <2> HIDE DEF d
  <2>3. Epics(d) = Epics(table) /\ \A u : Row(d, u) = Row(table, u)
    BY <2>2 DEF Epics, Row
  <2>4. WellFormed(d)
    BY <1>1, <2>2, <2>3 DEF WellFormed
  <2>5. HandleKanbanEdited(k) /\ highlight' = highlight /\ edits < MaxEdits
    BY <1>4, <2>1 DEF AddColumn, Editing
  <2>6. BoardInv' /\ gantt'.rows = GanttRows(d) /\ gantt'.links = gantt.links
    <3> HIDE DEF T, C
    <3> QED BY <2>4, <2>5, KanbanEdited DEF d
  <2>7. DOMAIN gantt'.rows = X /\ \A u \in X : gantt'.rows[u] = Row(d, u)
    BY <2>2, <2>4, <2>6, RowsLemma
  <2>8. DOMAIN gantt.rows = X /\ \A u \in X : gantt.rows[u] = Row(table, u)
    BY GanttParts
  <2> QED BY <2>3, <2>6, <2>7, <2>8 DEF OneChange
<1>5. ASSUME NEW t \in Tasks \ DOMAIN kanban.tasks, NEW form \in Forms(kanban), AddTask(t, form)
      PROVE  BoardInv' /\ OneChange
  <2> DEFINE x == [start |-> form.start, end |-> None, duration |-> form.duration,
                   type |-> Type(form.epic), parent |-> None, column |-> form.column]
             ts == [u \in X \cup {t} |-> IF u # t THEN T[u] ELSE x]
             k == [tasks |-> ts, columns |-> C]
             d == KanbanBoard(k)
  <2>1. /\ t \in Tasks \ X /\ form.start \in Int /\ form.duration \in Int
        /\ form.column \in Columns \cup {None}
    BY <1>1, <1>2, ProjectBoardAssumption DEF Forms
  <2>2. x \in KanbanTask /\ x.parent = None
    BY <2>1 DEF KanbanTask, Type
  <2>3. addTask(kanban, t, form) = k
    BY <1>1, <1>2 DEF addTask
  <2> HIDE DEF x
  <2>4. d.tasks = ts /\ d.columns = C /\ d.links = table.links
    BY <1>1 DEF KanbanBoard
  <2> HIDE DEF d
  <2>5. WellFormed(d) /\ X \subseteq DOMAIN d.tasks /\ \A u \in X : Row(d, u) = Row(table, u)
    BY <1>1, <2>1, <2>2, <2>4, AddLemma
  <2>6. HandleKanbanEdited(k) /\ highlight' = highlight /\ edits < MaxEdits
    BY <1>5, <2>3 DEF AddTask, Editing
  <2>7. BoardInv' /\ gantt'.rows = GanttRows(d) /\ gantt'.links = gantt.links
    <3> HIDE DEF ts, C
    <3> QED BY <2>5, <2>6, KanbanEdited DEF d
  <2>8. \A u \in X : u \in DOMAIN gantt'.rows /\ gantt'.rows[u] = Row(d, u)
    BY <2>5, <2>7, RowsLemma
  <2>9. DOMAIN gantt.rows = X /\ \A u \in X : gantt.rows[u] = Row(table, u)
    BY GanttParts
  <2> QED BY <2>5, <2>7, <2>8, <2>9 DEF OneChange
<1>6. ASSUME NEW t \in Cards(kanban), NEW form \in Forms(kanban), EditTask(t, form)
      PROVE  BoardInv' /\ OneChange
  <2> DEFINE x == [T[t] EXCEPT !.start = form.start, !.duration = form.duration,
                               !.type = Type(form.epic), !.column = form.column]
  <2>1. /\ t \in X /\ T[t] \in KanbanTask /\ form.start \in Int /\ form.duration \in Int
        /\ form.column \in Columns \cup {None} /\ Type(form.epic) \in {"none", "summary"}
    BY <1>1, <1>2, ProjectBoardAssumption DEF Cards, Forms, Type
  <2>2. T[t].parent \in Epics(table) \cup {None}
    BY <1>1, <2>1 DEF WellFormed
  <2>3. updateTask(kanban, t, form) = [tasks |-> [T EXCEPT ![t] = x], columns |-> C]
    <3>1. updateTask(kanban, t, form) = [kanban EXCEPT !.tasks = [T EXCEPT ![t] = x]]
      BY <1>2 DEF updateTask
    <3> HIDE DEF x
    <3> QED BY <1>1, <3>1
  <2> HIDE DEF T
  <2>4. x \in KanbanTask /\ x.parent = T[t].parent
    BY <2>1 DEF KanbanTask
  <2>5. /\ HandleKanbanEdited(updateTask(kanban, t, form)) /\ highlight' = highlight
        /\ edits < MaxEdits
    BY <1>6 DEF EditTask, Editing
  <2> HIDE DEF x
  <2> QED BY <1>1, <2>2, <2>3, <2>4, <2>5, CardStep DEF T
<1> QED BY <1>3, <1>4, <1>5, <1>6 DEF KanbanEdit

\* One task is changed in the table, neither its kind nor its parent.
LEMMA EntryStep ==
  ASSUME BoardInv, NEW t \in DOMAIN table.tasks, NEW x \in KanbanTask,
         x.parent = table.tasks[t].parent, x.type = table.tasks[t].type,
         HandleTableEdited([table EXCEPT !.tasks = [table.tasks EXCEPT ![t] = x]]),
         highlight' = highlight, edits < MaxEdits
  PROVE  BoardInv' /\ OneChange
<1> DEFINE ts == [table.tasks EXCEPT ![t] = x]
           d == [tasks |-> ts, columns |-> table.columns, links |-> table.links]
           X == DOMAIN table.tasks
<1>1. highlight \in BOOLEAN /\ highlight' \in BOOLEAN /\ edits' \in 0..MaxEdits
  BY ProjectBoardAssumption DEF BoardInv, HandleTableEdited, HandleProjectBoardEdited
<1>2. [table EXCEPT !.tasks = ts] = d
  <2> HIDE DEF ts
  <2> QED BY KanbanParts
<1>3. d.tasks = ts /\ d.columns = table.columns /\ d.links = table.links /\ TableDocument(d) = d
  BY DEF TableDocument
<1>4. Shown(d)
  <2>1. HandleTableEdited(d)
    BY <1>2
  <2> HIDE DEF d
  <2> QED BY <1>3, <2>1 DEF Shown, HandleTableEdited, GanttLoadFromJson, GanttOf
<1>5. WellFormed(table)
  BY DEF BoardInv
<1> HIDE DEF d
<1>6. WellFormed(d) /\ DOMAIN d.tasks = X /\ \A u \in X \ {t} : Row(d, u) = Row(table, u)
  BY <1>3, <1>5, ChangeLemma
<1>7. BoardInv' /\ gantt'.rows = GanttRows(d) /\ gantt'.links = gantt.links
  <2>1. BoardInv' /\ gantt'.rows = GanttRows(d) /\ gantt'.links = d.links
    BY <1>1, <1>4, <1>6, ShownLemma
  <2> QED BY <1>3, <2>1, GanttParts
<1>8. DOMAIN gantt'.rows = X /\ \A u \in X : gantt'.rows[u] = Row(d, u)
  BY <1>6, <1>7, RowsLemma
<1>9. DOMAIN gantt.rows = X /\ \A u \in X : gantt.rows[u] = Row(table, u)
  BY GanttParts
<1> QED BY <1>6, <1>7, <1>8, <1>9 DEF OneChange

LEMMA TableStep ==
  ASSUME BoardInv, TableEdit
  PROVE  BoardInv' /\ OneChange
<1> DEFINE T == table.tasks
<1>1. /\ T \in [DOMAIN T -> KanbanTask] /\ table.columns \subseteq Columns
      /\ table = [tasks |-> T, columns |-> table.columns, links |-> table.links]
  BY KanbanParts
<1>2. PICK t \in DOMAIN T : \/ \E c \in table.columns : SetStatus(t, c)
                            \/ \E s \in Days : SetStart(t, s)
                            \/ \E d \in 0..2 : SetDuration(t, d)
  BY DEF TableEdit
<1>3. T[t] \in KanbanTask
  BY <1>1
<1>4. ASSUME NEW c \in table.columns, SetStatus(t, c) PROVE BoardInv' /\ OneChange
  <2> DEFINE x == [T[t] EXCEPT !.column = c]
  <2>1. /\ HandleTableEdited([table EXCEPT !.tasks = [T EXCEPT ![t] = x]])
        /\ highlight' = highlight /\ edits < MaxEdits
    BY <1>4 DEF SetStatus, Editing
  <2>2. x \in KanbanTask /\ x.parent = T[t].parent /\ x.type = T[t].type
    <3>1. c \in Columns
      BY <1>1
    <3> HIDE DEF T
    <3> QED BY <1>3, <3>1 DEF KanbanTask
  <2> HIDE DEF x
  <2> QED BY <2>1, <2>2, EntryStep
<1>5. ASSUME NEW s \in Days, SetStart(t, s) PROVE BoardInv' /\ OneChange
  <2> DEFINE x == [T[t] EXCEPT !.start = s]
  <2>1. /\ HandleTableEdited([table EXCEPT !.tasks = [T EXCEPT ![t] = x]])
        /\ highlight' = highlight /\ edits < MaxEdits
    BY <1>5 DEF SetStart, Editing
  <2>2. x \in KanbanTask /\ x.parent = T[t].parent /\ x.type = T[t].type
    <3>1. s \in Int
      BY ProjectBoardAssumption
    <3> HIDE DEF T
    <3> QED BY <1>3, <3>1 DEF KanbanTask
  <2> HIDE DEF x
  <2> QED BY <2>1, <2>2, EntryStep
<1>6. ASSUME NEW d \in 0..2, SetDuration(t, d) PROVE BoardInv' /\ OneChange
  <2> DEFINE x == [T[t] EXCEPT !.duration = d]
  <2>1. /\ HandleTableEdited([table EXCEPT !.tasks = [T EXCEPT ![t] = x]])
        /\ highlight' = highlight /\ edits < MaxEdits
    BY <1>6 DEF SetDuration, Editing
  <2>2. x \in KanbanTask /\ x.parent = T[t].parent /\ x.type = T[t].type
    <3> HIDE DEF T
    <3> QED BY <1>3 DEF KanbanTask
  <2> HIDE DEF x
  <2> QED BY <2>1, <2>2, EntryStep
<1> QED BY <1>2, <1>4, <1>5, <1>6

-----------------------------------------------------------------------------
(* The board: its theorems.                                                 *)

LEMMA BoardInit ==
  ASSUME NoTabs
  PROVE  BoardInv
<1> DEFINE b == table
<1>1. b = [tasks |-> <<>>, columns |-> {}, links |-> {}] /\ DOMAIN b.tasks = {}
  BY DEF NoTabs
<1>2. Rooted(b.tasks) = {}
  <2>1. IsFiniteSet(DOMAIN b.tasks)
    BY <1>1, FS_EmptySet
  <2> QED BY <1>1, <2>1, RootedLemma
<1>3. WellFormed(b)
  <2>1. b.tasks \in [DOMAIN b.tasks -> KanbanTask]
    BY <1>1
  <2>2. IsFiniteSet(b.links)
    BY <1>1, FS_EmptySet
  <2> QED BY <1>1, <1>2, <2>1, <2>2 DEF WellFormed
<1>4. GanttRows(b) = <<>>
  BY <1>2 DEF GanttRows
<1>5. gantt = GanttOf(b, highlight)
  <2>1. ~highlight /\ highlight \in BOOLEAN
    BY DEF NoTabs
  <2>2. PICK c : GanttOf(b, highlight) = [rows |-> GanttRows(b), columns |-> b.columns,
                                          links |-> b.links, critical |-> c]
    BY <1>3, <2>1, LoadedLemma
  <2>3. GanttOf(b, highlight).critical = {}
    BY <1>3, <2>1, LoadedLemma
  <2>4. c = {}
    BY <2>2, <2>3
  <2>5. b.columns = {} /\ b.links = {}
    BY <1>1
  <2>6. GanttOf(b, highlight) = [rows |-> <<>>, columns |-> {}, links |-> {}, critical |-> {}]
    BY <1>4, <2>2, <2>4, <2>5
  <2>7. gantt = [rows |-> <<>>, columns |-> {}, links |-> {}, critical |-> {}]
    BY DEF NoTabs
  <2> QED BY <2>6, <2>7
<1>6. highlight \in BOOLEAN /\ edits \in 0..MaxEdits
  <2>1. highlight \in BOOLEAN
    BY DEF NoTabs
  <2>2. edits = 0
    BY DEF NoTabs
  <2> QED BY <2>1, <2>2, ProjectBoardAssumption
<1>7. b = TableDocument(b) /\ kanban = KanbanDocument(b) /\ links = b.links
  BY <1>1 DEF NoTabs, TableDocument, KanbanDocument
<1> QED BY <1>3, <1>5, <1>6, <1>7 DEF BoardInv

\* An edit changes one task or one link; any step keeps the tabs together.
LEMMA BoardStep ==
  ASSUME BoardInv, [BoardNext]_boardVars
  PROVE  BoardInv' /\ (Open /\ edits' = edits + 1 => OneChange)
<1>1. highlight \in BOOLEAN /\ edits \in 0..MaxEdits /\ MaxEdits \in Nat
  BY ProjectBoardAssumption DEF BoardInv
<1>2. ASSUME NEW b \in Boards \cup Plans, NEW spent \in 0..MaxEdits, OpenBoard(b, spent)
      PROVE  BoardInv'
  <2>1. highlight' \in BOOLEAN /\ edits' \in 0..MaxEdits
    BY <1>1, <1>2 DEF OpenBoard
  <2>2. Shown(b)
    BY <1>2 DEF Shown, OpenBoard, LoadFromJson, GanttLoadFromJson, GanttOf
  <2> QED BY <2>1, <2>2, BoardsAssumption, ShownLemma
<1>3. ASSUME NEW b \in Boards, OpenBoard(b, 0)
      PROVE  BoardInv' /\ (Open /\ edits' = edits + 1 => OneChange)
  BY <1>1, <1>2, <1>3 DEF OpenBoard
<1>4. ASSUME NEW b \in Plans, page = Closed, OpenBoard(b, MaxEdits)
      PROVE  BoardInv' /\ (Open /\ edits' = edits + 1 => OneChange)
  BY <1>1, <1>2, <1>4 DEF Open
<1>5. CASE HandleCriticalPathToggled
  <2>1. WellFormed(table) /\ gantt = GanttOf(table, highlight) /\ (~highlight) \in BOOLEAN
    <3>1. (~highlight) \in BOOLEAN
      OBVIOUS
    <3> QED BY <3>1 DEF BoardInv
  <2>2. ASSUME NEW marked \in BOOLEAN
        PROVE  SetCriticalPathTaskIds(gantt, marked) = GanttOf(table, marked)
    <3>1. PICK c : gantt = [rows |-> GanttRows(table), columns |-> table.columns,
                            links |-> table.links, critical |-> c]
      BY <1>1, <2>1, LoadedLemma
    <3> QED BY <2>1, <3>1, LoadedLemma
  <2>3. BoardInv'
    BY <1>5, <2>1, <2>2 DEF HandleCriticalPathToggled, BoardInv
  <2>4. edits' # edits + 1
    BY <1>1, <1>5 DEF HandleCriticalPathToggled
  <2> QED BY <2>3, <2>4
<1>6. CASE UNCHANGED boardVars
  <2>1. edits' # edits + 1
    BY <1>1, <1>6 DEF boardVars
  <2>2. BoardInv'
    BY <1>6 DEF boardVars, BoardInv
  <2> QED BY <2>1, <2>2
<1>7. CASE GanttEdit \/ KanbanEdit \/ TableEdit
  BY <1>7, GanttStep, KanbanStep, TableStep
<1> QED BY <1>3, <1>4, <1>5, <1>6, <1>7 DEF BoardNext

LEMMA BoardInvCorrect == BoardSpec => []BoardInv
<1>1. BoardInv /\ [BoardNext]_boardVars => BoardInv'
  BY BoardStep
<1> QED BY BoardInit, <1>1, PTL DEF BoardSpec

\* The tabs agree on every task, and on the links (ProjectBoardNativeWidget).
LEMMA InvAgrees ==
  ASSUME BoardInv
  PROVE  TabsAgree
<1>1. /\ kanban.tasks = table.tasks /\ kanban.columns = table.columns
  BY DEF BoardInv, KanbanDocument
<1>2. /\ DOMAIN gantt.rows = DOMAIN table.tasks /\ gantt.columns = table.columns
      /\ gantt.links = links /\ table.links = links
      /\ \A t \in DOMAIN table.tasks : gantt.rows[t] = Row(table, t)
  BY GanttParts DEF BoardInv
<1>3. ASSUME NEW t \in DOMAIN table.tasks
      PROVE  /\ gantt.rows[t].type = ItemType(table.tasks[t])
             /\ gantt.rows[t].parent = table.tasks[t].parent
             /\ gantt.rows[t].column = table.tasks[t].column
  <2>1. gantt.rows[t] = Row(table, t)
    BY <1>2
  <2>2. /\ Row(table, t).type = ItemType(table.tasks[t])
        /\ Row(table, t).parent = table.tasks[t].parent
        /\ Row(table, t).column = table.tasks[t].column
    BY DEF Row
  <2> QED BY <2>1, <2>2
<1> QED BY <1>1, <1>2, <1>3 DEF TabsAgree

\* The tabs hold well-formed boards (ProjectBoardNativeWidget): whatever is
\* dragged, moved, added or typed, every task keeps a row, below an epic or below none.
THEOREM BoardTypeCorrect == BoardSpec => []BoardTypeOK
<1>1. BoardInv => BoardTypeOK
  <2> SUFFICES ASSUME BoardInv PROVE BoardTypeOK
    OBVIOUS
  <2>1. /\ kanban.tasks = table.tasks /\ kanban.columns = table.columns /\ links = table.links
        /\ table = TableDocument(table) /\ WellFormed(table)
        /\ highlight \in BOOLEAN /\ edits \in 0..MaxEdits
    BY DEF BoardInv, KanbanDocument
  <2>2. KanbanBoard(kanban) = table
    BY <2>1 DEF KanbanBoard, TableDocument
  <2>3. /\ gantt.rows = GanttRows(table) /\ gantt.links = table.links
        /\ gantt.columns = table.columns
        /\ gantt.critical = IF highlight THEN ComputeCriticalPath(GanttJson(gantt)) ELSE {}
        /\ DOMAIN gantt.rows = DOMAIN GanttJson(gantt).tasks
    BY GanttParts DEF GanttJson
  <2>4. ComputeCriticalPath(GanttJson(gantt)) \subseteq DOMAIN GanttJson(gantt).tasks
    BY DEF ComputeCriticalPath
  <2> QED BY <2>1, <2>2, <2>3, <2>4 DEF BoardTypeOK
<1> QED BY <1>1, BoardInvCorrect, PTL

\* Whichever tab is edited, one task or one link changes, and all tabs show it
\* (ProjectBoardNativeWidget::HandleGanttEdited, HandleKanbanEdited, HandleTableEdited).
THEOREM EditsCorrect == BoardSpec => OneEditEverywhere
<1> DEFINE Count ==
             Open /\ edits' = edits + 1 =>
               LET changed == {t \in DOMAIN gantt.rows :
                                 t \notin DOMAIN gantt'.rows \/ gantt'.rows[t] # gantt.rows[t]}
                   relinked == (gantt.links \ gantt'.links) \cup (gantt'.links \ gantt.links)
               IN Cardinality(changed) + Cardinality(relinked) <= 1
           Step ==
             /\ TabsAgree'
             /\ Open /\ edits' = edits + 1 =>
                  LET changed == {t \in DOMAIN gantt.rows :
                                    t \notin DOMAIN gantt'.rows \/ gantt'.rows[t] # gantt.rows[t]}
                      relinked == (gantt.links \ gantt'.links) \cup (gantt'.links \ gantt.links)
                  IN Cardinality(changed) + Cardinality(relinked) <= 1
<1>1. BoardInv /\ [BoardNext]_boardVars => [Count]_boardVars
  <2> SUFFICES ASSUME BoardInv, [BoardNext]_boardVars, Open, edits' = edits + 1 PROVE Count
    OBVIOUS
  <2> DEFINE changed == {t \in DOMAIN gantt.rows :
                           t \notin DOMAIN gantt'.rows \/ gantt'.rows[t] # gantt.rows[t]}
             relinked == (gantt.links \ gantt'.links) \cup (gantt'.links \ gantt.links)
  <2>1. OneChange
    BY BoardStep
  <2>2. ASSUME NEW S, NEW x, S \subseteq {x} PROVE Cardinality(S) \in {0, 1}
    <3>1. S = {} \/ S = {x}
      BY <2>2
    <3> QED BY <3>1, FS_EmptySet, FS_Singleton
  <2>3. CASE relinked = {} /\ \E t : changed \subseteq {t}
    <3>1. Cardinality(changed) \in {0, 1} /\ Cardinality(relinked) = 0
      <4> HIDE DEF changed, relinked
      <4> QED BY <2>2, <2>3, FS_EmptySet
    <3> QED BY <3>1
  <2>4. CASE changed = {} /\ \E l : relinked \subseteq {l}
    <3>1. Cardinality(relinked) \in {0, 1} /\ Cardinality(changed) = 0
      <4> HIDE DEF changed, relinked
      <4> QED BY <2>2, <2>4, FS_EmptySet
    <3> QED BY <3>1
  <2>5. \/ relinked = {} /\ \E t : changed \subseteq {t}
        \/ changed = {} /\ \E l : relinked \subseteq {l}
    BY <2>1 DEF OneChange
  <2> QED BY <2>3, <2>4, <2>5
<1>2. BoardInv => TabsAgree
  BY InvAgrees
<1>3. TabsAgree' /\ [Count]_boardVars => [Step]_boardVars
  OBVIOUS
<1>4. OneEditEverywhere <=> [][Step]_boardVars
  BY DEF OneEditEverywhere
<1> HIDE DEF Step, Count
<1> QED BY <1>1, <1>2, <1>3, <1>4, BoardInvCorrect, PTL DEF BoardSpec

\* The highlighted tasks are those whose delay delays the project
\* (ProjectBoardGanttModel::ComputeCriticalPath), after every edit in any tab.
THEOREM CriticalCorrect == BoardSpec => []CriticalIsTight
<1>1. BoardInv => CriticalIsTight
  <2> SUFFICES ASSUME BoardInv, highlight
               PROVE  gantt.critical
                        = IF Cyclic(GanttJson(gantt)) THEN {}
                          ELSE {t \in DOMAIN GanttJson(gantt).tasks : Delays(GanttJson(gantt), t)}
    BY DEF CriticalIsTight
  <2>1. gantt.critical = ComputeCriticalPath(GanttJson(gantt))
    BY GanttParts
  <2>2. Plan(GanttJson(gantt))
    BY GanttParts, JsonLemma
  <2> QED BY <2>1, <2>2, CriticalLemma
<1> QED BY <1>1, BoardInvCorrect, PTL

-----------------------------------------------------------------------------
(* The tree that is shown: what hangs from it.                              *)

Rows == [TreePages -> TreeRow \cup {Unlisted}]

LEMMA TreeRowsLemma ==
  ASSUME NEW rows \in Rows
  PROVE  /\ In(rows) \subseteq TreePages /\ Top \notin In(rows) /\ Top \in Nodes
         /\ In(rows) \subseteq Nat /\ Nodes \subseteq Nat
         /\ \A d \in In(rows) : rows[d] \in TreeRow /\ rows[d].parent \in Nat
         /\ \A p : ChildrenOf(rows, p) \subseteq In(rows)
         /\ IsFiniteSet(TreePages) /\ IsFiniteSet(In(rows)) /\ Cardinality(TreePages) \in Nat
<1>1. IsFiniteSet(TreePages) /\ TreePages \subseteq Nat \ {0}
  BY TreeAssumption
<1>2. Cardinality(TreePages) \in Nat
  BY <1>1, FS_CardinalityType
<1>3. In(rows) \in SUBSET TreePages
  BY DEF In
<1>4. IsFiniteSet(In(rows))
  BY <1>1, <1>3, FS_Subset
<1>5. \A d \in In(rows) : rows[d] \in TreeRow /\ rows[d].parent \in Nat
  BY DEF In, Rows, TreeRow
<1>6. Top \in Nodes /\ Nodes \subseteq Nat /\ Top \notin TreePages
  BY <1>1 DEF Top, Nodes
<1>7. \A p : ChildrenOf(rows, p) \subseteq In(rows)
  BY DEF ChildrenOf
<1> QED BY <1>1, <1>2, <1>3, <1>4, <1>5, <1>6, <1>7

\* What is attached to S is closed, and lies in every closed set that S lies in.
Downward(rows, S) == \A p \in S : ChildrenOf(rows, p) \subseteq S

LEMMA AttachedLevels ==
  ASSUME NEW rows \in Rows, NEW S \in SUBSET Nodes, Top \in S
  PROVE  \E level : /\ level[Cardinality(TreePages)] = Attached(rows, S)
                    /\ level[0] = S
                    /\ \A n \in 0 .. Cardinality(TreePages) : level[n] \in SUBSET Nodes
                    /\ \A n \in Nat : n < Cardinality(TreePages) =>
                         level[n + 1] = level[n] \cup UNION {ChildrenOf(rows, p) : p \in level[n]}
                    /\ \A n \in 0 .. Cardinality(TreePages) : level[n] \subseteq Attached(rows, S)
                    /\ Downward(rows, Attached(rows, S))
<1> DEFINE N == Cardinality(TreePages)
           Onward(T) == T \cup UNION {ChildrenOf(rows, p) : p \in T}
           F == [T \in SUBSET Nodes |-> Onward(T)]
<1>1. /\ IsFiniteSet(Nodes) /\ N \in Nat /\ Cardinality(Nodes) <= N + Cardinality(S)
  <2>1. /\ IsFiniteSet(TreePages) /\ N \in Nat
    BY TreeRowsLemma
  <2>2. IsFiniteSet(Nodes) /\ Cardinality(Nodes) <= N + 1 /\ Cardinality(Nodes) \in Nat
    <3>1. IsFiniteSet(Nodes) /\ Cardinality(Nodes) = IF Top \in TreePages THEN N ELSE N + 1
      BY <2>1, FS_AddElement DEF Nodes
    <3>2. Cardinality(Nodes) \in Nat
      BY <3>1, FS_CardinalityType
    <3> HIDE DEF N
    <3> QED BY <2>1, <3>1, <3>2
  <2>3. IsFiniteSet(S) /\ Cardinality(S) \in Nat
    BY <2>2, FS_Subset, FS_CardinalityType
  <2>4. Cardinality(S) # 0
    BY <2>3, FS_EmptySet
  <2> QED BY <2>1, <2>2, <2>3, <2>4
<1>2. \A T \in SUBSET Nodes : Onward(T) \in SUBSET Nodes
  BY TreeRowsLemma DEF Nodes
<1> HIDE DEF N
<1>3. F \in [SUBSET Nodes -> SUBSET Nodes] /\ Grows(Nodes, F) /\ \A T \in SUBSET Nodes : F[T] = Onward(T)
  BY <1>2 DEF Grows
<1> HIDE DEF F, Onward
<1>4. PICK W : Walks(W, N, F, S)
  BY <1>1, WalkExists
<1>5. /\ \A n \in 0 .. N : W[n] \in SUBSET Nodes /\ W[n] \subseteq W[N]
      /\ F[W[N]] = W[N]
  BY <1>1, <1>3, <1>4, WalkIsDone
<1>6. \A n \in 0 .. N : n # 0 => F[W[n - 1]] = Onward(W[n - 1])
  <2>1. \A n \in 0 .. N : n # 0 => n - 1 \in 0 .. N
    BY <1>1
  <2> QED BY <1>3, <1>5, <2>1
<1>7. W = [n \in 0 .. N |-> IF n = 0 THEN S ELSE Onward(W[n - 1])]
  BY <1>4, <1>6 DEF Walks
<1> DEFINE level == CHOOSE level : level = [n \in 0 .. N |-> IF n = 0 THEN S ELSE Onward(level[n - 1])]
<1>8. level = [n \in 0 .. N |-> IF n = 0 THEN S ELSE Onward(level[n - 1])]
  BY <1>7
<1>9. Attached(rows, S) = level[N]
  BY DEF Attached, N, Onward
<1> HIDE DEF level
<1>10. \A n \in 0 .. N : level[n] = IF n = 0 THEN S ELSE Onward(level[n - 1])
  BY <1>8
<1>11. \A n \in 0 .. N : level[n] \in SUBSET Nodes
  <2> DEFINE T == {n \in 0 .. N : level[n] \in SUBSET Nodes}
  <2>1. 0 \in T /\ T \in SUBSET (0 .. N)
    BY <1>1, <1>10
  <2>2. ASSUME NEW n \in T, n < N PROVE n + 1 \in T
    <3>1. n + 1 \in 0 .. N /\ n + 1 # 0 /\ n + 1 - 1 = n
      BY <1>1, <2>2
    <3>2. level[n + 1] = Onward(level[n])
      BY <1>10, <3>1
    <3> QED BY <1>2, <2>2, <3>1, <3>2
  <2> HIDE DEF T
  <2>3. T = 0 .. N
    BY <1>1, <2>1, <2>2, LevelInduction
  <2> QED BY <2>3 DEF T
<1>12. Walks(level, N, F, S)
  <2>1. \A n \in 0 .. N : n # 0 => F[level[n - 1]] = Onward(level[n - 1])
    <3>1. \A n \in 0 .. N : n # 0 => n - 1 \in 0 .. N
      BY <1>1
    <3> QED BY <1>3, <1>11, <3>1
  <2> QED BY <1>8, <2>1 DEF Walks
<1>13. level[0] = S /\ \A n \in Nat : n < N => level[n + 1] = Onward(level[n])
  <2>1. \A n \in Nat : n < N => level[n + 1] = F[level[n]]
    BY <1>1, <1>12, WalkLevels
  <2>2. 0 \in 0 .. N /\ \A n \in Nat : n < N => n \in 0 .. N
    BY <1>1
  <2> QED BY <1>3, <1>10, <1>11, <2>1, <2>2
<1>14. (\A n \in 0 .. N : level[n] \subseteq level[N]) /\ F[level[N]] = level[N]
  BY <1>1, <1>3, <1>12, WalkIsDone
<1>15. Onward(level[N]) = level[N]
  BY <1>1, <1>3, <1>11, <1>14
<1>16. Downward(rows, level[N])
  BY <1>15 DEF Downward, Onward
<1> QED BY <1>9, <1>11, <1>13, <1>14, <1>16 DEF N, Onward

LEMMA AttachedIsLeast ==
  ASSUME NEW rows \in Rows, NEW S \in SUBSET Nodes, Top \in S
  PROVE  /\ S \subseteq Attached(rows, S) /\ Attached(rows, S) \subseteq Nodes
         /\ Downward(rows, Attached(rows, S))
         /\ \A T : S \subseteq T /\ Downward(rows, T) => Attached(rows, S) \subseteq T
<1> DEFINE N == Cardinality(TreePages)
<1>1. N \in Nat
  BY TreeRowsLemma
<1>2. PICK level : /\ level[N] = Attached(rows, S)
                   /\ level[0] = S
                   /\ \A n \in 0 .. N : level[n] \in SUBSET Nodes
                   /\ \A n \in Nat : n < N =>
                        level[n + 1] = level[n] \cup UNION {ChildrenOf(rows, p) : p \in level[n]}
                   /\ \A n \in 0 .. N : level[n] \subseteq Attached(rows, S)
                   /\ Downward(rows, Attached(rows, S))
  BY AttachedLevels
<1> HIDE DEF N
<1>3. 0 \in 0 .. N /\ N \in 0 .. N
  BY <1>1
<1>4. ASSUME NEW T, S \subseteq T, Downward(rows, T) PROVE Attached(rows, S) \subseteq T
  <2> DEFINE L == {n \in 0 .. N : level[n] \subseteq T}
  <2>1. 0 \in L /\ L \in SUBSET (0 .. N)
    BY <1>2, <1>3, <1>4
  <2>2. ASSUME NEW n \in L, n < N PROVE n + 1 \in L
    <3>1. n + 1 \in 0 .. N /\ n \in Nat
      BY <1>1, <2>2
    <3>2. level[n + 1] = level[n] \cup UNION {ChildrenOf(rows, p) : p \in level[n]}
      BY <1>2, <2>2, <3>1
    <3>3. \A p \in level[n] : ChildrenOf(rows, p) \subseteq T
      BY <1>4 DEF Downward
    <3> QED BY <3>1, <3>2, <3>3
  <2> HIDE DEF L
  <2>3. L = 0 .. N
    BY <1>1, <2>1, <2>2, LevelInduction
  <2> QED BY <1>2, <1>3, <2>3 DEF L
<1> QED BY <1>2, <1>3, <1>4

\* The pages put below the workspace: what they and the workspace lead to is everything
\* there is, and each was the smallest that a closed set did not have.
LEMMA AdoptedLemma ==
  ASSUME NEW rows \in Rows
  PROVE  /\ Adopted(rows) \subseteq In(rows)
         /\ In(rows) \subseteq Attached(rows, Adopted(rows) \cup {Top})
         /\ \A a \in Adopted(rows) :
              \E R \in SUBSET Nodes : /\ Downward(rows, R) /\ Top \in R /\ a \in In(rows) \ R
                                      /\ \A d \in In(rows) \ R : a <= d
         /\ In(rows) \subseteq Attached(rows, {Top}) => Adopted(rows) = {}
<1> DEFINE N == Cardinality(TreePages)
           detached(S) == In(rows) \ Attached(rows, S \cup {Top})
           Onward(S) == IF detached(S) = {} THEN S ELSE S \cup {Min(detached(S))}
           F == [S \in SUBSET TreePages |-> Onward(S)]
<1>1. /\ IsFiniteSet(TreePages) /\ N \in Nat /\ Cardinality(TreePages) <= N + Cardinality({})
      /\ TreePages \subseteq Int /\ In(rows) \subseteq TreePages
  <2>1. IsFiniteSet(TreePages) /\ N \in Nat /\ TreePages \subseteq Int /\ In(rows) \subseteq TreePages
    BY TreeRowsLemma, TreeAssumption
  <2>2. Cardinality({}) = 0
    BY FS_EmptySet
  <2> QED BY <2>1, <2>2
<1>2. ASSUME NEW S, detached(S) # {}
      PROVE  Min(detached(S)) \in detached(S) /\ \A d \in detached(S) : Min(detached(S)) <= d
  <2>1. detached(S) \in SUBSET Int /\ IsFiniteSet(detached(S))
    BY <1>1, FS_Subset
  <2> HIDE DEF detached
  <2> QED BY <1>2, <2>1, Extremes
<1> HIDE DEF N
<1>3. \A S \in SUBSET TreePages : Onward(S) \in SUBSET TreePages /\ S \subseteq Onward(S)
  <2> SUFFICES ASSUME NEW S \in SUBSET TreePages
               PROVE  Onward(S) \in SUBSET TreePages /\ S \subseteq Onward(S)
    OBVIOUS
  <2>1. CASE detached(S) = {}
    BY <2>1
  <2>2. CASE detached(S) # {}
    <3>1. Min(detached(S)) \in TreePages
      BY <1>1, <1>2, <2>2
    <3> HIDE DEF detached
    <3> QED BY <2>2, <3>1
  <2> QED BY <2>1, <2>2
<1>4. F \in [SUBSET TreePages -> SUBSET TreePages] /\ Grows(TreePages, F) /\ \A T \in SUBSET TreePages : F[T] = Onward(T)
  <2> HIDE DEF Onward
  <2> QED BY <1>3 DEF Grows
<1> HIDE DEF F, Onward
<1>5. PICK W : Walks(W, N, F, {})
  BY <1>1, WalkExists
<1>6. \A n \in 0 .. N : W[n] \in SUBSET TreePages
  <2>1. {} \in SUBSET TreePages
    OBVIOUS
  <2> QED BY <1>1, <1>4, <1>5, <2>1, WalkIsDone
<1>7. \A n \in 0 .. N : n # 0 => F[W[n - 1]] = Onward(W[n - 1])
  <2>1. \A n \in 0 .. N : n # 0 => n - 1 \in 0 .. N
    BY <1>1
  <2> QED BY <1>4, <1>6, <2>1
<1>8. W = [n \in 0 .. N |-> IF n = 0 THEN {} ELSE Onward(W[n - 1])]
  BY <1>5, <1>7 DEF Walks
<1> DEFINE turn == CHOOSE turn : turn = [n \in 0 .. N |-> IF n = 0 THEN {} ELSE Onward(turn[n - 1])]
<1>9. turn = [n \in 0 .. N |-> IF n = 0 THEN {} ELSE Onward(turn[n - 1])]
  BY <1>8
<1>10. Adopted(rows) = turn[N]
  BY DEF Adopted, N, Onward
<1> HIDE DEF turn
<1>11. \A n \in 0 .. N : turn[n] = IF n = 0 THEN {} ELSE Onward(turn[n - 1])
  BY <1>9
<1> DEFINE Picked(a) == \E R \in SUBSET Nodes : /\ Downward(rows, R) /\ Top \in R /\ a \in In(rows) \ R
                                                 /\ \A d \in In(rows) \ R : a <= d
<1>12. ASSUME NEW S \in SUBSET TreePages
       PROVE  LET R == Attached(rows, S \cup {Top})
              IN  R \in SUBSET Nodes /\ Downward(rows, R) /\ Top \in R /\ S \subseteq R
  <2>1. S \cup {Top} \in SUBSET Nodes /\ Top \in S \cup {Top}
    BY DEF Nodes
  <2>2. S \cup {Top} \subseteq Attached(rows, S \cup {Top})
    BY <2>1, AttachedIsLeast
  <2> QED BY <2>1, <2>2, AttachedIsLeast
<1>13. ASSUME NEW S \in SUBSET TreePages, detached(S) # {}
       PROVE  Picked(Min(detached(S)))
  <2> DEFINE R == Attached(rows, S \cup {Top})
             m == Min(detached(S))
  <2>1. R \in SUBSET Nodes /\ Downward(rows, R) /\ Top \in R
    BY <1>12
  <2>2. m \in detached(S) /\ \A d \in detached(S) : m <= d
    BY <1>2, <1>13
  <2>3. detached(S) = In(rows) \ R
    OBVIOUS
  <2> HIDE DEF m, detached, R
  <2>4. Picked(m)
    BY <2>1, <2>2, <2>3
  <2> QED BY <2>4 DEF m
<1>14. \A n \in 0 .. N : turn[n] \in SUBSET In(rows) /\ \A a \in turn[n] : Picked(a)
  <2> DEFINE T == {n \in 0 .. N : turn[n] \in SUBSET In(rows) /\ \A a \in turn[n] : Picked(a)}
  <2>1. 0 \in T /\ T \in SUBSET (0 .. N)
    BY <1>1, <1>11
  <2>2. ASSUME NEW n \in T, n < N PROVE n + 1 \in T
    <3>1. n + 1 \in 0 .. N /\ n + 1 # 0 /\ n + 1 - 1 = n
      BY <1>1, <2>2
    <3>2. turn[n + 1] = Onward(turn[n])
      BY <1>11, <3>1
    <3>3. turn[n] \in SUBSET TreePages /\ turn[n] \in SUBSET In(rows) /\ \A a \in turn[n] : Picked(a)
      BY <1>1, <2>2
    <3>4. CASE detached(turn[n]) = {}
      <4>1. turn[n + 1] = turn[n]
        BY <3>2, <3>4 DEF Onward
      <4> HIDE DEF Picked
      <4> QED BY <3>1, <3>3, <4>1
    <3>5. CASE detached(turn[n]) # {}
      <4>1. Picked(Min(detached(turn[n]))) /\ Min(detached(turn[n])) \in In(rows)
        BY <1>2, <1>13, <3>3, <3>5
      <4>2. turn[n + 1] = turn[n] \cup {Min(detached(turn[n]))}
        BY <3>2, <3>5 DEF Onward
      <4> HIDE DEF Picked, detached
      <4>3. \A a \in turn[n + 1] : a \in turn[n] \/ a = Min(detached(turn[n]))
        BY <4>2
      <4> QED BY <3>1, <3>3, <4>1, <4>3
    <3> QED BY <3>4, <3>5
  <2> HIDE DEF T
  <2>3. T = 0 .. N
    BY <1>1, <2>1, <2>2, LevelInduction
  <2> QED BY <2>3 DEF T
<1>15. Walks(turn, N, F, {})
  <2>1. \A n \in 0 .. N : n # 0 => F[turn[n - 1]] = Onward(turn[n - 1])
    <3>1. \A n \in 0 .. N : n # 0 => n - 1 \in 0 .. N
      BY <1>1
    <3> QED BY <1>1, <1>4, <1>14, <3>1
  <2> QED BY <1>9, <2>1 DEF Walks
<1>16. Onward(turn[N]) = turn[N] /\ turn[N] \in SUBSET TreePages
  <2>1. F[turn[N]] = turn[N]
    <3>1. {} \in SUBSET TreePages
      OBVIOUS
    <3> QED BY <1>1, <1>4, <1>15, <3>1, WalkIsDone
  <2>2. turn[N] \in SUBSET TreePages
    BY <1>1, <1>14
  <2> QED BY <1>4, <2>1, <2>2
<1>17. detached(turn[N]) = {}
  <2> SUFFICES ASSUME detached(turn[N]) # {} PROVE FALSE
    OBVIOUS
  <2>1. Min(detached(turn[N])) \in turn[N]
    BY <1>16 DEF Onward
  <2>2. Min(detached(turn[N])) \in detached(turn[N])
    BY <1>2
  <2> QED BY <1>12, <1>16, <2>1, <2>2
<1>18. ASSUME In(rows) \subseteq Attached(rows, {Top}) PROVE turn[N] = {}
  <2>1. detached({}) = {}
    <3>1. {} \cup {Top} = {Top}
      OBVIOUS
    <3> QED BY <1>18, <3>1
  <2> DEFINE T == {n \in 0 .. N : turn[n] = {}}
  <2>2. 0 \in T /\ T \in SUBSET (0 .. N)
    BY <1>1, <1>11
  <2>3. ASSUME NEW n \in T, n < N PROVE n + 1 \in T
    <3>1. n + 1 \in 0 .. N /\ n + 1 # 0 /\ n + 1 - 1 = n
      BY <1>1, <2>3
    <3>2. turn[n + 1] = Onward({})
      BY <1>11, <2>3, <3>1
    <3> QED BY <2>1, <3>1, <3>2 DEF Onward
  <2> HIDE DEF T
  <2>4. T = 0 .. N
    BY <1>1, <2>2, <2>3, LevelInduction
  <2> QED BY <1>1, <2>4 DEF T
<1>19. N \in 0 .. N
  BY <1>1
<1>20. \A a \in turn[N] : Picked(a)
  BY <1>14, <1>19
<1>21. turn[N] \subseteq In(rows) /\ In(rows) \subseteq Attached(rows, turn[N] \cup {Top})
  BY <1>14, <1>17, <1>19
<1> QED BY <1>10, <1>18, <1>20, <1>21

\* The walk up the parents.
LEMMA WalkLemma ==
  ASSUME NEW rows \in Rows, NEW d \in Nat
  PROVE  /\ Walk(rows, d)[0] = d
         /\ \A n \in Nat : n < Cardinality(TreePages) =>
              Walk(rows, d)[n + 1] = IF Walk(rows, d)[n] \in In(rows)
                                     THEN rows[Walk(rows, d)[n]].parent ELSE Top
         /\ \A n \in 0 .. Cardinality(TreePages) : Walk(rows, d)[n] \in Nat
<1> DEFINE N == Cardinality(TreePages)
           Onward(x) == IF x \in In(rows) THEN rows[x].parent ELSE Top
           F == [x \in Nat |-> Onward(x)]
<1>1. N \in Nat
  BY TreeRowsLemma
<1> HIDE DEF N
<1>2. \A x \in Nat : Onward(x) \in Nat /\ F[x] = Onward(x)
  BY TreeRowsLemma DEF Top
<1> HIDE DEF F, Onward
<1>3. PICK W : Walks(W, N, F, d)
  BY <1>1, WalkExists
<1>4. W[0] = d /\ \A n \in Nat : n < N => W[n + 1] = F[W[n]]
  BY <1>1, <1>3, WalkLevels
<1>5. \A n \in 0 .. N : W[n] \in Nat
  <2> DEFINE T == {n \in 0 .. N : W[n] \in Nat}
  <2>1. 0 \in T /\ T \in SUBSET (0 .. N)
    BY <1>1, <1>4
  <2>2. \A n \in T : n < N => n + 1 \in T
    BY <1>1, <1>2, <1>4
  <2> HIDE DEF T
  <2>3. T = 0 .. N
    BY <1>1, <2>1, <2>2, LevelInduction
  <2> QED BY <2>3 DEF T
<1>6. \A n \in 0 .. N : n # 0 => F[W[n - 1]] = Onward(W[n - 1])
  <2>1. \A n \in 0 .. N : n # 0 => n - 1 \in 0 .. N
    BY <1>1
  <2> QED BY <1>2, <1>5, <2>1
<1>7. W = [n \in 0 .. N |-> IF n = 0 THEN d ELSE Onward(W[n - 1])]
  BY <1>3, <1>6 DEF Walks
<1> DEFINE up == CHOOSE up : up = [n \in 0 .. N |-> IF n = 0 THEN d ELSE Onward(up[n - 1])]
<1>8. up = [n \in 0 .. N |-> IF n = 0 THEN d ELSE Onward(up[n - 1])]
  BY <1>7
<1>9. Walk(rows, d) = up
  BY DEF Walk, N, Onward
<1> HIDE DEF up
<1>10. \A n \in 0 .. N : up[n] = IF n = 0 THEN d ELSE Onward(up[n - 1])
  BY <1>8
<1>11. \A n \in Nat : n < N => up[n + 1] = Onward(up[n])
  <2> SUFFICES ASSUME NEW n \in Nat, n < N PROVE up[n + 1] = Onward(up[n])
    OBVIOUS
  <2>1. n + 1 \in 0 .. N /\ n + 1 # 0 /\ n + 1 - 1 = n
    BY <1>1
  <2> QED BY <1>10, <2>1
<1>12. up[0] = d
  BY <1>1, <1>10
<1>13. \A n \in 0 .. N : up[n] \in Nat
  <2> DEFINE T == {n \in 0 .. N : up[n] \in Nat}
  <2>1. 0 \in T /\ T \in SUBSET (0 .. N)
    BY <1>1, <1>12
  <2>2. \A n \in T : n < N => n + 1 \in T
    BY <1>1, <1>2, <1>11
  <2> HIDE DEF T
  <2>3. T = 0 .. N
    BY <1>1, <2>1, <2>2, LevelInduction
  <2> QED BY <2>3 DEF T
<1> QED BY <1>9, <1>11, <1>12, <1>13 DEF N, Onward

\* What lies above a page that a closed set does not have is not in that set either.
LEMMA AboveStaysOut ==
  ASSUME NEW rows \in Rows, NEW R \in SUBSET Nodes, Downward(rows, R), NEW d \in In(rows) \ R
  PROVE  ListedAbove(rows, d) \subseteq In(rows) \ R
<1> DEFINE N == Cardinality(TreePages)
           W == Walk(rows, d)
           T == {n \in 0 .. N : W[n] \in In(rows) => W[n] \notin R}
<1>1. N \in Nat /\ Top \notin In(rows) /\ In(rows) \subseteq Nat
  BY TreeRowsLemma
<1>2. /\ W[0] = d
      /\ \A n \in Nat : n < N => W[n + 1] = IF W[n] \in In(rows) THEN rows[W[n]].parent ELSE Top
  BY <1>1, WalkLemma
<1> HIDE DEF N, W
<1>3. 0 \in T /\ T \in SUBSET (0 .. N)
  BY <1>1, <1>2
<1>4. ASSUME NEW n \in T, n < N PROVE n + 1 \in T
  <2>1. n + 1 \in 0 .. N /\ n \in Nat
    BY <1>1, <1>4
  <2>2. SUFFICES ASSUME W[n + 1] \in In(rows), W[n + 1] \in R PROVE FALSE
    BY <2>1
  <2>3. W[n] \in In(rows) /\ W[n + 1] = rows[W[n]].parent
    BY <1>1, <1>2, <1>4, <2>1, <2>2
  <2>4. W[n] \in ChildrenOf(rows, W[n + 1])
    BY <2>3 DEF ChildrenOf
  <2>5. W[n] \in R
    BY <2>2, <2>4 DEF Downward
  <2> QED BY <1>4, <2>3, <2>5
<1> HIDE DEF T
<1>5. T = 0 .. N
  BY <1>1, <1>3, <1>4, LevelInduction
<1>6. \A n \in 1 .. N : W[n] \in In(rows) => W[n] \notin R
  BY <1>1, <1>5 DEF T
<1> QED BY <1>6 DEF ListedAbove, W, N

\* A page put below the workspace hangs in the air, and no smaller one above it would
\* bring it along.
LEMMA AdoptedAreStray ==
  ASSUME NEW rows \in Rows, NEW a \in Adopted(rows)
  PROVE  Stray(rows, a)
<1>1. PICK R \in SUBSET Nodes : /\ Downward(rows, R) /\ Top \in R /\ a \in In(rows) \ R
                                /\ \A d \in In(rows) \ R : a <= d
  BY AdoptedLemma
<1>2. ListedAbove(rows, a) \subseteq In(rows) \ R
  BY <1>1, AboveStaysOut
<1>3. \A e \in In(rows) \ R : rows[e].parent # Top
  BY <1>1 DEF Downward, ChildrenOf
<1>4. ~Hangs(rows, a)
  BY <1>1, <1>2, <1>3 DEF Hangs
<1>5. \A e \in ListedAbove(rows, a) : e >= a
  <2>1. In(rows) \subseteq Nat
    BY TreeRowsLemma
  <2> QED BY <1>1, <1>2, <2>1
<1> QED BY <1>4, <1>5 DEF Stray

\* A page that is not put below the workspace has a parent one can show it under.
LEMMA ParentIsANode ==
  ASSUME NEW rows \in Rows, NEW d \in In(rows) \ Adopted(rows)
  PROVE  rows[d].parent \in Nodes
<1> SUFFICES ASSUME rows[d].parent \notin Nodes PROVE FALSE
  OBVIOUS
<1> DEFINE S == Adopted(rows) \cup {Top}
           T == Nodes \ {d}
<1>1. S \in SUBSET Nodes /\ Top \in S /\ d # Top /\ In(rows) \subseteq Nodes
  BY AdoptedLemma, TreeRowsLemma DEF Nodes
<1>2. Downward(rows, T)
  BY <1>1 DEF Downward, ChildrenOf
<1>3. S \subseteq T
  BY <1>1
<1> HIDE DEF T
<1>4. Attached(rows, S) \subseteq T
  BY <1>1, <1>2, <1>3, AttachedIsLeast
<1>5. d \in Attached(rows, S)
  BY AdoptedLemma
<1> QED BY <1>4, <1>5 DEF T

-----------------------------------------------------------------------------
(* The order of siblings.                                                   *)

LEMMA BeforeLemma ==
  ASSUME NEW rows \in Rows
  PROVE  /\ \A d \in In(rows) : ~Before(rows, d, d)
         /\ \A d, e \in In(rows) : d # e => Before(rows, d, e) \/ Before(rows, e, d)
         /\ \A d, e \in In(rows) : ~(Before(rows, d, e) /\ Before(rows, e, d))
         /\ \A d, e, f \in In(rows) : Before(rows, d, e) /\ Before(rows, e, f) => Before(rows, d, f)
<1>1. In(rows) \subseteq Nat
  BY TreeRowsLemma
<1>2. \A d \in In(rows) : rows[d].order \in Int /\ rows[d].title \in Int
  BY TreeRowsLemma DEF TreeRow
<1> QED BY <1>1, <1>2 DEF Before

\* A list of pages without repetition, each before the next.
InOrder(rows, s, S) ==
  /\ s \in Seq(S) /\ S = ToSet(s)
  /\ \A i, j \in DOMAIN s : i < j => s[i] # s[j] /\ Before(rows, s[i], s[j])

LEMMA RankedLemma ==
  ASSUME NEW rows \in Rows, NEW S \in SUBSET In(rows)
  PROVE  /\ InOrder(rows, Ranked(rows, S), S)
         /\ Len(Ranked(rows, S)) = Cardinality(S) /\ Cardinality(S) \in Nat
<1> DEFINE N == Cardinality(S)
           before(b) == {a \in S : Before(rows, a, b)}
           place(b) == Cardinality(before(b)) + 1
<1>1. N \in Nat /\ IsFiniteSet(S)
  BY TreeRowsLemma, FS_Subset, FS_CardinalityType
<1>2. /\ \A x \in S : ~Before(rows, x, x)
      /\ \A x, y \in S : x # y => Before(rows, x, y) \/ Before(rows, y, x)
      /\ \A x, y, z \in S : Before(rows, x, y) /\ Before(rows, y, z) => Before(rows, x, z)
  <2>1. S \subseteq In(rows)
    OBVIOUS
  <2> QED BY <2>1, BeforeLemma
<1>3. \A x \in S : before(x) \in SUBSET S /\ x \notin before(x)
  BY <1>2
<1>4. \A x \in S : IsFiniteSet(before(x)) /\ Cardinality(before(x)) \in Nat
  <2> SUFFICES ASSUME NEW x \in S PROVE IsFiniteSet(before(x)) /\ Cardinality(before(x)) \in Nat
    OBVIOUS
  <2> HIDE DEF before
  <2>1. IsFiniteSet(before(x))
    BY <1>1, <1>3, FS_Subset
  <2> QED BY <2>1, FS_CardinalityType
<1>5. \A x \in S : Cardinality(before(x)) < N
  <2> SUFFICES ASSUME NEW x \in S PROVE Cardinality(before(x)) < N
    OBVIOUS
  <2> HIDE DEF before
  <2>1. Cardinality(before(x)) <= N /\ (N = Cardinality(before(x)) => S = before(x))
    BY <1>1, <1>3, FS_Subset
  <2> QED BY <1>1, <1>3, <1>4, <2>1
<1>6. ASSUME NEW x \in S, NEW y \in S, Before(rows, x, y) PROVE place(x) < place(y)
  <2>1. before(x) \in SUBSET before(y) /\ x \in before(y)
    BY <1>2, <1>6
  <2> HIDE DEF before
  <2>2. /\ Cardinality(before(x)) <= Cardinality(before(y))
        /\ Cardinality(before(y)) = Cardinality(before(x)) => before(y) = before(x)
    BY <1>4, <2>1, FS_Subset
  <2> QED BY <1>3, <1>4, <2>1, <2>2
<1>7. \A x \in S : place(x) \in 1 .. N
  <2> SUFFICES ASSUME NEW x \in S PROVE place(x) \in 1 .. N
    OBVIOUS
  <2> DEFINE n == Cardinality(before(x))
  <2>1. n \in Nat /\ n < N
    BY <1>4, <1>5
  <2> HIDE DEF n, N
  <2>2. n + 1 \in 1 .. N
    BY <1>1, <2>1
  <2> QED BY <2>2 DEF n
<1> HIDE DEF place
<1>8. \A x, y \in S : place(x) = place(y) => x = y
  <2>1. \A x, y \in S : x # y => place(x) < place(y) \/ place(y) < place(x)
    BY <1>2, <1>6
  <2> QED BY <1>1, <1>7, <2>1
<1>9. \A i \in 1 .. N : \E x \in S : place(x) = i
  <2> DEFINE f == [x \in S |-> place(x)]
  <2>1. f \in Injection(S, 1 .. N)
    BY <1>7, <1>8 DEF Injection, IsInjective
  <2>2. IsFiniteSet(1 .. N) /\ Cardinality(1 .. N) = N
    BY <1>1, FS_Interval
  <2>3. f \in Surjection(S, 1 .. N)
    <3> HIDE DEF f
    <3> QED BY <2>1, <2>2, FS_Injection
  <2> QED BY <2>3 DEF Surjection
<1> DEFINE s == [i \in 1 .. N |-> CHOOSE b \in S : place(b) = i]
<1>10. Ranked(rows, S) = s
  BY DEF Ranked, place
<1>11. \A i \in 1 .. N : s[i] \in S /\ place(s[i]) = i
  BY <1>9
<1>12. \A x \in S : place(x) \in 1 .. N /\ s[place(x)] = x
  BY <1>7, <1>8, <1>11
<1>13. DOMAIN s = 1 .. N /\ s \in [1 .. N -> S]
  BY <1>11
<1> HIDE DEF s
<1>14. ASSUME NEW i \in 1 .. N, NEW j \in 1 .. N, i < j PROVE s[i] # s[j] /\ Before(rows, s[i], s[j])
  <2>1. s[i] # s[j]
    BY <1>1, <1>11, <1>14
  <2>2. ~Before(rows, s[j], s[i])
    <3> SUFFICES ASSUME Before(rows, s[j], s[i]) PROVE FALSE
      OBVIOUS
    <3>1. place(s[j]) < place(s[i])
      BY <1>6, <1>11
    <3> QED BY <1>1, <1>11, <1>14, <3>1
  <2> QED BY <1>2, <1>11, <2>1, <2>2
<1> HIDE DEF N
<1>15. s \in Seq(S) /\ Len(s) = N
  <2>1. s \in Seq(S)
    BY <1>1, <1>13, SeqDef
  <2> QED BY <1>1, <1>13, <2>1, LenProperties
<1>16. S = ToSet(s)
  BY <1>11, <1>12, <1>13 DEF ToSet
<1>17. InOrder(rows, s, S)
  BY <1>13, <1>14, <1>15, <1>16 DEF InOrder
<1> QED BY <1>1, <1>10, <1>15, <1>17 DEF N

\* There is one order of a set of pages.
LEMMA RankedIsTheOrder ==
  ASSUME NEW rows \in Rows, NEW S \in SUBSET In(rows), NEW g, InOrder(rows, g, S)
  PROVE  Ranked(rows, S) = g
<1> DEFINE r == Ranked(rows, S)
           N == Len(r)
           T == {n \in 0 .. N : n <= Len(g) /\ \A i \in 1 .. n : r[i] = g[i]}
<1>1. InOrder(rows, r, S)
  BY RankedLemma
<1> HIDE DEF r
<1>2. /\ r \in Seq(S) /\ DOMAIN r = 1 .. Len(r) /\ Len(r) \in Nat
      /\ g \in Seq(S) /\ DOMAIN g = 1 .. Len(g) /\ Len(g) \in Nat
  BY <1>1, LenProperties DEF InOrder
<1>3. /\ \A x \in S : \E i \in 1 .. Len(r) : r[i] = x
      /\ \A x \in S : \E i \in 1 .. Len(g) : g[i] = x
      /\ \A i \in 1 .. Len(r) : r[i] \in S
      /\ \A i \in 1 .. Len(g) : g[i] \in S
  BY <1>1, <1>2 DEF InOrder, ToSet
<1>4. /\ \A i, j \in 1 .. Len(r) : i < j => r[i] # r[j] /\ Before(rows, r[i], r[j])
      /\ \A i, j \in 1 .. Len(g) : i < j => g[i] # g[j] /\ Before(rows, g[i], g[j])
  BY <1>1, <1>2 DEF InOrder
<1>5. \A x, y \in S : ~(Before(rows, x, y) /\ Before(rows, y, x))
  BY BeforeLemma
<1>6. ASSUME NEW n \in Nat, n < Len(r), n <= Len(g), \A i \in 1 .. n : r[i] = g[i]
      PROVE  n < Len(g) /\ r[n + 1] = g[n + 1]
  <2>1. n + 1 \in 1 .. Len(r)
    BY <1>2, <1>6
  <2>2. PICK k \in 1 .. Len(g) : g[k] = r[n + 1]
    BY <1>3, <2>1
  <2>3. ~(k <= n)
    <3> SUFFICES ASSUME k <= n PROVE FALSE
      OBVIOUS
    <3>1. k \in 1 .. n /\ k \in 1 .. Len(r) /\ k < n + 1
      BY <1>6
    <3>2. r[k] = r[n + 1]
      BY <1>6, <2>2, <3>1
    <3> QED BY <1>4, <2>1, <3>1, <3>2
  <2>4. n + 1 \in 1 .. Len(g)
    BY <1>2, <1>6, <2>3
  <2>5. CASE k = n + 1
    BY <2>2, <2>4, <2>5, <1>2
  <2>6. CASE k > n + 1
    <3>1. g[n + 1] # g[k] /\ Before(rows, g[n + 1], g[k])
      BY <1>4, <2>4, <2>6
    <3>2. PICK j \in 1 .. Len(r) : r[j] = g[n + 1]
      BY <1>3, <2>4
    <3>3. ~(j <= n)
      <4> SUFFICES ASSUME j <= n PROVE FALSE
        OBVIOUS
      <4>1. j \in 1 .. n /\ j \in 1 .. Len(g) /\ j < n + 1
        BY <1>6, <1>2
      <4>2. g[j] = g[n + 1]
        BY <1>6, <3>2, <4>1
      <4> QED BY <1>4, <2>4, <4>1, <4>2
    <3>4. j # n + 1
      BY <2>2, <3>1, <3>2
    <3>5. j > n + 1
      BY <1>2, <1>6, <3>3, <3>4
    <3>6. Before(rows, r[n + 1], r[j])
      BY <1>4, <2>1, <3>5
    <3>7. r[n + 1] \in S /\ r[j] \in S
      BY <1>3, <2>1
    <3> QED BY <1>5, <2>2, <3>1, <3>2, <3>6, <3>7
  <2> QED BY <1>2, <1>6, <2>3, <2>5, <2>6
<1>7. T = 0 .. N
  <2>1. 0 \in T /\ T \in SUBSET (0 .. N)
    BY <1>2
  <2>2. ASSUME NEW n \in T, n < N PROVE n + 1 \in T
    <3>1. n \in Nat /\ n < Len(r) /\ n <= Len(g) /\ \A i \in 1 .. n : r[i] = g[i]
      BY <2>2
    <3>2. n < Len(g) /\ r[n + 1] = g[n + 1]
      BY <1>6, <3>1
    <3>3. n + 1 \in 0 .. N /\ n + 1 <= Len(g)
      BY <1>2, <3>1, <3>2
    <3>4. \A i \in 1 .. n + 1 : i \in 1 .. n \/ i = n + 1
      BY <3>1
    <3> QED BY <3>1, <3>2, <3>3, <3>4
  <2> HIDE DEF T
  <2> QED BY <1>2, <2>1, <2>2, LevelInduction
<1>8. Len(r) <= Len(g) /\ \A i \in 1 .. Len(r) : r[i] = g[i]
  <2>1. N \in T
    BY <1>2, <1>7
  <2> QED BY <2>1
<1>9. Len(g) <= Len(r)
  <2> SUFFICES ASSUME Len(r) < Len(g) PROVE FALSE
    BY <1>2
  <2> DEFINE m == Len(r) + 1
  <2>1. m \in 1 .. Len(g)
    BY <1>2
  <2>2. PICK i \in 1 .. Len(r) : r[i] = g[m]
    BY <1>3, <2>1
  <2>3. i \in 1 .. Len(g) /\ i < m /\ g[i] = g[m]
    BY <1>2, <1>8, <2>2
  <2> QED BY <1>4, <2>1, <2>3
<1>10. Len(r) = Len(g)
  <2>1. Len(r) \in Nat /\ Len(g) \in Nat
    BY <1>2
  <2>2. Len(r) <= Len(g)
    BY <1>8
  <2> QED BY <1>9, <2>1, <2>2
<1>11. r = g
  BY <1>2, <1>8, <1>10, SeqEqual
<1> QED BY <1>11 DEF r

\* u is s with e put at place m.
Inserted(S, s, m, e, u) ==
  /\ u \in Seq(S) /\ Len(u) = Len(s) + 1
  /\ \A i \in 1 .. Len(s) + 1 : u[i] = IF i < m THEN s[i] ELSE IF i = m THEN e ELSE s[i - 1]
  /\ ToSet(u) = ToSet(s) \cup {e}

LEMMA InsertLemma ==
  ASSUME NEW S, NEW s \in Seq(S), NEW m \in 1 .. Len(s) + 1, NEW e \in S
  PROVE  Inserted(S, s, m, e, InsertAt(s, m, e))
<1> DEFINE k == m - 1
           u == InsertAt(s, m, e)
           a == SubSeq(s, 1, k)
           b == SubSeq(s, k + 1, Len(s))
           c == a \o <<e>>
<1>1. Len(s) \in Nat /\ s \in [1 .. Len(s) -> S] /\ k \in Nat /\ k <= Len(s)
  BY LenProperties
<1>2. k + 1 = m /\ u = c \o b
  BY <1>1 DEF InsertAt
<1> HIDE DEF u, k
<1>3. a \in Seq(S) /\ Len(a) = k /\ \A i \in 1 .. k : a[i] = s[i]
  <2>1. \A i \in 1 .. k : s[i] \in S
    BY <1>1
  <2>2. /\ a \in Seq(S) /\ Len(a) = IF 1 <= k THEN k - 1 + 1 ELSE 0
        /\ \A i \in 1 .. k - 1 + 1 : a[i] = s[1 + i - 1]
    BY <1>1, <2>1, SubSeqProperties
  <2>3. k - 1 + 1 = k /\ \A i \in 1 .. k : 1 + i - 1 = i
    BY <1>1
  <2> HIDE DEF a
  <2> QED BY <1>1, <2>2, <2>3
<1>4. b \in Seq(S) /\ Len(b) = Len(s) - k /\ \A i \in 1 .. Len(s) - k : b[i] = s[k + i]
  <2>1. \A i \in k + 1 .. Len(s) : s[i] \in S
    BY <1>1
  <2>2. /\ b \in Seq(S) /\ Len(b) = IF k + 1 <= Len(s) THEN Len(s) - (k + 1) + 1 ELSE 0
        /\ \A i \in 1 .. Len(s) - (k + 1) + 1 : b[i] = s[k + 1 + i - 1]
    BY <1>1, <2>1, SubSeqProperties
  <2>3. Len(s) - (k + 1) + 1 = Len(s) - k /\ \A i \in 1 .. Len(s) - k : k + 1 + i - 1 = k + i
    BY <1>1
  <2> HIDE DEF b
  <2>4. Len(b) = Len(s) - k
    <3>1. Len(s) \in Nat /\ k \in Nat /\ k <= Len(s)
      BY <1>1
    <3>2. ~(k + 1 <= Len(s)) => Len(s) - k = 0
      BY <3>1
    <3> QED BY <2>2, <2>3, <3>2
  <2>5. \A i \in 1 .. Len(s) - k : b[i] = s[k + 1 + i - 1]
    BY <2>2, <2>3
  <2>6. \A i \in 1 .. Len(s) - k : b[i] = s[k + i]
    BY <2>3, <2>5
  <2> QED BY <2>2, <2>4, <2>6
<1> HIDE DEF a, b
<1>5. c \in Seq(S) /\ Len(c) = k + 1 /\ \A i \in 1 .. k + 1 : c[i] = IF i <= k THEN s[i] ELSE e
  <2>1. <<e>> \in Seq(S) /\ Len(<<e>>) = 1 /\ <<e>>[1] = e
    OBVIOUS
  <2>2. /\ c \in Seq(S) /\ Len(c) = Len(a) + 1
        /\ \A i \in 1 .. Len(a) + 1 : c[i] = IF i <= Len(a) THEN a[i] ELSE <<e>>[i - Len(a)]
    BY <1>3, <2>1, ConcatProperties
  <2>3. \A i \in 1 .. k + 1 : i <= k \/ i = k + 1
    BY <1>1
  <2> HIDE DEF c
  <2>4. k + 1 - k = 1 /\ k \in Nat /\ ~(k + 1 <= k) /\ \A i \in 1 .. k + 1 : i <= k => i \in 1 .. k
    BY <1>1
  <2>5. c \in Seq(S) /\ Len(c) = k + 1
    BY <1>3, <2>2
  <2>6. ASSUME NEW i \in 1 .. k + 1 PROVE c[i] = IF i <= k THEN s[i] ELSE e
    <3>1. c[i] = IF i <= k THEN a[i] ELSE <<e>>[i - k]
      BY <1>3, <2>2
    <3>2. CASE i <= k
      BY <1>3, <2>4, <3>1, <3>2
    <3>3. CASE i = k + 1
      BY <2>1, <2>4, <3>1, <3>3
    <3> QED BY <2>3, <3>2, <3>3
  <2> QED BY <2>5, <2>6
<1> HIDE DEF c
<1>6. /\ u \in Seq(S) /\ Len(u) = k + 1 + (Len(s) - k)
      /\ \A i \in 1 .. k + 1 + (Len(s) - k) : u[i] = IF i <= k + 1 THEN c[i] ELSE b[i - (k + 1)]
  <2>1. /\ u \in Seq(S) /\ Len(u) = Len(c) + Len(b)
        /\ \A i \in 1 .. Len(c) + Len(b) : u[i] = IF i <= Len(c) THEN c[i] ELSE b[i - Len(c)]
    <3>1. /\ c \o b \in Seq(S) /\ Len(c \o b) = Len(c) + Len(b)
          /\ \A i \in 1 .. Len(c) + Len(b) : (c \o b)[i] = IF i <= Len(c) THEN c[i] ELSE b[i - Len(c)]
      <4>1. c \in Seq(S) /\ b \in Seq(S)
        BY <1>4, <1>5
      <4> QED BY <4>1, ConcatProperties
    <3>2. u = c \o b
      BY <1>2
    <3> QED BY <3>1, <3>2, Zenon
  <2>2. Len(c) = k + 1 /\ Len(b) = Len(s) - k
    BY <1>4, <1>5
  <2> QED BY <2>1, <2>2, Zenon
<1>7. k + 1 + (Len(s) - k) = Len(s) + 1
  BY <1>1
<1>8. ASSUME NEW i \in 1 .. Len(s) + 1
      PROVE  u[i] = IF i <= k THEN s[i] ELSE IF i = k + 1 THEN e ELSE s[i - 1]
  <2>1. CASE i <= k + 1
    <3>1. i \in 1 .. k + 1
      BY <1>1, <2>1
    <3>2. u[i] = c[i]
      BY <1>6, <1>7, <2>1
    <3> QED BY <1>1, <1>5, <3>1, <3>2
  <2>2. CASE i > k + 1
    <3>1. i - (k + 1) \in 1 .. Len(s) - k /\ k + (i - (k + 1)) = i - 1
      BY <1>1, <2>2
    <3>2. u[i] = b[i - (k + 1)]
      <4>1. ~(i <= k + 1) /\ i \in 1 .. k + 1 + (Len(s) - k)
        BY <1>1, <1>7, <2>2
      <4> QED BY <1>6, <4>1
    <3>3. ~(i <= k) /\ i # k + 1
      BY <1>1, <2>2
    <3>4. b[i - (k + 1)] = s[k + (i - (k + 1))]
      BY <1>4, <3>1
    <3> QED BY <3>1, <3>2, <3>3, <3>4
  <2> QED BY <1>1, <2>1, <2>2
<1>9. ToSet(u) = ToSet(s) \cup {e}
  <2>1. DOMAIN u = 1 .. Len(s) + 1 /\ DOMAIN s = 1 .. Len(s)
    BY <1>6, <1>7, LenProperties
  <2>2. ASSUME NEW x \in ToSet(u) PROVE x \in ToSet(s) \cup {e}
    <3>1. PICK i \in 1 .. Len(s) + 1 : x = u[i]
      BY <2>1 DEF ToSet
    <3>2. i <= k => i \in 1 .. Len(s)
      BY <1>1
    <3>3. ~(i <= k) /\ i # k + 1 => i - 1 \in 1 .. Len(s)
      BY <1>1
    <3> QED BY <1>8, <2>1, <3>1, <3>2, <3>3 DEF ToSet
  <2>3. ASSUME NEW x \in ToSet(s) PROVE x \in ToSet(u)
    <3>1. PICK i \in 1 .. Len(s) : x = s[i]
      BY <2>1 DEF ToSet
    <3>2. CASE i <= k
      <4>1. i \in 1 .. Len(s) + 1
        BY <1>1
      <4> QED BY <1>8, <2>1, <3>1, <3>2, <4>1 DEF ToSet
    <3>3. CASE i > k
      <4>1. i + 1 \in 1 .. Len(s) + 1 /\ ~(i + 1 <= k) /\ i + 1 # k + 1 /\ i + 1 - 1 = i
        BY <1>1, <3>3
      <4>2. u[i + 1] = s[i]
        BY <1>8, <4>1
      <4> QED BY <2>1, <3>1, <4>1, <4>2 DEF ToSet
    <3> QED BY <1>1, <3>2, <3>3
  <2>4. e \in ToSet(u)
    <3>1. k + 1 \in 1 .. Len(s) + 1 /\ ~(k + 1 <= k)
      BY <1>1
    <3>2. u[k + 1] = e
      BY <1>8, <3>1
    <3> QED BY <2>1, <3>1, <3>2 DEF ToSet
  <2> QED BY <2>2, <2>3, <2>4
<1>10. \A i \in 1 .. Len(s) + 1 : u[i] = IF i < m THEN s[i] ELSE IF i = m THEN e ELSE s[i - 1]
  <2>1. \A i \in 1 .. Len(s) + 1 : i < m <=> i <= k
    BY <1>1, <1>2
  <2> QED BY <1>2, <1>8, <2>1
<1>11. Inserted(S, s, m, e, u)
  BY <1>6, <1>7, <1>9, <1>10 DEF Inserted
<1> QED BY <1>11 DEF u

-----------------------------------------------------------------------------
(* Every page is shown.                                                     *)

\* What is said of a page d that stands before a page e, of one that stands under p,
\* and of the tree.
NotAfter(rows, d, e) == d # e /\ (Twins(rows, d, e) \/ Before(rows, d, e))
StandsWell(rows, p, d) ==
  d \in In(rows) /\ p \in {rows[d].parent, Top} /\ (p # rows[d].parent => Stray(rows, d))
Hold(t, S) == Top \in S /\ \A p \in S : ToSet(t.kids[p]) \subseteq S

ShowsAll(t) ==
  /\ t.row \in Rows /\ t.kids \in [Nodes -> Seq(TreePages)]
  /\ \A p \in Nodes : \A d \in ToSet(t.kids[p]) : StandsWell(t.row, p, d)
  /\ \A p, q \in Nodes : p # q => ToSet(t.kids[p]) \cap ToSet(t.kids[q]) = {}
  /\ \A p \in Nodes : \A i, j \in DOMAIN t.kids[p] :
       i < j => NotAfter(t.row, t.kids[p][i], t.kids[p][j])
  /\ \A d \in In(t.row) : \E p \in Nodes : d \in ToSet(t.kids[p])
  /\ \A S \in SUBSET Nodes : Hold(t, S) => In(t.row) \subseteq S

\* A tree that has been built anew.
LEMMA BuiltPlaces ==
  ASSUME NEW rows \in Rows, NEW p \in Nodes
  PROVE  LET S == IF p = Top THEN ChildrenOf(rows, Top) \cup Adopted(rows)
                  ELSE ChildrenOf(rows, p) \ Adopted(rows)
         IN  /\ Build(rows).kids[p] = Ranked(rows, S)
             /\ S \in SUBSET In(rows)
             /\ InOrder(rows, Build(rows).kids[p], S)
<1> DEFINE S == IF p = Top THEN ChildrenOf(rows, Top) \cup Adopted(rows)
                ELSE ChildrenOf(rows, p) \ Adopted(rows)
<1>1. Build(rows).kids[p] = Ranked(rows, S)
  BY DEF Build
<1>2. S \in SUBSET In(rows)
  BY TreeRowsLemma, AdoptedLemma
<1> HIDE DEF S
<1>3. InOrder(rows, Ranked(rows, S), S)
  BY <1>2, RankedLemma
<1> QED BY <1>1, <1>2, <1>3 DEF S

LEMMA BuildShowsAll ==
  ASSUME NEW rows \in Rows
  PROVE  ShowsAll(Build(rows))
<1> DEFINE t == Build(rows)
           A == Adopted(rows)
           C(p) == ChildrenOf(rows, p)
<1>1. t.row = rows /\ DOMAIN t.kids = Nodes /\ t.kids = [p \in Nodes |-> t.kids[p]]
  BY DEF Build
<1>2. /\ A \subseteq In(rows) /\ In(rows) \subseteq Nodes /\ In(rows) \subseteq TreePages
      /\ \A p : C(p) = {d \in In(rows) : rows[d].parent = p}
      /\ Top \in Nodes
  BY AdoptedLemma, TreeRowsLemma DEF ChildrenOf, Nodes
<1>3. ASSUME NEW p \in Nodes
      PROVE  InOrder(rows, t.kids[p], IF p = Top THEN C(Top) \cup A ELSE C(p) \ A)
  <2> HIDE DEF t
  <2> QED BY BuiltPlaces DEF t
<1> HIDE DEF t, C, A
<1>4. \A p \in Nodes : ToSet(t.kids[p]) = IF p = Top THEN C(Top) \cup A ELSE C(p) \ A
  BY <1>3 DEF InOrder
<1>5. t.kids \in [Nodes -> Seq(TreePages)]
  <2>1. ASSUME NEW p \in Nodes PROVE t.kids[p] \in Seq(TreePages)
    <3> DEFINE S == IF p = Top THEN C(Top) \cup A ELSE C(p) \ A
    <3>1. S \subseteq TreePages
      BY <1>2
    <3>2. t.kids[p] \in Seq(S)
      BY <1>3 DEF InOrder
    <3> HIDE DEF S
    <3> QED BY <3>1, <3>2, SeqMonotonic
  <2> QED BY <1>1, <2>1
<1>6. ASSUME NEW p \in Nodes, NEW d \in ToSet(t.kids[p]) PROVE StandsWell(rows, p, d)
  <2>1. d \in In(rows)
    BY <1>2, <1>4
  <2>2. d \in A \/ p = rows[d].parent
    BY <1>2, <1>4
  <2>3. d \in A /\ p # rows[d].parent => p = Top
    BY <1>2, <1>4
  <2>4. d \in A => Stray(rows, d)
    BY AdoptedAreStray DEF A
  <2> QED BY <2>1, <2>2, <2>3, <2>4 DEF StandsWell
<1>7. ASSUME NEW p \in Nodes, NEW q \in Nodes, p # q
      PROVE  ToSet(t.kids[p]) \cap ToSet(t.kids[q]) = {}
  <2> SUFFICES ASSUME NEW d, d \in ToSet(t.kids[p]), d \in ToSet(t.kids[q]) PROVE FALSE
    OBVIOUS
  <2>1. d \in A => p = Top /\ q = Top
    BY <1>4
  <2>2. d \notin A => p = rows[d].parent /\ q = rows[d].parent
    BY <1>2, <1>4
  <2> QED BY <1>7, <2>1, <2>2
<1>8. ASSUME NEW p \in Nodes, NEW i \in DOMAIN t.kids[p], NEW j \in DOMAIN t.kids[p], i < j
      PROVE  NotAfter(rows, t.kids[p][i], t.kids[p][j])
  BY <1>3, <1>8 DEF InOrder, NotAfter
<1>9. ASSUME NEW d \in In(rows) PROVE \E p \in Nodes : d \in ToSet(t.kids[p])
  <2>1. CASE d \in A
    BY <1>2, <1>4, <2>1
  <2>2. CASE d \notin A
    <3>1. rows[d].parent \in Nodes
      BY <2>2, ParentIsANode DEF A
    <3> QED BY <1>2, <1>4, <2>2, <3>1
  <2> QED BY <2>1, <2>2
<1>10. ASSUME NEW S \in SUBSET Nodes, Hold(t, S) PROVE In(rows) \subseteq S
  <2>1. A \subseteq S /\ Top \in S
    BY <1>2, <1>4, <1>10 DEF Hold
  <2>2. Downward(rows, S)
    <3>1. \A p \in S : ToSet(t.kids[p]) \subseteq S /\ p \in Nodes
      BY <1>10 DEF Hold
    <3>2. \A p \in S : C(p) \subseteq S
      BY <1>4, <2>1, <3>1
    <3> QED BY <3>2 DEF Downward, C
  <2>3. A \cup {Top} \subseteq S /\ A \cup {Top} \in SUBSET Nodes /\ Top \in A \cup {Top}
    BY <1>2, <2>1
  <2>4. Attached(rows, A \cup {Top}) \subseteq S
    BY <2>2, <2>3, AttachedIsLeast
  <2>5. In(rows) \subseteq Attached(rows, A \cup {Top})
    BY AdoptedLemma DEF A
  <2> QED BY <2>4, <2>5
<1>11. t.row \in Rows /\ t.row = rows
  BY <1>1
<1>12. ShowsAll(t)
  BY <1>5, <1>6, <1>7, <1>8, <1>9, <1>10, <1>11 DEF ShowsAll
<1> QED BY <1>12 DEF t

\* What a tree shows is in sight of the workspace.
Sees(t, sight) ==
  sight = [n \in 0 .. Cardinality(TreePages) |->
             IF n = 0 THEN {Top} ELSE sight[n - 1] \cup UNION {ToSet(t.kids[p]) : p \in sight[n - 1]}]

LEMMA AllInSight ==
  ASSUME NEW t, ShowsAll(t)
  PROVE  /\ \E sight : Sees(t, sight)
         /\ \A sight : Sees(t, sight) => In(t.row) \subseteq sight[Cardinality(TreePages)]
<1> DEFINE N == Cardinality(TreePages)
           Onward(S) == S \cup UNION {ToSet(t.kids[p]) : p \in S}
           F == [S \in SUBSET Nodes |-> Onward(S)]
<1>1. /\ IsFiniteSet(Nodes) /\ N \in Nat /\ Cardinality(Nodes) <= N + Cardinality({Top})
  <2>1. IsFiniteSet(TreePages) /\ N \in Nat
    BY TreeAssumption, FS_CardinalityType
  <2>2. IsFiniteSet(Nodes) /\ Cardinality(Nodes) = IF Top \in TreePages THEN N ELSE N + 1
    BY <2>1, FS_AddElement DEF Nodes
  <2>3. Cardinality({Top}) = 1
    BY FS_Singleton
  <2> HIDE DEF N
  <2> QED BY <2>1, <2>2, <2>3
<1>2. \A S \in SUBSET Nodes : Onward(S) \in SUBSET Nodes
  <2>1. \A p \in Nodes : ToSet(t.kids[p]) \subseteq Nodes
    <3> SUFFICES ASSUME NEW p \in Nodes, NEW d \in ToSet(t.kids[p]) PROVE d \in Nodes
      OBVIOUS
    <3>1. StandsWell(t.row, p, d)
      BY DEF ShowsAll
    <3> QED BY <3>1 DEF StandsWell, In, Nodes
  <2> QED BY <2>1
<1> HIDE DEF N
<1>3. F \in [SUBSET Nodes -> SUBSET Nodes] /\ Grows(Nodes, F) /\ \A T \in SUBSET Nodes : F[T] = Onward(T)
  BY <1>2 DEF Grows
<1> HIDE DEF F, Onward
<1>4. PICK W : Walks(W, N, F, {Top})
  BY <1>1, WalkExists
<1>5. \A n \in 0 .. N : W[n] \in SUBSET Nodes
  <2>1. {Top} \in SUBSET Nodes
    BY DEF Nodes
  <2> QED BY <1>1, <1>3, <1>4, <2>1, WalkIsDone
<1>6. \A n \in 0 .. N : n # 0 => F[W[n - 1]] = Onward(W[n - 1])
  <2>1. \A n \in 0 .. N : n # 0 => n - 1 \in 0 .. N
    BY <1>1
  <2> QED BY <1>3, <1>5, <2>1
<1>7. W = [n \in 0 .. N |-> IF n = 0 THEN {Top} ELSE Onward(W[n - 1])]
  BY <1>4, <1>6 DEF Walks
<1>8. Sees(t, W)
  BY <1>7 DEF Sees, N, Onward
<1> SUFFICES ASSUME NEW sight, Sees(t, sight) PROVE In(t.row) \subseteq sight[N]
  BY <1>8 DEF N
<1>9. sight = [n \in 0 .. N |-> IF n = 0 THEN {Top} ELSE Onward(sight[n - 1])]
  BY DEF Sees, N, Onward
<1>10. \A n \in 0 .. N : sight[n] = IF n = 0 THEN {Top} ELSE Onward(sight[n - 1])
  BY <1>9
<1>11. {Top} \in SUBSET Nodes /\ 0 \in 0 .. N /\ N \in 0 .. N
  BY <1>1 DEF Nodes
<1>12. \A n \in 0 .. N : sight[n] \in SUBSET Nodes
  <2> DEFINE T == {n \in 0 .. N : sight[n] \in SUBSET Nodes}
  <2>1. 0 \in T /\ T \in SUBSET (0 .. N)
    BY <1>10, <1>11
  <2>2. ASSUME NEW n \in T, n < N PROVE n + 1 \in T
    <3>1. n + 1 \in 0 .. N /\ n + 1 # 0 /\ n + 1 - 1 = n
      BY <1>1, <2>2
    <3>2. sight[n + 1] = Onward(sight[n])
      BY <1>10, <3>1
    <3>3. \A S \in SUBSET Nodes : Onward(S) \in SUBSET Nodes
      BY <1>2
    <3> QED BY <2>2, <3>1, <3>2, <3>3
  <2> HIDE DEF T
  <2>3. T = 0 .. N
    BY <1>1, <2>1, <2>2, LevelInduction
  <2> QED BY <2>3 DEF T
<1>13. Walks(sight, N, F, {Top})
  <2>1. \A n \in 0 .. N : n # 0 => F[sight[n - 1]] = Onward(sight[n - 1])
    <3>1. \A n \in 0 .. N : n # 0 => n - 1 \in 0 .. N
      BY <1>1
    <3> QED BY <1>3, <1>12, <3>1
  <2> QED BY <1>9, <2>1 DEF Walks
<1>14. sight[0] \subseteq sight[N] /\ F[sight[N]] = sight[N]
  BY <1>1, <1>3, <1>11, <1>13, WalkIsDone
<1>15. Onward(sight[N]) = sight[N] /\ Top \in sight[N] /\ sight[N] \in SUBSET Nodes
  BY <1>3, <1>10, <1>11, <1>12, <1>14
<1>16. Hold(t, sight[N])
  BY <1>15 DEF Hold, Onward
<1> QED BY <1>15, <1>16 DEF ShowsAll

LEMMA ShownIsShown ==
  ASSUME ShowsAll(shown)
  PROVE  EveryPageIsShown
<1> DEFINE rows == shown.row
<1>1. \A p \in Nodes : \A d \in ToSet(shown.kids[p]) : StandsWell(rows, p, d)
  BY DEF ShowsAll
<1>2. \A p, q \in Nodes : p # q => ToSet(shown.kids[p]) \cap ToSet(shown.kids[q]) = {}
  BY DEF ShowsAll
<1>3. \A p \in Nodes : \A i, j \in DOMAIN shown.kids[p] :
        i < j => NotAfter(rows, shown.kids[p][i], shown.kids[p][j])
  BY DEF ShowsAll
<1>4. \A d \in In(rows) : \E p \in Nodes : d \in ToSet(shown.kids[p])
  BY DEF ShowsAll
<1>5. InView = In(rows)
  <2>1. In(rows) \subseteq TreePages
    BY DEF In
  <2>2. InView \subseteq In(rows)
    BY <1>1 DEF InView, StandsWell
  <2>3. In(rows) \subseteq InView
    BY <1>4, <2>1 DEF InView
  <2> QED BY <2>2, <2>3
<1>6. ASSUME NEW p \in Nodes, NEW i \in DOMAIN shown.kids[p]
      PROVE  LET d == shown.kids[p][i] IN
             /\ p = ParentInView(d) /\ p \in {rows[d].parent, Top}
             /\ p # rows[d].parent => Stray(rows, d)
             /\ \A j \in (i + 1) .. Len(shown.kids[p]) :
                  LET e == shown.kids[p][j] IN d # e /\ (Twins(rows, d, e) \/ Before(rows, d, e))
  <2> DEFINE d == shown.kids[p][i]
             s == shown.kids[p]
  <2>1. d \in ToSet(shown.kids[p])
    BY DEF ToSet
  <2>2. StandsWell(rows, p, d)
    BY <1>1, <2>1
  <2>3. p = ParentInView(d)
    <3>1. \A q \in Nodes : d \in ToSet(shown.kids[q]) => q = p
      BY <1>2, <2>1
    <3> HIDE DEF d
    <3> QED BY <2>1, <3>1 DEF ParentInView
  <2>4. ASSUME NEW j \in (i + 1) .. Len(s) PROVE NotAfter(rows, d, s[j])
    <3>1. s \in Seq(TreePages)
      BY DEF ShowsAll
    <3>2. DOMAIN s = 1 .. Len(s) /\ Len(s) \in Nat
      BY <3>1, LenProperties
    <3>3. i \in 1 .. Len(s)
      BY <3>2
    <3> HIDE DEF s
    <3>4. j \in 1 .. Len(s) /\ i < j
      BY <3>2, <3>3
    <3> QED BY <1>3, <3>2, <3>4 DEF s
  <2> QED BY <2>2, <2>3, <2>4 DEF StandsWell, NotAfter
<1>7. LET sight[n \in 0 .. Cardinality(TreePages)] ==
            IF n = 0 THEN {Top} ELSE sight[n - 1] \cup UNION {ToSet(shown.kids[p]) : p \in sight[n - 1]}
      IN  InView \subseteq sight[Cardinality(TreePages)]
  <2> DEFINE sight == CHOOSE sight : Sees(shown, sight)
  <2>1. Sees(shown, sight)
    BY AllInSight
  <2> HIDE DEF sight
  <2>2. InView \subseteq sight[Cardinality(TreePages)]
    BY <1>5, <2>1, AllInSight
  <2> QED BY <2>2 DEF sight, Sees
<1> QED BY <1>5, <1>6, <1>7 DEF EveryPageIsShown

\* A page that is added where nothing knew it changes no walk from another page, and
\* hangs in the air itself if its parent is not there.
Added(rows, d, r) == [rows EXCEPT ![d] = r]
Unknown(rows, d) == d \notin In(rows) /\ \A e \in In(rows) : rows[e].parent # d

LEMMA AddedWalks ==
  ASSUME NEW rows \in Rows, NEW d \in TreePages, Unknown(rows, d), NEW r \in TreeRow
  PROVE  /\ Added(rows, d, r) \in Rows /\ In(Added(rows, d, r)) = In(rows) \cup {d}
         /\ Added(rows, d, r)[d] = r
         /\ \A e \in In(rows) : Added(rows, d, r)[e] = rows[e] /\ d # e
         /\ \A e \in In(rows) : Stray(rows, e) => Stray(Added(rows, d, r), e)
         /\ r.parent \notin In(rows) \cup {Top, d} => Stray(Added(rows, d, r), d)
<1> DEFINE N == Cardinality(TreePages)
           new == Added(rows, d, r)
<1>1. new \in Rows /\ In(new) = In(rows) \cup {d} /\ new[d] = r /\ Unlisted \notin TreeRow
  BY TreeAssumption DEF Rows, In, Added
<1>2. \A e \in In(rows) : new[e] = rows[e] /\ d # e
  BY DEF Unknown, Rows, In, Added
<1> HIDE DEF new
<1>3. N \in Nat /\ Top \notin In(new) /\ In(rows) \subseteq Nat /\ d \in Nat /\ d # Top
      /\ r.parent \in Nat
  BY <1>1, TreeRowsLemma, TreeAssumption DEF Top, TreeRow
<1> HIDE DEF N
<1>4. ASSUME NEW e \in In(rows), Stray(rows, e) PROVE Stray(new, e)
  <2> DEFINE V == Walk(rows, e)
             W == Walk(new, e)
             T == {n \in 0 .. N : W[n] = V[n] /\ V[n] # d}
  <2>1. V[0] = e /\ \A n \in Nat : n < N => V[n + 1] = IF V[n] \in In(rows) THEN rows[V[n]].parent ELSE Top
    BY <1>3, WalkLemma DEF N
  <2>2. W[0] = e /\ \A n \in Nat : n < N => W[n + 1] = IF W[n] \in In(new) THEN new[W[n]].parent ELSE Top
    BY <1>1, <1>3, WalkLemma DEF N
  <2> HIDE DEF V, W
  <2>3. 0 \in T /\ T \in SUBSET (0 .. N)
    BY <1>2, <1>3, <2>1, <2>2
  <2>4. ASSUME NEW n \in T, n < N PROVE n + 1 \in T
    <3>1. n \in Nat /\ n + 1 \in 0 .. N /\ W[n] = V[n] /\ V[n] # d
      BY <1>3, <2>4
    <3>2. V[n + 1] = IF V[n] \in In(rows) THEN rows[V[n]].parent ELSE Top
      BY <2>1, <2>4, <3>1
    <3>3. W[n + 1] = IF V[n] \in In(rows) THEN new[V[n]].parent ELSE Top
      BY <1>1, <2>2, <2>4, <3>1
    <3>4. V[n] \in In(rows) => new[V[n]].parent = rows[V[n]].parent /\ rows[V[n]].parent # d
      BY <1>2 DEF Unknown
    <3> QED BY <1>3, <3>1, <3>2, <3>3, <3>4
  <2> HIDE DEF T
  <2>5. T = 0 .. N
    BY <1>3, <2>3, <2>4, LevelInduction
  <2>6. \A n \in 1 .. N : W[n] = V[n] /\ V[n] # d
    BY <1>3, <2>5 DEF T
  <2>7. {W[n] : n \in 1 .. N} = {V[n] : n \in 1 .. N} /\ d \notin {V[n] : n \in 1 .. N}
    BY <2>6
  <2>8. ListedAbove(new, e) = ListedAbove(rows, e)
    BY <1>1, <2>7 DEF ListedAbove, V, W, N
  <2>9. \A x \in {e} \cup ListedAbove(rows, e) : new[x].parent = rows[x].parent
    BY <1>2 DEF ListedAbove
  <2>10. Hangs(new, e) <=> Hangs(rows, e)
    BY <2>8, <2>9 DEF Hangs
  <2> QED BY <1>4, <2>8, <2>10 DEF Stray
<1>5. ASSUME r.parent \notin In(rows) \cup {Top, d} PROVE Stray(new, d)
  <2> DEFINE W == Walk(new, d)
             T == {n \in 0 .. N : n # 0 => W[n] \notin In(new)}
  <2>1. W[0] = d /\ \A n \in Nat : n < N => W[n + 1] = IF W[n] \in In(new) THEN new[W[n]].parent ELSE Top
    BY <1>1, <1>3, WalkLemma DEF N
  <2> HIDE DEF W
  <2>2. 0 \in T /\ T \in SUBSET (0 .. N)
    BY <1>3
  <2>3. ASSUME NEW n \in T, n < N PROVE n + 1 \in T
    <3>1. n \in Nat /\ n + 1 \in 0 .. N /\ (n # 0 => W[n] \notin In(new))
      BY <1>3, <2>3
    <3>2. W[n + 1] \notin In(new)
      <4>1. CASE n = 0
        <5>1. W[n + 1] = r.parent
          BY <1>1, <2>1, <2>3, <3>1, <4>1
        <5> QED BY <1>1, <1>5, <5>1
      <4>2. CASE n # 0
        BY <1>3, <2>1, <2>3, <3>1, <4>2
      <4> QED BY <4>1, <4>2
    <3> QED BY <3>1, <3>2
  <2> HIDE DEF T
  <2>4. T = 0 .. N
    BY <1>3, <2>2, <2>3, LevelInduction
  <2>5. \A n \in 1 .. N : W[n] \notin In(new)
    <3>1. \A n \in 1 .. N : n \in 0 .. N /\ n # 0
      BY <1>3
    <3> QED BY <2>4, <3>1 DEF T
  <2>6. ListedAbove(new, d) = {}
    BY <2>5 DEF ListedAbove, W, N
  <2>7. ~Hangs(new, d)
    BY <1>1, <1>5, <2>6 DEF Hangs
  <2> QED BY <2>6, <2>7 DEF Stray
<1> QED BY <1>1, <1>2, <1>4, <1>5 DEF new

LaterThan(q, r) == q.order > r.order \/ (q.order = r.order /\ q.title > r.title)

\* The row a new page is given: not after any page it goes before, and not before any
\* that it goes after.
LEMMA InsertRowLemma ==
  ASSUME NEW t, ShowsAll(t), NEW p \in Nodes, NEW r \in TreeRow
  PROVE  /\ InsertRow(t, p, r) \in 0 .. Len(t.kids[p])
         /\ \A i \in 1 .. Len(t.kids[p]) :
              LaterThan(t.row[t.kids[p][i]], r) <=> i > InsertRow(t, p, r)
<1> DEFINE s == t.kids[p]
           k == InsertRow(t, p, r)
           Later(i) == LaterThan(t.row[s[i]], r)
           later == {i \in DOMAIN s : Later(i)}
<1>1. s \in Seq(TreePages) /\ DOMAIN s = 1 .. Len(s) /\ Len(s) \in Nat
  BY LenProperties DEF ShowsAll
<1>2. \A i \in 1 .. Len(s) : t.row[s[i]] \in TreeRow
  <2> SUFFICES ASSUME NEW i \in 1 .. Len(s) PROVE t.row[s[i]] \in TreeRow
    OBVIOUS
  <2>1. s[i] \in ToSet(s)
    BY <1>1 DEF ToSet
  <2>2. s[i] \in In(t.row)
    BY <2>1 DEF ShowsAll, StandsWell
  <2>3. t.row \in Rows
    BY DEF ShowsAll
  <2> QED BY <2>2, <2>3, TreeRowsLemma
<1>3. ASSUME NEW i \in 1 .. Len(s), NEW j \in 1 .. Len(s), i < j, Later(i) PROVE Later(j)
  <2>1. NotAfter(t.row, s[i], s[j])
    BY <1>1, <1>3 DEF ShowsAll
  <2>2. /\ t.row[s[i]].order \in Int /\ t.row[s[i]].title \in Int
        /\ t.row[s[j]].order \in Int /\ t.row[s[j]].title \in Int
        /\ r.order \in Int /\ r.title \in Int
    BY <1>2 DEF TreeRow
  <2>3. \/ t.row[s[i]].order < t.row[s[j]].order
        \/ t.row[s[i]].order = t.row[s[j]].order /\ t.row[s[i]].title <= t.row[s[j]].title
    BY <2>1, <2>2 DEF NotAfter, Twins, Before
  <2>4. LaterThan(t.row[s[i]], r)
    BY <1>3
  <2> HIDE DEF s
  <2>5. LaterThan(t.row[s[j]], r)
    BY <2>2, <2>3, <2>4 DEF LaterThan
  <2> QED BY <2>5
<1>4. k = IF later = {} THEN Len(s) ELSE Min(later) - 1
  BY DEF InsertRow, LaterThan
<1> HIDE DEF k, Later, s
<1>5. CASE later = {}
  <2>1. \A i \in 1 .. Len(s) : ~Later(i) /\ ~(i > Len(s))
    BY <1>1, <1>5
  <2>2. k = Len(s) /\ Len(s) \in 0 .. Len(s)
    BY <1>1, <1>4, <1>5
  <2> QED BY <2>1, <2>2 DEF k, Later, s
<1>6. CASE later # {}
  <2>1. later \in SUBSET Int /\ IsFiniteSet(later)
    <3>1. IsFiniteSet(1 .. Len(s))
      BY <1>1, FS_Interval
    <3> QED BY <1>1, <3>1, FS_Subset
  <2> HIDE DEF later
  <2>2. Min(later) \in later /\ \A i \in later : Min(later) <= i
    BY <1>6, <2>1, Extremes
  <2>3. Min(later) \in 1 .. Len(s) /\ Later(Min(later)) /\ k + 1 = Min(later) /\ k \in 0 .. Len(s)
    BY <1>1, <1>4, <1>6, <2>2 DEF later
  <2>4. ASSUME NEW i \in 1 .. Len(s), Later(i) PROVE i > k
    <3>1. Min(later) <= i
      BY <1>1, <2>2, <2>4 DEF later
    <3> QED BY <1>1, <2>3, <3>1
  <2>5. ASSUME NEW i \in 1 .. Len(s), i > k PROVE Later(i)
    <3>1. i = Min(later) \/ Min(later) < i
      BY <1>1, <2>3, <2>5
    <3> QED BY <1>3, <2>3, <3>1
  <2> QED BY <2>3, <2>4, <2>5 DEF k, Later, s
<1> QED BY <1>5, <1>6

LEMMA AppendShowsAll ==
  ASSUME NEW t, ShowsAll(t), NEW d \in TreePages, Unknown(t.row, d), NEW r \in TreeRow, r.parent # d
  PROVE  ShowsAll(AppendDocument(t, d, r))
<1> DEFINE p == IF r.parent \in In(t.row) THEN r.parent ELSE Top
           s == t.kids[p]
           k == InsertRow(t, p, r)
           u == InsertAt(s, k + 1, d)
           new == AppendDocument(t, d, r)
           rows == Added(t.row, d, r)
<1>1. /\ t.row \in Rows /\ t.kids \in [Nodes -> Seq(TreePages)]
      /\ \A q \in Nodes : \A e \in ToSet(t.kids[q]) : StandsWell(t.row, q, e)
      /\ \A q, q2 \in Nodes : q # q2 => ToSet(t.kids[q]) \cap ToSet(t.kids[q2]) = {}
      /\ \A q \in Nodes : \A i, j \in DOMAIN t.kids[q] :
           i < j => NotAfter(t.row, t.kids[q][i], t.kids[q][j])
      /\ \A e \in In(t.row) : \E q \in Nodes : e \in ToSet(t.kids[q])
      /\ \A S \in SUBSET Nodes : Hold(t, S) => In(t.row) \subseteq S
  BY DEF ShowsAll
<1>2. /\ p \in Nodes /\ In(t.row) \subseteq TreePages /\ Top \notin In(t.row) /\ Top \in Nodes /\ d # Top
      /\ Nodes \subseteq Nat
  BY <1>1, TreeRowsLemma, TreeAssumption DEF Nodes, Top
<1> HIDE DEF p
<1>3. /\ rows \in Rows /\ In(rows) = In(t.row) \cup {d} /\ rows[d] = r
      /\ \A e \in In(t.row) : rows[e] = t.row[e] /\ d # e
      /\ \A e \in In(t.row) : Stray(t.row, e) => Stray(rows, e)
      /\ r.parent \notin In(t.row) \cup {Top, d} => Stray(rows, d)
  BY <1>1, AddedWalks
<1>4. k \in 0 .. Len(s) /\ \A i \in 1 .. Len(s) : LaterThan(t.row[s[i]], r) <=> i > k
  BY <1>2, InsertRowLemma
<1>5. new.kids = [t.kids EXCEPT ![p] = u] /\ new.row = rows
  BY DEF AppendDocument, p, Added
<1>6. s \in Seq(TreePages) /\ Len(s) \in Nat /\ DOMAIN s = 1 .. Len(s)
  BY <1>1, <1>2, LenProperties
<1> HIDE DEF new, rows, u, k, s, p
<1>7. /\ u \in Seq(TreePages) /\ Len(u) = Len(s) + 1
      /\ \A i \in 1 .. Len(s) + 1 : u[i] = IF i <= k THEN s[i] ELSE IF i = k + 1 THEN d ELSE s[i - 1]
      /\ ToSet(u) = ToSet(s) \cup {d}
  <2> DEFINE m == k + 1
  <2>1. m \in 1 .. Len(s) + 1 /\ \A i \in 1 .. Len(s) + 1 : i < m <=> i <= k
    BY <1>4, <1>6
  <2>2. u = InsertAt(s, m, d)
    BY DEF u
  <2> HIDE DEF m
  <2>3. /\ u \in Seq(TreePages) /\ Len(u) = Len(s) + 1
        /\ \A i \in 1 .. Len(s) + 1 : u[i] = IF i < m THEN s[i] ELSE IF i = m THEN d ELSE s[i - 1]
        /\ ToSet(u) = ToSet(s) \cup {d}
    <3>1. Inserted(TreePages, s, m, d, InsertAt(s, m, d))
      BY <1>6, <2>1, InsertLemma
    <3> QED BY <2>2, <3>1 DEF Inserted
  <2> QED BY <2>1, <2>3 DEF m
<1>8. /\ new.kids \in [Nodes -> Seq(TreePages)]
      /\ new.kids[p] = u /\ t.kids[p] = s
      /\ \A q \in Nodes \ {p} : new.kids[q] = t.kids[q]
  BY <1>1, <1>2, <1>5, <1>7 DEF s
<1>9. \A q \in Nodes : ToSet(new.kids[q]) = IF q = p THEN ToSet(t.kids[p]) \cup {d} ELSE ToSet(t.kids[q])
  BY <1>7, <1>8
<1>10. \A q \in Nodes : ToSet(t.kids[q]) \subseteq In(t.row) /\ d \notin ToSet(t.kids[q])
  BY <1>1 DEF StandsWell, Unknown
<1>11. ASSUME NEW q \in Nodes, NEW e \in ToSet(new.kids[q]) PROVE StandsWell(rows, q, e)
  <2>1. CASE e \in ToSet(t.kids[q])
    <3>1. StandsWell(t.row, q, e)
      BY <1>1, <2>1
    <3> QED BY <1>3, <3>1 DEF StandsWell
  <2>2. CASE e \notin ToSet(t.kids[q])
    <3>1. e = d /\ q = p
      BY <1>9, <2>2
    <3>2. p \in {r.parent, Top} /\ (p # r.parent => p = Top /\ r.parent \notin In(t.row))
      BY DEF p
    <3> QED BY <1>3, <3>1, <3>2 DEF StandsWell
  <2> QED BY <2>1, <2>2
<1>12. ASSUME NEW q \in Nodes, NEW q2 \in Nodes, q # q2
       PROVE  ToSet(new.kids[q]) \cap ToSet(new.kids[q2]) = {}
  <2>1. ToSet(t.kids[q]) \cap ToSet(t.kids[q2]) = {}
    BY <1>1, <1>12
  <2> QED BY <1>9, <1>10, <1>12, <2>1
<1>13. \A i \in 1 .. Len(s) : s[i] \in In(t.row) /\ t.row[s[i]] \in TreeRow /\ s[i] # d
  <2> SUFFICES ASSUME NEW i \in 1 .. Len(s) PROVE s[i] \in In(t.row)
    BY <1>1, <1>3, TreeRowsLemma
  <2>1. s[i] \in ToSet(t.kids[p])
    BY <1>6, <1>8 DEF ToSet
  <2> QED BY <1>2, <1>10, <2>1
<1>14. \A e, f \in In(t.row) : NotAfter(t.row, e, f) => NotAfter(rows, e, f)
  BY <1>3 DEF NotAfter, Twins, Before
<1>15. \A i \in 1 .. Len(s) : IF i <= k THEN NotAfter(rows, s[i], d) ELSE NotAfter(rows, d, s[i])
  <2> SUFFICES ASSUME NEW i \in 1 .. Len(s)
               PROVE  IF i <= k THEN NotAfter(rows, s[i], d) ELSE NotAfter(rows, d, s[i])
    OBVIOUS
  <2>1. /\ rows[s[i]] = t.row[s[i]] /\ rows[d] = r /\ s[i] # d
        /\ t.row[s[i]].order \in Int /\ t.row[s[i]].title \in Int /\ r.order \in Int /\ r.title \in Int
    BY <1>3, <1>13 DEF TreeRow
  <2>2. CASE i <= k
    <3>1. ~LaterThan(t.row[s[i]], r)
      BY <1>4, <1>6, <2>2
    <3> QED BY <2>1, <2>2, <3>1 DEF NotAfter, Twins, Before, LaterThan
  <2>3. CASE ~(i <= k)
    <3>1. LaterThan(t.row[s[i]], r)
      BY <1>4, <1>6, <2>3
    <3> QED BY <2>1, <2>3, <3>1 DEF NotAfter, Twins, Before, LaterThan
  <2> QED BY <2>2, <2>3
<1>16. ASSUME NEW i \in 1 .. Len(s) + 1, NEW j \in 1 .. Len(s) + 1, i < j
       PROVE  NotAfter(rows, u[i], u[j])
  <2>1. \A m \in 1 .. Len(s) : \A n \in 1 .. Len(s) : m < n => NotAfter(rows, s[m], s[n])
    BY <1>1, <1>2, <1>6, <1>8, <1>13, <1>14
  <2>2. /\ u[i] = IF i <= k THEN s[i] ELSE IF i = k + 1 THEN d ELSE s[i - 1]
        /\ u[j] = IF j <= k THEN s[j] ELSE IF j = k + 1 THEN d ELSE s[j - 1]
    BY <1>7
  <2>3. k \in Nat /\ k <= Len(s) /\ Len(s) \in Nat /\ i \in Nat /\ j \in Nat /\ 1 <= i /\ j <= Len(s) + 1
    BY <1>4, <1>6
  <2>4. CASE j <= k
    <3>1. i <= k /\ i \in 1 .. Len(s) /\ j \in 1 .. Len(s)
      BY <1>16, <2>3, <2>4
    <3> QED BY <1>16, <2>1, <2>2, <2>4, <3>1
  <2>5. CASE j = k + 1
    <3>1. i <= k /\ i \in 1 .. Len(s) /\ ~(j <= k)
      BY <1>16, <2>3, <2>5
    <3> QED BY <1>15, <2>2, <2>5, <3>1
  <2>6. CASE j > k + 1
    <3>1. ~(j <= k) /\ j # k + 1 /\ j - 1 \in 1 .. Len(s) /\ ~(j - 1 <= k)
      BY <2>3, <2>6
    <3>2. CASE i <= k
      <4>1. i \in 1 .. Len(s) /\ i < j - 1
        BY <2>3, <2>6, <3>2
      <4> QED BY <2>1, <2>2, <3>1, <3>2, <4>1
    <3>3. CASE i = k + 1
      <4>1. ~(i <= k)
        BY <2>3, <3>3
      <4> QED BY <1>15, <2>2, <3>1, <3>3, <4>1
    <3>4. CASE i > k + 1
      <4>1. ~(i <= k) /\ i # k + 1 /\ i - 1 \in 1 .. Len(s) /\ i - 1 < j - 1
        BY <1>16, <2>3, <3>4
      <4> QED BY <2>1, <2>2, <3>1, <4>1
    <3> QED BY <2>3, <3>2, <3>3, <3>4
  <2> QED BY <2>3, <2>4, <2>5, <2>6
<1>17. ASSUME NEW q \in Nodes, NEW i \in DOMAIN new.kids[q], NEW j \in DOMAIN new.kids[q], i < j
       PROVE  NotAfter(rows, new.kids[q][i], new.kids[q][j])
  <2>1. CASE q = p
    <3>1. DOMAIN u = 1 .. Len(s) + 1
      BY <1>7, LenProperties
    <3> QED BY <1>8, <1>16, <1>17, <2>1, <3>1
  <2>2. CASE q # p
    <3>1. new.kids[q] = t.kids[q]
      BY <1>8, <2>2
    <3>2. NotAfter(t.row, t.kids[q][i], t.kids[q][j])
      BY <1>1, <1>17, <3>1
    <3>3. t.kids[q][i] \in ToSet(t.kids[q]) /\ t.kids[q][j] \in ToSet(t.kids[q])
      BY <3>1 DEF ToSet
    <3>4. t.kids[q][i] \in In(t.row) /\ t.kids[q][j] \in In(t.row)
      BY <1>10, <3>3
    <3> QED BY <1>14, <3>1, <3>2, <3>4
  <2> QED BY <2>1, <2>2
<1>18. ASSUME NEW e \in In(rows) PROVE \E q \in Nodes : e \in ToSet(new.kids[q])
  BY <1>1, <1>2, <1>3, <1>9
<1>19. ASSUME NEW S \in SUBSET Nodes, Hold(new, S) PROVE In(rows) \subseteq S
  <2>1. Top \in S /\ \A q \in S : ToSet(new.kids[q]) \subseteq S
    BY <1>19 DEF Hold
  <2>2. Hold(t, S)
    BY <1>9, <2>1 DEF Hold
  <2>3. In(t.row) \subseteq S
    BY <1>1, <2>2
  <2>4. p \in S
    BY <2>1, <2>3 DEF p
  <2>5. d \in S
    BY <1>2, <1>9, <2>1, <2>4
  <2> QED BY <1>3, <2>3, <2>5
<1>20. ShowsAll(new)
  BY <1>3, <1>5, <1>8, <1>11, <1>12, <1>17, <1>18, <1>19 DEF ShowsAll
<1> QED BY <1>20 DEF new

-----------------------------------------------------------------------------
(* The commands write rows.                                                 *)

LEMMA PositionLemma ==
  ASSUME NEW s, NEW d \in ToSet(s)
  PROVE  Position(s, d) \in DOMAIN s /\ s[Position(s, d)] = d
  BY DEF Position, ToSet

\* new is rows with the pages of T put under p, each at its place in g.
Numbered(rows, g, p, T, new) ==
  /\ new \in Rows /\ In(new) = In(rows)
  /\ \A d \in In(rows) :
       IF d \in T THEN new[d] = [parent |-> p, order |-> Position(g, d) - 1, title |-> rows[d].title]
       ELSE new[d] = rows[d]

LEMMA PlacedLemma ==
  ASSUME NEW rows \in Rows, NEW g \in Seq(In(rows)), NEW p \in Nat, NEW n \in 0 .. Len(g)
  PROVE  Numbered(rows, g, p, {g[i] : i \in 1 .. n}, Placed(rows, g, p, n))
<1> DEFINE new == Placed(rows, g, p, n)
           T == {g[i] : i \in 1 .. n}
           Put(d) == [parent |-> p, order |-> Position(g, d) - 1, title |-> rows[d].title]
<1>1. DOMAIN g = 1 .. Len(g) /\ Len(g) \in Nat
  BY LenProperties
<1>2. T \subseteq In(rows)
  <2> SUFFICES ASSUME NEW i \in 1 .. n PROVE g[i] \in In(rows)
    OBVIOUS
  <2>1. i \in 1 .. Len(g)
    BY <1>1
  <2> QED BY <2>1, ElementOfSeq
<1>3. ASSUME NEW d \in T PROVE Put(d) \in TreeRow
  <2>1. PICK i \in 1 .. n : g[i] = d
    OBVIOUS
  <2>2. i \in DOMAIN g
    BY <1>1
  <2>3. d \in ToSet(g)
    BY <2>1, <2>2 DEF ToSet
  <2>4. Position(g, d) \in 1 .. Len(g)
    BY <1>1, <2>3, PositionLemma
  <2>5. rows[d] \in [parent : Nat, order : Int, title : Int]
    BY <1>2, TreeRowsLemma DEF TreeRow
  <2> QED BY <1>1, <2>4, <2>5 DEF TreeRow
<1>4. In(rows) \subseteq TreePages /\ \A d \in TreePages : rows[d] \in TreeRow \cup {Unlisted}
  BY TreeRowsLemma DEF Rows
<1>5. \A d \in TreePages : new[d] = IF d \in T THEN Put(d) ELSE rows[d]
  BY <1>3 DEF Placed
<1>6. new = [d \in TreePages |-> new[d]]
  BY DEF Placed
<1> HIDE DEF new, Put, T
<1>7. new \in Rows
  BY <1>3, <1>4, <1>5, <1>6 DEF Rows
<1>8. In(new) = In(rows)
  <2>1. Unlisted \notin TreeRow
    BY TreeAssumption
  <2>2. \A d \in T : Put(d) # Unlisted
    BY <1>3, <2>1
  <2> QED BY <1>2, <1>5, <2>2 DEF In
<1>9. \A d \in In(rows) : IF d \in T THEN new[d] = Put(d) ELSE new[d] = rows[d]
  BY <1>4, <1>5
<1>10. Numbered(rows, g, p, T, new)
  BY <1>7, <1>8, <1>9 DEF Numbered, Put
<1> QED BY <1>10 DEF new, T

LEMMA PlacedWhole ==
  ASSUME NEW rows \in Rows, NEW g \in Seq(In(rows)), NEW p \in Nat
  PROVE  Numbered(rows, g, p, ToSet(g), Placed(rows, g, p, Len(g)))
<1>1. Len(g) \in 0 .. Len(g) /\ ToSet(g) = {g[i] : i \in 1 .. Len(g)}
  BY LenProperties DEF ToSet
<1>2. Numbered(rows, g, p, {g[i] : i \in 1 .. Len(g)}, Placed(rows, g, p, Len(g)))
  BY <1>1, PlacedLemma
<1> QED BY <1>1, <1>2

\* What every step keeps.
TreeSafe == listed \in Rows /\ seen \in Rows /\ treeErrors \in Nat /\ ShowsAll(shown)

LEMMA PopulateSafe ==
  ASSUME TreeSafe, NEW rows \in Rows, Populate(rows)
  PROVE  TreeSafe'
<1>1. NothingListed \in Rows
  BY DEF NothingListed, Rows
<1>2. ASSUME NEW r \in Rows, Show(r) PROVE seen' \in Rows /\ ShowsAll(shown')
  BY <1>2, BuildShowsAll DEF Show
<1>3. treeErrors' \in Nat
  BY DEF Populate, Fails, TreeSafe
<1>4. listed' \in Rows
  BY DEF Populate
<1>5. Show(rows) \/ Show(NothingListed)
  BY DEF Populate
<1> QED BY <1>1, <1>2, <1>3, <1>4, <1>5 DEF TreeSafe, ShowsAll

LEMMA RenumberSafe ==
  ASSUME TreeSafe, NEW first \in Seq(In(listed)), NEW second \in Seq(In(listed)),
         NEW p \in Nat, NEW q \in Nat, Renumber(first, p, second, q)
  PROVE  TreeSafe'
<1>1. listed \in Rows /\ Len(first) \in Nat /\ Len(second) \in Nat
  BY LenProperties DEF TreeSafe
<1>2. ASSUME NEW m \in 0 .. Len(first), NEW n \in 0 .. Len(second)
      PROVE  Placed(Placed(listed, first, p, m), second, q, n) \in Rows
  <2> DEFINE rows == Placed(listed, first, p, m)
  <2>1. rows \in Rows /\ In(rows) = In(listed)
    BY <1>1, PlacedLemma DEF Numbered
  <2>2. second \in Seq(In(rows))
    BY <2>1
  <2> HIDE DEF rows
  <2>3. Placed(rows, second, q, n) \in Rows
    BY <2>1, <2>2, PlacedLemma DEF Numbered
  <2> QED BY <2>3 DEF rows
<1>3. CASE Populate(Placed(Placed(listed, first, p, Len(first)), second, q, Len(second)))
  <2>1. Len(first) \in 0 .. Len(first) /\ Len(second) \in 0 .. Len(second)
    BY <1>1
  <2> QED BY <1>2, <1>3, <2>1, PopulateSafe
<1>4. CASE /\ Fails /\ UNCHANGED <<seen, shown>>
           /\ \E n \in 0 .. (Len(first) + Len(second) - 1) :
                listed' = Placed(Placed(listed, first, p, IF n < Len(first) THEN n ELSE Len(first)),
                                 second, q, IF n < Len(first) THEN 0 ELSE n - Len(first))
  <2>1. PICK n \in 0 .. (Len(first) + Len(second) - 1) :
                listed' = Placed(Placed(listed, first, p, IF n < Len(first) THEN n ELSE Len(first)),
                                 second, q, IF n < Len(first) THEN 0 ELSE n - Len(first))
    BY <1>4
  <2>2. /\ (IF n < Len(first) THEN n ELSE Len(first)) \in 0 .. Len(first)
        /\ (IF n < Len(first) THEN 0 ELSE n - Len(first)) \in 0 .. Len(second)
    BY <1>1
  <2>3. listed' \in Rows
    BY <1>2, <2>1, <2>2
  <2>4. treeErrors' \in Nat /\ seen' = seen /\ shown' = shown
    BY <1>4 DEF Fails, TreeSafe
  <2> QED BY <2>3, <2>4 DEF TreeSafe, ShowsAll
<1> QED BY <1>3, <1>4 DEF Renumber

LEMMA SiblingsLemma ==
  ASSUME NEW d \in In(listed), listed \in Rows
  PROVE  /\ InOrder(listed, Siblings(d), ChildrenOf(listed, listed[d].parent))
         /\ d \in ChildrenOf(listed, listed[d].parent) /\ d \in ToSet(Siblings(d))
         /\ Siblings(d) \in Seq(In(listed)) /\ Position(Siblings(d), d) \in DOMAIN Siblings(d)
         /\ Siblings(d)[Position(Siblings(d), d)] = d
         /\ listed[d].parent \in Nat
<1>1. ChildrenOf(listed, listed[d].parent) \in SUBSET In(listed) /\ d \in ChildrenOf(listed, listed[d].parent)
  BY DEF ChildrenOf
<1>2. InOrder(listed, Siblings(d), ChildrenOf(listed, listed[d].parent))
  BY <1>1, RankedLemma DEF Siblings
<1>3. d \in ToSet(Siblings(d)) /\ Siblings(d) \in Seq(ChildrenOf(listed, listed[d].parent))
  BY <1>1, <1>2 DEF InOrder
<1>4. Siblings(d) \in Seq(In(listed))
  BY <1>1, <1>3, SeqMonotonic
<1> QED BY <1>1, <1>2, <1>3, <1>4, PositionLemma, TreeRowsLemma

LEMMA MoveSafe ==
  ASSUME TreeSafe, NEW d \in TreePages, NEW delta \in {-1, 1}, MoveDocument(d, delta)
  PROVE  TreeSafe'
<1> DEFINE s == Siblings(d)
           i == Position(s, d)
           g == [s EXCEPT ![i] = s[i + delta], ![i + delta] = d]
<1>1. d \in In(listed) /\ i + delta \in DOMAIN s /\ Renumber(<<>>, Top, g, listed[d].parent)
  BY DEF MoveDocument
<1>2. s \in Seq(In(listed)) /\ i \in DOMAIN s /\ listed[d].parent \in Nat
  BY <1>1, SiblingsLemma DEF TreeSafe
<1> HIDE DEF i, s
<1>3. g \in Seq(In(listed))
  <2>1. s \in [1 .. Len(s) -> In(listed)] /\ DOMAIN s = 1 .. Len(s) /\ Len(s) \in Nat
    BY <1>2, LenProperties
  <2>2. s[i + delta] \in In(listed)
    BY <1>1, <2>1
  <2>3. g \in [1 .. Len(s) -> In(listed)]
    BY <1>1, <2>1, <2>2
  <2> HIDE DEF g
  <2> QED BY <2>1, <2>3, SeqDef
<1> HIDE DEF g
<1>4. <<>> \in Seq(In(listed)) /\ Top \in Nat
  BY EmptySeq DEF Top
<1> QED BY <1>1, <1>2, <1>3, <1>4, RenumberSafe

LEMMA BuildGroupLemma ==
  ASSUME listed \in Rows, NEW p, NEW d
  PROVE  /\ InOrder(listed, BuildGroup(p, d), ChildrenOf(listed, p) \ {d})
         /\ BuildGroup(p, d) \in Seq(In(listed))
         /\ Len(BuildGroup(p, d)) = Cardinality(ChildrenOf(listed, p) \ {d})
         /\ Len(BuildGroup(p, d)) \in Nat
<1>1. ChildrenOf(listed, p) \ {d} \in SUBSET In(listed)
  BY TreeRowsLemma
<1>2. /\ InOrder(listed, BuildGroup(p, d), ChildrenOf(listed, p) \ {d})
      /\ Len(BuildGroup(p, d)) = Cardinality(ChildrenOf(listed, p) \ {d})
  BY <1>1, RankedLemma DEF BuildGroup
<1>3. BuildGroup(p, d) \in Seq(ChildrenOf(listed, p) \ {d})
  BY <1>2 DEF InOrder
<1>4. BuildGroup(p, d) \in Seq(In(listed))
  BY <1>1, <1>3, SeqMonotonic
<1> QED BY <1>2, <1>4, LenProperties

\* Where a page that is dropped is put among the group.
Landing(d, p, row) ==
  LET target == IF row < 0 THEN Len(shown.kids[p]) ELSE row
      group == BuildGroup(p, d)
  IN IF target > Len(group) THEN Len(group) ELSE target

LEMMA DropLemma ==
  ASSUME TreeSafe, NEW d \in TreePages, NEW p \in Nodes, NEW row \in Int, row >= -1, Drop(d, p, row)
  PROVE  LET new == InsertAt(BuildGroup(p, d), Landing(d, p, row) + 1, d)
             old == listed[d].parent
         IN  /\ Landing(d, p, row) \in 0 .. Len(BuildGroup(p, d)) /\ d \in In(listed)
             /\ Inserted(In(listed), BuildGroup(p, d), Landing(d, p, row) + 1, d, new)
             /\ IF p = old THEN Renumber(<<>>, Top, new, p) ELSE Renumber(BuildGroup(old, d), old, new, p)
<1> DEFINE at == Landing(d, p, row)
           g == BuildGroup(p, d)
           new == InsertAt(g, at + 1, d)
<1>1. d \in In(listed)
  BY DEF Drop
<1>2. g \in Seq(In(listed)) /\ Len(g) \in Nat
  BY BuildGroupLemma DEF TreeSafe
<1>3. Len(shown.kids[p]) \in Nat
  <2>1. shown.kids[p] \in Seq(TreePages)
    BY DEF TreeSafe, ShowsAll
  <2> QED BY <2>1, LenProperties
<1>4. at \in 0 .. Len(g)
  BY <1>2, <1>3 DEF Landing
<1>5. Inserted(In(listed), g, at + 1, d, new)
  <2> DEFINE m == at + 1
  <2>1. m \in 1 .. Len(g) + 1
    BY <1>2, <1>4
  <2> HIDE DEF m, g
  <2>2. Inserted(In(listed), g, m, d, InsertAt(g, m, d))
    BY <1>1, <1>2, <2>1, InsertLemma
  <2> QED BY <2>2 DEF m
<1>6. IF p = listed[d].parent THEN Renumber(<<>>, Top, new, p)
      ELSE Renumber(BuildGroup(listed[d].parent, d), listed[d].parent, new, p)
  BY DEF Drop, Landing
<1> QED BY <1>1, <1>4, <1>5, <1>6

LEMMA DropSafe ==
  ASSUME TreeSafe, NEW d \in TreePages, NEW p \in Nodes, NEW row \in Int, row >= -1, Drop(d, p, row)
  PROVE  TreeSafe'
<1> DEFINE new == InsertAt(BuildGroup(p, d), Landing(d, p, row) + 1, d)
           old == listed[d].parent
<1>1. /\ d \in In(listed) /\ new \in Seq(In(listed))
      /\ IF p = old THEN Renumber(<<>>, Top, new, p) ELSE Renumber(BuildGroup(old, d), old, new, p)
  BY DropLemma DEF Inserted
<1>2. p \in Nat /\ old \in Nat /\ Top \in Nat /\ <<>> \in Seq(In(listed))
  BY <1>1, TreeRowsLemma, EmptySeq DEF TreeSafe, Top
<1>3. BuildGroup(old, d) \in Seq(In(listed))
  BY BuildGroupLemma DEF TreeSafe
<1> HIDE DEF new, old
<1> QED BY <1>1, <1>2, <1>3, RenumberSafe

LEMMA CreateSafe ==
  ASSUME TreeSafe, NEW d \in TreePages, NEW p \in Nodes, Create(d, p)
  PROVE  TreeSafe'
<1>1. PICK o \in IF p = Top THEN {0} ELSE NextChildSortOrder(p) :
        HandleCreatedDocument(d, [parent |-> p, order |-> o, title |-> NewTitle])
  BY DEF Create
<1> DEFINE r == [parent |-> p, order |-> o, title |-> NewTitle]
<1>2. o \in Int
  BY DEF NextChildSortOrder
<1>3. p \in Nat /\ p # d
  <2>1. p \in Nat /\ Top \notin TreePages
    BY TreeRowsLemma, TreeAssumption DEF TreeSafe, Top, Nodes
  <2>2. p # Top => p \in In(listed)
    BY DEF Create
  <2>3. d \notin In(listed)
    BY DEF Create
  <2> QED BY <2>1, <2>2, <2>3
<1>4. r \in TreeRow /\ r.parent = p
  BY <1>2, <1>3, TreeAssumption DEF TreeRow
<1>5. Unknown(shown.row, d)
  <2>1. d \notin UNION {In(x) \cup {x[e].parent : e \in In(x)} : x \in {listed, seen, shown.row}}
    BY DEF Create
  <2> QED BY <2>1 DEF Unknown
<1>6. listed' = Added(listed, d, r) /\ shown' = AppendDocument(shown, d, r)
      /\ seen' = seen /\ treeErrors' = treeErrors
  BY <1>1 DEF HandleCreatedDocument, Added
<1> HIDE DEF r
<1>7. listed' \in Rows
  BY <1>4, <1>6 DEF TreeSafe, Added, Rows
<1>8. ShowsAll(shown')
  BY <1>3, <1>4, <1>5, <1>6, AppendShowsAll DEF TreeSafe
<1> QED BY <1>6, <1>7, <1>8 DEF TreeSafe, ShowsAll

LEMMA TreeStepSafe ==
  ASSUME TreeSafe, TreeNext
  PROVE  TreeSafe'
<1>1. ASSUME NEW d \in TreePages \cup {Top}, OpenMenu(d) PROVE TreeSafe'
  BY <1>1 DEF OpenMenu, TreeSafe, ShowsAll
<1>2. CASE Refresh
  <2>1. PICK rows \in {listed, NothingListed} :
          Show(rows) /\ IF rows = listed THEN UNCHANGED treeErrors ELSE Fails
    BY <1>2 DEF Refresh
  <2>2. NothingListed \in Rows
    BY DEF NothingListed, Rows
  <2>3. rows \in Rows /\ listed' = listed /\ treeErrors' \in Nat
    BY <1>2, <2>1, <2>2 DEF Refresh, TreeSafe, Fails
  <2>4. seen' \in Rows /\ ShowsAll(shown')
    BY <2>1, <2>3, BuildShowsAll DEF Show
  <2> QED BY <2>3, <2>4 DEF TreeSafe, ShowsAll
<1>3. ASSUME NEW d \in TreePages, NEW p \in Nodes, Create(d, p) PROVE TreeSafe'
  BY <1>3, CreateSafe
<1>4. ASSUME NEW d \in TreePages, NEW title \in TreeTitles, Rename(d, title) \/ DocumentSaved(d, title)
      PROVE  TreeSafe'
  <2>1. d \in In(listed) /\ Populate(Retitled(d, title))
    BY <1>4 DEF Rename, DocumentSaved
  <2>2. listed[d] \in TreeRow /\ title \in Int /\ listed \in Rows
    BY <2>1, TreeRowsLemma, TreeAssumption DEF TreeSafe
  <2>3. [listed[d] EXCEPT !.title = title] \in TreeRow
    BY <2>2 DEF TreeRow
  <2>4. Retitled(d, title) \in Rows
    BY <2>2, <2>3 DEF Retitled, Rows
  <2> QED BY <2>1, <2>4, PopulateSafe
<1>5. ASSUME NEW d \in TreePages, NEW delta \in {-1, 1}, MoveDocument(d, delta) PROVE TreeSafe'
  BY <1>5, MoveSafe
<1>6. ASSUME NEW d \in TreePages, NEW p \in Nodes, NEW row \in -1 .. Cardinality(TreePages), Drop(d, p, row)
      PROVE  TreeSafe'
  <2>1. row \in Int /\ row >= -1
    OBVIOUS
  <2> QED BY <1>6, <2>1, DropSafe
<1>7. ASSUME NEW d \in TreePages, Pulled(d, Unlisted) \/ \E r \in OldRows[d] : Pulled(d, r)
      PROVE  TreeSafe'
  <2>1. PICK r \in TreeRow \cup {Unlisted} : Pulled(d, r)
    BY <1>7, TreeAssumption
  <2>2. listed' \in Rows /\ seen' = seen /\ shown' = shown /\ treeErrors' = treeErrors
    BY <2>1 DEF Pulled, TreeSafe, Rows
  <2> QED BY <2>2 DEF TreeSafe, ShowsAll
<1> QED BY <1>1, <1>2, <1>3, <1>4, <1>5, <1>6, <1>7 DEF TreeNext

LEMMA TreeBegins ==
  ASSUME TreeInit
  PROVE  TreeSafe
<1>1. listed \in Rows /\ seen = listed /\ shown = Build(listed) /\ treeErrors \in Nat
  BY TreeAssumption DEF TreeInit, Rows
<1> QED BY <1>1, BuildShowsAll DEF TreeSafe

LEMMA TreeStaysSafe == TreeSpec => []TreeSafe
<1>1. TreeInit => TreeSafe
  BY TreeBegins
<1>2. TreeSafe /\ [TreeNext]_treeVars => TreeSafe'
  <2>1. ASSUME TreeSafe, UNCHANGED treeVars PROVE TreeSafe'
    BY <2>1 DEF treeVars, TreeSafe, ShowsAll
  <2> QED BY <2>1, TreeStepSafe
<1> QED BY <1>1, <1>2, PTL DEF TreeSpec

\* Every page the tree knows is shown once, in the order of its siblings and under
\* its parent, at the top only if it hangs in the air, whether the tree has been built
\* from a listing, with whatever cycles and missing parents, or has been added to.
THEOREM TreeEveryPageIsShown == TreeSpec => []EveryPageIsShown
<1>1. TreeSafe => EveryPageIsShown
  BY ShownIsShown DEF TreeSafe
<1> QED BY <1>1, TreeStaysSafe, PTL

-----------------------------------------------------------------------------
(* Types.  The rest of the state: the tree is a record, and the menu and the  *)
(* counters are in their bounds.                                              *)

Menus == [page : Nodes, current : BOOLEAN, up : BOOLEAN, down : BOOLEAN]
IsTree(t) == t = [kids |-> t.kids, row |-> t.row]

MenuInv ==
  /\ IsTree(shown) /\ menu \in Menus \cup {NoMenu}
  /\ treeSteps \in 0 .. MaxTreeSteps /\ treeErrors \in 0 .. MaxTreeErrors

LEMMA BuildIsTree ==
  ASSUME NEW rows
  PROVE  IsTree(Build(rows))
  BY DEF Build, IsTree

LEMMA AppendIsTree ==
  ASSUME NEW t, NEW d, NEW r
  PROVE  IsTree(AppendDocument(t, d, r))
  BY DEF AppendDocument, IsTree

LEMMA CountersStep ==
  ASSUME treeSteps \in 0 .. MaxTreeSteps, treeErrors \in 0 .. MaxTreeErrors
  PROVE  /\ TakesStep => treeSteps' \in 0 .. MaxTreeSteps
         /\ Fails => treeErrors' \in 0 .. MaxTreeErrors
  BY TreeAssumption DEF TakesStep, Fails

LEMMA ResetMenu ==
  ASSUME menu \in Menus \cup {NoMenu}, Reset
  PROVE  menu' \in Menus \cup {NoMenu}
  BY DEF Reset, Menus

LEMMA ShowsTree ==
  ASSUME MenuInv, NEW rows, Populate(rows) \/ Show(rows)
  PROVE  /\ IsTree(shown')
         /\ Populate(rows) => treeErrors' \in 0 .. MaxTreeErrors
<1>1. Populate(rows) => treeErrors' \in 0 .. MaxTreeErrors
  BY CountersStep DEF Populate, MenuInv
<1>2. \E r : shown' = Build(r)
  BY DEF Populate, Show
<1> QED BY <1>1, <1>2, BuildIsTree

LEMMA RenumberTree ==
  ASSUME MenuInv, NEW first, NEW p, NEW second, NEW q, Renumber(first, p, second, q)
  PROVE  IsTree(shown') /\ treeErrors' \in 0 .. MaxTreeErrors
<1>1. CASE \E rows : Populate(rows)
  BY <1>1, ShowsTree
<1>2. CASE Fails /\ shown' = shown
  BY <1>2, CountersStep DEF MenuInv
<1> QED BY <1>1, <1>2 DEF Renumber

LEMMA MenuStep ==
  ASSUME MenuInv, TreeNext
  PROVE  MenuInv'
<1> USE DEF MenuInv
<1>1. ASSUME NEW d \in TreePages \cup {Top}, OpenMenu(d) PROVE MenuInv'
  <2> DEFINE up == d \in In(listed) /\ Position(Siblings(d), d) > 1
             down == d \in In(listed) /\ Position(Siblings(d), d) < Len(Siblings(d))
  <2>1. up \in BOOLEAN /\ down \in BOOLEAN
    OBVIOUS
  <2>2. menu' = [page |-> d, current |-> TRUE, up |-> up, down |-> down]
    BY <1>1 DEF OpenMenu
  <2> HIDE DEF up, down
  <2>3. menu' \in Menus
    BY <2>1, <2>2 DEF Menus, Nodes
  <2> QED BY <1>1, <2>3 DEF OpenMenu, IsTree
<1>2. CASE Refresh
  <2>1. PICK rows : Show(rows) /\ Reset /\ (treeErrors' = treeErrors \/ Fails)
    BY <1>2 DEF Refresh
  <2> QED BY <1>2, <2>1, ShowsTree, ResetMenu, CountersStep DEF Refresh
<1>3. ASSUME NEW d \in TreePages, NEW p \in Nodes, Create(d, p) PROVE MenuInv'
  <2>1. \E r : shown' = AppendDocument(shown, d, r) /\ treeErrors' = treeErrors
    BY <1>3 DEF Create, HandleCreatedDocument
  <2> QED BY <1>3, <2>1, AppendIsTree, CountersStep DEF Create, Chosen
<1>4. ASSUME NEW d \in TreePages, NEW title \in TreeTitles, Rename(d, title) PROVE MenuInv'
  BY <1>4, ShowsTree, CountersStep DEF Rename, Chosen
<1>5. ASSUME NEW d \in TreePages, NEW title \in TreeTitles, DocumentSaved(d, title) PROVE MenuInv'
  BY <1>5, ShowsTree, ResetMenu, CountersStep DEF DocumentSaved
<1>6. ASSUME NEW d \in TreePages, NEW delta \in {-1, 1}, MoveDocument(d, delta) PROVE MenuInv'
  BY <1>6, RenumberTree, CountersStep DEF MoveDocument, Chosen
<1>7. ASSUME NEW d \in TreePages, NEW p \in Nodes, NEW row \in -1 .. Cardinality(TreePages), Drop(d, p, row)
      PROVE  MenuInv'
  <2>1. \E f, o, g, q : Renumber(f, o, g, q)
    BY <1>7 DEF Drop
  <2> QED BY <1>7, <2>1, RenumberTree, CountersStep DEF Drop
<1>8. ASSUME NEW d \in TreePages, NEW r, Pulled(d, r) PROVE MenuInv'
  BY <1>8, CountersStep DEF Pulled, IsTree
<1> QED BY <1>1, <1>2, <1>3, <1>4, <1>5, <1>6, <1>7, <1>8 DEF TreeNext

\* The listings, the tree, the menu and the counters keep their types
\* (DocumentTreeModel, page.cc).
THEOREM TreeTypeCorrect == TreeSpec => []TreeTypeOK
<1>1. TreeInit => MenuInv
  <2> SUFFICES ASSUME TreeInit PROVE MenuInv
    OBVIOUS
  <2>1. IsTree(shown)
    BY BuildIsTree DEF TreeInit
  <2> QED BY <2>1, TreeAssumption DEF TreeInit, MenuInv
<1>2. MenuInv /\ [TreeNext]_treeVars => MenuInv'
  <2>1. ASSUME MenuInv, UNCHANGED treeVars PROVE MenuInv'
    BY <2>1 DEF treeVars, MenuInv, IsTree
  <2> QED BY <2>1, MenuStep
<1>3. TreeSafe /\ MenuInv => TreeTypeOK
  <2> SUFFICES ASSUME TreeSafe, MenuInv PROVE TreeTypeOK
    OBVIOUS
  <2>1. shown = [kids |-> shown.kids, row |-> shown.row]
    BY DEF MenuInv, IsTree
  <2>2. shown.kids \in [Nodes -> Seq(TreePages)] /\ shown.row \in Rows
    BY DEF TreeSafe, ShowsAll
  <2>3. shown \in [kids : [Nodes -> Seq(TreePages)], row : Rows]
    BY <2>1, <2>2
  <2> QED BY <2>3 DEF TreeTypeOK, TreeSafe, MenuInv, Menus, Rows
<1> QED BY <1>1, <1>2, <1>3, TreeStaysSafe, PTL DEF TreeSpec

-----------------------------------------------------------------------------
(* Only what is moved moves.                                                *)

\* A group as the commands write it: no page twice, those other than d in their order.
Arranged(rows, g, d) ==
  /\ g \in Seq(In(rows))
  /\ \A i, j \in DOMAIN g : i < j => g[i] # g[j]
  /\ \A e, f \in ToSet(g) \ {d} : Position(g, e) < Position(g, f) <=> Before(rows, e, f)

LEMMA ArrangedPlaces ==
  ASSUME NEW rows, NEW d, NEW g, Arranged(rows, g, d)
  PROVE  /\ DOMAIN g = 1 .. Len(g) /\ Len(g) \in Nat
         /\ \A i \in 1 .. Len(g) : g[i] \in ToSet(g) /\ Position(g, g[i]) = i
         /\ \A e \in ToSet(g) : Position(g, e) \in 1 .. Len(g) /\ g[Position(g, e)] = e
<1>1. DOMAIN g = 1 .. Len(g) /\ Len(g) \in Nat
  BY LenProperties DEF Arranged
<1>2. \A e \in ToSet(g) : Position(g, e) \in 1 .. Len(g) /\ g[Position(g, e)] = e
  BY <1>1, PositionLemma
<1>3. ASSUME NEW i \in 1 .. Len(g) PROVE g[i] \in ToSet(g) /\ Position(g, g[i]) = i
  <2>1. g[i] \in ToSet(g)
    BY <1>1 DEF ToSet
  <2> DEFINE j == Position(g, g[i])
  <2>2. j \in 1 .. Len(g) /\ g[j] = g[i]
    BY <1>2, <2>1
  <2> HIDE DEF j
  <2>3. ~(i < j) /\ ~(j < i)
    BY <1>1, <2>2 DEF Arranged
  <2>4. i = j
    BY <1>1, <2>2, <2>3
  <2> QED BY <2>1, <2>4 DEF j
<1> QED BY <1>1, <1>2, <1>3

LEMMA OrderIsArranged ==
  ASSUME NEW rows \in Rows, NEW S \in SUBSET In(rows), NEW g, InOrder(rows, g, S), NEW d
  PROVE  Arranged(rows, g, d)
<1>1. g \in Seq(In(rows)) /\ \A i, j \in DOMAIN g : i < j => g[i] # g[j]
  <2>1. g \in Seq(S)
    BY DEF InOrder
  <2> QED BY <2>1, SeqMonotonic DEF InOrder
<1>2. \A i, j \in DOMAIN g : i < j => Before(rows, g[i], g[j])
  BY DEF InOrder
<1>3. DOMAIN g = 1 .. Len(g) /\ Len(g) \in Nat
  BY <1>1, LenProperties
<1>4. ASSUME NEW e \in ToSet(g), NEW f \in ToSet(g)
      PROVE  Position(g, e) < Position(g, f) <=> Before(rows, e, f)
  <2> DEFINE i == Position(g, e)
             j == Position(g, f)
  <2>1. i \in 1 .. Len(g) /\ j \in 1 .. Len(g) /\ g[i] = e /\ g[j] = f
    BY <1>3, PositionLemma
  <2>2. e \in In(rows) /\ f \in In(rows)
    BY DEF InOrder
  <2> HIDE DEF i, j
  <2>3. i < j => Before(rows, e, f)
    BY <1>2, <1>3, <2>1
  <2>4. j < i => Before(rows, f, e)
    BY <1>2, <1>3, <2>1
  <2>5. i = j => e = f
    BY <2>1
  <2>6. Before(rows, e, f) => e # f /\ ~Before(rows, f, e)
    BY <2>2, BeforeLemma
  <2>7. i < j \/ i = j \/ j < i
    BY <1>3, <2>1
  <2>8. i < j <=> Before(rows, e, f)
    BY <2>3, <2>4, <2>5, <2>6, <2>7
  <2> QED BY <2>8 DEF i, j
<1> QED BY <1>1, <1>4 DEF Arranged

\* A page put among a group leaves it arranged.
LEMMA InsertedIsArranged ==
  ASSUME NEW rows \in Rows, NEW d \in In(rows), NEW S \in SUBSET In(rows), d \notin S,
         NEW g, InOrder(rows, g, S), NEW m \in 1 .. Len(g) + 1, NEW u, Inserted(In(rows), g, m, d, u)
  PROVE  /\ Arranged(rows, u, d) /\ ToSet(u) = S \cup {d}
         /\ Position(u, d) = m /\ Len(u) = Len(g) + 1
<1>1. Arranged(rows, g, d) /\ S = ToSet(g)
  BY OrderIsArranged DEF InOrder
<1>2. /\ DOMAIN g = 1 .. Len(g) /\ Len(g) \in Nat
      /\ \A i \in 1 .. Len(g) : g[i] \in S /\ Position(g, g[i]) = i
      /\ \A e \in S : Position(g, e) \in 1 .. Len(g) /\ g[Position(g, e)] = e
  BY <1>1, ArrangedPlaces
<1>3. /\ u \in Seq(In(rows)) /\ Len(u) = Len(g) + 1 /\ DOMAIN u = 1 .. Len(g) + 1
      /\ \A i \in 1 .. Len(g) + 1 : u[i] = IF i < m THEN g[i] ELSE IF i = m THEN d ELSE g[i - 1]
      /\ ToSet(u) = S \cup {d}
  BY <1>1, LenProperties DEF Inserted
<1>4. \A i \in 1 .. Len(g) + 1 : /\ i < m => i \in 1 .. Len(g)
                                 /\ ~(i < m) /\ i # m => i - 1 \in 1 .. Len(g)
  BY <1>2
<1> DEFINE at(e) == IF Position(g, e) < m THEN Position(g, e) ELSE Position(g, e) + 1
<1>5. ASSUME NEW i \in 1 .. Len(g) + 1
      PROVE  IF i = m THEN u[i] = d ELSE u[i] \in S /\ at(u[i]) = i
  <2>1. CASE i < m
    <3>1. u[i] = g[i] /\ i # m /\ i \in 1 .. Len(g)
      BY <1>2, <1>3, <1>4, <2>1
    <3> QED BY <1>2, <2>1, <3>1
  <2>2. CASE ~(i < m) /\ i # m
    <3>1. u[i] = g[i - 1] /\ i - 1 \in 1 .. Len(g)
      BY <1>3, <1>4, <2>2
    <3>2. Position(g, u[i]) = i - 1 /\ u[i] \in S
      BY <1>2, <3>1
    <3>3. ~(i - 1 < m) /\ i - 1 + 1 = i
      BY <1>2, <2>2
    <3> QED BY <2>2, <3>2, <3>3
  <2>3. CASE i = m
    <3>1. ~(i < m)
      BY <2>3
    <3> QED BY <1>3, <2>3, <3>1
  <2> QED BY <2>1, <2>2, <2>3
<1>6. ASSUME NEW i \in DOMAIN u, NEW j \in DOMAIN u, i < j PROVE u[i] # u[j]
  <2> SUFFICES ASSUME u[i] = u[j] PROVE FALSE
    OBVIOUS
  <2>1. i \in 1 .. Len(g) + 1 /\ j \in 1 .. Len(g) + 1 /\ i # j
    BY <1>2, <1>3, <1>6
  <2> HIDE DEF at
  <2>2. IF i = m THEN u[i] = d ELSE u[i] \in S /\ at(u[i]) = i
    BY <1>5, <2>1
  <2>3. IF j = m THEN u[j] = d ELSE u[j] \in S /\ at(u[j]) = j
    BY <1>5, <2>1
  <2> QED BY <2>1, <2>2, <2>3
<1>7. ASSUME NEW e \in S PROVE Position(u, e) = at(e)
  <2>1. e \in ToSet(u)
    BY <1>3
  <2>2. Position(u, e) \in 1 .. Len(g) + 1 /\ u[Position(u, e)] = e
    BY <1>3, <2>1, PositionLemma
  <2> HIDE DEF at
  <2> QED BY <1>5, <2>2
<1>8. Position(u, d) = m
  <2>1. d \in ToSet(u)
    BY <1>3
  <2>2. Position(u, d) \in 1 .. Len(g) + 1 /\ u[Position(u, d)] = d
    BY <1>3, <2>1, PositionLemma
  <2> QED BY <1>5, <2>2
<1>9. ASSUME NEW e \in ToSet(u) \ {d}, NEW f \in ToSet(u) \ {d}
      PROVE  Position(u, e) < Position(u, f) <=> Before(rows, e, f)
  <2>1. e \in S /\ f \in S /\ e \in ToSet(g) \ {d} /\ f \in ToSet(g) \ {d}
    BY <1>1, <1>3
  <2>2. Position(g, e) < Position(g, f) <=> Before(rows, e, f)
    BY <1>1, <2>1 DEF Arranged
  <2>3. Position(u, e) = at(e) /\ Position(u, f) = at(f)
    BY <1>7, <2>1
  <2>4. Position(g, e) \in Int /\ Position(g, f) \in Int /\ m \in Int
    BY <1>2, <2>1
  <2>5. at(e) < at(f) <=> Position(g, e) < Position(g, f)
    BY <2>4
  <2> HIDE DEF at
  <2> QED BY <2>2, <2>3, <2>5
<1> QED BY <1>3, <1>6, <1>8, <1>9 DEF Arranged

\* And so does a page that changes places with its neighbour.
Swapped(s, i, k, d, g) == g = [s EXCEPT ![i] = s[k], ![k] = d]

LEMMA SwappedIsArranged ==
  ASSUME NEW rows \in Rows, NEW S \in SUBSET In(rows), NEW s, InOrder(rows, s, S),
         NEW d \in S, NEW i, i = Position(s, d), NEW k \in DOMAIN s, k = i + 1 \/ k = i - 1,
         NEW g, Swapped(s, i, k, d, g)
  PROVE  Arranged(rows, g, d) /\ ToSet(g) = S /\ Position(g, d) = k
<1> DEFINE to(j) == IF j = i THEN k ELSE IF j = k THEN i ELSE j
<1>1. Arranged(rows, s, d) /\ S = ToSet(s)
  BY OrderIsArranged DEF InOrder
<1>2. /\ DOMAIN s = 1 .. Len(s) /\ Len(s) \in Nat /\ s \in [1 .. Len(s) -> S]
      /\ \A j \in 1 .. Len(s) : s[j] \in S /\ Position(s, s[j]) = j
      /\ \A e \in S : Position(s, e) \in 1 .. Len(s) /\ s[Position(s, e)] = e
  <2>1. s \in [1 .. Len(s) -> S]
    BY LenProperties DEF InOrder
  <2> QED BY <1>1, <2>1, ArrangedPlaces
<1>3. i \in 1 .. Len(s) /\ s[i] = d /\ k \in 1 .. Len(s) /\ k # i
  BY <1>2
<1>4. g \in [1 .. Len(s) -> S] /\ \A j \in 1 .. Len(s) : g[j] = s[to(j)] /\ to(j) \in 1 .. Len(s) /\ to(to(j)) = j
  BY <1>2, <1>3 DEF Swapped
<1>5. g \in Seq(In(rows)) /\ DOMAIN g = 1 .. Len(s)
  <2>1. g \in [1 .. Len(s) -> In(rows)]
    BY <1>4
  <2>2. g \in Seq(In(rows))
    BY <1>2, <2>1, SeqDef
  <2> QED BY <1>4, <2>2
<1>6. ASSUME NEW a \in DOMAIN g, NEW b \in DOMAIN g, a < b PROVE g[a] # g[b]
  <2> SUFFICES ASSUME g[a] = g[b] PROVE FALSE
    OBVIOUS
  <2> HIDE DEF to
  <2>1. s[to(a)] = s[to(b)] /\ to(a) \in 1 .. Len(s) /\ to(b) \in 1 .. Len(s)
    BY <1>4, <1>5
  <2>2. to(a) = to(b)
    BY <1>2, <2>1
  <2>3. a = b
    BY <1>4, <1>5, <2>2
  <2> QED BY <1>5, <1>6, <2>3
<1>7. ToSet(g) = S
  <2> HIDE DEF to
  <2>1. \A e \in S : to(Position(s, e)) \in 1 .. Len(s) /\ g[to(Position(s, e))] = e
    BY <1>2, <1>4
  <2>2. S \subseteq ToSet(g)
    BY <1>5, <2>1 DEF ToSet
  <2>3. ToSet(g) \subseteq S
    BY <1>4, <1>5 DEF ToSet
  <2> QED BY <2>2, <2>3
<1>8. ASSUME NEW e \in S PROVE Position(g, e) = to(Position(s, e))
  <2> HIDE DEF to
  <2> DEFINE j == Position(g, e)
  <2>1. j \in 1 .. Len(s) /\ g[j] = e
    BY <1>5, <1>7, PositionLemma
  <2> HIDE DEF j
  <2>2. s[to(j)] = e /\ to(j) \in 1 .. Len(s) /\ to(to(j)) = j
    BY <1>4, <2>1
  <2>3. Position(s, e) = to(j)
    BY <1>2, <2>2
  <2> QED BY <2>2, <2>3 DEF j
<1>9. ASSUME NEW e \in ToSet(g) \ {d}, NEW f \in ToSet(g) \ {d}
      PROVE  Position(g, e) < Position(g, f) <=> Before(rows, e, f)
  <2>1. e \in S /\ f \in S /\ e \in ToSet(s) \ {d} /\ f \in ToSet(s) \ {d}
    BY <1>1, <1>7
  <2>2. Position(s, e) < Position(s, f) <=> Before(rows, e, f)
    BY <1>1, <2>1 DEF Arranged
  <2>3. Position(g, e) = to(Position(s, e)) /\ Position(g, f) = to(Position(s, f))
    BY <1>8, <2>1
  <2>4. Position(s, e) \in Int \ {i} /\ Position(s, f) \in Int \ {i} /\ i \in Int
    BY <1>2, <1>3, <2>1
  <2>5. to(Position(s, e)) < to(Position(s, f)) <=> Position(s, e) < Position(s, f)
    BY <2>4
  <2> HIDE DEF to
  <2> QED BY <2>2, <2>3, <2>5
<1>10. Position(g, d) = k
  BY <1>8
<1> QED BY <1>5, <1>6, <1>7, <1>9, <1>10 DEF Arranged

\* Rows whose group is renumbered stand in its order.
LEMMA RenumberedStands ==
  ASSUME NEW rows \in Rows, NEW new \in Rows, In(new) = In(rows), NEW d, NEW g, Arranged(rows, g, d),
         \A e \in ToSet(g) : new[e].order = Position(g, e) - 1
  PROVE  /\ InOrder(new, g, ToSet(g)) /\ ToSet(g) \in SUBSET In(new)
         /\ \A e, f \in ToSet(g) \ {d} : Before(new, e, f) <=> Before(rows, e, f)
<1>1. /\ DOMAIN g = 1 .. Len(g) /\ Len(g) \in Nat
      /\ \A i \in 1 .. Len(g) : g[i] \in ToSet(g) /\ Position(g, g[i]) = i
      /\ \A e \in ToSet(g) : Position(g, e) \in 1 .. Len(g) /\ g[Position(g, e)] = e
  BY ArrangedPlaces
<1>2. ToSet(g) \in SUBSET In(new)
  <2>1. \A i \in 1 .. Len(g) : g[i] \in In(new)
    BY ElementOfSeq DEF Arranged
  <2> QED BY <1>1, <2>1 DEF ToSet
<1>3. ASSUME NEW e \in ToSet(g), NEW f \in ToSet(g)
      PROVE  Before(new, e, f) <=> Position(g, e) < Position(g, f)
  <2>1. Position(g, e) \in Int /\ Position(g, f) \in Int
    BY <1>1
  <2>2. new[e].order = Position(g, e) - 1 /\ new[f].order = Position(g, f) - 1
    OBVIOUS
  <2>3. Position(g, e) = Position(g, f) => e = f
    BY <1>1
  <2>4. e \in Nat /\ new[e].title \in Int
    BY <1>2, TreeRowsLemma DEF TreeRow
  <2>5. ~(e < e) /\ ~(new[e].title < new[e].title)
    BY <2>4
  <2> DEFINE a == Position(g, e)
             b == Position(g, f)
  <2>6. new[e].order < new[f].order <=> a < b
    BY <2>1, <2>2
  <2>7. new[e].order = new[f].order => e = f
    BY <2>1, <2>2, <2>3
  <2> HIDE DEF a, b
  <2>8. Before(new, e, f) <=> a < b
    BY <2>5, <2>6, <2>7 DEF Before
  <2> QED BY <2>8 DEF a, b
<1>4. g \in Seq(ToSet(g))
  <2>1. g \in [1 .. Len(g) -> ToSet(g)]
    <3>1. g \in [1 .. Len(g) -> In(rows)]
      BY LenProperties DEF Arranged
    <3> QED BY <1>1, <3>1
  <2> QED BY <1>1, <2>1, SeqDef
<1>5. ASSUME NEW i \in DOMAIN g, NEW j \in DOMAIN g, i < j PROVE g[i] # g[j] /\ Before(new, g[i], g[j])
  <2>1. g[i] # g[j]
    BY <1>5 DEF Arranged
  <2>2. Position(g, g[i]) = i /\ Position(g, g[j]) = j /\ g[i] \in ToSet(g) /\ g[j] \in ToSet(g)
    BY <1>1
  <2> QED BY <1>3, <1>5, <2>1, <2>2
<1>6. InOrder(new, g, ToSet(g))
  BY <1>4, <1>5 DEF InOrder
<1>7. \A e, f \in ToSet(g) \ {d} : Before(new, e, f) <=> Before(rows, e, f)
  BY <1>3 DEF Arranged
<1> QED BY <1>2, <1>6, <1>7

\* A renumbering without an error.
LEMMA RenumberedRows ==
  ASSUME TreeSafe, NEW first \in Seq(In(listed)), NEW second \in Seq(In(listed)),
         NEW p \in Nat, NEW q \in Nat, Renumber(first, p, second, q), treeErrors' = treeErrors
  PROVE  /\ listed' \in Rows /\ In(listed') = In(listed) /\ shown' = Build(listed')
         /\ \A e \in ToSet(second) \cap In(listed) :
              listed'[e].parent = q /\ listed'[e].order = Position(second, e) - 1
         /\ \A e \in (ToSet(first) \cap In(listed)) \ ToSet(second) :
              listed'[e].parent = p /\ listed'[e].order = Position(first, e) - 1
         /\ \A e \in In(listed) \ (ToSet(first) \cup ToSet(second)) : listed'[e] = listed[e]
<1>1. ~Fails
  BY DEF Fails, TreeSafe
<1> DEFINE rows == Placed(listed, first, p, Len(first))
<1>2. listed' = Placed(rows, second, q, Len(second)) /\ shown' = Build(listed')
  BY <1>1 DEF Renumber, Populate, Show
<1>3. Numbered(listed, first, p, ToSet(first), rows)
  BY PlacedWhole DEF TreeSafe
<1> HIDE DEF rows
<1>4. rows \in Rows /\ In(rows) = In(listed)
  BY <1>3 DEF Numbered
<1>5. second \in Seq(In(rows))
  BY <1>4
<1>6. Numbered(rows, second, q, ToSet(second), listed')
  BY <1>2, <1>4, <1>5, PlacedWhole
<1>7. ASSUME NEW e \in In(listed), e \in ToSet(second)
      PROVE  listed'[e].parent = q /\ listed'[e].order = Position(second, e) - 1
  <2> DEFINE k == Position(second, e) - 1
  <2>1. listed'[e] = [parent |-> q, order |-> k, title |-> rows[e].title]
    BY <1>4, <1>6, <1>7 DEF Numbered
  <2> HIDE DEF k
  <2>2. listed'[e].parent = q /\ listed'[e].order = k
    BY <2>1
  <2> QED BY <2>2 DEF k
<1>8. ASSUME NEW e \in In(listed), e \notin ToSet(second) PROVE listed'[e] = rows[e]
  BY <1>4, <1>6, <1>8 DEF Numbered
<1>9. ASSUME NEW e \in In(listed), e \in ToSet(first)
      PROVE  rows[e].parent = p /\ rows[e].order = Position(first, e) - 1
  <2> DEFINE k == Position(first, e) - 1
  <2>1. rows[e] = [parent |-> p, order |-> k, title |-> listed[e].title]
    BY <1>3, <1>9 DEF Numbered
  <2> HIDE DEF k
  <2>2. rows[e].parent = p /\ rows[e].order = k
    BY <2>1
  <2> QED BY <2>2 DEF k
<1>10. ASSUME NEW e \in In(listed), e \notin ToSet(first) PROVE rows[e] = listed[e]
  BY <1>3, <1>10 DEF Numbered
<1>11. listed' \in Rows /\ In(listed') = In(listed)
  BY <1>4, <1>6 DEF Numbered
<1> QED BY <1>2, <1>7, <1>8, <1>9, <1>10, <1>11

\* A tree in which nothing hangs in the air shows every page under its parent.
LEMMA NothingAdopted ==
  ASSUME NEW rows \in Rows, \A d \in In(rows) : ~Stray(rows, d)
  PROVE  Adopted(rows) = {}
<1>1. Adopted(rows) \subseteq In(rows)
  BY AdoptedLemma
<1> QED BY <1>1, AdoptedAreStray

LEMMA PlainTree ==
  ASSUME NEW rows \in Rows, Adopted(rows) = {}
  PROVE  /\ \A p \in Nodes : Build(rows).kids[p] = Ranked(rows, ChildrenOf(rows, p))
         /\ \A d \in In(rows) : rows[d].parent \in Nodes
         /\ In(rows) \subseteq Attached(rows, {Top})
<1>1. \A p \in Nodes : Build(rows).kids[p] = Ranked(rows, ChildrenOf(rows, p))
  <2> SUFFICES ASSUME NEW p \in Nodes PROVE Build(rows).kids[p] = Ranked(rows, ChildrenOf(rows, p))
    OBVIOUS
  <2> DEFINE S == IF p = Top THEN ChildrenOf(rows, Top) \cup Adopted(rows)
                  ELSE ChildrenOf(rows, p) \ Adopted(rows)
  <2>1. Build(rows).kids[p] = Ranked(rows, S)
    BY BuiltPlaces
  <2>2. S = ChildrenOf(rows, p)
    OBVIOUS
  <2> QED BY <2>1, <2>2
<1>2. \A d \in In(rows) : rows[d].parent \in Nodes
  BY ParentIsANode
<1>3. In(rows) \subseteq Attached(rows, {Top})
  <2>1. Adopted(rows) \cup {Top} = {Top}
    OBVIOUS
  <2>2. In(rows) \subseteq Attached(rows, Adopted(rows) \cup {Top})
    BY AdoptedLemma
  <2> QED BY <2>1, <2>2
<1> QED BY <1>1, <1>2, <1>3

\* Rows with the same parents have the same tree.
LEMMA SameParents ==
  ASSUME NEW rows \in Rows, NEW new \in Rows, In(new) = In(rows), Adopted(rows) = {},
         \A e \in In(rows) : new[e].parent = rows[e].parent
  PROVE  Adopted(new) = {}
<1>1. \A p : ChildrenOf(new, p) = ChildrenOf(rows, p)
  BY DEF ChildrenOf
<1>2. {Top} \in SUBSET Nodes /\ Top \in {Top}
  BY DEF Nodes
<1>3. {Top} \subseteq Attached(new, {Top}) /\ Downward(new, Attached(new, {Top}))
  BY <1>2, AttachedIsLeast
<1>4. Downward(rows, Attached(new, {Top}))
  BY <1>1, <1>3 DEF Downward
<1>5. Attached(rows, {Top}) \subseteq Attached(new, {Top})
  BY <1>2, <1>3, <1>4, AttachedIsLeast
<1>6. In(new) \subseteq Attached(new, {Top})
  BY <1>5, PlainTree
<1> QED BY <1>6, AdoptedLemma

\* So have rows in which one page is put below another that does not lie below it.
LEMMA MovedBelow ==
  ASSUME NEW rows \in Rows, NEW new \in Rows, In(new) = In(rows), Adopted(rows) = {},
         NEW d \in In(rows), NEW p \in In(rows) \cup {Top}, p # d, d \notin ListedAbove(rows, p),
         new[d].parent = p, \A e \in In(rows) \ {d} : new[e].parent = rows[e].parent
  PROVE  Adopted(new) = {}
<1> DEFINE N == Cardinality(TreePages)
           R == Attached(new, {Top})
           Far(x, n) == \A m \in 0 .. n : Walk(rows, x)[m] # d
<1>1. /\ N \in Nat /\ {Top} \in SUBSET Nodes /\ Top \in {Top} /\ In(rows) \subseteq Nat
      /\ Top \notin In(rows) /\ In(rows) \subseteq Nodes /\ Nodes \subseteq Nat
  BY TreeRowsLemma DEF Nodes
<1>2. Top \in R /\ Downward(new, R)
  BY <1>1, AttachedIsLeast
<1>3. PICK level : /\ level[N] = Attached(rows, {Top}) /\ level[0] = {Top}
                   /\ \A n \in 0 .. N : level[n] \in SUBSET Nodes
                   /\ \A n \in Nat : n < N =>
                        level[n + 1] = level[n] \cup UNION {ChildrenOf(rows, x) : x \in level[n]}
  BY <1>1, AttachedLevels
<1> HIDE DEF R, N
<1>4. ASSUME NEW x \in In(rows), NEW n \in 0 .. N, n < N, Far(x, n + 1)
      PROVE  x # d /\ Far(rows[x].parent, n)
  <2> DEFINE q == rows[x].parent
             V == Walk(rows, x)
             W == Walk(rows, q)
             T == {m \in 0 .. N : m < N => W[m] = V[m + 1]}
  <2>1. x \in Nat /\ q \in Nat
    BY TreeRowsLemma
  <2>2. V[0] = x /\ \A m \in Nat : m < N => V[m + 1] = IF V[m] \in In(rows) THEN rows[V[m]].parent ELSE Top
    BY <2>1, WalkLemma DEF N
  <2>3. W[0] = q /\ \A m \in Nat : m < N => W[m + 1] = IF W[m] \in In(rows) THEN rows[W[m]].parent ELSE Top
    <3> HIDE DEF q
    <3> QED BY <2>1, WalkLemma DEF N
  <2>4. q = rows[x].parent
    OBVIOUS
  <2>5. \A m \in 0 .. n + 1 : V[m] # d
    BY <1>4
  <2> SUFFICES x # d /\ \A m \in 0 .. n : W[m] # d
    OBVIOUS
  <2> HIDE DEF V, W, q
  <2>6. 0 \in T /\ T \in SUBSET (0 .. N)
    <3>1. 0 < N => V[0 + 1] = q
      BY <2>2, <2>4
    <3> QED BY <1>1, <2>3, <3>1
  <2>7. ASSUME NEW m \in T, m < N PROVE m + 1 \in T
    <3>1. m \in Nat /\ m + 1 \in 0 .. N /\ m + 1 \in Nat /\ W[m] = V[m + 1]
      BY <1>1, <2>7
    <3>2. m + 1 < N => V[m + 1 + 1] = IF V[m + 1] \in In(rows) THEN rows[V[m + 1]].parent ELSE Top
      BY <2>2, <3>1
    <3>3. W[m + 1] = IF W[m] \in In(rows) THEN rows[W[m]].parent ELSE Top
      BY <2>3, <2>7, <3>1
    <3> QED BY <3>1, <3>2, <3>3
  <2> HIDE DEF T
  <2>8. T = 0 .. N
    BY <1>1, <2>6, <2>7, LevelInduction
  <2>9. ASSUME NEW m \in 0 .. n PROVE W[m] # d
    <3>1. m \in 0 .. N /\ m < N /\ m + 1 \in 0 .. n + 1
      BY <1>1, <1>4
    <3>2. W[m] = V[m + 1]
      BY <2>8, <3>1 DEF T
    <3> QED BY <2>5, <3>1, <3>2
  <2>10. 0 \in 0 .. n + 1
    BY <1>1
  <2> QED BY <2>2, <2>5, <2>9, <2>10
<1>5. \A n \in 0 .. N : \A x \in level[n] : Far(x, n) => x \in R
  <2> DEFINE T == {n \in 0 .. N : \A x \in level[n] : Far(x, n) => x \in R}
  <2>1. 0 \in T /\ T \in SUBSET (0 .. N)
    BY <1>1, <1>2, <1>3
  <2>2. ASSUME NEW n \in T, n < N PROVE n + 1 \in T
    <3>1. n \in 0 .. N /\ n \in Nat /\ n + 1 \in 0 .. N
      BY <1>1, <2>2
    <3>2. level[n + 1] = level[n] \cup UNION {ChildrenOf(rows, x) : x \in level[n]}
      BY <1>3, <2>2, <3>1
    <3>3. ASSUME NEW x \in level[n + 1], Far(x, n + 1) PROVE x \in R
      <4>1. CASE x \in level[n]
        <5>1. Far(x, n)
          BY <3>1, <3>3
        <5> QED BY <2>2, <4>1, <5>1
      <4>2. CASE x \notin level[n]
        <5>1. PICK q \in level[n] : x \in ChildrenOf(rows, q)
          BY <3>2, <4>2
        <5>2. x \in In(rows) /\ rows[x].parent = q
          BY <5>1 DEF ChildrenOf
        <5>3. x # d /\ Far(q, n)
          BY <1>4, <2>2, <3>1, <3>3, <5>2
        <5>4. q \in R
          BY <2>2, <5>3
        <5>5. x \in ChildrenOf(new, q)
          BY <5>2, <5>3 DEF ChildrenOf
        <5> QED BY <1>2, <5>4, <5>5 DEF Downward
      <4> QED BY <4>1, <4>2
    <3> HIDE DEF Far
    <3> QED BY <3>1, <3>3
  <2> HIDE DEF T
  <2>3. T = 0 .. N
    BY <1>1, <2>1, <2>2, LevelInduction
  <2> QED BY <2>3 DEF T
<1>6. p \in R
  <2>1. CASE p = Top
    BY <1>2, <2>1
  <2>2. CASE p \in In(rows)
    <3>1. Walk(rows, p)[0] = p /\ \A m \in 0 .. N : Walk(rows, p)[m] \in Nat
      BY <1>1, <2>2, WalkLemma DEF N
    <3>2. \A m \in 1 .. N : Walk(rows, p)[m] # d
      BY DEF ListedAbove, N
    <3>3. Far(p, N)
      <4>1. \A m \in 0 .. N : m = 0 \/ m \in 1 .. N
        BY <1>1
      <4> QED BY <3>1, <3>2, <4>1
    <3>4. N \in 0 .. N
      BY <1>1
    <3>5. In(rows) \subseteq Attached(rows, {Top})
      BY PlainTree
    <3>6. p \in level[N]
      BY <1>3, <2>2, <3>5
    <3> HIDE DEF Far
    <3> QED BY <1>5, <3>3, <3>4, <3>6
  <2> QED BY <2>1, <2>2
<1>7. d \in R
  BY <1>2, <1>6 DEF Downward, ChildrenOf
<1>8. Downward(rows, R)
  <2> SUFFICES ASSUME NEW q \in R, NEW x \in ChildrenOf(rows, q) PROVE x \in R
    BY DEF Downward
  <2>1. CASE x = d
    BY <1>7, <2>1
  <2>2. CASE x # d
    <3>1. x \in ChildrenOf(new, q)
      BY <2>2 DEF ChildrenOf
    <3> QED BY <1>2, <3>1 DEF Downward
  <2> QED BY <2>1, <2>2
<1>9. Attached(rows, {Top}) \subseteq R
  BY <1>1, <1>2, <1>8, AttachedIsLeast
<1>10. In(new) \subseteq Attached(new, {Top})
  BY <1>9, PlainTree DEF R
<1> QED BY <1>10, AdoptedLemma

LEMMA MoveLands ==
  ASSUME TreeSafe, NEW d \in In(listed), NEW delta \in {-1, 1}, MoveDocument(d, delta), treeErrors' = treeErrors
  PROVE  /\ OthersKeepTheirPlace(d)
         /\ UpToDate => IsAt(d, listed[d].parent, Position(shown.kids[listed[d].parent], d) + delta)
<1> DEFINE p == listed[d].parent
           s == Siblings(d)
           i == Position(s, d)
           g == [s EXCEPT ![i] = s[i + delta], ![i + delta] = d]
           S == ChildrenOf(listed, p)
           none == <<>>
           k == i + delta
<1>1. /\ listed \in Rows /\ S \in SUBSET In(listed) /\ Top \in Nat
      /\ none \in Seq(In(listed)) /\ ToSet(none) = {}
  <2>1. ToSet(<<>>) = {}
    BY DEF ToSet
  <2> QED BY <2>1, EmptySeq, TreeRowsLemma DEF TreeSafe, Top
<1>2. /\ k \in DOMAIN s /\ k = i + delta /\ i = Position(s, d) /\ Swapped(s, i, k, d, g)
      /\ k = i + 1 \/ k = i - 1
  <2>1. i \in Int
    BY SiblingsLemma, LenProperties DEF TreeSafe
  <2> QED BY <2>1 DEF MoveDocument, Swapped
<1>3. Renumber(none, Top, g, p)
  BY DEF MoveDocument
<1>4. InOrder(listed, s, S) /\ d \in S /\ p \in Nat
  BY <1>1, SiblingsLemma
<1>5. s = Ranked(listed, S)
  BY DEF Siblings
<1>6. \A e \in In(listed) : e \in S <=> listed[e].parent = p
  BY DEF ChildrenOf
<1> HIDE DEF s, S, p, i, g, none, k
<1>7. Arranged(listed, g, d) /\ ToSet(g) = S /\ Position(g, d) = k
  BY <1>1, <1>2, <1>4, SwappedIsArranged
<1>8. g \in Seq(In(listed))
  BY <1>7 DEF Arranged
<1>9. /\ listed' \in Rows /\ In(listed') = In(listed) /\ shown' = Build(listed')
      /\ \A e \in S : listed'[e].parent = p /\ listed'[e].order = Position(g, e) - 1
      /\ \A e \in In(listed) \ S : listed'[e] = listed[e]
  <2>1. /\ listed' \in Rows /\ In(listed') = In(listed) /\ shown' = Build(listed')
        /\ \A e \in ToSet(g) \cap In(listed) :
             listed'[e].parent = p /\ listed'[e].order = Position(g, e) - 1
        /\ \A e \in In(listed) \ (ToSet(none) \cup ToSet(g)) : listed'[e] = listed[e]
    BY <1>1, <1>4, <1>8, <1>3, RenumberedRows
  <2> QED BY <1>1, <1>7, <2>1
<1>10. /\ InOrder(listed', g, S) /\ S \in SUBSET In(listed')
      /\ \A e, f \in S \ {d} : Before(listed', e, f) <=> Before(listed, e, f)
  BY <1>1, <1>7, <1>9, RenumberedStands
<1>11. \A e \in In(listed) : listed'[e].parent = listed[e].parent
  BY <1>6, <1>9
<1>12. OthersKeepTheirPlace(d)
  <2>1. ASSUME NEW e \in In(listed) \ {d}, NEW f \in In(listed) \ {d}, listed[e].parent = listed[f].parent
        PROVE  Before(listed', e, f) <=> Before(listed, e, f)
    <3>1. CASE e \in S
      <4>1. e \in S \ {d} /\ f \in S \ {d}
        BY <1>6, <2>1, <3>1
      <4> QED BY <1>10, <4>1
    <3>2. CASE e \notin S
      <4>1. listed'[e] = listed[e] /\ listed'[f] = listed[f]
        BY <1>6, <1>9, <2>1, <3>2
      <4> QED BY <4>1 DEF Before
    <3> QED BY <3>1, <3>2
  <2> QED BY <1>11, <2>1 DEF OthersKeepTheirPlace
<1>13. ASSUME UpToDate PROVE IsAt(d, p, Position(shown.kids[p], d) + delta)
  <2>1. Adopted(listed) = {} /\ shown = Build(listed)
    BY <1>1, <1>13, NothingAdopted DEF UpToDate
  <2>2. Adopted(listed') = {}
    BY <1>1, <1>9, <1>11, <2>1, SameParents
  <2>3. p \in Nodes /\ shown.kids[p] = s
    <3>1. p \in Nodes
      BY <1>1, <2>1, PlainTree DEF p
    <3>2. Build(listed).kids[p] = Ranked(listed, ChildrenOf(listed, p))
      BY <1>1, <2>1, <3>1, PlainTree
    <3> QED BY <1>5, <2>1, <3>1, <3>2 DEF S
  <2>4. ChildrenOf(listed', p) = S
    BY <1>9, <1>11 DEF ChildrenOf, S
  <2>5. shown'.kids[p] = g
    <3>1. Ranked(listed', S) = g
      BY <1>9, <1>10, RankedIsTheOrder
    <3>2. Build(listed').kids[p] = Ranked(listed', ChildrenOf(listed', p))
      BY <1>9, <2>2, <2>3, PlainTree
    <3> QED BY <1>9, <2>4, <3>1, <3>2
  <2> QED BY <1>2, <1>7, <2>3, <2>5 DEF IsAt
<1> QED BY <1>12, <1>13 DEF p

LEMMA DropLands ==
  ASSUME TreeSafe, NEW d \in In(listed), NEW p \in Nodes, NEW row \in Int, row >= -1, Drop(d, p, row),
         treeErrors' = treeErrors
  PROVE  /\ OthersKeepTheirPlace(d)
         /\ UpToDate =>
              IF row < 0 THEN IsAt(d, p, Len(shown'.kids[p]))
              ELSE \/ IsAt(d, p, row + 1)
                   \/ listed[d].parent = p /\ row + 1 > Position(shown.kids[p], d)
<1> DEFINE old == listed[d].parent
           g == BuildGroup(p, d)
           m == Landing(d, p, row) + 1
           new == InsertAt(g, m, d)
           S == ChildrenOf(listed, p) \ {d}
           first == IF p = old THEN <<>> ELSE BuildGroup(old, d)
           F == IF p = old THEN {} ELSE ChildrenOf(listed, old) \ {d}
           q == IF p = old THEN Top ELSE old
<1>1. /\ listed \in Rows /\ S \in SUBSET In(listed) /\ F \in SUBSET In(listed)
      /\ Top \in Nat /\ <<>> \in Seq(In(listed)) /\ In(listed) \subseteq TreePages /\ p \in Nat /\ old \in Nat
  BY EmptySeq, TreeRowsLemma DEF TreeSafe, Top
<1>2. /\ m \in 1 .. Len(g) + 1 /\ Inserted(In(listed), g, m, d, new)
      /\ Renumber(first, q, new, p)
  <2>1. /\ Landing(d, p, row) \in 0 .. Len(g) /\ Inserted(In(listed), g, m, d, new)
        /\ IF p = old THEN Renumber(<<>>, Top, new, p) ELSE Renumber(BuildGroup(old, d), old, new, p)
    BY <1>1, DropLemma
  <2>2. Len(g) \in Nat
    BY <1>1, BuildGroupLemma
  <2>3. m \in 1 .. Len(g) + 1
    BY <2>1, <2>2
  <2> QED BY <2>1, <2>3
<1>3. /\ InOrder(listed, g, S) /\ Len(g) = Cardinality(S) /\ Len(g) \in Nat
  BY <1>1, BuildGroupLemma
<1>4. first \in Seq(In(listed)) /\ ToSet(first) = F /\ Arranged(listed, first, d) /\ q \in Nat
  <2>1. CASE p = old
    <3>1. first = <<>> /\ F = {} /\ q = Top
      BY <2>1
    <3>2. first \in Seq(In(listed)) /\ ToSet(first) = {} /\ DOMAIN first = {}
      <4>1. DOMAIN <<>> = {} /\ ToSet(<<>>) = {}
        BY DEF ToSet
      <4> HIDE DEF first
      <4> QED BY <1>1, <3>1, <4>1
    <3> QED BY <1>1, <3>1, <3>2 DEF Arranged
  <2>2. CASE p # old
    <3>1. first = BuildGroup(old, d) /\ F = ChildrenOf(listed, old) \ {d} /\ q = old
      BY <2>2
    <3>2. InOrder(listed, first, F) /\ first \in Seq(In(listed))
      BY <1>1, <3>1, BuildGroupLemma
    <3>3. Arranged(listed, first, d)
      BY <1>1, <3>2, OrderIsArranged
    <3> QED BY <1>1, <3>1, <3>2, <3>3 DEF InOrder
  <2> QED BY <2>1, <2>2
<1>5. /\ \A e \in In(listed) \ {d} : /\ e \in S <=> listed[e].parent = p
                                     /\ e \in F <=> p # old /\ listed[e].parent = old
      /\ d \notin S /\ d \notin F /\ F \cap S = {}
  BY DEF ChildrenOf
<1> HIDE DEF new, g, first, F, S, q, m, old
<1>6. /\ Arranged(listed, new, d) /\ ToSet(new) = S \cup {d}
      /\ Position(new, d) = m /\ Len(new) = Len(g) + 1 /\ new \in Seq(In(listed))
  <2>1. /\ Arranged(listed, new, d) /\ ToSet(new) = S \cup {d}
        /\ Position(new, d) = m /\ Len(new) = Len(g) + 1
    BY <1>1, <1>2, <1>3, <1>5, InsertedIsArranged
  <2> QED BY <2>1 DEF Arranged
<1>7. /\ listed' \in Rows /\ In(listed') = In(listed) /\ shown' = Build(listed')
      /\ \A e \in S \cup {d} : listed'[e].parent = p /\ listed'[e].order = Position(new, e) - 1
      /\ \A e \in F : listed'[e].parent = q /\ listed'[e].order = Position(first, e) - 1
      /\ \A e \in In(listed) \ (F \cup S \cup {d}) : listed'[e] = listed[e]
  <2>1. /\ listed' \in Rows /\ In(listed') = In(listed) /\ shown' = Build(listed')
        /\ \A e \in ToSet(new) \cap In(listed) :
             listed'[e].parent = p /\ listed'[e].order = Position(new, e) - 1
        /\ \A e \in (ToSet(first) \cap In(listed)) \ ToSet(new) :
             listed'[e].parent = q /\ listed'[e].order = Position(first, e) - 1
        /\ \A e \in In(listed) \ (ToSet(first) \cup ToSet(new)) : listed'[e] = listed[e]
    BY <1>1, <1>2, <1>4, <1>6, RenumberedRows
  <2> QED BY <1>1, <1>4, <1>5, <1>6, <2>1
<1>8. \A e \in In(listed) \ {d} : listed'[e].parent = listed[e].parent
  BY <1>5, <1>7 DEF q
<1>9. /\ InOrder(listed', new, S \cup {d}) /\ S \cup {d} \in SUBSET In(listed')
      /\ \A e, f \in S : Before(listed', e, f) <=> Before(listed, e, f)
  <2>1. \A e \in ToSet(new) : listed'[e].order = Position(new, e) - 1
    BY <1>6, <1>7
  <2>2. /\ InOrder(listed', new, ToSet(new)) /\ ToSet(new) \in SUBSET In(listed')
        /\ \A e, f \in ToSet(new) \ {d} : Before(listed', e, f) <=> Before(listed, e, f)
    BY <1>1, <1>6, <1>7, <2>1, RenumberedStands
  <2> QED BY <1>5, <1>6, <2>2
<1>10. \A e, f \in F : Before(listed', e, f) <=> Before(listed, e, f)
  <2>1. \A e \in ToSet(first) : listed'[e].order = Position(first, e) - 1
    BY <1>4, <1>7
  <2>2. \A e, f \in ToSet(first) \ {d} : Before(listed', e, f) <=> Before(listed, e, f)
    BY <1>1, <1>4, <1>7, <2>1, RenumberedStands
  <2> QED BY <1>4, <1>5, <2>2
<1>11. OthersKeepTheirPlace(d)
  <2>1. ASSUME NEW e \in In(listed) \ {d}, NEW f \in In(listed) \ {d}, listed[e].parent = listed[f].parent
        PROVE  Before(listed', e, f) <=> Before(listed, e, f)
    <3>1. CASE e \in S
      <4>1. f \in S
        BY <1>5, <2>1, <3>1
      <4> QED BY <1>9, <3>1, <4>1
    <3>2. CASE e \in F
      <4>1. f \in F
        BY <1>5, <2>1, <3>2
      <4> QED BY <1>10, <3>2, <4>1
    <3>3. CASE e \notin S /\ e \notin F
      <4>1. f \notin S /\ f \notin F
        BY <1>5, <2>1, <3>3
      <4>2. listed'[e] = listed[e] /\ listed'[f] = listed[f]
        BY <1>7, <3>3, <4>1
      <4> QED BY <4>2 DEF Before
    <3> QED BY <3>1, <3>2, <3>3
  <2> QED BY <1>8, <2>1 DEF OthersKeepTheirPlace
<1>12. ASSUME UpToDate
       PROVE  IF row < 0 THEN IsAt(d, p, Len(shown'.kids[p]))
              ELSE IsAt(d, p, row + 1) \/ (old = p /\ row + 1 > Position(shown.kids[p], d))
  <2> DEFINE K == shown.kids[p]
             C == ChildrenOf(listed, p)
  <2>1. Adopted(listed) = {} /\ shown = Build(listed) /\ shown.row = listed
    BY <1>1, <1>12, NothingAdopted DEF UpToDate, Build
  <2>2. /\ p \in In(listed) \cup {Top} /\ p # d /\ d \notin ListedAbove(listed, p)
        /\ row \in -1 .. Len(K)
    BY <2>1 DEF Drop
  <2>3. Adopted(listed') = {}
    <3>1. listed'[d].parent = p
      BY <1>7
    <3> QED BY <1>1, <1>7, <1>8, <2>1, <2>2, <3>1, MovedBelow
  <2>4. shown'.kids[p] = new
    <3>1. ChildrenOf(listed', p) = S \cup {d}
      <4>1. \A e \in In(listed) : e \in S \cup {d} <=> listed'[e].parent = p
        BY <1>5, <1>7, <1>8
      <4> QED BY <1>1, <1>7, <4>1 DEF ChildrenOf
    <3>2. Ranked(listed', S \cup {d}) = new
      BY <1>7, <1>9, RankedIsTheOrder
    <3>3. Build(listed').kids[p] = Ranked(listed', ChildrenOf(listed', p))
      BY <1>7, <2>3, PlainTree
    <3> QED BY <1>7, <3>1, <3>2, <3>3
  <2>5. InOrder(listed, K, C) /\ Len(K) = Cardinality(C) /\ C \in SUBSET In(listed) /\ IsFiniteSet(C)
    <3>1. K = Ranked(listed, C)
      BY <1>1, <2>1, PlainTree
    <3>2. C \in SUBSET In(listed) /\ IsFiniteSet(C)
      BY <1>1, TreeRowsLemma, FS_Subset
    <3> HIDE DEF K, C
    <3> QED BY <1>1, <3>1, <3>2, RankedLemma
  <2>6. Len(K) \in Nat /\ Len(K) = IF old = p THEN Len(g) + 1 ELSE Len(g)
    <3>1. Cardinality(S) = IF d \in C THEN Cardinality(C) - 1 ELSE Cardinality(C)
      BY <2>5, FS_RemoveElement DEF S
    <3>2. d \in C <=> old = p
      BY DEF ChildrenOf, old
    <3>3. Cardinality(C) \in Nat
      BY <2>5, FS_CardinalityType
    <3> HIDE DEF K, C
    <3> QED BY <1>3, <2>5, <3>1, <3>2, <3>3
  <2>7. Position(shown'.kids[p], d) = m /\ Len(shown'.kids[p]) = Len(g) + 1
    BY <1>6, <2>4
  <2>8. m = (IF (IF row < 0 THEN Len(K) ELSE row) > Len(g) THEN Len(g)
             ELSE IF row < 0 THEN Len(K) ELSE row) + 1
    BY DEF Landing, m, g
  <2>9. old = p => Position(K, d) \in 1 .. Len(K)
    <3> SUFFICES ASSUME old = p PROVE Position(K, d) \in 1 .. Len(K)
      OBVIOUS
    <3>1. d \in ToSet(K) /\ DOMAIN K = 1 .. Len(K)
      BY <2>5, LenProperties DEF InOrder, ChildrenOf, old
    <3> HIDE DEF K
    <3> QED BY <3>1, PositionLemma
  <2> HIDE DEF K, C
  <2>10. CASE row < 0
    <3>1. m = Len(g) + 1
      BY <1>3, <2>6, <2>8, <2>10
    <3> QED BY <2>7, <2>10, <3>1 DEF IsAt
  <2>11. CASE ~(row < 0) /\ row <= Len(g)
    <3>1. m = row + 1
      BY <1>3, <2>8, <2>11
    <3> QED BY <2>7, <2>11, <3>1 DEF IsAt
  <2>12. CASE ~(row < 0) /\ ~(row <= Len(g))
    <3>1. old = p /\ row = Len(K)
      BY <1>3, <2>2, <2>6, <2>12
    <3>2. row + 1 > Position(K, d)
      BY <2>6, <2>9, <3>1
    <3> QED BY <2>12, <3>1, <3>2 DEF K
  <2> QED BY <2>10, <2>11, <2>12
<1> QED BY <1>11, <1>12 DEF old

\* A page that is moved without an error comes to where the user sees it put, and no
\* other page changes its parent or its place among the others (MoveDocument,
\* MoveDocumentToPlacement).
THEOREM TreeOnlyTheMovedMoves == TreeSpec => OnlyTheMovedMoves
<1> DEFINE Kept ==
             treeErrors' = treeErrors /\ seen' = listed' /\ listed' # listed /\ In(listed') = In(listed) =>
             \A d \in In(listed) :
               /\ \A delta \in {-1, 1} : menu # NoMenu /\ MoveDocument(d, delta) =>
                    /\ OthersKeepTheirPlace(d)
                    /\ UpToDate => IsAt(d, listed[d].parent, Position(shown.kids[listed[d].parent], d) + delta)
               /\ \A p \in Nodes, row \in -1..Cardinality(TreePages) :
                    menu = NoMenu /\ listed'[d].parent = p /\ Drop(d, p, row) =>
                    /\ OthersKeepTheirPlace(d)
                    /\ UpToDate =>
                         IF row < 0 THEN IsAt(d, p, Len(shown'.kids[p]))
                         ELSE \/ IsAt(d, p, row + 1)
                              \/ listed[d].parent = p /\ row + 1 > Position(shown.kids[p], d)
<1>1. TreeSafe /\ [TreeNext]_treeVars => [Kept]_treeVars
  <2> SUFFICES ASSUME TreeSafe, treeErrors' = treeErrors
               PROVE  \A d \in In(listed) :
                        /\ \A delta \in {-1, 1} : MoveDocument(d, delta) =>
                             /\ OthersKeepTheirPlace(d)
                             /\ UpToDate => IsAt(d, listed[d].parent,
                                                 Position(shown.kids[listed[d].parent], d) + delta)
                        /\ \A p \in Nodes, row \in -1..Cardinality(TreePages) : Drop(d, p, row) =>
                             /\ OthersKeepTheirPlace(d)
                             /\ UpToDate =>
                                  IF row < 0 THEN IsAt(d, p, Len(shown'.kids[p]))
                                  ELSE \/ IsAt(d, p, row + 1)
                                       \/ listed[d].parent = p /\ row + 1 > Position(shown.kids[p], d)
    BY Zenon
  <2>1. \A row \in -1..Cardinality(TreePages) : row \in Int /\ row >= -1
    OBVIOUS
  <2> QED BY <2>1, MoveLands, DropLands
<1>2. OnlyTheMovedMoves <=> [][Kept]_treeVars
  BY DEF OnlyTheMovedMoves
<1> HIDE DEF Kept
<1> QED BY <1>1, <1>2, TreeStaysSafe, PTL DEF TreeSpec
=============================================================================
