---------------------------- MODULE DataInduction -----------------------------
(***************************************************************************)
(* Induction over the natural numbers in a first-order form: a set of      *)
(* naturals takes the place of the predicate, so that the lemmas can be    *)
(* cited where a recursive function or a fold over data is reasoned about. *)
(* And, by it, what the fold of FiniteSetsExt says of a sum over a set.    *)
(***************************************************************************)
EXTENDS Integers, FiniteSetsExt, FiniteSetTheorems, WellFoundedInduction, TLAPS

\* A non-empty set of naturals has a least element.
LEMMA LeastElement ==
    ASSUME NEW T, T \subseteq Nat, T # {}
    PROVE  \E n \in T : \A m \in T : n <= m
<1>1. IsWellFoundedOn(OpToRel(<, Nat), Nat)
  BY NatLessThanWellFounded
<1>2. PICK n \in T : \A m \in T : <<m, n>> \notin OpToRel(<, Nat)
  BY <1>1, WFMin, ZenonT(30)
<1>3. \A m \in T : ~(m < n)
  BY <1>2 DEF OpToRel
<1>. QED
  BY <1>3

\* A non-empty bounded set of naturals has a greatest element.
LEMMA GreatestElement ==
    ASSUME NEW n \in Nat, NEW T, T \subseteq 0 .. n, T # {}
    PROVE  \E x \in T : \A y \in T : y <= x
<1>. DEFINE R == {n - y : y \in T}
<1>1. R \subseteq Nat /\ R # {}
  <2>1. \A y \in T : n - y \in Nat
    OBVIOUS
  <2>. QED
    BY <2>1
<1>2. PICK r \in R : \A y \in R : r <= y
  <2>. HIDE DEF R
  <2>. QED
    BY <1>1, LeastElement
<1>3. PICK x \in T : r = n - x
  BY <1>2
<1>4. ASSUME NEW y \in T
      PROVE  y <= x
  <2>1. n - x <= n - y
    BY <1>2, <1>3
  <2>. QED
    BY <2>1
<1>. QED
  BY <1>4

\* A set that holds 0 and the successor of each natural it holds holds them all.
LEMMA SetInduction ==
    ASSUME NEW T, 0 \in T, \A n \in Nat : n \in T => n + 1 \in T
    PROVE  Nat \subseteq T
<1>. SUFFICES ASSUME Nat \ T # {} PROVE FALSE
  OBVIOUS
<1>1. PICK n \in Nat \ T : \A m \in Nat \ T : n <= m
  BY LeastElement
<1>2. n # 0 /\ n - 1 \in Nat /\ n - 1 \notin Nat \ T
  BY <1>1
<1>. QED
  BY <1>1, <1>2

--------------------------------------------------------------------------------
(***************************************************************************)
(* Sums over finite sets of rows                                           *)
(***************************************************************************)

\* What MapThenSumSet computes for the quantities of some rows.
Total(rows, S) == MapThenSumSet(LAMBDA f : rows[f].quantity, S)

Chosen(S) == CHOOSE x \in S : TRUE

\* g is the table that the fold fills for the subsets of S in D.
IsTable(g, rows, D) ==
    g = [T \in D |-> IF T = {} THEN 0 ELSE rows[Chosen(T)].quantity + g[T \ {Chosen(T)}]]

\* Subsets of S with at most n elements.
UpTo(S, n) == {T \in SUBSET S : Cardinality(T) <= n}

LEMMA RemoveChosen ==
    ASSUME NEW S, IsFiniteSet(S), S # {}
    PROVE  /\ Chosen(S) \in S /\ IsFiniteSet(S \ {Chosen(S)})
           /\ Cardinality(S) \in Nat
           /\ Cardinality(S \ {Chosen(S)}) = Cardinality(S) - 1
<1>1. Chosen(S) \in S
  BY DEF Chosen
<1>. QED
  BY <1>1, FS_RemoveElement, FS_CardinalityType

\* The table exists for the subsets of every size, and so for all of them.
LEMMA TableExists ==
    ASSUME NEW rows, NEW S, IsFiniteSet(S)
    PROVE  \E g : IsTable(g, rows, SUBSET S)
<1>. DEFINE T == {n \in Nat : \E g : IsTable(g, rows, UpTo(S, n))}
<1>0. \A U \in SUBSET S : IsFiniteSet(U) /\ Cardinality(U) \in Nat /\ Cardinality(U) <= Cardinality(S)
  BY FS_Subset, FS_CardinalityType
<1>1. 0 \in T
  <2>1. \A U \in UpTo(S, 0) : U = {}
    BY <1>0, FS_EmptySet DEF UpTo
  <2>2. IsTable([U \in UpTo(S, 0) |-> 0], rows, UpTo(S, 0))
    BY <2>1 DEF IsTable
  <2>. QED
    BY <2>2
<1>2. ASSUME NEW n \in Nat, n \in T
      PROVE  n + 1 \in T
  <2>1. PICK g : IsTable(g, rows, UpTo(S, n))
    BY <1>2
  <2>. DEFINE D == UpTo(S, n + 1)
              h == [U \in D |-> IF U = {} THEN 0
                                ELSE rows[Chosen(U)].quantity + g[U \ {Chosen(U)}]]
  <2>2. UpTo(S, n) \subseteq D
    BY <1>0 DEF UpTo
  <2>3. \A U \in UpTo(S, n) : h[U] = g[U]
    BY <2>1, <2>2 DEF IsTable
  <2>4. \A U \in D : U # {} => U \ {Chosen(U)} \in UpTo(S, n)
    BY <1>0, RemoveChosen DEF UpTo
  <2>5. \A U \in D : U # {} => h[U \ {Chosen(U)}] = g[U \ {Chosen(U)}]
    BY <2>3, <2>4
  <2>6. h = [U \in D |-> IF U = {} THEN 0
                         ELSE rows[Chosen(U)].quantity + h[U \ {Chosen(U)}]]
    BY <2>5
  <2>7. IsTable(h, rows, D)
    BY <2>6 DEF IsTable
  <2>. QED
    BY <2>7
<1>. HIDE DEF T
<1>3. Cardinality(S) \in T
  BY <1>1, <1>2, FS_CardinalityType, SetInduction
<1>4. UpTo(S, Cardinality(S)) = SUBSET S
  BY <1>0 DEF UpTo
<1>. QED
  BY <1>3, <1>4 DEF T

LEMMA TotalIsTable ==
    ASSUME NEW rows, NEW S, IsFiniteSet(S)
    PROVE  \E g : IsTable(g, rows, SUBSET S) /\ Total(rows, S) = g[S]
<1>. DEFINE g == CHOOSE g : IsTable(g, rows, SUBSET S)
<1>1. IsTable(g, rows, SUBSET S)
  BY TableExists
<1>2. Total(rows, S) = g[S]
  BY DEF Total, MapThenSumSet, MapThenFoldSet, IsTable, Chosen
<1>. QED
  BY <1>1, <1>2

TableOf(g, rows, S) == IsFiniteSet(S) /\ IsTable(g, rows, SUBSET S)

SameRows(rows, other, S) == \A x \in S : rows[x] = other[x]

\* Tables for rows that agree on a set agree on its sum.
LEMMA TablesAgree ==
    ASSUME NEW rows, NEW other, NEW D, NEW E, NEW g, NEW h, NEW S,
           TableOf(g, rows, D), TableOf(h, other, E),
           S \in SUBSET D, S \in SUBSET E, SameRows(rows, other, S)
    PROVE  g[S] = h[S]
<1>. DEFINE T == {n \in Nat : \A U \in SUBSET S : Cardinality(U) = n => g[U] = h[U]}
<1>0. \A U \in SUBSET S : IsFiniteSet(U) /\ Cardinality(U) \in Nat
  BY FS_Subset, FS_CardinalityType DEF TableOf
<1>1. \A U \in SUBSET S :
        /\ g[U] = IF U = {} THEN 0 ELSE rows[Chosen(U)].quantity + g[U \ {Chosen(U)}]
        /\ h[U] = IF U = {} THEN 0 ELSE other[Chosen(U)].quantity + h[U \ {Chosen(U)}]
  BY DEF IsTable, TableOf
<1>2. 0 \in T
  <2>1. \A U \in SUBSET S : Cardinality(U) = 0 => U = {}
    BY <1>0, FS_EmptySet
  <2>. QED
    BY <1>1, <2>1
<1>3. ASSUME NEW n \in Nat, n \in T
      PROVE  n + 1 \in T
  <2>1. ASSUME NEW U \in SUBSET S, Cardinality(U) = n + 1
        PROVE  g[U] = h[U]
    <3>1. U # {}
      <4>1. Cardinality(U) # 0
        BY <2>1
      <4>. QED
        BY <1>0, <4>1, FS_EmptySet
    <3>2. Chosen(U) \in U /\ Cardinality(U \ {Chosen(U)}) = n
      BY <1>0, <2>1, <3>1, RemoveChosen
    <3>3. g[U \ {Chosen(U)}] = h[U \ {Chosen(U)}]
      BY <1>3, <3>2
    <3>4. rows[Chosen(U)] = other[Chosen(U)]
      BY <3>2 DEF SameRows
    <3>. QED
      BY <1>1, <3>1, <3>3, <3>4
  <2>. QED
    BY <2>1
<1>. HIDE DEF T
<1>4. Cardinality(S) \in T
  BY <1>0, <1>2, <1>3, SetInduction
<1>. QED
  BY <1>4 DEF T

\* The sum looks at nothing but the rows of the set.
LEMMA TotalOf ==
    ASSUME NEW rows, NEW other, NEW S, IsFiniteSet(S), \A x \in S : rows[x] = other[x]
    PROVE  Total(rows, S) = Total(other, S)
<1>1. PICK g : IsTable(g, rows, SUBSET S) /\ Total(rows, S) = g[S]
  BY TotalIsTable
<1>2. PICK h : IsTable(h, other, SUBSET S) /\ Total(other, S) = h[S]
  BY TotalIsTable
<1>3. g[S] = h[S]
  <2>1. S \in SUBSET S
    OBVIOUS
  <2>2. TableOf(g, rows, S) /\ TableOf(h, other, S) /\ SameRows(rows, other, S)
    BY <1>1, <1>2 DEF TableOf, SameRows
  <2>. QED
    BY <2>1, <2>2, TablesAgree
<1>. QED
  BY <1>1, <1>2, <1>3

LEMMA TotalChosen ==
    ASSUME NEW rows, NEW S, IsFiniteSet(S)
    PROVE  /\ S = {} => Total(rows, S) = 0
           /\ S # {} => Total(rows, S) = rows[Chosen(S)].quantity + Total(rows, S \ {Chosen(S)})
<1>1. PICK g : IsTable(g, rows, SUBSET S) /\ Total(rows, S) = g[S]
  BY TotalIsTable
<1>2. CASE S = {}
  BY <1>1, <1>2 DEF IsTable
<1>3. CASE S # {}
  <2>1. g[S] = rows[Chosen(S)].quantity + g[S \ {Chosen(S)}]
    BY <1>1, <1>3 DEF IsTable
  <2>. DEFINE R == S \ {Chosen(S)}
  <2>2. IsFiniteSet(R) /\ R \subseteq S
    BY <1>3, RemoveChosen
  <2>. HIDE DEF R
  <2>3. PICK h : IsTable(h, rows, SUBSET R) /\ Total(rows, R) = h[R]
    BY <2>2, TotalIsTable
  <2>4. g[R] = h[R]
    <3>1. TableOf(g, rows, S) /\ TableOf(h, rows, R) /\ SameRows(rows, rows, R)
      BY <1>1, <2>2, <2>3 DEF TableOf, SameRows
    <3>2. R \in SUBSET S /\ R \in SUBSET R
      BY <2>2
    <3>. QED
      BY <3>1, <3>2, TablesAgree
  <2>. USE DEF R
  <2>. QED
    BY <1>1, <1>3, <2>1, <2>3, <2>4
<1>. QED
  BY <1>2, <1>3

\* Any element may be taken out first.
LEMMA TotalRemove ==
    ASSUME NEW rows, NEW D, IsFiniteSet(D), \A x \in D : rows[x].quantity \in Nat
    PROVE  \A S \in SUBSET D :
            /\ Total(rows, S) \in Nat
            /\ \A x \in S : Total(rows, S) = rows[x].quantity + Total(rows, S \ {x})
<1>. DEFINE Good(S) ==
                /\ Total(rows, S) \in Nat
                /\ \A x \in S : Total(rows, S) = rows[x].quantity + Total(rows, S \ {x})
            T == {n \in Nat : \A S \in SUBSET D : Cardinality(S) <= n => Good(S)}
<1>0. \A S \in SUBSET D : IsFiniteSet(S) /\ Cardinality(S) \in Nat
  BY FS_Subset, FS_CardinalityType
<1>1. 0 \in T
  <2>1. ASSUME NEW S \in SUBSET D, Cardinality(S) <= 0
        PROVE  Good(S)
    <3>1. S = {}
      BY <1>0, <2>1, FS_EmptySet
    <3>2. Total(rows, {}) = 0
      BY FS_EmptySet, TotalChosen
    <3>. QED
      BY <3>1, <3>2
  <2>. QED
    BY <2>1
<1>2. ASSUME NEW n \in Nat, n \in T
      PROVE  n + 1 \in T
  <2>1. ASSUME NEW S \in SUBSET D, Cardinality(S) <= n + 1
        PROVE  Good(S)
    <3>1. CASE S = {}
      <4>1. Total(rows, {}) = 0
        BY FS_EmptySet, TotalChosen
      <4>. QED
        BY <3>1, <4>1
    <3>2. CASE S # {}
      <4>1. PICK c \in S : c = Chosen(S)
        BY <1>0, <3>2, RemoveChosen
      <4>2. Total(rows, S) = rows[c].quantity + Total(rows, S \ {c})
        BY <1>0, <3>2, <4>1, TotalChosen
      <4>3. \A x \in S : /\ IsFiniteSet(S \ {x}) /\ S \ {x} \in SUBSET D
                         /\ Cardinality(S \ {x}) <= n
        BY <1>0, <2>1, FS_RemoveElement
      <4>4. \A x \in S : Good(S \ {x})
        BY <1>2, <4>3
      <4>5. Total(rows, S) \in Nat
        BY <4>2, <4>4
      <4>6. ASSUME NEW x \in S, x # c
            PROVE  Total(rows, S) = rows[x].quantity + Total(rows, S \ {x})
        <5>. DEFINE R == (S \ {c}) \ {x}
        <5>1. R = (S \ {x}) \ {c} /\ x \in S \ {c} /\ c \in S \ {x}
          BY <4>6
        <5>2. Total(rows, S \ {c}) = rows[x].quantity + Total(rows, R)
          BY <4>4, <5>1
        <5>3. Total(rows, S \ {x}) = rows[c].quantity + Total(rows, R)
          BY <4>4, <5>1
        <5>4. Total(rows, S \ {c}) \in Nat /\ Total(rows, S \ {x}) \in Nat
              /\ rows[x].quantity \in Nat /\ rows[c].quantity \in Nat
          BY <4>4
        <5>5. Total(rows, R) \in Nat
          <6>1. Good(R)
            <7>1. R \in SUBSET D /\ R \subseteq S \ {c} /\ IsFiniteSet(S \ {c})
              BY <4>3
            <7>2. Cardinality(R) <= n
              BY <1>0, <4>3, <7>1, FS_Subset
            <7>. QED
              BY <1>2, <7>1, <7>2
          <6>. QED
            BY <6>1
        <5>. HIDE DEF R
        <5>. QED
          BY <4>2, <5>2, <5>3, <5>4, <5>5
      <4>. QED
        BY <4>2, <4>5, <4>6
    <3>. QED
      BY <3>1, <3>2
  <2>. QED
    BY <2>1
<1>. HIDE DEF T
<1>3. Nat \subseteq T
  BY <1>1, <1>2, SetInduction
<1>. QED
  BY <1>0, <1>3 DEF T

\* One more row adds its quantity.
LEMMA TotalAdd ==
    ASSUME NEW rows, NEW S, IsFiniteSet(S), NEW x, x \notin S,
           \A y \in S \cup {x} : rows[y].quantity \in Nat
    PROVE  Total(rows, S \cup {x}) = Total(rows, S) + rows[x].quantity
<1>1. IsFiniteSet(S \cup {x})
  BY FS_AddElement
<1>2. (S \cup {x}) \ {x} = S
  OBVIOUS
<1>3. /\ Total(rows, S) \in Nat
      /\ Total(rows, S \cup {x}) = rows[x].quantity + Total(rows, (S \cup {x}) \ {x})
  BY <1>1, TotalRemove
<1>. QED
  BY <1>2, <1>3
================================================================================
