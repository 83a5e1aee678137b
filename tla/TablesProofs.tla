----------------------------- MODULE TablesProofs -----------------------------
(***************************************************************************)
(* What the sums of Tables come to, for any rows, events and branches: a   *)
(* row is the tally of its events, an upsert adds tallies up, and a query  *)
(* over rows counts the events that are in them.                           *)
(*                                                                         *)
(* These are facts by induction over finite sets. The library's induction  *)
(* theorems take an operator, which the provers cannot instantiate; here a *)
(* set that refutes the claim is assumed and one with no smaller one in it *)
(* is taken (SmallestSet).                                                 *)
(***************************************************************************)
EXTENDS Tables, TLAPS, FiniteSetTheorems, WellFoundedInduction

-----------------------------------------------------------------------------
(* Sums over a finite set.                                                  *)

\* The element that a sum takes first.
Pick(s) == CHOOSE x \in s : TRUE

\* i adds the values of h up, over every subset of U.
Adds(i, h, U) ==
  i = [s \in SUBSET U |-> IF s = {} THEN 0 ELSE h[Pick(s)] + i[s \ {Pick(s)}]]

SumOf(h, S) == (CHOOSE i : Adds(i, h, S))[S]

LEMMA Picked == ASSUME NEW s, s # {} PROVE Pick(s) \in s
BY Zenon DEF Pick

LEMMA LeastNumber ==
  ASSUME NEW T, T \subseteq Nat, T # {}
  PROVE  \E n \in T : n \in Nat /\ \A m \in Nat : m < n => m \notin T
<1>1. \E x \in T : \A y \in T : ~(<<y, x>> \in OpToRel(<, Nat))
  BY NatLessThanWellFounded, WFMin, Zenon
<1> QED BY <1>1 DEF OpToRel

\* Sets that are not all of a kind have one that is a first: take anything away
\* and it is of the other kind.
LEMMA SmallestSet ==
  ASSUME NEW U, IsFiniteSet(U), NEW B, B \subseteq SUBSET U, B # {}
  PROVE  \E s \in B : IsFiniteSet(s) /\ \A x \in s : s \ {x} \notin B
<1> DEFINE T == {n \in Nat : \E s \in B : Cardinality(s) = n}
<1>1. \A s \in B : IsFiniteSet(s) /\ Cardinality(s) \in Nat
  BY FS_Subset, FS_CardinalityType
<1>2. T \subseteq Nat /\ T # {}
  BY <1>1
<1> HIDE DEF T
<1>3. PICK n \in T : n \in Nat /\ \A m \in Nat : m < n => m \notin T
  BY <1>2, LeastNumber
<1>4. PICK s \in B : Cardinality(s) = n
  BY <1>3 DEF T
<1>5. ASSUME NEW x \in s, s \ {x} \in B PROVE FALSE
  <2>1. Cardinality(s \ {x}) = n - 1 /\ Cardinality(s \ {x}) \in Nat
    BY <1>1, <1>4, <1>5, FS_RemoveElement
  <2>2. n - 1 \in T
    BY <1>5, <2>1 DEF T
  <2> QED BY <1>3, <2>1, <2>2
<1> QED BY <1>1, <1>4, <1>5

LEMMA AddsUnique ==
  ASSUME NEW h, NEW U, IsFiniteSet(U), NEW i, NEW j, NEW V, U \subseteq V, IsFiniteSet(V),
         NEW g, \A x \in U : h[x] = g[x], Adds(i, h, U), Adds(j, g, V)
  PROVE  \A s \in SUBSET U : i[s] = j[s]
<1> DEFINE B == {s \in SUBSET U : i[s] # j[s]}
<1>1. SUFFICES ASSUME B # {} PROVE FALSE
  OBVIOUS
<1>2. PICK s \in B : \A x \in s : s \ {x} \notin B
  BY <1>1, SmallestSet
<1>3. s # {}
  BY DEF Adds
<1>4. Pick(s) \in s /\ s \ {Pick(s)} \in SUBSET U /\ s \ {Pick(s)} \notin B
  BY <1>2, <1>3, Picked
<1>5. i[s] = h[Pick(s)] + i[s \ {Pick(s)}] /\ j[s] = g[Pick(s)] + j[s \ {Pick(s)}]
  BY <1>3 DEF Adds
<1>6. h[Pick(s)] = g[Pick(s)]
  BY <1>4
<1> QED BY <1>4, <1>5, <1>6

LEMMA AddsExists ==
  ASSUME NEW h, NEW U, IsFiniteSet(U)
  PROVE  \E i : Adds(i, h, U)
<1> DEFINE Up(n) == {s \in SUBSET U : Cardinality(s) <= n}
           Ok(n, i) == i = [s \in Up(n) |-> IF s = {} THEN 0 ELSE h[Pick(s)] + i[s \ {Pick(s)}]]
           T == {n \in Nat : \A i : ~Ok(n, i)}
<1>0. \A s \in SUBSET U : IsFiniteSet(s) /\ Cardinality(s) \in Nat /\ Cardinality(s) <= Cardinality(U)
                          /\ (Cardinality(s) = 0 <=> s = {})
  BY FS_Subset, FS_CardinalityType, FS_EmptySet
<1>r. \A s \in SUBSET U : s # {} =>
        s \ {Pick(s)} \in SUBSET U /\ Cardinality(s \ {Pick(s)}) = Cardinality(s) - 1
  BY <1>0, Picked, FS_RemoveElement
<1>1. ASSUME T # {} PROVE FALSE
  <2>1. PICK n \in T : n \in Nat /\ \A m \in Nat : m < n => m \notin T
    <3>1. T \subseteq Nat OBVIOUS
    <3> HIDE DEF T
    <3> QED BY <1>1, <3>1, LeastNumber
  <2>2. n # 0
    <3>1. Ok(0, [s \in Up(0) |-> 0])
      <4>1. \A s \in Up(0) : s = {}
        BY <1>0
      <4> QED BY <4>1
    <3> QED BY <3>1
  <2>3. PICK i : Ok(n - 1, i)
    <3>1. n - 1 \in Nat /\ n - 1 \notin T
      <4> HIDE DEF T
      <4> QED BY <2>1, <2>2
    <3> HIDE DEF Ok
    <3> QED BY <3>1
  <2> DEFINE j == [s \in Up(n) |-> IF s = {} THEN 0 ELSE h[Pick(s)] + i[s \ {Pick(s)}]]
  <2>4. \A s \in Up(n) : s # {} => s \ {Pick(s)} \in Up(n - 1) /\ s \ {Pick(s)} \in Up(n)
    BY <1>0, <1>r, <2>1
  <2>5. \A s \in Up(n - 1) : s \in Up(n) /\ j[s] = i[s]
    <3>1. \A s \in Up(n - 1) : s \in Up(n)
      BY <1>0, <2>1
    <3> QED BY <2>3, <3>1
  <2>6. Ok(n, j)
    <3>1. \A s \in Up(n) : s # {} => i[s \ {Pick(s)}] = j[s \ {Pick(s)}]
      BY <2>4, <2>5
    <3> HIDE DEF Up
    <3> QED BY <3>1
  <2> QED BY <2>6
<1>2. PICK i : Ok(Cardinality(U), i)
  <2>1. Cardinality(U) \in Nat
    BY FS_CardinalityType
  <2> HIDE DEF Ok
  <2> QED BY <1>1, <2>1
<1>3. Up(Cardinality(U)) = SUBSET U
  BY <1>0
<1> QED BY <1>2, <1>3 DEF Adds

LEMMA SumAdds == ASSUME NEW h, NEW S, IsFiniteSet(S) PROVE Adds(CHOOSE i : Adds(i, h, S), h, S)
<1>1. \E i : Adds(i, h, S)
  BY AddsExists
<1> HIDE DEF Adds
<1> QED BY <1>1, Zenon

LEMMA SumCongruent ==
  ASSUME NEW h, NEW g, NEW S, IsFiniteSet(S), \A x \in S : h[x] = g[x]
  PROVE  SumOf(h, S) = SumOf(g, S)
<1> DEFINE i == CHOOSE c : Adds(c, h, S)
           j == CHOOSE c : Adds(c, g, S)
<1>1. Adds(i, h, S) /\ Adds(j, g, S)
  BY SumAdds
<1> HIDE DEF i, j
<1>2. \A s \in SUBSET S : i[s] = j[s]
  BY <1>1, AddsUnique
<1> QED BY <1>2, Zenon DEF SumOf, i, j

LEMMA SumEmpty == ASSUME NEW h PROVE SumOf(h, {}) = 0
<1>1. Adds(CHOOSE i : Adds(i, h, {}), h, {})
  BY SumAdds, FS_EmptySet
<1> DEFINE i == CHOOSE c : Adds(c, h, {})
<1> HIDE DEF i
<1>2. i[{}] = 0
  BY <1>1 DEF i, Adds
<1> QED BY <1>2, Zenon DEF SumOf, i

LEMMA SumSubset ==
  ASSUME NEW h, NEW S, IsFiniteSet(S), NEW T \in SUBSET S
  PROVE  SumOf(h, T) = (CHOOSE i : Adds(i, h, S))[T]
<1>1. IsFiniteSet(T)
  BY FS_Subset
<1>2. Adds(CHOOSE i : Adds(i, h, S), h, S) /\ Adds(CHOOSE i : Adds(i, h, T), h, T)
  BY <1>1, SumAdds
<1> DEFINE i == CHOOSE c : Adds(c, h, S)
           j == CHOOSE c : Adds(c, h, T)
<1> HIDE DEF i, j
<1>3. \A s \in SUBSET T : j[s] = i[s]
  <2>1. Adds(j, h, T) /\ Adds(i, h, S)
    BY <1>2, Zenon DEF i, j
  <2> QED BY <1>1, <2>1, AddsUnique
<1> QED BY <1>3, Zenon DEF SumOf, i, j

LEMMA SumPicked ==
  ASSUME NEW h, NEW S, IsFiniteSet(S), S # {}
  PROVE  SumOf(h, S) = h[Pick(S)] + SumOf(h, S \ {Pick(S)})
<1> DEFINE i == CHOOSE c : Adds(c, h, S)
<1>1. Adds(i, h, S)
  BY SumAdds
<1>2. SumOf(h, S) = i[S] /\ SumOf(h, S \ {Pick(S)}) = i[S \ {Pick(S)}]
  BY SumSubset
<1> HIDE DEF i
<1> QED BY <1>1, <1>2 DEF Adds

LEMMA SumNat ==
  ASSUME NEW h, NEW S, IsFiniteSet(S), \A x \in S : h[x] \in Nat
  PROVE  SumOf(h, S) \in Nat
<1> DEFINE B == {s \in SUBSET S : SumOf(h, s) \notin Nat}
<1>1. SUFFICES ASSUME B # {} PROVE FALSE
  <2>1. S \in SUBSET S /\ S \notin B
    BY <1>1
  <2> QED BY <2>1
<1>2. PICK s \in B : IsFiniteSet(s) /\ \A x \in s : s \ {x} \notin B
  BY <1>1, SmallestSet
<1>3. s # {}
  BY <1>2, SumEmpty
<1>4. Pick(s) \in s /\ SumOf(h, s) = h[Pick(s)] + SumOf(h, s \ {Pick(s)})
  BY <1>2, <1>3, Picked, SumPicked
<1>5. SumOf(h, s \ {Pick(s)}) \in Nat /\ h[Pick(s)] \in Nat
  BY <1>2, <1>4
<1> QED BY <1>4, <1>5

LEMMA SumWithout ==
  ASSUME NEW h, NEW S, IsFiniteSet(S), \A x \in S : h[x] \in Nat, NEW e \in S
  PROVE  SumOf(h, S) = h[e] + SumOf(h, S \ {e})
<1> DEFINE B == {s \in SUBSET S : \E x \in s : SumOf(h, s) # h[x] + SumOf(h, s \ {x})}
<1>1. SUFFICES ASSUME B # {} PROVE FALSE
  <2>1. S \in SUBSET S /\ S \notin B
    BY <1>1
  <2> QED BY <2>1
<1>2. PICK s \in B : IsFiniteSet(s) /\ \A x \in s : s \ {x} \notin B
  BY <1>1, SmallestSet
<1>3. PICK x \in s : SumOf(h, s) # h[x] + SumOf(h, s \ {x})
  OBVIOUS
<1> DEFINE p == Pick(s)
<1>4. p \in s /\ SumOf(h, s) = h[p] + SumOf(h, s \ {p})
  BY <1>2, <1>3, Picked, SumPicked
<1> HIDE DEF p
<1>5. x # p /\ x \in s \ {p} /\ p \in s \ {x}
  BY <1>3, <1>4
<1>6. /\ s \ {p} \in SUBSET S /\ s \ {p} \notin B
      /\ s \ {x} \in SUBSET S /\ s \ {x} \notin B
  BY <1>2, <1>4
<1>7. SumOf(h, s \ {p}) = h[x] + SumOf(h, (s \ {p}) \ {x})
  BY <1>5, <1>6
<1>8. SumOf(h, s \ {x}) = h[p] + SumOf(h, (s \ {x}) \ {p})
  BY <1>5, <1>6
<1>9. (s \ {p}) \ {x} = (s \ {x}) \ {p}
  OBVIOUS
<1>10. SumOf(h, (s \ {x}) \ {p}) \in Nat /\ h[x] \in Nat /\ h[p] \in Nat
  <2>1. IsFiniteSet((s \ {x}) \ {p}) /\ \A y \in (s \ {x}) \ {p} : h[y] \in Nat
    BY <1>2, FS_RemoveElement
  <2> QED BY <1>4, <1>3, <2>1, SumNat
<1> HIDE DEF B
<1> QED BY <1>3, <1>4, <1>7, <1>8, <1>9, <1>10

LEMMA SumUnion ==
  ASSUME NEW h, NEW S, NEW T, IsFiniteSet(S), IsFiniteSet(T), S \cap T = {},
         \A x \in S \cup T : h[x] \in Nat
  PROVE  SumOf(h, S \cup T) = SumOf(h, S) + SumOf(h, T)
<1> DEFINE B == {s \in SUBSET S : SumOf(h, s \cup T) # SumOf(h, s) + SumOf(h, T)}
<1>1. SUFFICES ASSUME B # {} PROVE FALSE
  <2>1. S \in SUBSET S /\ S \notin B
    BY <1>1
  <2> QED BY <2>1
<1>2. PICK s \in B : IsFiniteSet(s) /\ \A x \in s : s \ {x} \notin B
  BY <1>1, SmallestSet
<1>0. SumOf(h, T) \in Nat
  BY SumNat
<1>3. s # {}
  <2>1. {} \cup T = T
    OBVIOUS
  <2> QED BY <1>0, <2>1, SumEmpty
<1>4. PICK x \in s : TRUE
  BY <1>3
<1>5. x \notin T /\ (s \cup T) \ {x} = (s \ {x}) \cup T
  BY <1>4
<1>6. IsFiniteSet(s \cup T)
  BY <1>2, FS_Union
<1>7. SumOf(h, s \cup T) = h[x] + SumOf(h, (s \ {x}) \cup T)
  <2>1. x \in s \cup T /\ \A y \in s \cup T : h[y] \in Nat
    BY <1>4
  <2> HIDE DEF B
  <2> QED BY <1>5, <1>6, <2>1, SumWithout
<1>8. SumOf(h, s) = h[x] + SumOf(h, s \ {x})
  <2>1. \A y \in s : h[y] \in Nat
    OBVIOUS
  <2> QED BY <1>2, <1>4, <2>1, SumWithout
<1>9. SumOf(h, (s \ {x}) \cup T) = SumOf(h, s \ {x}) + SumOf(h, T)
  BY <1>2, <1>4
<1>10. SumOf(h, s \ {x}) \in Nat /\ h[x] \in Nat
  <2>1. IsFiniteSet(s \ {x}) /\ \A y \in s \ {x} : h[y] \in Nat
    BY <1>2, FS_RemoveElement
  <2> QED BY <1>4, <2>1, SumNat
<1> QED BY <1>0, <1>7, <1>8, <1>9, <1>10


\* The elements of a group, and of several.
With(S, of, g) == {x \in S : of[x] = g}
WithAny(S, of, G) == {x \in S : of[x] \in G}

\* Adding up by group.
LEMMA SumGroups ==
  ASSUME NEW h, NEW S, IsFiniteSet(S), \A x \in S : h[x] \in Nat,
         NEW of, NEW G, IsFiniteSet(G), NEW t,
         \A g \in G : t[g] = SumOf(h, With(S, of, g))
  PROVE  SumOf(t, G) = SumOf(h, WithAny(S, of, G))
<1> USE DEF With, WithAny
<1> DEFINE In(H) == {x \in S : of[x] \in H}
           B == {H \in SUBSET G : SumOf(t, H) # SumOf(h, In(H))}
<1>1. SUFFICES ASSUME B # {} PROVE FALSE
  <2>1. G \in SUBSET G /\ G \notin B
    BY <1>1
  <2> QED BY <2>1
<1>2. PICK H \in B : IsFiniteSet(H) /\ \A g \in H : H \ {g} \notin B
  BY <1>1, SmallestSet
<1>3. H # {}
  <2>1. In({}) = {}
    OBVIOUS
  <2> QED BY <2>1, SumEmpty
<1>4. PICK g \in H : TRUE
  BY <1>3
<1> DEFINE mine == {x \in S : of[x] = g}
           rest == In(H \ {g})
<1>5. In(H) = mine \cup rest /\ mine \cap rest = {}
  OBVIOUS
<1>6. IsFiniteSet(mine) /\ IsFiniteSet(rest) /\ \A x \in mine \cup rest : h[x] \in Nat
  BY FS_Subset
<1>7. SumOf(h, In(H)) = SumOf(h, mine) + SumOf(h, rest)
  <2> HIDE DEF mine, rest, In, B
  <2> QED BY <1>5, <1>6, SumUnion
<1>8. SumOf(t, H) = t[g] + SumOf(t, H \ {g})
  <2>1. \A x \in H : t[x] \in Nat
    <3> SUFFICES ASSUME NEW x \in H PROVE t[x] \in Nat
      OBVIOUS
    <3> DEFINE his == {y \in S : of[y] = x}
    <3>1. t[x] = SumOf(h, his) /\ IsFiniteSet(his) /\ \A y \in his : h[y] \in Nat
      BY FS_Subset
    <3> HIDE DEF his
    <3> QED BY <3>1, SumNat
  <2> QED BY <1>2, <1>4, <2>1, SumWithout
<1>9. SumOf(t, H \ {g}) = SumOf(h, rest)
  BY <1>2, <1>4
<1>10. t[g] = SumOf(h, mine)
  BY <1>4
<1> HIDE DEF mine, rest, In
<1> QED BY <1>7, <1>8, <1>9, <1>10

\* Adding up the numbers of elements with each key.
LEMMA SumFibres ==
  ASSUME NEW E, IsFiniteSet(E), NEW key, NEW K, IsFiniteSet(K), NEW h,
         \A k \in K : h[k] = Cardinality(With(E, key, k))
  PROVE  SumOf(h, K) = Cardinality(WithAny(E, key, K))
<1> USE DEF With, WithAny
<1> DEFINE In(L) == {e \in E : key[e] \in L}
           B == {L \in SUBSET K : SumOf(h, L) # Cardinality(In(L))}
<1>1. SUFFICES ASSUME B # {} PROVE FALSE
  <2>1. K \in SUBSET K /\ K \notin B
    BY <1>1
  <2> QED BY <2>1
<1>2. PICK L \in B : IsFiniteSet(L) /\ \A k \in L : L \ {k} \notin B
  BY <1>1, SmallestSet
<1>3. L # {}
  <2>1. In({}) = {}
    OBVIOUS
  <2> QED BY <2>1, SumEmpty, FS_EmptySet
<1>4. PICK k \in L : TRUE
  BY <1>3
<1> DEFINE mine == {e \in E : key[e] = k}
           rest == In(L \ {k})
<1>5. In(L) = mine \cup rest /\ mine \cap rest = {}
  OBVIOUS
<1>6. IsFiniteSet(mine) /\ IsFiniteSet(rest)
  BY FS_Subset
<1>7. Cardinality(In(L)) = Cardinality(mine) + Cardinality(rest)
  <2>1. Cardinality({}) = 0 /\ Cardinality(mine) \in Nat /\ Cardinality(rest) \in Nat
    BY <1>6, FS_EmptySet, FS_CardinalityType
  <2> HIDE DEF mine, rest, In, B
  <2>2. Cardinality(mine \cup rest)
          = Cardinality(mine) + Cardinality(rest) - Cardinality(mine \cap rest)
    BY <1>6, FS_Union
  <2>3. Cardinality(In(L)) = Cardinality(mine \cup rest) /\ Cardinality(mine \cap rest) = 0
    BY <1>5, <2>1, Zenon
  <2> QED BY <2>1, <2>2, <2>3
<1>8. SumOf(h, L) = h[k] + SumOf(h, L \ {k})
  <2>1. \A l \in L : h[l] \in Nat
    <3> SUFFICES ASSUME NEW l \in L PROVE h[l] \in Nat
      OBVIOUS
    <3> DEFINE his == {e \in E : key[e] = l}
    <3>1. h[l] = Cardinality(his) /\ IsFiniteSet(his)
      BY FS_Subset
    <3> HIDE DEF his
    <3> QED BY <3>1, FS_CardinalityType
  <2> QED BY <1>2, <1>4, <2>1, SumWithout
<1>9. SumOf(h, L \ {k}) = Cardinality(rest)
  BY <1>2, <1>4
<1>10. h[k] = Cardinality(mine)
  BY <1>4
<1> HIDE DEF mine, rest, In
<1> QED BY <1>7, <1>8, <1>9, <1>10

\* The sums of Tables are such sums.
LEMMA SumIs ==
  ASSUME NEW rows, NEW keys, NEW f, IsFiniteSet(keys), NEW h, \A k \in keys : h[k] = rows[k][f]
  PROVE  Sum(rows, keys, f) = SumOf(h, keys)
<1> DEFINE Eq(i) == i = [s \in SUBSET keys |->
                          IF s = {} THEN 0
                          ELSE rows[CHOOSE x \in s : TRUE][f] + i[s \ {CHOOSE x \in s : TRUE}]]
           i == CHOOSE c : Eq(c)
           g == [k \in keys |-> rows[k][f]]
<1>1. Sum(rows, keys, f) = i[keys]
  BY DEF Sum, MapThenSumSet, MapThenFoldSet
<1>2. PICK j : Adds(j, g, keys)
  BY AddsExists
<1>3. Eq(j)
  <2>1. \A s \in SUBSET keys : s # {} => Pick(s) \in s /\ g[Pick(s)] = rows[Pick(s)][f]
    BY Picked
  <2> HIDE DEF g
  <2>2. j = [s \in SUBSET keys |-> IF s = {} THEN 0 ELSE rows[Pick(s)][f] + j[s \ {Pick(s)}]]
    BY <1>2, <2>1 DEF Adds
  <2> QED BY <2>2 DEF Pick
<1>4. Eq(i)
  <2> HIDE DEF Eq
  <2> QED BY <1>3, Zenon
<1>5. Adds(i, g, keys)
  <2>1. \A s \in SUBSET keys : s # {} => Pick(s) \in s /\ g[Pick(s)] = rows[Pick(s)][f]
    BY Picked
  <2> HIDE DEF g, i
  <2>2. i = [s \in SUBSET keys |-> IF s = {} THEN 0 ELSE rows[Pick(s)][f] + i[s \ {Pick(s)}]]
    BY <1>4 DEF Pick
  <2> QED BY <2>1, <2>2 DEF Adds
<1>6. Adds(CHOOSE a : Adds(a, h, keys), h, keys)
  BY SumAdds
<1> DEFINE a == CHOOSE c : Adds(c, h, keys)
<1>7. \A k \in keys : g[k] = h[k]
  OBVIOUS
<1> HIDE DEF i, a, g, Eq
<1>8. i[keys] = a[keys]
  BY <1>5, <1>6, <1>7, AddsUnique DEF a
<1> QED BY <1>1, <1>8, Zenon DEF SumOf, a

LEMMA TotalIs ==
  ASSUME NEW groups, IsFiniteSet(DOMAIN groups)
  PROVE  Total(groups) = SumOf(groups, DOMAIN groups)
BY DEF Total, MapThenSumSet, MapThenFoldSet, SumOf, Adds, Pick

-----------------------------------------------------------------------------
(* Tallies.                                                                 *)

\* What each counter counts.
Is(f, e) ==
  CASE f = "requests" -> TRUE
    [] f = "blocked"  -> Blocked(e)
    [] f = "allowed"  -> ~Blocked(e)
    [] f = "auth"     -> Blocked(e) /\ e.status = 407
    [] f = "denied"   -> Blocked(e) /\ e.status # 407
    [] f = "hit"      -> e.action = "hit"
    [] f = "miss"     -> e.action = "miss"

LEMMA TallyIs ==
  ASSUME NEW events
  PROVE  Tally(events) = [f \in Figures |-> Cardinality({e \in events : Is(f, e)})]
<1> DEFINE N(f) == Cardinality({e \in events : Is(f, e)})
<1>1. /\ {e \in events : Is("requests", e)} = events
      /\ {e \in events : Is("blocked", e)} = {e \in events : Blocked(e)}
      /\ {e \in events : Is("allowed", e)} = {e \in events : ~Blocked(e)}
      /\ {e \in events : Is("auth", e)} = {e \in events : Blocked(e) /\ e.status = 407}
      /\ {e \in events : Is("denied", e)} = {e \in events : Blocked(e) /\ e.status # 407}
      /\ {e \in events : Is("hit", e)} = {e \in events : e.action = "hit"}
      /\ {e \in events : Is("miss", e)} = {e \in events : e.action = "miss"}
  BY DEF Is
<1>2. Tally(events) = [requests |-> N("requests"), blocked |-> N("blocked"),
                       allowed |-> N("allowed"), auth |-> N("auth"), denied |-> N("denied"),
                       hit |-> N("hit"), miss |-> N("miss")]
  BY <1>1, Zenon DEF Tally
<1> HIDE DEF N
<1>3. [requests |-> N("requests"), blocked |-> N("blocked"), allowed |-> N("allowed"),
       auth |-> N("auth"), denied |-> N("denied"), hit |-> N("hit"), miss |-> N("miss")]
        = [f \in Figures |-> N(f)]
  BY DEF Figures
<1> QED BY <1>2, <1>3, Zenon DEF N

LEMMA TallyType ==
  ASSUME NEW events, IsFiniteSet(events), NEW f \in Figures
  PROVE  /\ Tally(events)[f] \in Nat /\ Tally(events)[f] <= Cardinality(events)
         /\ Cardinality(events) \in Nat /\ Tally(events).requests = Cardinality(events)
<1> DEFINE those == {e \in events : Is(f, e)}
<1>1. Tally(events)[f] = Cardinality(those)
  BY TallyIs
<1>2. those \subseteq events
  OBVIOUS
<1> HIDE DEF those
<1>3. Cardinality(those) \in Nat /\ Cardinality(events) \in Nat
      /\ Cardinality(those) <= Cardinality(events)
  BY <1>2, FS_Subset, FS_CardinalityType
<1> QED BY <1>1, <1>3 DEF Tally

\* More events count for no less.
LEMMA TallyGrows ==
  ASSUME NEW B, IsFiniteSet(B), NEW A \in SUBSET B, NEW f \in Figures
  PROVE  /\ Tally(A)[f] \in Nat /\ Tally(B)[f] \in Nat /\ Tally(A)[f] <= Tally(B)[f]
         /\ Tally(A).requests = Cardinality(A)
<1> DEFINE Those(S) == {e \in S : Is(f, e)}
<1>1. Tally(A)[f] = Cardinality(Those(A)) /\ Tally(B)[f] = Cardinality(Those(B))
  BY TallyIs
<1>2. Those(A) \subseteq Those(B) /\ Those(B) \subseteq B
  OBVIOUS
<1> HIDE DEF Those
<1>3. IsFiniteSet(Those(B))
  BY <1>2, FS_Subset
<1>4. /\ Cardinality(Those(A)) \in Nat /\ Cardinality(Those(B)) \in Nat
      /\ Cardinality(Those(A)) <= Cardinality(Those(B))
  BY <1>2, <1>3, FS_Subset, FS_CardinalityType
<1> QED BY <1>1, <1>4 DEF Tally

\* Tallies of different events add up.
LEMMA TallyUnion ==
  ASSUME NEW A, NEW B, IsFiniteSet(A), IsFiniteSet(B), A \cap B = {}
  PROVE  Plus(Tally(A), Tally(B)) = Tally(A \cup B)
<1>1. ASSUME NEW f \in Figures
      PROVE  Tally(A)[f] + Tally(B)[f] = Tally(A \cup B)[f]
  <2> DEFINE Of(S) == {e \in S : Is(f, e)}
  <2>1. Tally(A)[f] = Cardinality(Of(A)) /\ Tally(B)[f] = Cardinality(Of(B))
        /\ Tally(A \cup B)[f] = Cardinality(Of(A \cup B))
    BY TallyIs
  <2>2. Of(A) \subseteq A /\ Of(B) \subseteq B /\ Of(A \cup B) = Of(A) \cup Of(B)
    OBVIOUS
  <2> HIDE DEF Of
  <2>3. IsFiniteSet(Of(A)) /\ IsFiniteSet(Of(B)) /\ Of(A) \cap Of(B) = {}
    BY <2>2, FS_Subset
  <2>4. Cardinality(Of(A)) \in Nat /\ Cardinality(Of(B)) \in Nat
        /\ Cardinality(Of(A) \cap Of(B)) = 0
    BY <2>3, FS_CardinalityType, FS_EmptySet
  <2>5. Cardinality(Of(A) \cup Of(B))
          = Cardinality(Of(A)) + Cardinality(Of(B)) - Cardinality(Of(A) \cap Of(B))
    BY <2>3, FS_Union
  <2>6. Cardinality(Of(A \cup B)) = Cardinality(Of(A) \cup Of(B))
    BY <2>2, Zenon
  <2> QED BY <2>1, <2>4, <2>5, <2>6
<1>2. DOMAIN Tally(A) = Figures
  BY TallyIs
<1>3. Tally(A \cup B) = [f \in Figures |-> Tally(A \cup B)[f]]
  BY TallyIs
<1> QED BY <1>1, <1>2, <1>3 DEF Plus

\* A tally that more events do not change was of all of them.
LEMMA TallyStrict ==
  ASSUME NEW B, IsFiniteSet(B), NEW A \in SUBSET B, Tally(A) = Tally(B)
  PROVE  A = B
<1>1. Cardinality(A) = Cardinality(B)
  BY DEF Tally
<1> QED BY <1>1, FS_Subset

-----------------------------------------------------------------------------
(* Rows.                                                                    *)

\* A row for each key, with the tally of its events.
Tallies(events, key) == [k \in {key[e] : e \in events} |-> Tally(With(events, key, k))]

LEMMA TalliesSame ==
  ASSUME NEW events, NEW key, NEW other, \A e \in events : key[e] = other[e]
  PROVE  Tallies(events, key) = Tallies(events, other)
<1>1. {key[e] : e \in events} = {other[e] : e \in events}
  OBVIOUS
<1>2. ASSUME NEW k PROVE With(events, key, k) = With(events, other, k)
  BY DEF With
<1> QED BY <1>1, <1>2 DEF Tallies

\* A part of the rows is the rows of a part of the events.
LEMMA TalliesSome ==
  ASSUME NEW events, NEW key, NEW keys \in SUBSET DOMAIN Tallies(events, key)
  PROVE  [k \in keys |-> Tallies(events, key)[k]] = Tallies(WithAny(events, key, keys), key)
<1> DEFINE some == WithAny(events, key, keys)
<1>1. {key[e] : e \in some} = keys /\ keys \subseteq {key[e] : e \in events}
  BY DEF WithAny, Tallies
<1>2. ASSUME NEW k \in keys PROVE With(some, key, k) = With(events, key, k)
  BY DEF With, WithAny
<1> HIDE DEF some
<1>3. \A k \in keys : Tallies(events, key)[k] = Tally(With(some, key, k))
  BY <1>1, <1>2 DEF Tallies
<1>4. Tallies(some, key) = [k \in keys |-> Tally(With(some, key, k))]
  BY <1>1 DEF Tallies
<1>5. Tallies(some, key) = [k \in keys |-> Tallies(events, key)[k]]
  BY <1>3, <1>4
<1> QED BY <1>5 DEF some

\* An upsert adds up what two sets of events are counted as.
LEMMA TalliesUpsert ==
  ASSUME NEW A, NEW B, IsFiniteSet(A), IsFiniteSet(B), A \cap B = {}, NEW key
  PROVE  Upsert(Tallies(A, key), Tallies(B, key)) = Tallies(A \cup B, key)
<1> DEFINE KeysOf(es) == {key[e] : e \in es}
<1>1. KeysOf(A \cup B) = KeysOf(A) \cup KeysOf(B)
  OBVIOUS
<1>2. \A k : /\ k \notin KeysOf(B) => With(A \cup B, key, k) = With(A, key, k)
             /\ k \notin KeysOf(A) => With(A \cup B, key, k) = With(B, key, k)
  BY DEF With
<1>3. ASSUME NEW k
      PROVE  Plus(Tally(With(A, key, k)), Tally(With(B, key, k))) = Tally(With(A \cup B, key, k))
  <2>1. /\ With(A, key, k) \subseteq A /\ With(B, key, k) \subseteq B
        /\ With(A \cup B, key, k) = With(A, key, k) \cup With(B, key, k)
    BY DEF With
  <2>2. /\ IsFiniteSet(With(A, key, k)) /\ IsFiniteSet(With(B, key, k))
        /\ With(A, key, k) \cap With(B, key, k) = {}
    BY <2>1, FS_Subset
  <2>3. Plus(Tally(With(A, key, k)), Tally(With(B, key, k)))
          = Tally(With(A, key, k) \cup With(B, key, k))
    BY <2>2, TallyUnion
  <2> QED BY <2>1, <2>3, Zenon
<1>4. \A es : Tallies(es, key) = [k \in KeysOf(es) |-> Tally(With(es, key, k))]
  BY DEF Tallies
<1> HIDE DEF KeysOf
<1>5. Upsert(Tallies(A, key), Tallies(B, key))
        = [k \in KeysOf(A) \cup KeysOf(B) |->
             IF k \notin KeysOf(B) THEN Tally(With(A, key, k))
             ELSE IF k \notin KeysOf(A) THEN Tally(With(B, key, k))
             ELSE Plus(Tally(With(A, key, k)), Tally(With(B, key, k)))]
  BY <1>4 DEF Upsert
<1>6. \A k \in KeysOf(A) \cup KeysOf(B) :
        Tally(With(A \cup B, key, k)) =
          IF k \notin KeysOf(B) THEN Tally(With(A, key, k))
          ELSE IF k \notin KeysOf(A) THEN Tally(With(B, key, k))
          ELSE Plus(Tally(With(A, key, k)), Tally(With(B, key, k)))
  BY <1>2, <1>3, Zenon
<1> QED BY <1>1, <1>4, <1>5, <1>6

\* The events of a table, and of a row of it.
TableEvents(t, events) == {e \in events : CountedIn(t, e)}
RowEvents(t, events, k) == {e \in events : CountedIn(t, e) /\ Key(t, e) = k}

LEMMA BucketsAre ==
  ASSUME NEW t, NEW events
  PROVE  Buckets(t, events) = [k \in {Key(t, e) : e \in TableEvents(t, events)} |->
                                 Tally(RowEvents(t, events, k))]
<1>1. ASSUME NEW k
      PROVE  {e \in {x \in events : CountedIn(t, x)} : Key(t, e) = k} = RowEvents(t, events, k)
  BY DEF RowEvents
<1> QED BY <1>1 DEF Buckets, TableEvents

LEMMA BucketsTallies ==
  ASSUME NEW t, NEW all, NEW events \in SUBSET all
  PROVE  Buckets(t, events) = Tallies(TableEvents(t, events), [e \in all |-> Key(t, e)])
<1> DEFINE key == [e \in all |-> Key(t, e)]
           mine == TableEvents(t, events)
<1>1. mine \subseteq all
  BY DEF TableEvents
<1>2. {Key(t, e) : e \in mine} = {key[e] : e \in mine}
  BY <1>1
<1>3. ASSUME NEW k PROVE With(mine, key, k) = RowEvents(t, events, k)
  BY <1>1 DEF With, RowEvents, TableEvents
<1> HIDE DEF key, mine
<1>4. Tallies(mine, key) = Buckets(t, events)
  BY <1>2, <1>3, BucketsAre DEF Tallies, mine
<1> QED BY <1>4, Zenon DEF key, mine

LEMMA BucketsUpsert ==
  ASSUME NEW t, NEW A, NEW B, IsFiniteSet(A), IsFiniteSet(B), A \cap B = {}
  PROVE  Upsert(Buckets(t, A), Buckets(t, B)) = Buckets(t, A \cup B)
<1> DEFINE key == [e \in A \cup B |-> Key(t, e)]
           Of(es) == TableEvents(t, es)
<1>1. /\ Buckets(t, A) = Tallies(Of(A), key) /\ Buckets(t, B) = Tallies(Of(B), key)
      /\ Buckets(t, A \cup B) = Tallies(Of(A \cup B), key)
  BY BucketsTallies
<1>2. /\ Of(A) \subseteq A /\ Of(B) \subseteq B /\ Of(A \cup B) = Of(A) \cup Of(B)
  BY DEF TableEvents
<1> HIDE DEF key, Of
<1>3. IsFiniteSet(Of(A)) /\ IsFiniteSet(Of(B)) /\ Of(A) \cap Of(B) = {}
  BY <1>2, FS_Subset
<1>4. Upsert(Tallies(Of(A), key), Tallies(Of(B), key)) = Tallies(Of(A) \cup Of(B), key)
  BY <1>3, TalliesUpsert
<1> QED BY <1>1, <1>2, <1>4, Zenon

LEMMA BucketsSome ==
  ASSUME NEW t, NEW events, NEW keys \in SUBSET DOMAIN Buckets(t, events)
  PROVE  [k \in keys |-> Buckets(t, events)[k]]
           = Buckets(t, {e \in events : CountedIn(t, e) /\ Key(t, e) \in keys})
<1> DEFINE key == [e \in events |-> Key(t, e)]
           mine == TableEvents(t, events)
           some == {e \in events : CountedIn(t, e) /\ Key(t, e) \in keys}
<1>1. TableEvents(t, some) = WithAny(mine, key, keys) /\ some \subseteq events
  BY DEF TableEvents, WithAny
<1> HIDE DEF key, mine, some
<1>2. Buckets(t, events) = Tallies(mine, key)
  BY BucketsTallies DEF key, mine
<1>3. Buckets(t, some) = Tallies(WithAny(mine, key, keys), key)
  <2>1. Buckets(t, some) = Tallies(TableEvents(t, some), key)
    BY <1>1, BucketsTallies DEF key
  <2> QED BY <1>1, <2>1
<1>4. [k \in keys |-> Tallies(mine, key)[k]] = Tallies(WithAny(mine, key, keys), key)
  BY <1>2, TalliesSome
<1>5. [k \in keys |-> Buckets(t, events)[k]] = Buckets(t, some)
  BY <1>2, <1>3, <1>4, Zenon
<1> QED BY <1>5 DEF some

-----------------------------------------------------------------------------
(* Queries over rows.                                                       *)

\* A column added up over rows is the tally of the events that they count.
LEMMA RowsSum ==
  ASSUME NEW events, IsFiniteSet(events), NEW key, NEW rows, NEW keys, IsFiniteSet(keys),
         \A k \in keys : rows[k] = Tally(With(events, key, k)),
         NEW f \in Figures
  PROVE  Sum(rows, keys, f) = Tally(WithAny(events, key, keys))[f]
<1> DEFINE those == {e \in events : Is(f, e)}
           h == [k \in keys |-> rows[k][f]]
<1>1. IsFiniteSet(those)
  BY FS_Subset
<1>2. Sum(rows, keys, f) = SumOf(h, keys)
  BY SumIs
<1>3. \A k \in keys : h[k] = Cardinality(With(those, key, k))
  <2>1. ASSUME NEW k \in keys PROVE h[k] = Cardinality(With(those, key, k))
    <3>1. h[k] = Cardinality({x \in With(events, key, k) : Is(f, x)})
      BY TallyIs
    <3>2. {x \in With(events, key, k) : Is(f, x)} = With(those, key, k)
      BY DEF With
    <3> QED BY <3>1, <3>2
  <2> QED BY <2>1
<1>4. Tally(WithAny(events, key, keys))[f] = Cardinality(WithAny(those, key, keys))
  <2>1. {x \in WithAny(events, key, keys) : Is(f, x)} = WithAny(those, key, keys)
    BY DEF WithAny
  <2> QED BY <2>1, TallyIs
<1> HIDE DEF those, h
<1>5. SumOf(h, keys) = Cardinality(WithAny(those, key, keys))
  BY <1>1, <1>3, SumFibres
<1> QED BY <1>2, <1>4, <1>5

\* What a function makes of a finite set is finite.
LEMMA ImageFinite ==
  ASSUME NEW of, NEW S, IsFiniteSet(S)
  PROVE  IsFiniteSet({of[x] : x \in S})
<1> DEFINE T == {of[x] : x \in S}
           image == [x \in S |-> of[x]]
<1>1. image \in Surjection(S, T)
  BY DEF Surjection
<1> HIDE DEF T, image
<1>2. IsFiniteSet(T)
  BY <1>1, FS_Surjection
<1> QED BY <1>2 DEF T

\* The total of a grouping is the sum over its rows.
LEMMA GroupTotal ==
  ASSUME NEW rows, NEW keys, IsFiniteSet(keys), NEW f, \A k \in keys : rows[k][f] \in Nat,
         NEW of, NEW groups, DOMAIN groups = {of[k] : k \in keys},
         \A g \in DOMAIN groups : groups[g] = Sum(rows, With(keys, of, g), f)
  PROVE  Total(groups) = Sum(rows, keys, f)
<1> DEFINE h == [k \in keys |-> rows[k][f]]
           G == DOMAIN groups
<1>1. \A k \in keys : h[k] \in Nat
  OBVIOUS
<1>2. IsFiniteSet(G)
  BY ImageFinite
<1>3. \A g \in G : groups[g] = SumOf(h, With(keys, of, g))
  <2>1. ASSUME NEW g \in G PROVE groups[g] = SumOf(h, With(keys, of, g))
    <3>1. IsFiniteSet(With(keys, of, g)) /\ \A k \in With(keys, of, g) : h[k] = rows[k][f]
      BY FS_Subset DEF With
    <3>2. groups[g] = Sum(rows, With(keys, of, g), f)
      OBVIOUS
    <3> HIDE DEF h
    <3>3. Sum(rows, With(keys, of, g), f) = SumOf(h, With(keys, of, g))
      BY <3>1, SumIs
    <3> QED BY <3>2, <3>3
  <2> QED BY <2>1
<1>4. WithAny(keys, of, G) = keys
  BY DEF WithAny
<1>5. Sum(rows, keys, f) = SumOf(h, keys)
  <2>1. \A k \in keys : h[k] = rows[k][f]
    OBVIOUS
  <2> HIDE DEF h
  <2> QED BY <2>1, SumIs
<1> HIDE DEF h, G
<1>6. SumOf(groups, G) = SumOf(h, WithAny(keys, of, G))
  BY <1>1, <1>2, <1>3, SumGroups
<1>7. Total(groups) = SumOf(groups, G)
  BY <1>2, TotalIs DEF G
<1> QED BY <1>4, <1>5, <1>6, <1>7

\* The same for the rows of a table.
LEMMA TableSum ==
  ASSUME NEW t, NEW events, IsFiniteSet(events), NEW rows, NEW keys, IsFiniteSet(keys),
         \A k \in keys : rows[k] = Tally(RowEvents(t, events, k)), NEW f \in Figures
  PROVE  Sum(rows, keys, f) = Tally({e \in TableEvents(t, events) : Key(t, e) \in keys})[f]
<1> DEFINE key == [e \in events |-> Key(t, e)]
           mine == TableEvents(t, events)
<1>1. mine \subseteq events
  BY DEF TableEvents
<1>2. IsFiniteSet(mine)
  BY <1>1, FS_Subset
<1>3. ASSUME NEW k PROVE With(mine, key, k) = RowEvents(t, events, k)
  BY DEF With, RowEvents, TableEvents
<1>4. WithAny(mine, key, keys) = {e \in TableEvents(t, events) : Key(t, e) \in keys}
  BY <1>1 DEF WithAny
<1> HIDE DEF key, mine
<1>5. Sum(rows, keys, f) = Tally(WithAny(mine, key, keys))[f]
  BY <1>2, <1>3, RowsSum
<1> QED BY <1>4, <1>5

-----------------------------------------------------------------------------
(* Columns, and the clock.                                                  *)

Tabled == {"minute", "band", "code", "http", "hierarchy", "usercat", "blockedDomain",
           "blockedClient", "domain", "category", "client"}

LEMMA ColumnsOf ==
  /\ DOMAIN Columns = Tabled /\ DOMAIN Empty = Tabled \cup {"hourly"}
  /\ BlockedTables = {"blockedDomain", "blockedClient"}
  /\ Columns["minute"] = {} /\ Columns["code"] = {"action"} /\ Columns["http"] = {"status"}
  /\ Columns["domain"] = {"domain"} /\ Columns["category"] = {"client", "category"}
  /\ Columns["client"] = {"client", "user"} /\ Columns["blockedDomain"] = {"domain"}
  /\ Columns["blockedClient"] = {"domain", "client", "user"}
<1>1. /\ DOMAIN MinuteColumns = {"minute", "band"}
      /\ DOMAIN OpsColumns = {"code", "http", "hierarchy", "usercat"}
      /\ DOMAIN BlockedColumns = {"blockedDomain", "blockedClient"}
      /\ DOMAIN TrafficColumns = {"domain", "category", "client"}
  BY DEF MinuteColumns, OpsColumns, BlockedColumns, TrafficColumns
<1>2. /\ MinuteColumns["minute"] = {} /\ OpsColumns["code"] = {"action"}
      /\ OpsColumns["http"] = {"status"} /\ TrafficColumns["domain"] = {"domain"}
      /\ TrafficColumns["category"] = {"client", "category"}
      /\ TrafficColumns["client"] = {"client", "user"}
      /\ BlockedColumns["blockedDomain"] = {"domain"}
      /\ BlockedColumns["blockedClient"] = {"domain", "client", "user"}
  BY DEF MinuteColumns, OpsColumns, BlockedColumns, TrafficColumns
<1>3. DOMAIN Columns = Tabled
  BY <1>1 DEF Columns, Tabled
<1>4. DOMAIN Empty = Tabled \cup {"hourly"}
  BY <1>3 DEF Empty
<1>5. \A t \in Tabled : Columns[t] =
        CASE t \in DOMAIN MinuteColumns  -> MinuteColumns[t]
          [] t \in DOMAIN OpsColumns     -> OpsColumns[t]
          [] t \in DOMAIN BlockedColumns -> BlockedColumns[t]
          [] t \in DOMAIN TrafficColumns -> TrafficColumns[t]
  BY <1>3, Zenon DEF Columns
<1>6. /\ Columns["minute"] = {} /\ Columns["code"] = {"action"} /\ Columns["http"] = {"status"}
      /\ Columns["domain"] = {"domain"} /\ Columns["category"] = {"client", "category"}
      /\ Columns["client"] = {"client", "user"} /\ Columns["blockedDomain"] = {"domain"}
      /\ Columns["blockedClient"] = {"domain", "client", "user"}
  BY <1>1, <1>2, <1>5 DEF Tabled
<1> QED BY <1>1, <1>3, <1>4, <1>6 DEF BlockedTables

\* The columns of the row that an event is counted in.
LEMMA KeyFacts ==
  ASSUME NEW t, NEW e
  PROVE  /\ Key(t, e).branch = e.branch
         /\ Key(t, e).at = IF t \in BlockedTables THEN FloorHour(e.at) ELSE FloorMinute(e.at)
         /\ DOMAIN Key(t, e) = Columns[t] \cup {"at", "branch"}
         /\ \A c \in Columns[t] : c # "at" => Key(t, e)[c] = Column(c, e)
BY DEF Key, Column

LEMMA FloorFacts ==
  ASSUME NEW x \in Int
  PROVE  /\ FloorMinute(x) \in Int /\ FloorMinute(x) <= x /\ x - Minute < FloorMinute(x)
         /\ FloorHour(x) \in Int /\ FloorHour(x) <= x /\ x - Hour < FloorHour(x)
         /\ x \in Nat => FloorMinute(x) \in Nat /\ FloorHour(x) \in Nat
<1>1. ASSUME NEW n \in Nat \ {0}
      PROVE  x % n \in 0..(n - 1) /\ (x \in Nat => x % n <= x)
  <2>1. x % n \in 0..(n - 1)
    BY <1>1
  <2>2. CASE x < n
    BY <1>1, <2>1, <2>2
  <2>3. CASE x >= n
    BY <1>1, <2>1, <2>3
  <2> QED BY <2>1, <2>2, <2>3
<1>2. Minute \in Nat \ {0} /\ Hour \in Nat \ {0}
  BY TablesAssumption
<1>3. x % Minute \in 0..(Minute - 1) /\ (x \in Nat => x % Minute <= x)
  BY <1>1, <1>2
<1>4. x % Hour \in 0..(Hour - 1) /\ (x \in Nat => x % Hour <= x)
  BY <1>1, <1>2
<1> DEFINE m == x % Minute
           h == x % Hour
<1>5. /\ m \in 0..(Minute - 1) /\ (x \in Nat => m <= x) /\ FloorMinute(x) = x - m
      /\ h \in 0..(Hour - 1) /\ (x \in Nat => h <= x) /\ FloorHour(x) = x - h
  BY <1>3, <1>4 DEF FloorMinute, FloorHour
<1> HIDE DEF m, h
<1> QED BY <1>2, <1>5

\* Multiples of a number are at least that far apart.
LEMMA MultiplesApart ==
  ASSUME NEW n \in Nat \ {0}, NEW p \in Int, NEW q \in Int, n * p < n * q
  PROVE  n * p + n <= n * q
<1>1. p + 1 <= q
  <2>1. CASE q <= p
    <3>1. n * q <= n * p
      BY <2>1
    <3> QED BY <3>1
  <2> QED BY <2>1
<1>2. n * (p + 1) <= n * q
  BY <1>1
<1>3. n * (p + 1) = n * p + n
  OBVIOUS
<1> QED BY <1>2, <1>3

\* Whole hours compare as the times in them do.
LEMMA HourOrder ==
  ASSUME NEW x \in Int, NEW y \in Int
  PROVE  /\ FloorHour(x) >= FloorHour(y) <=> x >= FloorHour(y)
         /\ FloorHour(x) <= y <=> x <= FloorHour(y) + Hour - 1
         /\ y % Hour = 0 => FloorHour(y) = y
<1>1. Hour \in Nat \ {0}
  BY TablesAssumption
<1>2. PICK p \in Int : FloorHour(x) = Hour * p
  <2>1. x - (x % Hour) = Hour * (x \div Hour) /\ x \div Hour \in Int
    BY <1>1
  <2> QED BY <2>1 DEF FloorHour
<1>3. PICK q \in Int : FloorHour(y) = Hour * q
  <2>1. y - (y % Hour) = Hour * (y \div Hour) /\ y \div Hour \in Int
    BY <1>1
  <2> QED BY <2>1 DEF FloorHour
<1>4. Hour * p < Hour * q => Hour * p + Hour <= Hour * q
  BY <1>1, MultiplesApart
<1>5. Hour * q < Hour * p => Hour * q + Hour <= Hour * p
  BY <1>1, MultiplesApart
<1>6. /\ FloorHour(x) \in Int /\ FloorHour(x) <= x /\ x - Hour < FloorHour(x)
      /\ FloorHour(y) \in Int /\ FloorHour(y) <= y /\ y - Hour < FloorHour(y)
  BY FloorFacts
<1>7. y % Hour = 0 => FloorHour(y) = y
  BY DEF FloorHour
<1> DEFINE u == Hour * p
           v == Hour * q
<1> HIDE DEF u, v
<1>8. /\ FloorHour(x) = u /\ FloorHour(y) = v
      /\ u < v => u + Hour <= v
      /\ v < u => v + Hour <= u
  BY <1>2, <1>3, <1>4, <1>5 DEF u, v
<1> QED BY <1>1, <1>6, <1>7, <1>8

-----------------------------------------------------------------------------
(* Least and greatest times.                                                *)

\* A set of times that is not empty has a greatest member.
LEMMA Greatest ==
  ASSUME NEW n \in Nat, NEW S \in SUBSET (0..n), S # {}
  PROVE  \E m \in S : \A x \in S : x <= m
<1> DEFINE Above(x) == {y \in S : y > x}
           T == {Above(x) : x \in S}
<1>1. IsFiniteSet(S)
  <2>1. S \in SUBSET Nat /\ \A s \in S : s <= n
    OBVIOUS
  <2> QED BY <2>1, FS_BoundedSetOfNaturals
<1>2. T \subseteq FiniteSubsetsOf(S)
  <2>1. \A x \in S : Above(x) \in SUBSET S
    OBVIOUS
  <2>2. \A U \in SUBSET S : IsFiniteSet(U)
    BY <1>1, FS_Subset
  <2> HIDE DEF Above
  <2> QED BY <2>1, <2>2 DEF FiniteSubsetsOf
<1>3. PICK A \in T : \A B \in T : <<B, A>> \notin StrictSubsetOrdering(S)
  <2>1. IsWellFoundedOn(StrictSubsetOrdering(S), FiniteSubsetsOf(S))
    BY FS_StrictSubsetOrderingWellFounded
  <2>2. T # {}
    OBVIOUS
  <2> HIDE DEF T
  <2> QED BY <1>2, <2>1, <2>2, WFMin
<1>4. PICK m \in S : A = Above(m)
  BY <1>3
<1>5. ASSUME NEW x \in S, ~(x <= m) PROVE FALSE
  <2> x \in Int /\ m \in Int /\ x > m /\ \A y \in S : y \in Int
    BY <1>5
  <2>1. Above(x) \in T /\ Above(x) \subseteq Above(m) /\ x \in Above(m) /\ x \notin Above(x)
    <3>1. Above(x) \subseteq Above(m)
      <4>1. \A y \in S : y > x => y > m
        OBVIOUS
      <4> QED BY <4>1
    <3>2. x \in Above(m) /\ x \notin Above(x)
      OBVIOUS
    <3>3. Above(x) \in T
      OBVIOUS
    <3> QED BY <3>1, <3>2, <3>3
  <2>2. Above(x) \in SUBSET S /\ Above(m) \in SUBSET S
    OBVIOUS
  <2>3. <<Above(x), A>> \in StrictSubsetOrdering(S)
    <3> HIDE DEF Above, T
    <3> QED BY <1>4, <2>1, <2>2 DEF StrictSubsetOrdering
  <2> QED BY <1>3, <2>1, <2>3
<1> QED BY <1>5

LEMMA MaxIs ==
  ASSUME NEW S \in SUBSET Int, NEW m \in S, \A x \in S : x <= m
  PROVE  Max(S) = m
<1>1. \A x \in S : (\A y \in S : x >= y) => x = m
  OBVIOUS
<1>2. \A y \in S : m >= y
  OBVIOUS
<1> QED BY <1>1, <1>2 DEF Max

LEMMA MaxWithin ==
  ASSUME NEW n \in Nat, NEW S \in SUBSET (0..n), S # {}
  PROVE  Max(S) \in S
<1>1. PICK m \in S : \A x \in S : x <= m
  BY Greatest
<1>2. S \in SUBSET Int
  OBVIOUS
<1> QED BY <1>1, <1>2, MaxIs

\* And a least one.
LEMMA MinWithin ==
  ASSUME NEW n \in Nat, NEW S \in SUBSET (0..n), S # {}
  PROVE  Min(S) \in S /\ \A x \in S : Min(S) <= x
<1> DEFINE T == {n - x : x \in S}
<1>1. T \in SUBSET (0..n) /\ T # {}
  <2>1. \A x \in S : n - x \in 0..n
    OBVIOUS
  <2> QED BY <2>1
<1>2. PICK m \in T : \A x \in T : x <= m
  BY <1>1, Greatest
<1>3. PICK l \in S : m = n - l
  BY <1>2
<1>4. \A x \in S : l <= x
  <2>1. ASSUME NEW x \in S PROVE l <= x
    <3>1. n - x \in T
      OBVIOUS
    <3>2. n - x <= n - l
      BY <1>2, <1>3, <3>1
    <3> QED BY <3>2
  <2> QED BY <2>1
<1>5. \A x \in S : (\A y \in S : x <= y) => x = l
  <2>1. S \subseteq Int
    OBVIOUS
  <2> QED BY <1>4, <2>1
<1>6. Min(S) = l
  BY <1>4, <1>5 DEF Min
<1> QED BY <1>4, <1>6

LEMMA LeastSince ==
  ASSUME NEW n \in Nat, NEW S \in SUBSET (0..n), S # {}, NEW since \in Int
  PROVE  Min(S) >= since <=> \A x \in S : x >= since
<1>1. PICK m \in S : m = Min(S) /\ \A x \in S : m <= x
  BY MinWithin
<1>2. \A x \in S : x \in Int
  OBVIOUS
<1>3. m >= since <=> \A x \in S : x >= since
  BY <1>1, <1>2
<1> QED BY <1>1, <1>3

\* The new clients are those with no row before.
LEMMA NewClientsAre ==
  ASSUME NEW tables, NEW n \in Nat, NEW since \in Int, NEW until, NEW scope,
         \A r \in DOMAIN ClientRows(tables, 0, until, scope) : r.row.at \in 0..n
  PROVE  LET rows == ClientRows(tables, 0, until, scope) IN
         NewClients(tables, since, until, scope)
           = {c \in {r.row.client : r \in DOMAIN rows} :
                \A r \in DOMAIN rows : r.row.client = c => r.row.at >= since}
<1> DEFINE rows == ClientRows(tables, 0, until, scope)
           clients == {r.row.client : r \in DOMAIN rows}
           Of(c) == {r.row.at : r \in {q \in DOMAIN rows : q.row.client = c}}
<1>1. NewClients(tables, since, until, scope) = {c \in clients : Min(Of(c)) >= since}
  BY DEF NewClients
<1>2. \A r \in DOMAIN rows : r.row.at \in 0..n
  OBVIOUS
<1> HIDE DEF rows
<1>3. ASSUME NEW c \in clients
      PROVE  Min(Of(c)) >= since <=> \A r \in DOMAIN rows : r.row.client = c => r.row.at >= since
  <2>1. PICK r \in DOMAIN rows : r.row.client = c
    OBVIOUS
  <2>2. r.row.at \in Of(c)
    BY <2>1
  <2>3. Of(c) \in SUBSET (0..n)
    BY <1>2
  <2>4. (\A x \in Of(c) : x >= since) <=> \A q \in DOMAIN rows : q.row.client = c => q.row.at >= since
    OBVIOUS
  <2> HIDE DEF Of
  <2> QED BY <2>2, <2>3, <2>4, LeastSince
<1> HIDE DEF clients, Of
<1>4. NewClients(tables, since, until, scope)
        = {c \in clients : \A r \in DOMAIN rows : r.row.client = c => r.row.at >= since}
  BY <1>1, <1>3
<1> QED BY <1>4 DEF clients, rows

\* What is left of a minute's blocked requests, when no more are known than there are.
LEMMA OtherIs ==
  ASSUME NEW tables, NEW http, NEW mins, NEW m, NEW n \in Nat,
         Sum(tables.minute, {k \in mins : k.at = m}, "blocked")
           - StatusAt(tables, http, m, 403) - StatusAt(tables, http, m, 407) = n
  PROVE  OtherAt(tables, http, mins, m) = n
<1>1. OtherAt(tables, http, mins, m) = Max({0, n})
  BY DEF OtherAt
<1>2. {0, n} \in SUBSET Int /\ n \in {0, n} /\ \A x \in {0, n} : x <= n
  OBVIOUS
<1> QED BY <1>1, <1>2, MaxIs

=============================================================================
