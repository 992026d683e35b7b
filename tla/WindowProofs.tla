---------------------------- MODULE WindowProofs ----------------------------
(***************************************************************************)
(* Proofs about what NodeGraph's retrieval returns and how often its       *)
(* readers generate a detail, for any number of nodes, readers and slots.  *)
(***************************************************************************)
EXTENDS NodeGraphProofs, FiniteSetTheorems, FunctionTheorems

-----------------------------------------------------------------------------
(* The first k of an ordered set.                                          *)

StrictOrder(S, before) ==
  /\ \A x, y \in S : <<x, y>> \in before => <<y, x>> \notin before
  /\ \A x, y, z \in S : <<x, y>> \in before /\ <<y, z>> \in before => <<x, z>> \in before
  /\ \A x, y \in S : x # y => <<x, y>> \in before \/ <<y, x>> \in before

Ahead(S, x, before) == {y \in S : <<y, x>> \in before}

\* Each place of the order is the place of one element.
LEMMA Places ==
  ASSUME NEW S, IsFiniteSet(S), NEW before, StrictOrder(S, before)
  PROVE  /\ \A x \in S : Cardinality(Ahead(S, x, before)) \in 0..(Cardinality(S) - 1)
         /\ \A x, y \in S : Cardinality(Ahead(S, x, before)) = Cardinality(Ahead(S, y, before))
                              => x = y
         /\ \A i \in 0..(Cardinality(S) - 1) :
              \E x \in S : Cardinality(Ahead(S, x, before)) = i
<1>. DEFINE n == Cardinality(S)
            place == [x \in S |-> Cardinality(Ahead(S, x, before))]
            T == 0..(n - 1)
<1>1. n \in Nat
  BY FS_CardinalityType
<1>2. ASSUME NEW x \in S
      PROVE  /\ IsFiniteSet(Ahead(S, x, before))
             /\ Cardinality(Ahead(S, x, before)) \in T
  <2>1. Ahead(S, x, before) \in SUBSET (S \ {x})
    BY DEF Ahead, StrictOrder
  <2>2. IsFiniteSet(S \ {x}) /\ Cardinality(S \ {x}) = n - 1
    BY FS_RemoveElement
  <2>3. /\ IsFiniteSet(Ahead(S, x, before))
        /\ Cardinality(Ahead(S, x, before)) <= n - 1
    BY <2>1, <2>2, FS_Subset
  <2>4. Cardinality(Ahead(S, x, before)) \in Nat
    BY <2>3, FS_CardinalityType
  <2>. QED  BY <1>1, <2>3, <2>4
<1>3. ASSUME NEW x \in S, NEW y \in S, <<x, y>> \in before
      PROVE  place[x] # place[y]
  <2>1. /\ Ahead(S, x, before) \in SUBSET Ahead(S, y, before)
        /\ x \in Ahead(S, y, before) /\ x \notin Ahead(S, x, before)
    BY <1>3 DEF Ahead, StrictOrder
  <2>2. Cardinality(Ahead(S, y, before)) # Cardinality(Ahead(S, x, before))
    BY <1>2, <2>1, FS_Subset
  <2>. QED  BY <2>2
<1>4. place \in [S -> T]
  BY <1>2
<1>5. \A x, y \in S : place[x] = place[y] => x = y
  BY <1>3 DEF StrictOrder
<1>6. place \in Injection(S, T)
  <2>. HIDE DEF place, T
  <2>. QED  BY <1>4, <1>5, Fun_IsInj
<1>7. IsFiniteSet(T) /\ Cardinality(T) = n
  BY <1>1, FS_Interval
<1>8. place \in Surjection(S, T)
  <2>. HIDE DEF place, T
  <2>. QED  BY <1>6, <1>7, FS_Injection
<1>9. \A i \in T : \E x \in S : place[x] = i
  <2>. HIDE DEF place, T
  <2>. QED  BY <1>8, Fun_SurjectionProperties
<1>. QED  BY <1>2, <1>5, <1>9

\* There is a first element.
LEMMA FirstExists ==
  ASSUME NEW S, IsFiniteSet(S), S # {}, NEW before, StrictOrder(S, before)
  PROVE  \E x \in S : \A y \in S : <<y, x>> \notin before
<1>1. Cardinality(S) \in Nat /\ Cardinality(S) # 0
  BY FS_CardinalityType, FS_EmptySet
<1>2. PICK x \in S : Cardinality(Ahead(S, x, before)) = 0
  BY <1>1, Places
<1>3. Ahead(S, x, before) \in SUBSET S
  BY DEF Ahead
<1>4. Ahead(S, x, before) = {}
  BY <1>2, <1>3, FS_Subset, FS_EmptySet
<1>. QED  BY <1>4 DEF Ahead

\* There are k of the first k, or all there are.
LEMMA FirstKCount ==
  ASSUME NEW S, IsFiniteSet(S), NEW before, StrictOrder(S, before), NEW k \in Nat
  PROVE  LET F == FirstK(S, k, before)
         IN  /\ F \subseteq S /\ IsFiniteSet(F) /\ Cardinality(F) <= k
             /\ F # S => Cardinality(F) = k
             /\ Cardinality(S) <= k => F = S
<1>. DEFINE n == Cardinality(S)
            place(x) == Cardinality(Ahead(S, x, before))
            F == FirstK(S, k, before)
            m == IF k <= n THEN k ELSE n
            T == 0..(m - 1)
            g == [x \in F |-> place(x)]
<1>1. n \in Nat
  BY FS_CardinalityType
<1>2. F = {x \in S : place(x) < k}
  BY DEF FirstK, Ahead
<1>3. F \subseteq S /\ IsFiniteSet(F)
  <2>1. F \in SUBSET S
    BY <1>2
  <2>. QED  BY <2>1, FS_Subset
<1>4. \A x \in S : place(x) \in 0..(n - 1)
  BY Places
<1>5. \A x \in F : place(x) \in T
  BY <1>1, <1>2, <1>4
<1>6. \A x, y \in F : place(x) = place(y) => x = y
  BY <1>3, Places
<1>7. \A i \in T : \E x \in F : place(x) = i
  <2>1. \A i \in T : i \in 0..(n - 1) /\ i < k
    BY <1>1
  <2>2. \A i \in 0..(n - 1) : \E x \in S : place(x) = i
    BY Places
  <2>. HIDE DEF place, T, F, n
  <2>. QED  BY <1>2, <2>1, <2>2
<1>8. g \in Bijection(F, T)
  <2>. HIDE DEF place, T, F
  <2>1. g \in [F -> T]
    BY <1>5
  <2>2. \A x, y \in F : g[x] = g[y] => x = y
    BY <1>6
  <2>3. \A i \in T : \E x \in F : g[x] = i
    BY <1>7
  <2>. HIDE DEF g
  <2>. QED  BY <2>1, <2>2, <2>3, Fun_IsBij
<1>9. Cardinality(T) = Cardinality(F)
  <2>1. ExistsBijection(F, T)
    BY <1>8, Fun_ExistsBij
  <2>. QED  BY <1>3, <2>1, FS_Bijection
<1>10. Cardinality(T) = m
  <2>1. m \in Nat
    BY <1>1
  <2>. HIDE DEF m
  <2>2. 0 \in Int /\ m - 1 \in Int
    BY <2>1
  <2>3. Cardinality(T) = IF 0 > m - 1 THEN 0 ELSE (m - 1) - 0 + 1
    BY <2>2, FS_Interval
  <2>. QED  BY <2>1, <2>3
<1>11. Cardinality(F) = m
  BY <1>9, <1>10
<1>12. n <= k => F = S
  BY <1>1, <1>2, <1>4
<1>13. Cardinality(F) <= k /\ (n <= k \/ Cardinality(F) = k)
  <2>. HIDE DEF F, n
  <2>. QED  BY <1>1, <1>11
<1>. QED  BY <1>3, <1>12, <1>13

\* list_passive and list_active order by id, that is by creation.
LEMMA NewerOrder ==
  ASSUME NEW S \in SUBSET Nat
  PROVE  StrictOrder(S, Newer(S))
<1>1. \A x, y \in S : <<x, y>> \in Newer(S) <=> x > y
  BY DEF Newer
<1>. QED  BY <1>1 DEF StrictOrder

LEMMA BetterPairs ==
  ASSUME NEW S, NEW score, NEW x \in S, NEW y \in S
  PROVE  <<x, y>> \in Better(S, score) <=>
           score[x] > score[y] \/ (score[x] = score[y] /\ x < y)
BY DEF Better

LEMMA BetterOrder ==
  ASSUME NEW S \in SUBSET Nat, NEW score, \A x \in S : score[x] \in Nat
  PROVE  StrictOrder(S, Better(S, score))
<1>1. ASSUME NEW x \in S, NEW y \in S, <<x, y>> \in Better(S, score)
      PROVE  <<y, x>> \notin Better(S, score)
  BY <1>1, BetterPairs
<1>2. ASSUME NEW x \in S, NEW y \in S, NEW z \in S,
             <<x, y>> \in Better(S, score), <<y, z>> \in Better(S, score)
      PROVE  <<x, z>> \in Better(S, score)
  BY <1>2, BetterPairs
<1>3. ASSUME NEW x \in S, NEW y \in S, x # y
      PROVE  <<x, y>> \in Better(S, score) \/ <<y, x>> \in Better(S, score)
  BY <1>3, BetterPairs
<1>. QED  BY <1>1, <1>2, <1>3 DEF StrictOrder

-----------------------------------------------------------------------------
(* What a retrieval is put together from.                                  *)

LEMMA ScopesInTable ==
  ASSUME TypeOK, NEW s, NEW c
  PROVE  /\ Passives(nodes, s, c) \subseteq InScope(nodes, s, c)
         /\ Actives(nodes, s, c) \subseteq InScope(nodes, s, c)
         /\ InScope(nodes, s, c) \subseteq TopLevel(nodes)
         /\ TopLevel(nodes) \subseteq Saved
         /\ Saved \subseteq Nat /\ IsFiniteSet(Saved)
<1>1. Saved \in SUBSET NodeIds
  BY DEF TypeOK
<1>2. MaxNodeId \in Nat /\ IsFiniteSet(NodeIds)
  BY FS_Interval, BoundAssumption DEF NodeIds
<1>3. IsFiniteSet(Saved)
  BY <1>1, <1>2, FS_Subset
<1>4. Saved \subseteq Nat
  BY <1>1 DEF NodeIds
<1>. QED  BY <1>3, <1>4 DEF Passives, Actives, InScope, TopLevel, Saved

\* The score of a neighbour is that of the best node that links to it.
LEMMA BestScore ==
  ASSUME NEW Q \in SUBSET Nat, IsFiniteSet(Q), Q # {}, NEW sim, \A q \in Q : sim[q] \in Nat
  PROVE  (CHOOSE v \in {sim[r] : r \in Q} : \A r \in Q : sim[r] <= v) \in Nat
<1>1. PICK q \in Q : \A r \in Q : <<r, q>> \notin Better(Q, sim)
  BY BetterOrder, FirstExists
<1>2. ASSUME NEW r \in Q  PROVE sim[r] <= sim[q]
  <2>1. ~(sim[r] > sim[q])
    BY <1>1, BetterPairs
  <2>2. sim[r] \in Nat /\ sim[q] \in Nat
    OBVIOUS
  <2>. QED  BY <2>1, <2>2
<1>3. \E v \in {sim[r] : r \in Q} : \A r \in Q : sim[r] <= v
  BY <1>2
<1>. DEFINE V == {sim[r] : r \in Q}
<1>4. V \subseteq Nat
  OBVIOUS
<1>. HIDE DEF V
<1>5. (CHOOSE v \in V : \A r \in Q : sim[r] <= v) \in V
  BY <1>3 DEF V
<1>. QED  BY <1>4, <1>5 DEF V

\* A window is its primary part, nodes in scope that leave some room, and the
\* neighbours found for that room, children taken out of them again.
LEMMA WindowParts ==
  ASSUME TypeOK, NEW s \in Sessions, NEW sim \in Queries(s)
  PROVE  LET R == Retrieve(nodes, s, cross, sim)
         IN  \E primary, found \in SUBSET Saved :
               /\ R.leads \subseteq primary /\ primary \subseteq InScope(nodes, s, cross)
               /\ R.neighbours = Neighbours(nodes, R.leads, primary)
               /\ R.neighbours \subseteq Saved
               /\ found \subseteq R.neighbours
               /\ R.dropped = found \ DropChildren(nodes, found)
               /\ R.window = primary \cup DropChildren(nodes, found)
               /\ Cardinality(primary) + Cardinality(found) <= MaxNodes
               /\ found # R.neighbours =>
                    Cardinality(primary) + Cardinality(found) = MaxNodes
<1>. DEFINE P == Passives(nodes, s, cross)
            A == Actives(nodes, s, cross) \ P
            top == FirstK(P, MaxNodes, Newer(P))
            room == MaxNodes - Cardinality(P)
            ranked == IF Cardinality(P) >= MaxNodes THEN {} ELSE CosineSearch(A, sim, room)
            primary == top \cup ranked
            leads == Leads(ranked, sim)
            N == Neighbours(nodes, leads, primary)
            Q(x) == {q \in leads : x \in nodes[q].links}
            best == [x \in N |-> CHOOSE v \in {sim[r] : r \in Q(x)} :
                                  \A r \in Q(x) : sim[r] <= v]
            left == MaxNodes - Cardinality(primary)
            found == Expand(nodes, leads, primary, sim)
            R == Retrieve(nodes, s, cross, sim)
<1>1. R = [leads |-> leads, neighbours |-> N, dropped |-> found \ DropChildren(nodes, found),
           window |-> primary \cup DropChildren(nodes, found)]
  BY DEF Retrieve
<1>2. found = FirstK(N, left, Better(N, best)) \cap Saved
  BY DEF Expand, Saved
<1>3. /\ P \subseteq InScope(nodes, s, cross) /\ A \subseteq InScope(nodes, s, cross)
      /\ InScope(nodes, s, cross) \subseteq Saved /\ A \subseteq Actives(nodes, s, cross)
      /\ A \cap P = {}
  BY ScopesInTable
<1>4. Saved \subseteq Nat /\ IsFiniteSet(Saved) /\ MaxNodes \in Nat
  BY ScopesInTable, ScoreAssumption
<1>5. \A x \in A : sim[x] \in Nat
  BY <1>3, ScoreAssumption DEF Queries
<1>6. /\ P \in SUBSET Nat /\ A \in SUBSET Nat /\ IsFiniteSet(P) /\ IsFiniteSet(A)
      /\ Cardinality(P) \in Nat
  <2>1. P \in SUBSET Saved /\ A \in SUBSET Saved
    BY <1>3
  <2>. HIDE DEF P, A
  <2>. QED  BY <1>4, <2>1, FS_Subset, FS_CardinalityType
<1>. HIDE DEF P, A
<1>7. /\ top \subseteq P /\ IsFiniteSet(top) /\ Cardinality(top) <= MaxNodes
      /\ Cardinality(P) <= MaxNodes => top = P
  <2>1. StrictOrder(P, Newer(P))
    BY <1>6, NewerOrder
  <2>. QED  BY <1>4, <1>6, <2>1, FirstKCount
<1>8. /\ ranked \subseteq A /\ IsFiniteSet(ranked)
      /\ Cardinality(P) < MaxNodes => Cardinality(ranked) <= room
  <2>1. CASE Cardinality(P) >= MaxNodes
    BY <1>4, <1>6, <2>1, FS_EmptySet
  <2>2. CASE Cardinality(P) < MaxNodes
    <3>. DEFINE F == FirstK(A, room, Better(A, sim))
    <3>1. room \in Nat
      BY <1>4, <1>6, <2>2
    <3>2. StrictOrder(A, Better(A, sim))
      BY <1>5, <1>6, BetterOrder
    <3>3. F \subseteq A /\ IsFiniteSet(F) /\ Cardinality(F) <= room
      <4>. HIDE DEF room
      <4>. QED  BY <1>6, <3>1, <3>2, FirstKCount
    <3>4. ranked \in SUBSET F
      BY <1>4, <1>6, <2>2 DEF CosineSearch
    <3>5. IsFiniteSet(ranked) /\ Cardinality(ranked) <= Cardinality(F)
      <4>. HIDE DEF ranked, F
      <4>. QED  BY <3>3, <3>4, FS_Subset
    <3>6. Cardinality(ranked) \in Nat /\ Cardinality(F) \in Nat
      <4>. HIDE DEF ranked, F
      <4>. QED  BY <3>3, <3>5, FS_CardinalityType
    <3>. HIDE DEF ranked, F
    <3>. QED  BY <3>1, <3>3, <3>4, <3>5, <3>6
  <2>. QED  BY <1>4, <1>6, <2>1, <2>2
<1>. HIDE DEF top
<1>9. /\ primary \subseteq InScope(nodes, s, cross) /\ primary \in SUBSET Saved
      /\ ranked \subseteq primary
  <2>. HIDE DEF ranked
  <2>. QED  BY <1>3, <1>7, <1>8
<1>10. IsFiniteSet(primary) /\ Cardinality(primary) \in Nat /\ Cardinality(primary) <= MaxNodes
  <2>1. CASE Cardinality(P) >= MaxNodes
    <3>1. primary = top
      BY <1>4, <1>6, <2>1
    <3>. HIDE DEF primary
    <3>. QED  BY <1>7, <3>1, FS_CardinalityType
  <2>2. CASE Cardinality(P) < MaxNodes
    <3>. HIDE DEF ranked
    <3>1. top = P /\ top \cap ranked = {}
      BY <1>3, <1>4, <1>6, <1>7, <1>8, <2>2
    <3>2. /\ IsFiniteSet(primary)
          /\ Cardinality(primary) = Cardinality(top) + Cardinality(ranked) - Cardinality({})
      BY <1>7, <1>8, <3>1, FS_Union
    <3>3. Cardinality({}) = 0 /\ Cardinality(ranked) \in Nat
      BY <1>8, FS_EmptySet, FS_CardinalityType
    <3>. HIDE DEF primary
    <3>. QED  BY <1>4, <1>6, <1>8, <2>2, <3>1, <3>2, <3>3
  <2>. QED  BY <1>4, <1>6, <2>1, <2>2
<1>11. left \in Nat
  BY <1>4, <1>10
<1>12. N \in SUBSET Saved
  <2>. HIDE DEF ranked, primary
  <2>1. leads \subseteq Saved
    BY <1>9 DEF Leads
  <2>. QED  BY <2>1 DEF TypeOK, Neighbours
<1>13. IsFiniteSet(N) /\ N \in SUBSET Nat
  <2>. HIDE DEF N
  <2>. QED  BY <1>4, <1>12, FS_Subset
<1>14. \A x \in N : best[x] \in Nat
  <2>1. ASSUME NEW x \in N
        PROVE  (CHOOSE v \in {sim[r] : r \in Q(x)} : \A r \in Q(x) : sim[r] <= v) \in Nat
    <3>. HIDE DEF ranked
    <3>1. Q(x) \in SUBSET ranked /\ Q(x) # {}
      BY <2>1 DEF Neighbours, Leads
    <3>2. IsFiniteSet(Q(x)) /\ Q(x) \in SUBSET Nat /\ \A q \in Q(x) : sim[q] \in Nat
      <4>1. IsFiniteSet(ranked) /\ ranked \subseteq A
        BY <1>8
      <4>. HIDE DEF Q
      <4>2. IsFiniteSet(Q(x))
        BY <3>1, <4>1, FS_Subset
      <4>. QED  BY <1>5, <1>6, <3>1, <4>1, <4>2
    <3>. HIDE DEF Q
    <3>. QED  BY <3>1, <3>2, BestScore
  <2>. HIDE DEF N, Q
  <2>. QED  BY <2>1
<1>15. /\ FirstK(N, left, Better(N, best)) \subseteq N
       /\ IsFiniteSet(FirstK(N, left, Better(N, best)))
       /\ Cardinality(FirstK(N, left, Better(N, best))) <= left
       /\ FirstK(N, left, Better(N, best)) # N =>
             Cardinality(FirstK(N, left, Better(N, best))) = left
  <2>. HIDE DEF N, best, left
  <2>1. StrictOrder(N, Better(N, best))
    BY <1>13, <1>14, BetterOrder
  <2>. QED  BY <1>11, <1>13, <2>1, FirstKCount
<1>16. /\ found \subseteq N /\ IsFiniteSet(found) /\ Cardinality(found) <= left
       /\ found # N => Cardinality(found) = left
  <2>. HIDE DEF N, best, left, found
  <2>1. found = FirstK(N, left, Better(N, best))
    BY <1>2, <1>12, <1>15
  <2>. QED  BY <1>15, <2>1
<1>17. /\ Cardinality(primary) + Cardinality(found) <= MaxNodes
       /\ found # N => Cardinality(primary) + Cardinality(found) = MaxNodes
  <2>1. Cardinality(found) \in Nat
    <3>. HIDE DEF found
    <3>. QED  BY <1>16, FS_CardinalityType
  <2>. HIDE DEF found, primary, N
  <2>. QED  BY <1>4, <1>10, <1>16, <2>1
<1>18. /\ R.leads = leads /\ R.neighbours = N
       /\ R.dropped = found \ DropChildren(nodes, found)
       /\ R.window = primary \cup DropChildren(nodes, found)
  <2>. HIDE DEF found, primary, N, leads, ranked, R
  <2>. QED  BY <1>1
<1>19. N = Neighbours(nodes, leads, primary)
  OBVIOUS
<1>20. found \in SUBSET Saved
  <2>. HIDE DEF found, N
  <2>. QED  BY <1>12, <1>16
<1>22. leads \subseteq ranked
  <2>. HIDE DEF ranked
  <2>. QED  BY DEF Leads
<1>. HIDE DEF found, primary, N, leads, ranked, R
<1>21. /\ R.leads \subseteq primary /\ primary \subseteq InScope(nodes, s, cross)
       /\ R.neighbours = Neighbours(nodes, R.leads, primary)
       /\ R.neighbours \subseteq Saved
       /\ found \subseteq R.neighbours
       /\ R.dropped = found \ DropChildren(nodes, found)
       /\ R.window = primary \cup DropChildren(nodes, found)
       /\ Cardinality(primary) + Cardinality(found) <= MaxNodes
       /\ found # R.neighbours => Cardinality(primary) + Cardinality(found) = MaxNodes
  BY <1>9, <1>12, <1>16, <1>17, <1>18, <1>19, <1>22
<1>. QED  BY <1>9, <1>20, <1>21 DEF R

-----------------------------------------------------------------------------
(* What a step leaves of the rows.                                         *)

\* No step removes a row, moves it to another session or drops its detail.
LEMMA RowsStay ==
  ASSUME GraphInv, [Next]_vars
  PROVE  \A x \in Saved : /\ x \in Saved' /\ nodes'[x].sid = nodes[x].sid
                          /\ nodes'[x].by = nodes[x].by
                          /\ nodes[x].detail => nodes'[x].detail
<1>. DEFINE Kept == \A x \in Saved : /\ x \in Saved' /\ nodes'[x].sid = nodes[x].sid
                                     /\ nodes'[x].by = nodes[x].by
                                     /\ nodes[x].detail => nodes'[x].detail
<1>. SUFFICES Kept
  OBVIOUS
<1>1. TypeOK /\ WorkInv
  BY DEF GraphInv
<1>2. ASSUME NEW x, Added(x)  PROVE Kept
  BY <1>2 DEF Added
<1>3. CASE nodes' = nodes
  BY <1>3 DEF Saved
<1>4. CASE \/ \E s \in Sessions, m \in TrimModes : SaveNode(s, m)
           \/ \E s \in Sessions, m \in HookModes : HookSave(s, m)
           \/ \E s \in Sessions : \E L \in SUBSET Saved : RpcSave(s, L)
  <2>. HIDE DEF Kept
  <2>1. \E x \in FreeIds : Added(x)
    BY <1>1, <1>4, NodeSaved
  <2>. QED  BY <1>2, <2>1
<1>5. CASE SaveChild
  <2>. HIDE DEF Kept
  <2>1. \E k \in wrk.kids \ Saved : Added(k)
    BY <1>1, <1>5, ChildSaved
  <2>. QED  BY <1>2, <2>1
<1>6. CASE SaveParent
  <2>. HIDE DEF Kept
  <2>1. Added(wrk.parent)
    BY <1>1, <1>6, ParentSaved
  <2>. QED  BY <1>2, <2>1
<1>7. CASE AddLink
  <2>1. /\ nodes' \in [Saved -> Rows]
        /\ \A x \in Saved : /\ nodes'[x].by = nodes[x].by
                            /\ nodes'[x].detail = nodes[x].detail
                            /\ nodes'[x].sid = nodes[x].sid
    BY <1>1, <1>7, LinkAdded
  <2>2. Saved' = Saved
    BY <2>1 DEF Saved
  <2>. QED  BY <2>1, <2>2
<1>8. ASSUME NEW x, \/ nodes' = [nodes EXCEPT ![x].raw = TRUE]
                    \/ nodes' = [nodes EXCEPT ![x].detail = TRUE]
      PROVE  Kept
  BY <1>1, <1>8, FlagSet
<1>9. CASE SaveRawTurns \/ \E r \in Readers : UpdateDetail(r)
  <2>. HIDE DEF Kept
  <2>. QED  BY <1>8, <1>9 DEF SaveRawTurns, UpdateDetail
<1>10. CASE \/ FindPeers \/ LinksDone \/ Synthesize \/ EndCheck
            \/ BundleSaveRaises \/ Restart
            \/ \E r \in Readers : \/ \E x \in ReadIds : ReadNode(r, x)
                                  \/ ReadTurns(r) \/ Generate(r)
  <2>1. nodes' = nodes
    BY <1>10 DEF FindPeers, LinksDone, Synthesize, EndCheck, BundleSaveRaises, Restart,
       ReadNode, ReadTurns, Generate
  <2>. QED  BY <1>3, <2>1
<1>11. CASE UNCHANGED vars
  BY <1>3, <1>11 DEF vars
<1>. HIDE DEF Kept
<1>. QED  BY <1>4, <1>5, <1>6, <1>7, <1>9, <1>10, <1>11 DEF Next, WorkerStep, ReaderStep

-----------------------------------------------------------------------------
(* How often a detail is generated.                                        *)

\* The threads that have read node x without a detail and are not done.
Busy(x) == {r \in Readers : rdr[r].pc # "idle" /\ rdr[r].node = x}

\* A thread only starts on a node that has no detail, so one that was never
\* generated; from then on the threads at work on it can only get fewer.
GenInv ==
  \A x \in ReadIds :
    /\ gens[x] > 0 => x \in Saved /\ nodes[x].detail
    /\ gens[x] + Cardinality(Busy(x)) <= Cardinality(Readers)

LEMMA BusyCount ==
  ASSUME NEW B, NEW C, B \subseteq C, C \subseteq Readers
  PROVE  /\ IsFiniteSet(B) /\ IsFiniteSet(C)
         /\ {Cardinality(B), Cardinality(C), Cardinality(Readers)} \subseteq Nat
         /\ Cardinality(B) <= Cardinality(C) /\ Cardinality(C) <= Cardinality(Readers)
<1>1. B \in SUBSET C /\ C \in SUBSET Readers
  OBVIOUS
<1>2. IsFiniteSet(C) /\ Cardinality(C) <= Cardinality(Readers)
  BY <1>1, ReaderAssumption, FS_Subset
<1>3. IsFiniteSet(B) /\ Cardinality(B) <= Cardinality(C)
  BY <1>1, <1>2, FS_Subset
<1>. QED  BY <1>2, <1>3, ReaderAssumption, FS_CardinalityType

\* Threads that neither start nor finish a generation.
LEMMA FewerBusy ==
  ASSUME GraphInv, GenInv, [Next]_vars, UNCHANGED gens,
         \A x \in ReadIds : Busy(x)' \subseteq Busy(x)
  PROVE  GenInv'
<1>. SUFFICES ASSUME NEW x \in ReadIds
              PROVE  /\ gens[x] > 0 => x \in Saved' /\ nodes'[x].detail
                     /\ gens[x] + Cardinality(Busy(x)') <= Cardinality(Readers)
  BY DEF GenInv
<1>1. gens[x] \in Nat
  BY DEF GraphInv, TypeOK
<1>2. gens[x] > 0 => x \in Saved' /\ nodes'[x].detail
  BY RowsStay DEF GenInv
<1>3. Busy(x)' \subseteq Busy(x) /\ Busy(x) \subseteq Readers
  BY DEF Busy
<1>4. gens[x] + Cardinality(Busy(x)) <= Cardinality(Readers)
  BY DEF GenInv
<1>. QED  BY <1>1, <1>2, <1>3, <1>4, BusyCount

LEMMA GenStep ==
  ASSUME GraphInv, GenInv, [Next]_vars
  PROVE  GenInv'
<1>1. /\ rdr \in [Readers -> [pc : RdrPcs, node : NodeIds \cup {None}]]
      /\ gens \in [ReadIds -> Nat]
      /\ TypeOK /\ ReaderInv
  BY DEF GraphInv, TypeOK
<1>2. CASE UNCHANGED <<rdr, gens>>
  <2>1. \A x \in ReadIds : Busy(x)' \subseteq Busy(x)
    BY <1>2 DEF Busy
  <2>. QED  BY <1>2, <2>1, FewerBusy
<1>3. CASE Restart
  <2>1. \A x \in ReadIds : Busy(x)' = {}
    BY <1>3, IdleTypes DEF Restart, Busy
  <2>2. UNCHANGED gens
    BY <1>3 DEF Restart
  <2>. QED  BY <2>1, <2>2, FewerBusy
<1>4. ASSUME NEW r \in Readers, ReadTurns(r) \/ Generate(r)
      PROVE  GenInv'
  <2>1. /\ rdr[r].pc # "idle" /\ UNCHANGED gens
        /\ \E q : rdr' = [rdr EXCEPT ![r] = q] /\ (q.node = rdr[r].node \/ q = IdleReader)
    BY <1>1, <1>4 DEF ReadTurns, Generate
  <2>2. \A x \in ReadIds : Busy(x)' \subseteq Busy(x)
    BY <1>1, <2>1, IdleTypes DEF Busy
  <2>. QED  BY <2>1, <2>2, FewerBusy
<1>5. ASSUME NEW r \in Readers, NEW x \in ReadIds, ReadNode(r, x)
      PROVE  GenInv'
  <2>1. /\ rdr[r].pc = "idle" /\ x \in Saved /\ ~nodes[x].detail /\ UNCHANGED <<nodes, gens>>
        /\ rdr' = [rdr EXCEPT ![r] = [pc |-> "turns", node |-> x]]
    BY <1>5 DEF ReadNode
  <2>. SUFFICES ASSUME NEW z \in ReadIds
                PROVE  /\ gens[z] > 0 => z \in Saved /\ nodes[z].detail
                       /\ gens[z] + Cardinality(Busy(z)') <= Cardinality(Readers)
    BY <2>1 DEF GenInv, Saved
  <2>2. gens[z] > 0 => z \in Saved /\ nodes[z].detail
    BY DEF GenInv
  <2>3. gens[z] + Cardinality(Busy(z)) <= Cardinality(Readers) /\ gens[z] \in Nat
    BY <1>1 DEF GenInv
  <2>4. CASE z = x
    <3>1. gens[z] = 0
      BY <2>1, <2>2, <2>3, <2>4
    <3>2. Busy(z)' \subseteq Readers
      BY DEF Busy
    <3>. QED  BY <2>2, <3>1, <3>2, BusyCount
  <2>5. CASE z # x
    <3>1. Busy(z)' \subseteq Busy(z) /\ Busy(z) \subseteq Readers
      BY <1>1, <2>1, <2>5 DEF Busy
    <3>. QED  BY <2>2, <2>3, <3>1, BusyCount
  <2>. QED  BY <2>4, <2>5
<1>6. ASSUME NEW r \in Readers, UpdateDetail(r)
      PROVE  GenInv'
  <2>. DEFINE x == rdr[r].node
  <2>1. /\ rdr[r].pc = "update" /\ nodes' = [nodes EXCEPT ![x].detail = TRUE]
        /\ gens' = [gens EXCEPT ![x] = @ + 1] /\ rdr' = [rdr EXCEPT ![r] = IdleReader]
    BY <1>6 DEF UpdateDetail
  <2>2. x \in Saved
    BY <1>1, <2>1 DEF ReaderInv
  <2>3. x \in Saved' /\ nodes'[x].detail
    <3>1. nodes'[x] = [nodes[x] EXCEPT !.detail = TRUE] /\ nodes[x] \in Rows
      BY <1>1, <2>1, <2>2, WorkerType
    <3>2. nodes'[x].detail
      BY <3>1 DEF Rows
    <3>. QED  BY <2>2, <3>2, RowsStay
  <2>. SUFFICES ASSUME NEW z \in ReadIds
                PROVE  /\ gens'[z] > 0 => z \in Saved' /\ nodes'[z].detail
                       /\ gens'[z] + Cardinality(Busy(z)') <= Cardinality(Readers)
    BY DEF GenInv
  <2>4. /\ gens[z] > 0 => z \in Saved' /\ nodes'[z].detail
        /\ gens[z] + Cardinality(Busy(z)) <= Cardinality(Readers) /\ gens[z] \in Nat
    BY <1>1, RowsStay DEF GenInv
  <2>5. /\ rdr'[r] = IdleReader /\ rdr'[r].pc = "idle"
        /\ \A s \in Readers \ {r} : rdr'[s] = rdr[s]
    BY <1>1, <2>1, IdleTypes
  <2>6. Busy(z)' = Busy(z) \ {r} /\ Busy(z) \subseteq Readers
    BY <2>5 DEF Busy
  <2>7. CASE z = x
    <3>1. r \in Busy(z) /\ IsFiniteSet(Busy(z))
      BY <2>1, <2>6, <2>7, BusyCount DEF Busy
    <3>2. Cardinality(Busy(z)') = Cardinality(Busy(z)) - 1
      BY <2>6, <3>1, FS_RemoveElement
    <3>3. gens'[z] = gens[z] + 1
      BY <1>1, <2>1, <2>7
    <3>4. {Cardinality(Busy(z)), Cardinality(Readers)} \subseteq Nat
      BY <2>6, BusyCount
    <3>5. gens'[z] + Cardinality(Busy(z)') <= Cardinality(Readers)
      BY <2>4, <3>2, <3>3, <3>4
    <3>. QED  BY <2>3, <2>7, <3>5
  <2>8. CASE z # x
    <3>1. gens'[z] = gens[z]
      BY <1>1, <2>1, <2>8
    <3>2. Cardinality(Busy(z)') <= Cardinality(Busy(z)) 
          /\ {Cardinality(Busy(z)'), Cardinality(Busy(z)), Cardinality(Readers)} \subseteq Nat
      BY <2>6, BusyCount
    <3>. QED  BY <2>4, <3>1, <3>2
  <2>. QED  BY <2>7, <2>8
<1>7. CASE \/ \E s \in Sessions, m \in TrimModes : SaveNode(s, m)
           \/ \E s \in Sessions, m \in HookModes : HookSave(s, m)
           \/ \E s \in Sessions : \E L \in SUBSET Saved : RpcSave(s, L)
           \/ WorkerStep \/ UNCHANGED vars
  <2>1. UNCHANGED <<rdr, gens>>
    BY <1>7 DEF SaveNode, HookSave, RpcSave, WorkerStep, SaveRawTurns, FindPeers, AddLink,
       LinksDone, Synthesize, EndCheck, SaveChild, SaveParent, BundleSaveRaises, vars
  <2>. QED  BY <1>2, <2>1
<1>. QED  BY <1>3, <1>4, <1>5, <1>6, <1>7 DEF Next, ReaderStep

\* A detailed summary is written at most once by each thread, whatever the
\* number of threads, the order of their steps and the restarts: the check for
\* a cached text and the write are not one transaction, and need not be.
THEOREM GraphGenerations == Spec => []GenerationsAreBounded
<1>1. Init => GenInv
  <2>. SUFFICES ASSUME Init, NEW x \in ReadIds
                PROVE  gens[x] = 0 /\ Cardinality(Busy(x)) <= Cardinality(Readers)
                                   /\ Cardinality(Busy(x)) \in Nat
    BY DEF GenInv
  <2>1. Busy(x) \subseteq Readers
    BY DEF Busy
  <2>2. gens[x] = 0
    BY DEF Init
  <2>. QED  BY <2>1, <2>2, BusyCount
<1>2. GraphInv /\ GenInv /\ [Next]_vars => GenInv'
  BY GenStep
<1>3. GraphInv /\ GenInv => GenerationsAreBounded
  <2>. SUFFICES ASSUME GraphInv, GenInv, NEW x \in ReadIds
                PROVE  gens[x] <= Cardinality(Readers)
    BY DEF GenerationsAreBounded
  <2>1. Busy(x) \subseteq Readers /\ gens[x] \in Nat
    BY DEF Busy, GraphInv, TypeOK
  <2>2. gens[x] + Cardinality(Busy(x)) <= Cardinality(Readers)
    BY DEF GenInv
  <2>. QED  BY <2>1, <2>2, BusyCount
<1>. QED  BY <1>1, <1>2, <1>3, GraphInvariance, PTL DEF Spec

-----------------------------------------------------------------------------
(* Where links lead.                                                       *)

\* A link from x to y may leave the session.
MayLeave(x, y) ==
  nodes[x].sid = nodes[y].sid \/ everCross \/ nodes[x].by = "rpc" \/ nodes[y].by = "rpc"

LinksInScope == \A x \in Saved : \A y \in nodes[x].links : MayLeave(x, y)

\* What the worker has in hand is of one session, the children that are saved
\* included, unless a process has crossed sessions; the rest follows from that.
ScopeInv ==
  /\ cross => everCross
  /\ wrk.pc # "idle" => nodes[wrk.node].sid = wrk.sid
  /\ \A y \in wrk.hits : nodes[y].sid = wrk.sid \/ everCross
  /\ \A k \in wrk.kids \cap Saved : nodes[k].sid = wrk.sid
  /\ LinksInScope

\* A row that is added and links to nothing, or may link to what it links to.
LEMMA AddedInScope ==
  ASSUME GraphInv, ScopeInv, [Next]_vars, NEW x, x \notin Saved, Added(x),
         UNCHANGED everCross,
         \A y \in nodes'[x].links :
           y \in Saved /\ (nodes[y].sid = nodes'[x].sid \/ nodes'[x].by = "rpc")
  PROVE  LinksInScope'
<1>1. \A u \in Saved : nodes'[u] = nodes[u] /\ nodes[u].links \subseteq Saved
  BY DEF Added, GraphInv, TypeOK
<1>2. Saved' = Saved \cup {x}
  BY DEF Added
<1>. SUFFICES ASSUME NEW u \in Saved', NEW y \in nodes'[u].links  PROVE MayLeave(u, y)'
  BY DEF LinksInScope
<1>3. CASE u = x
  BY <1>1, <1>3 DEF MayLeave
<1>4. CASE u \in Saved
  BY <1>1, <1>4 DEF MayLeave, ScopeInv, LinksInScope
<1>. QED  BY <1>2, <1>3, <1>4

\* A step that changes no link.
LEMMA SameLinksInScope ==
  ASSUME GraphInv, ScopeInv, [Next]_vars, everCross => everCross', Saved' = Saved,
         \A x \in Saved : nodes'[x].links = nodes[x].links
  PROVE  LinksInScope'
<1>. SUFFICES ASSUME NEW u \in Saved, NEW y \in nodes[u].links  PROVE MayLeave(u, y)'
  BY DEF LinksInScope
<1>1. y \in Saved
  BY DEF GraphInv, TypeOK
<1>. QED  BY <1>1, RowsStay DEF MayLeave, ScopeInv, LinksInScope

LEMMA CrossKept ==
  ASSUME ScopeInv, [Next]_vars
  PROVE  (everCross => everCross') /\ (cross' => everCross')
<1>1. CASE Restart
  BY <1>1 DEF Restart
<1>2. CASE UNCHANGED <<cross, everCross>>
  BY <1>2 DEF ScopeInv
<1>3. Restart \/ UNCHANGED <<cross, everCross>>
  BY DEF Next, vars, SaveNode, HookSave, RpcSave, WorkerStep, SaveRawTurns, FindPeers,
     AddLink, LinksDone, Synthesize, EndCheck, SaveChild, SaveParent, BundleSaveRaises,
     ReadNode, ReaderStep, ReadTurns, Generate, UpdateDetail
<1>. QED  BY <1>1, <1>2, <1>3

LEMMA ScopeStep ==
  ASSUME GraphInv, ScopeInv, [Next]_vars
  PROVE  ScopeInv'
<1>1. TypeOK /\ WorkInv
  BY DEF GraphInv
<1>2. \A x \in Saved : x \in Saved' /\ nodes'[x].sid = nodes[x].sid
  BY RowsStay
<1>3. \A y \in wrk.hits : y \in Saved /\ (nodes[y].sid = wrk.sid \/ everCross)
  BY <1>1 DEF WorkInv, ScopeInv
<1>4. wrk.pc # "idle" => wrk.node \in Saved /\ nodes[wrk.node].sid = wrk.sid
  BY <1>1 DEF WorkInv, ScopeInv
<1>5. CASE \/ \E s \in Sessions, m \in TrimModes : SaveNode(s, m)
           \/ \E s \in Sessions, m \in HookModes : HookSave(s, m)
           \/ \E s \in Sessions : \E L \in SUBSET Saved : RpcSave(s, L)
  <2>1. PICK x \in FreeIds :
           /\ Added(x) /\ nodes'[x].links \subseteq Saved
           /\ nodes'[x].by # "rpc" => nodes'[x].links = {}
           /\ UNCHANGED <<cross, everCross>>
           /\ \/ UNCHANGED wrk
              \/ /\ wrk'.pc = "raw" /\ nodes'[x].sid = wrk'.sid
                 /\ wrk'.node = x /\ wrk'.hits = {} /\ wrk'.kids = {}
    BY <1>1, <1>5, NodeSaved
  <2>2. x \notin Saved /\ x \notin wrk.kids
    BY FreeIsFree
  <2>3. LinksInScope'
    BY <2>1, <2>2, AddedInScope
  <2>4. CASE UNCHANGED wrk
    <3>1. \A k \in wrk'.kids \cap Saved' : nodes'[k].sid = wrk'.sid
      BY <1>2, <2>1, <2>2, <2>4 DEF ScopeInv, Added
    <3>2. \A y \in wrk'.hits : nodes'[y].sid = wrk'.sid \/ everCross'
      BY <1>2, <1>3, <2>1, <2>4
    <3>. QED  BY <1>2, <1>4, <2>1, <2>3, <2>4, <3>1, <3>2 DEF ScopeInv
  <2>5. CASE ~UNCHANGED wrk
    BY <2>1, <2>3, <2>5 DEF ScopeInv
  <2>. QED  BY <2>4, <2>5
<1>6. CASE SaveChild
  <2>1. /\ wrk.pc = "child" /\ wrk'.sid = wrk.sid /\ wrk'.node = wrk.node
        /\ wrk'.hits = wrk.hits /\ wrk'.kids = wrk.kids
        /\ UNCHANGED <<cross, everCross>>
    BY <1>1, <1>6, ChildSaved
  <2>2. PICK k \in wrk.kids \ Saved :
          Added(k) /\ nodes'[k].links = {} /\ nodes'[k].sid = wrk.sid
    BY <1>1, <1>6, ChildSaved
  <2>3. LinksInScope'
    BY <2>1, <2>2, AddedInScope
  <2>4. \A z \in wrk'.kids \cap Saved' : nodes'[z].sid = wrk'.sid
    BY <1>2, <2>1, <2>2 DEF ScopeInv, Added
  <2>5. \A y \in wrk'.hits : nodes'[y].sid = wrk'.sid \/ everCross'
    BY <1>2, <1>3, <2>1
  <2>. QED  BY <1>2, <1>4, <2>1, <2>3, <2>4, <2>5 DEF ScopeInv
<1>7. CASE SaveParent
  <2>1. /\ wrk.pc = "parent" /\ wrk'.sid = wrk.sid /\ wrk'.node = wrk.node
        /\ wrk'.hits = wrk.hits /\ wrk'.kids = {} /\ wrk.parent \notin Saved
        /\ UNCHANGED <<cross, everCross>>
        /\ Added(wrk.parent) /\ nodes'[wrk.parent].links = wrk.kids
        /\ nodes'[wrk.parent].sid = wrk.sid
    BY <1>1, <1>7, ParentSaved
  <2>2. wrk.kids \subseteq Saved
    BY <1>1, <2>1 DEF WorkInv
  <2>3. LinksInScope'
    <3>1. \A y \in wrk.kids : y \in Saved /\ nodes[y].sid = nodes'[wrk.parent].sid
      BY <2>1, <2>2 DEF ScopeInv
    <3>. QED  BY <2>1, <3>1, AddedInScope
  <2>4. \A y \in wrk'.hits : nodes'[y].sid = wrk'.sid \/ everCross'
    BY <1>2, <1>3, <2>1
  <2>. QED  BY <1>2, <1>4, <2>1, <2>3, <2>4 DEF ScopeInv
<1>8. CASE AddLink
  <2>1. /\ wrk.pc = "link" /\ wrk'.sid = wrk.sid /\ wrk'.node = wrk.node
        /\ wrk'.hits \subseteq wrk.hits /\ wrk'.kids = wrk.kids
        /\ UNCHANGED <<cross, everCross>> /\ nodes' \in [Saved -> Rows]
        /\ \A x \in Saved : nodes'[x].by = nodes[x].by
    BY <1>1, <1>8, LinkAdded
  <2>2. PICK y \in wrk.hits :
          \A x \in Saved :
            nodes'[x].links = IF x = wrk.node THEN nodes[x].links \cup {y}
                              ELSE IF x = y THEN nodes[x].links \cup {wrk.node}
                              ELSE nodes[x].links
    BY <1>1, <1>8, LinkAdded
  <2>3. Saved' = Saved
    BY <2>1 DEF Saved
  <2>4. nodes[wrk.node].sid = nodes[y].sid \/ everCross
    BY <1>3, <1>4, <2>1
  <2>5. LinksInScope'
    <3>. SUFFICES ASSUME NEW u \in Saved, NEW v \in nodes'[u].links  PROVE MayLeave(u, v)'
      BY <2>3 DEF LinksInScope
    <3>1. CASE v \in nodes[u].links
      <4>1. v \in Saved /\ MayLeave(u, v)
        BY <1>1, <3>1 DEF TypeOK, ScopeInv, LinksInScope
      <4>. QED  BY <1>2, <2>1, <4>1 DEF MayLeave
    <3>2. CASE v \notin nodes[u].links
      <4>1. (u = wrk.node /\ v = y) \/ (u = y /\ v = wrk.node)
        BY <2>2, <3>2
      <4>. QED  BY <1>2, <1>3, <1>4, <2>1, <2>4, <4>1 DEF MayLeave
    <3>. QED  BY <3>1, <3>2
  <2>6. \A k \in wrk'.kids \cap Saved' : nodes'[k].sid = wrk'.sid
    BY <1>2, <2>1, <2>3 DEF ScopeInv
  <2>7. \A z \in wrk'.hits : nodes'[z].sid = wrk'.sid \/ everCross'
    BY <1>2, <1>3, <2>1
  <2>. QED  BY <1>2, <1>4, <2>1, <2>5, <2>6, <2>7 DEF ScopeInv
<1>9. CASE SaveRawTurns \/ (\E r \in Readers : UpdateDetail(r)) \/ UNCHANGED <<nodes, wrk>>
  <2>1. /\ Saved' = Saved /\ \A x \in Saved : nodes'[x].links = nodes[x].links
    <3>1. CASE UNCHANGED <<nodes, wrk>>
      BY <3>1 DEF Saved
    <3>2. CASE ~UNCHANGED <<nodes, wrk>>
      <4>1. \E x : \/ nodes' = [nodes EXCEPT ![x].raw = TRUE]
                   \/ nodes' = [nodes EXCEPT ![x].detail = TRUE]
        BY <1>9, <3>2 DEF SaveRawTurns, UpdateDetail
      <4>. QED  BY <1>1, <4>1, FlagSet
    <3>. QED  BY <3>1, <3>2
  <2>2. /\ wrk'.sid = wrk.sid /\ wrk'.node = wrk.node /\ wrk'.hits = wrk.hits
        /\ wrk'.kids = wrk.kids
        /\ wrk.pc = "idle" => wrk'.pc = "idle"
    BY <1>1, <1>9, WorkerType DEF SaveRawTurns, UpdateDetail
  <2>3. (everCross => everCross') /\ (cross' => everCross')
    BY CrossKept
  <2>4. LinksInScope'
    BY <2>1, <2>3, SameLinksInScope
  <2>5. \A k \in wrk'.kids \cap Saved' : nodes'[k].sid = wrk'.sid
    BY <1>2, <2>1, <2>2 DEF ScopeInv
  <2>6. \A z \in wrk'.hits : nodes'[z].sid = wrk'.sid \/ everCross'
    BY <1>2, <1>3, <2>2, <2>3
  <2>. QED  BY <1>2, <1>4, <2>2, <2>3, <2>4, <2>5, <2>6 DEF ScopeInv
<1>10. CASE \/ FindPeers \/ LinksDone \/ Synthesize \/ EndCheck
            \/ BundleSaveRaises \/ Restart
  <2>1. nodes' = nodes /\ Saved' = Saved
    BY <1>10 DEF FindPeers, LinksDone, Synthesize, EndCheck, BundleSaveRaises, Restart, Saved
  <2>2. LinksInScope' /\ (everCross => everCross') /\ (cross' => everCross')
    BY <2>1, CrossKept, SameLinksInScope
  <2>3. CASE FindPeers
    <3>1. PICK H \in SUBSET Peers : wrk' = [wrk EXCEPT !.pc = "link", !.hits = H]
      BY <2>3 DEF FindPeers
    <3>2. /\ wrk.pc # "idle" /\ wrk'.sid = wrk.sid /\ wrk'.node = wrk.node
          /\ wrk'.hits = H /\ wrk'.kids = wrk.kids
      BY <1>1, <2>3, <3>1, WorkerType DEF FindPeers
    <3>3. \A y \in H : nodes[y].sid = wrk.sid \/ everCross
      BY DEF Peers, Actives, InScope, ScopeInv
    <3>. QED  BY <1>4, <2>1, <2>2, <3>2, <3>3 DEF ScopeInv
  <2>4. CASE LinksDone
    <3>1. /\ wrk.pc # "idle" /\ wrk'.sid = wrk.sid /\ wrk'.node = wrk.node
          /\ wrk'.hits = wrk.hits /\ wrk'.kids = wrk.kids
      BY <1>1, <2>4, WorkerType DEF LinksDone
    <3>. QED  BY <1>3, <1>4, <2>1, <2>2, <3>1 DEF ScopeInv
  <2>5. CASE Synthesize
    <3>1. PICK p \in FreeIds, K \in SUBSET FreeIds :
            wrk' = [wrk EXCEPT !.pc = "child", !.parent = p, !.kids = K]
      BY <2>5 DEF Synthesize
    <3>2. /\ wrk.pc # "idle" /\ wrk'.sid = wrk.sid /\ wrk'.node = wrk.node
          /\ wrk'.hits = wrk.hits /\ wrk'.kids = K
      BY <1>1, <2>5, <3>1, WorkerType DEF Synthesize
    <3>3. K \cap Saved = {}
      BY FreeIsFree
    <3>. QED  BY <1>3, <1>4, <2>1, <2>2, <3>2, <3>3 DEF ScopeInv
  <2>6. CASE EndCheck \/ BundleSaveRaises \/ Restart
    <3>1. wrk'.pc = "idle" /\ wrk'.hits = {} /\ wrk'.kids = {}
      BY <2>6, IdleTypes DEF EndCheck, BundleSaveRaises, Restart
    <3>. QED  BY <2>1, <2>2, <3>1 DEF ScopeInv
  <2>. QED  BY <1>10, <2>3, <2>4, <2>5, <2>6
<1>11. CASE \/ \E r \in Readers : \/ \E x \in ReadIds : ReadNode(r, x)
                                  \/ ReadTurns(r) \/ Generate(r)
            \/ UNCHANGED vars
  <2>1. UNCHANGED <<nodes, wrk>>
    BY <1>11 DEF ReadNode, ReadTurns, Generate, vars
  <2>. QED  BY <1>9, <2>1
<1>. QED  BY <1>5, <1>6, <1>7, <1>8, <1>9, <1>10, <1>11 DEF Next, WorkerStep, ReaderStep

LEMMA ScopeInvariance == Spec => []ScopeInv
<1>1. Init => ScopeInv
  BY IdleTypes DEF Init, ScopeInv, LinksInScope, Saved
<1>2. GraphInv /\ ScopeInv /\ [Next]_vars => ScopeInv'
  BY ScopeStep
<1>. QED  BY <1>1, <1>2, GraphInvariance, PTL DEF Spec

\* What a retrieval without a query returns is in scope.
LEMMA RecentParts ==
  ASSUME TypeOK, NEW s, NEW c
  PROVE  Recent(nodes, s, c) \subseteq InScope(nodes, s, c)
<1>1. \A S, k, o : FirstK(S, k, o) \subseteq S
  BY DEF FirstK
<1>. QED  BY <1>1 DEF Recent, Passives, Actives

\* Retrieval stays in its session, for any graph the writers can leave behind
\* and any query, but for links made while sessions were crossed or by RPC.
THEOREM GraphScope == Spec => []WindowIsScoped
<1>1. GraphInv /\ ScopeInv => WindowIsScoped
  <2>. SUFFICES ASSUME GraphInv, ScopeInv, ~cross, NEW s \in Sessions
                PROVE  /\ \A x \in Recent(nodes, s, cross) : nodes[x].sid = s
                       /\ \A sim \in Queries(s) :
                            LET R == Retrieve(nodes, s, cross, sim)
                            IN  \A x \in R.window :
                                  nodes[x].sid # s =>
                                    \E y \in R.leads :
                                      /\ x \in nodes[y].links
                                      /\ everCross \/ "rpc" \in {nodes[x].by, nodes[y].by}
    BY DEF WindowIsScoped
  <2>1. TypeOK
    BY DEF GraphInv
  <2>2. \A x \in InScope(nodes, s, cross) : x \in Saved /\ nodes[x].sid = s
    BY DEF InScope, TopLevel, Saved
  <2>3. \A x \in Recent(nodes, s, cross) : nodes[x].sid = s
    BY <2>1, <2>2, RecentParts
  <2>. SUFFICES ASSUME NEW sim \in Queries(s),
                       NEW x \in Retrieve(nodes, s, cross, sim).window, nodes[x].sid # s
                PROVE  \E y \in Retrieve(nodes, s, cross, sim).leads :
                         /\ x \in nodes[y].links
                         /\ everCross \/ "rpc" \in {nodes[x].by, nodes[y].by}
    BY <2>3
  <2>. DEFINE R == Retrieve(nodes, s, cross, sim)
  <2>4. PICK primary \in SUBSET Saved, found \in SUBSET Saved :
          /\ R.leads \subseteq primary /\ primary \subseteq InScope(nodes, s, cross)
          /\ R.neighbours = Neighbours(nodes, R.leads, primary)
          /\ found \subseteq R.neighbours
          /\ R.window = primary \cup DropChildren(nodes, found)
    BY <2>1, WindowParts
  <2>. HIDE DEF R
  <2>5. x \in Neighbours(nodes, R.leads, primary)
    BY <2>2, <2>4 DEF DropChildren, R
  <2>6. PICK y \in R.leads : x \in nodes[y].links
    BY <2>5 DEF Neighbours
  <2>7. y \in Saved /\ nodes[y].sid = s
    BY <2>2, <2>4
  <2>8. everCross \/ nodes[x].by = "rpc" \/ nodes[y].by = "rpc"
    BY <2>6, <2>7 DEF ScopeInv, LinksInScope, MayLeave
  <2>. QED  BY <2>6, <2>8 DEF R
<1>. QED  BY <1>1, GraphInvariance, ScopeInvariance, PTL

LEMMA NeighboursAreNew ==
  ASSUME NEW ranked, NEW primary, NEW x \in Neighbours(nodes, ranked, primary)
  PROVE  x \notin primary
BY DEF Neighbours

\* A window has the room it was asked for, no drill-down child, and leaves a
\* node that a match links to out of it for want of room only if children were
\* found for that room first, for any number of nodes and slots.
THEOREM GraphRoom == Spec => []RoomIsLostToChildrenOnly
<1>1. GraphInv => RoomIsLostToChildrenOnly
  <2>. SUFFICES ASSUME TypeOK, NEW s \in Sessions, NEW sim \in Queries(s)
                PROVE  LET R == Retrieve(nodes, s, cross, sim)
                       IN  /\ R.window \subseteq TopLevel(nodes)
                           /\ Cardinality(R.window) <= MaxNodes
                           /\ (R.neighbours \cap TopLevel(nodes)) \ R.window # {} =>
                                MaxNodes = Cardinality(R.window) + Cardinality(R.dropped)
    BY DEF RoomIsLostToChildrenOnly, GraphInv
  <2>. DEFINE R == Retrieve(nodes, s, cross, sim)
  <2>1. PICK primary \in SUBSET Saved, found \in SUBSET Saved :
          /\ R.leads \subseteq primary /\ primary \subseteq InScope(nodes, s, cross)
          /\ R.neighbours = Neighbours(nodes, R.leads, primary)
          /\ found \subseteq R.neighbours
          /\ R.dropped = found \ DropChildren(nodes, found)
          /\ R.window = primary \cup DropChildren(nodes, found)
          /\ Cardinality(primary) + Cardinality(found) <= MaxNodes
          /\ found # R.neighbours => Cardinality(primary) + Cardinality(found) = MaxNodes
    BY WindowParts
  <2>. HIDE DEF R
  <2>. DEFINE kept == DropChildren(nodes, found)
              lost == found \ kept
  <2>2. kept \in SUBSET found /\ \A x \in found : x \in kept <=> x \in TopLevel(nodes)
    BY DEF DropChildren, TopLevel, Saved
  <2>3. primary \subseteq TopLevel(nodes)
    BY <2>1, ScopesInTable
  <2>4. R.window \subseteq TopLevel(nodes)
    BY <2>1, <2>2, <2>3
  <2>. HIDE DEF kept
  <2>5. primary \cap kept = {}
    <3>1. \A x \in Neighbours(nodes, R.leads, primary) : x \notin primary
      BY NeighboursAreNew
    <3>. QED  BY <2>1, <2>2, <3>1
  <2>6. IsFiniteSet(primary) /\ IsFiniteSet(found)
    BY ScopesInTable, FS_Subset
  <2>7. IsFiniteSet(kept) /\ Cardinality(lost) = Cardinality(found) - Cardinality(found \cap kept)
    BY <2>2, <2>6, FS_Subset, FS_Difference
  <2>8. found \cap kept = kept
    BY <2>2
  <2>9. Cardinality(primary \cup kept) = Cardinality(primary) + Cardinality(kept) - Cardinality({})
    BY <2>5, <2>6, <2>7, FS_Union
  <2>10. /\ {Cardinality(primary), Cardinality(found), Cardinality(kept)} \subseteq Nat
         /\ Cardinality(kept) <= Cardinality(found) /\ Cardinality({}) = 0
    BY <2>2, <2>6, <2>7, FS_Subset, FS_CardinalityType, FS_EmptySet
  <2>11. R.window = primary \cup kept /\ R.dropped = lost
    BY <2>1 DEF kept
  <2>. HIDE DEF lost
  <2>12. /\ Cardinality(R.window) = Cardinality(primary) + Cardinality(kept)
         /\ Cardinality(R.dropped) = Cardinality(found) - Cardinality(kept)
    <3>1. Cardinality(R.window) = Cardinality(primary) + Cardinality(kept)
      BY <2>9, <2>10, <2>11
    <3>2. Cardinality(R.dropped) = Cardinality(found) - Cardinality(kept)
      BY <2>7, <2>8, <2>11
    <3>. QED  BY <3>1, <3>2
  <2>13. Cardinality(R.window) <= MaxNodes
    BY <2>1, <2>10, <2>12, ScoreAssumption
  <2>14. ASSUME (R.neighbours \cap TopLevel(nodes)) \ R.window # {}
         PROVE  MaxNodes = Cardinality(R.window) + Cardinality(R.dropped)
    <3>1. found # R.neighbours
      BY <2>2, <2>11, <2>14
    <3>2. Cardinality(primary) + Cardinality(found) = MaxNodes
      BY <2>1, <3>1
    <3>. QED  BY <2>10, <2>12, <3>2
  <2>. QED  BY <2>4, <2>13, <2>14 DEF R
<1>. QED  BY <1>1, GraphInvariance, PTL
=============================================================================
