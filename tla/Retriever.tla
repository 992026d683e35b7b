----------------------------- MODULE Retriever ------------------------------
(***************************************************************************)
(* get_context_window (core/retriever.py) with cosine_search               *)
(* (core/vector.py) over the nodes table: which nodes ride in the context  *)
(* of a request.  Operators only; a table is a function from ids to rows,  *)
(* ids grow with created_at, and a query is the similarity of each node.   *)
(***************************************************************************)
EXTENDS Naturals, FiniteSets

CONSTANTS MaxNodes,     \* max_nodes of the call
          MinScore,     \* min_score of the call
          Hop1,         \* config.HOP1_DECAY > 0
          NoParent      \* the value None of parent_node_id

\* The first k of S, where before holds the pairs <<x, y>> with x ahead of y.
FirstK(S, k, before) ==
  {x \in S : Cardinality({y \in S : <<y, x>> \in before}) < k}

TopLevel(nodes) == {x \in DOMAIN nodes : nodes[x].parent = NoParent}

\* list_passive and list_active_with_embeddings: scoped to a session unless
\* retrieval crosses sessions; children are hidden.
InScope(nodes, s, cross) ==
  {x \in TopLevel(nodes) : cross \/ nodes[x].sid = s}

Passives(nodes, s, cross) ==
  {x \in InScope(nodes, s, cross) : nodes[x].mode \in {"passive", "both"}}

Actives(nodes, s, cross) ==
  {x \in InScope(nodes, s, cross) :
     nodes[x].mode \in {"active", "both"} /\ nodes[x].emb}

Newer(S) == {p \in S \X S : p[1] > p[2]}

\* Rows with one score stay in the order they come in, which the code leaves to
\* the database and to sets; it is taken to be that of their ids.
Better(S, score) ==
  {p \in S \X S : \/ score[p[1]] > score[p[2]]
                  \/ score[p[1]] = score[p[2]] /\ p[1] < p[2]}

\* cosine_search: the best k first, then those of them above the score.
CosineSearch(S, sim, k) ==
  {x \in FirstK(S, k, Better(S, sim)) : sim[x] >= MinScore}

\* The ranked nodes whose links are followed: base > 0, unless hop one is off.
Leads(ranked, sim) == {x \in ranked : Hop1 /\ sim[x] > 0}

\* Ids that one of them links to and that are not in the window yet.
Neighbours(nodes, leads, primary) ==
  (UNION {nodes[x].links : x \in leads}) \ primary

\* Mistake: the room for neighbours is one less.
Expand_OneLess(nodes, leads, primary, sim) ==
  LET N == Neighbours(nodes, leads, primary)
      best == [x \in N |-> CHOOSE v \in {sim[r] : r \in {q \in leads : x \in nodes[q].links}} :
                 \A r \in {q \in leads : x \in nodes[q].links} : sim[r] <= v]
  IN  FirstK(N, (MaxNodes - Cardinality(primary)) - 1, Better(N, best)) \cap DOMAIN nodes

\* The neighbours that fill the slots left, best first.  A neighbour has the
\* score of the best node that links to it (the decay is the same factor for
\* all); get_nodes skips ids without a row and does not look at the session.
Expand(nodes, leads, primary, sim) ==
  LET N == Neighbours(nodes, leads, primary)
      best == [x \in N |-> CHOOSE v \in {sim[r] : r \in {q \in leads : x \in nodes[q].links}} :
                 \A r \in {q \in leads : x \in nodes[q].links} : sim[r] <= v]
  IN  FirstK(N, MaxNodes - Cardinality(primary), Better(N, best)) \cap DOMAIN nodes

\* Children are dropped after the slots were given out.
DropChildren(nodes, found) == {x \in found : nodes[x].parent = NoParent}

\* get_context_window without a query: passives first, then the newest actives.
Recent(nodes, s, cross) ==
  LET P == Passives(nodes, s, cross) IN
  IF Cardinality(P) >= MaxNodes THEN FirstK(P, MaxNodes, Newer(P))
  ELSE LET A == Actives(nodes, s, cross) \ P
       IN  P \cup FirstK(A, MaxNodes - Cardinality(P), Newer(A))

\* get_context_window with a query: passives first, then the best actives in
\* what room they leave, then the neighbours of those.
Retrieve(nodes, s, cross, sim) ==
  LET P == Passives(nodes, s, cross)
      ranked == IF Cardinality(P) >= MaxNodes THEN {}
                ELSE CosineSearch(Actives(nodes, s, cross) \ P, sim,
                                  MaxNodes - Cardinality(P))
      primary == FirstK(P, MaxNodes, Newer(P)) \cup ranked
      leads == Leads(ranked, sim)
      found == Expand(nodes, leads, primary, sim)
  IN  [leads |-> leads,
       neighbours |-> Neighbours(nodes, leads, primary),
       dropped |-> found \ DropChildren(nodes, found),
       window |-> primary \cup DropChildren(nodes, found)]
=============================================================================
