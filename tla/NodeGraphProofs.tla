-------------------------- MODULE NodeGraphProofs ---------------------------
(***************************************************************************)
(* Proofs about NodeGraph for any sessions, threads, ids and restarts.     *)
(***************************************************************************)
EXTENDS NodeGraph, TLAPS

USE BoundAssumption, ModeAssumption, SwitchAssumption, NoneAssumption

-----------------------------------------------------------------------------
(* Where each thread is.                                                    *)

\* The bundle in hand: its children are the rows that name its parent, its
\* parent is not there, and no id of it was lost before.
WorkInv ==
  /\ wrk.pc # "idle" => /\ wrk.sid \in Sessions /\ wrk.node \in Saved
                        /\ nodes[wrk.node].reason = "turns"
  /\ wrk.pc # "link" => wrk.hits = {}
  /\ \A y \in wrk.hits : y \in Saved /\ y # wrk.node /\ nodes[y].reason # "parent"
  /\ wrk.pc \notin {"child", "parent"} => wrk.parent = None /\ wrk.kids = {}
  /\ wrk.pc \in {"child", "parent"} => wrk.parent \in NodeIds \ (Saved \cup torn \cup wrk.kids)
  /\ wrk.pc = "parent" => wrk.kids \subseteq Saved
  /\ wrk.kids \cap torn = {}
  /\ \A k \in Saved : wrk.parent # None /\ nodes[k].parent = wrk.parent <=> k \in wrk.kids

\* A node with a parent is the child of a bundle that is saved, being saved or
\* torn; what was torn is never saved.
RowInv ==
  /\ torn \cap Saved = {}
  /\ \A k \in Saved : nodes[k].parent # None =>
       /\ nodes[k].reason = "child"
       /\ nodes[k].parent \in Saved => nodes[nodes[k].parent].reason = "parent"
       /\ nodes[k].parent \notin Saved => nodes[k].parent \in torn \cup {wrk.parent}
  /\ BundleLinksAreItsChildren

\* A reader holds a saved node, and past ReadTurns one with turns.
ReaderInv ==
  /\ \A r \in Readers : rdr[r].pc # "idle" => rdr[r].node \in Saved
  /\ \A r \in Readers : rdr[r].pc \in {"generate", "update"} => nodes[rdr[r].node].raw
  /\ DetailComesFromTurns

LEMMA WorkerType ==
  ASSUME TypeOK
  PROVE  /\ wrk \in [pc : WrkPcs, sid : Sessions \cup {None}, node : NodeIds \cup {None},
                     hits : SUBSET NodeIds, parent : NodeIds \cup {None},
                     kids : SUBSET NodeIds]
         /\ nodes \in [Saved -> Rows] /\ Saved \subseteq NodeIds
         /\ \A x \in Saved : nodes[x] \in Rows
<1>. QED  BY DEF TypeOK

LEMMA IdleTypes ==
  /\ IdleWorker \in [pc : WrkPcs, sid : Sessions \cup {None}, node : NodeIds \cup {None},
                     hits : SUBSET NodeIds, parent : NodeIds \cup {None},
                     kids : SUBSET NodeIds]
  /\ IdleReader \in [pc : RdrPcs, node : NodeIds \cup {None}]
  /\ IdleWorker.pc = "idle" /\ IdleWorker.hits = {} /\ IdleWorker.parent = None
  /\ IdleWorker.kids = {} /\ IdleReader.pc = "idle"
<1>. QED  BY DEF IdleWorker, IdleReader, WrkPcs, RdrPcs

LEMMA FreeIsFree ==
  ASSUME NEW x \in FreeIds
  PROVE  /\ x \in NodeIds /\ x \notin Saved /\ x \notin wrk.kids /\ x # wrk.parent
         /\ x # wrk.node /\ x \notin torn /\ x # None
<1>. QED  BY DEF FreeIds, NodeIds

LEMMA RowType ==
  ASSUME NEW s \in Sessions, NEW m \in {"passive", "active", "both"},
         NEW by \in {"trim", "hook", "rpc"}, NEW reason \in {"turns", "parent", "child"}
  PROVE  /\ Row(s, m, by, reason) \in Rows
         /\ Row(s, m, by, reason).parent = None /\ Row(s, m, by, reason).links = {}
         /\ Row(s, m, by, reason).reason = reason /\ Row(s, m, by, reason).by = by
         /\ ~Row(s, m, by, reason).detail /\ Row(s, m, by, reason).sid = s
<1>. QED  BY DEF Row, Rows

\* A row is added and no other row changes.
Added(x) == /\ Saved' = Saved \cup {x}
            /\ \A y \in Saved : nodes'[y] = nodes[y]

LEMMA RowAdded ==
  ASSUME TypeOK, NEW x \in NodeIds \ Saved, NEW row \in Rows, SaveRow(x, row)
  PROVE  Added(x) /\ nodes'[x] = row /\ nodes' \in [Saved \cup {x} -> Rows]
<1>1. nodes' = [y \in Saved \cup {x} |-> IF y = x THEN row ELSE nodes[y]]
  BY DEF SaveRow
<1>2. DOMAIN nodes' = Saved \cup {x}
  BY <1>1
<1>. QED  BY <1>1, <1>2, WorkerType DEF Added, Saved
\* save_node of the trim worker, of the hook-era worker and of the RPC.
LEMMA NodeSaved ==
  ASSUME TypeOK,
         \/ \E s \in Sessions, m \in TrimModes : SaveNode(s, m)
         \/ \E s \in Sessions, m \in HookModes : HookSave(s, m)
         \/ \E s \in Sessions : \E L \in SUBSET Saved : RpcSave(s, L)
  PROVE  \E x \in FreeIds :
           /\ Added(x) /\ nodes' \in [Saved \cup {x} -> Rows]
           /\ nodes'[x].parent = None /\ nodes'[x].reason = "turns"
           /\ nodes'[x].links \subseteq Saved /\ ~nodes'[x].detail
           /\ nodes'[x].by # "rpc" => nodes'[x].links = {}
           /\ UNCHANGED <<rdr, cross, everCross, torn, gens, restarts>>
           /\ \/ UNCHANGED wrk
              \/ /\ wrk.pc = "idle" /\ wrk'.pc = "raw" /\ wrk'.sid \in Sessions
                 /\ nodes'[x].sid = wrk'.sid
                 /\ wrk'.node = x /\ wrk'.hits = {} /\ wrk'.parent = None /\ wrk'.kids = {}
                 /\ wrk' \in [pc : WrkPcs, sid : Sessions \cup {None},
                              node : NodeIds \cup {None}, hits : SUBSET NodeIds,
                              parent : NodeIds \cup {None}, kids : SUBSET NodeIds]
<1>1. ASSUME NEW s \in Sessions, NEW m \in TrimModes, SaveNode(s, m)
      PROVE  \E x \in FreeIds :
               /\ Added(x) /\ nodes' \in [Saved \cup {x} -> Rows]
               /\ nodes'[x] = Row(s, m, "trim", "turns")
               /\ UNCHANGED <<rdr, cross, everCross, torn, gens, restarts>>
               /\ wrk.pc = "idle" /\ wrk'.pc = "raw" /\ wrk'.sid = s
               /\ wrk'.node = x /\ wrk'.hits = {} /\ wrk'.parent = None /\ wrk'.kids = {}
               /\ wrk' \in [pc : WrkPcs, sid : Sessions \cup {None},
                            node : NodeIds \cup {None}, hits : SUBSET NodeIds,
                            parent : NodeIds \cup {None}, kids : SUBSET NodeIds]
  <2>1. PICK x \in FreeIds :
               /\ SaveRow(x, Row(s, m, "trim", "turns"))
               /\ wrk' = [IdleWorker EXCEPT !.pc = "raw", !.sid = s, !.node = x]
    BY <1>1 DEF SaveNode
  <2>2. Row(s, m, "trim", "turns") \in Rows
    BY RowType
  <2>3. x \in NodeIds \ Saved
    BY FreeIsFree
  <2>4. /\ wrk.pc = "idle" /\ UNCHANGED <<rdr, cross, everCross, torn, gens, restarts>>
    BY <1>1 DEF SaveNode
  <2>5. /\ wrk'.pc = "raw" /\ wrk'.sid = s
        /\ wrk'.node = x /\ wrk'.hits = {} /\ wrk'.parent = None /\ wrk'.kids = {}
        /\ wrk' \in [pc : WrkPcs, sid : Sessions \cup {None},
                     node : NodeIds \cup {None}, hits : SUBSET NodeIds,
                     parent : NodeIds \cup {None}, kids : SUBSET NodeIds]
    BY <2>1, <2>3 DEF IdleWorker, WrkPcs
  <2>6. Added(x) /\ nodes' \in [Saved \cup {x} -> Rows] /\ nodes'[x] = Row(s, m, "trim", "turns")
    BY <2>1, <2>2, <2>3, RowAdded
  <2>. QED  BY <2>4, <2>5, <2>6
<1>2. ASSUME NEW s \in Sessions, NEW m \in HookModes, HookSave(s, m)
      PROVE  \E x \in FreeIds :
               /\ Added(x) /\ nodes' \in [Saved \cup {x} -> Rows]
               /\ nodes'[x] = Row(s, m, "hook", "turns")
               /\ UNCHANGED <<rdr, wrk, cross, everCross, torn, gens, restarts>>
  <2>1. PICK x \in FreeIds : SaveRow(x, Row(s, m, "hook", "turns"))
    BY <1>2 DEF HookSave
  <2>2. Row(s, m, "hook", "turns") \in Rows /\ x \in NodeIds \ Saved
    BY RowType, FreeIsFree
  <2>3. UNCHANGED <<rdr, wrk, cross, everCross, torn, gens, restarts>>
    BY <1>2 DEF HookSave
  <2>. QED  BY <2>1, <2>2, <2>3, RowAdded
<1>3. ASSUME NEW s \in Sessions, NEW L \in SUBSET Saved, RpcSave(s, L)
      PROVE  \E x \in FreeIds :
               /\ Added(x) /\ nodes' \in [Saved \cup {x} -> Rows]
               /\ nodes'[x].parent = None /\ nodes'[x].reason = "turns"
               /\ nodes'[x].links = L /\ ~nodes'[x].detail /\ nodes'[x].by = "rpc"
               /\ UNCHANGED <<rdr, wrk, cross, everCross, torn, gens, restarts>>
  <2>. DEFINE row == [Row(s, "active", "rpc", "turns") EXCEPT !.links = L]
  <2>1. PICK x \in FreeIds : SaveRow(x, row)
    BY <1>3 DEF RpcSave
  <2>2. /\ row \in Rows /\ row.parent = None /\ row.reason = "turns" /\ row.links = L
        /\ ~row.detail /\ row.by = "rpc"
    BY WorkerType DEF Row, Rows
  <2>. HIDE DEF row
  <2>3. x \in NodeIds \ Saved
    BY FreeIsFree
  <2>4. UNCHANGED <<rdr, wrk, cross, everCross, torn, gens, restarts>>
    BY <1>3 DEF RpcSave
  <2>5. Added(x) /\ nodes' \in [Saved \cup {x} -> Rows] /\ nodes'[x] = row
    BY <2>1, <2>2, <2>3, RowAdded
  <2>. QED  BY <2>2, <2>4, <2>5
<1>4. ASSUME NEW s \in Sessions, NEW m \in {"passive", "active", "both"},
             NEW by \in {"trim", "hook"}, NEW row, row = Row(s, m, by, "turns")
      PROVE  /\ row.parent = None /\ row.reason = "turns" /\ row.links = {} /\ ~row.detail
             /\ row.sid = s
  BY <1>4, RowType
<1>. DEFINE Fields(x) == /\ nodes'[x].parent = None /\ nodes'[x].reason = "turns"
                         /\ nodes'[x].links \subseteq Saved /\ ~nodes'[x].detail
                         /\ nodes'[x].by # "rpc" => nodes'[x].links = {}
<1>5. CASE \E s \in Sessions, m \in TrimModes : SaveNode(s, m)
  <2>1. PICK s \in Sessions, m \in TrimModes : SaveNode(s, m)
    BY <1>5
  <2>2. PICK x \in FreeIds :
               /\ Added(x) /\ nodes' \in [Saved \cup {x} -> Rows]
               /\ nodes'[x] = Row(s, m, "trim", "turns")
               /\ UNCHANGED <<rdr, cross, everCross, torn, gens, restarts>>
               /\ wrk.pc = "idle" /\ wrk'.pc = "raw" /\ wrk'.sid = s
               /\ wrk'.node = x /\ wrk'.hits = {} /\ wrk'.parent = None /\ wrk'.kids = {}
               /\ wrk' \in [pc : WrkPcs, sid : Sessions \cup {None},
                            node : NodeIds \cup {None}, hits : SUBSET NodeIds,
                            parent : NodeIds \cup {None}, kids : SUBSET NodeIds]
    BY <1>1, <2>1
  <2>3. Fields(x) /\ nodes'[x].sid = s
    BY <1>4, <2>2
  <2>. QED  BY <2>2, <2>3
<1>6. CASE \E s \in Sessions, m \in HookModes : HookSave(s, m)
  <2>1. PICK s \in Sessions, m \in HookModes : HookSave(s, m)
    BY <1>6
  <2>2. PICK x \in FreeIds :
               /\ Added(x) /\ nodes' \in [Saved \cup {x} -> Rows]
               /\ nodes'[x] = Row(s, m, "hook", "turns")
               /\ UNCHANGED <<rdr, wrk, cross, everCross, torn, gens, restarts>>
    BY <1>2, <2>1
  <2>3. Fields(x)
    BY <1>4, <2>2
  <2>. QED  BY <2>2, <2>3
<1>7. CASE \E s \in Sessions : \E L \in SUBSET Saved : RpcSave(s, L)
  <2>1. PICK s \in Sessions, L \in SUBSET Saved : RpcSave(s, L)
    BY <1>7
  <2>2. PICK x \in FreeIds :
               /\ Added(x) /\ nodes' \in [Saved \cup {x} -> Rows]
               /\ nodes'[x].parent = None /\ nodes'[x].reason = "turns"
               /\ nodes'[x].links = L /\ ~nodes'[x].detail /\ nodes'[x].by = "rpc"
               /\ UNCHANGED <<rdr, wrk, cross, everCross, torn, gens, restarts>>
    BY <1>3, <2>1
  <2>3. Fields(x)
    BY <2>2
  <2>. QED  BY <2>2, <2>3
<1>. QED  BY <1>5, <1>6, <1>7

LEMMA ChildSaved ==
  ASSUME TypeOK, WorkInv, SaveChild
  PROVE  /\ wrk.pc = "child" /\ wrk'.pc \in {"child", "parent"}
         /\ wrk'.pc = "parent" => wrk.kids \subseteq Saved'
         /\ wrk'.sid = wrk.sid /\ wrk'.node = wrk.node /\ wrk'.hits = wrk.hits
         /\ wrk'.parent = wrk.parent /\ wrk'.kids = wrk.kids
         /\ wrk' \in [pc : WrkPcs, sid : Sessions \cup {None}, node : NodeIds \cup {None},
                      hits : SUBSET NodeIds, parent : NodeIds \cup {None},
                      kids : SUBSET NodeIds]
         /\ UNCHANGED <<rdr, cross, everCross, torn, gens, restarts>>
         /\ \E k \in wrk.kids \ Saved :
              /\ Added(k) /\ nodes' \in [Saved \cup {k} -> Rows]
              /\ nodes'[k].parent = wrk.parent /\ nodes'[k].reason = "child"
              /\ nodes'[k].links = {} /\ ~nodes'[k].detail /\ nodes'[k].sid = wrk.sid
<1>. DEFINE row == [Row(wrk.sid, "active", "trim", "child") EXCEPT
                      !.parent = wrk.parent, !.emb = FALSE]
<1>1. PICK k \in wrk.kids \ Saved : SaveRow(k, row)
  BY DEF SaveChild
<1>2. wrk.pc = "child" /\ wrk.sid \in Sessions /\ wrk.parent \in NodeIds
  BY DEF SaveChild, WorkInv
<1>3. /\ row \in Rows /\ row.parent = wrk.parent /\ row.reason = "child"
      /\ row.links = {} /\ ~row.detail /\ row.sid = wrk.sid
  BY <1>2 DEF Row, Rows
<1>4. k \in NodeIds \ Saved
  BY WorkerType
<1>. HIDE DEF row
<1>5. Added(k) /\ nodes' \in [Saved \cup {k} -> Rows] /\ nodes'[k] = row
  BY <1>1, <1>3, <1>4, RowAdded
<1>6. /\ UNCHANGED <<rdr, cross, everCross, torn, gens, restarts>>
      /\ wrk' = [wrk EXCEPT !.pc = IF wrk.kids \ Saved' = {} THEN "parent" ELSE "child"]
  BY DEF SaveChild, Saved
<1>7. /\ wrk'.pc = (IF wrk.kids \ Saved' = {} THEN "parent" ELSE "child")
      /\ wrk'.sid = wrk.sid /\ wrk'.node = wrk.node /\ wrk'.hits = wrk.hits
      /\ wrk'.parent = wrk.parent /\ wrk'.kids = wrk.kids
      /\ wrk' \in [pc : WrkPcs, sid : Sessions \cup {None}, node : NodeIds \cup {None},
                   hits : SUBSET NodeIds, parent : NodeIds \cup {None},
                   kids : SUBSET NodeIds]
  <2>. DEFINE q == IF wrk.kids \ Saved' = {} THEN "parent" ELSE "child"
  <2>1. q \in WrkPcs /\ wrk' = [wrk EXCEPT !.pc = q]
    BY <1>6 DEF WrkPcs
  <2>. HIDE DEF q
  <2>2. /\ wrk'.pc = q
        /\ wrk'.sid = wrk.sid /\ wrk'.node = wrk.node /\ wrk'.hits = wrk.hits
        /\ wrk'.parent = wrk.parent /\ wrk'.kids = wrk.kids
        /\ wrk' \in [pc : WrkPcs, sid : Sessions \cup {None}, node : NodeIds \cup {None},
                     hits : SUBSET NodeIds, parent : NodeIds \cup {None},
                     kids : SUBSET NodeIds]
    BY <2>1, WorkerType
  <2>. QED  BY <2>2 DEF q
<1>. QED  BY <1>2, <1>3, <1>5, <1>6, <1>7

LEMMA ParentSaved ==
  ASSUME TypeOK, WorkInv, SaveParent
  PROVE  /\ wrk.pc = "parent" /\ wrk'.pc = "bundle" /\ wrk.parent \in NodeIds \ Saved
         /\ wrk'.sid = wrk.sid /\ wrk'.node = wrk.node /\ wrk'.hits = wrk.hits
         /\ wrk'.parent = None /\ wrk'.kids = {}
         /\ wrk' \in [pc : WrkPcs, sid : Sessions \cup {None}, node : NodeIds \cup {None},
                      hits : SUBSET NodeIds, parent : NodeIds \cup {None},
                      kids : SUBSET NodeIds]
         /\ UNCHANGED <<rdr, cross, everCross, torn, gens, restarts>>
         /\ Added(wrk.parent) /\ nodes' \in [Saved \cup {wrk.parent} -> Rows]
         /\ nodes'[wrk.parent].parent = None /\ nodes'[wrk.parent].reason = "parent"
         /\ nodes'[wrk.parent].links = wrk.kids /\ ~nodes'[wrk.parent].detail
         /\ nodes'[wrk.parent].sid = wrk.sid
<1>. DEFINE row == [Row(wrk.sid, "active", "trim", "parent") EXCEPT !.links = wrk.kids]
<1>1. /\ wrk.pc = "parent" /\ SaveRow(wrk.parent, row)
      /\ wrk' = [wrk EXCEPT !.pc = "bundle", !.parent = None, !.kids = {}]
      /\ UNCHANGED <<rdr, cross, everCross, torn, gens, restarts>>
  BY DEF SaveParent
<1>2. wrk.sid \in Sessions /\ wrk.parent \in NodeIds \ Saved /\ wrk.kids \subseteq NodeIds
  BY <1>1, WorkerType DEF WorkInv
<1>3. /\ row \in Rows /\ row.parent = None /\ row.reason = "parent"
      /\ row.links = wrk.kids /\ ~row.detail /\ row.sid = wrk.sid
  BY <1>2 DEF Row, Rows
<1>. HIDE DEF row
<1>4. /\ Added(wrk.parent) /\ nodes' \in [Saved \cup {wrk.parent} -> Rows]
      /\ nodes'[wrk.parent] = row
  BY <1>1, <1>2, <1>3, RowAdded
<1>5. /\ wrk'.pc = "bundle" /\ wrk'.sid = wrk.sid /\ wrk'.node = wrk.node
      /\ wrk'.hits = wrk.hits /\ wrk'.parent = None /\ wrk'.kids = {}
      /\ wrk' \in [pc : WrkPcs, sid : Sessions \cup {None}, node : NodeIds \cup {None},
                   hits : SUBSET NodeIds, parent : NodeIds \cup {None},
                   kids : SUBSET NodeIds]
  BY <1>1, WorkerType DEF WrkPcs
<1>. QED  BY <1>1, <1>2, <1>3, <1>4, <1>5
\* add_bidirectional_link changes the links of two rows.
LEMMA LinkAdded ==
  ASSUME TypeOK, WorkInv, AddLink
  PROVE  /\ wrk.pc = "link"
         /\ UNCHANGED <<rdr, cross, everCross, torn, gens, restarts>>
         /\ wrk'.pc = "link" /\ wrk'.sid = wrk.sid /\ wrk'.node = wrk.node
         /\ wrk'.hits \subseteq wrk.hits /\ wrk'.parent = wrk.parent /\ wrk'.kids = wrk.kids
         /\ wrk' \in [pc : WrkPcs, sid : Sessions \cup {None}, node : NodeIds \cup {None},
                      hits : SUBSET NodeIds, parent : NodeIds \cup {None},
                      kids : SUBSET NodeIds]
         /\ nodes' \in [Saved -> Rows]
         /\ \A x \in Saved : /\ nodes'[x].parent = nodes[x].parent
                             /\ nodes'[x].reason = nodes[x].reason
                             /\ nodes'[x].by = nodes[x].by
                             /\ nodes'[x].raw = nodes[x].raw
                             /\ nodes'[x].detail = nodes[x].detail
                             /\ nodes'[x].sid = nodes[x].sid
         /\ \E y \in wrk.hits :
              \A x \in Saved :
                nodes'[x].links = IF x = wrk.node THEN nodes[x].links \cup {y}
                                  ELSE IF x = y THEN nodes[x].links \cup {wrk.node}
                                  ELSE nodes[x].links
<1>1. PICK y \in wrk.hits :
        /\ nodes' = [nodes EXCEPT ![wrk.node].links = @ \cup {y},
                                  ![y].links = @ \cup {wrk.node}]
        /\ wrk' = [wrk EXCEPT !.hits = @ \ {y}]
  BY DEF AddLink
<1>2. wrk.pc = "link" /\ UNCHANGED <<rdr, cross, everCross, torn, gens, restarts>>
  BY DEF AddLink
<1>3. wrk.node \in Saved /\ y \in Saved /\ y # wrk.node
  BY <1>2 DEF WorkInv
<1>4. ASSUME NEW r \in Rows, NEW l \in NodeIds, NEW q, q = [r EXCEPT !.links = @ \cup {l}]
      PROVE  /\ q \in Rows /\ q.links = r.links \cup {l} /\ q.parent = r.parent
             /\ q.reason = r.reason /\ q.by = r.by /\ q.raw = r.raw /\ q.detail = r.detail
             /\ q.sid = r.sid
  BY <1>4 DEF Rows
<1>5. nodes' = [x \in Saved |->
                  IF x = wrk.node THEN [nodes[x] EXCEPT !.links = @ \cup {y}]
                  ELSE IF x = y THEN [nodes[x] EXCEPT !.links = @ \cup {wrk.node}]
                  ELSE nodes[x]]
  BY <1>1, <1>3, WorkerType
<1>6. /\ wrk'.pc = "link" /\ wrk'.sid = wrk.sid /\ wrk'.node = wrk.node
      /\ wrk'.hits \subseteq wrk.hits /\ wrk'.parent = wrk.parent /\ wrk'.kids = wrk.kids
      /\ wrk' \in [pc : WrkPcs, sid : Sessions \cup {None}, node : NodeIds \cup {None},
                   hits : SUBSET NodeIds, parent : NodeIds \cup {None},
                   kids : SUBSET NodeIds]
  BY <1>1, <1>2, WorkerType
<1>7. ASSUME NEW x \in Saved
      PROVE  /\ nodes'[x] \in Rows
             /\ nodes'[x].parent = nodes[x].parent /\ nodes'[x].reason = nodes[x].reason
             /\ nodes'[x].by = nodes[x].by /\ nodes'[x].raw = nodes[x].raw
             /\ nodes'[x].detail = nodes[x].detail /\ nodes'[x].sid = nodes[x].sid
             /\ nodes'[x].links = IF x = wrk.node THEN nodes[x].links \cup {y}
                                  ELSE IF x = y THEN nodes[x].links \cup {wrk.node}
                                  ELSE nodes[x].links
  <2>1. nodes[x] \in Rows /\ y \in NodeIds /\ wrk.node \in NodeIds
    BY <1>3, WorkerType
  <2>2. CASE x = wrk.node
    <3>1. nodes'[x] = [nodes[x] EXCEPT !.links = @ \cup {y}]
      BY <1>5, <2>2
    <3>. QED  BY <1>4, <2>1, <2>2, <3>1
  <2>3. CASE x = y /\ x # wrk.node
    <3>1. nodes'[x] = [nodes[x] EXCEPT !.links = @ \cup {wrk.node}]
      BY <1>5, <2>3
    <3>. QED  BY <1>4, <2>1, <2>3, <3>1
  <2>4. CASE x # y /\ x # wrk.node
    BY <1>5, <2>1, <2>4
  <2>. QED  BY <2>2, <2>3, <2>4
<1>8. nodes' \in [Saved -> Rows]
  BY <1>5, <1>7
<1>9. \A x \in Saved :
        nodes'[x].links = IF x = wrk.node THEN nodes[x].links \cup {y}
                          ELSE IF x = y THEN nodes[x].links \cup {wrk.node}
                          ELSE nodes[x].links
  BY <1>7
<1>10. \A x \in Saved : /\ nodes'[x].parent = nodes[x].parent
                        /\ nodes'[x].reason = nodes[x].reason
                        /\ nodes'[x].by = nodes[x].by
                        /\ nodes'[x].raw = nodes[x].raw
                        /\ nodes'[x].detail = nodes[x].detail
                        /\ nodes'[x].sid = nodes[x].sid
  BY <1>7
<1>. QED  BY <1>2, <1>6, <1>8, <1>9, <1>10

\* save_raw_turns and update_detailed_summary set one flag of one row.
LEMMA FlagSet ==
  ASSUME TypeOK, NEW x,
         \/ nodes' = [nodes EXCEPT ![x].raw = TRUE]
         \/ nodes' = [nodes EXCEPT ![x].detail = TRUE]
  PROVE  /\ nodes' \in [Saved -> Rows] /\ Saved' = Saved
         /\ \A y \in Saved : /\ nodes'[y].parent = nodes[y].parent
                             /\ nodes'[y].reason = nodes[y].reason
                             /\ nodes'[y].by = nodes[y].by
                             /\ nodes'[y].links = nodes[y].links
                             /\ nodes'[y].sid = nodes[y].sid
                             /\ nodes[y].detail => nodes'[y].detail
                             /\ nodes[y].raw => nodes'[y].raw
                             /\ nodes'[y].detail => nodes[y].detail \/ y = x
<1>1. PICK f \in {"raw", "detail"} :
        nodes' = [y \in Saved |-> IF y # x THEN nodes[y]
                                  ELSE IF f = "raw" THEN [nodes[y] EXCEPT !.raw = TRUE]
                                  ELSE [nodes[y] EXCEPT !.detail = TRUE]]
  BY WorkerType
<1>2. ASSUME NEW r \in Rows, NEW q,
             q = [r EXCEPT !.raw = TRUE] \/ q = [r EXCEPT !.detail = TRUE]
      PROVE  /\ q \in Rows /\ q.parent = r.parent /\ q.reason = r.reason /\ q.by = r.by
             /\ q.links = r.links /\ (r.raw => q.raw) /\ q.sid = r.sid
             /\ (r.detail => q.detail)
  <2>1. CASE q = [r EXCEPT !.raw = TRUE]
    BY <2>1 DEF Rows
  <2>2. CASE q = [r EXCEPT !.detail = TRUE]
    BY <2>2 DEF Rows
  <2>. QED  BY <1>2, <2>1, <2>2
<1>3. ASSUME NEW y \in Saved
      PROVE  /\ nodes'[y] \in Rows
             /\ nodes'[y].parent = nodes[y].parent /\ nodes'[y].reason = nodes[y].reason
             /\ nodes'[y].by = nodes[y].by /\ nodes'[y].links = nodes[y].links
             /\ nodes'[y].sid = nodes[y].sid
             /\ (nodes[y].detail => nodes'[y].detail)
             /\ nodes[y].raw => nodes'[y].raw
             /\ nodes'[y].detail => nodes[y].detail \/ y = x
  <2>1. nodes[y] \in Rows
    BY WorkerType
  <2>2. CASE y # x
    BY <1>1, <2>1, <2>2
  <2>3. CASE y = x
    <3>1. nodes'[y] = [nodes[y] EXCEPT !.raw = TRUE]
          \/ nodes'[y] = [nodes[y] EXCEPT !.detail = TRUE]
      BY <1>1, <2>3
    <3>. QED  BY <1>2, <2>1, <2>3, <3>1
  <2>. QED  BY <2>2, <2>3
<1>4. Saved' = Saved /\ nodes' \in [Saved -> Rows]
  BY <1>1, <1>3 DEF Saved
<1>. QED  BY <1>3, <1>4
-----------------------------------------------------------------------------
(* One lemma for each kind of step.                                         *)

LinksTyped == \A x \in Saved : nodes[x].links \subseteq Saved \ {x}

GraphInv == /\ TypeOK /\ WorkInv /\ RowInv /\ ReaderInv /\ LinksAreMutual

LEMMA NodeSavedKeeps ==
  ASSUME GraphInv,
         \/ \E s \in Sessions, m \in TrimModes : SaveNode(s, m)
         \/ \E s \in Sessions, m \in HookModes : HookSave(s, m)
         \/ \E s \in Sessions : \E L \in SUBSET Saved : RpcSave(s, L)
  PROVE  GraphInv'
<1>1. TypeOK /\ WorkInv /\ RowInv /\ ReaderInv /\ LinksAreMutual
  BY DEF GraphInv
<1>2. PICK x \in FreeIds :
           /\ Added(x) /\ nodes' \in [Saved \cup {x} -> Rows]
           /\ nodes'[x].parent = None /\ nodes'[x].reason = "turns"
           /\ nodes'[x].links \subseteq Saved /\ ~nodes'[x].detail
           /\ nodes'[x].by # "rpc" => nodes'[x].links = {}
           /\ UNCHANGED <<rdr, cross, everCross, torn, gens, restarts>>
           /\ \/ UNCHANGED wrk
              \/ /\ wrk.pc = "idle" /\ wrk'.pc = "raw" /\ wrk'.sid \in Sessions
                 /\ wrk'.node = x /\ wrk'.hits = {} /\ wrk'.parent = None /\ wrk'.kids = {}
                 /\ wrk' \in [pc : WrkPcs, sid : Sessions \cup {None},
                              node : NodeIds \cup {None}, hits : SUBSET NodeIds,
                              parent : NodeIds \cup {None}, kids : SUBSET NodeIds]
  BY <1>1, NodeSaved
<1>3. /\ x \in NodeIds /\ x \notin Saved /\ x \notin wrk.kids /\ x # wrk.parent
      /\ x # wrk.node /\ x \notin torn /\ x # None
  BY FreeIsFree
<1>4. Saved' = Saved \cup {x} /\ \A y \in Saved : nodes'[y] = nodes[y]
  BY <1>2 DEF Added
<1>5. LinksTyped /\ LinksTyped'
  BY <1>1, <1>2, <1>3, <1>4 DEF LinksTyped, TypeOK
<1>6. TypeOK'
  BY <1>1, <1>2, <1>3, <1>4, <1>5 DEF TypeOK, LinksTyped
<1>7. WorkInv'
  <2>1. CASE UNCHANGED wrk
    BY <1>1, <1>2, <1>3, <1>4, <2>1 DEF WorkInv
  <2>2. CASE ~UNCHANGED wrk
    BY <1>1, <1>2, <1>3, <1>4, <2>2 DEF WorkInv
  <2>. QED  BY <2>1, <2>2
<1>8. RowInv'
  <2>1. torn' \cap Saved' = {}
    BY <1>1, <1>2, <1>3, <1>4 DEF RowInv
  <2>2. wrk'.parent = wrk.parent
    BY <1>1, <1>2 DEF WorkInv
  <2>3. \A k \in Saved' : nodes'[k].parent # None =>
          /\ nodes'[k].reason = "child"
          /\ nodes'[k].parent \in Saved' => nodes'[nodes'[k].parent].reason = "parent"
          /\ nodes'[k].parent \notin Saved' => nodes'[k].parent \in torn' \cup {wrk'.parent}
    <3>. SUFFICES ASSUME NEW k \in Saved, nodes[k].parent # None
                  PROVE  /\ nodes[k].reason = "child"
                         /\ nodes[k].parent \in Saved' =>
                              nodes'[nodes[k].parent].reason = "parent"
                         /\ nodes[k].parent \notin Saved' =>
                              nodes[k].parent \in torn \cup {wrk.parent}
      BY <1>2, <1>4, <2>2
    <3>1. nodes[k].parent # x
      BY <1>1, <1>3 DEF RowInv
    <3>. QED  BY <1>1, <1>4, <3>1 DEF RowInv
  <2>4. BundleLinksAreItsChildren'
    <3>. SUFFICES ASSUME NEW p \in Saved', nodes'[p].reason = "parent"
                  PROVE  nodes'[p].links = {k \in Saved' : nodes'[k].parent = p}
      BY DEF BundleLinksAreItsChildren
    <3>1. p \in Saved /\ nodes[p].reason = "parent" /\ nodes'[p] = nodes[p] /\ p # None
      BY <1>1, <1>2, <1>4, WorkerType DEF NodeIds
    <3>2. nodes[p].links = {k \in Saved : nodes[k].parent = p}
      BY <1>1, <3>1 DEF RowInv, BundleLinksAreItsChildren
    <3>. QED  BY <1>2, <1>4, <3>1, <3>2
  <2>. QED  BY <2>1, <2>3, <2>4 DEF RowInv
<1>9. ReaderInv'
  <2>1. \A r \in Readers : rdr'[r].pc # "idle" => rdr'[r].node \in Saved'
    BY <1>1, <1>2, <1>4 DEF ReaderInv
  <2>2. \A r \in Readers : rdr'[r].pc \in {"generate", "update"} => nodes'[rdr'[r].node].raw
    BY <1>1, <1>2, <1>4 DEF ReaderInv
  <2>3. DetailComesFromTurns'
    BY <1>1, <1>2, <1>4 DEF ReaderInv, DetailComesFromTurns
  <2>. QED  BY <2>1, <2>2, <2>3 DEF ReaderInv
<1>10. LinksAreMutual'
  <2>. SUFFICES ASSUME NEW u \in Saved', NEW v \in Saved', v \in nodes'[u].links,
                       nodes'[u].by # "rpc", nodes'[u].reason = "turns"
                PROVE  u \in nodes'[v].links
    BY DEF LinksAreMutual
  <2>1. u \in Saved
    BY <1>2, <1>4
  <2>2. v \in Saved
    BY <1>3, <1>4, <1>5, <2>1 DEF LinksTyped
  <2>. QED  BY <1>1, <1>4, <2>1, <2>2 DEF LinksAreMutual
<1>. QED  BY <1>6, <1>7, <1>8, <1>9, <1>10 DEF GraphInv

LEMMA ChildSavedKeeps ==
  ASSUME GraphInv, SaveChild
  PROVE  GraphInv'
<1>1. TypeOK /\ WorkInv /\ RowInv /\ ReaderInv /\ LinksAreMutual
  BY DEF GraphInv
<1>2. /\ wrk.pc = "child" /\ wrk'.pc \in {"child", "parent"}
      /\ wrk'.pc = "parent" => wrk.kids \subseteq Saved'
      /\ wrk'.sid = wrk.sid /\ wrk'.node = wrk.node /\ wrk'.hits = wrk.hits
      /\ wrk'.parent = wrk.parent /\ wrk'.kids = wrk.kids
      /\ wrk' \in [pc : WrkPcs, sid : Sessions \cup {None}, node : NodeIds \cup {None},
                   hits : SUBSET NodeIds, parent : NodeIds \cup {None},
                   kids : SUBSET NodeIds]
      /\ UNCHANGED <<rdr, cross, everCross, torn, gens, restarts>>
  BY <1>1, ChildSaved
<1>3. PICK k \in wrk.kids \ Saved :
              /\ Added(k) /\ nodes' \in [Saved \cup {k} -> Rows]
              /\ nodes'[k].parent = wrk.parent /\ nodes'[k].reason = "child"
              /\ nodes'[k].links = {} /\ ~nodes'[k].detail
  BY <1>1, ChildSaved
<1>4. Saved' = Saved \cup {k} /\ \A y \in Saved : nodes'[y] = nodes[y]
  BY <1>3 DEF Added
<1>5. /\ k \in NodeIds /\ k \notin torn /\ k # wrk.parent
      /\ wrk.parent \in NodeIds \ (Saved \cup torn) /\ wrk.parent # None
  BY <1>1, <1>2, WorkerType DEF WorkInv, NodeIds
<1>6. LinksTyped /\ LinksTyped'
  BY <1>1, <1>3, <1>4 DEF LinksTyped, TypeOK
<1>7. TypeOK'
  BY <1>1, <1>2, <1>3, <1>4, <1>5, <1>6 DEF TypeOK, LinksTyped
<1>8. WorkInv'
  BY <1>1, <1>2, <1>3, <1>4, <1>5 DEF WorkInv
<1>9. RowInv'
  <2>1. torn' \cap Saved' = {}
    BY <1>1, <1>2, <1>4, <1>5 DEF RowInv
  <2>2. \A y \in Saved' : nodes'[y].parent # None =>
          /\ nodes'[y].reason = "child"
          /\ nodes'[y].parent \in Saved' => nodes'[nodes'[y].parent].reason = "parent"
          /\ nodes'[y].parent \notin Saved' => nodes'[y].parent \in torn' \cup {wrk'.parent}
    <3>. SUFFICES ASSUME NEW y \in Saved', nodes'[y].parent # None
                  PROVE  /\ nodes'[y].reason = "child"
                         /\ nodes'[y].parent \in Saved' =>
                              nodes'[nodes'[y].parent].reason = "parent"
                         /\ nodes'[y].parent \notin Saved' =>
                              nodes'[y].parent \in torn \cup {wrk.parent}
      BY <1>2
    <3>1. CASE y = k
      BY <1>3, <1>4, <1>5, <3>1
    <3>2. CASE y \in Saved
      <4>1. nodes[y].parent # k
        BY <1>1, <1>3, <1>4, <1>5, <3>2 DEF RowInv
      <4>. QED  BY <1>1, <1>4, <3>2, <4>1 DEF RowInv
    <3>. QED  BY <1>4, <3>1, <3>2
  <2>3. BundleLinksAreItsChildren'
    <3>. SUFFICES ASSUME NEW p \in Saved', nodes'[p].reason = "parent"
                  PROVE  nodes'[p].links = {y \in Saved' : nodes'[y].parent = p}
      BY DEF BundleLinksAreItsChildren
    <3>1. p \in Saved /\ nodes[p].reason = "parent" /\ nodes'[p] = nodes[p] /\ p # wrk.parent
      BY <1>3, <1>4, <1>5
    <3>2. nodes[p].links = {y \in Saved : nodes[y].parent = p}
      BY <1>1, <3>1 DEF RowInv, BundleLinksAreItsChildren
    <3>. QED  BY <1>3, <1>4, <3>1, <3>2
  <2>. QED  BY <2>1, <2>2, <2>3 DEF RowInv
<1>10. ReaderInv'
  <2>1. \A r \in Readers : rdr'[r].pc # "idle" => rdr'[r].node \in Saved'
    BY <1>1, <1>2, <1>4 DEF ReaderInv
  <2>2. \A r \in Readers : rdr'[r].pc \in {"generate", "update"} => nodes'[rdr'[r].node].raw
    BY <1>1, <1>2, <1>4 DEF ReaderInv
  <2>3. DetailComesFromTurns'
    BY <1>1, <1>3, <1>4 DEF ReaderInv, DetailComesFromTurns
  <2>. QED  BY <2>1, <2>2, <2>3 DEF ReaderInv
<1>11. LinksAreMutual'
  <2>. SUFFICES ASSUME NEW u \in Saved', NEW v \in Saved', v \in nodes'[u].links,
                       nodes'[u].by # "rpc", nodes'[u].reason = "turns"
                PROVE  u \in nodes'[v].links
    BY DEF LinksAreMutual
  <2>1. u \in Saved
    BY <1>3, <1>4
  <2>2. v \in Saved
    BY <1>3, <1>4, <1>6, <2>1 DEF LinksTyped
  <2>. QED  BY <1>1, <1>4, <2>1, <2>2 DEF LinksAreMutual
<1>. QED  BY <1>7, <1>8, <1>9, <1>10, <1>11 DEF GraphInv
LEMMA ParentSavedKeeps ==
  ASSUME GraphInv, SaveParent
  PROVE  GraphInv'
<1>. DEFINE p == wrk.parent
<1>1. TypeOK /\ WorkInv /\ RowInv /\ ReaderInv /\ LinksAreMutual
  BY DEF GraphInv
<1>2. /\ wrk.pc = "parent" /\ wrk'.pc = "bundle" /\ p \in NodeIds \ Saved
      /\ wrk'.sid = wrk.sid /\ wrk'.node = wrk.node /\ wrk'.hits = wrk.hits
      /\ wrk'.parent = None /\ wrk'.kids = {}
      /\ wrk' \in [pc : WrkPcs, sid : Sessions \cup {None}, node : NodeIds \cup {None},
                   hits : SUBSET NodeIds, parent : NodeIds \cup {None},
                   kids : SUBSET NodeIds]
      /\ UNCHANGED <<rdr, cross, everCross, torn, gens, restarts>>
      /\ Added(p) /\ nodes' \in [Saved \cup {p} -> Rows]
      /\ nodes'[p].parent = None /\ nodes'[p].reason = "parent"
      /\ nodes'[p].links = wrk.kids /\ ~nodes'[p].detail
  BY <1>1, ParentSaved
<1>3. Saved' = Saved \cup {p} /\ \A y \in Saved : nodes'[y] = nodes[y]
  BY <1>2 DEF Added
<1>4. /\ p \notin torn /\ p # None /\ wrk.kids \subseteq Saved
      /\ \A k \in Saved : nodes[k].parent = p <=> k \in wrk.kids
  BY <1>1, <1>2 DEF WorkInv, NodeIds
<1>. HIDE DEF p
<1>5. LinksTyped /\ LinksTyped'
  BY <1>1, <1>2, <1>3, <1>4 DEF LinksTyped, TypeOK
<1>6. TypeOK'
  BY <1>1, <1>2, <1>3, <1>5 DEF TypeOK, LinksTyped
<1>7. WorkInv'
  BY <1>1, <1>2, <1>3 DEF WorkInv
<1>8. RowInv'
  <2>1. torn' \cap Saved' = {}
    BY <1>1, <1>2, <1>3, <1>4 DEF RowInv
  <2>2. \A y \in Saved' : nodes'[y].parent # None =>
          /\ nodes'[y].reason = "child"
          /\ nodes'[y].parent \in Saved' => nodes'[nodes'[y].parent].reason = "parent"
          /\ nodes'[y].parent \notin Saved' => nodes'[y].parent \in torn' \cup {wrk'.parent}
    <3>. SUFFICES ASSUME NEW y \in Saved, nodes[y].parent # None
                  PROVE  /\ nodes[y].reason = "child"
                         /\ nodes[y].parent \in Saved' =>
                              nodes'[nodes[y].parent].reason = "parent"
                         /\ nodes[y].parent \notin Saved' => nodes[y].parent \in torn
      BY <1>2, <1>3
    <3>1. CASE nodes[y].parent = p
      BY <1>1, <1>2, <1>3, <3>1 DEF RowInv
    <3>2. CASE nodes[y].parent # p
      BY <1>1, <1>3, <3>2 DEF RowInv, p
    <3>. QED  BY <3>1, <3>2
  <2>3. BundleLinksAreItsChildren'
    <3>. SUFFICES ASSUME NEW q \in Saved', nodes'[q].reason = "parent"
                  PROVE  nodes'[q].links = {k \in Saved' : nodes'[k].parent = q}
      BY DEF BundleLinksAreItsChildren
    <3>1. q \in NodeIds /\ q # None
      BY <1>1, <1>2, <1>3, WorkerType DEF NodeIds
    <3>2. CASE q = p
      BY <1>2, <1>3, <1>4, <3>1, <3>2
    <3>3. CASE q \in Saved
      <4>1. nodes[q].links = {k \in Saved : nodes[k].parent = q}
        BY <1>1, <1>3, <3>3 DEF RowInv, BundleLinksAreItsChildren
      <4>. QED  BY <1>2, <1>3, <3>1, <3>3, <4>1
    <3>. QED  BY <1>3, <3>2, <3>3
  <2>. QED  BY <2>1, <2>2, <2>3 DEF RowInv
<1>9. ReaderInv'
  <2>1. \A r \in Readers : rdr'[r].pc # "idle" => rdr'[r].node \in Saved'
    BY <1>1, <1>2, <1>3 DEF ReaderInv
  <2>2. \A r \in Readers : rdr'[r].pc \in {"generate", "update"} => nodes'[rdr'[r].node].raw
    BY <1>1, <1>2, <1>3 DEF ReaderInv
  <2>3. DetailComesFromTurns'
    BY <1>1, <1>2, <1>3 DEF ReaderInv, DetailComesFromTurns
  <2>. QED  BY <2>1, <2>2, <2>3 DEF ReaderInv
<1>10. LinksAreMutual'
  <2>. SUFFICES ASSUME NEW u \in Saved', NEW v \in Saved', v \in nodes'[u].links,
                       nodes'[u].by # "rpc", nodes'[u].reason = "turns"
                PROVE  u \in nodes'[v].links
    BY DEF LinksAreMutual
  <2>1. u \in Saved
    BY <1>2, <1>3
  <2>2. v \in Saved
    BY <1>2, <1>3, <1>5, <2>1 DEF LinksTyped
  <2>. QED  BY <1>1, <1>3, <2>1, <2>2 DEF LinksAreMutual
<1>. QED  BY <1>6, <1>7, <1>8, <1>9, <1>10 DEF GraphInv

LEMMA LinkAddedKeeps ==
  ASSUME GraphInv, AddLink
  PROVE  GraphInv'
<1>1. TypeOK /\ WorkInv /\ RowInv /\ ReaderInv /\ LinksAreMutual
  BY DEF GraphInv
<1>2. /\ wrk.pc = "link"
      /\ UNCHANGED <<rdr, cross, everCross, torn, gens, restarts>>
      /\ wrk'.pc = "link" /\ wrk'.sid = wrk.sid /\ wrk'.node = wrk.node
      /\ wrk'.hits \subseteq wrk.hits /\ wrk'.parent = wrk.parent /\ wrk'.kids = wrk.kids
      /\ wrk' \in [pc : WrkPcs, sid : Sessions \cup {None}, node : NodeIds \cup {None},
                   hits : SUBSET NodeIds, parent : NodeIds \cup {None},
                   kids : SUBSET NodeIds]
      /\ nodes' \in [Saved -> Rows]
      /\ \A x \in Saved : /\ nodes'[x].parent = nodes[x].parent
                          /\ nodes'[x].reason = nodes[x].reason
                          /\ nodes'[x].by = nodes[x].by
                          /\ nodes'[x].raw = nodes[x].raw
                          /\ nodes'[x].detail = nodes[x].detail
  BY <1>1, LinkAdded
<1>3. PICK y \in wrk.hits :
              \A x \in Saved :
                nodes'[x].links = IF x = wrk.node THEN nodes[x].links \cup {y}
                                  ELSE IF x = y THEN nodes[x].links \cup {wrk.node}
                                  ELSE nodes[x].links
  BY <1>1, LinkAdded
<1>4. /\ Saved' = Saved /\ wrk.node \in Saved /\ y \in Saved /\ y # wrk.node
      /\ nodes[wrk.node].reason = "turns" /\ nodes[y].reason # "parent"
      /\ wrk.node \notin {None}
  BY <1>1, <1>2, WorkerType DEF WorkInv, Saved, NodeIds
<1>5. /\ nodes'[wrk.node].links = nodes[wrk.node].links \cup {y}
       /\ nodes'[y].links = nodes[y].links \cup {wrk.node}
       /\ \A x \in Saved \ {y, wrk.node} : nodes'[x].links = nodes[x].links
  BY <1>3, <1>4
<1>6. LinksTyped'
  <2>. SUFFICES ASSUME NEW x \in Saved  PROVE nodes'[x].links \subseteq Saved \ {x}
    BY <1>4 DEF LinksTyped
  <2>1. nodes[x].links \subseteq Saved \ {x}
    BY <1>1 DEF TypeOK
  <2>2. CASE x = wrk.node
    BY <1>4, <1>5, <2>1, <2>2
  <2>3. CASE x = y
    BY <1>4, <1>5, <2>1, <2>3
  <2>4. CASE x \notin {y, wrk.node}
    BY <1>5, <2>1, <2>4
  <2>. QED  BY <2>2, <2>3, <2>4
<1>7. TypeOK'
  BY <1>1, <1>2, <1>4, <1>6 DEF TypeOK, LinksTyped
<1>8. WorkInv'
  BY <1>1, <1>2, <1>4 DEF WorkInv
<1>9. RowInv'
  <2>1. \A q \in Saved : nodes[q].reason = "parent" => nodes'[q].links = nodes[q].links
    BY <1>3, <1>4
  <2>2. BundleLinksAreItsChildren'
    BY <1>1, <1>2, <1>4, <2>1 DEF RowInv, BundleLinksAreItsChildren
  <2>. QED  BY <1>1, <1>2, <1>4, <2>2 DEF RowInv
<1>10. ReaderInv'
  BY <1>1, <1>2, <1>4 DEF ReaderInv, DetailComesFromTurns
<1>11. LinksAreMutual'
  <2>. SUFFICES ASSUME NEW u \in Saved, NEW v \in Saved, v \in nodes'[u].links,
                       nodes[u].by # "rpc", nodes[u].reason = "turns"
                PROVE  u \in nodes'[v].links
    BY <1>2, <1>4 DEF LinksAreMutual
  <2>1. CASE v \in nodes[u].links
    <3>1. u \in nodes[v].links
      BY <1>1, <2>1 DEF LinksAreMutual
    <3>2. nodes[v].links \subseteq nodes'[v].links
      BY <1>5
    <3>. QED  BY <3>1, <3>2
  <2>2. CASE v \notin nodes[u].links
    <3>1. (u = wrk.node /\ v = y) \/ (u = y /\ v = wrk.node)
      BY <1>5, <2>2
    <3>. QED  BY <1>5, <3>1
  <2>. QED  BY <2>1, <2>2
<1>. QED  BY <1>7, <1>8, <1>9, <1>10, <1>11 DEF GraphInv

\* The columns of FlagSet play a part in ReaderInv only.
LEMMA FlagSetKeeps ==
  ASSUME GraphInv, NEW x,
         \/ nodes' = [nodes EXCEPT ![x].raw = TRUE]
         \/ nodes' = [nodes EXCEPT ![x].detail = TRUE],
         UNCHANGED <<cross, everCross, torn, restarts>>,
         /\ wrk' \in [pc : WrkPcs, sid : Sessions \cup {None}, node : NodeIds \cup {None},
                      hits : SUBSET NodeIds, parent : NodeIds \cup {None},
                      kids : SUBSET NodeIds]
         /\ rdr' \in [Readers -> [pc : RdrPcs, node : NodeIds \cup {None}]]
         /\ gens' \in [ReadIds -> Nat],
         \/ UNCHANGED wrk
         \/ /\ wrk.pc = "raw" /\ wrk'.pc = "peers" /\ wrk'.sid = wrk.sid
            /\ wrk'.node = wrk.node /\ wrk'.hits = wrk.hits
            /\ wrk'.parent = wrk.parent /\ wrk'.kids = wrk.kids
  PROVE  TypeOK' /\ WorkInv' /\ RowInv' /\ LinksAreMutual'
<1>1. TypeOK /\ WorkInv /\ RowInv /\ LinksAreMutual
  BY DEF GraphInv
<1>2. /\ nodes' \in [Saved -> Rows] /\ Saved' = Saved
      /\ \A y \in Saved : /\ nodes'[y].parent = nodes[y].parent
                          /\ nodes'[y].reason = nodes[y].reason
                          /\ nodes'[y].by = nodes[y].by
                          /\ nodes'[y].links = nodes[y].links
  BY <1>1, FlagSet
<1>3. TypeOK'
  BY <1>1, <1>2 DEF TypeOK
<1>4. WorkInv'
  <2>1. CASE UNCHANGED wrk
    BY <1>1, <1>2, <2>1 DEF WorkInv
  <2>2. CASE ~UNCHANGED wrk
    BY <1>1, <1>2, <2>2 DEF WorkInv
  <2>. QED  BY <2>1, <2>2
<1>5. wrk'.parent = wrk.parent
  OBVIOUS
<1>6. RowInv'
  BY <1>1, <1>2, <1>5 DEF RowInv, BundleLinksAreItsChildren
<1>7. LinksAreMutual'
  BY <1>1, <1>2 DEF LinksAreMutual
<1>. QED  BY <1>3, <1>4, <1>6, <1>7

LEMMA RawTurnsKeeps ==
  ASSUME GraphInv, SaveRawTurns
  PROVE  GraphInv'
<1>1. TypeOK /\ ReaderInv
  BY DEF GraphInv
<1>2. /\ wrk.pc = "raw" /\ nodes' = [nodes EXCEPT ![wrk.node].raw = TRUE]
      /\ wrk' = [wrk EXCEPT !.pc = "peers"]
      /\ UNCHANGED <<rdr, cross, everCross, torn, gens, restarts>>
  BY DEF SaveRawTurns
<1>3. /\ wrk'.pc = "peers" /\ wrk'.sid = wrk.sid
      /\ wrk'.node = wrk.node /\ wrk'.hits = wrk.hits
      /\ wrk'.parent = wrk.parent /\ wrk'.kids = wrk.kids
      /\ wrk' \in [pc : WrkPcs, sid : Sessions \cup {None}, node : NodeIds \cup {None},
                   hits : SUBSET NodeIds, parent : NodeIds \cup {None},
                   kids : SUBSET NodeIds]
  BY <1>1, <1>2, WorkerType DEF WrkPcs
<1>4. TypeOK' /\ WorkInv' /\ RowInv' /\ LinksAreMutual'
  BY <1>1, <1>2, <1>3, FlagSetKeeps DEF TypeOK
<1>5. \A y \in Saved : /\ nodes[y].raw => nodes'[y].raw
                       /\ nodes'[y].detail => nodes[y].detail
  <2>1. ASSUME NEW r \in Rows, NEW q, q = [r EXCEPT !.raw = TRUE]
        PROVE  q.raw /\ q.detail = r.detail
    BY <2>1 DEF Rows
  <2>. QED  BY <1>1, <1>2, <2>1, WorkerType
<1>6. Saved' = Saved
  BY <1>1, <1>2, FlagSet
<1>7. ReaderInv'
  BY <1>1, <1>2, <1>5, <1>6 DEF ReaderInv, DetailComesFromTurns
<1>. QED  BY <1>4, <1>7 DEF GraphInv

LEMMA DetailKeeps ==
  ASSUME GraphInv, NEW r \in Readers, UpdateDetail(r)
  PROVE  GraphInv'
<1>1. TypeOK /\ ReaderInv
  BY DEF GraphInv
<1>. DEFINE x == rdr[r].node
<1>2. /\ rdr[r].pc = "update" /\ nodes' = [nodes EXCEPT ![x].detail = TRUE]
      /\ gens' = [gens EXCEPT ![x] = @ + 1] /\ rdr' = [rdr EXCEPT ![r] = IdleReader]
      /\ UNCHANGED <<wrk, cross, everCross, torn, restarts>>
  BY DEF UpdateDetail
<1>3. /\ gens \in [ReadIds -> Nat]
      /\ rdr \in [Readers -> [pc : RdrPcs, node : NodeIds \cup {None}]]
  BY <1>1 DEF TypeOK
<1>4. gens' \in [ReadIds -> Nat]
  <2>. HIDE DEF x
  <2>1. gens' = [gens EXCEPT ![x] = @ + 1]
    BY <1>2
  <2>2. gens' = [z \in ReadIds |-> IF z = x THEN gens[z] + 1 ELSE gens[z]]
    BY <1>3, <2>1
  <2>3. \A z \in ReadIds : gens[z] \in Nat /\ gens[z] + 1 \in Nat
    BY <1>3
  <2>. QED  BY <2>2, <2>3
<1>5. rdr' \in [Readers -> [pc : RdrPcs, node : NodeIds \cup {None}]]
  <2>1. rdr' = [rdr EXCEPT ![r] = IdleReader]
    BY <1>2
  <2>. QED  BY <1>3, <2>1, IdleTypes
<1>6. TypeOK' /\ WorkInv' /\ RowInv' /\ LinksAreMutual'
  BY <1>1, <1>2, <1>4, <1>5, FlagSetKeeps, WorkerType
<1>7. /\ Saved' = Saved /\ x \in Saved /\ nodes[x].raw
      /\ \A y \in Saved : /\ nodes[y].raw => nodes'[y].raw
                          /\ nodes'[y].detail => nodes[y].detail \/ y = x
  BY <1>1, <1>2, FlagSet DEF ReaderInv
<1>8. \A s \in Readers \ {r} : rdr'[s] = rdr[s]
  BY <1>1, <1>2 DEF TypeOK
<1>9. rdr'[r].pc = "idle"
  BY <1>1, <1>2, IdleTypes DEF TypeOK
<1>. HIDE DEF x
<1>10. ReaderInv'
  BY <1>1, <1>7, <1>8, <1>9 DEF ReaderInv, DetailComesFromTurns
<1>. QED  BY <1>6, <1>10 DEF GraphInv

\* Steps of the worker that write nothing.
LEMMA MovesKeep ==
  ASSUME GraphInv, FindPeers \/ LinksDone \/ Synthesize \/ EndCheck
  PROVE  GraphInv'
<1>1. TypeOK /\ WorkInv /\ RowInv /\ ReaderInv /\ LinksAreMutual
  BY DEF GraphInv
<1>2. UNCHANGED <<nodes, rdr, cross, everCross, torn, gens, restarts>> /\ Saved' = Saved
  BY DEF FindPeers, LinksDone, Synthesize, EndCheck, Saved
<1>3. /\ wrk' \in [pc : WrkPcs, sid : Sessions \cup {None}, node : NodeIds \cup {None},
                   hits : SUBSET NodeIds, parent : NodeIds \cup {None},
                   kids : SUBSET NodeIds]
      /\ WorkInv'
      /\ wrk.parent = None
  <2>1. CASE FindPeers
    <3>1. PICK H \in SUBSET Peers : wrk' = [wrk EXCEPT !.pc = "link", !.hits = H]
      BY <2>1 DEF FindPeers
    <3>2. wrk.pc = "peers" /\ wrk.parent = None /\ wrk.kids = {}
      BY <1>1, <2>1 DEF FindPeers, WorkInv
    <3>3. Peers \subseteq Saved \ {wrk.node} /\ \A y \in Peers : nodes[y].reason # "parent"
      BY DEF Peers, Actives, InScope, TopLevel, Saved
    <3>4. /\ wrk'.pc = "link" /\ wrk'.sid = wrk.sid /\ wrk'.node = wrk.node
          /\ wrk'.hits = H /\ wrk'.parent = wrk.parent /\ wrk'.kids = wrk.kids
          /\ wrk' \in [pc : WrkPcs, sid : Sessions \cup {None}, node : NodeIds \cup {None},
                       hits : SUBSET NodeIds, parent : NodeIds \cup {None},
                       kids : SUBSET NodeIds]
      BY <1>1, <3>1, <3>3, WorkerType DEF WrkPcs
    <3>. QED  BY <1>1, <1>2, <3>2, <3>3, <3>4 DEF WorkInv
  <2>2. CASE LinksDone
    <3>1. wrk.pc = "link" /\ wrk.hits = {} /\ wrk' = [wrk EXCEPT !.pc = "bundle"]
      BY <2>2 DEF LinksDone
    <3>2. /\ wrk'.pc = "bundle" /\ wrk'.sid = wrk.sid /\ wrk'.node = wrk.node
          /\ wrk'.hits = wrk.hits /\ wrk'.parent = wrk.parent /\ wrk'.kids = wrk.kids
          /\ wrk' \in [pc : WrkPcs, sid : Sessions \cup {None}, node : NodeIds \cup {None},
                       hits : SUBSET NodeIds, parent : NodeIds \cup {None},
                       kids : SUBSET NodeIds]
      BY <1>1, <3>1, WorkerType DEF WrkPcs
    <3>. QED  BY <1>1, <1>2, <3>1, <3>2 DEF WorkInv
  <2>3. CASE Synthesize
    <3>1. PICK p \in FreeIds, K \in SUBSET FreeIds :
            /\ \A k \in K : k > p
            /\ wrk' = [wrk EXCEPT !.pc = "child", !.parent = p, !.kids = K]
      BY <2>3 DEF Synthesize
    <3>2. wrk.pc = "bundle" /\ wrk.hits = {} /\ wrk.parent = None
      BY <1>1, <2>3 DEF Synthesize, WorkInv
    <3>3. /\ p \in NodeIds /\ p \notin Saved /\ p \notin torn /\ p # None
          /\ K \subseteq NodeIds /\ K \cap Saved = {} /\ K \cap torn = {} /\ p \notin K
      BY <3>1, FreeIsFree DEF NodeIds
    <3>4. /\ wrk'.pc = "child" /\ wrk'.sid = wrk.sid /\ wrk'.node = wrk.node
          /\ wrk'.hits = wrk.hits /\ wrk'.parent = p /\ wrk'.kids = K
          /\ wrk' \in [pc : WrkPcs, sid : Sessions \cup {None}, node : NodeIds \cup {None},
                       hits : SUBSET NodeIds, parent : NodeIds \cup {None},
                       kids : SUBSET NodeIds]
      BY <1>1, <3>1, <3>3, WorkerType DEF WrkPcs
    <3>5. \A k \in Saved : nodes[k].parent # p
      BY <1>1, <3>2, <3>3 DEF RowInv
    <3>. QED  BY <1>1, <1>2, <3>2, <3>3, <3>4, <3>5 DEF WorkInv
  <2>4. CASE EndCheck
    <3>1. wrk.pc = "bundle" /\ wrk' = IdleWorker
      BY <2>4 DEF EndCheck
    <3>. QED  BY <1>1, <1>2, <3>1, IdleTypes DEF WorkInv
  <2>. QED  BY <2>1, <2>2, <2>3, <2>4
<1>4. TypeOK'
  BY <1>1, <1>2, <1>3 DEF TypeOK, Saved
<1>5. RowInv'
  <2>1. \A k \in Saved : nodes[k].parent # None /\ nodes[k].parent \notin Saved
                           => nodes[k].parent \in torn
    BY <1>1, <1>3 DEF RowInv
  <2>. QED  BY <1>1, <1>2, <2>1 DEF RowInv, BundleLinksAreItsChildren, Saved
<1>6. ReaderInv' /\ LinksAreMutual'
  BY <1>1, <1>2 DEF ReaderInv, LinksAreMutual, DetailComesFromTurns, Saved
<1>. QED  BY <1>3, <1>4, <1>5, <1>6 DEF GraphInv

\* Steps of a reader that write nothing.
LEMMA ReadsKeep ==
  ASSUME GraphInv, NEW r \in Readers,
         (\E x \in ReadIds : ReadNode(r, x)) \/ ReadTurns(r) \/ Generate(r)
  PROVE  GraphInv'
<1>1. TypeOK /\ WorkInv /\ RowInv /\ ReaderInv /\ LinksAreMutual
  BY DEF GraphInv
<1>2. UNCHANGED <<nodes, wrk, cross, everCross, torn, gens, restarts>>
  BY DEF ReadNode, ReadTurns, Generate
<1>3. rdr \in [Readers -> [pc : RdrPcs, node : NodeIds \cup {None}]]
  BY <1>1 DEF TypeOK
<1>4. PICK q \in [pc : RdrPcs, node : NodeIds \cup {None}] :
        /\ rdr' = [rdr EXCEPT ![r] = q]
        /\ q.pc # "idle" => q.node \in Saved
        /\ q.pc \in {"generate", "update"} => nodes[q.node].raw
  <2>1. CASE \E x \in ReadIds : ReadNode(r, x)
    <3>1. PICK x \in Saved : rdr' = [rdr EXCEPT ![r] = [pc |-> "turns", node |-> x]]
      BY <2>1 DEF ReadNode
    <3>. DEFINE q == [pc |-> "turns", node |-> x]
    <3>2. /\ q \in [pc : RdrPcs, node : NodeIds \cup {None}]
          /\ q.node = x /\ q.pc = "turns"
      BY <1>1, <3>1 DEF TypeOK, RdrPcs
    <3>3. rdr' = [rdr EXCEPT ![r] = q]
      BY <3>1
    <3>. HIDE DEF q
    <3>. QED  BY <3>2, <3>3
  <2>2. CASE ReadTurns(r)
    <3>1. /\ rdr[r].pc = "turns" /\ rdr[r].node \in Saved
          /\ rdr' = [rdr EXCEPT ![r] = IF nodes[rdr[r].node].raw
                                       THEN [rdr[r] EXCEPT !.pc = "generate"]
                                       ELSE IdleReader]
      BY <1>1, <1>3, <2>2 DEF ReadTurns, ReaderInv
    <3>2. CASE nodes[rdr[r].node].raw
      <4>. DEFINE q == [rdr[r] EXCEPT !.pc = "generate"]
      <4>1. /\ q \in [pc : RdrPcs, node : NodeIds \cup {None}]
            /\ q.node = rdr[r].node /\ q.pc = "generate"
        BY <1>3 DEF RdrPcs
      <4>2. rdr' = [rdr EXCEPT ![r] = q]
        BY <3>1, <3>2
      <4>. HIDE DEF q
      <4>. QED  BY <3>1, <3>2, <4>1, <4>2
    <3>3. CASE ~nodes[rdr[r].node].raw
      BY <3>1, <3>3, IdleTypes
    <3>. QED  BY <3>2, <3>3
  <2>3. CASE Generate(r)
    <3>1. /\ rdr[r].pc = "generate" /\ rdr[r].node \in Saved /\ nodes[rdr[r].node].raw
          /\ \/ rdr' = [rdr EXCEPT ![r] = [rdr[r] EXCEPT !.pc = "update"]]
             \/ rdr' = [rdr EXCEPT ![r] = IdleReader]
      BY <1>1, <1>3, <2>3 DEF Generate, ReaderInv
    <3>. DEFINE q == [rdr[r] EXCEPT !.pc = "update"]
    <3>2. /\ q \in [pc : RdrPcs, node : NodeIds \cup {None}]
          /\ q.node = rdr[r].node /\ q.pc = "update"
      BY <1>3 DEF RdrPcs
    <3>3. rdr' = [rdr EXCEPT ![r] = q] \/ rdr' = [rdr EXCEPT ![r] = IdleReader]
      BY <3>1
    <3>. HIDE DEF q
    <3>. QED  BY <3>1, <3>2, <3>3, IdleTypes
  <2>. QED  BY <2>1, <2>2, <2>3
<1>5. /\ rdr' \in [Readers -> [pc : RdrPcs, node : NodeIds \cup {None}]]
      /\ rdr'[r] = q /\ \A s \in Readers \ {r} : rdr'[s] = rdr[s]
  BY <1>3, <1>4
<1>6. TypeOK'
  BY <1>1, <1>2, <1>5 DEF TypeOK, Saved
<1>7. ReaderInv'
  BY <1>1, <1>2, <1>4, <1>5 DEF ReaderInv, DetailComesFromTurns, Saved
<1>8. WorkInv' /\ RowInv' /\ LinksAreMutual'
  BY <1>1, <1>2 DEF WorkInv, RowInv, LinksAreMutual, BundleLinksAreItsChildren, Saved
<1>. QED  BY <1>6, <1>7, <1>8 DEF GraphInv

\* A bundle cut short by a failing write or by a crash: its unwritten ids are
\* torn and the worker is idle.
LEMMA CutShortKeeps ==
  ASSUME GraphInv, BundleSaveRaises \/ Restart
  PROVE  GraphInv'
<1>1. TypeOK /\ WorkInv /\ RowInv /\ ReaderInv /\ LinksAreMutual
  BY DEF GraphInv
<1>2. /\ wrk' = IdleWorker
      /\ torn' = torn \cup (({wrk.parent} \cup wrk.kids) \ ({None} \cup Saved))
      /\ UNCHANGED <<nodes, gens>> /\ Saved' = Saved
  BY <1>1 DEF BundleSaveRaises, Restart, Unwritten, Saved
<1>3. /\ rdr' = rdr \/ rdr' = [r \in Readers |-> IdleReader]
      /\ {cross', everCross'} \subseteq BOOLEAN
      /\ restarts' \in 0..MaxRestarts
  <2>1. CASE BundleSaveRaises
    BY <1>1, <2>1 DEF BundleSaveRaises, TypeOK
  <2>2. CASE Restart
    <3>1. cross' \in BOOLEAN /\ everCross' = (everCross \/ cross')
      BY <1>1, <2>2 DEF Restart, TypeOK
    <3>2. restarts' \in 0..MaxRestarts
      BY <1>1, <2>2 DEF Restart, TypeOK
    <3>. QED  BY <2>2, <3>1, <3>2 DEF Restart
  <2>. QED  BY <2>1, <2>2
<1>4. TypeOK'
  <2>1. torn' \subseteq NodeIds
    BY <1>1, <1>2, WorkerType DEF TypeOK
  <2>2. rdr' \in [Readers -> [pc : RdrPcs, node : NodeIds \cup {None}]]
    BY <1>1, <1>3, IdleTypes DEF TypeOK
  <2>. QED  BY <1>1, <1>2, <1>3, <2>1, <2>2, IdleTypes DEF TypeOK
<1>5. WorkInv'
  BY <1>2, IdleTypes DEF WorkInv
<1>6. RowInv'
  <2>1. torn' \cap Saved' = {}
    BY <1>1, <1>2 DEF RowInv
  <2>2. \A k \in Saved : nodes[k].parent # None /\ nodes[k].parent \notin Saved
                           => nodes[k].parent \in torn'
    BY <1>1, <1>2 DEF RowInv
  <2>3. BundleLinksAreItsChildren'
    BY <1>1, <1>2 DEF RowInv, BundleLinksAreItsChildren
  <2>. QED  BY <1>1, <1>2, <2>1, <2>2, <2>3 DEF RowInv
<1>7. ReaderInv' /\ LinksAreMutual'
  BY <1>1, <1>2, <1>3, IdleTypes DEF ReaderInv, DetailComesFromTurns, LinksAreMutual
<1>. QED  BY <1>4, <1>5, <1>6, <1>7 DEF GraphInv

LEMMA GraphInvariance == Spec => []GraphInv
<1>1. Init => GraphInv
  <2>. SUFFICES ASSUME Init  PROVE GraphInv
    OBVIOUS
  <2>1. Saved = {} /\ wrk = IdleWorker /\ rdr = [r \in Readers |-> IdleReader]
    BY DEF Init, Saved
  <2>2. TypeOK
    <3>1. nodes \in [Saved -> Rows] /\ Saved \subseteq NodeIds
      BY <2>1 DEF Init, Saved
    <3>2. {cross, everCross} \subseteq BOOLEAN
      BY SwitchAssumption DEF Init
    <3>3. gens \in [ReadIds -> Nat]
      BY DEF Init
    <3>4. restarts \in 0..MaxRestarts
      BY BoundAssumption DEF Init
    <3>5. torn \subseteq NodeIds
      BY DEF Init
    <3>. QED  BY <2>1, <3>1, <3>2, <3>3, <3>4, <3>5, IdleTypes DEF TypeOK
  <2>3. WorkInv /\ RowInv
    BY <2>1, IdleTypes DEF WorkInv, RowInv, BundleLinksAreItsChildren
  <2>4. ReaderInv /\ LinksAreMutual
    BY <2>1, IdleTypes DEF ReaderInv, DetailComesFromTurns, LinksAreMutual
  <2>. QED  BY <2>2, <2>3, <2>4 DEF GraphInv
<1>2. GraphInv /\ [Next]_vars => GraphInv'
  <2>. SUFFICES ASSUME GraphInv, [Next]_vars  PROVE GraphInv'
    OBVIOUS
  <2>1. CASE WorkerStep
    BY <2>1, RawTurnsKeeps, LinkAddedKeeps, MovesKeep, ChildSavedKeeps, ParentSavedKeeps,
       CutShortKeeps DEF WorkerStep
  <2>2. ASSUME NEW r \in Readers, (\E x \in ReadIds : ReadNode(r, x)) \/ ReaderStep(r)
        PROVE  GraphInv'
    BY <2>2, ReadsKeep, DetailKeeps DEF ReaderStep
  <2>3. CASE UNCHANGED vars
    BY <2>3 DEF vars, GraphInv, TypeOK, WorkInv, RowInv, ReaderInv, LinksAreMutual,
       BundleLinksAreItsChildren, DetailComesFromTurns, Saved
  <2>. QED  BY <2>1, <2>2, <2>3, NodeSavedKeeps, CutShortKeeps DEF Next
<1>. QED  BY <1>1, <1>2, PTL DEF Spec

-----------------------------------------------------------------------------
\* The rows of the graph are well formed and link to saved rows, never to
\* themselves, after any crash.
THEOREM GraphTypeCorrect == Spec => []TypeOK
<1>1. GraphInv => TypeOK
  BY DEF GraphInv
<1>. QED  BY <1>1, GraphInvariance, PTL

\* Cross-linking leaves both nodes knowing of each other, for any number of
\* peers, sessions and crashes between the transactions.
THEOREM GraphLinksMutual == Spec => []LinksAreMutual
<1>1. GraphInv => LinksAreMutual
  BY DEF GraphInv
<1>. QED  BY <1>1, GraphInvariance, PTL

\* A bundle's parent links exactly the nodes that name it: no later node is
\* linked to it and no child is missing, whatever the size of the bundle.
THEOREM GraphBundles == Spec => []BundleLinksAreItsChildren
<1>1. GraphInv => BundleLinksAreItsChildren
  BY DEF GraphInv, RowInv
<1>. QED  BY <1>1, GraphInvariance, PTL

\* No row links to a missing one, and only a crash leaves a child without its
\* parent.
THEOREM GraphOrphans == Spec => []OrphansAreTorn
<1>1. GraphInv => OrphansAreTorn
  BY DEF GraphInv, RowInv, TypeOK, OrphansAreTorn
<1>. QED  BY <1>1, GraphInvariance, PTL

\* A cached depth-1 text was generated from stored turns.
THEOREM GraphDetails == Spec => []DetailComesFromTurns
<1>1. GraphInv => DetailComesFromTurns
  BY DEF GraphInv, ReaderInv
<1>. QED  BY <1>1, GraphInvariance, PTL
=============================================================================
