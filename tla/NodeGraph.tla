----------------------------- MODULE NodeGraph ------------------------------
(***************************************************************************)
(* The graph of memory nodes in the store (core/store.py) while the trim   *)
(* worker saves, links and bundles nodes (proxy/trim.py), the hook-era     *)
(* worker and the save RPC add nodes of their own, and RPC threads read    *)
(* nodes at depth 1 (daemon.py), each commit a step of its own; and what   *)
(* get_context_window makes of the graph.                                  *)
(*                                                                         *)
(* Nodes are never deleted.  Which peers are similar, and which mode the   *)
(* compacter gives a node, are choices.                                    *)
(***************************************************************************)
EXTENDS Naturals, FiniteSets

CONSTANTS Sessions,
          MaxNodeId,      \* bound on the nodes saved
          TrimModes,      \* recall modes the compacter gives the nodes of the
          HookModes,      \* trim worker and of the hook-era worker
          Readers,        \* RPC threads that read at depth 1
          ReadIds,        \* bound: the nodes they ask for
          None,           \* no session, no node
          TopK,           \* config.CROSS_LINK_TOP_K
          MaxChildren,    \* cap on the children of one bundle
          MaxRpc,         \* bound on nodes saved by RPC
          MaxRestarts,    \* bound on daemon restarts
          MayCross,       \* COMET_CC_CROSS_SESSION may be set in some process
          Sims,           \* similarities a query may have to a node
          MaxNodes,       \* max_nodes of a retrieval
          MinScore,       \* min_score of a retrieval
          Hop1            \* config.HOP1_DECAY > 0

ASSUME BoundAssumption ==
  {MaxNodeId, TopK, MaxChildren, MaxRpc, MaxRestarts} \subseteq Nat
ASSUME ScoreAssumption == MaxNodes \in Nat /\ MinScore \in Nat /\ Sims \subseteq Nat
ASSUME ModeAssumption == TrimModes \cup HookModes \subseteq {"passive", "active", "both"}
ASSUME SwitchAssumption == {MayCross, Hop1} \subseteq BOOLEAN
ASSUME NoneAssumption == None \notin Sessions \cup 1..MaxNodeId
ASSUME ReaderAssumption == IsFiniteSet(Readers)

\* Ids are handed out in order of creation.
NodeIds == 1..MaxNodeId

VARIABLES
  nodes,      \* nodes and raw_turns tables: a function from saved ids to rows
  wrk,        \* the trim worker inside _do_sensor_check
  rdr,        \* each RPC thread inside _m_read_memory
  cross,      \* config.CROSS_SESSION_RETRIEVAL of the running process
  everCross,  \* some process so far had it set
  torn,       \* ids of a bundle whose save was cut short
  gens,       \* how often each node's detailed summary was written
  restarts

vars == <<nodes, wrk, rdr, cross, everCross, torn, gens, restarts>>

INSTANCE Retriever WITH NoParent <- None

-----------------------------------------------------------------------------
WrkPcs == {"idle", "raw", "peers", "link", "bundle", "child", "parent"}
RdrPcs == {"idle", "turns", "generate", "update"}

\* by: who saved it; reason: compaction_reason, as far as it is told apart;
\* raw: it has rows in raw_turns; detail: detailed_summary is set.
Rows == [sid : Sessions, mode : {"passive", "active", "both"},
         by : {"trim", "hook", "rpc"}, reason : {"turns", "parent", "child"},
         parent : NodeIds \cup {None}, links : SUBSET NodeIds,
         emb : BOOLEAN, raw : BOOLEAN, detail : BOOLEAN]

Saved == DOMAIN nodes

TypeOK ==
  /\ Saved \subseteq NodeIds /\ nodes \in [Saved -> Rows]
  /\ \A x \in Saved : nodes[x].links \subseteq Saved \ {x}
  /\ wrk \in [pc : WrkPcs, sid : Sessions \cup {None}, node : NodeIds \cup {None},
              hits : SUBSET NodeIds,
              parent : NodeIds \cup {None}, kids : SUBSET NodeIds]
  /\ rdr \in [Readers -> [pc : RdrPcs, node : NodeIds \cup {None}]]
  /\ {cross, everCross} \subseteq BOOLEAN
  /\ torn \subseteq NodeIds
  /\ gens \in [ReadIds -> Nat]
  /\ restarts \in 0..MaxRestarts

IdleWorker == [pc |-> "idle", sid |-> None, node |-> None, hits |-> {},
               parent |-> None, kids |-> {}]
IdleReader == [pc |-> "idle", node |-> None]

Init ==
  /\ nodes = << >>
  /\ wrk = IdleWorker
  /\ rdr = [r \in Readers |-> IdleReader]
  /\ cross \in {FALSE, MayCross}
  /\ everCross = cross
  /\ torn = {}
  /\ gens = [x \in ReadIds |-> 0]
  /\ restarts = 0

\* The next ids: not saved, not held by the worker, not lost in a crash.
FreeIds == NodeIds \ (Saved \cup wrk.kids \cup {wrk.parent, wrk.node} \cup torn)
IsNext(x) == x \in FreeIds /\ \A y \in FreeIds : x <= y

\* Everything but the cross links is written under Daemon._store_lock.
StoreFree == wrk.pc \notin {"raw", "child", "parent"}

Row(s, m, by, reason) ==
  [sid |-> s, mode |-> m, by |-> by, reason |-> reason, parent |-> None,
   links |-> {}, emb |-> TRUE, raw |-> FALSE, detail |-> FALSE]

\* save_node: INSERT OR REPLACE of the whole row.
SaveRow(x, row) ==
  nodes' = [y \in Saved \cup {x} |-> IF y = x THEN row ELSE nodes[y]]

-----------------------------------------------------------------------------
(* The trim worker, from the compacter's answer on.                        *)

\* save_node commits ...
SaveNode(s, m) ==
  /\ wrk.pc = "idle"
  /\ \E x \in FreeIds :
       /\ IsNext(x)
       /\ SaveRow(x, Row(s, m, "trim", "turns"))
       /\ wrk' = [IdleWorker EXCEPT !.pc = "raw", !.sid = s, !.node = x]
  /\ UNCHANGED <<rdr, cross, everCross, torn, gens, restarts>>

\* ... and so does save_raw_turns, under the same hold of the lock.
SaveRawTurns ==
  /\ wrk.pc = "raw"
  /\ nodes' = [nodes EXCEPT ![wrk.node].raw = TRUE]
  /\ wrk' = [wrk EXCEPT !.pc = "peers"]
  /\ UNCHANGED <<rdr, cross, everCross, torn, gens, restarts>>

\* Mistake: bundle parents are peers too.
Peers_WithBundles == Actives(nodes, wrk.sid, cross) \ {wrk.node}

\* Mistake: the new node is its own peer.
Peers_WithSelf ==
  {x \in Actives(nodes, wrk.sid, cross) : nodes[x].reason # "parent"}

\* Mistake: the peers of every session are asked for.
Peers_AllSessions ==
  {x \in Actives(nodes, wrk.sid, TRUE) \ {wrk.node} : nodes[x].reason # "parent"}

\* The candidates of _cross_link.
Peers ==
  {x \in Actives(nodes, wrk.sid, cross) \ {wrk.node} : nodes[x].reason # "parent"}

\* The similar ones among them, at most TopK.
FindPeers ==
  /\ wrk.pc = "peers" /\ StoreFree
  /\ \E H \in SUBSET Peers :
       /\ Cardinality(H) <= TopK
       /\ wrk' = [wrk EXCEPT !.pc = "link", !.hits = H]
  /\ UNCHANGED <<nodes, rdr, cross, everCross, torn, gens, restarts>>

\* add_bidirectional_link: one transaction for each hit, without the store
\* lock.  The order is that of similarity, which may be any; a crash leaves the
\* links of some of the hits whichever it is.
AddLink ==
  /\ wrk.pc = "link"
  /\ \E y \in wrk.hits :
       /\ \A z \in wrk.hits : y <= z
       /\ nodes' = [nodes EXCEPT ![wrk.node].links = @ \cup {y},
                                 ![y].links = @ \cup {wrk.node}]
       /\ wrk' = [wrk EXCEPT !.hits = @ \ {y}]
  /\ UNCHANGED <<rdr, cross, everCross, torn, gens, restarts>>

LinksDone ==
  /\ wrk.pc = "link" /\ wrk.hits = {}
  /\ wrk' = [wrk EXCEPT !.pc = "bundle"]
  /\ UNCHANGED <<nodes, rdr, cross, everCross, torn, gens, restarts>>

\* _synthesize_bundle_for: the LLM named some calls; ids for the children and
\* their parent are made and the parent's text is embedded before any row is
\* written.
Synthesize ==
  /\ wrk.pc = "bundle"
  /\ \E p \in FreeIds, K \in SUBSET FreeIds :
       /\ IsNext(p) /\ K # {} /\ Cardinality(K) <= MaxChildren
       /\ \A k \in K : k > p /\ \A y \in FreeIds : y > p /\ y < k => y \in K
       /\ wrk' = [wrk EXCEPT !.pc = "child", !.parent = p, !.kids = K]
  /\ UNCHANGED <<nodes, rdr, cross, everCross, torn, gens, restarts>>

\* The check is over, after the last bundle of the buffer or by an exception;
\* a bundle the LLM failed on or named no call of was skipped.
EndCheck ==
  /\ wrk.pc = "bundle"
  /\ wrk' = IdleWorker
  /\ UNCHANGED <<nodes, rdr, cross, everCross, torn, gens, restarts>>

\* Children are saved one commit each, without an embedding; they name a
\* parent that is not there yet.
SaveChild ==
  /\ wrk.pc = "child"
  /\ \E k \in wrk.kids \ Saved :
       /\ \A y \in wrk.kids \ Saved : k <= y
       /\ SaveRow(k, [Row(wrk.sid, "active", "trim", "child") EXCEPT
                        !.parent = wrk.parent, !.emb = FALSE])
  /\ wrk' = [wrk EXCEPT !.pc = IF wrk.kids \ DOMAIN nodes' = {} THEN "parent"
                               ELSE "child"]
  /\ UNCHANGED <<rdr, cross, everCross, torn, gens, restarts>>

\* Mistake: the parent's text is embedded after the children are saved, and
\* the embedding may raise.
SaveParent_EmbedsLate ==
  /\ wrk.pc = "parent"
  /\ \/ /\ SaveRow(wrk.parent, [Row(wrk.sid, "active", "trim", "parent") EXCEPT
                                  !.links = wrk.kids])
        /\ wrk' = [wrk EXCEPT !.pc = "bundle", !.parent = None, !.kids = {}]
     \/ wrk' = IdleWorker /\ UNCHANGED nodes
  /\ UNCHANGED <<rdr, cross, everCross, torn, gens, restarts>>

SaveParent ==
  /\ wrk.pc = "parent"
  /\ SaveRow(wrk.parent, [Row(wrk.sid, "active", "trim", "parent") EXCEPT
                            !.links = wrk.kids])
  /\ wrk' = [wrk EXCEPT !.pc = "bundle", !.parent = None, !.kids = {}]
  /\ UNCHANGED <<rdr, cross, everCross, torn, gens, restarts>>

Unwritten == ({wrk.parent} \cup wrk.kids) \ ({None} \cup Saved)

\* A write of the bundle raises: what was committed stays, the check is over.
BundleSaveRaises ==
  /\ wrk.pc \in {"child", "parent"}
  /\ torn' = torn \cup Unwritten
  /\ wrk' = IdleWorker
  /\ UNCHANGED <<nodes, rdr, cross, everCross, gens, restarts>>

WorkerStep ==
  \/ SaveRawTurns \/ FindPeers \/ AddLink \/ LinksDone
  \/ Synthesize \/ EndCheck \/ SaveChild \/ SaveParent \/ BundleSaveRaises

-----------------------------------------------------------------------------
(* Other writers.                                                          *)

\* The hook-era worker saves a node and no turns.
HookSave(s, m) ==
  /\ StoreFree
  /\ \E x \in FreeIds : IsNext(x) /\ SaveRow(x, Row(s, m, "hook", "turns"))
  /\ UNCHANGED <<wrk, rdr, cross, everCross, torn, gens, restarts>>

\* _m_save_compacted_node: a row as the client made it, with links to any rows
\* it has seen.  Its only client seeds demo nodes: it makes up an id for each and
\* sends no brief, so it replaces neither a row nor a brief.
RpcSave(s, L) ==
  /\ StoreFree
  /\ Cardinality({x \in Saved : nodes[x].by = "rpc"}) < MaxRpc
  /\ \E x \in FreeIds :
       IsNext(x) /\ SaveRow(x, [Row(s, "active", "rpc", "turns") EXCEPT !.links = L])
  /\ UNCHANGED <<wrk, rdr, cross, everCross, torn, gens, restarts>>

-----------------------------------------------------------------------------
(* _m_read_memory at depth 1.                                              *)

\* Mistake: the cached text is not looked for.
ReadNode_NoCache(r, x) ==
  /\ rdr[r].pc = "idle" /\ StoreFree
  /\ x \in Saved
  /\ rdr' = [rdr EXCEPT ![r] = [pc |-> "turns", node |-> x]]
  /\ UNCHANGED <<nodes, wrk, cross, everCross, torn, gens, restarts>>

\* get_node; with a detailed summary the answer is complete.
ReadNode(r, x) ==
  /\ rdr[r].pc = "idle" /\ StoreFree
  /\ x \in Saved /\ ~nodes[x].detail
  /\ rdr' = [rdr EXCEPT ![r] = [pc |-> "turns", node |-> x]]
  /\ UNCHANGED <<nodes, wrk, cross, everCross, torn, gens, restarts>>

\* Mistake: a node without turns is expanded from its summary.
ReadTurns_FromSummary(r) ==
  /\ rdr[r].pc = "turns" /\ StoreFree
  /\ rdr' = [rdr EXCEPT ![r].pc = "generate"]
  /\ UNCHANGED <<nodes, wrk, cross, everCross, torn, gens, restarts>>

\* get_raw_turns; without any the answer is the summary.
ReadTurns(r) ==
  /\ rdr[r].pc = "turns" /\ StoreFree
  /\ rdr' = [rdr EXCEPT ![r] = IF nodes[@.node].raw
                               THEN [@ EXCEPT !.pc = "generate"] ELSE IdleReader]
  /\ UNCHANGED <<nodes, wrk, cross, everCross, torn, gens, restarts>>

\* generate_detailed_summary returns a text, or nothing, or raises.
Generate(r) ==
  /\ rdr[r].pc = "generate"
  /\ \/ rdr' = [rdr EXCEPT ![r].pc = "update"]
     \/ rdr' = [rdr EXCEPT ![r] = IdleReader]
  /\ UNCHANGED <<nodes, wrk, cross, everCross, torn, gens, restarts>>

\* Mistake: the row is written back whole, as it was before it was linked.
UpdateDetail_WholeRow(r) ==
  /\ rdr[r].pc = "update" /\ StoreFree
  /\ nodes' = [nodes EXCEPT ![rdr[r].node].detail = TRUE,
                            ![rdr[r].node].links = {}]
  /\ gens' = [gens EXCEPT ![rdr[r].node] = @ + 1]
  /\ rdr' = [rdr EXCEPT ![r] = IdleReader]
  /\ UNCHANGED <<wrk, cross, everCross, torn, restarts>>

\* update_detailed_summary sets one column, whatever else changed.
UpdateDetail(r) ==
  /\ rdr[r].pc = "update" /\ StoreFree
  /\ nodes' = [nodes EXCEPT ![rdr[r].node].detail = TRUE]
  /\ gens' = [gens EXCEPT ![rdr[r].node] = @ + 1]
  /\ rdr' = [rdr EXCEPT ![r] = IdleReader]
  /\ UNCHANGED <<wrk, cross, everCross, torn, restarts>>

ReaderStep(r) == ReadTurns(r) \/ Generate(r) \/ UpdateDetail(r)

-----------------------------------------------------------------------------
\* A new process, with COMET_CC_CROSS_SESSION as it is set for it; a bundle
\* being saved is cut short.
Restart ==
  /\ restarts < MaxRestarts
  /\ restarts' = restarts + 1
  /\ wrk' = IdleWorker
  /\ rdr' = [r \in Readers |-> IdleReader]
  /\ cross' \in {FALSE, MayCross}
  /\ everCross' = (everCross \/ cross')
  /\ torn' = torn \cup Unwritten
  /\ UNCHANGED <<nodes, gens>>

Next ==
  \/ \E s \in Sessions, m \in TrimModes : SaveNode(s, m)
  \/ \E s \in Sessions, m \in HookModes : HookSave(s, m)
  \/ \E s \in Sessions : \E L \in SUBSET Saved : RpcSave(s, L)
  \/ WorkerStep
  \/ \E r \in Readers : \E x \in ReadIds : ReadNode(r, x)
  \/ \E r \in Readers : ReaderStep(r)
  \/ Restart

Spec == Init /\ [][Next]_vars

-----------------------------------------------------------------------------
(* The graph.                                                              *)

\* Two nodes of the workers know of each other or neither does, also after a
\* crash between two links; a node planted by RPC may link one way.
LinksAreMutual ==
  \A x, y \in Saved :
    y \in nodes[x].links /\ nodes[x].by # "rpc" /\ nodes[x].reason = "turns" =>
      x \in nodes[y].links

\* trim.py:435 "they are created with a complete, intentional link set (their
\* synthesized children) and should stay that way": a bundle's links are the
\* nodes that name it as their parent.
BundleLinksAreItsChildren ==
  \A p \in Saved :
    nodes[p].reason = "parent" =>
      nodes[p].links = {k \in Saved : nodes[k].parent = p}

\* trim.py:520 "so the parent's links reference existing rows": no row links to
\* a missing one, and a child whose parent is missing is being saved or is one
\* that a crash or a failing write left behind.
OrphansAreTorn ==
  /\ \A x \in Saved : nodes[x].links \subseteq Saved
  /\ \A k \in Saved :
       nodes[k].parent \notin Saved \cup {None} =>
         nodes[k].parent \in torn \cup {wrk.parent}

\* A depth-1 text is only ever cached for a node whose turns are stored: one
\* without them keeps answering with its summary.
DetailComesFromTurns == \A x \in Saved : nodes[x].detail => nodes[x].raw

\* However often a node is read, its detailed summary is written at most once
\* by each thread that was reading when it was not there yet.
GenerationsAreBounded ==
  \A x \in ReadIds : gens[x] <= Cardinality(Readers)

-----------------------------------------------------------------------------
(* Retrieval.  It holds the store lock and reads neither turns nor details, *)
(* and a graph in the middle of a check is also found after a crash, so it  *)
(* is evaluated where no thread is at work.                                 *)

Quiet == /\ wrk.pc = "idle"
         /\ \A r \in Readers : rdr[r] = IdleReader
         /\ \A x \in Saved : ~nodes[x].detail

\* Only the similarity of the nodes in scope matters.
Queries(s) == [Actives(nodes, s, cross) -> Sims]

\* config.py:82 and retriever.py:27: retrieval is scoped to the session.  So it
\* is unless a link leads out of it, which is one a process with
\* COMET_CC_CROSS_SESSION made, or one of a node saved by RPC.  Without a query
\* no link is followed.
WindowIsScoped ==
  Quiet /\ ~cross => \A s \in Sessions :
    /\ \A x \in Recent(nodes, s, cross) : nodes[x].sid = s
    /\ \A sim \in Queries(s) :
         LET R == Retrieve(nodes, s, cross, sim)
         IN  \A x \in R.window :
               nodes[x].sid # s =>
                 \E y \in R.leads :
                   /\ x \in nodes[y].links
                   /\ everCross \/ "rpc" \in {nodes[x].by, nodes[y].by}

\* A window holds at most what was asked for and no drill-down child.  A node
\* that a match links to is left out of one with room only if children took
\* that room: the slots are given out before they are dropped.
RoomIsLostToChildrenOnly ==
  Quiet => \A s \in Sessions : \A sim \in Queries(s) :
    LET R == Retrieve(nodes, s, cross, sim)
    IN  /\ R.window \subseteq TopLevel(nodes) /\ Cardinality(R.window) <= MaxNodes
        /\ (R.neighbours \cap TopLevel(nodes)) \ R.window # {} =>
             MaxNodes = Cardinality(R.window) + Cardinality(R.dropped)
=============================================================================
