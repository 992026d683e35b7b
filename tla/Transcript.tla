----------------------------- MODULE Transcript -----------------------------
(***************************************************************************)
(* How a conversation is read by the proxy (proxy/extractor.py), as the     *)
(* messages of a request, and by the hook-era worker (parser.py), as the   *)
(* entries of Claude Code's transcript file.                               *)
(*                                                                         *)
(* A message is abstracted to what the extractor distinguishes: its role,  *)
(* the content blocks _text_of makes something of, and the fingerprint of  *)
(* its role and text.  An entry of the file has an id of its own, its      *)
(* place.  A message without such a block is blank: only images, only      *)
(* thinking blocks, or only a <system-reminder>.                           *)
(***************************************************************************)
EXTENDS Naturals, Sequences, FiniteSets

CONSTANT Fps    \* fingerprints: truncated SHA-1 of "role|text"

\* An assistant may write next to its tool calls, a user next to the results.
Message ==
  [role : {"user"}, blocks : SUBSET {"text", "result"}, fp : Fps]
    \cup [role : {"assistant"}, blocks : SUBSET {"text", "call"}, fp : Fps]

\* _text_of(content).strip() is not empty.
HasText(m) == m.blocks # {}

TextPositions(msgs) == {p \in DOMAIN msgs : HasText(msgs[p])}

\* messages_to_l1: one entry per message with text, in order.  The i-th entry
\* comes from the i-th such message, which is message number i only when no
\* blank message precedes it.
L1Len(msgs) == Cardinality(TextPositions(msgs))

\* Mistake: the i-th entry is taken for message number i.
L1At_SameIndex(msgs, i) == i

L1At(msgs, i) ==
  CHOOSE p \in TextPositions(msgs) :
    Cardinality({q \in TextPositions(msgs) : q <= p}) = i

IsToolUse(m) == m.role = "assistant" /\ "call" \in m.blocks
IsToolResult(m) == m.role = "user" /\ "result" \in m.blocks
IsToolMsg(m) == IsToolUse(m) \/ IsToolResult(m)

\* Message i belongs to a run that an assistant tool_use opened.
InRun(msgs, i) ==
  \E j \in 1..i : /\ IsToolUse(msgs[j])
                  /\ \A k \in j..i : IsToolMsg(msgs[k])

\* Mistake: every tool_use opens a run of its own.
StartsRun_EveryCall(msgs, i) == IsToolUse(msgs[i])

StartsRun(msgs, i) ==
  IsToolUse(msgs[i]) /\ (i > 1 => ~InRun(msgs, i - 1))

\* Mistake: a run takes the calls and not their results.
RunFrom_CallsOnly(msgs, i) ==
  {j \in i..Len(msgs) : \A k \in i..j : IsToolUse(msgs[k])}

RunFrom(msgs, i) ==
  {j \in i..Len(msgs) : \A k \in i..j : IsToolMsg(msgs[k])}

\* Mistake: a blank message is an entry too.
Bundle_KeepsBlank(msgs) ==
  LET Idx == DOMAIN msgs
  IN  {RunFrom(msgs, i) : i \in {j \in Idx : StartsRun(msgs, j)}}
        \cup {{i} : i \in {j \in Idx : ~InRun(msgs, j)}}

\* bundle_l1: the entries of the bundled view, each as the set of indices of
\* the messages it renders.  A run of tool messages is one entry, a message
\* with text outside a run is one entry, a blank one is in no entry.
Bundle(msgs) ==
  LET Idx == DOMAIN msgs
  IN  {RunFrom(msgs, i) : i \in {j \in Idx : StartsRun(msgs, j)}}
        \cup {{i} : i \in {j \in Idx : ~InRun(msgs, j) /\ HasText(msgs[j])}}

\* The same view of the messages picked from msgs at the positions `at` (a
\* sequence), each entry as a set of positions in msgs.
BundleAt(msgs, at) ==
  LET Picked == [j \in DOMAIN at |-> msgs[at[j]]]
  IN  {{at[j] : j \in e} : e \in Bundle(Picked)}

\* Mistake: the entry that ends a tool run is swallowed by its bundle.
Parse_TakesBreaker(msgs) ==
  LET Idx == DOMAIN msgs
      Run(i) == {j \in i..Len(msgs) : \A k \in i..(j - 1) : IsToolMsg(msgs[k])}
      Taken(j) == ~IsToolUse(msgs[j]) /\ j > 1 /\ InRun(msgs, j - 1)
  IN  {Run(i) : i \in {j \in Idx : StartsRun(msgs, j)}}
        \cup {{i} : i \in {j \in Idx :
                ~InRun(msgs, j) /\ ~Taken(j) /\ ~IsToolResult(msgs[j])}}

\* Mistake: a tool result outside a run is a user turn.
Parse_KeepsStray(msgs) ==
  LET Idx == DOMAIN msgs
  IN  {RunFrom(msgs, i) : i \in {j \in Idx : StartsRun(msgs, j)}}
        \cup {{i} : i \in {j \in Idx : ~InRun(msgs, j)}}

\* parse_transcript, parser.py: the logical nodes of a transcript file, read
\* by the hook-era worker, each as the set of entries it groups.  Runs are
\* those of bundle_l1; but a user or assistant entry without text is a node of
\* its own (unless it has no block at all, which the client does not write),
\* and a tool result outside a run is in no node.
Parse(msgs) ==
  LET Idx == DOMAIN msgs
  IN  {RunFrom(msgs, i) : i \in {j \in Idx : StartsRun(msgs, j)}}
        \cup {{i} : i \in {j \in Idx : ~InRun(msgs, j) /\ ~IsToolResult(msgs[j])}}

\* What a message says, part by part: a call also has an input that goes on
\* beyond 300 characters, a result an output that goes on beyond 400.
Parts == {"text", "call", "input", "result", "output"}

Said(m) == m.blocks \cup {x \in {"input"} : "call" \in m.blocks}
                    \cup {x \in {"output"} : "result" \in m.blocks}

\* raw_content of entry e, as the parts it has of each message: a tool bundle
\* is rendered from the calls, with their inputs cut, and the results; any
\* other message is flattened by _text_of, which cuts a result outside a run.
Rendered(msgs, e) ==
  LET isBundle == \E q \in e : IsToolUse(msgs[q])
      lost == IF isBundle THEN {"text", "input"} ELSE {"output"}
  IN  {x \in e \X Parts : x[2] \in Said(msgs[x[1]]) \ lost}

\* The raw turns saved with a node that absorbs the entries of buffer.
RawTurns(msgs, buffer) == UNION {Rendered(msgs, e) : e \in buffer}

\* What any rendering keeps of a message: its blocks, but not the text next to
\* a call or a result, nor what a call or result says beyond its cut.
Kept(m) == IF IsToolMsg(m) THEN m.blocks \ {"text"} ELSE m.blocks

\* The fingerprints of the messages of msgs at a set of positions.
FpsOf(msgs, ps) == {msgs[p].fp : p \in ps}

\* Every message has text and no two share a fingerprint.
Clean(msgs) ==
  \A p \in DOMAIN msgs :
    /\ HasText(msgs[p])
    /\ \A q \in DOMAIN msgs : msgs[p].fp = msgs[q].fp => p = q
=============================================================================
