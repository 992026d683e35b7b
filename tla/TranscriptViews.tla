-------------------------- MODULE TranscriptViews --------------------------
(***************************************************************************)
(* A transcript that grows, and the two loops that read it: bundle_l1      *)
(* (extractor.py) for the trim worker and parse_transcript (parser.py) for *)
(* the hook-era worker, one iteration a step.  Each works on the copy it   *)
(* was given, so the transcript stands still meanwhile.  What they return  *)
(* is compared with the operators Bundle and Parse of Transcript, on which *)
(* the models of the workers are built.                                    *)
(***************************************************************************)
EXTENDS Transcript

CONSTANT MaxLen    \* bound on the length of a transcript

VARIABLES
  msgs,    \* the "messages" array of a request, or the entries of the file
  view,    \* the loop that runs: "bundle", "parse" or "none"
  i,       \* its position
  run,     \* the positions in the tool bundle being gathered, {} outside
  out      \* the entries appended so far, each as a set of positions

vars == <<msgs, view, i, run, out>>
loop == <<view, i, run, out>>

TypeOK ==
  /\ msgs \in Seq(Message)
  /\ view \in {"none", "bundle", "parse"}
  /\ i \in 1..(Len(msgs) + 1)
  /\ run \subseteq 1..Len(msgs)
  /\ out \in Seq(SUBSET (1..Len(msgs)))

Init ==
  /\ msgs = <<>> /\ view = "none"
  /\ i = 1 /\ run = {} /\ out = <<>>

\* Claude Code appends to its transcript and sends the whole of it again.
Grow ==
  /\ view = "none"
  /\ Len(msgs) < MaxLen
  /\ \E m \in Message : msgs' = Append(msgs, m)
  /\ UNCHANGED loop

Call ==
  /\ view = "none"
  /\ view' \in {"bundle", "parse"}
  /\ UNCHANGED <<msgs, i, run, out>>

AtToolMsg == i <= Len(msgs) /\ IsToolMsg(msgs[i])

\* The inner loop takes a message of the run; the outer loop enters it only
\* at a tool use.
TakeToolMsg ==
  /\ view # "none"
  /\ AtToolMsg
  /\ run # {} \/ IsToolUse(msgs[i])
  /\ run' = run \cup {i}
  /\ i' = i + 1
  /\ UNCHANGED <<msgs, view, out>>

\* The inner loop ends and its bundle is appended.
CloseRun ==
  /\ run # {}
  /\ ~AtToolMsg
  /\ out' = Append(out, run)
  /\ run' = {}
  /\ UNCHANGED <<msgs, view, i>>

\* What a loop appends outside a run: bundle_l1 a message with text,
\* parse_transcript a message that is not a tool result.
Keeps(v, m) == IF v = "bundle" THEN HasText(m) ELSE ~IsToolResult(m)

OtherMsg ==
  /\ view # "none"
  /\ run = {} /\ i <= Len(msgs) /\ ~IsToolUse(msgs[i])
  /\ out' = IF Keeps(view, msgs[i]) THEN Append(out, {i}) ELSE out
  /\ i' = i + 1
  /\ UNCHANGED <<msgs, view, run>>

Finished(v) == view = v /\ i > Len(msgs) /\ run = {}

Return ==
  /\ \E v \in {"bundle", "parse"} : Finished(v)
  /\ view' = "none" /\ i' = 1 /\ out' = <<>>
  /\ UNCHANGED <<msgs, run>>

Next == Grow \/ Call \/ TakeToolMsg \/ CloseRun \/ OtherMsg \/ Return

Spec == Init /\ [][Next]_vars

-----------------------------------------------------------------------------
\* The logical nodes of a transcript file are those the parser's loop appends,
\* each once.
ParseIsTheLoop ==
  Finished("parse") => /\ {out[j] : j \in DOMAIN out} = Parse(msgs)
                       /\ Len(out) = Cardinality(Parse(msgs))

\* The entries of the bundled view are those the loop appends, and the loop
\* appends no entry twice: len(bundled), which gates the sensor, counts them.
BundleIsTheLoop ==
  Finished("bundle") => /\ {out[j] : j \in DOMAIN out} = Bundle(msgs)
                        /\ Len(out) = Cardinality(Bundle(msgs))

\* A node once parsed is parsed again, entry for entry, from every longer
\* transcript, so its fingerprint goes on being recognised as consumed; only a
\* tool bundle at the very end of the file may be replaced by a larger one.
OnlyTailBundleGrows ==
  [][\A e \in Parse(msgs) \ Parse(msgs') :
       /\ Len(msgs) \in e /\ IsToolMsg(msgs[Len(msgs)])
       /\ IsToolMsg(msgs'[Len(msgs')])
       /\ e \cup {Len(msgs')} \in Parse(msgs')]_msgs

\* Every message with text is in exactly one entry and a blank one in none, so
\* absorbing a buffer masks each of its messages once and nothing else.
EntriesPartitionText ==
  /\ UNION Bundle(msgs) = TextPositions(msgs)
  /\ \A d, e \in Bundle(msgs) : d # e => d \cap e = {}

\* A tool result that answers the tool use right before it is compacted with
\* it: a buffer never ends between the two.
ToolPairsStayTogether ==
  \A p \in 1..(Len(msgs) - 1) :
    IsToolUse(msgs[p]) /\ IsToolResult(msgs[p + 1]) =>
      \E e \in Bundle(msgs) : {p, p + 1} \subseteq e
=============================================================================
