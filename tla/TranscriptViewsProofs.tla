----------------------- MODULE TranscriptViewsProofs -----------------------
(***************************************************************************)
(* Proofs about TranscriptViews for every transcript: what the two loops   *)
(* return, and what the views keep of a transcript and of a longer one.    *)
(***************************************************************************)
EXTENDS TranscriptViews, TranscriptProofs, FunctionTheorems

-----------------------------------------------------------------------------
(* Entries, from left to right.                                            *)

\* A message is in a run if it opens one or follows one as a tool message.
LEMMA InRunStep ==
  ASSUME NEW s, NEW p \in Nat \ {0}
  PROVE  InRun(s, p) <=> \/ IsToolUse(s[p])
                         \/ p > 1 /\ InRun(s, p - 1) /\ IsToolMsg(s[p])
<1>1. ASSUME InRun(s, p)
      PROVE  IsToolUse(s[p]) \/ (p > 1 /\ InRun(s, p - 1) /\ IsToolMsg(s[p]))
  <2>1. PICK j \in 1..p : IsToolUse(s[j]) /\ \A k \in j..p : IsToolMsg(s[k])
    BY <1>1 DEF InRun
  <2>2. CASE j = p
    BY <2>1, <2>2
  <2>3. CASE j # p
    <3>1. p > 1 /\ j \in 1..(p - 1) /\ p \in j..p /\ \A k \in j..(p - 1) : k \in j..p
      BY <2>1, <2>3
    <3>. QED  BY <2>1, <3>1 DEF InRun
  <2>. QED  BY <2>2, <2>3
<1>2. ASSUME IsToolUse(s[p])  PROVE InRun(s, p)
  <2>1. p \in 1..p /\ \A k \in p..p : k = p
    OBVIOUS
  <2>. QED  BY <1>2, <2>1 DEF InRun, IsToolMsg
<1>3. ASSUME p > 1, InRun(s, p - 1), IsToolMsg(s[p])  PROVE InRun(s, p)
  <2>1. PICK j \in 1..(p - 1) : IsToolUse(s[j]) /\ \A k \in j..(p - 1) : IsToolMsg(s[k])
    BY <1>3 DEF InRun
  <2>2. j \in 1..p /\ \A k \in j..p : k \in j..(p - 1) \/ k = p
    BY <1>3
  <2>. QED  BY <1>3, <2>1, <2>2 DEF InRun
<1>. QED  BY <1>1, <1>2, <1>3

\* The entries of a view that begin before position k.
Entries(s, v, k) ==
  {RunFrom(s, j) : j \in {h \in 1..(k - 1) : StartsRun(s, h)}}
    \cup {{j} : j \in {h \in 1..(k - 1) : ~InRun(s, h) /\ Keeps(v, s[h])}}

LEMMA AllEntries ==
  ASSUME NEW s \in Seq(Message)
  PROVE  /\ Entries(s, "bundle", Len(s) + 1) = Bundle(s)
         /\ Entries(s, "parse", Len(s) + 1) = Parse(s)
<1>1. DOMAIN s = 1..((Len(s) + 1) - 1)
  BY LenProperties
<1>2. /\ {h \in 1..((Len(s) + 1) - 1) : ~InRun(s, h) /\ Keeps("bundle", s[h])}
           = {h \in DOMAIN s : ~InRun(s, h) /\ HasText(s[h])}
      /\ {h \in 1..((Len(s) + 1) - 1) : ~InRun(s, h) /\ Keeps("parse", s[h])}
           = {h \in DOMAIN s : ~InRun(s, h) /\ ~IsToolResult(s[h])}
  BY <1>1 DEF Keeps
<1>. QED  BY <1>1, <1>2 DEF Entries, Bundle, Parse

LEMMA NoEntries == ASSUME NEW s, NEW v  PROVE Entries(s, v, 1) = {}
BY DEF Entries

\* Each of them has a position before k.
LEMMA EntriesBegin ==
  ASSUME NEW s \in Seq(Message), NEW v, NEW k \in 1..(Len(s) + 1), NEW e \in Entries(s, v, k)
  PROVE  \E j \in e : j < k
<1>1. Len(s) \in Nat
  BY LenProperties
<1>2. CASE \E j \in 1..(k - 1) : StartsRun(s, j) /\ e = RunFrom(s, j)
  <2>1. PICK j \in 1..(k - 1) : StartsRun(s, j) /\ e = RunFrom(s, j)
    BY <1>2
  <2>2. IsToolMsg(s[j]) /\ j \in j..Len(s) /\ \A q \in j..j : q = j
    BY <1>1, <2>1 DEF StartsRun, IsToolMsg
  <2>. QED  BY <1>1, <2>1, <2>2 DEF RunFrom
<1>3. CASE \E j \in 1..(k - 1) : e = {j}
  BY <1>1, <1>3
<1>. QED  BY <1>2, <1>3 DEF Entries

\* Past a message outside of runs, and past a run.
LEMMA EntriesPastMsg ==
  ASSUME NEW s, NEW v, NEW k \in Nat \ {0}, ~InRun(s, k), ~IsToolUse(s[k])
  PROVE  Entries(s, v, k + 1) =
           Entries(s, v, k) \cup (IF Keeps(v, s[k]) THEN {{k}} ELSE {})
<1>1. 1..((k + 1) - 1) = (1..(k - 1)) \cup {k}
  OBVIOUS
<1>2. ~StartsRun(s, k)
  BY DEF StartsRun
<1>3. {h \in 1..((k + 1) - 1) : StartsRun(s, h)} = {h \in 1..(k - 1) : StartsRun(s, h)}
  BY <1>1, <1>2
<1>4. {h \in 1..((k + 1) - 1) : ~InRun(s, h) /\ Keeps(v, s[h])} =
        {h \in 1..(k - 1) : ~InRun(s, h) /\ Keeps(v, s[h])}
          \cup (IF Keeps(v, s[k]) THEN {k} ELSE {})
  BY <1>1
<1>. QED  BY <1>3, <1>4 DEF Entries

LEMMA EntriesPastRun ==
  ASSUME NEW s, NEW v, NEW k \in Nat \ {0}, NEW p \in Nat, k < p, StartsRun(s, k),
         \A j \in k..(p - 1) : InRun(s, j)
  PROVE  Entries(s, v, p) = Entries(s, v, k) \cup {RunFrom(s, k)}
<1>1. 1..(p - 1) = (1..(k - 1)) \cup {k} \cup ((k + 1)..(p - 1))
  OBVIOUS
<1>2. ASSUME NEW j \in (k + 1)..(p - 1)  PROVE InRun(s, j) /\ ~StartsRun(s, j)
  <2>1. InRun(s, j) /\ InRun(s, j - 1) /\ j > 1
    OBVIOUS
  <2>. QED  BY <2>1 DEF StartsRun
<1>3. InRun(s, k)
  OBVIOUS
<1>4. {h \in 1..(p - 1) : StartsRun(s, h)} = {h \in 1..(k - 1) : StartsRun(s, h)} \cup {k}
  BY <1>1, <1>2
<1>5. {h \in 1..(p - 1) : ~InRun(s, h) /\ Keeps(v, s[h])} =
        {h \in 1..(k - 1) : ~InRun(s, h) /\ Keeps(v, s[h])}
  BY <1>1, <1>2, <1>3
<1>. QED  BY <1>4, <1>5 DEF Entries

-----------------------------------------------------------------------------
(* The loops.                                                              *)

Appended == {out[j] : j \in DOMAIN out}

\* The bundle being gathered began at k.
RunSince(k) ==
  /\ run = k..(i - 1)
  /\ StartsRun(msgs, k)
  /\ \A j \in k..(i - 1) : IsToolMsg(msgs[j]) /\ InRun(msgs, j)
  /\ Appended = Entries(msgs, view, k)

\* What was appended are the entries that begin before the position of the
\* outer loop, each once; and no run goes across that position.
LoopInv ==
  /\ view = "none" => i = 1 /\ run = {} /\ out = <<>>
  /\ \A a, b \in DOMAIN out : out[a] = out[b] => a = b
  /\ run = {} =>
       /\ Appended = Entries(msgs, view, i)
       /\ i > 1 /\ AtToolMsg => ~InRun(msgs, i - 1)
  /\ run # {} => \E k \in 1..(i - 1) : RunSince(k)

\* Appending an entry that was not there.
LEMMA AppendsOnce ==
  ASSUME NEW S, out \in Seq(S), NEW e \in S, out' = Append(out, e), e \notin Appended,
         \A a, b \in DOMAIN out : out[a] = out[b] => a = b
  PROVE  /\ out' \in Seq(S) /\ Appended' = Appended \cup {e}
         /\ \A a, b \in DOMAIN out' : out'[a] = out'[b] => a = b
<1>1. /\ Len(out) \in Nat /\ DOMAIN out = 1..Len(out)
      /\ out' \in Seq(S) /\ DOMAIN out' = 1..(Len(out) + 1)
      /\ out'[Len(out) + 1] = e /\ \A a \in 1..Len(out) : out'[a] = out[a]
  <2>1. Len(out) \in Nat /\ DOMAIN out = 1..Len(out)
    BY LenProperties
  <2>2. /\ out' \in Seq(S) /\ Len(out') = Len(out) + 1
        /\ out'[Len(out) + 1] = e /\ \A a \in 1..Len(out) : out'[a] = out[a]
    BY AppendProperties
  <2>3. DOMAIN out' = 1..(Len(out) + 1)
    BY <2>2, LenProperties
  <2>. QED  BY <2>1, <2>2, <2>3
<1>. DEFINE n == Len(out)
<1>. HIDE DEF n
<1>2. /\ n \in Nat /\ DOMAIN out = 1..n /\ DOMAIN out' = (1..n) \cup {n + 1}
      /\ out'[n + 1] = e /\ (\A a \in 1..n : out'[a] = out[a]) /\ n + 1 \notin 1..n
  BY <1>1 DEF n
<1>3. Appended' = Appended \cup {e}
  BY <1>2 DEF Appended
<1>4. \A a \in 1..n : out[a] # e
  BY <1>2 DEF Appended
<1>5. ASSUME NEW a \in DOMAIN out', NEW b \in DOMAIN out', out'[a] = out'[b]
      PROVE  a = b
  BY <1>2, <1>4, <1>5
<1>. QED  BY <1>1, <1>3, <1>5

LEMMA LoopStep ==
  ASSUME TypeOK, LoopInv, Next
  PROVE  TypeOK' /\ LoopInv'
<1>1. /\ msgs \in Seq(Message) /\ Len(msgs) \in Nat /\ DOMAIN msgs = 1..Len(msgs)
      /\ view \in {"none", "bundle", "parse"} /\ i \in 1..(Len(msgs) + 1)
      /\ run \in SUBSET (1..Len(msgs)) /\ out \in Seq(SUBSET (1..Len(msgs)))
  BY LenProperties DEF TypeOK
<1>2. CASE Grow
  <2>1. PICK m \in Message : msgs' = Append(msgs, m)
    BY <1>2 DEF Grow
  <2>2. UNCHANGED loop /\ view = "none" /\ i = 1 /\ run = {} /\ out = <<>>
    BY <1>2 DEF Grow, LoopInv
  <2>3. msgs' \in Seq(Message) /\ Len(msgs') \in Nat
    BY <1>1, <2>1, AppendProperties, LenProperties
  <2>4. Appended' = {} /\ DOMAIN out' = {}
    BY <2>2 DEF loop, Appended
  <2>5. TypeOK'
    BY <1>1, <2>2, <2>3 DEF TypeOK, loop
  <2>6. Entries(msgs', view', i') = {}
    BY <2>2, NoEntries DEF loop
  <2>7. LoopInv'
    BY <2>2, <2>4, <2>6 DEF LoopInv, loop
  <2>. QED  BY <2>5, <2>7
<1>3. CASE Call
  <2>1. /\ view' \in {"bundle", "parse"} /\ UNCHANGED <<msgs, i, run, out>>
        /\ i = 1 /\ run = {} /\ out = <<>>
    BY <1>3 DEF Call, LoopInv
  <2>2. Appended' = {} /\ DOMAIN out' = {}
    BY <2>1 DEF Appended
  <2>3. Entries(msgs', view', i') = {}
    BY <2>1, NoEntries
  <2>4. LoopInv'
    BY <2>1, <2>2, <2>3 DEF LoopInv
  <2>. QED  BY <1>1, <2>1, <2>4 DEF TypeOK
<1>4. CASE TakeToolMsg
  <2>1. /\ view # "none" /\ i \in 1..Len(msgs) /\ IsToolMsg(msgs[i])
        /\ run # {} \/ IsToolUse(msgs[i])
        /\ run' = run \cup {i} /\ i' = i + 1 /\ UNCHANGED <<msgs, view, out>>
    BY <1>1, <1>4 DEF TakeToolMsg, AtToolMsg
  <2>2. TypeOK'
    BY <1>1, <2>1 DEF TypeOK
  <2>3. PICK k \in 1..i : /\ run' = k..i /\ StartsRun(msgs, k)
                          /\ \A j \in k..i : IsToolMsg(msgs[j]) /\ InRun(msgs, j)
                          /\ Appended = Entries(msgs, view, k)
    <3>1. CASE run = {}
      <4>1. StartsRun(msgs, i)
        <5>1. IsToolUse(msgs[i]) /\ (i > 1 => ~InRun(msgs, i - 1))
          BY <1>1, <2>1, <3>1 DEF LoopInv, AtToolMsg
        <5>. QED  BY <5>1 DEF StartsRun
      <4>2. InRun(msgs, i)
        BY <1>1, <4>1, InRunStep DEF StartsRun
      <4>3. run' = i..i /\ \A j \in i..i : j = i
        BY <1>1, <2>1, <3>1
      <4>4. Appended = Entries(msgs, view, i)
        BY <3>1 DEF LoopInv
      <4>5. i \in 1..i
        BY <1>1
      <4>. QED  BY <2>1, <4>1, <4>2, <4>3, <4>4, <4>5
    <3>2. CASE run # {}
      <4>1. PICK k \in 1..(i - 1) : RunSince(k)
        BY <3>2 DEF LoopInv
      <4>2. InRun(msgs, i)
        <5>1. i > 1 /\ i - 1 \in k..(i - 1) /\ i \in Nat \ {0}
          BY <1>1
        <5>2. InRun(msgs, i - 1)
          BY <4>1, <5>1 DEF RunSince
        <5>. QED  BY <2>1, <5>1, <5>2, InRunStep
      <4>3. k \in 1..i /\ k..i = (k..(i - 1)) \cup {i}
        BY <1>1
      <4>. QED  BY <2>1, <4>1, <4>2, <4>3 DEF RunSince
    <3>. QED  BY <3>1, <3>2
  <2>4. run' # {} /\ i' - 1 = i
    BY <1>1, <2>1
  <2>5. Appended' = Appended
    BY <2>1 DEF Appended
  <2>6. RunSince(k)'
    BY <2>1, <2>3, <2>4, <2>5 DEF RunSince
  <2>7. \A a, b \in DOMAIN out' : out'[a] = out'[b] => a = b
    BY <2>1 DEF LoopInv
  <2>8. LoopInv'
    BY <2>1, <2>4, <2>6, <2>7 DEF LoopInv
  <2>. QED  BY <2>2, <2>8
<1>5. CASE CloseRun
  <2>1. /\ run # {} /\ ~AtToolMsg /\ out' = Append(out, run) /\ run' = {}
        /\ UNCHANGED <<msgs, view, i>>
    BY <1>5 DEF CloseRun
  <2>2. PICK k \in 1..(i - 1) : RunSince(k)
    BY <2>1 DEF LoopInv
  <2>3. RunFrom(msgs, k) = run
    <3>1. ASSUME NEW j \in RunFrom(msgs, k)  PROVE j \in k..(i - 1)
      <4>1. j \in k..Len(msgs) /\ \A q \in k..j : IsToolMsg(msgs[q])
        BY DEF RunFrom
      <4>2. i \notin k..j
        BY <1>1, <2>1, <4>1 DEF AtToolMsg
      <4>. QED  BY <1>1, <4>1, <4>2
    <3>2. ASSUME NEW j \in k..(i - 1)  PROVE j \in RunFrom(msgs, k)
      BY <1>1, <2>2 DEF RunSince, RunFrom
    <3>. QED  BY <2>2, <3>1, <3>2 DEF RunSince
  <2>4. k \in 1..(Len(msgs) + 1) /\ k \in Nat \ {0} /\ i \in Nat /\ k < i
    BY <1>1
  <2>5. run \notin Appended
    <3>1. \A j \in run : ~(j < k)
      BY <1>1, <2>2 DEF RunSince
    <3>2. Appended = Entries(msgs, view, k)
      BY <2>2 DEF RunSince
    <3>. QED  BY <1>1, <2>4, <3>1, <3>2, EntriesBegin
  <2>6. /\ out' \in Seq(SUBSET (1..Len(msgs))) /\ Appended' = Appended \cup {run}
        /\ \A a, b \in DOMAIN out' : out'[a] = out'[b] => a = b
    <3>1. \A a, b \in DOMAIN out : out[a] = out[b] => a = b
      BY DEF LoopInv
    <3>. QED  BY <1>1, <2>1, <2>5, <3>1, AppendsOnce
  <2>7. Appended' = Entries(msgs, view, i)
    BY <2>2, <2>3, <2>4, <2>6, EntriesPastRun DEF RunSince
  <2>8. view # "none"
    BY <2>1 DEF LoopInv
  <2>9. TypeOK'
    BY <1>1, <2>1, <2>6 DEF TypeOK
  <2>10. ~AtToolMsg'
    BY <2>1 DEF AtToolMsg
  <2>11. LoopInv'
    BY <2>1, <2>6, <2>7, <2>8, <2>10 DEF LoopInv
  <2>. QED  BY <2>9, <2>11
<1>6. CASE OtherMsg
  <2>1. /\ view # "none" /\ run = {} /\ i \in 1..Len(msgs) /\ ~IsToolUse(msgs[i])
        /\ out' = IF Keeps(view, msgs[i]) THEN Append(out, {i}) ELSE out
        /\ i' = i + 1 /\ UNCHANGED <<msgs, view, run>>
    BY <1>1, <1>6 DEF OtherMsg
  <2>2. i \in Nat \ {0} /\ (i + 1) - 1 = i /\ i + 1 \in 1..(Len(msgs) + 1)
    BY <1>1, <2>1
  <2>3. ~InRun(msgs, i)
    BY <1>1, <2>1, <2>2, InRunStep DEF LoopInv, AtToolMsg
  <2>4. Appended = Entries(msgs, view, i)
    BY <2>1 DEF LoopInv
  <2>5. {i} \notin Appended
    BY <1>1, <2>1, <2>4, EntriesBegin
  <2>6. /\ out' \in Seq(SUBSET (1..Len(msgs)))
        /\ Appended' = Appended \cup (IF Keeps(view, msgs[i]) THEN {{i}} ELSE {})
        /\ \A a, b \in DOMAIN out' : out'[a] = out'[b] => a = b
    <3>1. \A a, b \in DOMAIN out : out[a] = out[b] => a = b
      BY DEF LoopInv
    <3>2. CASE Keeps(view, msgs[i])
      <4>1. out' = Append(out, {i}) /\ {i} \in SUBSET (1..Len(msgs))
        BY <2>1, <3>2
      <4>. QED  BY <1>1, <2>5, <3>1, <3>2, <4>1, AppendsOnce
    <3>3. CASE ~Keeps(view, msgs[i])
      <4>1. out' = out
        BY <2>1, <3>3
      <4>. QED  BY <1>1, <3>1, <3>3, <4>1 DEF Appended
    <3>. QED  BY <3>2, <3>3
  <2>7. Appended' = Entries(msgs, view, i + 1)
    BY <2>1, <2>2, <2>3, <2>4, <2>6, EntriesPastMsg
  <2>8. TypeOK'
    BY <1>1, <2>1, <2>2, <2>6 DEF TypeOK
  <2>9. ~InRun(msgs, i - 1)' /\ i' - 1 = i
    BY <2>1, <2>2, <2>3
  <2>10. LoopInv'
    BY <2>1, <2>3, <2>6, <2>7, <2>9 DEF LoopInv
  <2>. QED  BY <2>8, <2>10
<1>7. CASE Return
  <2>1. run = {} /\ view' = "none" /\ i' = 1 /\ out' = <<>> /\ UNCHANGED <<msgs, run>>
    BY <1>7 DEF Return, Finished
  <2>2. Appended' = {} /\ DOMAIN out' = {}
    BY <2>1 DEF Appended
  <2>3. Entries(msgs', view', i') = {}
    BY <2>1, NoEntries
  <2>4. LoopInv'
    BY <2>1, <2>2, <2>3 DEF LoopInv
  <2>. QED  BY <1>1, <2>1, <2>4 DEF TypeOK
<1>. QED  BY <1>2, <1>3, <1>4, <1>5, <1>6, <1>7 DEF Next

LEMMA LoopInvariance == Spec => [](TypeOK /\ LoopInv)
<1>1. Init => TypeOK /\ LoopInv
  <2>. SUFFICES ASSUME Init  PROVE TypeOK /\ LoopInv
    OBVIOUS
  <2>1. msgs = <<>> /\ view = "none" /\ i = 1 /\ run = {} /\ out = <<>>
    BY DEF Init
  <2>2. Appended = {} /\ DOMAIN out = {} /\ Len(msgs) = 0
    BY <2>1 DEF Appended
  <2>3. Entries(msgs, view, i) = {}
    BY <2>1, NoEntries
  <2>. QED  BY <2>1, <2>2, <2>3 DEF TypeOK, LoopInv
<1>2. TypeOK /\ LoopInv /\ [Next]_vars => (TypeOK /\ LoopInv)'
  <2>. SUFFICES ASSUME TypeOK, LoopInv, UNCHANGED vars  PROVE (TypeOK /\ LoopInv)'
    BY LoopStep
  <2>. QED  BY DEF vars, TypeOK, LoopInv, RunSince, Appended, AtToolMsg
<1>. QED  BY <1>1, <1>2, PTL DEF Spec

-----------------------------------------------------------------------------
\* The loops stay within the transcript they were given.
THEOREM TypeInvariance == Spec => []TypeOK
BY LoopInvariance, PTL

\* A loop that has ended has appended every entry of its view, each once.
LEMMA LoopReturns ==
  ASSUME TypeOK, LoopInv, NEW v \in {"bundle", "parse"}, Finished(v)
  PROVE  /\ Appended = Entries(msgs, v, Len(msgs) + 1)
         /\ Cardinality(Appended) = Len(out)
<1>1. /\ Len(msgs) \in Nat /\ Len(out) \in Nat /\ DOMAIN out = 1..Len(out)
  BY LenProperties DEF TypeOK
<1>2. view = v /\ i = Len(msgs) + 1 /\ run = {}
  BY <1>1 DEF Finished, TypeOK
<1>3. Appended = Entries(msgs, v, Len(msgs) + 1)
  BY <1>2 DEF LoopInv
<1>4. \A a, b \in DOMAIN out : out[a] = out[b] => a = b
  BY DEF LoopInv
<1>. DEFINE f == [j \in 1..Len(out) |-> out[j]]
<1>5. f \in Bijection(1..Len(out), Appended)
  BY <1>1, <1>4 DEF Bijection, Injection, Surjection, IsInjective, Appended
<1>6. ExistsBijection(1..Len(out), Appended)
  BY <1>5 DEF ExistsBijection
<1>. QED  BY <1>1, <1>3, <1>6, FS_CountingElements

\* bundle_l1 returns the entries of Bundle, each once, for every transcript.
THEOREM BundleLoopReturnsBundle == Spec => []BundleIsTheLoop
<1>1. TypeOK /\ LoopInv => BundleIsTheLoop
  <2>. SUFFICES ASSUME TypeOK, LoopInv, Finished("bundle")
                PROVE  Appended = Bundle(msgs) /\ Len(out) = Cardinality(Bundle(msgs))
    BY DEF BundleIsTheLoop, Appended
  <2>. QED  BY LoopReturns, AllEntries DEF TypeOK
<1>. QED  BY <1>1, LoopInvariance, PTL

\* parse_transcript returns the nodes of Parse, each once, for every file.
THEOREM ParseLoopReturnsParse == Spec => []ParseIsTheLoop
<1>1. TypeOK /\ LoopInv => ParseIsTheLoop
  <2>. SUFFICES ASSUME TypeOK, LoopInv, Finished("parse")
                PROVE  Appended = Parse(msgs) /\ Len(out) = Cardinality(Parse(msgs))
    BY DEF ParseIsTheLoop, Appended
  <2>. QED  BY LoopReturns, AllEntries DEF TypeOK
<1>. QED  BY <1>1, LoopInvariance, PTL

\* Absorbing every entry of a request masks each message with text once.
THEOREM TextPartitioned == Spec => []EntriesPartitionText
<1>1. TypeOK => EntriesPartitionText
  BY BundlePartitionsText DEF TypeOK, EntriesPartitionText
<1>. QED  BY <1>1, TypeInvariance, PTL

\* A tool use and the result right behind it are in one entry.
THEOREM ToolPairsTogether == Spec => []ToolPairsStayTogether
<1>1. TypeOK => ToolPairsStayTogether
  <2>. SUFFICES ASSUME msgs \in Seq(Message), NEW p \in 1..(Len(msgs) - 1),
                       IsToolUse(msgs[p]), IsToolResult(msgs[p + 1])
                PROVE  \E e \in Bundle(msgs) : {p, p + 1} \subseteq e
    BY DEF TypeOK, ToolPairsStayTogether
  <2>1. Len(msgs) \in Nat /\ DOMAIN msgs = 1..Len(msgs)
    BY LenProperties
  <2>2. p \in 1..Len(msgs) /\ p + 1 \in 1..Len(msgs)
    BY <2>1
  <2>3. InRun(msgs, p)
    BY <2>1, InRunStep
  <2>4. PICK j \in 1..p : StartsRun(msgs, j) /\ p \in RunFrom(msgs, j)
    BY <2>2, <2>3, RunHasStart
  <2>5. p + 1 \in RunFrom(msgs, j)
    <3>1. \A k \in j..p : IsToolMsg(msgs[k])
      BY <2>4 DEF RunFrom
    <3>2. IsToolMsg(msgs[p + 1]) /\ \A k \in j..(p + 1) : k \in j..p \/ k = p + 1
      BY DEF IsToolMsg
    <3>. QED  BY <2>1, <2>2, <3>1, <3>2 DEF RunFrom
  <2>6. RunFrom(msgs, j) \in Bundle(msgs)
    BY <2>1, <2>2, <2>4 DEF Bundle
  <2>. QED  BY <2>4, <2>5, <2>6
<1>. QED  BY <1>1, TypeInvariance, PTL

\* One more message changes no node but a bundle it extends.
LEMMA ParseOfLonger ==
  ASSUME NEW s \in Seq(Message), NEW m \in Message, NEW t, t = Append(s, m),
         NEW e \in Parse(s), e \notin Parse(t)
  PROVE  /\ Len(s) \in e /\ IsToolMsg(s[Len(s)])
         /\ IsToolMsg(t[Len(t)]) /\ e \cup {Len(t)} \in Parse(t)
<1>. DEFINE n == Len(s)
<1>1. /\ n \in Nat /\ DOMAIN s = 1..n /\ Len(t) = n + 1 /\ DOMAIN t = 1..(n + 1)
      /\ t[n + 1] = m /\ \A p \in 1..n : t[p] = s[p]
  <2>1. n \in Nat /\ DOMAIN s = 1..n
    BY LenProperties
  <2>2. /\ t \in Seq(Message) /\ Len(t) = n + 1 /\ t[n + 1] = m
        /\ \A p \in 1..n : t[p] = s[p]
    BY AppendProperties
  <2>3. DOMAIN t = 1..(n + 1)
    BY <2>2, LenProperties
  <2>. QED  BY <2>1, <2>2, <2>3
<1>. HIDE DEF n
<1>2. ASSUME NEW p \in 1..n  PROVE InRun(t, p) <=> InRun(s, p)
  BY <1>1 DEF InRun
<1>3. ASSUME NEW p \in 1..n  PROVE StartsRun(t, p) <=> StartsRun(s, p)
  <2>1. p > 1 => p - 1 \in 1..n
    BY <1>1
  <2>. QED  BY <1>1, <1>2, <2>1 DEF StartsRun
<1>4. ASSUME NEW p \in 1..n, ~InRun(s, p), ~IsToolResult(s[p]), e = {p}
      PROVE  FALSE
  <2>1. p \in DOMAIN t /\ ~InRun(t, p) /\ ~IsToolResult(t[p])
    BY <1>1, <1>2, <1>4
  <2>. QED  BY <1>4, <2>1 DEF Parse
<1>5. PICK p \in 1..n : StartsRun(s, p) /\ e = RunFrom(s, p)
  BY <1>1, <1>4 DEF Parse
<1>6. RunFrom(t, p) \in Parse(t)
  BY <1>1, <1>3, <1>5 DEF Parse
<1>7. RunFrom(s, p) = {j \in p..n : \A k \in p..j : IsToolMsg(t[k])}
  BY <1>1 DEF RunFrom, n
<1>8. RunFrom(t, p) = {j \in p..(n + 1) : \A k \in p..j : IsToolMsg(t[k])}
  BY <1>1 DEF RunFrom
<1>9. p..(n + 1) = (p..n) \cup {n + 1}
  BY <1>1
<1>10. \A k \in p..(n + 1) : IsToolMsg(t[k])
  <2>. SUFFICES ASSUME ~\A k \in p..(n + 1) : IsToolMsg(t[k])  PROVE FALSE
    OBVIOUS
  <2>1. RunFrom(t, p) = RunFrom(s, p)
    BY <1>7, <1>8, <1>9
  <2>. QED  BY <1>5, <1>6, <2>1
<1>11. n \in p..n /\ \A j \in p..(n + 1) : \A k \in p..j : IsToolMsg(t[k])
  BY <1>1, <1>10
<1>12. n \in e /\ IsToolMsg(s[n]) /\ IsToolMsg(t[n + 1])
  BY <1>1, <1>5, <1>7, <1>10, <1>11
<1>13. e \cup {n + 1} = RunFrom(t, p)
  BY <1>5, <1>7, <1>8, <1>9, <1>11
<1>. QED  BY <1>1, <1>6, <1>12, <1>13 DEF n

\* What is parsed from a transcript is parsed again from a longer one, except
\* for a bundle at its end that has grown.
THEOREM OnlyTailGrows == Spec => OnlyTailBundleGrows
<1>. DEFINE A == \A e \in Parse(msgs) \ Parse(msgs') :
                   /\ Len(msgs) \in e /\ IsToolMsg(msgs[Len(msgs)])
                   /\ IsToolMsg(msgs'[Len(msgs')])
                   /\ e \cup {Len(msgs')} \in Parse(msgs')
<1>1. TypeOK /\ [Next]_vars => [A]_msgs
  <2>. SUFFICES ASSUME TypeOK, [Next]_vars, msgs' # msgs  PROVE A
    OBVIOUS
  <2>1. Grow
    BY DEF Next, Call, TakeToolMsg, CloseRun, OtherMsg, Return, vars
  <2>2. PICK m \in Message : msgs' = Append(msgs, m)
    BY <2>1 DEF Grow
  <2>. QED  BY <2>2, ParseOfLonger DEF TypeOK
<1>. QED  BY <1>1, TypeInvariance, PTL DEF Spec, OnlyTailBundleGrows
=============================================================================
