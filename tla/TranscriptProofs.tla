-------------------------- MODULE TranscriptProofs --------------------------
(***************************************************************************)
(* What the extractor's views of a transcript are, for every transcript.   *)
(***************************************************************************)
EXTENDS Transcript, FiniteSetTheorems, SequenceTheorems, WellFoundedInduction,
        TLAPS

\* A non-empty set of naturals has a least element.
LEMMA LeastNatural ==
  ASSUME NEW T, T \subseteq Nat, T # {}
  PROVE  \E x \in T : \A y \in T : x <= y
<1>1. PICK x \in T : \A y \in T : ~ (<<y, x>> \in OpToRel(<, Nat))
  BY NatLessThanWellFounded, WFMin
<1>2. ASSUME NEW y \in T  PROVE  x <= y
  <2>1. x \in Nat /\ y \in Nat
    OBVIOUS
  <2>2. ~ (y < x)
    BY <1>1, <2>1 DEF OpToRel
  <2>. QED  BY <2>1, <2>2
<1>. QED  BY <1>2

\* messages_to_l1 returns at most one entry for each message.
LEMMA L1LenType ==
  ASSUME NEW n \in Nat, NEW msgs, DOMAIN msgs = 1..n
  PROVE  L1Len(msgs) \in 0..n
<1>1. IsFiniteSet(1..n) /\ Cardinality(1..n) = n
  BY FS_Interval
<1>2. TextPositions(msgs) \in SUBSET (1..n)
  BY DEF TextPositions
<1>3. /\ IsFiniteSet(TextPositions(msgs))
      /\ Cardinality(TextPositions(msgs)) <= n
  BY <1>1, <1>2, FS_Subset
<1>. QED  BY <1>3, FS_CardinalityType DEF L1Len

\* Without blank messages the L1 view numbers the messages as they come.
LEMMA L1OfTextOnly ==
  ASSUME NEW n \in Nat, NEW msgs, DOMAIN msgs = 1..n,
         \A p \in 1..n : HasText(msgs[p])
  PROVE  /\ L1Len(msgs) = n
         /\ \A i \in 1..n : L1At(msgs, i) = i
<1>1. TextPositions(msgs) = 1..n
  BY DEF TextPositions
<1>2. L1Len(msgs) = n
  BY <1>1, FS_Interval DEF L1Len
<1>3. ASSUME NEW p \in 1..n
      PROVE  Cardinality({q \in TextPositions(msgs) : q <= p}) = p
  <2>1. {q \in TextPositions(msgs) : q <= p} = 1..p
    BY <1>1
  <2>2. Cardinality(1..p) = p
    BY FS_Interval
  <2>. QED  BY <2>1, <2>2
<1>4. ASSUME NEW i \in 1..n  PROVE  L1At(msgs, i) = i
  <2>1. \A p \in TextPositions(msgs) :
          Cardinality({q \in TextPositions(msgs) : q <= p}) = i <=> p = i
    BY <1>1, <1>3
  <2>. QED  BY <2>1, <1>1 DEF L1At
<1>. QED  BY <1>2, <1>4

\* A message in a run is in the run that starts at some message before it.
LEMMA RunHasStart ==
  ASSUME NEW msgs \in Seq(Message), NEW i \in 1..Len(msgs), InRun(msgs, i)
  PROVE  \E j \in 1..i : StartsRun(msgs, j) /\ i \in RunFrom(msgs, j)
<1>. DEFINE Opens == {j \in 1..i : /\ IsToolUse(msgs[j])
                                   /\ \A k \in j..i : IsToolMsg(msgs[k])}
<1>1. Len(msgs) \in Nat
  BY LenProperties
<1>2. Opens # {} /\ Opens \subseteq Nat
  BY <1>1 DEF InRun
<1>3. PICK j \in Opens : \A y \in Opens : j <= y
  BY <1>2, LeastNatural
<1>4. ASSUME j > 1, InRun(msgs, j - 1)  PROVE  FALSE
  <2>1. PICK h \in 1..(j - 1) : /\ IsToolUse(msgs[h])
                                /\ \A k \in h..(j - 1) : IsToolMsg(msgs[k])
    BY <1>4 DEF InRun
  <2>2. \A k \in h..i : k \in h..(j - 1) \/ k \in j..i
    BY <1>1
  <2>3. h \in Opens
    BY <1>1, <2>1, <2>2
  <2>. QED  BY <1>1, <1>3, <2>3
<1>5. StartsRun(msgs, j)
  BY <1>3, <1>4 DEF StartsRun
<1>6. i \in RunFrom(msgs, j)
  BY <1>1, <1>3 DEF RunFrom
<1>. QED  BY <1>3, <1>5, <1>6

\* The entries of the bundled view partition the messages with text: whatever
\* the mix of tool runs, text and blank messages, absorbing all entries of a
\* buffer masks each message with text once.
THEOREM BundlePartitionsText ==
  ASSUME NEW msgs \in Seq(Message)
  PROVE  /\ TextPositions(msgs) \subseteq UNION Bundle(msgs)
         /\ UNION Bundle(msgs) \subseteq TextPositions(msgs)
         /\ \A d, e \in Bundle(msgs) : d # e => d \cap e = {}
<1>. DEFINE n == Len(msgs)
<1>1. n \in Nat /\ DOMAIN msgs = 1..n /\ \A i \in 1..n : msgs[i] \in Message
  BY LenProperties
<1>2. \A m \in Message : IsToolMsg(m) => HasText(m)
  BY DEF Message, IsToolMsg, IsToolUse, IsToolResult, HasText
<1>. HIDE DEF n
<1>3. ASSUME NEW i \in 1..n, InRun(msgs, i)
      PROVE  \E j \in 1..i : StartsRun(msgs, j) /\ i \in RunFrom(msgs, j)
  BY <1>3, RunHasStart DEF n
<1>4. ASSUME NEW j \in 1..n, StartsRun(msgs, j), NEW i \in RunFrom(msgs, j)
      PROVE  /\ i \in 1..n /\ j <= i
             /\ \A k \in j..i : IsToolMsg(msgs[k]) /\ InRun(msgs, k)
  <2>1. i \in j..n /\ \A k \in j..i : IsToolMsg(msgs[k])
    BY <1>4 DEF RunFrom, n
  <2>2. IsToolUse(msgs[j])
    BY <1>4 DEF StartsRun
  <2>3. ASSUME NEW k \in j..i  PROVE  InRun(msgs, k)
    BY <1>1, <2>1, <2>2 DEF InRun
  <2>. QED  BY <1>1, <2>1, <2>3
<1>5. ASSUME NEW i \in TextPositions(msgs)  PROVE  i \in UNION Bundle(msgs)
  <2>1. i \in 1..n
    BY <1>1 DEF TextPositions
  <2>2. CASE InRun(msgs, i)
    BY <1>1, <1>3, <2>1, <2>2 DEF Bundle
  <2>3. CASE ~InRun(msgs, i)
    BY <1>1, <2>1, <2>3 DEF Bundle, TextPositions
  <2>. QED  BY <2>2, <2>3
<1>6. ASSUME NEW e \in Bundle(msgs), NEW i \in e  PROVE  i \in TextPositions(msgs)
  <2>1. CASE \E j \in 1..n : StartsRun(msgs, j) /\ e = RunFrom(msgs, j)
    <3>1. i \in 1..n /\ IsToolMsg(msgs[i])
      BY <1>1, <1>4, <2>1
    <3>. QED  BY <1>1, <1>2, <3>1 DEF TextPositions
  <2>2. CASE \E j \in 1..n : e = {j} /\ HasText(msgs[j])
    BY <1>1, <2>2 DEF TextPositions
  <2>. QED  BY <1>1, <2>1, <2>2 DEF Bundle
<1>7. ASSUME NEW j \in 1..n, NEW h \in 1..n, StartsRun(msgs, j),
             StartsRun(msgs, h), j < h,
             NEW i \in RunFrom(msgs, j), i \in RunFrom(msgs, h)
      PROVE  FALSE
  <2>1. InRun(msgs, h - 1)
    BY <1>1, <1>4, <1>7
  <2>. QED  BY <1>1, <1>7, <2>1 DEF StartsRun
<1>8. ASSUME NEW d \in Bundle(msgs), NEW e \in Bundle(msgs),
             NEW i \in d, i \in e
      PROVE  d = e
  <2>1. \/ \E j \in 1..n : StartsRun(msgs, j) /\ d = RunFrom(msgs, j)
        \/ \E j \in 1..n : ~InRun(msgs, j) /\ d = {j}
    BY <1>1 DEF Bundle
  <2>2. \/ \E j \in 1..n : StartsRun(msgs, j) /\ e = RunFrom(msgs, j)
        \/ \E j \in 1..n : ~InRun(msgs, j) /\ e = {j}
    BY <1>1 DEF Bundle
  <2>3. ASSUME NEW j \in 1..n, StartsRun(msgs, j), i \in RunFrom(msgs, j)
        PROVE  InRun(msgs, i)
    BY <1>1, <1>4, <2>3
  <2>4. CASE InRun(msgs, i)
    <3>1. PICK j \in 1..n : StartsRun(msgs, j) /\ d = RunFrom(msgs, j)
      BY <1>8, <2>1, <2>4
    <3>2. PICK h \in 1..n : StartsRun(msgs, h) /\ e = RunFrom(msgs, h)
      BY <1>8, <2>2, <2>4
    <3>3. ~(j < h) /\ ~(h < j)
      BY <1>7, <1>8, <3>1, <3>2
    <3>. QED  BY <1>1, <3>1, <3>2, <3>3
  <2>5. CASE ~InRun(msgs, i)
    BY <1>8, <2>1, <2>2, <2>3, <2>5
  <2>. QED  BY <2>4, <2>5
<1>. QED  BY <1>5, <1>6, <1>8

\* What the extractor makes an entry of: messages with text, all of them tool
\* messages if one is a call.
EntriesOf(msgs) ==
  {e \in SUBSET DOMAIN msgs :
     /\ e # {} /\ \A p \in e : HasText(msgs[p])
     /\ (\E q \in e : IsToolUse(msgs[q])) => \A p \in e : IsToolMsg(msgs[p])}

\* The view of messages picked from others is made of entries of the latter.
LEMMA BundleAtType ==
  ASSUME NEW msgs, NEW at \in Seq(DOMAIN msgs)
  PROVE  BundleAt(msgs, at) \subseteq EntriesOf(msgs)
<1>. DEFINE Picked == [j \in DOMAIN at |-> msgs[at[j]]]
<1>1. /\ DOMAIN at = 1..Len(at) /\ Len(at) \in Nat
      /\ \A j \in DOMAIN at : at[j] \in DOMAIN msgs
  BY LenProperties
<1>2. /\ DOMAIN Picked = DOMAIN at /\ Len(Picked) = Len(at)
      /\ \A j \in DOMAIN at : Picked[j] = msgs[at[j]]
  BY <1>1
<1>. HIDE DEF Picked
<1>3. ASSUME NEW e \in Bundle(Picked)
      PROVE  /\ e \subseteq DOMAIN at /\ e # {}
             /\ \A j \in e : HasText(Picked[j])
             /\ (\E q \in e : IsToolUse(Picked[q])) => \A j \in e : IsToolMsg(Picked[j])
  <2>1. CASE \E i \in DOMAIN Picked : StartsRun(Picked, i) /\ e = RunFrom(Picked, i)
    <3>1. PICK i \in 1..Len(at) : IsToolUse(Picked[i]) /\ e = RunFrom(Picked, i)
      BY <1>1, <1>2, <2>1 DEF StartsRun
    <3>2. e = {j \in i..Len(at) : \A k \in i..j : IsToolMsg(Picked[k])}
      BY <1>2, <3>1 DEF RunFrom
    <3>3. i \in e
      BY <1>1, <3>1, <3>2 DEF IsToolMsg
    <3>4. \A j \in e : IsToolMsg(Picked[j]) /\ j \in 1..Len(at)
      BY <1>1, <3>1, <3>2
    <3>. QED  BY <1>1, <3>3, <3>4 DEF HasText, IsToolMsg, IsToolUse, IsToolResult
  <2>2. CASE \E i \in DOMAIN Picked : ~InRun(Picked, i) /\ HasText(Picked[i]) /\ e = {i}
    <3>1. PICK i \in 1..Len(at) : ~InRun(Picked, i) /\ HasText(Picked[i]) /\ e = {i}
      BY <1>1, <1>2, <2>2
    <3>2. ~IsToolUse(Picked[i])
      BY <1>1, <3>1 DEF InRun, IsToolMsg
    <3>. QED  BY <1>1, <3>1, <3>2
  <2>. QED  BY <2>1, <2>2 DEF Bundle
<1>4. ASSUME NEW e \in Bundle(Picked)  PROVE  {at[j] : j \in e} \in EntriesOf(msgs)
  <2>. DEFINE f == {at[j] : j \in e}
  <2>1. f \subseteq DOMAIN msgs /\ f # {}
    BY <1>1, <1>3
  <2>2. \A p \in f : \E j \in e : p = at[j] /\ msgs[p] = Picked[j]
    BY <1>2, <1>3
  <2>3. \A p \in f : HasText(msgs[p])
    BY <1>3, <2>2
  <2>4. (\E q \in f : IsToolUse(msgs[q])) => \A p \in f : IsToolMsg(msgs[p])
    BY <1>3, <2>2
  <2>. HIDE DEF f
  <2>5. f \in EntriesOf(msgs)
    BY <2>1, <2>3, <2>4 DEF EntriesOf
  <2>. QED  BY <2>5 DEF f
<1>5. BundleAt(msgs, at) = {{at[j] : j \in e} : e \in Bundle(Picked)}
  BY DEF BundleAt, Picked
<1>. QED  BY <1>4, <1>5

\* The raw turns of a node are parts of the messages of its entries.
LEMMA RawTurnsType ==
  ASSUME NEW msgs, NEW buffer
  PROVE  RawTurns(msgs, buffer) \subseteq (UNION buffer) \X Parts
<1>1. \A e \in buffer : Rendered(msgs, e) \subseteq (UNION buffer) \X Parts
  BY DEF Rendered
<1>. QED  BY <1>1 DEF RawTurns

\* An entry is rendered with all that any rendering keeps of its messages, and
\* something is kept of each.
LEMMA KeptIsRendered ==
  ASSUME NEW msgs, \A p \in DOMAIN msgs : msgs[p] \in Message,
         NEW e \in EntriesOf(msgs), NEW p \in e
  PROVE  /\ p \in DOMAIN msgs /\ HasText(msgs[p])
         /\ Kept(msgs[p]) # {} /\ Kept(msgs[p]) \subseteq Parts
         /\ \A part \in Kept(msgs[p]) : <<p, part>> \in Rendered(msgs, e)
<1>1. /\ e \subseteq DOMAIN msgs /\ HasText(msgs[p])
      /\ (\E q \in e : IsToolUse(msgs[q])) => IsToolMsg(msgs[p])
  BY DEF EntriesOf
<1>2. msgs[p].blocks \subseteq {"text", "call", "result"} /\ msgs[p].blocks # {}
  BY <1>1 DEF Message, HasText
<1>3. Kept(msgs[p]) # {}
  <2>1. CASE IsToolMsg(msgs[p])
    BY <2>1 DEF Kept, IsToolMsg, IsToolUse, IsToolResult
  <2>2. CASE ~IsToolMsg(msgs[p])
    BY <1>2, <2>2 DEF Kept
  <2>. QED  BY <2>1, <2>2
<1>4. Kept(msgs[p]) \subseteq {"text", "call", "result"} /\ Kept(msgs[p]) \subseteq Said(msgs[p])
  BY <1>2 DEF Kept, Said
<1>5. ASSUME NEW part \in Kept(msgs[p])  PROVE <<p, part>> \in Rendered(msgs, e)
  <2>. DEFINE lost == IF \E q \in e : IsToolUse(msgs[q])
                      THEN {"text", "input"} ELSE {"output"}
  <2>1. part \notin lost
    BY <1>1, <1>4 DEF Kept
  <2>2. part \in Said(msgs[p]) \ lost /\ part \in Parts
    BY <1>4, <2>1 DEF Parts
  <2>3. Rendered(msgs, e) = {x \in e \X Parts : x[2] \in Said(msgs[x[1]]) \ lost}
    BY DEF Rendered
  <2>. HIDE DEF lost
  <2>4. <<p, part>> \in e \X Parts /\ <<p, part>>[1] = p /\ <<p, part>>[2] = part
    BY <2>2
  <2>. QED  BY <2>2, <2>3, <2>4
<1>. QED  BY <1>1, <1>3, <1>4, <1>5 DEF Parts

\* So the raw turns of a node have something of each message of its entries,
\* and all that any rendering keeps of it.
LEMMA RawTurnsHold ==
  ASSUME NEW msgs, \A p \in DOMAIN msgs : msgs[p] \in Message,
         NEW buffer \in SUBSET EntriesOf(msgs), NEW p \in UNION buffer
  PROVE  /\ p \in DOMAIN msgs /\ HasText(msgs[p]) /\ Kept(msgs[p]) # {}
         /\ \A part \in Kept(msgs[p]) : part \in Parts /\ <<p, part>> \in RawTurns(msgs, buffer)
<1>1. PICK e \in buffer : p \in e
  OBVIOUS
<1>2. Rendered(msgs, e) \subseteq RawTurns(msgs, buffer)
  BY DEF RawTurns
<1>. QED  BY <1>1, <1>2, KeptIsRendered

\* A logical node of a transcript file is a set of its entries.
LEMMA ParseType ==
  ASSUME NEW msgs \in Seq(Message)
  PROVE  Parse(msgs) \subseteq SUBSET (1..Len(msgs))
<1>1. DOMAIN msgs = 1..Len(msgs) /\ Len(msgs) \in Nat
  BY LenProperties
<1>. QED  BY <1>1 DEF Parse, RunFrom

\* What the first n entries of a file are parsed to, in terms of the whole file.
LEMMA ParsePrefix ==
  ASSUME NEW msgs \in Seq(Message), NEW n \in 0..Len(msgs),
         NEW e \in Parse(SubSeq(msgs, 1, n))
  PROVE  \/ \E i \in 1..n :
               /\ StartsRun(msgs, i)
               /\ e = {j \in i..n : \A k \in i..j : IsToolMsg(msgs[k])}
         \/ \E i \in 1..n : ~InRun(msgs, i) /\ e = {i}
<1>. DEFINE P == SubSeq(msgs, 1, n)
<1>1. /\ Len(msgs) \in Nat /\ n \in Nat
      /\ Len(P) = n /\ DOMAIN P = 1..n /\ \A i \in 1..n : P[i] = msgs[i]
  <2>1. Len(msgs) \in Nat
    BY LenProperties
  <2>2. n \in Nat
    BY <2>1
  <2>3. CASE n = 0
    BY <2>1, <2>3, SubSeqProperties
  <2>4. CASE n # 0
    BY <2>1, <2>2, <2>4, SubSeqProperties
  <2>. QED  BY <2>1, <2>2, <2>3, <2>4
<1>2. e \in Parse(P)
  OBVIOUS
<1>. HIDE DEF P
<1>3. ASSUME NEW i \in 1..n  PROVE InRun(P, i) <=> InRun(msgs, i)
  BY <1>1 DEF InRun
<1>4. ASSUME NEW i \in 1..n  PROVE StartsRun(P, i) <=> StartsRun(msgs, i)
  <2>1. i > 1 => i - 1 \in 1..n
    BY <1>1
  <2>. QED  BY <1>1, <1>3, <2>1 DEF StartsRun
<1>5. ASSUME NEW i \in 1..n
      PROVE  RunFrom(P, i) = {j \in i..n : \A k \in i..j : IsToolMsg(msgs[k])}
  BY <1>1 DEF RunFrom
<1>6. \/ \E i \in 1..n : StartsRun(P, i) /\ e = RunFrom(P, i)
      \/ \E i \in 1..n : ~InRun(P, i) /\ e = {i}
  BY <1>1, <1>2 DEF Parse
<1>7. CASE \E i \in 1..n : StartsRun(P, i) /\ e = RunFrom(P, i)
  <2>1. PICK i \in 1..n : StartsRun(P, i) /\ e = RunFrom(P, i)
    BY <1>7
  <2>2. StartsRun(msgs, i)
    BY <2>1, <1>4
  <2>3. e = {j \in i..n : \A k \in i..j : IsToolMsg(msgs[k])}
    BY <2>1, <1>5
  <2>. QED  BY <2>2, <2>3
<1>8. CASE \E i \in 1..n : ~InRun(P, i) /\ e = {i}
  BY <1>8, <1>3
<1>. QED  BY <1>6, <1>7, <1>8

\* Logical nodes of two states of a file that share an entry are one inside
\* the other: the same run of tool messages, read when it was shorter and when
\* it was longer.
LEMMA ParseGrows ==
  ASSUME NEW msgs \in Seq(Message),
         NEW n \in 0..Len(msgs), NEW m \in 0..Len(msgs),
         NEW d \in Parse(SubSeq(msgs, 1, n)), NEW e \in Parse(SubSeq(msgs, 1, m))
  PROVE  d \cap e = {} \/ d \subseteq e \/ e \subseteq d
<1>. DEFINE Run(i, l) == {j \in i..l : \A k \in i..j : IsToolMsg(msgs[k])}
<1>1. n \in Nat /\ m \in Nat
  BY LenProperties
<1>2. ASSUME NEW i \in Nat \ {0}, StartsRun(msgs, i), NEW l \in Nat,
             NEW j \in Run(i, l)
      PROVE  j \in Nat /\ i <= j /\ \A k \in i..j : InRun(msgs, k)
  <2>1. j \in i..l /\ \A k \in i..j : IsToolMsg(msgs[k])
    OBVIOUS
  <2>2. IsToolUse(msgs[i])
    BY <1>2 DEF StartsRun
  <2>3. ASSUME NEW k \in i..j  PROVE InRun(msgs, k)
    BY <2>1, <2>2 DEF InRun
  <2>. QED  BY <2>1, <2>3
<1>3. ASSUME NEW i \in Nat \ {0}, NEW h \in Nat \ {0}, NEW l \in Nat, NEW q \in Nat,
             StartsRun(msgs, i), StartsRun(msgs, h), i < h,
             NEW j \in Run(i, l), j \in Run(h, q)
      PROVE  FALSE
  <2>. HIDE DEF Run
  <2>1. i <= h - 1 /\ h - 1 <= j /\ h - 1 \in Nat /\ j \in Nat
    BY <1>2, <1>3
  <2>2. InRun(msgs, h - 1)
    BY <1>2, <1>3, <2>1
  <2>. QED  BY <1>3, <2>1, <2>2 DEF StartsRun
<1>4. \/ \E i \in 1..n : StartsRun(msgs, i) /\ d = Run(i, n)
      \/ \E i \in 1..n : ~InRun(msgs, i) /\ d = {i}
  BY ParsePrefix
<1>5. \/ \E i \in 1..m : StartsRun(msgs, i) /\ e = Run(i, m)
      \/ \E i \in 1..m : ~InRun(msgs, i) /\ e = {i}
  BY ParsePrefix
<1>6. ASSUME NEW i \in Nat, NEW l \in Nat, NEW q \in Nat, l <= q
      PROVE  Run(i, l) \subseteq Run(i, q)
  BY <1>6
<1>. HIDE DEF Run
<1>7. ASSUME NEW i \in 1..n, StartsRun(msgs, i), d = Run(i, n),
             NEW h \in 1..m, StartsRun(msgs, h), e = Run(h, m), d \cap e # {}
      PROVE  d \subseteq e \/ e \subseteq d
  <2>1. i \in Nat \ {0} /\ h \in Nat \ {0}
    BY <1>1
  <2>2. ~(i < h) /\ ~(h < i)
    BY <1>1, <1>3, <1>7, <2>1
  <2>3. i = h
    BY <2>1, <2>2
  <2>4. n <= m \/ m <= n
    BY <1>1
  <2>. QED  BY <1>1, <1>6, <1>7, <2>1, <2>3, <2>4
<1>8. ASSUME NEW i \in Nat \ {0}, StartsRun(msgs, i), NEW l \in Nat,
             NEW j \in Nat, ~InRun(msgs, j)
      PROVE  j \notin Run(i, l)
  <2>1. j \in Run(i, l) => j \in i..j
    BY <1>2, <1>8
  <2>. QED  BY <1>2, <1>8, <2>1
<1>. QED  BY <1>1, <1>4, <1>5, <1>7, <1>8
=============================================================================
