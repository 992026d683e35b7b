----------------------------- MODULE TurnMemory -----------------------------
(***************************************************************************)
(* What the trimming proxy promises about the turns of a conversation: a   *)
(* turn may be masked, that is left out of what the model is sent, only    *)
(* once it is stored, and masks may be forgotten but what is stored is     *)
(* not.  Turns are their fingerprints; what counts as stored is said where *)
(* this module is implemented.                                             *)
(***************************************************************************)
CONSTANTS Sessions, Fps

VARIABLES
  stored,     \* fingerprints of the turns in the node store
  masked,     \* fingerprints that may be left out of a request
  dropped     \* fingerprints left out of the request now going upstream

mvars == <<stored, masked, dropped>>

Init ==
  /\ stored = [s \in Sessions |-> {}]
  /\ masked = [s \in Sessions |-> {}]
  /\ dropped = [s \in Sessions |-> {}]

\* A buffer is committed.
Preserve(s, F) ==
  /\ stored' = [stored EXCEPT ![s] = @ \cup F]
  /\ UNCHANGED <<masked, dropped>>

\* Turns already stored are masked from now on.
Mask(s, F) ==
  /\ F \subseteq stored[s]
  /\ masked' = [masked EXCEPT ![s] = @ \cup F]
  /\ UNCHANGED <<stored, dropped>>

\* A request goes upstream without some of the masked turns.
Answer(s, F) ==
  /\ F \subseteq masked[s]
  /\ dropped' = [dropped EXCEPT ![s] = F]
  /\ UNCHANGED <<stored, masked>>

\* The proxy restarts: no turn is masked, none was lost.
Forget ==
  /\ masked' = [s \in Sessions |-> {}]
  /\ dropped' = [s \in Sessions |-> {}]
  /\ UNCHANGED stored

Next ==
  \/ \E s \in Sessions, F \in SUBSET Fps :
       Preserve(s, F) \/ Mask(s, F) \/ Answer(s, F)
  \/ Forget

Spec == Init /\ [][Next]_mvars
=============================================================================
