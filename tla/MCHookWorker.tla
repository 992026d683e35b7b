---------------------------- MODULE MCHookWorker ----------------------------
(* Instance of HookWorker: a transcript whose tool bundle grows.           *)
EXTENDS HookWorker, TLC

Entry(r, b) == [role |-> r, blocks |-> {b}, fp |-> CHOOSE f \in Fps : TRUE]

\* A prompt, a tool call and its result: the file may be read
\* when the bundle it ends with is not complete.
GrowingScript == <<Entry("user", "text"), Entry("assistant", "call"),
                   Entry("user", "result")>>

GrowingScripts == [s \in Sessions |-> GrowingScript]
=============================================================================
