------------------------------- MODULE MCTrim -------------------------------
(* Instances of Trim: the transcripts of the runs.                         *)
EXTENDS Trim, TLC

Turn(r, b, f) == [role |-> r, blocks |-> b, fp |-> f]

\* A prompt, a remark with a tool call, its result, an answer, the next prompt.
ToolScript ==
  <<Turn("user", {"text"}, 1), Turn("assistant", {"text", "call"}, 2),
    Turn("user", {"result"}, 3), Turn("assistant", {"text"}, 4),
    Turn("user", {"text"}, 5)>>

\* A conversation of plain turns.
PlainScript == <<Turn("user", {"text"}, 1), Turn("assistant", {"text"}, 2),
                 Turn("user", {"text"}, 3), Turn("assistant", {"text"}, 4),
                 Turn("user", {"text"}, 5)>>

ShortScript == SubSeq(PlainScript, 1, 3)

\* It opens with a message that is an image and nothing else.
BlankScript == <<Turn("user", {}, 1), Turn("assistant", {"text"}, 2),
                 Turn("user", {"text"}, 3), Turn("assistant", {"text"}, 4),
                 Turn("user", {"text"}, 5)>>

\* The user says the same twice ("continue").
RepeatScript == <<Turn("user", {"text"}, 1), Turn("assistant", {"text"}, 2),
                  Turn("user", {"text"}, 3), Turn("assistant", {"text"}, 4),
                  Turn("user", {"text"}, 1)>>

\* A tool call among the turns of a second compaction.
LateToolScript == SubSeq(PlainScript, 1, 3)
                    \o <<Turn("assistant", {"call"}, 4),
                         Turn("user", {"result"}, 5),
                         Turn("assistant", {"text"}, 6),
                         Turn("user", {"text"}, 7)>>

SafeScripts == {ToolScript, RepeatScript}
ShortScripts == {ShortScript}
BlankScripts == {BlankScript}
CleanScripts == {ToolScript}
LateToolScripts == {LateToolScript}

MCFps == 1..5
LongFps == 1..7

Symmetric == Permutations(NodeIds)
=============================================================================
