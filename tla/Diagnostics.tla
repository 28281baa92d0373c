----------------------------- MODULE Diagnostics -----------------------------
(***************************************************************************)
(* Parsers, register capture and the writer of captures next to each other.  *)
(* No step of one depends on a variable of the other: whether the writer has  *)
(* room is left open in RegisterDebug, and what a text says is nothing to the *)
(* writer.  So either runs while the other rests, without REGISTER_DEBUG for  *)
(* the texts of DUMP_MESSAGES and of the history capture.                     *)
(***************************************************************************)
EXTENDS RegisterDebug, DiagnosticWriter

VARIABLE part  \* the part that runs: "packets" or "writer"

vars == <<part, debugVars, writerVars>>

Init ==
    /\ part \in {"packets", "writer"}
    /\ InitDebug /\ (part = "writer" => mode = "off")
    /\ InitWriter

PacketStep == part = "packets" /\ NextDebug /\ UNCHANGED <<part, writerVars>>
Alone(step) == part = "writer" /\ step /\ UNCHANGED <<part, debugVars>>
WriterStep == Alone(NextWriter)

Next == PacketStep \/ WriterStep

Spec == Init /\ [][Next]_vars

\* The thread gets the lock, and the storage answers.
FairSpec == Spec /\ WF_vars(Alone(Looks)) /\ WF_vars(Alone(WriteDone))
=============================================================================
