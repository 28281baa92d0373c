--------------------------- MODULE MCWebInterface ---------------------------
(* Instances of WebInterface for TLC. *)
EXTENDS WebInterface, TLC

\* Pages that save one option or another, or press the button without a change
Changes == {NoOptions, "o1" :> "v2", "o2" :> "v2"}
=============================================================================
