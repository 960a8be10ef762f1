--------------------------- MODULE MCEngineRestart ---------------------------
(* The engine and its snapshot on a small instance. *)
EXTENDS EngineRestart

CONSTANTS a, b

NoRowSeq == <<>>
RestartPrompts == {<<a, a>>, <<a, b, b>>, <<b, a, a, b>>}
=============================================================================
