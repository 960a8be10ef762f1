---------------------------- MODULE MCBatchEngine ----------------------------
(* The engine on small instances. *)
EXTENDS BatchEngine

CONSTANTS a, b

NoRowSeq == <<>>
MixedBudgets == {-1, 2}
ShortPrompts == {<<a, a>>, <<a, b>>, <<a, a, b>>}
MixedPrompts == {<<a, a>>, <<a, b>>, <<a, a, b, b, a>>}
LongPrompts == {<<a>>, <<a, a, b, b>>, <<a, a, b, b, a, a>>}
=============================================================================
