--------------------------- MODULE MCConversation ---------------------------
(* Short and long inputs over a context that holds about two turns.          *)
EXTENDS Conversation
MCInputs == {<<2>>, <<2, 2, 2, 2, 2>>}
MCSystem == <<2>>
MCStops == {<<1, 2>>}
=============================================================================
