---------------------------- MODULE MCGeneration ----------------------------
(* A four-token vocabulary: 0 ends the turn, 1 is a letter, 2 and 3 the two  *)
(* bytes of one character.  Each model is a linear congruence over what it   *)
(* attends to and the penalty window.                                        *)
EXTENDS Generation

MCToken == 0..3
MCPredict(m, context, window) ==
    (m + FoldLeft(LAMBDA s, i : s + i * context[i], 0, [i \in DOMAIN context |-> i])
       + FoldLeft(LAMBDA s, t : s + (t + 1) * m, 0, window)) % 4
MCBytes == [t \in MCToken |-> <<<<>>, <<97>>, <<195>>, <<169>>>>[t + 1]]
MCPrompts == {<<>>, <<1>>, <<1, 2>>, <<1, 3>>, <<1, 2, 3>>, <<1, 1, 1, 1, 1, 1>>}
MCLimits == {-1, 0, 2}
MCStops == {{}, {<<97>>}, {<<195, 169>>, <<97, 97>>}}
=============================================================================
