---------------------------- MODULE MCGraphRun ----------------------------
(* Two blocks under the placements a load can decide, and four shapes.     *)
EXTENDS GraphRun

Conf(arch, device, layers, mixed, compose, budget) ==
    [arch |-> arch, device |-> device, gpu_layers |-> layers,
     qkv |-> IF mixed THEN {} ELSE 0 .. Layers - 1, gu |-> 0 .. Layers - 1,
     packed |-> FALSE, compose |-> compose, nofuse |-> FALSE, budget |-> budget]

MCConfs == {
    Conf("qwen2", "cuda", 2, FALSE, TRUE, 999),
    Conf("qwen2", "cuda", 1, TRUE, FALSE, 999),
    Conf("qwen3", "metal", 1, FALSE, FALSE, 999),
    Conf("qwen3", "cpu", 0, FALSE, FALSE, 999),
    Conf("qwen2", "cuda", 2, TRUE, FALSE, 60)}

Shape(nt, out, map, span) == [n_tokens |-> nt, n_out |-> out, map |-> map, span |-> span]
MCShapes == {Shape(1, 1, FALSE, FALSE), Shape(3, 1, FALSE, FALSE), Shape(2, 2, TRUE, TRUE)}
=============================================================================
