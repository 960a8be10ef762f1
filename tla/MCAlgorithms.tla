---------------------------- MODULE MCAlgorithms ----------------------------
(* The parts of the program that compute rather than serve, each over its    *)
(* own bounded inputs.  A behaviour is about one of them, its topic: an      *)
(* input to a pure algorithm, which never changes, or a run of grammar       *)
(* decoding, of tool-call parsing or of a model download.                    *)
EXTENDS Integers, Sequences, FiniteSets, SequencesExt

VARIABLES topic, input
VARIABLES g, key, accepting, cache, mask, pieces        \* Grammar
VARIABLES reply, fed, parser, over                      \* ToolCalls
VARIABLES local, pc, todo, sized, answer                \* Download

grammarVars == <<g, key, accepting, cache, mask, pieces>>
callVars == <<reply, fed, parser, over>>
downloadVars == <<local, pc, todo, sized, answer>>

Cases == INSTANCE MCGrammars WITH Completions <- {}, Chunks <- {}
Decoding == INSTANCE Grammar WITH
    Grammars <- Cases!Gs, MaxStackDepth <- 6, MaxStacks <- 8, MaxMaskCache <- 2, MaxPieces <- 3

Calls == INSTANCE ToolCalls WITH Completions <- Cases!MCCompletions, Chunks <- {1, 4}

(* Two parts of one model and a single file. *)
Listing == <<[base |-> "m", part |-> 1, count |-> 2], [base |-> "m", part |-> 0, count |-> 2],
             [base |-> "n", part |-> 0, count |-> 0]>>
Fetching == INSTANCE Download WITH Repo <- Listing, Size <- 2

Text == INSTANCE Tokenizer
Sampling == INSTANCE Sampler
Gguf == INSTANCE MCGguf
Loading == INSTANCE Placement WITH
    Layers <- 2, Embd <- 2, QEmbd <- 2, KvEmbd <- 1, Ff <- 3, Vocab <- 5, Ctx <- 3, MapSpans <- 2
-----------------------------------------------------------------------------
(* Small vocabularies of every engine, and all texts over small alphabets. *)
Texts(alphabet, n) == UNION {[1..k -> alphabet] : k \in 0..n}

A == 97
B == 98
Pipe == 124

(* A vocabulary of the given extra tokens <<text, type, score>> after the    *)
(* 256 byte tokens.                                                          *)
Vocab(model, pre, bytes, extra, merges) ==
    [model |-> model, pre |-> pre, vocab_size |-> 3,
     tokens |-> bytes \o [i \in DOMAIN extra |-> extra[i][1]],
     types |-> [i \in DOMAIN bytes |-> Text!ByteType] \o [i \in DOMAIN extra |-> extra[i][2]],
     scores |-> [i \in DOMAIN bytes |-> 0] \o [i \in DOMAIN extra |-> extra[i][3]],
     merges |-> merges, roles |-> {}, unknown |-> Text!NoId, charsmap |-> [t \in {<<B, B>>} |-> <<A>>],
     space_prefix |-> "absent", squeeze |-> "absent", lowercase |-> "absent", strip |-> "absent"]

ByteSymbols == [i \in 1..256 |-> <<0 - i>>]
ByteChars == [i \in 1..256 |-> <<Text!byte_to_unicode[i - 1]>>]
RwkvBytes == [i \in 1..256 |-> <<92, 120>> \o
                 [k \in 1..2 |-> LET d == IF k = 1 THEN (i - 1) \div 16 ELSE (i - 1) % 16
                                 IN  IF d < 10 THEN 48 + d ELSE 87 + d]]
Bars == << <<<<Pipe>>, 3, 0>>, <<<<Pipe, Pipe>>, 3, 0>> >>
Pieces == << <<<<A>>, 1, -2>>, <<<<B>>, 1, -3>>, <<<<A, B>>, 1, -4>>, <<<<B, A>>, 1, -1>>,
             <<<<A, B, A>>, 1, -1>>, <<<<Text!SPM_SPACE, A>>, 1, -2>>, <<<<Text!SPM_SPACE>>, 1, -9>> >>
SpaceMark == 288       \* byte_to_unicode of the space

Vocabs ==
    [gpt2 |-> Vocab("gpt2", "qwen2", ByteChars,
                   << <<<<A, B>>, 1, 0>>, <<<<A, B, A>>, 1, 0>>, <<<<SpaceMark, A>>, 1, 0>> >> \o Bars,
                   << <<<<A>>, <<B>>>>, <<<<B>>, <<A>>>>, <<<<SpaceMark>>, <<A>>>> >>),
     lfm2 |-> Vocab("gpt2", "lfm2", ByteChars, << <<<<A, B, A>>, 1, 0>> >>, << <<<<A>>, <<B>>>> >>),
     llama |-> Vocab("llama", "", ByteSymbols, Pieces \o Bars, <<>>),
     plamo2 |-> Vocab("plamo2", "", ByteSymbols, Pieces, <<>>),
     rwkv |-> Vocab("rwkv", "", RwkvBytes, << <<<<A, B>>, 1, 0>>, <<<<B, 92, 120, 99, 51>>, 1, 0>> >>, <<>>),
     gemma4 |-> Vocab("gemma4", "", ByteSymbols, Pieces \o Bars, << <<<<A>>, <<B>>>> >>),
     t5 |-> [Vocab("t5", "", <<>>, Pieces \o << <<<<63>>, 2, 0>>, <<<<B, B, A>>, 4, 0>> >>, <<>>)
               EXCEPT !.unknown = 8, !.space_prefix = "yes"],
     bert |-> [Vocab("bert", "", <<>>, << <<<<Text!SPM_SPACE>>, 1, 0>>, <<<<Text!SPM_SPACE, A>>, 1, 0>>, <<<<B, A>>, 1, 0>>,
                                         <<<<63>>, 2, 0>>, <<<<101>>, 1, 0>> >>, <<>>) EXCEPT !.unknown = 4],
     dna |-> Vocab("hybriddna", "llama3", ByteChars,
                  << <<Text!OpenTag, 1, 0>>, <<Text!CloseTag, 1, 0>>, <<Text!OovTag, 1, 0>>,
                     <<[i \in 1..7 |-> IF i = 7 THEN Text!DNA_KMER_MARKER ELSE 65], 1, 0>> >>, << <<<<A>>, <<A>>>> >>)]
Engines == [e \in DOMAIN Vocabs |-> Text!load(Vocabs[e])]
DnaTexts == {FlattenSeq(s) : s \in UNION {[1..k -> {<<A>>, Text!OpenTag, Text!CloseTag, [i \in 1..6 |-> A]}] : k \in 0..4}}
Lossless == {"gpt2", "lfm2", "llama", "plamo2", "rwkv", "gemma4"}
Scored == {"llama", "plamo2", "t5"}
-----------------------------------------------------------------------------
(* Machines, command lines and model files for Placement.                    *)
Machine(kind, present, mem) == [build |-> kind, present |-> present, mem |-> mem]
Machines == {Machine("cpu", FALSE, 0), Machine("cuda", TRUE, 40), Machine("cuda", TRUE, Loading!Failed),
             Machine("cuda", FALSE, 0), Machine("metal", TRUE, 18)}

Asked(request, envLayers, budget, cap) ==
    [request |-> request, envLayers |-> envLayers, budget |-> budget, cap |-> cap]
Requests ==
    LET none == Loading!None  junk == Loading!Junk  auto == Loading!Auto
    IN  {Asked(none, none, none, none), Asked(none, junk, none, none), Asked(none, 1, none, none),
         Asked(9, junk, none, none), Asked(auto, 1, none, none), Asked(none, auto, none, 16),
         Asked(auto, none, 27, 5), Asked(auto, none, none, junk)}

Named == {<<{}, {}>>, <<{}, {"cuda"}>>, <<{"cpu"}, {"cuda"}>>, <<{"cuda"}, {}>>, <<{"metal"}, {"cpu"}>>, <<{"tpu"}, {}>>}

Commands ==
    {[build |-> m.build, present |-> m.present, mem |-> m.mem, flag |-> n[1], env |-> n[2],
      request |-> r.request, envLayers |-> r.envLayers, budget |-> r.budget, cap |-> r.cap,
      cache |-> c, nofuse |-> o] :
     m \in Machines, r \in Requests, n \in Named, c \in {Loading!Unset, "q8_0", "f8"}, o \in {FALSE, TRUE}}

Uniform(t) == [n \in Loading!Projections |-> t]
MixedV(t, v) == [Uniform(t) EXCEPT !["wv"] = v]
MixedUp(t, u) == [Uniform(t) EXCEPT !["ffn_up"] = u]

File(arch, blocks, bytes, embd, output, nff) ==
    [arch |-> arch, blocks |-> blocks, bytes |-> bytes, embd |-> embd, output |-> output,
     nff |-> nff, aligned |-> TRUE, nkt |-> 4096, rope_freqs |-> Loading!Unset,
     rope_blocks |-> [i \in 1 .. 2 |-> Loading!Unset], scaling |-> Loading!Unset]

Plain == File("qwen2", <<Uniform("Q4_K"), MixedV("Q4_K", "Q6_K")>>, <<12, 8>>, "Q6_K", Loading!Unset, 4864)

ModelFiles ==
    {Plain,
     File("qwen3", <<Uniform("Q8_0"), MixedUp("Q8_0", "F16")>>, <<20, 4>>, "Q4_1", "Q8_0", 16384),
     File("llama", <<Uniform("Q4_0"), Uniform("Q2_K")>>, <<9, 3>>, "Q4_0", Loading!Unset, 18944),
     File("qwen2", <<Uniform("BF16"), Uniform("BF16")>>, <<3, 9>>, "BF16", Loading!Unset, 16384),
     [Plain EXCEPT !.scaling = "yarn"],
     [Plain EXCEPT !.arch = "gemma"],
     [Plain EXCEPT !.rope_blocks = <<"t1", "t2">>],
     [Plain EXCEPT !.rope_blocks = <<"t1", "t1">>, !.scaling = "yarn"],
     [Plain EXCEPT !.rope_freqs = "t1"]}

Decode == [n_tokens |-> 1, n_out |-> 1, map |-> FALSE, span |-> FALSE]
Prompt == [n_tokens |-> 2, n_out |-> 1, map |-> FALSE, span |-> TRUE]
-----------------------------------------------------------------------------
(* The inputs of each topic. *)
Rows == [1..3 -> {Sampling!NegInf, 0, 1, 3}]
Filters == {c \in
    {[Sampling!Default EXCEPT !.top_k = k, !.top_p = p, !.min_p = m, !.typical_p = t,
                              !.xtc_probability = x, !.xtc_threshold = h] :
        k \in {0, 1, 2}, p \in {2, Sampling!Off}, m \in {-1, 2}, t \in {2, Sampling!Off}, x \in {0, 4}, h \in {1, 2}} : Sampling!validate(c) /\ Sampling!validate_logit_bias(c, 3)}
Draws ==
    {[Sampling!Default EXCEPT !.temp = t, !.mirostat = m, !.mu = u, !.repeat = r, !.frequency = f, !.presence = f,
                              !.bias = b, !.xtc_probability = x, !.xtc_threshold = 2] :
        t \in {0, 1}, m \in 0..2, u \in {-1, 1}, r \in {1, 2}, f \in {0, 1}, x \in {0, 4},
        b \in {<<>>, <<<<1, 3>>, <<2, -3>>, <<1, 1>>>>}}
Words(letters, n) == UNION {[1..k -> letters] : k \in 1..n}

Compiled == {[case |-> Cases!SchemaCases[c], compiled |-> Cases!compile_schema_to_gbnf(Cases!SchemaCases[c].s)] :
                c \in DOMAIN Cases!SchemaCases}

Inputs(t) ==
    CASE t = "schema" -> Compiled \X Cases!Values
      [] t = "split" -> {"Qwen2", "Qwen35", "LlamaBpe", "JinaV1En"} \X Texts({97, 83, 39, 49, 32, 10, 33, 769}, 3)
      [] t = "nfc" -> Texts({65, 101, 769, 778, 803, 8491, 4352, 4449, 4520, 44032}, 3)
      [] t = "tokens" -> (Lossless \X Texts({97, 98, 32, 233, 124}, 3))
                         \cup ({"bert"} \X Texts({97, 98, 32, 233, 33}, 4))
                         \cup ({"dna"} \X DnaTexts)
      [] t = "best" -> Scored \X Texts({97, 98, 32, 233}, 4)
      [] t = "breaker" -> {"gpt2", "plamo2", "rwkv"} \X Texts({97, 98, 32, 233, 124}, 3)
      [] t = "filter" -> Rows \X Filters
      [] t = "draw" -> ([1..3 -> {Sampling!NegInf, 0, 2}] \X Draws \X {<<>>, <<1, 2, 1>>} \X {{}, {2}, {1, 3}})
                       \cup ([1..4 -> {0, 2}] \X Draws \X {<<>>, <<1, 2, 1>>} \X {{1, 2, 3}})
      [] t = "dry" -> Words({1, 2}, 8) \X {<<>>, <<<<2>>>>, <<<<1, 2>>, <<2, 2>>>>}
      [] t = "readback" -> Cases!ReadBackInputs
      [] t = "forced" -> Cases!ForcedInputs
      [] t = "load" -> Commands \X ModelFiles \X {Decode, Prompt}
      [] t = "cells" -> {"f32", "f16", "q8_0"} \X {0, 1, 32, 40, 64, 96, 128} \X (0..3)
      [] t = "gguf" -> Gguf!SpecLists \X Gguf!Metadata \X {8, 32, 64} \X Gguf!Caps
      [] t = "cut" -> {1, 2} \X {64, 4000} \X Gguf!CutLengths
      [] t = "quantize" -> Gguf!QuantFiles \X Gguf!Targets \X {0, 4000}
      [] t = "convert" -> Gguf!Checkpoints \X Gguf!OutTypes \X {0, 32}

Topics == {"schema", "split", "nfc", "tokens", "best", "breaker", "filter", "draw", "dry", "readback", "forced", "load",
           "cells", "gguf", "cut", "quantize", "convert"}

NoInput == <<>>
NoDecoding == g = <<>> /\ key = <<>> /\ accepting = <<>> /\ cache = <<>> /\ mask = <<>> /\ pieces = <<>>
NoCalls == reply = <<>> /\ fed = <<>> /\ parser = <<>> /\ over = <<>>
NoDownload == local = <<>> /\ pc = <<>> /\ todo = <<>> /\ sized = <<>> /\ answer = <<>>

Init ==
    \/ topic \in Topics /\ input \in Inputs(topic) /\ NoDecoding /\ NoCalls /\ NoDownload
    \/ topic = "decoding" /\ Decoding!Init /\ input = NoInput /\ NoCalls /\ NoDownload
    \/ topic = "calls" /\ Calls!Init /\ input = NoInput /\ NoDecoding /\ NoDownload
    \/ topic = "download" /\ Fetching!Init /\ input = NoInput /\ NoDecoding /\ NoCalls

Next ==
    \/ topic = "decoding" /\ Decoding!Next /\ UNCHANGED <<topic, input, callVars, downloadVars>>
    \/ topic = "calls" /\ Calls!Next /\ UNCHANGED <<topic, input, grammarVars, downloadVars>>
    \/ topic = "download" /\ Fetching!Next /\ UNCHANGED <<topic, input, grammarVars, callVars>>
-----------------------------------------------------------------------------
(* Under a grammar the sampler may take exactly the tokens the grammar       *)
(* accepts, it is allowed to stop exactly at a sentence, and it is never     *)
(* left without a token (mask, accept_token).                                *)
GrammarSteers ==
    topic = "decoding" => Decoding!MaskIsAcceptance /\ Decoding!AcceptingIsSentence /\ Decoding!NeverStranded

(* The grammar compiled from a JSON schema is the language of the values the *)
(* schema admits, but for three kinds of schema the code gets wrong: a       *)
(* literal {}, an open object that does not require all it declares, and an  *)
(* array whose items are a union (compile_schema_to_gbnf).                   *)
SchemaLanguage == topic = "schema" => Cases!SchemaLanguageOf(input[1].case, input[1].compiled, input[2])

(* Text is cut where the documented patterns cut it, after one composition   *)
(* that does not depend on how the characters were written (split, nfc).     *)
SplitsAsDocumented ==
    /\ topic = "split" => Text!SplitMatchesPattern(input[1], input[2])
    /\ topic = "nfc" => Text!OneComposedForm(input)

(* Tokens spell the text they were made from, in every engine; the scored    *)
(* engines find their optimum; the restart sequences of DRY spell their      *)
(* breaker (encode, decode_bytes, overlapping_token_sequences).              *)
TokensSpellText ==
    /\ topic = "tokens" => Text!RoundTrip(Engines[input[1]], input[2])
    /\ topic = "best" => Text!BestSegmentation(Engines[input[1]], input[2])
    /\ topic = "breaker" => Text!BreakersSpell(Engines[input[1]], input[2])

(* No combination of filters leaves the draw without a token or changes a    *)
(* logit, what is drawn is in the grammar's mask but for the last id, which  *)
(* the rounding of a temperature draw can return, and the DRY counts are the *)
(* repetitions of the window (Filtered, sample_with_config_grammar,          *)
(* sample_temperature, RepeatCounts).                                        *)
SamplerKeepsChoice ==
    /\ topic = "filter" => Sampling!FiltersKeepAChoice(input[1], input[2])
    /\ topic = "draw" => Sampling!ForbiddenOnlyByRounding(input[1], input[2], input[3], input[4])
    /\ topic = "dry" => Sampling!DryCountsRepeats(input[1], input[2])

(* A tool call is read the same however the reply is chunked, but for a cut  *)
(* inside a number of a JSON row, which is refused; it is read back as       *)
(* it was written, and a forced call's grammar admits exactly the calls the  *)
(* tools' schemas admit (StreamParser, parse_completion, the rows of         *)
(* format.rs and forced_call_grammar).                                       *)
CallsReadAsWritten ==
    /\ topic = "calls" => Calls!ChunkingInvisible
    /\ topic = "readback" =>
          /\ Cases!RowDetected(input[1])
          /\ Cases!CallReadBack(Cases!FORMATS[input[1]], <<102>>, Cases!ArgTable[input[1]][input[2]])
    /\ topic = "forced" =>
          LET f == Cases!FORMATS[input[1]]
              tools == Cases!ToolsFor(f)
              y == Cases!ArgTable[input[1]][input[4]]
              w == Cases!Written(f, input[3], y)
              Agree(rules) ==
                  /\ Cases!ForcedCallAdmits(f, tools, input[2], rules, input[3], y,
                                             IF f.shape = "XmlFunction" THEN Cases!ArgTable[input[1]] ELSE <<>>)
                  /\ \A v \in {w, Front(w), Append(w, 32)} : Cases!ForcedCallParses(f, tools, input[2], rules, v)
          IN  Agree(Cases!GrammarTable[input[1]][input[2]])

(* Every node runs where its weights are, on a backend the command line      *)
(* allows and the machine has, an automatic placement fits, and the cells of *)
(* the cache never overlap (load_model_configured, plan, kv_resolve).        *)
WeightsPlaced ==
    /\ topic = "load" =>
          /\ Loading!WeightsWhereNodesRun(input[1], input[2], input[3])
          /\ Loading!NamedBackendPresent(input[1], input[2])
          /\ Loading!AutoFitsPrefix(input[1], input[2])
    /\ topic = "cells" => Loading!CellsDisjoint(input[1], input[2], input[3])

(* What split, quantize and convert write loads back as the model they were  *)
(* given, and what a death part way leaves behind is refused.                *)
FilesLoadBack ==
    /\ topic = "gguf" => Gguf!SplitLoadsBack(Gguf!Source(input[2], input[1], input[3]), input[4])
    /\ topic = "cut" => Gguf!CutIsRefused(Gguf!CutSources[input[1]], input[2], input[3])
    /\ topic = "quantize" => Gguf!RequantLoadsBack(Gguf!SourceOf(input[1], 32), input[2], input[3])
    /\ topic = "convert" => Gguf!ConvertLoadsBack(input[1], input[2], input[3])

(* A download that is reported done is a whole model, every part of it of    *)
(* its remote length, whatever kills, resumes and short or long transfers    *)
(* came before (download_hf, http_download, check_downloaded_size).          *)
DownloadIsWhole == topic = "download" => Fetching!AnswerIsWhole
=============================================================================
