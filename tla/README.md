# minfer: a TLA+ verification project

minfer is a local LLM inference engine in Rust. This directory models what it
does around the arithmetic: the OpenAI-compatible server from the request handler
to the K/V cells the attention kernels read, the command-line conversation,
speculative decoding, the CPU thread pool, the compute graphs with their buffers
and devices, and the text and file algorithms (grammars, JSON Schema, tokenizers,
sampling, tool calls, GGUF, conversion, download). The kernels themselves (CPU,
CUDA, Metal) are numeric code and are left to the repository's own bitwise gates.

Paths below are relative to the repository's `src/` directory.

## 1. Inventory

| Part | State it keeps | Operations | What makes it correct |
|---|---|---|---|
| KV arena (`graph/kvcache.rs`, `graph/alloc.rs`) | run table (start, cap, shared prefix, written extent), owner stamp per cell, the rows | reserve, release, resize, compact, copy or share a prefix, copy-on-write, fill a batch | runs disjoint, written rows covered, a sequence reads back its own rows |
| Batch engine (`server/batch.rs`) | per slot: start, cap, `cached_tokens`, the run | admit, prefill (single, chunked, group), tick, advance, finish, fail | the mirror is what the rows hold, no committed token lost, no run outside its cells |
| Serve loop (`server/batch.rs`) | the deque, the stall counter | receive, take the backlog, place, step, drain, give up | every job answered once, in order, within the queue bound |
| Supervisor (`server/worker.rs`) | status, restart count | join, refuse the queue, restart with a backoff, disable | a restart loses no job; a death is visible |
| Handlers and drain (`server/mod.rs`) | per request: event channel; `draining`; in-flight guard | check, send, count, collect or stream; signal, close, deadline | a request is resolved, a drain ends |
| Metrics (`server/metrics.rs`) | counters, token-rate window | add, snapshot, render | the derived queue depth |
| Serial worker (`server/chat.rs`) | one slot, its rows and record, the job | prefill, decode, stop strings, speculative rounds | the reply is the one sequential decoding gives |
| Snapshots (`graph/kvsession.rs`, `save_slots`/`load_slots`) | a versioned file | save after a request, load at start | a restart resumes only what the rows hold |
| Speculative decoding (`spec.rs`) | draft and target positions | propose, verify, roll back | output equal to plain decoding |
| Conversation CLI (`conversation.rs`, `main.rs`) | token stream, messages, session files | turn, `/regen`, `/clear`, overflow, save, resume | the stream is the rows and spells the conversation |
| Graph builder, buffer pool, graph cache (`graph/`) | node, buffer and capture tables | build, allocate, re-map, replay | a buffer is reused only when dead |
| Scheduler, offload (`graph/scheduler.rs`, `graph/offload.rs`) | node-to-backend assignment | plan, split, copy | every input is on its backend, and current |
| Kernel pool (`kernel/pool.rs`, `kernel/dispatch.rs`) | job cell, generation and done counters, gate | submit, wake, run, finish | every row computed once, no context outlived |
| Grammar (`grammar.rs`) | stacks, carried bytes, mask cache | compile, mask, accept | exactly the sentences |
| Tool calls (`server/toolcall.rs`) | parser buffer | feed, finish, force | chunking is invisible, calls read back |
| Tokenizer (`tokenizer.rs`, `tokenizer/`), sampler (`sampler.rs`) | vocabulary; filter configuration | load, encode, decode; filter, draw | tokens spell the text; a choice always remains |
| GGUF, convert, quantize (`gguf.rs`, `gguf_write.rs`, `convert.rs`, `quantize.rs`, `tooling.rs`) | files | read, write, split, re-type | what is written loads back |
| Download (`download/mod.rs`) | cache directory | list, fetch, resume, check | a reported model is whole |
| Live view (`live/`) | sockets, traces | observe | feeds nothing back |

How they interact. An axum handler validates a request, tokenizes it and sends a
`Job` over a bounded channel (64) to one worker thread; the job carries its own
event channel. The worker's `serve_loop` takes jobs into a deque, places them on
idle slots of the `BatchEngine` and steps it (or, in serial mode, generates one
job at a time). The engine calls the model's forward: the graph cache finds or
builds a graph, the allocator maps it onto buffers and resolves positions to
cells, the scheduler runs it split by split, and CPU splits use the kernel pool. A
supervisor thread joins the worker and restarts it on the same channel. A signal
sets `draining`, which handlers and worker read. The concurrent parties are the
handlers, worker, supervisor and signal task; the callers and workers of the
kernel pool; and the boundary copies in flight between devices. Elsewhere the
hard behaviours are the order of calls and the failures between them.

The hazards, each at its line, are the `hazards` list of `PROJECT.json`; every
property below is aimed at some of them.

## 2. Modules

| Module | Models |
|---|---|
| `KvCells` | the cell store: operators from a store to `[ok, kv]`, one per operation of `KvCache` and `GraphAllocator`. An `Err` keeps what the code had changed before it returned |
| `KvArena` | the arena as a state machine: callers reserve, release, resize, borrow and forward in any order. `log` is what each caller was told its sequence holds |
| `BatchEngine` | slots, admission, prefill and decode over `KvCells`; an action is what the worker does between two forwards |
| `KvSession` | the snapshot container, word by word, with its validation |
| `EngineRestart` | `BatchEngine` with `KvSession`: a save after every request, a crash at any word of it, a load in the next worker |
| `ServeLoop` | handlers, channel, serve loop, supervisor and drain; an action is one thread's step between two points where another can be seen |
| `RequestService` | what a client is promised, with no queue or worker |
| `SpecDecode` | greedy decoding over rows, and the speculative round |
| `Generation` | the serial worker: `worker_loop_serial`, `generate_seq`, plain and speculative |
| `Conversation` | the CLI conversation, its overflow handling and its two session files |
| `KernelPool` | `par_for` and `cpu_quant_matmul` on the thread pool |
| `ModelGraph` | the builders, backend assignment, fusion and splits of one forward |
| `GraphRun` | forwards through the graph cache, the allocator, the scheduler and CUDA captures |
| `Placement` | backend choice, offload plan, weight registration, rope table, cache format |
| `Codepoints`, `Gbnf`, `Grammar` | UTF-8 that may end inside a character; GBNF expressions and their programs; the stack machine, the token mask by both plans and its cache |
| `RegexPattern`, `JsonSchema` | the compilers from `pattern`, `format` and JSON Schema to GBNF |
| `PreTokenizer`, `Tokenizer` | composition and splitting; vocabularies, encoders, decoding, DRY breakers |
| `Sampler` | bias, penalties, DRY, mask, filters, draw |
| `ToolCalls`, `ForcedCalls` | the format table and its parsers; the grammar of `tool_choice` |
| `GgufFile`, `Requant`, `HfConvert` | reader, writer and splits; `minfer quantize`; `minfer convert` |
| `Download` | listings, resumed transfers, length checks |
| `ServeLoopProofs`, `KernelPoolProofs`, `KvArenaProofs`, `BatchEngineProofs`, `ConversationProofs` | the theorems about those modules |
| `EngineRowsProofs` | what the rows of `BatchEngine` hold |
| `FoldProofs`, `KvCellsProofs` | what the arena and engine proofs rest on: loops; compaction and one lemma per call of `KvCells` |
| `MC*` | values for TLC (`MCGrammars`: the grammars, schemas, forced calls and replies of the algorithm run) |

Composition. `KvArena` and `BatchEngine` both use `KvCells`: the first asks what
the arena promises to any caller, the second what the engine makes of it.
`EngineRestart` composes the engine with the file. `ServeLoop` keeps of the engine
only which runs a step ends and implements `RequestService`. `Generation` extends
`SpecDecode`, takes the penalty window from `Sampler` and the text of tokens from
`Tokenizer`. `GraphRun` and `Placement` extend `ModelGraph`, so the plan, the
registered weights and the nodes are checked against each other. `Grammar`,
`JsonSchema` and `ForcedCalls` share `Gbnf`; `HfConvert` writes through `Requant`
and `GgufFile`, whose reader then judges the result.

Operators whose comment says "Mutant of" are faulty variants that show a property
has teeth; no specification uses them.

### How state and actions correspond to the code

*KvCells.* One layer stands for all: they share the run table and every copy and
stamp is repeated on each. A row's content is a value; span lists are computed
from the run table as `refresh_spans` does. `need = 0` stands for `None` in
`compaction_plan`. Storing rows (`StoreRows`) and reading them (`RowAt`) are the
kernels', modelled from the cells the code resolves for them.

*KvArena.* `by` is the kind of caller, fixed for a behaviour: how many sequences
it uses, how many groups it feeds at once, whether its device reads prefixes in
place (`share`), and whether it spares rows others read (`pin`, see section 3).

*BatchEngine.* A row's content is the token prefix it was computed from, and a
new row is computed from the row *below it in the arena*, so a wrong row poisons
what is built on it, as in attention. The sampler, the client and the device are
nondeterministic: a step commits any token, ends the turn or fails. A forward may
fail with any part of its groups stored, or be refused in the fill.

| Code | Action |
|---|---|
| `admit` | `Admit` (`AdmitEach`, `AdmitGroup`, `AdmitGroupFails`) |
| `submit_on` | `SubmitOn`, then `PrefillChunk` per chunk or `PrefillFails` |
| `tick` with `advance`, `finish`, `fail`, `fail_batch` | `Tick`, `TickFails`; also between chunks (`pre.tick`) |
| `serve_loop` waiting | `Wait` |
| `save_slots` inside `finish`; a kill; `load_slots` | `Serve`, `Crash`, `Restart` of `EngineRestart` |

*ServeLoop.* Worker and supervisor never run at once, so one `pc` serves both:
`wait`, `take`, `place`, `step` are the worker's, the rest the supervisor's.

| Code | Action |
|---|---|
| `chat_completions` | `Accept`, `Refuse`, `Send`, `SendFails`, `CountRequest` |
| `collect_response`, `stream_response`; a dropped handler | `Reply`; `Disconnect` |
| `serve_loop` | `Recv`, `Hangup`, `Take`, `TakeDone`, `DrainQueue`, `Place`, `SkipStep`, `Tick`, `StepFails`, `Stall`, `StallOut` |
| a panic in the engine | `Panic` |
| `run_supervisor` | `Mark`, `RefuseQueued`, `RefuseDone`, `Backoff`, `Respawn`, `Disable` |
| `serve_with_shutdown`, `bounded_drain`, the wait in `run` | `Signal`, `Close`, `Deadline`, `Exit` |

Two simplifications: the status and draining checks of a handler are one step
(both precede everything else and only refuse), and `reject_queued` empties the
channel in one step (a job sent during it is taken by the next pass, or by the
supervisor, as a later one would be). `fail_lagging_runs` is inside the arbitrary
set of runs a `Tick` ends.

*Generation and SpecDecode.* The target is a fixed function of what attention
reads and of the penalty window; the draft is any proposer. `Receive` and
`Prefill` are the start of `generate_seq`, `Decode` an iteration of the plain
loop, `Seed` and `Round` the speculative one; `PrefillFails`, `DecodeFails`,
`Disconnected` and `Panicked` are its exits. `rows` keeps what each position was
computed from and `cached_tokens` is the record the next job is compared with.

*Conversation.* `UserTurn`, `Regen`, `clear`, `Plain`, `GrammarStuck`, `Seed`,
`Round`, `save_session` and `Start` (a restart from whatever a crash left of the
two files, either of which may be torn; the draft may be given or not each time:
`drafting`). `Crash` is the failed assertion of a forward past the context, which
ends the process without a save. A merged token makes the sampled spelling differ
from the encoded one, the case the module's invariant has to survive. Two flags
keep apart what the code itself gets wrong: `slipped` (the position has left the
end of the stream) and `odd` (the stream has left the render); section 3 says
when each is set and cleared.

*KernelPool.* Each load, store and lock that another thread can see is a step:
`Enter`, `LockGate`, `Post`, `Announce`, `OwnRange`, `Await`, `Reset`, `Resume` of
a caller; `Wake`, `LoadGen`, `Snapshot`, `RunRange`, `Finished` of a worker;
`set_cpu_threads` at any time.

*GraphRun.* `Forward` is `build_or_reuse` with the allocation or the re-map,
`RunSplit` one split with its boundary copies, capture or replay, `Finish` the
drain of pending copies. A buffer's content is, element by element, the node that
wrote it and the forward it was written in.

*Text and file modules.* Operators named after the functions they translate, over
sequences of codepoints or bytes; what is cut down is said at the head of each
module (Unicode tables, tag spellings, three bits to a byte of a number, softmax
in base 2). `Grammar`, `ToolCalls` and `Download` are state machines.

## 3. Runs

Passing runs:

| Run | Bounds | Shows |
|---|---|---|
| `KvArena` | 4 cells, rows of two values; 3 sequences that copy prefixes, or 2 fed in one batch that read them in place | `RunsDisjoint`, `OwnersMatchRuns`, `WrittenCovered`, and isolation (`RowsHoldLog`) through compaction in both directions and failing forwards |
| `EngineCopy` | 2 slots, 8 cells, 3 requests, chunks of 2, bounded and unbounded requests, failing decodes | `RowsHoldMirror`, `CommittedTokensWritten` |
| `EngineShare` | 3 slots, 9 cells, prefixes read in place, every forward may fail | `CommittedTokensWritten`, `RunFitsReservation` |
| `EngineRestart` | 2 slots, 8 cells, 3 requests, no chunking, one crash, writes that fail | `FileWholeOrRefused`, `ResumedRowsHoldMirror` |
| `ServeSafety` | 4 requests, 2 slots, channel and queue of 1, one restart, all faults | `TypeOK`, `OneHolder`, `DropsOnlyWhenDown`, `QueueDepthExact`, `BoundsHold`, `NoOvertaking` |
| `ServeLiveness` | 2 requests, 1 slot, runs of 2 steps, all faults | `EveryRequestResolved`, `DrainCompletes`, `ImplementsService` |
| `KernelPool` | 2 callers of 2 calls each, 1 or 3 rows, up to 3 threads | `EveryRowOnce`, `NoDeadContext`, `CallsReturn` |
| `Generation` | 4 tokens, slot of 5 rows, depth 2, 4 targets, 2 jobs | `RecordMatchesRows`, `ReplyIsSequential` |
| `Conversation` | context of 12, 2 generated tokens a turn, depth 1, 3 commands, torn files | `MirrorMatchesRows`, `StreamSpellsConversation`, `ResumeKeepsHistory` |
| `Graph` | 2 blocks, 5 placements, 3 shapes, cache of 2 graphs, capture on the second run, captures that are refused, 5 forwards | `ReadsAreCurrent`, `EveryCopyAwaited`, `PoolIsResident`, `RemapAllocatesNothing` |
| `Algorithms` | see below | `GrammarSteers`, `SchemaLanguage`, `SplitsAsDocumented`, `TokensSpellText`, `SamplerKeepsChoice`, `CallsReadAsWritten`, `WeightsPlaced`, `FilesLoadBack`, `DownloadIsWhole` |

Why the bounds are enough. Three sequences are the least for which a compaction
moves two runs and one of them upward; four cells leave room for a gap and a
resize. In the engine, three requests on two or three slots give a donor, a
borrower and a request that grows its slot at their expense; prompts of up to
five tokens in chunks of two give three chunks with decode steps between them. In
the server, four requests fill two slots, the deque and the channel, so that
overflow, a blocked sender and a restart happen together. Two callers and two
workers are what it takes for a worker to be late for one submission and early for
the next. Two jobs let one decode on what the other left; a slot of five rows lets
a speculative round meet its end. Twelve positions hold a system prompt and a turn
and a half, so that the second turn overflows. Three shapes through a cache of two
graphs evict, rebuild and come back; five forwards let a captured split be replayed
after a switch. `RunSteps`, `MaxJobs`, `MaxArrivals`, `MaxFeed`, `Jobs`, `Turns`,
`MaxCalls`, `MaxForwards`, `MaxCrashes` bound behaviours; `StallLimit` and
`MaxRestarts` stand for 64 and 5.

*Algorithms* enumerates inputs by topic: every schema keyword the compiler handles
against values the reference accepts or refuses and against texts that miss a
value by one character; all texts of up to three or four
characters over alphabets that reach each branch of a split rule, each tokenizer
engine and each composition; rows of three logits under every combination of
filters, and rows of three and four drawn from under masks of up to three; each
row of the tool-call table, whole, chunked in ones and fours and forced; command lines, machines and model files for placement; and GGUF files of
one to three tensors, written, split, cut at every byte, quantized and converted.
The grammar, tool-call and download machines run inside it with their own steps.

Conditions in properties. `RowsHoldLog` on a device that shares prefixes assumes
`pin`: no caller rewrites or releases rows another sequence reads in place, and
none lends rows it has borrowed. The code enforces neither; `EngineShareStale`
shows what happens without the first. The second matters from three sequences on:
a sequence whose borrowed prefix ends where its own run starts may lend both, the
new share then spans two runs, and a later compaction moves one of them from under
it, although the comment in `apply_moves` says that no plan produces this.
`RecordMatchesRows` holds until a forward fails (`torn`), because the record is
kept over half-written rows. `ReplyIsSequential` allows the one extra token of a
speculative reply that fills the context.

`MirrorMatchesRows` excepts only `slipped`: a drafting session whose reply was cut
at `n_predict` inside a round (the position is then one short of the stream), or
whose first token was a stop string while `n_predict` was 1 (one ahead), until the
whole conversation is rendered again or cleared. `StreamSpellsConversation` excepts
`odd`, which is set in these cases only, until the conversation is rendered whole
by a turn or a start, or cleared:

- a context-full turn that is refused while no end-of-turn marker was pending, and
  sets one;
- a `/regen` that no longer fits, whose question stays and whose stream was cut;
- a stop string that does not begin where the last sampled token does: earlier,
  its first tokens are already in the stream; later, text is recorded whose token
  is not;
- a turn that ends in an error after tokens were fed (`GrammarStuck`: the grammar
  allows no token, or the seed of a drafting turn fails): the tokens stay in the
  stream and no message records them;
- the two cases of `slipped` above.

Three properties of `Algorithms` except, by a named operator, what the code gets
wrong, and each has a definition without the exception in section 4.
`SchemaLanguage` excepts empty literals (`EmptyLiteral`), open objects that do not
require all they declare (`OpenEntry`) and arrays of a union (`UnionItem`).
`SamplerKeepsChoice` allows a forbidden token to be drawn only by the fallback for
shares that sum to less than one after rounding, and then only the last id
(`ForbiddenOnlyByRounding`). `CallsReadAsWritten` excepts chunked replies of the
JSON rows that are refused because a chunk ended inside a number
(`RefusedInNumber`).

## 4. Statements of the repository that the code does not meet

One run is kept for these, `EngineShareStale`: a donor slot's next request
rewrites rows another slot reads in place (`RowsHoldMirror`; `findings` quotes the
lines). The others are stated by definitions of the modules and can be reproduced
by checking the named definition on the instance given.

| Definition | Instance | Where, and what the repository says |
|---|---|---|
| `RowsHoldMirror` | `EngineCopy` with `Faults = {"prefill"}` | a failed prefill keeps `cached_tokens` over rows it overwrote: `server/batch.rs:938`, `:1088` |
| `GroupFitsCap` | `EngineCopy` | `admit` sums the rows reused, not the rows fed, so a group exceeds the cap: `server/batch.rs:730` against `:691`, `:732` |
| `CommittedTokensWritten` | `EngineCopy` with `MaxBatch = 1` | a run left out of a step is sampled again and its pending token is lost: `server/batch.rs:1297` against `:1419`, `:1440` |
| `IdleEngineServes` | `EngineCopy` with `Prompts <- LongPrompts` | a reclaimed slot refuses a prompt that idle cells could hold: `server/batch.rs:606` against `server/mod.rs:617` |
| `QueueAnswered` | 3 jobs, 1 slot, `MaxRestarts = 0`, `Faults = {"stall"}` | a job sent between the supervisor's last look and the receiver's end is dropped: `server/worker.rs:226` against `:176` |
| `ResumedRowsHoldMirror` | `EngineRestart` with `NBatch = 2` | a save during another slot's interleaved prefill records a mirror its rows no longer hold: `server/batch.rs:451` |
| `SlotsFollowRuns` | `EngineRestart` | `load_slots` replaces the arena before it checks the slot table: `server/batch.rs:465` |
| `SpecIdentity` | `Generation` | a speculative reply that fills the context is one token longer: `server/chat.rs:111` |
| `RecordMatchesRowsAlways` | `Generation` | a failed forward leaves the record: `server/chat.rs:957` |
| `StreamIsRender` | `Conversation` | the exceptions listed in section 3: `conversation.rs:16`, and `:1347`, which says that leaving a stop string's tokens out "keeps the §5.4 invariant strictly true" |
| `PositionIsStreamLength` | `Conversation` | a round cut at `n_predict` moves the position by the tokens consumed and leaves out the seed: with depth 1 and `n_predict = 2` position 8 for 9 tokens, so the next turn overwrites a row: `conversation.rs:728` against `:401`, "strong invariant: == stream_tokens.len()"; `server/chat.rs:396` counts the seed |
| `ContextRespected` | `Conversation` | a render longer than the context is fed and fails the assertion at `models/qwen2/graph.rs:519`: a template that no longer matches, or an overflow that dropped all it could, at `conversation.rs:1038` ("the caller reports `ContextFull`"); a history that fills the context, at every start (`load_history`, although `:1222` says that re-seeding "is always safe") |
| `SchemaExact` | `Algorithms`, topic schema | the literal `{}` becomes `{{ }}`: `grammar.rs:3760` against `:3726`, "exactly this JSON value". An open object that does not require all it declares also accepts `{,"a":1}` and an undeclared entry under a skipped member's name, and `{"type":"object"}` refuses `{"a":1}`: `grammar.rs:2603` against `docs/GRAMMAR-DESIGN.md:170`, "cannot accept an object the schema rejects". The alternatives of an array's items are joined without parentheses: `grammar.rs:2690` |
| `DrawsAllowed` | `Algorithms`, topic draw | a draw past the rounded sum of the shares returns the last id, masked or not (the shares of logits 0, 2.75 and 2.5 sum to 1 - 2^-23): `sampler.rs:284` against `:1095` and `docs/GRAMMAR-DESIGN.md:321` |
| `ChunksNeverMatter` | `Algorithms`, topic calls | `-12` cut after its sign is refused, since serde_json reports a syntax error and not the end of the text there: `server/toolcall.rs:1540` against `:11` |
| `CachedGraphFits` | `Graph` | a re-map onto a cached graph can be refused for memory: `graph/alloc.rs:841`, `graph/cache.rs:79` |
| `GlobalTableIgnored` | `Placement` | the global `rope_freqs.weight` is applied: `models/rope_scaling.rs:30`, `:47` against `:142` |
| `DeviceHoldsOnlyUsed` | `Placement` | the device is given weights of blocks it does not run: `graph/offload.rs:11` |
| `RequantLoadsBack` | a source with alignment 64 | `quantize` keeps the metadata key but lays tensors out at 32: `convert.rs:1310` against `docs/GGUF-TOOLING.md:53` |
| `InvFreqOmitted` | `WithInvFreq` of `MCGguf` | the name maps to nothing, which the caller refuses as an unknown tensor: `convert.rs:379` against `:328` |

Smaller disagreements met on the way. Arena and engine: a reservation that fails
after its compaction loses the moves, so a slot's `start` goes stale (only the
snapshot reads it); compaction does not honour the cells a sharer still reads after
its donor was released; the backlog loop can take more than `queue_max + 64` jobs
in a pass, because waiting senders refill the channel; a draft the server refuses
is dropped without a word. Graphs: the cross-device staging buffers of an evicted
graph are never freed; the default memory budget counts weights twice; a CUDA
capture that fails at its end leaves the step's outputs undefined and they are
used (`graph/cuda_backend.rs:602`). Files: an unknown ggml type
panics instead of being refused, an array of Booleans is allocated at the length
its file claims (`gguf.rs:1291`), a numeric key that holds an empty array panics
when it is read (`gguf.rs:1693`), a vocabulary that misses a byte token panics in
`byte_fallback`, and `split` or `quantize` onto its own source truncates the
mapping it reads from.

## 5. Fairness

`ServeLoop` assumes weak fairness of the worker (`Loop`), the supervisor, axum's
`Close`, the bounded `Exit`, and per request of `Send`, `SendFails`,
`CountRequest` and `Reply`: OS threads run, tokio polls a ready task, and the
channel's waiting senders are served. Nothing is assumed of clients (no fairness
for `Accept` or `Disconnect`), of the signal or of the deadline, so
`DrainCompletes` holds without the deadline's help. A run takes at most
`RunSteps` steps: requests end by budget, capacity, stop token or client. That a
client reads its events or leaves is assumed; the event channel's capacity is not
modelled, and a client that does neither blocks the worker in `blocking_send`.

`KernelPool` assumes weak fairness of each caller and of each worker once it is in
a call: threads spin or are unparked and the operating system runs them. No caller
is obliged to make a call. With finitely many calls nobody is overtaken at the
gate for ever, so weak fairness of taking the mutex suffices.

All other specifications are safety specifications. `Generation` and
`Conversation` may stop when their jobs or turns are used up, and the topics of
`Algorithms` are single states, so those runs do not check deadlock; every other
run does.

## 6. Proofs

Each theorem holds for every value of the constants that meets the named
assumption of its module.

| Module | Theorem | Statement |
|---|---|---|
| `ServeLoopProofs` | `TypeCorrect` | `Spec => []TypeOK` |
| | `JobsAccounted` | `Spec => []OneHolder` |
| | `LossMeansDown` | `Spec => []DropsOnlyWhenDown` |
| | `AdmissionBounded` | `Spec => []BoundsHold` |
| | `DepthExact` | `Spec => []QueueDepthExact` |
| | `FirstComeFirstServed` | `Spec => NoOvertaking` (an action property) |
| | `ServiceImplemented` | `Spec => Service!Init /\ [][Service!Next]_(Service!vars)` |
| `KernelPoolProofs` | `PoolTypeCorrect` | `Spec => []TypeOK` |
| | `RowsComputedOnce` | `Spec => []EveryRowOnce` |
| | `ContextsOutliveRanges` | `Spec => []NoDeadContext` |
| `KvArenaProofs` | `ArenaTypeCorrect` | `Spec => [](Pinned => TypeOK)` |
| | `RunsStayApart` | `Spec => [](Pinned => RunsDisjoint)` |
| | `StampsFollowRuns` | `Spec => [](Pinned => OwnersMatchRuns)` |
| | `WrittenRowsCovered` | `Spec => [](Pinned => WrittenCovered)` |
| | `Isolation` | `Spec => [](Pinned => RowsHoldLog)` |
| | `ArenaInvariant` | `Spec => []IInv`, from which the five above follow |
| `BatchEngineProofs` | `RunsFit` | `Spec => []RunFitsReservation` |
| | `NoTokenLost` | `MaxBatch >= Cardinality(Slots) => (Spec => []CommittedTokensWritten)` |
| | `EngineInvariant` | `Spec => []EngineInv`, which both rest on |
| `EngineRowsProofs` | `RowsMatchMirror` | `~Gathers /\ "prefill" \notin Faults => (Spec => []RowsHoldMirror)` |
| `ConversationProofs` | `MirrorKept` | `Spec => []MirrorMatchesRows` |
| | `StreamKept` | `Spec => []StreamSpellsConversation` |
| | `HistoryKept` | `Spec => ResumeKeepsHistory` (an action property) |
| | `ConversationTypes` | `Spec => []TypeOK` |
| | `ConversationInvariant` | `Spec => []ConvInv`, which the four above rest on |
| `KvCellsProofs` | `MovesKeepStore` | a compaction plan applied to a good store gives a good store in which every sequence reads what it read |

`PROJECT.json` lists them with what each establishes.

### ServeLoop

From `ServeAssumption` only: any set of jobs, number of slots, channel capacity,
queue bound, stall limit and restart limit.

None of these is inductive alone. The invariant `IInv` adds: a job has been sent
exactly when its handler is past `Send` (`SentOnce`), so a second send cannot
duplicate it; the worker holds nothing while it waits or once it has ended
(`AtRest`), so restarting or disabling drops nothing from a slot; `exit` is known
whenever the supervisor runs (`ExitKnown`); once the senders are gone no handler
can send (`SendersDone`), so a shutdown finds the queue empty for good; the
receiver closes only with the worker's end (`ReceiverLife`); an empty reply comes
from a closed channel (`EmptyMeansClosed`); and the slot and queue bounds
(`SlotsBounded`, `PassKept`). The proof has one lemma per thread (`HandlersKeep`,
`LoopKeeps`, `SupervisorKeeps`, `DrainKeeps`) with a step per action, resting on
lemmas about the jobs a sequence holds (append, head and tail, split).
`ServiceImplemented` uses the invariant and maps each handler step to the step of
`RequestService` it is.

`DepthExact`: requests counted plus sends not yet counted by their handler equal
jobs admitted plus jobs in channel and deque, as long as no sender was dropped; a
dropped sender stays dropped (`DroppedStays`). A step of the server only moves jobs
between the terms on the right; a step of a handler moves one job into or out of
the finite set of uncounted sends. `FirstComeFirstServed`: only `Place` starts a
job, the jobs it places are a prefix of the deque, and nothing running is queued.

### KernelPool

From `PoolAssumption`: any set of callers and row counts, any thread limit.

The danger is a worker that uses a job after its caller has returned. The
invariant says what the handoff counters mean together. Whoever is between lock
and unlock holds the gate (`GateHeld`) and its call is the posted job
(`JobPosted`). Between two calls `done` is 0 and every worker has seen the last
generation (`CrewAtRest`). During a call `done` is the number of workers that have
finished this generation, and a worker inside a range runs this very call
(`CrewAtWork`), so that `done = n` leaves nobody in a range. `RowsCounted` says that
a row has been written as often as the worker and the caller whose ranges it lies
in have run; that every row lies in exactly one range is arithmetic
(`ChunksDisjoint`, `ChunksCover`).

### KvArena

From `NCtxAssumption`, `SeqIdsAssumption`, `MarksAssumption` and `ArenaAssumption`:
any arena size, any finite set of sequences, any contents of rows, any kind of
caller, with or without compaction.

*The hypothesis.* `Pinned` says that a caller which reads prefixes in place also
spares the rows others read (`by.share => by.pin`). `by` is fixed for a behaviour,
so the theorems cover every behaviour that copies prefixes, without a condition,
and every one that shares them with care. The code does not ask it of its callers
(section 3), and it cannot be dropped for `RowsHoldLog`: `EngineShareStale` shows a
donor rewriting rows another slot reads.

*The invariant.* `IInv` says of the store (`Good`): it is well formed (`IsStore`);
runs are apart and inside the arena (`Separate`); a sequence has written no more
than its address space holds (`Fits`); a stamp is on a written row of the run of
the sequence it names (`Stamped`); and whatever a sequence reads in place is
written rows of the own run of a live sequence that borrows nothing (`Lent`). It
adds that each sequence holds what its caller was told, and that nobody borrows
where prefixes are copied. The four properties are not inductive without `Lent`: it
is why moving the donor's run moves all of a borrowed prefix, and why a release or
a resize that spares the lender's rows spares the borrower's. TLC checked `IInv`
first, on more than two million states, three sequences that share among them.

*Compaction.* `apply_moves` copies run after run in place, so the order decides
whether a copy destroys rows that are still to move: upward moves from the top
down, then downward moves from the bottom up. The proof is an induction along that
loop. `At` is where a run stands after k moves; `Midway` says that the written rows
of two runs are apart at every such moment, resting on `LandsClear`: a move lands
clear of the rows that have not moved yet and of those that have. No shared
prefix straddles two runs, by `Lent`, so the renumbering finds each in one move
(`RenumbersRuns`). `MovesKeepStore` is the end of the loop, for the plans of a
reservation (`ReservePlan`) and of a full packing (`FullPlan`).

*Calls.* `KvCellsProofs` has a lemma for each call (`ReserveKeeps`, `ResizeKeeps`,
`ReleaseKeeps`, `CopyPrefixKeeps`, `SharePrefixKeeps`, `FillKeeps`, `StoreKeeps`): on a
good store, whether it succeeds or returns `Err` half way, the store it leaves is
good and the other sequences read what they read. `FillKeeps` is the longest: a
batch first makes private what it is about to write (`CowKeeps`, an induction over
the groups), then stamps (`OwnKeeps`). `KvArenaProofs` has one step per action on
top of these.

### BatchEngine

From `EngineAssumption` and the assumptions of `KvCells`: any number of slots up
to one per cell, any context, prompts, budgets, chunk size and batch limits,
prefixes copied or read in place, any forward failing at any point.

*The properties.* `RunsFit` is about `ensure_slot_capacity`: before a prompt goes
in it may evict idle slots, resize the slot, compact the arena, and fail after any
of these; a run that is decoding meanwhile must keep every cell it counts on.
`NoTokenLost` is about what `tick`, `advance` and the prefill loop do between them:
the mirror and the pending token spell the prompt and all that was committed.

*The invariant.* `EngineInv` relates three pieces of state. `Sound`: each slot's
belief about its capacity is backed by the run table (`Backs`), its run and the
next row fit it (`HasRoom`), and both tables are well formed (`Shaped`, `Table`).
`Waiting`: the jobs `admit` has placed and not yet submitted sit on idle slots, no
two on one. `PreOk`: a prefill between two chunks owns an idle slot with room for
the whole prompt, and no waiting job has that slot. The last two are needed because
decode steps run between chunks and a placed job's slot is chosen long before it is
used: without them the new run would replace a live one. `RunFitsReservation` alone is not
inductive, since an idle slot's stale capacity becomes a run's at the next
admission. TLC finds `EngineInv` true in all 260,894 states of `EngineShare`.

*The argument.* The engine needs only capacities of the arena, so the first part
gives each call of `KvCells` a weaker contract than `KvCellsProofs` does
(`KeepsCaps`, `OnlyTouches`), which also holds where a donor's rows are rewritten
under a reader: no `Pinned` here. The next part follows one slot being made ready
(`StartFrom`, `FeedFrom`, the eviction loop) and the group loops, again as
inductions over folds. A later job of a group may evict the slot an earlier job of
the same group was prepared on; the proof has to show that the batch is then
refused whole by `fill_batch_inputs` and that no run starts on the lost slot. Then
one step per action (`NextKeeps`).

*The hypothesis.* `MaxBatch >= Cardinality(Slots)` cannot be dropped: with more
slots than `MAX_BATCH` the code loses the pending token of a run left out of a step
(section 4). Up to `--n-slots 16` meets it; nothing bounds the flag.

### The rows of BatchEngine

`RowsMatchMirror`, from the same assumptions: whatever is reclaimed, resized,
moved, copied between slots, fed in chunks or lost with a failed decode step, row
n of a slot was computed from the first n tokens of its mirror, so what the next
request reuses is what it would have computed.

*The invariant.* `MirrorInv` (`MirrorAt`) holds beside `EngineInv`: the store is
good and nobody borrows (`Plain`); each mirror names written rows of its slot
(`Mirrored`); a run's mirror and its position agree (`AllSteady`). The slot of a
prefill in progress is excepted, since its mirror still names the conversation the
chunks overwrite; there the rows are those of the prompt up to where the prefill
stands. That is what lets the mirror be replaced in the last chunk, and why a
decode step or an eviction between two chunks needs `PreOk` of `EngineInv` to be
kept off it. The calls of the arena come from `KvCellsProofs`, with what each
stores, not only that the store stays good.

*The hypotheses.* Both name a case in which the code breaks the property, and
neither can be dropped. Prefixes read in place (`Gathers`): the violating run
`EngineShareStale`. A failing prefill forward: section 4, first row. Decode
forwards may fail; a batch refused by `fill_batch_inputs` is covered in both.

### Conversation

From `ConversationAssumption` and `TextAssumption`: any context length, prediction
limit and speculation depth, any number of turns, any texts typed, any set of
stop strings, any sampled tokens.

*The properties.* The stream of tokens is only ever appended to, cut and shifted;
the messages are edited separately. That the two stay the same conversation is
what the module doc of `conversation.rs` calls its invariant, and it cannot be
stated token by token: the model samples spellings the tokenizer would not
produce. The theorems therefore compare the text the stream decodes to with the
render of the messages.

*The invariant.* `ConvInv` has two halves. `RowsInv`: only a drafting session
slips, and until it does each token of the stream sits in its row, in every phase
(but for the seed of a round, which is in the stream first). The other half says,
by phase, that at rest (`Resting`) the stream with the pending end-of-turn marker
spells the messages;
a turn being answered (`Asked`) spells the render with the generation prompt; in
speculative rounds (`Speaking`) the text so far follows the prompt. The properties are not inductive without
four more facts. `turn_pos` marks where the messages before the last turn are
spelled (`LastTurn`, `ThisTurn`), or `/regen` would cut the stream elsewhere than
the messages. An answer has its question before it (`Answered`), since `/regen` and
the overflow plan drop by role. A companion on disk gives back a conversation at
rest with its rows, whatever was overwritten since (`Companion`); a drafting
session writes none, so no slip is ever saved. And `odd`, once set, exempts
the spelling only, and in the cases section 3 lists only: rows, files and roles
stay covered.

*The argument.* `decode` and `render` distribute over concatenation
(`FlattenConcat`), and `decode(encode(t)) = t` (`EncodeFacts`), an induction over
the merging encoder. `PlanFacts` is the induction over `plan_overflow_drop`: the
dropped span is whole turns behind the system message. `DropSpells` and
`ShiftFacts` then show that the stream region removed with `kv_rm` is exactly the
span of those turns, so that the rows moved down still are the rows of the stream
(`RemoveFacts`). One lemma per action follows (`UserTurnKeeps`, `RegenKeeps`,
`ClearKeeps`, `PlainKeeps`, `GrammarStuckKeeps`, `SeedKeeps`, `RoundKeeps`,
`SaveKeeps`, `StartFacts`), over one for the end of a turn (`DoneKeeps`), one for a
prompt that is in the rows (`GeneratingKeeps`) and one for a dead session
(`CrashKeeps`). The proof found what the run's stop string, of two
characters, does not show: the second half of the stop-string case of section 3,
which marks the turn `odd`. The run with `StopStrings = {<<1>>}` reaches it, but
then no answer holds a text that two spellings share, so the run keeps the other.

### Loops

The library's induction theorems take an operator as a parameter, which
no installed prover instantiates. `FoldProofs` declares the body of a loop as a
`CONSTANT` operator and proves once that its fold has intermediate results
(the lemma `FoldUnfolds`); a module that proves a fact of a loop instantiates it with the
body, and does the induction with a set of indices (`Induct`). The loops of
`KvCells`, `BatchEngine` and `Conversation` are written as recursive functions or
as folds over one so that they fit.

### Only model-checked

- Liveness, including the fairness half of `ImplementsService`: the prover proves
  neither liveness under fairness nor `ENABLED`.
- `Codepoints` to `ToolCalls` and the file modules: what a recursive definition
  computes for every input is out of reach, and `ForcedCalls`, `Gbnf`, `Grammar`,
  `JsonSchema`, `PreTokenizer`, `RegexPattern`, `Tokenizer` and `ToolCalls` declare
  `RECURSIVE` operators, which cost the prover its SMT backend. `Generation` uses
  `Tokenizer` and shares that.
- `EngineRestart` and `GraphRun`: no obstacle of principle. The first needs the
  container of `KvSession` read back word by word after any cut, the second the
  liveness allocator over any graph; see the plan.

## 7. Not modelled

- Kernels, quantization encoders and sampling arithmetic: numeric code.
- `KvCells`: the identity layout, the attention map and its tables; a device copy
  that fails in the middle of a compaction (`graph/alloc.rs:1407`, `:1611`).
  `kv_defrag` copies in the plan's own order (`:1597`), `MoveRuns` in the order of
  the reservation: the same where all moves go down, as a full packing's do.
- `BatchEngine`: the lag bound of a single run (its limit is documented in steps
  and compared with work units) and the capacity of a client's event channel.
- Metrics: the token-rate window and the rendering.
- Speculative decoding: the draft's admission and catch-up, the adaptive
  controller's estimates, the offline checker `spec_verify.rs`.
- Kernel pool: a panic inside a worker's range.
- Text: the lexer of GBNF text, the chat-template engine, full Unicode tables; the
  closure's step limit (`MAX_CLOSURE_STEPS`), the merge records of `resegment` that
  cannot be missing, the refusals of a truncated normalization map, the cap on the
  DRY exponent and the rescue of `min_p`.
- Conversion: names are sorted by block number, which is the order of the strings
  below ten blocks; keys that nothing reads back (`general.name`, sampling
  defaults, the pre-tokenizer's name, BOS) are left out.
- Placement: one switch stands for `MINFER_NO_FUSE_QKV` and `MINFER_NO_FUSE_FFN`.
- Command-line parsing and the terminal loops of `main.rs`.
- Download: the Ollama registry and name lookup in the cache.
- CUDA and Metal: kernels, command encoding and device memory calls. The choice of
  nodes, captures and buffer generations are in `ModelGraph` and `GraphRun`; a
  capture that fails at its end (section 4), the token-count hint and the cache
  layout in the tag of a capture are not.
- Live view and visualization: they feed nothing back into generation.

`PROJECT.json` lists every component with its reason.

## 8. Plan

Done: the modules of section 2 and the proofs of section 6.

Theorems to add, in this order:

1. `ResumedRowsHoldMirror` for `EngineRestart`, from `MirrorInv` and the container.
2. `RecordMatchesRows` for `Generation`, once it no longer reaches `Tokenizer`.
3. `PoolIsResident` for `GraphRun`.
4. `DownloadIsWhole` for `Download` at any listing and size.
