# IntentIR: a verification project

IntentIR lifts GPU kernels (Triton, TileLang, CUDA) to a small IR of intents, with
the help of an LLM, checks the result against the kernel's certificate and against
source execution, and lowers it to CUDA and RVV. This directory models the parts
of the system that decide whether the result can be trusted: the pipelines and
drivers, where state, order and failure matter, and the generated code, where the
interleaving of threads and the index arithmetic do. TLC checks the models on small
instances; TLAPS proves the safety properties of the state machines.

## 1. Inventory

### Triton lifting pipeline (`pipeline/triton/core.py`, `pipeline/triton/execution_policy.py`)

*State.* The seed file of a kernel in the run directory, a shared copy of it in the
seed cache, and the locals of the run: the candidate (`cand`), its macro expansion
(`cand_expanded`), the intent that is executed (`cand_for_run`), the verdicts in the
report, and the flags that say where the candidate came from.
*Operations.* `run_pipeline_for_spec`: policy, launch, certificate, contract, then a
candidate from the shared seed, a trusted seed, the provider, a special case, the LLM
or a fallback; static validation and one LLM repair; the diff against source execution
and one LLM repair; a provider's and a macro's replacement; stage C and the mutation
run; promotion to a seed; MLIR emission.
*Interactions.* Calls the LLM hub, the provider's hooks, the validators and the
interpreter; shares the seed cache with every other run.
*Hard.* Repairs assign `cand`, `cand_expanded` and `cand_for_run` one after the other
inside a `try` that swallows every exception; the promotion gate reads verdicts that
some repairs do not renew; seed files are rewritten in place; a run copies whatever
seed it finds.
*Correct when* a trusted seed holds an intent that itself passed, a verdict is about
the intent the run goes on with, a replay makes no LLM call, a fallback is never
promoted, and every run ends.

### TileLang and CUDA lifting pipelines (`pipeline/tilelang/core.py`, `pipeline/cuda/core.py`)

*State.* As above, without seeds; in the output directory the arrays of a baseline run
and a record of the source they came from. *Operations.* One LLM proposal or a
hand-written intent, at most two repairs, for CUDA a deterministic intent as a safety
net, then stage C and the emission. *Hard.* The baseline and its record are two writes;
the TileLang runtime may give way to numpy in the middle of a comparison; repairs
swallow every exception. *Correct when* a passing diff is of the intent emitted, the
reference is the one the report names, and a reused baseline is of the present source.

### LLM client and hub (`intent_ir/llm/llm_client.py`, `intent_ir/llm/llm_hub.py`)

*State.* The response files on disk, and per process the disabled models with their
deadlines and the streaks of server errors.
*Operations.* `chat_completion` looks a prompt up on disk, then asks the configured
models in turn, retrying transient errors with a bounded number of attempts and a
bounded sleep. `LLMIntentHub.lift` walks the models twice, parses each response,
deletes a bad one that came from disk and asks again, cools models down, disables the
ones out of quota.
*Hard.* Timeouts, throttling with a Retry-After, server errors, exhausted quotas; a
bad or torn response on disk; a process killed in the middle of a write.
*Correct when* retries and sleeps stay within their bounds, every configured model gets
its chance, a disabled model is not asked, nothing is paid for twice, and every call
and lift ends.

### Coverage driver (`scripts/flaggems/run_coverage_batches.py`, with `run_multibackend_matrix.py` and `aggregate_coverage_batches.py`)

*State.* Per family, and per chunk of a family, a directory with
`status_converged.json` and `run_summary.json`.
*Operations.* For each family: skip it if an earlier invocation finished it, else run
the matrix for each chunk not finished, merge the chunks into the family's two files;
at the end, over the full scope, aggregate.
*Hard.* Invocations are killed and resumed; the two files are separate writes; a family
of one chunk shares its directory with the chunk.
*Correct when* exit code 0 is backed by the status files, the two files of a family
agree, and repeating a failed invocation makes progress.

### CUDA smoke driver (`scripts/cuda_backend_smoke.py`)

*State.* A worker process per stage (compile, launch) with a queue each way and the settings
it was started with, the number of the task, the reasons of the kernels done. *Operations.* For each kernel, ask the
compile worker, then the launch worker; stop one that is late or broken; probe once more
after a timeout. *Hard.* A late answer, a worker that dies without a word, a CUDA context
broken for good. *Correct when* no kernel's reason stems from another, and the run ends.

### Generated code

*Emitted CUDA kernels* (`intent_ir/mlir/passes/lower_intent_to_cuda_gpu_kernel.py`): for
each kind of kernel, text with `gpu.barrier`s and `gpu.shuffle`s over cells shared by the
threads of a block, or one thread per element and index arithmetic. *RVV loop nests*
(`lower_intent_to_rvv_cpu_kernel.py`): one thread through the rows. *C++ plugin*
(`IntentIRPasses.cpp`): `CudaFull196Emitter`, which emits one CUDA kernel for a whole
intent, and lowerings made for one kind of intent each, among them matrix products with
asynchronous copies and attention with warps that divide the work. *RVV C runtime*
(`intentir_ops.c`): vector loops shared out over an OpenMP team.
*Hard.* A barrier too few where a buffer is used again; warps that skip a body with
barriers in it; sizes that are no multiple of the block; operands found by their shape.
*Correct when* there is no data race, the result does not depend on the schedule, the
block ends, and the output is what the reference interpreter computes for the intent.

### Intents and references

The FlagGems provider, the TileLang, the Triton and the CUDA pipelines come with
hand-written ("deterministic") intents, and with references that they are compared with:
torch and numpy functions, source kernels, snapshots. `verify/interpreter.py` executes an
intent, `verify/diff_runner.py` runs one on a case and compares. *Hard.* Names and roles
are matched by normalization, extents derived from arrays; axes, keepdims and broadcasts
must agree; padding lanes must not count. *Correct when* executing the intent gives what
the reference gives, for every input and not only those a test draws.

### The other components

| component | what it is | here |
|---|---|---|
| Obligations, contracts, static validation (`frontends/common`) | pure: certificate facts to obligations, to a level, to a verdict on an intent | what the pipelines see of it |
| CUDA extension build cache (`frontends/cuda/runtime.py`) | build directories and locks shared by processes; prunes old locks, removes partial directories | not modelled |
| Router and pass manager (`pipeline/mlir_backends`, `intent_ir/mlir/pass_manager.py`) | order of the passes, fall back from one stack to another | not modelled |
| Caches and policies (`pipeline/common`, `backends/common/cpp_build.py`) | files keyed by a digest, environment switches | not modelled |
| Case generation, metamorphic and mutation runs (`verify`) | inputs and counts | their verdicts are inputs of the pipelines' models |
| RVV remote suite, GPU performance script, status scripts (`scripts`) | independent measurements, reports from files | not modelled |
| Hand-written CUDA kernels (`backends/cuda/runtime/kernels`) | header library | not modelled |
| Frontends' parsers, JSON repair, IR classes | text and dictionaries | not modelled: no states to explore |

## 2. Plan

Done: the Triton pipeline with its policy and seed store and its abstract specification;
the LLM client and hub; the coverage driver; the TileLang and CUDA pipelines; the smoke
driver's workers; a machine for thread blocks and, on it, the emitted CUDA kernels, the
C++ plugin's, the RVV loop nests and the RVV runtime; the interpreter as their
reference; the intents of all frontends against their references. The safety invariants
and action properties of all state machines are proved.

Left, in the order of their worth:

1. That the kernels' programs meet the hypotheses of `BlockKernel_proofs` for every block
   size, shape by shape, beyond trees, shuffles and staged tiles.
2. `Contract`: obligations to contract levels to static verdicts; composes with
   `TritonPipeline` through `StaticOutcome`.
3. `SeedStore`: the FlagGems verification driver's copies of seeds around a run, sharing
   `CertifiedStore` as the abstract specification.
4. `ExtBuild`: processes building one CUDA extension; exclusion as the abstract
   specification.

## 3. Modules

The state machines:

| module | models |
|---|---|
| `ExecutionPolicy` | `execution_policy.py`: the policy of a run, from either kind of flags |
| `TritonPipeline` | `run_pipeline_for_spec` and the seeds of a kernel |
| `CertifiedStore` | the abstract specification of the seeds: only what agrees now is recorded |
| `LLMClient` | one `chat_completion`, repeated |
| `LLMHub` | the lifts of one process after another |
| `CoverageBatches` | invocations of the coverage driver, killed and resumed |
| `LiftPipelines` | runs of the TileLang and the CUDA pipeline in one directory |
| `StageWorkers` | a run of the smoke driver with its workers |
| `BlockKernel` | a thread block that runs a program of rounds |
| `..._proofs` | the theorems about each |
| `MC...` | the instances TLC runs |

The programs and operators:

| module | models |
|---|---|
| `KernelRounds`, `BlockShape` | what a round is; the sizes of a block |
| `ReductionKernels`, `SortScanKernels`, `TileKernels` | emitted CUDA kernels that reduce; that sort, scan or scatter; that stage tiles |
| `GatherKernels` | emitted CUDA kernels of one thread per element, the element-wise one included |
| `CpuKernels` | the RVV loop nests |
| `RvvOps` | `intentir_ops.c` |
| `Full196Ops` | `CudaFull196Emitter`, an operator per op |
| `PluginKernels`, `PluginTiles`, `PluginAttention` | the C++ plugin's special lowerings: norms and loop nests; matrix products and one-warp attention; attention of several warps |
| `InterpreterOps`, `InterpreterTensors` | the interpreter's ops, as the places they read |
| `DiffRunner` | the interpreter on whole intents over numbers; `run_diff` |
| `FlagGemsPointwise`, `FlagGemsRows`, `FlagGemsTensors` | 47, 33 and 48 FlagGems specs: intent, reference, outcome |
| `TileLangKernels`, `TritonKernels`, `CudaIntents` | 30 TileLang and 27 Triton kernels with their intents; 11 CUDA intents and 4 native kernels |
| `MCPlugin`, `MCPrograms`, `MCBlockKernel` | all programs as tables, and their instance |

`X_fault` (or `X_` with another word: `Promotable_undiffed`) is a faulty form of the
definition `X` that it stands before: what a plausible slip in that code would make of it.
No specification uses one; each exists to show that some property notices it. In
`PROJECT.json` the map names for a definition the lines it stands for; a helper that lies
within the lines of another definition of its module need not have an entry of its own.

**TritonPipeline.** One action per stage. `pc` is the stage; `cand`, `exp` and `run` are
`cand`, `cand_expanded` and `cand_for_run`. A candidate is the name of the place that
made it (`llm1`, `llm2`: the two attempts; `llm6`, `llm7`: the repairs of stages 6 and 7;
`seed`, `prefill`, `canonical`, `macro`, `tilelang`), which is all the properties tell
apart: a repair that stops between two assignments shows as two different names. What the
validators and the interpreter find is chosen freely, within what the contract allows.
A verdict carries, as history, the intent it was reached on, and a seed whether its intent
had passed. Between runs, and at any stage, the run may raise (`Raise`, at the stages with
calls no `try` protects) or be killed (`Kill`), tearing the file it was writing. A kernel is
what the deterministic sources know of it; a configuration is the policy and three
environment switches.

**CertifiedStore.** `agreed` is the intent that agrees with source execution, if there is
one at the moment; `Certify` records it, `Copy` copies a record, `Damage` loses one.
`TritonPipeline!Certified` maps a trusted seed to the intent in it and any other seed to
junk.

**LLMClient.** A call is the loop over candidates with its local counters and the limits its
caller passed; times are in half seconds, so that every wait in the code is an integer. What a
provider answers is chosen among the four transient errors, a refusal, a response and one that
is no JSON object.

**LLMHub.** A call of the client is one step. `disabled` is `disabled_models` with its
deadlines reduced to running, passed and infinite; `disk` is the response files, by prompt
and model. The second attempt's feedback makes its prompt another one. `Restart` is a new
process: it forgets health and keeps the disk.

**CoverageBatches.** A directory is a slot: 0 is the family's own, k the k-th chunk's, and the
only chunk of a family has slot 0. The summary of a slot is who last wrote an ok one; nothing
tells a summary that is missing, torn or not ok apart. A status file has, per op, no entry, an
entry short of `dual_pass`, or `dual_pass`. A chunk is the set of ops its kernels stand for. A
matrix run is two writes, with arbitrary entries for its ops: the driver always passes
`--kernel`, which scopes the status file to them. The aggregate is on, as by default.

**LiftPipelines.** One action per stage again, for the two frontends where they differ.
`version` is the text of the kernel's source, which may be edited between runs, to a text it
never had before; `npz` and `meta` say of which text the two baseline files are. A verdict
carries the intent it is about and the references it was compared with. The safety net sets the
verdict a few lines before the intent; only `to_json_dict` of the intent stands between, which
does not raise on an intent that was executed, and the two are one step.

**StageWorkers.** `nature` is what each kernel does in each stage (answer, differ, raise, break
the context, hang, take the process down) and whether its report has an MLIR module, chosen at the
start. A worker is its two queues, whether it serves, hangs or is dead, and whether it was started
to require MLIR artifacts (`mlir`), the one setting that differs between calls: the probe after a
timeout always requires them, so that workers of a run without `--require-mlir-artifacts` are
replaced before it and after it (`Reused`). The driver's step of asking, its waiting, timing out,
stopping and probing are actions, and so is the worker's work. Processes are killed from
outside at most `MaxKills` times.

**BlockKernel.** Threads go through rounds: read cells into registers, write cells, wait at the
barrier. What they read and write is data, `Program[k]`. A "thread" is a CUDA thread, or a warp
where the kernel exchanges values within a warp by shuffles only. A cell holds the bag of the
contributions that went into it (or, for sorts and arg-minima, the item), so that a lost, a
doubled and a foreign contribution show. `LockStep[k]` is the run in which all threads of a
round read and then all write; `LockStepAssumption` says it is one, and TLC evaluates that.
A kernel of one thread per element is a program of one round per block of its launch: cells are
output elements, contributions the input elements read, named with their places. An RVV
loop nest is a program of one thread; a call of the C runtime one of an OpenMP team, a strip of
vector lanes at a time.

**Intents.** `DiffRunner` executes an intent, a list of ops, on arrays whose elements are
residues modulo a prime (97): two expressions that are equal as rational functions give the same
residues, and two that are not differ for most draws. Transcendental functions are arbitrary
fixed maps of residues; comparisons and casts work on small integers. A kernel's output is then
compared with the intent's: `FlagGems...!Verdicts` and their like say for every spec what
`run_diff` returns in each case, and enter `MCPrograms` as programs of one round that write the
outcomes, each of which must be `ok`.
A case that gives one-element inputs has them bound by name and injected as `run_diff` does. Four
TileLang kernels are compared again on frozen inputs, as the base case of `run_metamorphic_suite`
compares them. In every instance an input the intent lacks is in the reference too, so that the
injection takes it from there; the relations of the suite are not modelled.
What torch, FlagGems and numpy do is external, and written from their documentation.

## 4. Runs

Those that pass:

| run | question | instance |
|---|---|---|
| `runs` | do proposals, repairs, promotion, verification, replay and emission rest on agreement, whatever raises or is killed? do runs end? | one directory and the cache, seven kinds of kernel, eight configurations in and outside `INTENTIR_STRICT_LLM_ONLY` |
| `sharing` | do runs over a shared cache replay only what agreed? do they implement `CertifiedStore`? | two directories (symmetric) and the cache, three configurations |
| `call` | do the client's bounds hold, is every model asked, do calls end? | three models, one without key; limits of 4 attempts and 180 s (the hub's), 0 and 20 s, 2 and -1 s; Retry-After 0, 7, 15, 60, 120 |
| `lifts` | is nothing paid twice and no disabled model asked? do lifts end with every model disabled? | two models, two prompts |
| `full` | is exit code 0 backed by the files? | two families, the whole scope in either order or a part of it, chunks re-cut between invocations, all options, one kill |
| `retry` | do the two files of a family agree? does repeating an invocation get to exit code 0? | two scopes, resumed, two kills |
| `frontends` | is a passing diff of the intent emitted, its reference the one named, the baseline of the present source? | all configurations of both pipelines, two edits |
| `workers` | is every kernel's reason its own, every wait for a live task? does the run end? | two kernels with all conducts, with and without persistent workers, timeouts, probes, required artifacts; one kill |
| `kernels` | no data race, reads and results independent of the schedule, the output right, the block ends? | all programs, on four threads or three warps (one core, a team of threads) |

Those that are violated show where the code does not do what its text says:

| run | property | the disagreement |
|---|---|---|
| `static` | `TrustedSeedChecked` | a stage-7 repair is promoted on the static verdict of the intent it replaced |
| `family_record` | `FamiliesMaterialized` | the matrix's summary of an only chunk passes for the family's |
| `race` | `TakesWhole` | kernels that reduce twice in the same cells have no barrier between reading the first result and storing the second's parts: a slow warp reads a partial sum as the row's maximum |

`race` has ten emitted kernels of that shape; flash attention v7 of the C++ plugin
(`IntentIRPasses.cpp:4731`, `4739`, against the comment at `4707`) is another.

Runs of the pipelines, calls, lifts and invocations repeat without limit in every one of
them: the state space is finite because each starts from its initial locals and only files
and health survive. Two directories, two models, two prompts, two chunks, two kernels are the
least that interact; a seed passes from run to cache to run within `sharing`. The bounds are:

- `MaxStreak` (`lifts`), the longest streak of server errors, equal to the threshold of 1 that
  cools a model down; `lifts` has model fallback on: with it off no model cools down.
- `MaxKills`: in `full` a kill; in `retry` a kill, and the kill of its recovery; in `workers`
  one, in any state of any worker.
- `MaxEdits` 2 (`frontends`): a baseline of the text before last, and of the last.
- five Retry-After values: zero, below, at and above the cap of 60 s.
- `Levels`, `Elems`, `Warps` (`kernels`): 2 ^ 2 threads for 256, 3 warps, rows of 5 elements, so
  that a thread has two elements, one, or none of a shorter row, and a tree two levels.
  Warps of the plugin have 4 lanes for 32 and its blocks 2 warps for 8; fragments are of 2 for 16,
  vectors 2 for 4, tiles 2 for 32 lanes, heads of 2 for 64, two output warps.
- `Lanes` 2, `Large` 8, `Panel` 2, `Addressable` 8 stand for the vector length, the sizes from
  which loops are shared out (4096 or 16384), the panel of 32 and 2^30. RVV rows are at most
  `Lanes` long, or a multiple of it, where an op would make use of the lanes behind the row.
- extents of the intents' instances are 1 to 3, of CPU kernels 2 by 3 by 2; windows of pools and
  convolutions those of the specs; tiles of source kernels 2 for 32 to 256. i32 counts in 8 bits
  and f32 in halves where overflow and rounding are told apart.

The kinds of kernel in `runs` are the facts about a kernel the code branches on; the
configurations cover each switch both ways. Programs whose course depends on their input (sorts,
searches, scatters) appear once for every input of values 0 and 1.

`RetryConverges` makes one exception, `Stuck`: a family of one chunk whose status file was torn
after the matrix wrote an ok summary is skipped by every resumed invocation, and the aggregate
cannot read it: repeating the command never succeeds. `EvidenceHolds` has one condition: an
invocation over a part of the scope that resumes only asks whether a family's files are there,
so its exit code 0 says nothing of what is in them.

**Fairness.** `RunEnds` (pipeline), `CallEnds` and `LiftEnds` assume weak fairness of the
component's own steps: each is one thread that waits for nothing but calls, and calls return (HTTP
timeouts, launch timeouts). Kills, restarts and new runs are not fair. `RunEnds` of the smoke
driver assumes weak fairness of the driver and of workers that serve, and holds when every stage
that may hang or lose its worker has a timeout above 0. `EveryThreadEnds` assumes weak fairness of
each thread: the warps of a resident block are all scheduled. `RetryConverges` assumes that somebody
invokes the driver again until it exits with 0, that a chunk which is run for ever succeeds at
some time (strong fairness per chunk: a family with a failing kernel does not converge, nor
should it), and `OkMeansDual`: a matrix run that says ok has `dual_pass` for each op. The last is
an assumption on the matrix: with `--allow-cuda-skip` it need not be so, and then the chunk is
never run again.

### Known disagreements

Met while modelling; none has a run. The instances keep to where code and reference agree.

*Pipelines and drivers.* `force_llm` makes no LLM call when the descriptor determines the intent
(`SpecialCandidate`, against the docstring at `pipeline/triton/core.py:3342`). `force_cache`
without a seed raises under the deterministic fallback policy too (`ReplaySeed`, against
`core.py:3333`). A stage-6 repair that raises after `cand =` leaves the diff on the old expansion
while MLIR is emitted from the new candidate (`core.py:3925`, `4646`). A Retry-After beyond the
cap is not waited for (`Wait`, against the comment at `llm_client.py:268`). A proposal got by
refetching does not reset the streak of errors, one from disk does (`llm_hub.py:1509`). A cached
response without a JSON block is given up on and kept. TileLang: with an out-of-scope contract a
diff is against numpy while the report names the runtime; a repair after the diff does not renew
the static verdict; when the safety net's diff fails the report is about the fallback though the
LLM's intent is emitted. CUDA: a source brought back to an earlier text after a kill between the
baseline and its record reuses a stale baseline (edits in the model are always new texts).

*Emitted CUDA kernels.* `sdpa_bhsd_v2` has one thread per head dimension, 32 of them, and
accepts up to 256 (25393, 25401). `warp` subtracts in i8 and does not clip the right index, like
`kernels/triton/ops/ai_bench_warp.py:38`; interpreter and RVV kernel do (offsets in the instance
are non-negative). Element-wise: `div` of integers truncates; `lt`, `le`, `gt`, `ge` of two i1
compare signed; a vector operand with M = N is read per column; negative gather indices are not
wrapped; i32 `max` and `min` raise. `rope_dual` reads sin where cos is, although the matcher
allows another width or batch. `row_masked_softmax` fails its own assertion of buffer sizes
(13711), so it cannot be launched.

*RVV.* A rank-1 operand is indexed by column whenever its length is N; integer `max` and `min`
are unsigned, `div` signed division; `_dtype` maps bool to i8, so casts normalize to 0 and 1;
`matmul2d` takes its operands by shape, in tensor order. In `intentir_ops.c` reductions use
agnostic tails, gather's vector path reads indices as unsigned, casts to u8 give 0 and 1,
`broadcast_in_dim` with decreasing dims permutes where the interpreter reshapes, `warp` gives 0
outside the row, dropout with p at most 0 returns its input.

*C++ plugin.* An unstable `sort` of duplicates leaves 0.0 behind; `quantile` of one element at
q = 1 gives 0; `std` with keepdims reads index 0 of other axes; `broadcast_in_dim` indexes an
extent-1 axis with the output's coordinate; `pad`, `concat`, `stack` and the scatters load before
they select; right shifts are logical; `abs` and `remainder` of integers go through f32; a reduce
axis out of range returns the accumulator; `reduce_any` ignores its combine function; pools'
default stride is 1; negative scatter indices are not wrapped and targets not clamped; `nll`'s
mean of weight zero is 0. Special lowerings take arguments in alphabetical order: an unnamed layer
norm's weight is the first vector (769), an epilogue with M = N takes the first mask as the row's
(2687). The tail of direct KV loads reads past V (4686). `attn_fwd` ignores its mask.

*Intents and sources.* Outside the instances: `isclose` of infinities, the order of `clamp`'s
bounds, `celu` and `elu` without alpha, `angle` of -0 and NaN, `logical_or` by maximum. Intents of
pools and convolutions fix window, stride and padding, attention fixes `is_causal`,
`slice_scatter` its end, `select_scatter` its index, which a case may set. TileLang's
`any_kernel_dim` asks whether the maximum is not 0; its `attn_fwd` has no common shape for grouped
heads. In Triton's `layer_norm_residual2d` the lanes behind the row enter the variance for N no
power of two; `group_norm_kernel` masks channels by C, so groups whose size is no power of two
mix; `layer_norm_persistent` has one tile of 1024 for any N. CUDA's fallback intent for `transpose2d`
(`core.py:650`) names its attribute `permutation`, which the interpreter does not accept. Numpy
references draw equal arrays for equal shapes; the model draws different ones.

## 5. Proofs

All are for every value of the constants, under the assumptions the modules name, which TLC
evaluates in the runs. Every safety invariant and action property of a passing run is stated by a
theorem; obligations are counted per module.

**The pipeline** (`TritonPipeline_proofs`, 926). `TypeCorrect` first. Then `IInv`, which adds to the
properties what a run knows at each stage: verdicts come in order (`VerdictsInOrder`); only a run
that failed static validation can hold two intents (`SplitFailed`); a passing diff is about
`cand_for_run` and that is the expansion held (`AgreedRun`); local results that pass are in the
report (`ResultsReported`); a passing static verdict had a certificate in scope and is about the
intent held, unless stage 7 replaced it (`CheckedIntent`). It is needed because `TrustedSeedAgreed`
speaks of files while promotion looks at verdicts: the step that saves a seed needs that a run
whose two verdicts pass holds one intent in all three variables, which is `SplitFailed` together
with `AgreedRun`. `Inductive` proves `IInv`; `SeedsAgree`, `SeedsChecked`, `DiffIsOfRun`,
`VerificationJustified`, `EmissionAccepted` and `PromotesInScope` follow.

`ReplayAsksNobody` and `FallbackIsFinal` rest on a second invariant, `CandidateSources`: no LLM is
asked before the seed was looked at; a run that replayed or fell back holds a candidate, and only
runs without one come to the LLM; `repairAllowed` excludes both. The flags alone are not inductive:
that a replay makes no call later is a matter of which stages come after it. `AutoReplaysProved`
adds what trusted seeds hold, from `IInv`.

`RunsCertify` is the refinement: the runs implement `CertifiedStore`. `StoreSteps` says what a step
does to the seeds and to the intent that agrees: it promotes the intent that agrees, copies a seed,
tears one, or leaves them all; `AbstractStep` maps each to `Certify`, `Copy`, `Damage` or a
stutter. It needs `IInv` (what is promoted is what agrees), `SeedsNamed` (a trusted seed holds an
intent, so that no seed maps to both an intent and junk) and `DirAssumption`: the cache is not one
of the run directories.

**The hub** (`LLMHub_proofs`, 649). `OneRequestPerModel` is not inductive: that a refetch pays a
second time is excluded because only responses from disk are refetched, and reading from disk
pays nothing. The invariant says that the models ahead of the current one are unpaid in this
attempt, that the current one is unpaid until its request, and that a response in hand that came
from disk leaves it so; `DisabledNotAsked`, an action property, needs besides that the model being
asked is enabled until the attempt leaves it. Candidates are distinct by `HubAssumption`.

**The client** (`LLMClient_proofs`, 191). The limits, the cap and the Retry-After values are any
integers, as they come from callers, the environment and providers. `SleepWithinBudget` needs that
every wait is a natural number (`WaitType`: the code raises it to at least a second) and that the
sleep before it was tested; `RequestsBounded` and `AllTriedBeforeRaise` need `Counted`: the
candidates behind the current one have been asked, the current one once per attempt, those ahead
not yet.

**The coverage driver** (`CoverageBatches_proofs`, 572). `ExitIsBacked` proves `EvidenceHolds` for any
families, command lines, cuts into chunks and numbers of kills. What makes it inductive: an
invocation that takes nothing over has proven every family it left behind as ok (`Backed`), save
one that stands in the list again and is being worked on, whose files may be out of date until it is
merged; and the record it is about to write is of a proven family (`RecordBacked`), since
`Materialize` and `Record` are two steps. Evidence stays because a step writes only the directories of
the family at hand (`StatusWrites`, `EvidenceStays`), and chunks of a split family have slots of their own. Over
the whole scope the aggregate looks again, so nothing is needed of what was resumed.
`RecordsBacked` proves `RecordsAgree` under `Resuming`: every invocation resumes and demands
`dual_pass`, as the run `retry` has it. Without it the property is false: an invocation that does not
resume rewrites the status beside an old record. Then a family is worked on only while it has no
record (`Unrecorded`), so what its chunks write contradicts none.

**The TileLang and CUDA pipelines** (`LiftPipelines_proofs`, 832). `IInv` is four parts. `Typed`, which
counts LLM calls by stage, as a bound on them follows from where a run is. `Compared`: a passing diff
is of the intent that would be executed, repairs run on a failed one, and only a finished run has
emitted; this gives `DiffIsOfEmitted`. `Named`: before anything was compared no reference was used,
and once numpy was, in scope, the runtime is given up and `baseline_source` says so; the report is
written later than both, hence the stages in it (`ReferenceNamed`). `OnDisk`: the record is never of a later text than the arrays,
because it is written second; without that order a kill between the two writes would make a stale
baseline look current (`BaselineCurrent`).

**The smoke driver** (`StageWorkers_proofs`, 583). A worker the driver waits for is `InHand`: it was
started with the settings its task needs, the task is in its inbox, or it is dead or hung in that very task, or its answer is in the outbox, and nothing
else is; one it does not wait for is `Idle`, with empty queues and an intact context.
`WorkersAttend` and `ReasonsOwned` follow: an answer read is to the task asked, given in a context
no other kernel broke and under no other kernel's settings: a worker of a probe, which requires the
artifacts, is not reused for the next kernel.

**Thread blocks** (`BlockKernel_proofs`, 751). `TypeCorrect` holds for any program, and so does the
lemma `NobodyOvertakes`, that no thread is a round ahead of one that has not arrived: this is what
the barrier is for, and says nothing of the kernels. `RaceFree` says of a program that within a
round no thread writes a cell another reads or writes. From it, `RaceFreedom`: no interleaving has a
data race, since threads within reach of each other are in the same round; and `InterleavingsAgree`:
every thread reads what it reads in lock step. The invariant, `Agreement`, says of each cell what it holds:
the lock-step value of this round if its writer in the round has stored, of the last otherwise.
`ResultsAreWhole` and `OutputIsLeft` carry a check of the lock-step run over to all
interleavings. `RaceFree` and the two conditions on lock step are about the program alone.
`KernelsRaceFree` shows the first for emitted kernels, whatever the width of the block, the length of the
row and the number of warps: the reductions in a tree over one field, the reductions by shuffles, and the
products and attention that stage tiles in one buffer or in two that alternate; `KernelsAgree` is what
follows. `ReusedCellsRace` shows that kernels like those of `race` do not meet it at any size. The
proofs use `StrideAssumption`, arithmetic of powers of two, which TLC evaluates. For the
other emitted kernels (two fields in one tree, sorting, scans, gathers) races are only model-checked.

**Only model-checked.** Liveness is out of the prover's reach: `RunEnds` (both), `CallEnds`,
`LiftEnds`, `RetryConverges`, `EveryThreadEnds`. So is what the programs compute, over data: that
lock-step runs take wholes and leave the outputs, and that intents agree with references, is
checked on the instances of `kernels`.

## 6. What is not modelled

*Text and numbers.* Prompts, JSON repair, MLIR and C as text. Floating-point rounding: sums are
bags, `exp` by `exp2` and fast `tanh` are their functions. Online softmax needs
exp(a + b) = exp(a) exp(b), which residues do not have: the kernels with it (flash attention of
Triton and TileLang, `_attn_fwd`, softmax over more than 1024 columns) are not modelled as sources;
the emitted ones are, as bags.

*State machines.* In the pipelines, the certificate's derivation is reduced to a level; the
hand-written intents to their presence. In the client, the lookup of keys and the request formats. In
the hub, cooldown times (they may pass at any moment). In the coverage driver, progress files and
logs, `--dry-run`, `--no-aggregate`, the matrix's stages before converge, and children that survive a
killed driver. In the smoke driver, exceptions whose message says "timeout", payloads larger than a
pipe, torn queue messages, waiting at exit for processes that ignore SIGTERM. Two runs that share a
run directory at the same time are not modelled; runs in different directories interleave as whole
runs.

*Emitted CUDA kernels.* The matchers that choose a kernel; `fused_linear_jsd`,
`per_token_group_quant_fp8`, the bicubic resize, `layer_norm_axis1_v2` (it delegates), `index_add`,
`scatter2d` with duplicate indices, `row_masked_softmax`, single-warp attention without barriers
(23224–23713, 23977–24280, 26262–26787, 27422–27692), the scalars `logspace1d` takes from lane 0.
*RVV.* The bicubic resize, the bf16 normalization, element-wise `const`, `identity`, `broadcast` and
`iota`; the comparison code of `intentir_ops.c` that the vector build cannot reach;
`intentir_driver.c` and `intentir_runtime.c`. *C++ plugin.* `const`, bitwise ops, transcendental
unaries and `pow`, bicubic, the parsing of attributes, the composition of producers through
`emitScalar`, transposed B tiles of matrix products, asynchronous copies into the padding, and the lowerings and passes that
follow at 9587. *Intents.* Specs whose intent the LLM makes, bicubic specs, `ai_bench` kernels, the
loading of CUDA snapshots, their input generation and launch expressions
(`pipeline/cuda/core.py` 226–385, 1069–1141).
