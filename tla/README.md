# Sergent: a verification project

TLA+ specifications of the Sergent framework (`sergent-rs-core`, `sergent-rs-runtime`,
`sergent-rs-providers`), TLC runs that check them on small instances, and TLAPS proofs of the
properties that matter most, for every value of the constants. Everything is translated from
the Rust source; the documents under `sergent/docs` are used for what the code *promises*,
never for what it *does*.

## The system

An application hands Sergent a request about a *Scene*. One *Run* processes the input, obtains
an *Intent* (by a recipe callback or a model call), obtains an *ExecutionPlan* (a model call),
validates it, compiles it to a *Patch*, rehearses the Patch on a copy, and commits it, either
to a plain Scene it owns or to a live Scene that other Runs and human edits share. On the way
it builds a *Run Record*, updates a progress snapshot, and tells observers.

| Component | State | Operations | Interacts by | Hard behaviour |
|---|---|---|---|---|
| Shared Scene authority (`scene_state.rs`, `commit/`, `sergent/scene_authority.rs`) | Scene, identity, mutex and its poison | snapshot, identity, try_edit, commit (exact, rebase) | one mutex; application callbacks under it | stale snapshots, lost updates, two-step installation, panics under the lock, the last revision |
| Cancellation token (`cancel.rs`, `model_invocation.rs`) | request time, `Notify` | cancel, is_cancelled, cancelled().await | atomic cell, wakers | lost wake-ups, racing cancellers, biased select |
| Run pipeline (`sergent/*.rs`) | the stage, the open step, the captured Scene | the stages, four checkpoints, the close | callbacks, awaits, progress mutex | cancellation at every point, failure of every callback, panics, coherence assertions |
| Run Record (`run_record.rs`, core `run_record/`) | steps, evidence, outcome | open, close, complete | owned by the Run | assertions that panic when a path does not fit them |
| Handle and progress (`handle.rs`, `progress/`) | the progress snapshot | progress, cancel, result | mutex; join of the task | what a poll may see in between |
| Observers (`observer/`) | the errors contained so far | on_progress, on_finished, slot by slot | calls from the Run | one slot's error beside the others, the Run's result and its evidence |
| Run Record file (`run_record_file/`) | lifecycle, acknowledged starts, the stream | record, close, drop | one guard; an observer of many Runs | partial writes, failures, crashes, repeated deliveries |
| Event values (`run_record_file/event.rs`) | a graph of arrays and objects behind shared handles | push, insert, allocate, drop; the walk of `into_json` | a mutex per container, reference counts | writes during the walk, sharing, cycles, an address given out again |
| Record encoding and names (`encoding.rs`, `finite*.rs`, `identity.rs`, core `timing`) | none | capture, replay, write a line; name a file | called by the writer | numbers JSON has not, keys, escapes, order, dates |
| Provider invocation (`sergent-rs-providers/src/client`) | the prepared request, attempts, timing | select, discover, preflight, attempt, close | HTTP, process environment, clock; dropped by the Run | retries, late and partial answers, a changing environment, evidence of the right attempt |
| Adapters, HTTP, credentials, selection | none | build, classify, collect, discover | called by the invocation | refusals beside a good status, bounds, precedence |
| Content type, image admission (`wire_request.rs`, core `request.rs`) | none | read a charset, admit a PNG | called by the invocation and by the host | a hand-written scanner; an overflow proved from a bounded beginning |
| Schema lowering (`lowering.rs`) | none | lower | on the schema the registry built | every depth, data that looks like a keyword, the original untouched |
| Operation registry, proposal schema (core `registry/`, `proposal/`) | the registered branches, the composed schema | register, build, decode | schema shown to models; decode called by the Run | definitions that collide, reference cycles, a schema weaker or stronger than what was written, a decoder that drifts from it |
| Clock, timing, identifiers, errors, vocabulary | none | | | |

What makes each part correct is listed, hazard by hazard, in `PROJECT.json` under `hazards`,
each at the line where it bites and with the properties that cover it.

## The modules

    SceneDomain ── SceneState ── MCSceneState        AtomicScene  (abstract)
                       └──────── SceneStateProofs
    CancelToken ── CancelTokenProofs
    RunPipeline ── RunPipelineProofs
    LogWriter ──── MCLogWriter                       AppendLog    (abstract)
        └───────── LogWriterProofs ───────────────── InductionProofs
    EventGraph ── MCEventGraph
        └──────── EventGraphProofs
    Adapters ── ProviderInvocation ── MCProviderInvocation
                       └──────────── ProviderInvocationProofs ── InductionProofs
    ProposalSchema ── PlanRegistry ── SchemaLowering ── MCPlanRegistry
    ContentType, ImagePart, RecordFileName ── TextBoundary ── MCBoundary ── RecordLine
                                                  └────────── BoundaryProofs ── InductionProofs

**SceneDomain** has the data that a commit depends on: a Scene as a set of items with the
identity it carries when ownership is embedded, Patches as sequences of Operations, and the pure
checks of `admissibility.rs` and `commit/safety.rs` (admissibility, dry-run, identity
transition, Operation identities).

**SceneState** is the live authority. Every locked scope of the code is a sequence of steps
between `Lock` and `Release`; every callback under the lock may panic, which poisons the mutex
and releases it. A Run captures Scene and identity, compiles and rehearses outside the lock, then
commits: exact when the identity is unchanged, refused as stale or consulted for a rebase when
it is not. An editor reads the revision and calls `try_edit`. Installation is the two
assignments of the code. Policy (strict, rebase) and ownership (external, embedded) are the four
constructors. **AtomicScene** is what that should amount to: one versioned Scene on which every
commit, edit and refusal happens at one instant. `RefinesAtomicScene` maps one to the other; an
installation takes effect at its first assignment.

**CancelToken** has `cancel_with`/`trip` as set-then-notify and `cancelled()` as check, arm,
recheck, wait, with tokio's `Notified` modelled by its documented contract: a future created
before `notify_waiters` is woken by it. Awaits race a provider in the biased select of
`invoke_model`. The request time is abstracted to the call that recorded it.

**RunPipeline** is one Run. `pc` names the point between two calls of the code; every action
is the stretch from one observable point to the next, with every early return. Each application
callback either fails, which closes the open step and ends the Run, or succeeds. A cancellation
may arrive at every point; the code looks for it at the four checkpoints and at every poll of a
provider await. `Escape` is a panic in foreign code, or the host dropping the future. Other
writers of the shared Scene advance its revision at any time. A commit is one step here, which
`SceneState` and its refinement justify. What core's `assert_run_record`,
`RunRecordCompletion::new` and `assert_result_stage` assert is stated as operators, and a
property says that no path trips them.

**LogWriter** is the Run Record file and the observers beside it. A Run delivers its start to
its observers slot by slot (`Observe` for one of the application, which is silent or returns an
error, a call of the writer otherwise), then its end, and contains the errors it is given in
order (`Contains`); the host records events and closes; the last owner's drop closes too. Each
write (of one or more pieces of a line), flush, sync and close is a step and may fail. A crash
of the process keeps at least what was flushed, a power loss at least what was synchronized.
The announcements between start and end reach the writer as well, which ignores them; they are
the progress that RunPipeline publishes. **AppendLog** is the promise: an append-only log of whole lines, a part of it durable, and a
moment after which nothing is added.

**EventGraph** is the value of a host's event. A container is its address; `born` counts how
often the address was given out, which the program never sees and the properties compare. The
threads push, insert, drop handles and allocate, each under the lock of one container and so
between any two steps of the walk. The walk is the recursion of `project_with` made explicit:
`path` is its stack, one frame per container it is inside of, with the members cloned when it
entered, those left to convert, and the place in the JSON value (`payload`) where they go; the
active set of addresses is read off the stack. A container is freed when nothing that lives has
it (`Freed`, the least set closed under reference counting), so what the walk has cloned stays
and an abandoned cycle leaks, as in the code. `held` is a history of what each container held
since the walk began.

**ContentType**, **ImagePart**, **RecordFileName** and **RecordLine** are decisions about data,
each next to a reference definition that says what should come out without saying how: the
grammar of the field against the scanner; the size and validity of the whole text against the
decode of a bounded beginning; the readings of a name against the hand-written calendar; a
parser of JSON lines and serde_json's own conversion against capture, replay and the writer of
sorted, compact ASCII. **TextBoundary** grows an input of the first three step by step and states
what must hold of it; **MCBoundary** adds the values of RecordLine, which is for TLC only.

**Adapters** has the pure decisions of the providers crate: which names select a provider, what
discovery makes of the variables it reads, the status tables, and what each of the four adapters
makes of the typed view of an envelope. Model text is a sequence of chunks of which only
`<<"head", "tail">>` is a JSON object, so that a lost, truncated or reordered part shows.

**ProviderInvocation** is one call of `LlmClient::invoke`: `Invoke` resolves the name,
`ReadFirst` and `Discover` read the configuration one variable at a time, `Preflight` probes
Ollama, `Build` prepares the one request, `Post` opens an attempt, `Respond`, `ReadChunk`,
`BodyCompletes` and the failures are its outcomes, and `AttemptEnds` records it and retries or
closes. `wire` is a history of what passed on the wire, which no action but the pending
exchange's reads back; the properties compare it with what the call recorded and returned. The
server is free in status, headers, chunk sizes, envelope and silence; whether a charset is
admitted and whether a length beyond the limit was advertised are choices of the server. The
timer runs from the post to the last byte, as reqwest's does. `SetEnv` is another thread of the
host, `Drop` the caller. Wall time is left out: it is written into evidence and never read.

**ProposalSchema** has the pure algorithms of `proposal/`: the normalizer's five conversions in
their order, escaped references, the dialect, and the three-state depth-first search for cycles.
A schema is a function from keywords to values, and names are sequences of characters, so that
the escaping of `~` and `/` is real. `Admits` says what a schema means, independently of all of
these. An enumeration keeps the order of its values, since definitions that differ in it are
unequal to the code; a list of required fields need not, since the normalizer leaves it sorted. The
module uses RECURSIVE operators and is for TLC only.

**PlanRegistry** is the builder and what it builds: `Register` normalizes a type's emitted
schema, takes its nested definitions apart and injects the discriminator; `Build` merges the
definitions of all branches and has the envelope validated; `DecodeProposal` is the two-stage
decode with each of its refusals, first failing item first. A failed registration or build ends
it, as the code's builder is consumed. What the properties compare with is the type as it was
emitted, never the normalized one.

The second stage of a decode, `serde_json::from_value`, knows the Rust type and nothing of the
schema, so an Operation type has both, written side by side in MCPlanRegistry, with the names of
the keywords its author added. `Deserialized` reads a value by the Rust type as serde's derived
code does: a `u32` takes no integer beyond its range (`MachineIntegers`) and no number written
with a fraction; a bounded `Vec`, a `String` with an authored constant and a refined `Option` take
whatever their type does; a unit enum also reads `{"black": null}` and a nested struct also reads
an array of its fields. `DecodeFollowsSchema` says how far the two agree: a proposal that follows
the schema decodes into what it says unless it has a number outside the machine's integers, which
no emitted maximum excludes, and then the first such operation is refused; and what decodes, in
whichever form it came, is what the schema wants but for the author's refinements.

**SchemaLowering** is what Anthropic is sent of it: the keywords its facility does not accept
move into the description of their node, at every depth below the schema keywords and nowhere
else. It is compared, over every schema a registry builds, with what the lowered schema admits
and with the original taken apart node by node.

In every module an operator whose comment calls it a *variant* is not part of the
specification: it is the same operation with a plausible mistake, used to show that a property
notices it (`mutants` in `PROJECT.json`).

## What the runs check

| Run | Instance | Shows |
|---|---|---|
| `scene_state` | two Runs, one edit, five Patch scripts (admissible, clashing, faulting, changed ids, empty), revisions 1 to 3 with 3 the last, all policies and ownerships | sound snapshots, embedded agreement, unique committed revisions, justified refusals, refinement of AtomicScene |
| `scene_state_live` | one Run, two edits | every call returns or unwinds, also behind a poisoned mutex |
| `cancel_token` | three cancel calls, two awaits | no lost wake-up, one request time, no provider started after a request, every await ends after a request |
| `run_pipeline` | all configurations, revisions 0 to 2, cancellation and escape at every point | no close panics, truthful call evidence, cancellation honoured, all-or-nothing commit, result and progress agree, progress only moves on, a request ends the Run |
| `run_pipeline_cancel` | the same | *violated*: see Findings |
| `log_writer` | two Runs (one with the writer in two slots, one with a failing observer before it), one event, one close, the drop, lines of two pieces | well-formed file, acknowledged lines kept, one start per Run, one failure reported, a Run whose evidence is missing from the file is told, refinement of AppendLog |
| `log_writer_live` | one Run with a silent observer, the writer and a failing one, one event, one close, the drop | every call returns |
| `event_graph` | one array and two objects under one key, three writes, before and during the walk | what is recorded is whole, refusals are justified, the walk ends |
| `boundary` | Content-Type fields of up to four symbols after each of six beginnings; image texts around limits of 8 to 10 bytes; identities of up to three characters, some 7700 days; a leaf in up to two constructors beside others | the scanner follows the grammar, the bounded decode decides like a full one, a file name tells its parts, a value survives its line |
| `provider_invocation` | all providers and names, every configuration of one key, seven statuses, three to five envelopes and a body that is none per provider, a limit of two units, a timeout of one tick | attempts are what passed on the wire, evidence of the closing exchange, only natural completions accepted, one destination and credential per call, the call ends |
| `plan_registry` | up to two branches of 22 Operation types, eleven in the authoring profile and eleven out of it; no, a zero and two positive maxima; machine integers of two bits; some fifty proposals | registries build exactly when they should and are sound, the schema means what was written, also after the lowering, decoder and schema agree but for numbers no machine integer holds |
| `plan_registry_restricted` | the same, and a type with an authored enumeration on an optional field | *violated*: see Findings |

**Bounds.** Two Runs and an edit are enough for every pairwise race on the authority and for a
third party in between; revisions that start two below the last give both room for two commits
and the refusal at the end. Three cancellers give a winner, a loser and one yet to come. A Run
never interacts with another one except through the shared Scene, so one Run and an arbitrary
other writer suffice for the pipeline; two revisions above the base tell "unchanged",
"advanced by me" and "advanced by others" apart. A line in two pieces is the shortest that can
be torn; two slots are the fewest that repeat a start. Three containers, three writes and one
key give every shape that matters to the walk: a container shared by two others, a cycle of one
and of two, a cycle tied or untied around the walk, and an address freed and given out again
while the walk goes on. In `boundary` four symbols close and reopen a quoted value and an
escape after a beginning that is already inside one; the image limits cover each remainder by
three, and texts end before, at and beyond the witness; the days (`MCInstants`) are all of the first four
years, the centuries of an era, of which one leaps and three do not, its end and the last
instant a timestamp can hold, and the calendar repeats from one era to the next; two
constructors nest each compound in each other one. What the theorems say of texts needs none of
these bounds. In a provider call one key suffices,
because a base URL that is set or not already tells two configurations apart; the statuses lie
on either side of every boundary of the status tables; a limit of two units with chunks of one
and two fits, exactly fills and exceeds it; with a timeout of one tick an answer comes within
its allowance or not. The retry budget is the code's own. Operation
types have one operand field, which takes every form the emitter produces (refined, optional,
constant, enumerated, referenced, described, nested, in arrays) and every form the profile
excludes; four machine integers stand for those of a `u32`, since a number below the range, one
in it and one beyond it are all that schema and decoder tell apart (other widths differ in the
ends of the range only); two branches are the fewest that can collide, and every property of a registry of more
is about pairs of them. `CHECK_DEADLOCK FALSE` is set everywhere but in `event_graph`, whose
end is a step of its own: Runs, edits and calls are one-shot, and end.

**Fairness.** SceneState: an actor that can step does (threads run, callbacks return or panic,
the mutex is granted to some waiter and every call holds it for a bounded number of steps).
CancelToken: a cancel call that began returns; a task that was woken is polled. Nothing is
assumed of the provider, of spurious polls, or that anybody begins anything. RunPipeline: the
task is polled while it has something to do; a provider may pend forever, because its poll leads
back to the parked await. LogWriter: I/O calls return, with success or failure.
EventGraph: only the recording thread runs (`WF_vars(Walk)`); the writers may stop anywhere.
`WalkEnds` needs their writes to be bounded (`MaxWrites`), and so does the code: a thread that
kept on adding a new container below the one the walk is about to enter would keep it going.
ProviderInvocation: the call computes when it is polled, the clock moves on and the timer fires;
nothing is assumed of the server, the environment or the caller.

## What is proved

All theorems are checked by TLAPS without assumptions beyond the named `ASSUME`s on constants.
The type invariants are part of these proofs, and no run repeats them.

* **SceneStateProofs**: `TypeOK`, `SnapshotSound`, `EmbeddedAgreement`,
  `CommittedRevisionsUnique`, `RefusalsJustified` and `RefinesAtomicScene`, for any finite or
  infinite sets of Runs, editors and items and any revision bound. The inductive invariant adds
  what each step between a snapshot and an install has established and no interleaving can take
  back: the dry-run's result is legal on the Run's own snapshot; whoever is consulted on a rebase
  has a next revision; a candidate follows the current identity and is legal on the Scene it
  replaces. Without those, an exact commit on an identity comparison alone would not be known to
  be legal on the live Scene.
* **CancelTokenProofs**: `TypeOK`, `NoLostWakeup`, `OneRequestTime`, `TrippedNeverInvokes`, for
  any sets of cancellers and awaits. The invariant says that only the winner of the race ever
  notifies, and that an await past its recheck armed before any notification.
* **RunPipelineProofs**: `TypeOK`, `ClosingNeverPanics`, `AllOrNothing`,
  `CancellationHonoured`, `CallEvidenceTruthful`, `ResultMatchesProgress` and the action property
  `ProgressMovesOn`, for any revision bound. The invariant says point by point how many steps are
  closed and which one is open; that before an ending every closed step is a success in its place;
  what an ending seals; how far a Run can still get after a request, by where the request landed;
  and which evidence an open step can have.
* **LogWriterProofs**: `FileWellFormed`, `AcknowledgedKept`, `OneStartPerRun`,
  `OneFailureReported`, `MissingEvidenceTold` and the refinement of AppendLog, for any Runs and
  slots, any number of host events and closes, and lines of any number of pieces. The guard
  excludes (`Control`), so that while a call persists its line the end of the file is exactly the
  pieces it has written so far (`InProgress`), and nothing of a line is there before its call
  (`NothingAhead`). That alone makes the file well formed; it is not enough for the promises. What
  a caller was told, or the writer remembers, is tied to a place in the file below what storage
  holds, which no crash cuts (`ReturnedStored`, `AcknowledgedStored`). For a Run's evidence, calls
  and errors are counted: at every moment a Run has as many errors of a kind as its calls of the
  writer did not return success (`EvidenceCounted`). In the refinement a piece of a line maps to a stutter until
  it completes the line; that completing a line appends it to the lines of the file, and a crash
  cuts them, is by induction over the pieces.
* **EventGraphProofs**: `RefusalJustified` and `RecordedIsWhole`, for any finite sets of addresses
  and keys and any number of writes at any moment. The first
  needs that the walk went down over the clones it holds, so that everything it is inside of is
  alive and no address on its stack has been given out again: only then is an equal address the
  same container. The second adds, for the stack, that the places of its frames are the
  beginnings of the last one and no container is on it twice, and, for the value so far, that
  every member of every node is where it belongs or still left in the frame of that node; when
  the walk leaves the first frame nothing is left.
* **ProviderInvocationProofs**: `AttemptsMatchWire`, `EvidenceOfClosingExchange`,
  `AcceptedIsNatural` and `OneRequest`, for any keys, statuses and envelopes of the types the
  adapters read, with parts, candidates and choices of any number, any limit on a body and any
  timeout. None of the four is inductive. The invariant counts the exchanges by the rows and the
  point of the call (`Counted`), says that only the last exchange is open (`OnlyLastOpen`), what
  that one has of a response (`Progress`), and which await accounts for the time (`Timed`: the
  spans of the rows fit end to end into the time up to the pending request). Each of the ways an
  attempt can end (no answer, a refusal, a charset, too much of a body, a broken or a whole body)
  is of one form, `Ends`: it closes the pending exchange and appends the row this exchange
  deserves, and the rest follows from the form. That the caller's proposal is the whole text rests
  on lemmas about the adapters: what is collected of the parts of an envelope is one object exactly
  if there is one head, one tail after it, and no other text among them. `NothingAssumption` and
  `EvidenceAssumption` say that the absent value is none of the values it stands in for, as an
  `Option` guarantees.

* **BoundaryProofs**: `CharsetDecidedByGrammar`, `ImageDecidedByBeginning` and
  `NameTellsItsParts`, for texts of any length, limits of any size and every instant from the
  epoch on. The state adds nothing here: a behaviour only makes its text longer, `TextTyped` says
  of which type it stays, and each decision is a theorem about every text of that type.
  - `CharsetDecides`, in both directions. A field that the scanner admits is cut where its
    parameters start, and each of them reads (`ScannerCuts`). A field that the grammar admits is
    cut where the scanner finds its boundaries: the scan runs over a parameter that reads without
    a stop, and is outside of quotes at its end (`ParsedWhole`, `ParameterEnds`), so by induction
    each cut is the next boundary (`GrammarCuts`). And a parameter reads in one way at most: which
    backslashes of a quoted string are escapes, and which quote closes it, is determined from the
    left (`QuotedIs`), so the logical value that the code compares is the one the grammar has.
  - `PngDecides`: a text with a base64 beginning that is too large has one that ends with the
    witness (`OverflowAtWitness`), so decoding just that much finds every excess; a witness that
    ends within a wide character holds the first half of it, which is no base64.
  - `CalendarDecides`: a day is taken apart into era, year of the era and day of the year; that
    `YearOfEra` is the year whose days enclose the day rests on bounds of the four quotients,
    the months from March on follow the code's linear formula, and the reference count of days,
    which starts its years in January, adds up the same. Hence `InstantOf` undoes `UtcParts`.
  - `NamesDecided`: an admitted identity holds no `+`, so the name has one place to be divided.

**InductionProofs** has what the last of these share: a set of natural numbers with 0 and the
successor of each element has all of them, and a recursion whose steps stay in a set of states
defines a function (`RecursionDefines`), without which nothing is known of a recursive function's
values. With them, facts about `LinesOf`, `ChunksOf`, the scan, the octets, the calendar and the
library's `FlattenSeq` are proved by induction over data; the library's own induction theorems
take an operator as a parameter, which no installed prover can instantiate.

**Only model-checked**: the liveness properties, which are out of the prover's reach
(`EveryCallReturns` and the like); the properties of PlanRegistry and SchemaLowering, and
`ValueSurvivesTheLine`, which MCBoundary states of RecordLine, because these define their
algorithms with RECURSIVE operators over trees, which the prover does not read.

## Findings

`run_pipeline_cancel`: `sergent/docs/execution-model.md:289-292` says that a cancellation that
reaches the runtime before the commit boundary gives a result with status `cancelled`. The code
looks at the token only at four checkpoints and at provider awaits. A request that lands between
them ends as whatever comes first: an ordinary failure (no target, a failing callback, a
refused plan) or the success of a Stop Intent. TLC's trace is a request right after the Scene
identity was bound, in a Run that then finds no target. What the code does guarantee is
`CancellationHonoured`, which is proved.

`plan_registry_restricted`: `sergent/docs/framework.md:340-341` says of the schema derivation
that it "never weakens, repairs, or silently accepts the input". `rewrite_nullable` splits a
nullable type into a non-null branch with all constraints and a null branch with none. Where
the author's `enum` or `const` leaves null out, the emitted schema excludes null and the derived
one admits it. Only an authored refinement is affected, serde accepts null for such a field, and
what every other type of the profile means is preserved exactly, which is `SchemaFaithful`.

## What is not modelled, and why

* A callback that locks the authority it is called under: the code forbids it by contract, and a
  std mutex then blocks or panics; there is nothing to check.
* A panic between the two assignments of an installation (it would have to come from dropping the
  old Scene).
* A plain Scene whose own `apply` lowers its revision: the transition assertion would panic on it.
  The model assumes that it keeps or advances it.
* Times, messages, payloads, captured evidence, metadata of Runs: no property is about them.
  Timestamps are sampled before the writer's guard is taken, so that lines may go back in time;
  the file format does not promise an order.
* The classes of leaf values an event may hold beside numbers that are not finite, and the bound
  on fallback prose: all of them convert, and are one plain value.
* The name grammar of `derive_proposal_schema`, JSON pointers in diagnostics, and keywords whose
  value has the wrong JSON type (but for `$defs`): each is one local check.
* Operation fields of Rust types other than unsigned integers, text, unit enums, options, vectors
  and structs, and numbers that are not whole; serde attributes that change a derived decode,
  but for `deny_unknown_fields`, which every type has.
* The building of request bodies and the wire form of request settings: translations field by
  field, of which ProviderInvocation needs no more than that they are built once.
* Errors, identifiers, vocabulary and the facade crate: plain data and re-exports.

## Plan

1. RecordLine, SchemaLowering and PlanRegistry as recursive functions over the depth of a tree,
   in place of RECURSIVE operators, and then proofs about them: `LoweringFaithful` first.
2. Several pipelines over one AtomicScene, in place of the arbitrary other writer.
3. Request bodies, as far as a property can tell a body that was built wrong.
