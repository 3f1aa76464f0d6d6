# caulk in TLA+

Specifications, model-checking configurations and machine-checked proofs for
caulk, the runtime between rig-core and graph-flow: a registry of prompts keyed
by state and event, context builders, tool policies, a checkpointer, LLM
adapters, and the `Runner` that puts them together. Paths below are relative to
the repository's root.

## The system

| component | state | operations | what is hard |
|---|---|---|---|
| `core` | none | `PromptKey::key_for`, `canonical`; `Display` of states and events | two events with one text have one key; `canonical` and `path_for_key` are not injective either |
| `prompt_registry::FsRegistry` | a cache behind an `RwLock`: key -> text, mtime; the files are shared with their authors | `get`, `clear_cache` | `get` is five steps (stat, look up, read, insert, return) and holds no lock between them |
| `prompt_registry::InMemoryRegistry` | an immutable map | `get` | nothing |
| `persistence::InMemoryCheckpointer` | `Arc<RwLock<Option<S>>>`, shared by clones | `save`, `load` | locking, and panics of `S::clone` under a guard |
| `policy` | immutable sets and lists | `allowed`, `check`, `is_allowed` | an empty list means everything or nothing |
| `context_builder` | a map of files, or a number of paragraphs | `insert`, `build` | window arithmetic, choice of the newest paragraphs |
| `rig_adapter` | an agent, client or closure | `call` | what of prompt and context reaches the provider |
| `runtime::Runner` | the four collaborators | `prepare`, `step`, `handle_edge` | the await in `step`: prompts change and callers give up meanwhile |
| `graph_flow_adapter` | tasks, a graph, a shared `Context` | the builders of tasks and graph, `FormeTask::run`, `FormeLlmTask::run`, conversion of `NextAction` | results are written cell by cell; timeouts drop a `run` at its await |
| `qa_runner` | counters of a run | `load_event_log`, four checks, the exit code | which of several bad inputs still counts |
| `examples/support_bot` | a script of turns, its position, the history of events | per turn `prepare`, `check`, `step`, `handle_edge` | prompts, policy and history are kept by different hands and have to fit |
| `examples/hello_world` | none kept | one such turn | nothing |

`step` calls `prepare`; `prepare` calls `Registry::get`, `ContextBuilder::build`
and `Policy::allowed` in this order; `step` then calls `LlmAdapter::call` and
awaits it. A graph-flow task calls `prepare` or `step` and copies the result
into the workflow's `Context`. The support bot calls `prepare`, the policy, `step`
and `handle_edge` for every turn of a conversation, and keeps the history of
events that builders are given. A `Runner` has no state of its own: everything
that happens concurrently happens in the registry, in the checkpointer, and in
the futures of the callers.

## Modules

| module | models | role |
|---|---|---|
| `PromptSource` | what a caller of `Registry::get` may rely on | abstract specification |
| `FsRegistry` | `FsRegistry`, the files, their authors | detailed specification, implements `PromptSource` |
| `FsRegistryHistory` | the same, with history of answers and clears | properties of `clear_cache` and of replay |
| `FsRegistryProofs` | | proofs about `FsRegistry` and `FsRegistryHistory` |
| `Register` | the trait `Checkpointer` | abstract specification |
| `Checkpointer` | `InMemoryCheckpointer` | detailed specification, implements `Register` |
| `CheckpointerProofs` | | proofs about `Checkpointer` |
| `Runner` | `prepare`, `step`, `handle_edge`, the adapters' `call` | composes the registry's promise with builder, policy and model |
| `GraphFlow` | `FormeGraphBuilder`, `FormeTask`, `FormeLlmTask`, `NextAction`'s conversion | composes `Runner` with workflows; extends it |
| `GraphFlowProofs` | | proofs about `Runner`, and about `GraphFlow` on top of them |
| `SupportBot` | `support_bot`'s `main`, with its `InMemoryRegistry`, policy and mock | composes instances of `Runner`, `ParagraphBuilder` and `Policy` in a conversation |
| `SupportBotProofs` | | proofs about `SupportBot` |
| `Policy` | the policies, `AllowListPolicy::new` by iterations | state machine of a construction |
| `PolicyProofs` | | proofs about `Policy` |
| `QaRunner` | `qa_runner`'s `main` | sequential program; uses `Policy` |
| `QaRunnerProofs` | | proofs about `QaRunner` |
| `FileSnippetBuilder` | the builder of code windows | algorithm as operators, and its map |
| `FileSnippetBuilderProofs` | | proofs about its arithmetic |
| `ParagraphBuilder` | the builder of prose contexts | algorithm as folds, against a definition by runs |
| `ParagraphBuilderProofs` | | proof that the two agree and the newest are kept |
| `MC...` | | instances for TLC: values of constants, symmetry |

Definitions whose comment begins with "Mutant of" are not part of any
specification. Each is a plausible bug of the definition it names; put in its
place, it makes the property that `PROJECT.json` pairs it with fail, which shows
that the property depends on the code being what it is.

### FsRegistry

One variable per piece of state in the code: `cache` is the map behind the
`RwLock`; `pc`, `key`, `stamp` and `text` are the local variables of every
thread's `get`; `file` and `clock` are the file system. The actions are `get` cut
where another thread or an author can act: `Get` (call), `Stat` with its two
failures, `CheckCache`, `ReadFile` with its two failures, `Insert` (which also
returns). `ClearCache` is `clear_cache`. `Edit` and `Chmod` are other programs.
Looking up and inserting are single steps because each is done under a guard.

Assumptions, each a choice about the environment:

- The file system's mtimes never go back (`Edit` moves `clock` forward or leaves
  it). With `FineClock` two edits never share an mtime; without it they may, as
  on a file system with coarse timestamps, which the repository's own test
  works around by sleeping 1.1 s (`src/src/prompt_registry/mod.rs`, test
  `mtime_cache_invalidation_after_touch`).
- Reading a prompt file is atomic. Prompts are small, and a torn read would be a
  text no version of the file had, with or without a cache.
- `unwrap_or(UNIX_EPOCH)` is not taken: every platform the crate builds on has
  mtimes. A poisoned cache lock is not modelled either: no code panics while
  it holds the guard, and the code's reaction is to skip the cache.

`PromptSource` says what this is meant to be: every path offers a set of answers
at each moment, and a `get` returns something offered between its call and its
return. A file without read permission offers both its text and a failure:
`chmod` leaves the mtime alone, so an entry read earlier may go on answering.
The refinement mapping computes `offers` from the files and `busy` from `pc`.

### Checkpointer

`save` is `LockWrite` then `Store` or `StorePanics`; `load` is `LockRead` then
`Fetch`. `S::clone` is the user's code and is called under the guard, so it may
panic there: under the write guard that poisons the lock, under a read guard it
does not. `Register` is the slot the trait describes, with calls that take
effect at one instant or fail without effect.

### Runner

`Prepare` is `Runner::prepare`. `StepCall` is `Runner::step` up to its await,
`StepReturn` and `StepFail` what follows it, `Cancel` a caller dropping the
future. `Publish` changes what the registry offers at any moment. The registry
appears as in `PromptSource`: one instant at which `get` takes effect. The
model's answer is represented by the request it answers, since that is all the
properties tell apart. `Request` gives, for each adapter, the preamble and the
user message that reach the provider. `Display` gives states and events their
texts, of which keys are made; it need not be injective, and two events with one
text then share a key and a prompt. `Empty` is the context of a `NoopBuilder`.

### Context builders

`FileSnippetBuilder` keeps a file as its number of lines and a context as the
file, the line asked for, and the first and last line shown; parsing of an event
is abstracted to its tokens (is it a path, a colon and digits, which name, which
number, and does a usize hold that), the choice among them is modelled. `ParagraphBuilder` keeps a line as a
model value or `Blank`; it splits with the same fold as the code and takes the
newest paragraphs by the same reversals.

### GraphFlow

`Callers` of `Runner` become workflows, and their calls the `run`s of tasks. A
task is a record: its kind (`"prepare"` for `FormeTask`, `"step"` for
`FormeLlmTask`), the state, event and history it was made with, and its next
action. It is made as the code makes it, by `NewTask` or `NewLlmTask`, with the
text of its state for an id and no history, and then `WithId`, `WithHistory` and
`WithNext`; `NewGraph`, `AddTask`, `AddEdge` and the others are the builder, and the
constant `Graph` is what it built. `RunPrepare` and `RunStep` begin a `run`, each together with the `Runner`
action that it calls; `Answered` is the return of the await; `Write` is one
`context.set`, which may fail where `Unwritable` says so, and whose error the
task returns or drops as the code does; `Finish` returns, and moves the workflow.

graph-flow is a library outside the repository. Assumed of it, from how the
adapter uses it: `Continue` goes along an edge or, without one, stays; `GoTo`
goes to the task of that id or fails (and the workflow stays); `End` completes; a failed task leaves the
workflow where it was; a task timeout drops the `run` at its await; and one
workflow runs one task at a time. Conditions of conditional edges are not looked
at: any edge may be taken.

`MetadataOfOneStep` is about `Paired` graphs: a workflow begins with a `FormeTask`, and
a task that calls the model is reached only from tasks of its state. That is an
assumption about the graph, which the code neither makes nor checks: `FormeTask` is said
to leave the call to another task "if needed", and a `FormeLlmTask` may be used alone.
In other graphs a `FormeLlmTask` leaves the `prompt_key`, `tools` and `event` of whatever
was prepared last, and the property does not hold; nothing in the repository says that it should.
Nor does it hold, or `ResponseCurrent`, if `context.set` fails on a cell whose error the code
drops and that the property is about (`MetadataLost`, `AnswerLost`). `MCGraphFlow` states that
its instance is paired and that `set` fails there on two other cells only.
`PreparationCurrent` needs none of this.

`EdgePredicts` compares the two readings of `NextAction`: the key `handle_edge` gives
for it (`EdgeKey`), and the task that graph-flow runs next. It says that they agree
exactly for the pairs of tasks that are `Together`, with one event, an edge within a
state and an id that is the text of its task's state; the graph need not have
only such pairs: that of `MCGraphFlow` has an edge to another state and one to another event.
`prior` is a history variable: the latest task of a workflow that ended well.

### SupportBot

One turn of the loop in `main` is five actions: `PrepareTurn`, `CheckTool`,
`StepTurn` and `Answer` (a `step` before and after its await), and `EndTurn`, with
`handle_edge` and the `push` to the history. Each of them contains the action of
the instance it calls. `script` stands for `turns`, which `main` fixes: here it is any sequence
of turns, and `MCSupportBot` states that `main`'s own is one of them. `expect` makes
`main` panic, which ends the model. A context is the paragraphs chosen and the
event; a prompt is the key it was written for and the words in it that the mock
looks for; a reply is what it is about. The registry is built from the entries of
`main`. `Publish` does not occur: an `InMemoryRegistry` behind an `Arc` does not
change.

The texts of events leave the info of an `InfoProvided` out, and texts are all
that a `ParagraphBuilder` is given: what the user told never reaches the model.
The instance has two infos, which no request tells apart.

### Policy

A policy is constructed, in one step or, for `AllowListPolicy::new`, in one
iteration of its loop after the other, and then asked. `table` is a policy that
implements `allowed` only and so has the trait's own `check`, as the support bot's.

### QaRunner

`main` with its `load_event_log`, one action per candidate file, per entry of a
check, and per check. Files are in any of the conditions that the code tells
apart. Replay always agrees here, because everything the runner is made of is
fixed; the interesting case is in `FsRegistryHistory`.

## What is checked

| run | instance | shows |
|---|---|---|
| `registry` | 2 threads, 2 keys on one file, 2 texts, 3 mtimes, fine clock | no interleaving caches a superseded text under the current mtime; every answer was right during its call; `FsRegistry` implements `PromptSource`; the proofs' invariant holds |
| `registry_solo` | 1 thread, coarse clock, up to 4 mtimes | used by one thread, `clear_cache` forces a re-read and `get` is replayable whatever the mtimes (that both hold with a fine clock, for any threads, is proved) |
| `registry_clear_race` | 2 threads, coarse clock | finding: a text read before `clear_cache` is served after it |
| `registry_replay_race` | 2 threads, coarse clock | finding: two `get`s of an unchanged file differ |
| `checkpointer` | 3 threads, 2 states | guards are exclusive, errors come from poison alone, poison is final, the slot is linearizable |
| `snippet` | 2 files, 10 lengths and 15 line numbers around every boundary of 50, one too large | every window is in its file, contains the line, and is full if the file is long enough; a number too large for a usize makes its token a word like any other, and the reference before it wins |
| `snippet_small_file` | same | finding: a small file is not always shown whole |
| `paragraphs` | 3 events of up to 3 lines, N = 3 | the context has the newest paragraphs, unmerged, in order |
| `workflow` | 1 workflow, 2 states, 2 events, 6 tasks, 2 prompts, 3 kinds of build, 4 adapters, 2 failing `set`s, a `GoTo` to no task | outputs are of one piece, errors tell the stage, the prompt is sent (not always by a `RigAgentAdapter`); `prompt_key` and `tools` are of the state and event beside them (`MetadataOfOneStep`); after a `FormeLlmTask` response, prompt and context are of its one step (`ResponseCurrent`), after a `FormeTask` prompt, context and `prompt_key` of its one prepare (`PreparationCurrent`); `handle_edge`'s key is the next task's exactly where the two readings keep together; every `run` ends, answered or not |
| `support_bot` | every script of up to 4 turns, 3 states, 2 infos, N = 2 | the two prepares of a turn agree; the model gets the newest paragraphs, then the event; refunds are spoken of where they are allowed; only a missing prompt panics, with nothing sent; every script with prompts is played out |
| `policy` | 3 tools, iterators up to 4 | the list of an allow list or table and its `check` agree; first-seen order |
| `qa` | 2 places, logs and snapshots in every condition | the exit code tells; `main` exits |

Bounds. `MaxClock` limits how often files are edited; a stale text needs one edit
between two steps of a `get` and a second one to tell old from new, so two edits
after the first version suffice to break every mutant. Two threads suffice for a
slow `get` against a fast one; a third would only repeat either. For the
checkpointer a third thread makes two readers and a writer possible. Line
numbers and lengths are chosen at 0, at half the window, at the window and at
one more and less of each; what lies between is proved. One workflow suffices:
workflows share only the runner, which keeps nothing of a call but its caller's
own entries, and whose prompts change anyway; each has its own `Context`. The
theorems about `Runner` hold for any number of callers. Four turns with N = 2 have
histories shorter than, as long as, and longer than the paragraphs shown, and
more turns than `main`'s script. Four elements of three tools have every pattern of one tool that
comes back at once, later, or twice.

Fairness. `GraphFlow` assumes that a running task runs on (`Write`, `Finish`) and
that its timeout expires (`TimesOut`): it is polled by its executor, and graph-flow
keeps the time. It assumes neither that the model answers nor that a caller
drives its workflow, so a workflow as a whole need not complete. `QaRunner` and
`SupportBot` are single threads, fair as a whole; `block_on` polls until the future is
ready, and the mock's is at the first poll. The other specifications state safety only:
what waits there waits for an `RwLock`, whose fairness the standard library
leaves open, or for the caller.

Deadlock is checked except where the system stops: a policy that is built and not
asked to change, `qa_runner` after it has exited, and the support bot after its last turn or
its panic.

## What is proved

The proofs hold for every value of the constants that satisfies the `ASSUME`s of
the modules.

- `FsRegistryProofs`: `TypeCorrect`; and, for `FineClock`, `Invariance`, `Coherent`,
  `AnswersRight` and `Implements`. Coherence of the cache is not inductive: a
  text that a thread is about to insert may be stale already. `IInv` adds that no
  mtime in use is ahead of the clock (`StampsPast`), so that an edit invalidates
  every stamp on its file at once; that a pending text is right for its `get`,
  and is the file's if the file still has its stamp (`PendingCoherent`); that an
  entry, or a pending one, which could answer a `get` under way would answer
  it rightly (`HitsRight`); and that a `get` under way has been offered what its
  file offers now (`SeenCurrent`). The refinement then follows action by action:
  `Get` maps to `Call`, whatever returns maps to `Reply`, `Edit` and `Chmod` map
  to `Change`, the rest are stuttering steps.
- `CheckpointerProofs`: `TypeCorrect`, `ErrorsFromPoison`, `Exclusive`, `Final`,
  `Implements`. The invariant relates
  guards to requests; without it `Store` might save what no call asked for.
- `GraphFlowProofs`, about the `Runner` by itself: `Invariance`, `TypeCorrect`, `OnePiece`,
  `StageTold` and `PromptSent`. The invariant adds `WaitingIntact`: while a step waits,
  the request out is the one made from its snapshot.
- `FileSnippetBuilderProofs`: `EveryWindowFits`, the arithmetic for every window,
  line and length, `WindowsFit`, its consequence for every build, and `TypeCorrect`; `TooLargePassedOver`,
  for any event: with words in place of such tokens it has the same reference (`WordedReference`).
- `GraphFlowProofs`: `FlowTyped`, and `ResponseIsCurrent` if not `AnswerLost`, for any
  graph, any number of workflows and any failures. What a task has yet to write is
  always an ending of what its kind writes (`Ending`), so that one number, `Done`,
  says which cells are behind it; those hold what the `Prepared` or the
  `StepOutput` says (`WritingIntact`), unless `set` lost them. At `Finish` all of them
  do, and the runner's `OutputOfOnePiece` makes the response the answer to the
  prompt and the context beside it. `RunnerNext` shows that a step of the workflows is
  a step of the `Runner`, whose invariant is used as it was proved; `OthersUntouched`
  that a workflow's step disturbs no other.
- `GraphFlowProofs`, `MetadataWhole`, for `Paired` and not `MetadataLost`. The property is
  broken while a `FormeTask` writes its last cells. The invariant adds that it holds
  until `prompt_key` is written, up to which a `set` may make the task fail; that from
  then on it cannot fail (`Committed`); and that a `FormeLlmTask` always finds its own
  state in the `Context` (`StateReached`), so that the state it writes is the one there.
- `GraphFlowProofs`, `PreparationIsCurrent`, for any graph and any failures. What the
  runner has prepared for a workflow stays until its next `FormeTask` (`Kept`), and at `Finish`
  every cell whose `set` is checked was written from it (`CheckedWritten`): had one of
  them failed, the task would have.
- `GraphFlowProofs`, `EdgeForetells`, for any graph. Where a workflow is, is where the
  action of `prior` leads until another task ends well (`Arrived`): a task that fails, times
  out or waits moves neither. From a task to a place where its action leads, the two keys are
  one exactly for tasks that are `Together` (`EdgeKeyTogether`).
- `PolicyProofs`: `TypeCorrect`, `Agrees` and `FirstSeenKept`. For the first
  two the invariant is that list and set have the same tools after every iteration
  (`Consistent`); for the last (`InOrder`) that after n of them the list has the first
  occurrences among the first n elements, each at the place that the number of
  earlier ones gives it (`Firsts`, `Place`). One more element either was seen and moves
  none (`SeenStep`) or is the last of the firsts (`NewStep`).
- `FsRegistryProofs`, `ForcesReread` and `Replays`, about `FsRegistryHistory` and for
  `FineClock` or one thread, the two cases between which the findings lie. They follow
  for different reasons. With a fine clock (`FineInv`), an answer is one that was offered
  since its call, as `AnswersRight` has it, and what was offered since then was
  in the file since the clear, or all the time between the two calls. For one thread
  (`SoloInv`), nothing is inserted between its `clear_cache` and its next `get`, so an entry
  was read since, and the second `get` finds what the first has left (`FoundAgain`),
  whatever the mtimes say.
- `QaRunnerProofs`: `CountsHold`, `RunnerTyped` and `ExitIsRight`, for any logs, snapshots and
  registry. The invariant (`Counted`) ties the counts to the stage, and says what `failed = 0`
  means at each: of the entries up to `i`, then of the log, then of the snapshot too.
- `SupportBotProofs`: `TurnKept`, `BotTyped`, `StepsAgree`, `AttemptsDenied`, `RefundsAllowed` and
  `PanicsBeforeSending`, for scripts of any length. The invariant says what each
  action of a turn leaves for the later ones: what is shown (`Shows`), awaited (`Awaits`)
  and answered (`Answers`) is the `PreparedOf` of one call, which does not change before the
  turn ends (`SameTurn`). `PrepareTells` ties it to the registry: it fails only for want
  of a prompt, and a prompt it finds was written for its key (`RegisteredFor`), which is
  why a reply about a refund can only come from `Resolving`.

- `ParagraphBuilderProofs`: `SplitsIntoRuns`, `NewestSelected` and `NewestKept`, for events and
  histories of any length. The library's induction theorems take an operator, which the
  provers cannot instantiate; `SetInduction` says the same of a set of numbers that has 0
  and every successor, and follows from `<` being well founded. With it the recursive
  functions inside `FoldLeft` and `FlattenSeq` are shown to exist (`FoldsUp`,
  `FlattenType`), and the loop over the lines to keep its invariant (`Loop`): each run
  that is over stands in its place (`Placed`), which is the number of runs that begin no
  later (`Rank`), and `cur` has the lines of the one that is not (`Pending`). A blank line
  after another ends none (`NoneEnds`), any other ends one, whose place is the next
  (`OneEnds`). What two reversals around `take` leave is a suffix (`SuffixSelected`).
- `SupportBotProofs`, `NewestSent`: that context is what the model is handed (`Sends`), by
  `NewestSelected` for the bot's builder.

Every inductive invariant was checked by TLC before it was proved; `IInv` of `FsRegistry` and
of `Runner` stay in their runs.

Only model-checked: the liveness properties, `RunEnds`, `Exits` and `Ends`, which are beyond
the prover.

## Findings

1. `clear_cache` racing a `get` (`registry_clear_race`).
2. Replay with coarse mtimes and a slow `get` (`registry_replay_race`).
3. Small files are not always shown whole (`snippet_small_file`).

Each is quoted with its lines in `PROJECT.json`.

Other differences between the text and the code, met while modelling and not the
subject of a run:

- `RigAgentAdapter` drops the prompt when there is a context; its own
  documentation says so, the module's
  (`src/src/rig_adapter/mod.rs:16`) says otherwise. `PromptReachesModel` excepts it.
- A line number beyond the end of the file is "clamped to len"
  (`src/src/context_builder/mod.rs:78`), one beyond the largest usize is not: its token is
  no reference (`TooLargeIsNoReference`), although the "last wins" (`:60`).
- The example in `ParagraphBuilder`'s documentation (`src/src/context_builder/mod.rs:241-244`) has three paragraphs of history
  and N = 3, and leaves out the first.
- `Next` "stays" (`src/src/runtime/mod.rs:121`) for `handle_edge`, but follows an edge as
  graph-flow's `Continue`, to whatever state it leads. `EdgePredicts` says where they agree.
- "Empty `allowed`" is said to mean "all tools" for a `DenyListPolicy`
  (`src/src/runtime/mod.rs:46`), whose `check` refuses some; `src/src/policy/mod.rs:38` has "all except
  denied". A plan alone does not tell which policy it is of.
- `handle_edge` gives "the next `PromptKey`" (`src/src/runtime/mod.rs:253`): the key of the next state
  with the event that is over. It is the next turn's key only if the next event has the same
  text; in `support_bot`'s script it never has. The bot prints the key and does not use it.
- `qa_runner` passes over a present log that it cannot use, and compares nothing
  with the snapshot (`src/src/bin/qa_runner.rs:4` and `:10`).

## Plan

1. Done: `FsRegistry` with `PromptSource`, `Checkpointer` with `Register`, `Runner`,
   the two context builders, `GraphFlow`, `Policy`, `QaRunner`, `SupportBot`; proofs of
   every safety property that the runs check.
2. `GraphFlow` as an implementation of a workflow whose tasks write all cells at
   once; workflows that share a `FsRegistry` in place of `Publish`.
3. Keys that collide in `canonical` or on a path.

## Not modelled

Formatting of prompts, contexts, keys and errors; serde derives; temperature and
token limits; the joining of the text parts of a model's answer, and that an
answer without text is an empty reply; `rig-core` and `graph-flow` themselves;
`caulk_next_to_gf`, a pure conversion which no task uses; `hello_world`, which runs one
turn as the support bot's, and prints it.
