# QCode: a verification project

QCode is a coding agent. A user gives it a task; a *turn* samples a language
model, runs the tools the model asks for, asks the user for approvals and input
on the way, changes files under a workspace journal and ends as completed,
failed or canceled. A turn is durable: every decision is committed as a fact
before it takes effect, and a process that crashes restores the turn from its
facts. Around the turns, a session owns child agents with worktrees of their
own, a gate that shares the model provider among all of them, connections to MCP
servers, and an event stream the front ends follow.

This project models that machinery in TLA+, checks it with TLC and proves the
central results with TLAPS. Sections: 1 inventory, 2 plan, 3 modules, 4 runs with
their bounds and fairness, 5 properties, 6 proofs, 7 findings, 8 not modelled.

## 1. Inventory

Paths are below `src/internal/` unless they begin with `web/` or `docs/`.

### The turn

| Part | Code | State | Operations |
|---|---|---|---|
| Turn reducer | `runtime/agent/turnkernel/reducer*.go`, `completion_policy.go`, `invariants.go` | phase, calls, approvals, input, samples, effects, output, changes, journal, cancellation, terminal decision | one command each; pure |
| Effect dispatcher | `turnkernel/effect_dispatcher.go` | the routed effects of a turn: started or not, attempt, retained result | `Dispatch`, `Start`, `ScheduleRetry`, `Requeue`, `ResolveWith`, `Abort` |
| Coordinator | `turnkernel/coordinator.go`, `runtime.go` | the durable facts | `Submit`, restore and requeue |
| RuntimeKernel | `turnkernel/runtime_kernel*.go`, `tool_effect.go`, `tool_admission.go`, `runtime_control.go` | a mutex around the above, the request ledger | `BeginModelSample` ... `FinalizeTerminal` |
| Turn driver | `engine/turn_run.go`, `terminal_handler.go`, `tool_handler.go`, `approval_handler.go`, `turn_scope.go` | the goroutine's position | sample, run tools, advance, settle, resume |
| Waits | `adapter/tool/guard/guard.go`, `adapter/tool/interact/host.go`, `adapter/tool/batch.go` | pending asks of executors | ask, stage a reply, resume, expire |
| Turn service | `runtime/app/turn_service.go` | | `Cancel` |

The driver calls `RuntimeKernel` methods; each one takes the kernel's mutex and
submits one or two commands. The coordinator applies the reducer, commits the
fact and dispatches the effects the reducer requested. An effect is started
durably, executed, and its result submitted as a command that the dispatcher
retains until it is accepted. Tool executors run in parallel and call back into
the kernel when they need an approval or input; the user's replies arrive on
other goroutines, through the request ledger; a cancellation is committed first
and cancels the turn's context afterwards.

Hard here: commands in an order nobody wrote a test for (a cancellation while a
response is being finished, a reply while a timer fires); methods of two commits
with a crash between them; a result that is retained and later becomes illegal;
a restart in every phase; and whether a turn ever ends.

### Around the turn

| Part | Code | State | Operations |
|---|---|---|---|
| Workspace journal | `persist/workspacejournal/` | ledger file, before-images with reference counts; per process: the active turn, kept turns, restores in progress | `Begin`, `Before`, `After`, `Commit`, `Suspend`, `KeepDraft`, `ResumeDraft`, `Rollback`, `Revert`, `Recover`, `Close` |
| Workspace merge | `orchestration/workspacemerge/service.go` | | `Apply`: one journal transaction per merge |
| Event hub | `runtime/app/eventhub/` | last sequence, pending stable events, subscriptions with bounded channels | `Publish`, `PublishStable`, `Subscribe`, fanout, `Close` |
| Host stream, web client | `host/server.go`, `web/src/runtime/client.ts` | the client's cursor | deliver, disconnect, reconnect from the cursor |
| Provider rate limiting | `runtime/agent/engine/shared_rate_limit.go`, `adapter/provider/ratelimit/controller.go`, `adapter/provider/httpclient/` | tokens, count of foreground work, cooldown; the route's next request and penalty | `BeginTurn`, `Acquire`, `AcquireBackground`, `NoteRateLimit`, `ObserveSuccess`; `Wait`, `Observe` |
| Subagents | `orchestration/subagent/`, `orchestration/childrun/runner.go`, `persist/state/agentstore.go` | the Manager's agents, the durable agent graph, the Runner's turns, worktrees and allocations | spawn, start, follow up, interrupt, settle, close, integrate, reconcile |
| MCP connections | `adapter/mcp/` | one runtime per server with its breaker, the catalog, refreshes in flight, retry timers | `Reload`, `ReloadServer`, `ProbeOpen`, `CallTool`, the `Prewarm` worker |

Interaction: tools write files through the journal of the turn; a child's turn is
a turn of the same runtime, its progress reaches the Manager as events of the
hub's publisher, and its changes come back through a merge; every sample of every
engine passes the gate; before a sample the engine offers the model what the MCP
pool's catalog shows.

Hard here: a process that dies between a write and its record; before-images
counted by several turns and released by several paths; a subscription that
begins while events are announced; a channel receive under a mutex; transitions
that are published while a mutex is held, with observers that call back; a
durable write whose answer is lost; a retry signal that passes through a
tracker, a timer, a flag and a channel.

`PROJECT.json` lists every component with its sources, and the hazards at the
lines where they bite.

## 2. Plan

Done, in this order: `TurnKernel` with `TurnLifecycle`; `TurnRuntime`;
`WorkspaceJournal`; `EventHub`; `SampleGate`; `Subagents`; `McpPool`; proofs of
the safety of all of them.

Next, by what they would show:

1. Turn state store: leases, takeover by another process, the terminal envelope.
   Today a commit is one atomic step of `TurnRuntime`.
2. `TurnStep`: repair budgets, progress observation and `EvaluateTurnStep`, with
   the liveness of convergence. `TurnKernel` leaves that choice free.
3. The token window of `ratelimit/admission.go`, behind `SampleGate`.
4. Mailbox and budgets of the subagents, and the registry that `Adapter.Sync`
   fills from the MCP catalog.

Two compositions are worth stating once the stores are there: `Subagents` over
the abstract `TurnLifecycle` instead of its own small turn, and the journal as
the environment of the journal effects.

## 3. The modules

**TurnKernel.** One action per reducer command, named like it. The guard of an
action is what the handler checks; a command whose guard fails changes nothing
in the code and is no action here. `effects[e]` is the effect with sequence
number `e`: `key` is its idempotency key without the prefix, `call` its
`CallID`. `requestEffect` issues the next sequence number and `finishEffect`
moves an effect to the completed ones. `ToolResult` is the whole of
`applyToolResult`, with the cascade that retires the input wait bound to the
call and, after a cancellation, its approvals. The output is `provisional`
(captured), `eligible` (released) and `final` (published by `FinishTerminal`).
`workspace` is the reconciled observation, valid for the current mutation
revision only.

`Reducer.Apply` runs `Validate` on the state a handler built and refuses the
command if it is inconsistent. In the model no action has that check: that it
holds is the invariant `Valid`. In five places `Validate` is in fact what refuses
a command the handler would have let pass; those guards are marked `Validate`, and
`Valid` says that there is no sixth.

Left out of this state: texts, digests and times; usage, context, work-item and
continuation projections; the paths of changes (so the comparison of declared
with changed paths is part of the free choice between an accepted and a refused
declaration); repair budgets and progress; the legacy verification phase;
`model_sample_started`/`finished`, `approval_resolved`, `journal_finalized` and
`persistence_result_received`, which replay older facts and which this version
never submits.

**TurnLifecycle.** What a turn promises: it decides once, settles the changes it
holds the way the decision calls for, then ends, and publishes an answer exactly
when it ends as completed. `TurnKernel!ImplementsLifecycle` states the
refinement: committing is "settling", the journal's status the fate of the
changes.

**TurnRuntime.** Extends `TurnKernel` and uses its actions as the only way to
change the reducer's state. `routed` is the dispatcher's map. `Find` is
`findLocked`: the *first* effect of a kind and call, which is what makes two
approvals of one call interesting. `ResolveAccepted` and `ResolveRefused` are the
two outcomes of `ResolveWith`, with the retained result. `pc` is the driver's
position, `tools` the executors, `ledger` the state of each request (in the
request ledger and in the waiter's channel), `op` the `RuntimeKernel` method that
is between its two commits and holds the mutex. `Crash` drops everything but the
reducer's state; `Requeue` and `Restore` are `RestoreTurnCoordinator` and the
resume paths of the driver. `AbortInput` to `EndTurn` are `FinalizeTerminal`.
The driver does not declare completion, converge or observe progress (an answer
completes the turn or leads to another sample). A failed commit is modelled where
it leaves something behind: of a result (the dispatcher retains it), of the
journal's result (`RunJournal` goes to "stuck": `kernelStarted` keeps settle from a
second attempt), of the second half of `RequireApproval` (`RequiredFails`: the
request stays pending without a waiter) and of a tool's start or its publication
(`StartToolFails`). The commit of a request, of a sample's start or of an abort's
start that fails ends the attempt as a refusal does. A reply is taken from the
request ledger (`Reply`) and staged with the waiter; a waiter that leaves in
between makes it late (`ReplyLate`). `CancelContext` is the second half of
`Scope.Cancel`, which cancels the contexts also when the reducer refused the
cancellation; `Shutdowns` lets the context end by itself. The data of a result is
chosen when it is accepted.
`RequestTerminal` is never refused in any reachable state (the deadlock check of
the runs shows it), so no failure branch is modelled for it.

**WorkspaceJournal.** The durable half is `ledger` (what `replay` makes of the
ledger file; an append applies its entry) and `refs`, the reference counts of the
before-images; the volatile half is `active`, `kept` (committed, drafts,
unresolved) and `task`, the restore or recovery in progress, per `Manager`, one
incarnation of a process. A tool writes in three steps (`Before`, the write,
`After`) and a restore goes path by path, each in two steps (`RestoreCheck`: the
file is still what the turn left; `RestoreWrite`: the before-image goes over
whatever is there by then), so a process can die, an append fail or the user save
a file in between. A path that cannot be restored is a conflict, and the restore
goes on with the next one; only the end of the caller's context ends it. A file's identity (inode, time) is a number that
a write always takes fresh; `Equal` is the journal's comparison of fingerprints.
`Picked` is the loop that filters a journal's paths or the ledger's turns.
`dirty`, `ended` and `torn` are history: what a file held before a turn's
unaccepted writes (`dirty`). A content becomes the turn's own when the turn writes
the file or reports it: `guard.go:730` calls `AfterFingerprint` for a failed tool
too, and a later `Before` of the same turn keeps the first before-image
(`journal.go:411`). Appends fail in `After` and in the settlements of `Rollback`
and `Revert`. A `Sync` that fails after the write leaves the entry it reports as
failed: in `After` memory and ledger are then as after a success, and the tool
reports an error; in `Before` and `Commit` it makes a refused operation durable, and
is not modelled. `Merges` are the turn ids the chat merge begins again.

**EventHub.** `pub` is the publication that holds `publishMu`: append (with its
three attempts, its failure and its unknown outcome), projection, fanout. A
subscription is replaying or live; `floor` is the fence of the frozen page,
`events` the channel with capacity `cap`. `Handoff` passes the page and what was
announced meanwhile to the channel under `mu`. `Disconnect` and overflow lose the
channel, never `cursor`. When `Events` reports an error (a subscription dropped
during its replay, a closed Hub, an unreadable store: `Handoff`, `Refused`) the
server's frame comes before "hello", and the client takes it for a violation of the
protocol: it forgets cursor and projection and stops ("desynchronized") until the
user opens it again (`Reopen`). Another Runtime's events occupy numbers in the store.
Reading the channel, writing the socket and applying the event are one step.

**SampleGate.** `SharedRateLimit` as tokens (`free`), the count `foreground`, the
cooldown, and the mutex only where it is held over a channel receive
(`receiving`); and the route's `Controller`. Every step between two acquisitions
of a mutex or two channel operations is an action. Deadlines are kept as the time
left, `Tick` passes one unit, and timers may fire late. `canceled` are the
background samples whose context the gate has canceled. `owed` is history: how long
the Retry-After of a sampler's own last 429 still runs.

**Subagents.** `node` is the Manager's view, `graph` the durable node. `Record`
is `transitionLocked`: it writes one transition under the operation id of the
next revision, publishes it and drains the observer queue; its outcomes are ok,
refused, lost (durable, but reported as failed, which every transition can meet:
the append commits the node before the projection that may fail, `hub.go:269-304`;
then the graph is `ahead`) and hung. The operation id of a write is
`agent:<id>:<revision + 1>`, so the next write of the Manager is taken for the one
that was lost and counts as made, whatever it says (`AlreadyApplied`). `misled` is
history: the agents of which such a write made the Manager believe something the
graph does not hold, or whose spawn was undone though the graph holds it. `call`, `settlers`, `closing`, `merge` and `spawning` say where the
goroutines outside the Manager's mutex have got to. `turn` is the runtime's side
of a child's turn, reduced to what the Runner and the Manager see of it. `Crash` keeps graph, allocations, worktrees
and applied integrations and reconciles them as `PlanReconciliation`,
`PlanIntegrationRecovery` and `reconcileOrphanWorktrees` do. There the model allows
more than the code: an agent whose `FinishIntegration` failed comes back as
`integration_failed`, while the code plans the transition from failed to failed,
which `validIntegrationTransition` refuses, and attaching the graph fails.

**McpPool.** A generation of a server is a connection with its `healthTracker`.
`Pool.lifecycle` is held over several steps and is a variable; `Pool.mu` is held
within a step, except when `hung` says that its holder waits for it. The refresh
goroutine of a server (`reload`) walks queued, connecting, found, closing, leaving.
Its deadline runs while it waits for `lifecycle` (`ReloadLate`), and then it fails
without a word to the server (`ReloadExpires`). The closes of a half-built
connection on the error paths of `connectServer` (`pool.go:222, 247, 280, 298`) are
one assignment of `ReloadFails` and `WorkerRefused`; the
`Prewarm` worker takes the flag, reloads what is due, probes what is open and
rests. A retry travels from a tracker over `timers`, `dirty` and `token` to the
worker. Time is counted down like in `SampleGate`. Every connection of a server
sees one catalog, told apart by its version. Init is what the session's own
`RefreshNow` leaves behind. `missed` is history: a change no reload has followed.

**MC modules** hold symmetry sets and one bound (`FewIdentities`); the constants are
in the `.cfg` files.
**TurnKernelTypes, TurnKernelProofs, TurnRuntimeProofs, SampleGateProofs,
EventHubProofs, McpPoolProofs, SubagentsProofs, WorkspaceJournalProofs** hold
theorems only: see 6.

## 4. The runs

| Run | Shows |
|---|---|
| `kernel` | `TypeOK`, `Valid`, `NoOrphanEffect`, `CompletedOutputReady` and the refinement, with a sample, a call, an approval or input wait, journal failures, cancellation and every decision in any order |
| `runtime_approvals` | `ResumedIsDurable`, `ExecutionCovered`, `RequestAnswerable`, `StuckIsPoisoned`: two calls that ask in parallel, timers, shutdown, cancellation, a crash |
| `runtime_faults` | `RuntimeTypeOK`, `RegistryCovers`, `SingleSample`, `CommittingFinishes`, `RejectionHolds`: two samples, an input wait beside an approval, rejected batches, a failed commit or journal, a crash |
| `runtime_ends` | `TurnEnds`, `RestartSettles` under fairness: an approval and an input request, replies that cancel, a failed commit, a crash |
| `workspace_journal` | `JournalTypeOK`, `RecordedIsUndoable`, `UndoesOnlyItsOwn`: two turns, two processes one after the other, deaths in any step, a file with two contents, one failed append, failed restore or user edit at any time |
| `event_hub` | `HubTypeOK`, `NoGap`, `NoDuplicate`, `LosslessButFailed`, and `CatchesUp` under fairness: a stable and two plain events, a foreign one, two failures, disconnections or restarts |
| `sample_gate` | `GateTypeOK`, `BackgroundYields`, `BackgroundNeverHangs`, `PacedApart`, `RetryWaits`, and `QueuedIsServed` under fairness: a turn, a review and a narrative on two slots and one route |
| `subagents` | `TurnsHoldSlots`, `WorktreesKept`, `GraphFollows`, `MergeIsFenced`, and `EndedIsSettled`, `CloseReturns` under fairness: a child to spawn and one found at startup, one slot, two turns, one fault |
| `mcp_pool` | `NothingLeaks`, `RetryPending`, `StaleIsReloading`, and `Recovers` under fairness: two servers that may share a tool name, a changing catalog, a caller, one fault |
| `cancel_beats_calls` | violated: `EndsExplicitly` |
| `merge_committed_twice` | violated: `UndoesOnlyItsOwn`, when two merges share a turn id |
| `mutex_hangs` | violated: `NeverHangs` |

The last three state what the repository says and show where the code does
otherwise; see 7.

Deadlock is checked in `runtime_approvals`, `runtime_ends` and `sample_gate`. The
others leave it out because the system may really stop: a terminal turn has no
command left, in `runtime_faults` a failed commit may leave an executor that
waits for ever, processes and bounded publications and catalogs come to an end,
and a hung mutex (subagents, MCP) stops its component.

### Bounds

Where section 6 has a theorem for a property its bounds matter no more for
safety: the theorem is for every value of the constants that satisfies the
module's assumptions and what the theorem itself assumes. They matter for liveness
and for the properties that stay with TLC.

*Turn.* `MaxEffects`, `MaxAttempts`, `MaxMutations`, `MaxBatch`, `MaxCrashes` and
`MaxFaults` bound counters; `CancelReasons`, `Recoveries`, `Converges`,
`Shutdowns`, `Rejections` and `ConcurrentAsks` switch parts of the environment
on. At most two calls, two requests and two samples occur, enough for every
pairing the code makes: handlers look at one call, one request and "the others".
Two attempts tell a first start from a restart, and a crash can hit every state
in between; the second crash starts from a state the first run already covers, up
to the attempt counters. `runtime_ends` has an approval and an input request of
one call, so that a reply can be refused after it was staged, an abort can meet a
retained answer, and three attempts and one failed commit, so that a restart can
meet what the fault left. `MaxMutations = 1` tells no changes, changes and a stale
observation apart.

*Journal.* Two turns and two processes give every pair of a pending turn and a
recovery; two contents beside "absent" give creation, overwriting and deletion, a
before-image that is written over other content, and two turns that count the same
image. The run does not go beyond states with more than four file identities in use
at once (`FewIdentities`: what was there first, what each of two turns left, and an
edit of the user); it was once completed without that bound too (2.85 million states
instead of 1.12 million). There is one path, so a restore
that fails on some of several files is left to the theorems, which have any number.
`Shared` is off and `Merges` is empty, as in the theorems: see 7 for what happens
otherwise.

*Event hub.* A buffer of one makes overflow easy, during a replay too. Two faults allow a failure and
a restart. Publications are finitely many, so `CatchesUp` speaks of each of them.

*Gate.* Three samplers on two slots: one of each kind, and more samplers than
slots. Delays up to two units distinguish "still", "nearly" and "over".

*Subagents.* `MaxTurns = 2` gives a follow-up its previous turn, one slot makes
the two agents compete, and one fault (failed or lost write, refused start,
crash) may come at every point.

*MCP.* Three generations allow a reload while an old connection is still used by
a caller; two catalog changes allow one during the reload of another. The safety
invariants hold for any number of faults by the theorems.

### Fairness

`TurnRuntime!FairSpec` assumes weak fairness of what the Go scheduler keeps
running: the turn's goroutine, each executor, the second commit of a kernel
method, an answer that has been given, an input wait whose context is canceled, the
restart, and the second half of `Scope.Cancel`. Timers are not assumed: a wait for
an approval has one only with `approvalTTL > 0` (`guard.go:1164`), and the default
is 0 (`config/schema.go:217`). Users, crashes and failing commits are never assumed
either. `TurnEnds` therefore excepts an executor that waits for ever, for a user who
stays silent or for an answer that was refused after it had been staged (7); and it
says when a turn may be left to a restart: after a failed commit or journal, or
after a cancellation (7). Executors are assumed to return; a tool that hangs is
outside the model.

`EventHub!FairSpec`: a publication runs to its end, a closed host is started
again, a client that is connected reads, and one that can connect again and again
does (strong fairness: the client's reconnect loop has no last attempt). A
desynchronized client has no such loop and `CatchesUp` excepts it. That a
stable event is published again after a failure is not assumed.

`FairGateSpec`: time passes and every sampler's goroutine runs. It is strong for
samplers because a Go channel serves its receivers in order and a `sync.Mutex`
does not starve a waiter.

`FairSubagentSpec`: the caller of `startTurn`, the settler with its retries, the
drain of the observer queue and a close that is not aborted run on, and an accepted
turn starts. That a canceled turn ends is not assumed, since it need not
(`cancel_beats_calls`): `CloseReturns` says that a close returns or waits for a turn
that has been canceled, so no cancel was lost on a turn that had not started yet.

`FairPoolSpec`: goroutines run on, time passes, timers fire, the worker is not kept
from `lifecycle` for ever, and what has a deadline (a connection attempt, the
request of a call) is answered or fails. The worker's ping has none
(`prewarm.go:221`), so nothing is assumed of it while its transport is open
(`Silent`), and `Recovers` excepts a worker that waits for one for ever.

## 5. Properties

*Reducer.* `Valid`, `CompletedOutputReady`
(eligibility never outlives the text or the contract it was granted for),
`NoOrphanEffect` (the effect ledger and the waits agree), `ImplementsLifecycle`.
That idempotency keys are unique (`EffectKeysUnique`) is proved and no longer
run.

*Runtime.* `RegistryCovers` (the dispatcher and the durable state agree on every
pending effect), `SingleSample` (the reducer does not enforce it),
`ExecutionCovered` (no execution without a durable start), `RejectionHolds`,
`ResumedIsDurable`, `RequestAnswerable`, `StuckIsPoisoned` (settle gives up only
on a retained result the reducer refuses), `CommittingFinishes` (a turn in
committing owes its journal effect or its journal is settled, and nothing keeps
`FinishTerminal` from ending it; the reducer alone would let a failed turn commit
with text that `FinishTerminal` refuses, the runtime's `DiscardOutput` does not),
`TurnEnds`, `RestartSettles`.

*Journal.* `RecordedIsUndoable`: while a file holds what an unaccepted turn
wrote, the ledger lists it, whatever died since. `UndoesOnlyItsOwn`: undoing never
overwrites accepted work, its own result a second time, or an edit of the user made
after the turn last wrote or reported the file, but for an edit between the check
and the write of `restore()`.

*Event hub.* `NoGap` and `NoDuplicate` (the handoff from history to live),
`LosslessButFailed` (nothing below a cursor was missed, but for publications that
reported an error), `CatchesUp`.

*Gate.* `BackgroundYields`, `BackgroundNeverHangs` (the receive under the mutex
never blocks, no notification is missed), `PacedApart`, `RetryWaits` (a sampler that
retries has waited out the Retry-After of its own 429, though the successes of
others clear the gate's cooldown and shorten the route's), `QueuedIsServed`.

*Subagents.* `TurnsHoldSlots`, `WorktreesKept`, `GraphFollows`, `MergeIsFenced`,
`EndedIsSettled`, `CloseReturns`. They speak of the agents about which no lost write
misled the Manager (7); the last two also except a hung mutex, and `CloseReturns` a
canceled turn that does not end. `GraphFollows` says that the graph is where the Manager
believes or one legal transition ahead, and that a record the Manager was not told
of has had no effect.

*MCP.* `NothingLeaks`, `RetryPending`, `StaleIsReloading`, `Recovers`, with the
exceptions their comments name: a hung mutex, a collision of names, a dead
transport, a ping that is never answered, a notification that came too late for the
refresh that dropped it.

`SubagentTypeOK` and `PoolTypeOK` say which values the state takes; they are
proved (6) and not run.

Every property has a mutant: a definition of the model changed as a plausible bug
would change the code (marked `Mutant:` beside the original), under which TLC
finds the property violated.

## 6. Proofs

`TurnKernelTypes` proves `Spec => []TypeOK`, one lemma per group of actions.
`TurnKernelProofs` proves `Spec => []IInv`. The invariants are not inductive one
by one: that a committing turn owes its journal effect (`CommittingSettles`) needs the
effect ledger (nothing but the journal effect is pending), which needs the agreement of effects with calls
and waits (`NoOrphanEffect`), which needs unique keys, so that finishing the
first pending effect of a key finishes the only one; and unique keys need
`History`: a call or sample that has an effect is no longer new. `IInv` is their
conjunction with `TypeOK`. Each action is one lemma that shows the parts it can
disturb. From `IInv` follow `AlwaysValid`, `CommittingOwes`, `OutputReady`,
`EffectLedger`, and `Refinement`: every step is a step of `TurnLifecycle` or
leaves its variables alone.

`TurnRuntimeProofs` first proves `RuntimeImplementsReducer`: every step of the
runtime is a command of the reducer or leaves its state alone. The argument needs
that the registry is well typed and that a retained approval or input result
names a request (`RegistryOK`), and that the driver works towards a decision
(`WantOK`, which a restart takes from the reducer's `ValidTerminal`); both are
carried along with `IInv`. With it the invariants above hold of the runtime too
(`RuntimeSound`), a turn in committing can finish because its text was withdrawn
before the decision, whatever failed or crashed on the way (`CommittingEnds`), and the
runtime implements `TurnLifecycle`
(`RuntimeLifecycle`), with crashes, failed commits and refused results, for any
number of calls, requests and samples.

Its second half proves what the runtime adds: `RuntimeTypes`, `Routed`
(`RegistryCovers`), `OneSample` (`SingleSample`), `Executions`
(`ExecutionCovered`) and the action property `Rejected` (`RejectionHolds`). The
inductive invariant `DriverInv` joins them with what they lean on. The driver requests
a sample when the registry has none, which is the same as the durable ledger
having none only by `RegistryCovers`; a sequence number that was not issued has
no effect yet (`Unissued`). That an execution has its own durable start needs the
number of executions counted against the attempts of the call's tool effect
(`Counted`, `Recorded`, `Untried`), that executors run only while the driver waits
for them and under a started effect (`Idling`, `Executing`), and what each
position of the driver in a batch says of the batch's effects (`Admitting`,
`Starting`, `Owed`). `Asked` and `Denying` tie the requests a
canceled batch still has to deny to the calls that asked. A step of the runtime
is described once by what it does to each effect, `Moves(M, N)`: effects of the
kinds `M` finish, begin or yield, effects of the kinds `N` are issued, all others
stay; the invariant's parts are then shown from that description and not from the
actions' texts. `Find` returns the least pending effect that matches; that there
is one comes from the well-foundedness of the natural numbers (`FirstEffect`).

Its third part proves `Durable` (`ResumedIsDurable`) and `Answerable`
(`RequestAnswerable`), each under conditions that its statement assumes, because
it is false in general: a tool asks for one thing at a time (`~ConcurrentAsks`);
for the first no commit fails or no input is asked for; for the second no commit
fails and all requests are approvals. `ResolveApproval` finds the wait by its
call, not by its request, and submits the result that is retained, not the one it
was given. That the answer is nevertheless the request's own needs: no call has
two approvals pending (`Lone`), which Ask keeps because a pending approval is known
to the request ledger (`Registered`) and was not told yet (`Told`); a wait retains
answers to its own request only (`Owned`); an entry that is over and still routed
belongs to a closed call, so `Find` does not meet it first (`Retired`); a request is
asked once (`AskedOnce`); and what holds between the two commits of a method and
while AbortTools denies (`Midway`, `Denied`). `Answerable` adds that every pending
approval is waited for, so the answer finds a wait that can be started (`Waited`),
and that only a cancellation has the reducer refuse one (`Answered`). Their
conjunction is `WaitInv`. Most steps ask nothing: `Plain` and `Calm` say what such
a step may do, one lemma shows that it keeps `WaitInv` (`WaitCalm`), and the
others that the steps are such steps.

Its last part proves `Stuck` (`StuckIsPoisoned`), for any number of crashes and
with input requests, when a tool asks for one thing at a time. Settle gives up when
an abort of its last attempt fails, and an abort fails for one of two reasons: the
registry offers no effect that can be started or resolved, or the reducer refuses
what the effect retains.
The inductive invariant `PoisonInv` rules out the first and narrows the second
down to the tool calls of a sample and the canceling answer of an approval that
come after a cancellation (`Poisoned`). A pending sample is the one the turn is in,
so that its abort is started and accepted (`Exact`, `Synced`); an effect retains
only results of its kind, and an abort only after a failed commit (`Suited`); the
effects of a batch that is executed were started (`Launched`); the aborts are in
order, so that a tool effect is aborted when no wait is left (`Late`). The hard
part is the input wait. The result of its call retires it and leaves its entry
behind, and the next wait is then hidden from `Find` by that entry: neither a reply
nor `AbortForTerminal` reaches it. It is harmless
because such a wait belongs to a call of the batch that has not been closed, and
whose result retires it before the batch ends (`Stale`, `Attended`). `Spoiled` and `Trapped` are the property itself,
before and after settle has given up. A step is again described by what becomes of
each effect (`Fates`: it rests, turns, ends, comes or is reset), and `Exact`,
`Suited` and `Launched` are shown from that description in one lemma.

`SampleGateProofs` proves the gate's safety properties for any finite sets
of samplers, any number of slots and any delays. None is inductive alone. That
the receive under the mutex never blocks holds because every sampler that could
take the token in between is counted in `foreground`, which the holder of the
mutex saw as zero. So the count must be exact (`Counted`: the turns being served
plus the samplers between `Enlist` and `Discharge`), and so must the tokens
(`Slots`: free ones plus their holders are `MaxConcurrent`). With what a locked
mutex and a parked sampler imply (`Locked`, `Parked`), with `BackgroundYields`,
with the route's `Routed` and `PacedApart`, and with what a refused sampler owes at
each place of its retry (`Owing`), they are the inductive invariant. Steps that move a sampler between two places with the same
meaning for the counts are dealt with together (`HarmlessSteps`), the others each
by a lemma over `CardGrows` and `CardShrinks`.

`EventHubProofs` proves `HubTypes`, `Gapless` (`NoGap`), `Deduplicated`
(`NoDuplicate`) and `Lossless` (`LosslessButFailed`), for any events, clients,
buffers, foreign writers and failures. They are facts about one subscription at
a time (`Stream`). `Ordered` says that between the cursor and an entry of the
channel every event of this Runtime that did not fail is queued before the entry;
the fanout keeps it only because what is stored beyond the fence was announced,
failed, or is the one being published (`Covered`), and what was announced is
queued (`Queued`). While the page is replayed the channel holds nothing at or
below the fence, so page and live suffix never overlap (`Channel`). That every
set of numbers the store can be asked for has a listing in order, so that `Page`
is one, is an induction over natural numbers, taken from `WellFoundedInduction`
in the form of least elements (`LeastNumber`).

`McpPoolProofs` proves `PoolTypes`, `Unleaked` (`NothingLeaks`), `Retried`
(`RetryPending`) and `Refreshed` (`StaleIsReloading`). Everything rests on who may
touch a connection: the holder of `Pool.lifecycle` alone builds, publishes and
closes (`Held`, `Building`, `Connecting`). A retry for which neither timer nor
flag stands is one the worker still comes to in the pass it is in (`RetryDue`),
and a catalog is followed from the connection that discovered it, before the pool
offers it (`StaleKnown`); each is the property strengthened to the
intermediate states in which the property itself exempts or does not see the
server.

`SubagentsProofs` proves `SubagentTypes`, `Slotted` (`TurnsHoldSlots`),
`Worktrees` (`WorktreesKept`), `Followed` (`GraphFollows`) and `Fenced`
(`MergeIsFenced`), for any number of agents, turns and faults and any
`MaxParallel`. A step is about one agent and leaves the others alone
(`Untouched`), so the invariant is one of every agent by itself (`AgentOK`). Its
core is where the agent's turn is: tracked while it may run, then in the hands of
one settler, while the start that submitted it may still be on its way
(`Tracked`, `Settling`, `Calling`, `Abandoned`, `Retrying`). From it follow when
the graph may be ahead of the Manager (`Following`, which claims nothing of an agent in
`misled`), what a close and a merge may
meet (`Closing`, `Merging`), and which worktrees are kept (`Kept`). The number of
busy agents is counted apart (`SlotsOK`).

`WorkspaceJournalProofs` proves `JournalTypeCorrect` (`JournalTypeOK`) with no
assumption beyond the module's, and, for one process at a time
(`~Shared`) and turn ids that are used once (`Merges = {}`), `JournalKeepsUndo`
(`RecordedIsUndoable`) and `JournalUndoesItsOwn` (`UndoesOnlyItsOwn`), for any
number of processes after each other, turns, files, contents and failures. The
inductive invariant `JournalInv` has four layers, each proved with the ones below
it:

* `Shape`, the types: journals, the ledger and the tasks of restores are well
  formed and a journal lists a path exactly once. A write takes an identity that
  is nowhere in use; that there is one (`FreshId`) is counting: finitely many
  records hold finitely many identities.
* `Life`: at most one process is at work, it alone has memory, and what kind of
  work it has goes with its status. This is where `~Shared` is needed.
* `Standing`: a turn id is in one place at a time (active, kept, being restored or
  only in the ledger), and an unaccepted turn that is in memory is pending in the
  ledger. Begin may take an id only because it is new, which needs `Merges = {}`:
  the run `merge_committed_twice` shows what happens otherwise.
* `Truth`: the records a process or the ledger has of a turn agree with what the
  turn did (`dirty`): where the file still is what a record says the turn left,
  its before-image is what the file held before the turn. It is a statement about
  the memory and the ledger separately, since an append may fail between them; the
  ledger may lag behind for the writes named by `torn` only.

Beside them `Looked` says what a restore that has checked a path knows: the file it
saw was what the record says the turn left. With `Truth` the write that follows is
then the turn's own undoing, unless the file has changed since, which is the case
`UndoesOnlyItsOwn` excepts.

Most steps do nothing to most turns, or only take from a turn what it did: a file
is overwritten by somebody else with a fresh identity, an accepted or undone turn
is forgotten. `Fade` says so of one path, `Calm` of a whole turn, and one lemma
each shows that memory and ledger stay true in such a step; what remains are the
steps with which a turn itself adds to its records. What the filter `Picked`
returns (every element whose position is chosen, once, in order) is proved by
induction over its length, from the least counterexample (`InductiveSet`).

Every one of these invariants was first checked by TLC with the constants of the
runs, as an invariant of the specification.

The assumptions are those of the modules: `None` is no identity, number or pair of
the kind it is used beside, bounds are natural numbers, switches Booleans,
samplers finite and of one kind each, managers, turns and paths of the journal
finite; requests share no identity with calls and
samples, since the idempotency keys of effects have a prefix for their kind
(`reducer_interaction.go:169`, `reducer_tool.go:55`). TLC evaluates them in every
run.

Only model-checked:

* everything under fairness, which is beyond the prover: `TurnEnds`,
  `RestartSettles`, `CatchesUp`, `QueuedIsServed`, `EndedIsSettled`,
  `CloseReturns`, `Recovers`;
* the mutants.

Why the three properties of requests are conditional: with `ConcurrentAsks` a
settle can get stuck without a refused result, and when commits fail as well
(`MaxFaults > 0`) the retained approval of one request can be submitted when
another request of the same call is resolved (7). A failed commit leaves an
aborted input wait its aborting result, which a late reply then submits, so
`ResumedIsDurable` needs `MaxFaults = 0` or no input request. A reply whose commit
failed is not submitted again (7), a turn that asks for input twice can lose the
second request (7), and one that asks for it once can lose it between two crashes
(7), so `RequestAnswerable` needs `MaxFaults = 0` and is about approvals only,
in its theorem as in its run. Each of these is a counterexample of TLC.

## 7. Findings

### With a run

* `cancel_beats_calls`: a cancellation is committed while the driver finishes a
  response that proposed calls. `applyToolCalls` refuses the result, but the
  dispatcher has retained it, and `AbortProviderSamples` resubmits it instead of
  its own. The turn has no terminal state until a restart.
* `merge_committed_twice`: every merge of a session begins the turn id
  `chat-merge-<session>`. The second `Commit` finds the id committed and returns
  without writing the ledger; after a crash `Recover` undoes the accepted merge.
* `mutex_hangs`: a transition published under `Manager.mu` drains the observer
  queue in the same goroutine. A queued approval event of a child calls
  `AwaitApproval`, which waits for that mutex, for ever.

### Seen while modelling, without a run of their own

Each was reproduced by TLC with one more property, bound or history variable, or
follows directly from the lines named.

*Turn.*
* `reducer_interaction.go` accepts `approval_required` in `awaiting_approval`;
  `command_matrix.go:49` allows it in `executing_tools` only.
* One call that asks for two origins at once (the egress proxy asks once per
  origin): the second `RequireApproval` (`runtime_kernel.go:574`) finds the first,
  started effect; its request stays pending and `AbortTools` pairs requests and
  effects of the call wrongly. Not even a restart gets the turn out of it. Hence
  `StuckIsPoisoned` and `ResumedIsDurable` are checked without `ConcurrentAsks`.
* A reply leaves the request ledger before its commit (`turn_scope.go:330`). When
  the commit fails nothing retries, and the user's second reply is a duplicate. A
  reply whose waiter leaves between the two steps is lost in the same way.
* When the commit of the journal's result fails, the dispatcher retains it, and
  settle does not try again (`kernelStarted`): the turn stays in committing until a
  restart.
* The reducer accepts a failed or canceled decision while text is captured and then
  refuses `FinishTerminal` (`reducer_terminal.go:9-81`); only the runtime, which
  discards the text first, keeps a turn from committing for ever.
* Two approvals answered with cancel: the second is refused
  (`reducer_interaction.go:83`) after its request was consumed, and its executor
  is never resumed (`Waits`, the exception of `TurnEnds`), though `docs/zh-CN/architecture.md:985` calls cancel an
  explicit terminal state. `RequestAnswerable` therefore ends at a cancellation.
* A turn that asks for input twice: the timer of the first wait finds its request
  already taken by a reply and returns (`engine/approval_handler.go:117-122`), the
  tool's result is committed first and closes the wait, and the reply's
  `ResolveInput` is refused. The wait's effect is over, but its started entry
  stays with the dispatcher, which deletes an entry only for its own result
  (`effect_dispatcher.go:208`). The next `RequireInput` commits its request, finds
  that entry first and fails as already started (`runtime_kernel.go:662`): the
  request is pending and registered nowhere. The runs have at most one input request.
* `AbortForTerminal` ends the wait for input and resolves the request in two
  commits (`runtime_kernel_terminal.go:128` and `:137`). After a restart a batch
  that waits for input can fail its admission, and the turn is settled without
  being canceled; a crash between the two commits then leaves the request pending
  with no wait of its own. The next restart executes the batch again, its tool
  takes up the recovered request, and every answer to it is refused.
* Recovered approvals are kept by call id (`guard.go:1364`): the second recovered
  approval of one call replaces the first.

*Journal.*
* `Commit` releases the before-images of files the turn left alone
  (`journal.go:784`), but the ledger still lists their handles; after a crash
  `Recover` releases them again (`durable.go:307`), and the image another pending
  turn needs is deleted. `ledger.go:18` promises "enough to undo what it
  started". The rollback of that turn then ends as a conflict.
* A second live process on the same journal (`Shared`) recovers turns the first
  is still in; `Begin` with the id of a kept conflict wipes its record; a
  partly restored turn reports a conflict with its own restore when it is tried
  again; a draft whose last write was never recorded is discarded as unchanged
  (the exemption `torn`); an edit of the user between two writes of one turn is taken
  for the turn's own (`journal.go:411-414` keeps the first before-image, `After` takes
  the file as it is), so its undoing loses the edit; so does an edit between the check
  and the write of a restore (`journal.go:914`, `:966`).

*Event stream.*
* A pending stable event is announced after later ones; the web client drops
  what is not above its cursor (`web/src/runtime/client.ts:2173`); compare
  `host/intergration_test/scenarios_test.go:48`. Its publication reported an
  error, which is the exception of `LosslessButFailed`.
* `host/server.go:2305-2320` answers a refused subscription with a "resync" frame
  before "hello". The client treats every frame before "hello" as a violation of the
  protocol (`client.ts:2083-2094`), so its own handling of "resync", which would
  reconnect (`client.ts:2105-2113`), is never reached: a client that was too slow
  during its replay stops until the user opens it again. This is the exception of
  `CatchesUp`.

*Rate limiting.*
* `waitCooldown` reads the shared cooldown once and `ObserveSuccess` clears it
  (`shared_rate_limit.go:237`): a 429 recorded while a sampler sleeps does not
  hold it back, though `docs/zh-CN/configuration.md:522-524` says that it freezes
  every slot. The route's own cooldown is cut short as well: a success of an older
  request sets the next request to one interval from now (`controller.go:137`), though
  `docs/zh-CN/configuration.md:523-524` and `:591-592` say that the next attempt waits
  out the window. What holds is the wait of the sampler that was refused
  (`RetryWaits`), which sleeps its own Retry-After before it tries again.
* `model_handler.go:837` reports success for a stream that failed with input
  pending.

*Subagents.*
* The operation id of a graph transition names the revision and not its content
  (`agent:<id>:<revision + 1>`). A write that is durable but reported failed (the
  projection after the append fails, `hub.go:298-304`; a result's status and its
  completion message are two appends, `agentgraph.go:82-103`) leaves the graph one
  revision ahead, and the Manager's next transition, whatever it is, is taken as
  already applied (`agentstore.go:370`). Manager and graph then hold different
  statuses at one revision: a settlement may be refused for ever, with its entry in
  `settlementErrors` keeping every child from being started; a terminal result may
  be hidden by the Running of the same turn, though `control.go:439` expects it to
  win; after a lost "integrating" and a follow-up a restart finds a live turn without
  a slot. This is `misled`, the exception of every property of the subagents.
* A spawn that is durable but reported failed discards its worktree
  (`subagent.go:307-316`), while the graph keeps the agent. This is `misled` too.
* A `FinishIntegration` that fails, followed by a restart, has the reconciliation plan
  a transition from failed to failed, which `validIntegrationTransition` refuses:
  the graph of the session cannot be attached.
* A close waits for the turn it canceled (`subagent.go:720`, `:784`); a turn left
  without a terminal state by `cancel_beats_calls` keeps it waiting until a restart.
* A start that fails and whose Failed cannot be written leaves the agent starting
  with no owner and its slot taken until a restart; a refused write of
  `FinishIntegration` likewise leaves it integrating.
* A failed removal of a worktree leaves the agent closed; a second close returns
  at once and the worktree stays.

*MCP.*
* `ReloadServer` resolves collisions of tool names under `Pool.mu`
  (`pool.go:365`). A collision that begins or ends changes a breaker, which emits,
  and `emitHealth` takes `Pool.mu`: the goroutine waits for itself, and then every
  reader of the catalog does. TLC gets there in six steps; this is `hung`.
* "Fail closed until a full server-scoped rediscovery succeeds" (`pool.go:358`)
  does not last: a late success of an older call, or the worker's next ping,
  closes the breaker over the old catalog. In the same way a server closed for a
  collision is reopened and two visible tools have one name; the registry's sync
  then quarantines one.
* A `list_changed` that finds a refresh past its discovery is dropped
  (`pool.go:311`), the exception `missed` of `StaleIsReloading`.
* A stdio server that died is never connected again: `Reload` skips a runtime
  that has a connection (`pool.go:136`), and its pings fail for ever. `Recovers`
  exempts it.
* The worker's ping has no deadline (`prewarm.go:221`, `pool.go:676`): a server that
  never answers it stops the retries of all. `Recovers` excepts it.
* The deadline of a refresh starts before it has `lifecycle` (`pool.go:323`, `:344`):
  behind a slow reload of other servers it fails without asking its own, and opens
  that server's breaker.

## 8. Not modelled

The turn state store and its leases, repair budgets and convergence, the token
window of the rate limiter, mailbox and budgets of the subagents and the MCP
registry sync are planned (2). Prompt assembly and compaction, policy evaluation,
configuration, tools, language servers, providers' wire formats and the three-way
merge of texts transform data inside one goroutine; the models see their results
as free choices. The front ends, the command line and the desktop shell are input
and output: the user appears as actions of the environment. The repository has
some 186,000 lines of implementation and most of them are of these kinds; the
modules here cover the places where several goroutines, processes or durable
stores have to agree.

Out of the prover's reach, and so with TLC only: liveness under fairness and
`ENABLED`. The library's induction theorems take a predicate as a parameter, which
the installed provers cannot instantiate; where a proof needs induction over
numbers (`Page`, `Picked`) it is done through least elements of sets.
