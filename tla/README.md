# yolk-sdk: a verification project in TLA+

This directory models the parts of yolk-sdk whose correctness depends on the order
in which concurrent things happen, checks the models with TLC on small instances
and proves the properties that matter most with TLAPS, for every value of the
constants. Modelled are: `packages/harness`, the library that decides who runs an
agent, keeps its work claimed across crashes and parks it for human answers; the live
drain of the Cloudflare agent, which gives a session's websocket calls one owner on top
of it, and the session log its runs append to; the ledger that keeps a redelivered tool
call from running twice; the durable workflow that runs an agent and asks people about its
tool calls; the credential pool's failover; the sandbox's lifecycle; and the worker admission of the extractors.

    tlc -workers 2 -config MCHarness.cfg MCHarness     # model-check
    tlapm HarnessProofs.tla                        # check proofs

## The system

yolk-sdk is a TypeScript monorepo written with Effect. Fibers are cooperative: a
fiber runs until it yields, waits or calls out, and an interruption takes effect
where the fiber is interruptible. That is what the step of a model is: the code
between two points at which a fiber can be suspended.

| Component | State it keeps | Operations | Interacts with | Hard part |
|---|---|---|---|---|
| harness / `RunStore` (`store.ts`) | claimed run ids, resume counts, in memory and in a snapshot | claim, release, incrementResumeCount, reads | saved through the host's asynchronous `save` | save failures, crashes, concurrent mutations |
| harness / `RunCoordinator` (`coordinator.ts`) | one execution per run: owner fiber, scope, doorbell, stopping, reason | run, wake, interrupt, terminalStop, settlement | claims through RunStore; runs the drain | wakes against settlement, late interruptions |
| harness / `Inbox` (`inbox.ts`) | queued items, pending intent, live drain token, HITL park, one gate | enqueue, take, park, accept, begin/endDrain, invalidate | called by Driver, by the drain and by hosts | stale tokens, answers to sibling questions |
| harness / `Driver` (`driver.ts`) | a sweep semaphore | run, wake, admit, interrupt, stop, pause, resumeHitl, resumeSuspended | composes the three | recovery, stop under the gate |
| pool (`pool.ts`, `rank.ts`, `store.ts`) | cooldowns, usage readings, session pins | pick, attempt, fail over, pin | provider calls | concurrent cooldowns and pin moves |
| cloudflare agent (`drain-lifecycle.ts`, `drain-occupancy.ts`) | live owner and its token, epoch, reconnect generation, occupancy | beginPrepare, runOwned, reconnect, closeOwner, runHeld | websocket calls; runs and interrupts the harness's driver | reconnects, closes and cancellations against owners |
| agent runtime (`run-runtime.ts`, `session-event-store.ts`, `session-event-storage.ts`) | the session's event log and its revision | append input, append HITL, run | storage | read, await, then write |
| sandbox (`lifecycle.ts`, `vercel/layer.ts`) | provider sandbox and its recorded name | ensure, touch, stop, delete | Vercel API | ensure against delete, expiry |
| vercel-workflows (`workflow-loop.ts`, `workflow-children.ts`) | turn, answers and requests of the batch | run a step, dispatch a batch, wait for a person, retry | the agent loop in its steps; Vercel Workflow | retried steps, answers one at a time, failing siblings |
| tool ledger (`tools/ledger.ts`) | one entry per call: a claim with its lease, then the outcome | claim, run, heartbeat, record, wait, replay | a store of the host; the steps that deliver a call | a step delivered twice, a crash between claim and record |
| other agent tools (`plan-runtime.ts`, `background.ts`, `subagent.ts`) | plans, background calls | execute, approve | the loop, the session log | approval against replay |
| agent voice (`outbox.ts`) | batch of events to send | add, flush, retry | server | interruption of a flush in flight |
| extractors (`worker-admission.ts`, `extraction-isolation.ts`) | slots taken and a queue of waiters, per layer and for the realm | withSlot, twice nested; hand-off, timer, interruption | worker threads | a slot handed to a waiter that expires or is interrupted |
| agent loop (`loop/run.ts`) | a turn's batch: what each call was prepared to | prepare, ask, dispatch, resume | the host's tools, read anew in every step | policies that change between a question and its answer |
| providers, client, React, mcp, codemode | conversation state | stream, fold, render | provider APIs | mostly sequential folds over I/O |
| knowledge (`ingestion.ts`) | documents and chunks in a store | ingest, delete, search | store, embeddings | a failed ingestion is recorded at best effort |
| connectors, emulators, files, conformance | none of their own | API calls | provider APIs | none that a model would show |
| apps, examples, scripts, lint rules | | | | not part of the library |

For each component, what makes it correct:

- RunStore: a mutation that was acknowledged survives a crash, one that failed is
  not seen, none overwrites another, and the lock always comes back.
- Coordinator, Inbox, Driver: at most one drain per run holds authority; no
  admitted intent is lost; a drain's owner is always claimed; a stop is final; an
  interruption hits the owner it was made for; answers reach a drain at least
  once and never before all of them are there; recovery resumes orphans only and
  stays within its budget.
- Pool: a request never goes back to an account that failed it and repeats nothing its
  consumer has seen; a cooldown is cleared only by a reading taken after it began; a
  lockout is reported as one.
- Live drain: one owner and one drain, which runs its owner's work; a reconnect
  finalizes the log with nobody beside it and admission reopens after it; an
  interruption hits the run it was meant for; a finished owner leaves.
- Session log: no append is lost, a resumed batch is given its own answers, and a
  reconnect preserves a pause.
- Tool ledger: a call runs at most once under its key; every answer that carries an
  outcome carries the same one; a lease outlasts a late heartbeat.
- Sandbox: an operation works in the workspace of the last one or hears of a reset.
- Workflows: a call runs only with the consent its tool asks for, given in this turn and for
  this form of the call; a denied call stays denied; a question holds up the whole batch; the
  model goes on with a result for every call; an answered run ends.
- Voice outbox: every event is sent or still queued, in order.
- Worker admission: at most N workers, in the realm and per layer; slots are neither
  leaked nor freed twice and none idles beside a queue; first come, first served; no
  admission past the deadline.

## Modules

| Module | Models | Notes |
|---|---|---|
| `ClaimStore` | what a RunStore promises: one record changed by whole operations | abstract specification |
| `RunStore` | `RunStore.snapshotLayer` | implements `ClaimStore` with `stored <- durable` |
| `MCRunStore` | instance of `RunStore` | |
| `StoreProofs` | theorems about `RunStore` and `Pool` | the two modules about a store many use |
| `Harness` | coordinator, inbox, driver and (atomic) store in one process | |
| `MCHarness` | `Harness` with a bound on outside calls | |
| `HarnessProofs` | theorems about `Harness`, among them that the store it needs is `ClaimStore` | |
| `SingleOwner` | what the live drain promises: one owner of a session at a time | abstract specification |
| `LiveDrain` | `makeLiveDrain` and `makeDrainOccupancy` | implements `SingleOwner`; the driver is external |
| `MCLiveDrain` | instance of `LiveDrain` | |
| `LiveDrainProofs` | theorems about `LiveDrain` | |
| `WorkerAdmission` | `withSlot`, nested as `makeWorkerExtractor` nests it | |
| `MCWorkerAdmission` | instance of `WorkerAdmission` | |
| `WorkerAdmissionProofs` | theorems about `WorkerAdmission` | |
| `Pool` | `makePool`'s `provider.stream` and `recordReading` | the store is its contract; its formulas are named `PoolInit`, `PoolNext`, ... to be extended beside `RunStore` |
| `MCPool` | instance of `Pool` | |
| `SessionLog` | a session's sends, from the check of the log to the last append | deals with the live drain by steps of `SingleOwner` |
| `MCSessionLog` | instance of `SessionLog` | two configurations |
| `SessionLogProofs` | theorems about `SessionLog` | |
| `ToolLedger` | `executeLedgered` over `ToolLedgerStore` | the store is its contract |
| `MCToolLedger` | instance of `ToolLedger` | |
| `ToolLedgerProofs` | theorems about `ToolLedger` | |
| `SandboxLifecycle` | `ensureSandbox`, its users and `delete` | checked as it is, two configurations |
| `WorkflowLoop` | `runVercelAgentWorkflow`, `orchestrateWorkflowToolBatch`, `prepareToolBatch` | the steps are those of the sample host |
| `MCWorkflowLoop` | instance of `WorkflowLoop` | two configurations |
| `WorkflowLoopProofs` | theorems about `WorkflowLoop` | |
| `SandboxLifecycleProofs` | theorems about `SandboxLifecycle` | |

### RunStore

`durable` is what `save` last wrote, `memory` the layer's `Ref`, `lock` the
semaphore. A fiber in `mutate` is `waiting` (the only interruptible part:
`CancelWait`), `saving` (`Acquire` took the lock and computed the next snapshot
from the memory) and `saved` (`SaveOk`); `Commit` then replaces the memory and
gives the lock back. `SaveFails` dies without writing. `Crash` loses everything
but `durable`. A `save` that writes and then reports failure is not modelled: the
host's storage is assumed to answer truthfully.

### Harness

`exec[r]` is the coordinator's `Execution` of run r together with the place its
owner fiber has reached:

    forked -> claiming -> loop -> begin -> draining -> ending -> drained -> loop ...
                                                                        \-> releasing -> settled

`forked` is the first yield, `claiming` the save of the claim, `begin` the wait for
the gate in `beginDrain`, `draining` the host's drain, `ending` the wait for the gate
in `endDrain`, `releasing` the save of the release; in `releasing` and `settled` the
execution's `owner` is undefined. `interrupted` says that the interruption was
delivered; `Unwind` takes effect where the fiber is interruptible. `requests` holds
the interruption requests that were forked and have not had their turn, each for
the owner it captured. `control[r]` is the inbox's `RunControl`, with 0 for no token,
no lease and no park. `gate` says who is suspended while holding the inbox gate: a
stop joining its request or releasing a leftover claim, or the sweep saving its
decision. Everything else the gate protects runs without suspending and is one step.
`host[r]` is what the host's drain was called with. The store is `claimed` and
`resumes`, changed when a save answers; that it may be taken as atomic is what
the refinement of `ClaimStore` by `RunStore` shows, and that the harness asks no more of
it than `ClaimStore` is `KeepsToStore`, proved as `StoreIsEnough`.

Three variables are history. `owed[r]` is the widest intent admitted for r and not
drained since; it is reset where the code gives an intent up (an interruption, a
stop, a claim that failed to save, a park that was cleared). `stopped[r]` says that
r was stopped and has not been started since; it is reset when a release fails to
save. `served[r]` is the last park of r whose answers a host drain was given before it
returned in success; a restart, which loses the parks, resets it.

What is abstracted:

- items are kept as their delivery scope (`queue` and `input` are one scope to the
  code), answers and questions as ids; payloads and decisions shown to callers are
  not kept;
- the `force` flag, which the harness only hands to the host;
- an operation that the code answers with a decision and no change (a stale token, a
  duplicate answer, an unknown question) is no step;
- `awaitIdle`, `active`, `isActive`, `pending` and `parked`, which change nothing, and
  `Coordinator.run`, which the driver does not use;
- the graceful closing of the layer, whose effect on an owner is an interruption
  without a reason: the host's drain may end that way (`DrainExit` "interrupt"), and
  `Crash` covers the rest.

Two places where the model allows more than the code: an interruption is delivered
and takes effect in two steps, and any token ever handed out may be presented at any
time by a fiber a drain left behind. One place where it relies on the runtime:
between the end of `beginDrain` and the registration of `endDrain` the code has no
suspension point, so no interruption is delivered there (the runtime yields by
itself only after some two thousand operations).

### LiveDrain

The variables are the `Ref`s of `makeLiveDrain` (`epoch`, `generation`, `reconnecting`,
`owner`), the occupancy's `slot`, the `gate` (who holds it across a suspension; what
runs under it without suspending is one step), and the driver as its callers see it:
one `execution` of the session (`starting` up to its claim, `working`, `interrupted`,
`idle` once it has settled), whose `work` it runs, and for each start the `run` that
was forked and its `done` (`behind` while it waits for an execution that has been told to
stop, `running`, `settled` when the execution is, `done` when the detached fiber has
reported it, `failed` if it ended in more than interruptions).
`start`, `recon` and `close` say where each call is:

    runOwned    idle -> prepared -> awaiting -> releasing -> gone
                             \-> gone   \-> cancelling -> settling -> joining -> releasing
                             \-> doomed -> deserting -> deserted
                                     \-> gone
    reconnect   idle -> settling -> awaiting -> finalizing -> clearing -> gone
    closeOwner  idle -> settling -> awaiting -> releasing -> gone

`settling` is `userInterrupt` with `awaitSettlement`, under the gate. What interrupts
may find no owner and go straight on. A reconnect comes to `clearing`, its `ensuring`,
also when it is superseded, the run it awaited died, its finalizer died or its caller
left; a close whose run died ends without its release, and so does one whose caller is
interrupted (`CloseAbandoned`). An execution may settle at any time, in success or
failure, whether or not it was interrupted.

A start whose caller is interrupted while it queues for the gate is `doomed`: the wait is
uninterruptible (`drain-lifecycle.ts`, 174-176), so it is turned away or admitted when its
turn comes, and if it is admitted, `restore` (187) raises the interruption before
`onInterrupt` (190) is in place. What is left is its `casRelease` (199): it is `deserting`,
then `deserted`, its slot and ownership given up while its run goes on. This is a defect;
see below. The properties except the runs of such starts (`Lost`), and nothing else.

What is abstracted: every start has one socket and is its own token; the session's
other uses of the driver (there are none in `yolk-agent.ts` while the object lives);
`afterInterrupt`, a hook of the tests; the order of the gate's queue, which serves any
waiter. A reconnect interrupted while it waits for the gate behaves as one abandoned
later; a close so interrupted has done nothing. A start that is
admitted while a lost start's execution goes on joins that execution, as `driver.run`
does: it is the owner of a run in which its own work may never be done, and its stage
stays `waiting` until the execution settles.

`SingleOwner` is what those who use the session see of it. A start is `fresh` if it has
prepared in the present epoch; `stage` is what the owner's work has come to (`waiting` until
its drain runs it, `working`, `over` once it has settled); `admission` is open, closed
while a reconnect is on its way, or `finalizing`; `lost` are the starts admitted after
their callers had gone, the only owners that may leave at any time (`Desert`). The gate, the
tokens, the generations, the interruptions and the waits of the callers are hidden:
`LiveDrain` gives these as `Fresh`, `Stage`, `Admission` and `Lost`.

### WorkerAdmission

`active` and `waiters` are the two fields of each `SlotPool`, for every layer and for
the realm. `stage[e]` is where an extraction is: `queued` in the pool it wants,
`handed` or `refused` between a hand-off and its microtask, `working`, `terminating`
until `worker.terminate()` settles. `nested[e]` says that it is past its layer's pool.
`time[e]` is its deadline: `early`, `due` (the clock shows the deadline: the timer may
fire, `expired` still says no) or `late`. A step is what JavaScript runs without
yielding: asking for a slot, taking both and starting the worker is one step; ending
an extraction, wherever it is, takes it out of its queue and releases its slots with
all the hand-offs this makes (`Ends`).

What is abstracted: microtasks run in any order, where the code runs them in order of
hand-off; a worker that cannot start ends its extraction at once (`ResumeInVain`);
what it extracts. `processSlotPool`, which finds the realm's pool in `globalThis`, is
part of `Init`.

### Pool

`pins`, `cooldowns` and `readings` are what the store holds per route and per account;
`now` is the hosts' clock. `req[r]` is one call of `provider.stream`: `load` (the
snapshot is awaited), `clear` (one `clearCooldown` after another), `move` (`movePin`),
`stream`, `put` (`putCooldown`), `done`. A pick is one step once its snapshot is there
(`Picked`): it drops stale cooldowns, ranks what is left (`Ranked`, the whole of
`rankPool`) and remembers the pin it saw. Every store call may fail, and a failed load
goes on without pool state. `emitted` says that the consumer has seen an event,
`excluded` and `recorded` are the accounts that failed this request and the cooldowns
it put, `told` the kind of the final error. `RecordReading` is the host's polling.

What is abstracted: the failures that call for a cooldown are a quota lockout of one of
a few lengths or a rejected credential, as `poolFailureCooldown` would read them off an
error; every other failure ends the stream; windows carry only what the ranking reads.

### SessionLog

`log` is the array of events in storage. `send[s]` is one `handleRuntimeAppend`, from
`Prepare` (`beginPrepare`) over `Check` (the log is read and an open run refused),
`Register` (`runOwned`) and the two appends of `runRuntime`, each a `Read` and a
`Write` with an await between them, to `Leave`. `owner` and `epoch` are the live
drain's; that at most one owner runs and that a reconnect finalizes alone is what
`LiveDrain` shows for sessions in which no send is interrupted while it waits for the gate,
so they are guards here. (The run of a send that was lost there could overwrite what its
successor appends; that is not modelled.) They are the guards of `SingleOwner`, whose
steps are the only ones by which sends and reconnects deal with the drain
(`KeepsToSingleOwner`); in the other direction, each step of `SingleOwner` is open to the log
too, save that an owner leaves before a reconnect finalizes, not with it, and that a
reconnect that has finalized reopens at once. `recon` is the newest reconnect and the log it read: a
newer one supersedes one that waits, and `ReconnectLeaves` is one that ends without
finalizing, its caller gone or the awaited run dead.
`Restart` is a fresh isolate, `Interrupt` a closed socket or a reconnect's interruption:
a run stops anywhere, with what it has written. Positions in the log are revisions.
An event keeps its type, its run, its questions and `batch`, the position of the
assistant message whose tool calls are meant.

What is abstracted: the loop between the appends is every outcome it may report
(`Outcomes`); contents of messages; the transcript run, which appends nothing. The
questions' identities are given by a provider and may repeat, so they are drawn from a
small set.

### ToolLedger

`entries[k]` is the store's entry of a key: the call, its lease, its outcome. `exec[e]`
is one delivery of the step that runs a call: `claiming`, `waiting` and `polling` while
another execution runs it, `claimed`, `running`, `recording`, `done` with its `result`:
an outcome, its own or a replay, or a refusal. `beat[e]` is the fiber that renews the
lease; `late` counts its late heartbeats, and `HeldUp` makes the count too large when
time passes while the process or the store holds the execution up otherwise. `ran` are
the executions that called their tool. A claim or a record may be applied and reported
as failed (`ClaimFails`, `RecordFails`), a call may die, and the process may stop
anywhere (`Stop`), with its claim in the store or not.

A typed result whose value is too large for the ledger (`Oversized`) is stored as a fixed
error (`Stored`); who replays it is refused (`tooLarge`), while the delivery that ran the
call answers with the result.

What is abstracted: any other large outcome is stored as a shorter copy of itself and counts
as the same; the host's hook that decides after an abandoned call; nested keys.

### SandboxLifecycle

`state` is what the state store holds, `box` what the provider has under the session's
name, `op` the holder of the semaphore on its way through `ensureSandbox` (one phase per
call of the store or the provider), `del` a `delete`, which takes no semaphore. Every
call may fail, applied or not, and the provider ends a sandbox whose timeout has
passed. Stored state may name a sandbox the session had under a `former` name, which
`ensureSandbox` replaces like an expired one. `known` and `seen` are history: the workspace
of the last operation and of the last command. What a command does inside the sandbox is
left out.

### WorkflowLoop

`step` is where the run is: the model's step, a batch before (`batch`) and after
(`execute`) its preflight, a pause (`await`), the end of the stream (`close`). `responses`
and `awaiting` are `toolHitlResponses` and `toolAwaitingRequests`, the two things a resume
is given. `policy` is what a step would read of each call's tool now, whether it asks for
approval and whether it is activated for background execution; `ChangePolicy` changes it
whenever a batch is open. `Prepared` is `prepareApprovalCall`: what a call comes to by the
policy, the answers and the requests of the pause. It is evaluated for the whole batch at
the preflight and for each call again when its own step begins (`Start`), as the sample
host does (`examples/next`, `run-agent-workflow.ts`), whose merge of the results decides
whether a batch is complete. `Form` is what a request's id binds besides the call.
`Reject` is `retryWorkflowStep`: from the start of the step again, or the run has failed.

`asked`, `answers`, `open` and `cut` are history: what the person was asked and said in this
turn, kept apart from what the code keeps of it; the calls whose tool runs; and the calls
that waited when another was rejected.

What is abstracted: arguments, results, usage and event numbers; writing the final error,
which is best effort; questions, typed inputs and interactions, which the loop
prepares by other rules; calls that launch a child workflow; the hook's filter, which
admits an answer only to a request of the pause, is the guard of `Answer`. Calls of one
batch have different ids. The child workflow, which runs a batch in one step and has no
`awaitInput`, reads the policy once and is covered by the case that it does not change.

## What the runs check

| Run | Instance | Shows |
|---|---|---|
| `run_store` | 2 runs, 3 fibers, counts up to 1 | the store implements the atomic record; readers see the durable record; a failed save gives the lock back |
| `harness` | 1 run, 1 caller, 2 questions, 2 answers, 4 outside calls, budget 1 | ownership, claims, stops, recovery, parks and answers; intents are drained, stops and `Driver.run` return |
| `live_drain` | 2 starts on 2 sockets, 1 close, 2 reconnects | one owner, one drain, a log finalized alone, as `SingleOwner` promises; callers return, admission reopens, owners leave |
| `worker_admission` | 4 extractions, 2 layers of 2 slots, 1 slot in the realm | slots, order, deadlines; every wait ends without the clock |
| `pool` | 2 requests, 2 accounts, 1 route | failover, cooldowns against readings, what the consumer is told |
| `session_log` | 2 inputs, 2 answers, 2 questions, 2 reconnects, 1 restart | no append is lost, a batch is given its answers |
| `session_waiting` | 2 inputs, 1 question, 1 reconnect | a reconnect may bury a pause (violation) |
| `tool_ledger` | 3 deliveries under one key, two of them of one call | one run, one answer, leases that last |
| `workflow_loop` | 2 calls, one with an envelope, 2 turns, batches retried once | consent, denial, the fence; a rejection stops its batch; an answered run ends |
| `workflow_modes` | 2 calls with envelopes, 1 turn | a call may run in a mode nobody approved (violation) |
| `sandbox` | both lifecycles, 5 ticks, 3 creations | an operation hears of a reset |
| `sandbox_reset` | disposable, no failing calls | a command may not (violation) |

Properties of `RunStore`: `MemoryMatchesDurable`; `ImplementsClaims` (the
refinement, where a lost update would show); `LockIsFreed`.

Properties of `Harness`:

- `LiveTokenIsOwners`: the live token belongs to the drain the owner is inside.
- `ClaimCoversDrain`: an owner past its start is durably claimed.
- `DoorbellKept`: an admitted intent is blocked by a park, about to be drained, or
  held by the doorbell.
- `InterruptHitsItsOwner`: a delayed request never interrupts a successor.
- `StoppedHasNoAuthority`, `StopReleasesClaim`: a stop is final for the token and for
  the claim.
- `WithinResumeBudget`, `ResumesOnlyOrphans`: the sweep, whose decision and charge are
  separate steps.
- `StaleTokensDoNothing`: items are taken and parks made only inside the drain whose
  token it is.
- `AnswersServedOnce`: once a drain that was given a park's answers has returned in success,
  no later drain of the process is given them, or those of an earlier park, whatever is
  answered again, woken, paused or stopped in between.
- `AnswersKeptUntilDrained`: no answer is dropped before a drain was given it and succeeded.
- `IntentIsServed`, `CallersReturn`: liveness.

Properties of `LiveDrain`:

- `OneDrain`: a run that has not reported is the owner's or a lost start's, the occupancy is
  the owner's, and what the driver executes and the work its drain runs are of such a run.
- `FinalizeAlone`: a reconnect finalizes the log with no owner and no run that has yet to
  report, but a lost start's.
- `NoRunOutlivesReconnect`: while no start has been lost, a run that is not interrupted was
  prepared after the last reconnect, so it never works on a log that was finalized after it
  was loaded.
- `InterruptsItsOwn`: only a reconnect, the cancellation of the owner or the close of
  its socket interrupts.
- `ImplementsSingleOwner`: the refinement, where a stale start let in, an owner replaced
  or a log finalized with admission open would show.
- `EverybodyLeaves`, `AdmissionReopens`: liveness. They except one ending (`RunEscapes`):
  after a lost start, a run that nobody interrupts goes on for ever. A run `behind` a
  stopping execution becomes such a run if the close that stopped it is abandoned, since the
  next to interrupt finds the execution stopping already.

Properties of `WorkerAdmission`:

- `SlotsAreOwned`: a pool's count is the number of extractions that own a slot of it.
- `NoSlotIdles`: while anyone waits every slot is taken.
- `ServedInOrderAndInTime`: at every hand-off the slot goes to the first waiter whose
  deadline has not passed; nobody is admitted late, and only the late are refused.
- `WaitIsServed`: a wait ends, although it may hold a slot of the other pool.

Properties of `Pool`:

- `ClearsNeedNewerReading`: a cooldown goes only when there is a reading taken after the
  failure it stands for, whatever was put between the snapshot and the clear.
- `FailsOverCleanly`: no failover once the consumer has seen an event, and never to an
  account that failed this request, even if the store forgot it.
- `QuotaIsReported`: a request that met a lockout and finds no account is told of a rate
  limit, also when the lockout has run out by then.

Properties of `SessionLog`:

- `LogOnlyGrows`: every write replaces the whole log by one read earlier, and yet
  nothing is lost.
- `AnswersReachTheirBatch`: a resumed loop is given all answers to its batch, and none
  to an earlier one whose questions had the same identities.

Properties of `ToolLedger`:

- `RunsAtMostOnce`, `AnswersAgree`: whatever is redelivered, dies or is lost.
- `LeaseOutlivesCall`: the lease of a running call lapses only when it was held up for
  longer than one late heartbeat. The run has the default interval, a third of the
  lease; see below for half of it.

Properties of `WorkflowLoop`:

- `AnswersBindTheCall`: at every start, by what the person said in this turn: a call whose
  tool asks, that the resumed pause asked about or that was denied has an approval of the
  form it runs in; and a denied call is not asked about again, whatever becomes of its mode.
- `PausesFenceTheBatch`: no call starts beside an unanswered question. The question of a
  call without an envelope is excepted: while its tool is activated the call is malformed,
  is neither run nor asked about, and holds up nobody, and the policy may change back before
  a sibling starts. The instance has one such call; the theorem holds for any `Enveloped`.
- `RejectionStopsTheBatch`: what a rejection cut off is not run before the batch is prepared
  again; no retry runs a call whose tool still runs for an earlier attempt; no turn, and no
  end of the run, comes beside a running tool, and no turn after a batch that was cut off.
- `RunEnds`: liveness, under any changes of policy.

Property of `SandboxLifecycle`: `EnsureTellsOfReset`: unless a call failed or somebody
deleted, an operation is given the workspace of the last one, or is told of a reset, and
never told of one that was not. It says nothing of the first operation after a `delete`, or
beside one: what that is told depends on how far the delete has come.

Every property has a mutant, a definition `Faulty: ...` in the module, that it
refutes.

## Where the code and its documents differ

Three runs check a sentence of the repository and find a behaviour against it.

- `session_waiting`, `WaitingSurvivesReconnect`. The Cloudflare agent's README (line
  26) says that reconnect preserves a waiting checkpoint. A send checks the log for an
  open run and then loads tools and settings; if another send's run begins and is cut
  off by its closed socket meanwhile, the first is still admitted, with the other's run
  open in the log. Should it pause on a question, a reconnect ends the older run after
  the pause (`interruptLatestIncompleteRun`), and `latestAwaitingRequests`, which looks
  at the last end only, finds no pending question.
- `sandbox_reset`, `ResetIsReported`. The package's README (line 127) says that expired
  disposable state recreates and reports `workspaceReset: true`. When a `readFile` or
  `writeFile` is the one that recreates, the report is dropped, and the next command
  says false.

- `workflow_modes`, `RunsInApprovedForm`. `patterns/AGENT_HITL.md` (line 43) says that a
  changed mode needs a fresh approval. Two calls are asked about in one pause, the first is
  approved, the second asked about again in a pause of its own. If the first one's tool now
  changes its execution mode and no longer asks, the approval does not match, the call is
  not among the requests of the resumed pause (`workflow-loop.ts`, 364, keeps only those),
  and it runs unasked. Alone in its pause it would be asked about again.

Six more were met while reading and modelling; no run of its own shows them.

- A start interrupted at the gate leaves its run behind (`drain-lifecycle.ts`, 187 and 199).
  A close or a cancellation holds the gate while it waits for the driver, the owner's
  release is queued, and behind it a start whose caller is interrupted. The owner leaves; the
  start is admitted, its `driver.run` forked, and it goes on to `casRelease`. The run
  continues with no owner: a close or a reconnect finds nobody to interrupt, and the
  reconnect finalizes the log beside it. The test `cancels owned execution when runOwned is
  interrupted` (`test/drain-lifecycle.test.ts`, 126) and the agent's README (line 23: a
  reconnect interrupts a live owner, waits for settlement, then finalizes) suggest otherwise;
  the test interrupts a start that is past the gate. Without the exception of lost starts in
  `OneDrain` or `FinalizeAlone`, TLC finds them violated in `live_drain` (by a shorter trace, in
  which the gate serves the start after a reconnect's `ensuring` that came later; the order
  above needs no such overtaking).

- `AGENT_HITL.md` (line 24) says that a denial under another id of the same call also
  denies. A call approved in one mode, asked about and denied in the other, runs if the mode
  changes back: the exact answer is looked up first (`loop/run.ts`, 937), as the comment
  there says.

- `putCooldown`'s comment (`pool/src/store.ts`, 61-64) wants a newer failure not to be
  cleared by a reading taken before it. A newer failure that ends earlier than the
  cooldown already there is dropped, so the older start decides, and a reading taken
  between the two clears the account while the newer lockout lasts.
- The comment in `resolveToolLedgerOptions` (`tools/ledger.ts`, 688-689) says that with
  heartbeats at half the lease a single late one does not let it lapse. It does at
  exactly half: a heartbeat that is given up is followed by the next one half a lease
  later, after the lease has ended. (`MCToolLedger.cfg` with `RequestedBeat = 2`.)
- The comment on `flushPending` (`voice/outbox.ts`, 116-117) says that flushes never
  interleave and order is preserved. Finalizers run in reverse: when the scope closes the
  final drain flushes the tail while the fiber's own flush may be in flight.
- The answer "The tool ledger is unavailable; ... was not run." (`tools/ledger.ts`, 811) is also
  given by a duplicate whose poll fails while the first delivery runs the call.

### Bounds

`MaxCalls` bounds the calls made from outside, and with them every token, park,
generation and queued item; nothing the harness does by itself is bounded. Four calls
are enough for start, stop, start again, sweep; or park, answer, answer, stop. Two runs
at once are left to the proofs, which cover any number of them. Three fibers have one
saving, one waiting and one returning; a budget of one gives the states below, at and
(in the mutant) above it. `MaxResumes` bounds the counts of `RunStore` the way the
driver's budget does. In `LiveDrain` every call is made once: two starts give an owner
and a successor or a latecomer, two reconnects a newer and an older one, and the close
meets its own socket's run, a successor's or none; the proofs cover any number. In
`WorkerAdmission` extractions ask again and again, so nothing is bounded but their
number: three of one layer and one of the other, so that a layer's queue and the
realm's fill up at the same time and the realm's slot is contended between the layers.

In `Pool` two requests over two accounts give one that clears or moves what the other
put or moved; lockouts last as long as the clock runs, rejections half as long. In
`SessionLog` two inputs give an open run and a pause behind it, two answers a batch that
is answered in parts. `ToolLedger` needs three deliveries: one that runs, a duplicate of
it, and another call under the same id; a lease of four ticks has room for default
heartbeats of one tick, one of them late, and lapses within the run's four. `MaxTime`,
`MaxBoxes`, `MaxReconnects` and `MaxRestarts` bound clocks and
counters; the clock of `SandboxLifecycle` passes both lifetimes and a renewal.

Deadlock is checked for `RunStore` and `WorkerAdmission`. The other runs may stop: their
calls are made once each, and nothing is left to do when they are answered.

In `WorkflowLoop` changes of policy and answers need no bound: each answer is to a form not
answered before. Two calls give a sibling that is answered first, fails or is still
running, two turns an id that is used again; one call without an envelope is malformed
once its tool is activated.

### Fairness

`harness` assumes that a fiber that can run is scheduled (weak fairness of
the owner, of gate holders and of request fibers), that the gate serves its waiters
in order (strong fairness of steps that wait for it: the semaphore queues them),
that saves answer and that host drains end. The last is an assumption about hosts;
without it nothing after a drain is owed. `run_store` assumes that `save` answers and
that a fiber whose save landed is scheduled. Nothing is assumed of outside calls.

`live_drain` assumes that an interrupted execution settles (what the driver
promises while host drains and saves end), that finalizers end and that fibers that can
run do; weak fairness is enough for the gate, because each caller takes it a bounded
number of times and always gives it back. Work that nobody interrupts may go on for
ever. `worker_admission` assumes that microtasks run, workers answer within
their own timeout and terminate; nothing is assumed of the clock, so no waiter depends
on its deadline. `workflow_loop` assumes that the platform
runs a workflow's steps and that the person answers a pause; nothing makes a hook reject or a
policy change. The other modules assume no fairness: their callers may stay away, their
stores may never answer, and what they must do is said by safety properties.

## What is proved

Assumptions: `NoRun \notin Runs`, `MaxResumeAttempts \in Nat` (the driver rejects any
other value), `NoFiber \notin Fibers`, `MaxResumes \in Nat`.

`StoreProofs`, about `RunStore`. The inductive invariant `IInv` says that the lock is held
exactly by the fiber between its grant and its answer, that such a fiber saves its operation
applied to the durable record, that a saved snapshot is the durable one, and that
without one the memory equals the durable record. `MemoryMatchesDurable` and the
refinement follow: `SaveOk` maps to the abstract operation, all else to stuttering.

`StoreProofs`, about `Pool`. The invariant `PoolInv` says of every request (`Sound`) where
it may be once something was emitted, that the account it streams from is none it recorded
a failure of, and that a failure it met is among what it recorded; and of every cooldown a
request is about to clear that some reading taken after its start says so (`Outdated`).
Readings only get newer, so that stays true whatever the other requests do between the
snapshot and the clear. `Follows` is what one step does to one request; the theorems are
read off it: `OnlyOutdatedIsCleared`, `FailoverIsClean`, `QuotaIsNotHidden`.
`RankingIsDecisive` is about `rankPool` itself: by resets or by priorities it never decides
for two accounts, so a pick is a function of its snapshot. Its lemma `LeastNumber` stands
for the minimum the code computes. Assumed: accounts have an order of their own that breaks
tied priorities, a cooldown lasts, usages are sets of windows, `None` is none of the other
values.

`HarnessProofs`. `TypeCorrect`, proved by component (coordinator, inbox, host,
callers, queues, claims, history). It matters because a token or a generation is
fresh only if it exceeds all those kept. `StoreIsEnough`: every step is one operation of
`ClaimStore` or none, so with `Refinement` the harness may run over `snapshotLayer`, whose
saves are steps of their own. `OneLiveDrain`: `LiveTokenIsOwners` is
inductive with the types; `KeepsLive` states what any step but the begin and the end
of a drain does to it.

`ClaimCoversDrain`, `InterruptHitsItsOwner`,
`StoppedHasNoAuthority` and `StopReleasesClaim` are not inductive: a sweep that saves
its release could, for all they say, meet an owner started since it decided, and a
stopped owner could begin a drain after the gate is given back. `OwnershipInv` adds
per run: a stopping owner has been interrupted or its request is on the way
(`StopIsPending`); requests are for stopping owners (`RequestsAreForStops`); a stopped
owner is interrupted or its stop still holds the gate (`StopIsFinal`), which is why
`beginDrain`, waiting for that gate, is never reached; and a gate holder that saves
keeps the run without an owner and without a doorbell (`GateKeepsOrphan`). Each step
changes one run and leaves the others untouched (`UntouchedKeeps`).
`StaleTokensAreRefused` proves the action property from both invariants.

Four more invariants rest on that one. `ChargeInv`: while the sweep holds the gate for
a charge, the run stays within the budget, claimed and unblocked (`DecisionStands`), so
`BudgetIsKept` and `OrphansAreResumed` hold when the charge is saved. `GivenInv`: the
lease of the live drain is for the park its host was given, which with `OwnerMoved`
(which step moves an owner) gives `AnswersAreKept`. `ServedInv` is behind
`ParksAreServedOnce`: between the return of a drain and its `endDrain` the park it served is
still there, but only as the one that the live drain was given, so it goes before another
drain begins; any other park that is there is newer than the last one served.
`DoorbellKept` alone is not inductive: a claim that fails, a drain that begins and a
settlement each drop one of the places that hold an intent. `IntentInv` adds that what
is owed is pending in the inbox (`PendingCoversOwed`), that before the claim the doorbell
is pending too (`DoorbellIsPending`), and that from the drain on, or once stopped, it is
the doorbell that holds what is owed (`DoorbellHoldsOwed`). A run that becomes parked is
in its drain, by `OneLiveDrain`, and one that is charged is not parked, by `ChargeInv`.
`NoWakeIsLost` follows.

`LiveDrainProofs`. `OneDrain` is inductive once it is known that an execution runs for those
whose runs go on, the owner's among them (`RunsAreExecuted`), that whoever is about to
release has seen its run done (`ReleasersWaited`) and that a start still to register has no
run (`NoRunYet`). `FinalizeAlone` needs that whoever suspends under the gate holds it
(`GateIsHeld`), that the newest reconnect knows any owner there still is (`OwnerIsCaptured`)
and that generations are distinct (`OwnGenerations`). That no older reconnect opens
admission before the newest is done (`NewestKeepsClosed`, theorem `AdmissionStaysClosed`) is
part of the same invariant. `InterruptsItsOwn` follows from the types.
`OneOwnerAtATime` is the refinement: each of the 24 actions is one step of `SingleOwner` or
none, given the invariant and that no start is ahead of the epoch (`EpochsArePast`).
Assumed of the constants: starts, reconnects and closes are different things, and
`None` is none of them.

`WorkerAdmissionProofs`. The count of owners changes by one exactly when the counter
does; this needs the queues to hold waiters only (`QueuesHoldWaiters`), each once
(`QueuesHoldThemOnce`), so that a hand-off makes one owner. With counters within their
capacity (`WithinCapacity`), `WorkersAreBounded` (the limits bound the workers alive,
terminating ones included) follows from the owners of the pools.
For `FirstComeFirstServed` the invariant adds that whoever waits for a pool is in its queue
(`WaitersAreQueued`), each queue being in the order its waiters came, and that an extraction
asks with its whole deadline before it (`IdleIsEarly`). One step may release slots of both
pools and hand them on to many; each hand-off goes to the head of what the late have left,
and any other step takes a slot nobody waits for or joins the end of a queue (`KeepsOrder`),
and no owner is made of a late waiter, no refusal of one in time (`KeepsTime`).
Assumed: the limits are positive, the realm is no layer, finitely many extractions.

`SessionLogProofs`. `LogOnlyGrows` is about a write of what was read steps before. The
invariant adds that only the session's owner is at work on the log and knows the
revision it expects (`OwnerIsAlone`), and that whoever is about to write has read what
is there, a finalizing reconnect having no owner beside it (`WritersAreCurrent`). The
log's last end is the greatest position that satisfies a predicate, for which the library's
well-founded order is cited. `AnswersAreGiven` goes on from there: an answer in the log
names the last batch recorded before it (`AnswerInv`), so the answers to the last batch are
those behind it; what a resumed loop was given is computed from the log it then writes, and
nobody else writes while it works. `KeepsToOneOwner`: every step is one of `SingleOwner`,
the specification `LiveDrain` implements, or none. What it adds to the invariant is that
the owner is at work or over (`OwnerIsActive`), and `EpochsArePast`. Assumed: inputs and answers differ, `None` is no send.

`ToolLedgerProofs`. Who ran a call owns its entry for ever: a fresh claim needs a key
without an entry (`OwnersHaveEntry`, `OneOwner`), exits are of calls that ran
(`ExitsAreOfRuns`), and so are records and answers (`RecordsAreExits`,
`AnswersAreExits`). `RunsAtMostOnce` and `AnswersAgree` follow. `LeasesLast` is
`LeaseOutlivesCall` for every interval: if `MaxLate + 1` intervals and `MaxLate` write
timeouts are shorter than the lease, it outlasts so many late heartbeats. The
invariant (`LeaseIsKept`) says when the next heartbeat is due at the latest, from the
lease the last one that was stored asked for. The defaults (30, 10 and 5 seconds)
satisfy the condition for one late heartbeat; an interval of half the lease does not.
Assumed: `LedgerAssumption`, the options' ranges.

`SandboxLifecycleProofs`. `EnsureTellsOfReset` needs that an operation's handle is that
of the sandbox there is (`HandleIsCurrent`), and, for each place an operation may have
reached, where the known workspace is (`KnownIsFollowed`): until a call fails or somebody
deletes, either it is there or the reset has been noted. Assumed: lifetimes are positive.

`WorkflowLoopProofs`. The invariant relates what the code keeps to what the person was
asked and said: the responses are exactly the answers of this turn (`AnswersAreResponses`),
the pause's requests are of the open batch (`PauseOfTheBatch`), and while a batch is executed
every request of the pause has an answer for its call (`Fenced`), which is what a preflight
without a pending call shows. `Verdict` takes the first
of several answers that match; that there is a first is `LeastPosition`. From this follow
`AnswersAreBinding`, whose heart is that a call without a matching answer that the pause
asked about is asked again and never run (`ExactVerdict`, `NothingPending`),
`BatchesAreFenced`. `RejectionsStopBatches` has an invariant of its own (`RInv`): a tool that
runs belongs to a worker that has not returned (`Worked`), which holds up the end of the
batch; what was cut off waits beside a rejected sibling, or for the batch to be prepared
again (`CutOff`); and between two executions of a batch no call has a status
(`Dispatched`). Nothing is assumed of the constants; the batch a
model asks for is any finite set of calls.

Types (`TypeOK`, theorem `TypeCorrect` of every proof module) are proved and no run
checks them. Every safety property the passing runs check is proved. Only model-checked is
liveness, which is out of the prover's reach: `LockIsFreed`, `IntentIsServed`,
`CallersReturn`, `WaitIsServed`, `EverybodyLeaves`, `AdmissionReopens`, `RunEnds`.
So is the fairness these rest on.

## Not modelled

- Vercel Workflow itself: its replay, its redelivery of a step that ran (the ledger's case),
  hooks and child runs.
- The agent's loop besides the preparation of batches (questions, typed inputs, interactions,
  retries of the provider before its first event), the providers and the client's fold: folds
  over streams of parts, with data in every step and little order to get wrong.
- Connectors, emulators, files, conformance, mcp and codemode, the larger part of the
  repository by lines: requests, schemas and recordings without a protocol of their own.
- Knowledge ingestion, the plan runtime, the voice controller and its outbox: worth a small model
  each, not written yet.
- React bindings, apps, examples, scripts and lint rules.

## Plan

1. Next modules: typed inputs and interactions in `WorkflowLoop`; `RunLifecycle`, an
   abstract life of a run (idle, owed, owned, parked) that `Harness` implements; the plan
   runtime.
2. Next proofs: that the executions of `Harness` are what `LiveDrain` assumes of its driver,
   as one abstract driver both refer to; and a `SessionLog` whose steps are conjoined with
   those of `SingleOwner`, so that the converse of `KeepsToOneOwner` holds by its form.
