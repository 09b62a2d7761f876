# A TLA+ verification of Remuda's delivery chain

Remuda runs coding agents on many hosts. A **Hub** keeps the shared state
(SQLite) and serves people and other agents; a **Node** on each host runs
agent processes ("instances") and executes the Hub's commands; a **driver**
inside the Node speaks to one harness (a Claude, Codex or shell process, often
in a PTY). This directory holds TLA+ models of the parts that carry the
correctness of that chain, TLC configurations that check them on small
instances, and TLAPS proofs for every instance.

## 1. Inventory

| Component | State | Operations | Hard because | What makes it correct |
| --- | --- | --- | --- | --- |
| Node PTY delivery queue (`runtime/pty_queue.rs`) | `pending`, `steer_deadline`, the worker's position, a bounded channel | receive, insert a steer, interrupt, tick, probe, claim, write, settle | one worker against RPC tasks, the harness and the clock; uncertain writes | written at most once, FIFO in a class, everything accepted settles |
| Held-input registry (`held_input.rs`) | per command: waiting / withdrawn / delivering, revision, unapplied edit | hold, claim, unclaim, release, change, withdraw, edit | first-wins between two tasks; memory only | an acknowledged withdrawal or edit is never contradicted |
| Node lineage fence (`fence.rs`) | live generation per lineage, lineage of instances | persist, apply, dispatch claim, admit a create | races submission, dispatch and creation; must survive a crash | a command is written or reported cancelled, never both; fenced chapters close |
| Command ledger, runtime, reclaim (`runtime.rs`, `store.rs`, `reclaim.rs`) | command rows, instance lifecycle and activity, transcript rows | submit, create, enqueue, execute, exit, restart | tasks keep copies of rows; crash between marker and settlement | settlements are true and final |
| Hub command queue (`cmd_queue.rs`, parts of `http.rs`, `store.rs`) | command rows with revision, forward and withdraw intents, link generation | forward, edit, withdraw, settle an intent | lost replies, reconnects, restarts | a withdrawn command is never forwarded; both sides agree on the text |
| Hub fence, Node operations (`hub/fence.rs`, `node_ops.rs`) | lineage generation, fence map, `fence_deliveries`, `fence_ops`, `node_ops` rows, held commands | fence (pause, continuation, resume), deliver, acknowledge, withhold, admit, send intent, settle | work in flight on other tasks; hosts offline; restarts | the record of a fenced operation is true and final; no old work starts behind an acknowledged fence |
| Interaction broker (`node/interactions.rs`, `driver/interaction.rs`, `hub/interactions.rs`) | glue maps, durable row, ticket with a deadline, the Hub's card | ingest, answer, cancel, expire, commit, project | an answer races other answers, the end of the request, the deadline, a fence, a restart | one answer per question, true replies, the card settles |
| Journal mirror (`journal_flush.rs`, `transport/wss/*`, Hub `store.rs`) | broadcast ring, window, watermark, read cursor, the Hub's rows | append, broadcast, pump, replay, hello, resume | lost replies, late frames, gaps, overruns, restarts | everything journalled reaches the Hub; nothing below the watermark is missing |
| Merge-gate queue, inbox, worktree pool, restarts and wake, supply | leases and schedules | claim, release, deliver | leases against crashes | mutual exclusion of leases |
| Drivers, signals, rules, screen, wire crates, CLI, web, SSH, push, Feishu | codecs, parsers, I/O | — | — | not modelled; their answers are inputs |

How they interact: the Hub sends RPC frames over one connection. The Node's
transport (`transport/wss.rs`) runs every frame on a task of its own, so
requests are concurrent and unordered, except that `lineage.fence` is persisted
inline in the order it is read. `submit_command` inserts a ledger row, reserves
a slot of the instance's channel, durably accepts the row and sends it. The
single worker of the instance moves prompts from the channel to `pending` and
executes controls at once. The tick, every 200 ms, applies withdrawals and
edits to the waiting prompts and then tries to deliver the head: attachments,
probe of the composer, the held-input claim, the fence's dispatch claim, the
write, the settlement. The pump task records what the harness reports
(activity, dialogs, exit) in the same store.

The list of hazards, each with its line and the properties aimed at it, is in
`PROJECT.json`.

## 2. Plan

1. `PtyQueue` with `PromptDelivery` as its abstract specification: the core,
   because every prompt passes through it. **Done**, with `PtyQueue_proofs`,
   `PtyQueue_refinement` and `PtyQueue_ledger`.
2. `HubCommand`: a command row of the Hub and its intents, composed with a held
   prompt of the Node by a lossy link. Its Node half is `PromptDelivery`, which
   `PtyQueue` implements. **Done**, with `HubCommand_proofs`.
3. `JournalFlush`: the mirror of the Node's journal. **Done**, with
   `JournalFlush_proofs`.
4. `Interactions`: questions, answers, expiry, cancellation and the card.
   **Done**, with `Interactions_proofs`.
5. `HubFence`: the fence transaction, its delivery and the operations it meets,
   Hub and Node together. **Done**, with `HubFence_proofs` and
   `HubFence_outcomes`.
6. Proofs: every safety invariant and action property of the runs is stated by
   a theorem, and the safety half of each liveness property (section 8).
   **Done**.
7. Leases: merge-gate queue, worktree pool. Not started.

## 3. `PtyQueue`

One PTY instance. State and code:

| Variable | Code |
| --- | --- |
| `ledger` | the `Command` rows of `store.rs`; `dispatch` is the transport marker, `unknown` the flag of `mark_unsettled_unknown` |
| `row` | status of the prompt's transcript message |
| `lifecycle`, `activity`, `dialog` | the instance row; whether `interactions.rs` has a pending question |
| `rpc` | how far the task serving a command has come: each value is a point between two awaits or locks |
| `chan`, `pending`, `prompt`, `held` | the mpsc channel, the `VecDeque` of `run`, the text inside it, `HeldInputs` |
| `pc`, `scan`, `ctl`, `deadline` | where the worker is, its index in `apply_held_changes`, the control it executes, `steer_deadline` |
| `live`, `fencing`, `closing`, `recorded`, `reported`, `applied` | the fence table, fences in flight, what acknowledgements said |
| `wrote`, `sent`, `told`, `edited`, `unescaped`, `order` | history: what the harness and the Hub saw |

Every action is one critical section: the worker's step between two awaits, an
RPC task's step between two store writes or locks. `deliver` is therefore
`ResolveOk/Fail`, `Probe*`, `Claim*` (registry lock), `ClaimFenced/Dispatch`
(fence lock), `Execute*`, `Settle*`; everything a handler does in one such
section (trailing remarks, the re-armed Esc in `PopHead`, the released registry
entry) belongs to the action. `PromptDelivery` is the promise to the Hub:
withdrawal and delivery are exclusive, a prompt is written at most once and
with the last acknowledged text, a prompt that was given up stays given up.

Abstractions. A text is a member of `Texts`; a deadline is none, running or
passed; attachments are a flag; `Initiator` and `Chapter` are generations of one
lineage. The driver's answers (control available, written, uncertain, failed)
and the harness's signals are nondeterministic. Not modelled in these actions:
the revision conflict inside `save_command` (the worker and the fence retry or
fail the task), an exit of the harness before `Ready`, two fences with distinct
ids and the same generation, and the reads of activity inside one tick, which
are taken together. A fence that is delivered again, or that arrives behind a
newer one, is applied again and moves the live generation only up (`persist`);
`FenceRepeats` says whether a run has such deliveries without a crash. A restart
marks a lost instance exited or, with `herdr_orphan_sweep` off
(`reclaim.rs:261`), leaves it as it was; a close that meets a closed channel
while the worker's task is not yet finished is rejected
(`runtime.rs:1292`).

## 4. `HubCommand`

One `instance.send` that a person queued for a PTY instance, from its row in
the Hub to the harness.

| Variable | Code |
| --- | --- |
| `row`, `seen` | the row of `commands` (state, forwarded, resolution, payload text, revision, first payload, withdraw intent, `withdrawnBy`, `memory_change_rev`); whether `memory_seen_rev` counts the change as told |
| `fwd`, `frame` | where the attempt that owns the forward slot is in `forward_if_online`; what it read after the mark |
| `req` | PATCH and withdraw requests: each `pc` is a point between two store jobs or the RPC |
| `up`, `wire` | the link; per RPC its frame, the Node's answer, or neither any more |
| `journal`, `mirrored` | the Node's lifecycle records of the command and how many `apply_command_projection` has seen |
| `nodeRow`, `entry`, `nodeRev`, `nodeLine`, `fate`, `text`, `output` | the Node's ledger row, its registry entry, and the prompt as in `PromptDelivery` |
| `frames`, `outLine`, `carried` | history |

The Hub's store runs jobs one at a time in one writer, so a job is one step; a
handler that awaits in between takes several, and everything else may happen
there. `call` (`transport.rs`) decides what the Hub knows of a frame: queued and
answered, queued without an answer (an error: it may have run), or provably
never queued. A frame the Node read before the link broke is still served
(`orphan`). A restart of the Hub ends its tasks and keeps the rows; a restart of
the Node keeps ledger and journal and forgets queue and registry. The Node's
half is deliberately the abstract prompt of `PromptDelivery`, so the two
levels meet in one interface: what `PtyQueue` implements is what the Hub relies
on.

Left out: fences and initiators (a person has none; a host that owes
acknowledgements is `ForwardHeld`), attachments, `instance.configure`, the
optional `expectedRevision` of a withdrawal, input the Hub writes itself, link
generations (they serve workspace removals), a newer memory change between the
claim of the line and its release, an exit of the harness, the frame of
`ws.rs:1399` by which a Node may mark a command settled without the journal, and a Node reply
that is neither an acceptance nor an error, which changes nothing. `ForwardRead`
takes the read of the row (`http.rs:5110`) and that of `memory_change_rev`
(`http.rs:5164`) as one step.

Two behaviours were met that no document excludes. When the reply to
`command.edit` is lost the Hub keeps the old text and revision and every later
edit conflicts; `RowTextIsWritten` has the case as its second disjunct, and the
memory line that the edit removed is then not given back. When the Hub stops
between the forward intent and the frame the row stays queued and unknown.

## 5. `JournalFlush`, `Interactions`, `HubFence`

### `JournalFlush`

The journal of one instance on its way to the Hub. An event is its sequence
number.

| Variable | Code |
| --- | --- |
| `tail`, `unsent`, `ring`, `lagged` | the Node journal, events appended whose broadcast has not run (the store lock is released in between), the pump's broadcast receiver and its `Lagged` |
| `pump`, `needs` | `pump_live` or `flush_journal` inside it, `needs_replay` |
| `flight` | submitted appends: whose window awaits each, where it is between channel, socket and reply |
| `mark`, `cursor` | `UplinkWatermarks` and `FlushCursors` |
| `resume`, `conn`, `ghost` | the task a hello spawns, the socket, frames of a dead socket the Hub can still read |
| `hub` | the Hub's rows by author: the Node's, or the Hub's own (`append_hub_event`) |

Faults, each bounded by `MaxFaults` and chosen by `Faults`: a lost socket, a
Node restart, a failed append, a Hub restored from an older database, a row of
the Hub's own. Left out: backoff, the floor of a truncated journal, other
instances (they share only the socket and the channel, which is taken to have
room for two windows).

### `Interactions`

One question of a harness. `native`, `emitted` are the driver; `pump`,
`mapped`, `pend`, `durable` the Node's glue and the row it stores; `ticket`,
`winner`, `obs` the broker; `cmd`, `at`, `res`, `told` the calls in progress;
`uplink`, `card`, `ended` the journal and the Hub's copy; `fence` a fence that
supersedes the card. Ingest is three critical sections (append and insert,
retire, put), a call is `NodeLookup`, `BrokerWin` or `BrokerLost`,
`OwnerPersist`, `DriverExecute`, `NodeDrop`, `HubReply`; everything interleaves
between them. The deadline is a boolean that passes at any time after the
request was ingested (the shortest TTL is far longer than an ingest). Left out:
policies and grants that answer by themselves, the validation of an answer,
`StaleGeneration` and `OwnerMissing`, bot relays, and two failures of the
Node's own store: the put or the missing instance that makes
`commit_broker_observation` return before its journal append
(`interactions.rs:467`), and an append of the driver's events that fails after
the driver said Ok (`interactions.rs:104`). A terminal driver emits its
`answer-committed` after the write whether or not the write failed
(`pty_interaction.rs:668`); other drivers emit nothing. Drivers mint a fresh id
for every request, so the id never comes twice.

### `HubFence`

One lineage and one host that understands fences. `gen`, `paused`, `deliv`,
`contin` and the rows `row`, `og`, `rec` are the Hub's tables; `map`, `held`,
`raising`, `kicks`, `dl` its memory, lost in a restart; `call` and `at` the
tasks that serve a direct operation or forward a command; `nlive`, `log`,
`disk`, `ncmd` the Node's fence table, operation log and ledger. `FencePause`,
`FenceSuccessor` and `ResumePaused` are the transaction F, which is one store
job; `AfterCommit` the raising of the map behind it. A delivery is
`DeliverStart`, `DeliverCall`, `ApplyLineageFence`, `AckFence`,
`DeliverTakeHeld`, `DeliverForward`, `DeliverEnds` under the host's lock.
Merged into one step each: the send gate and the send behind it (one lock), the
run of a direct operation and its log entry, the persisting and the applying of
a fence at the Node (`PtyQueue` has them apart). An error frame from the Node
counts as "ran", as in the code. A refusal by the Node is two store jobs
(`note_command_refused_by_node`, then the rejection) and one step here. `Cmd` has
no creates: `NodeClaim` guards every command, and an accepted create that a
fence meets is not guarded by a claim, which is the finding of
`viol_fence_create`. Left out: replies to a fence's own close and
create, gate jobs, usage waits, devices, egress, several hosts, Nodes without
fence support. With `MaxGen = 2` two fences are never pending at one host; the
theorems hold for every `MaxGen`.

## 6. Where the code disagrees with what is written about it

Three disagreements are kept as runs that must fail.

| Run | What is written | What TLC shows |
| --- | --- | --- |
| `viol_fence_create` | `remuda-node/src/fence.rs:17` "a command is either claimed for delivery (...) or cancelled — never both" | a fence cancels a create that was accepted; the worker settles its old copy of the row as completed and writes the prompt |
| `viol_fence_close` | `protocol.md:1583`: the Node closes the local instances of the lineage whose generation is below the live one | a prompt fills the channel, the fence's close is rejected as `instance-queue-full`, `submit_command` returns Ok all the same (`runtime.rs:1280`), so the fence lists the instance in `closedInstanceIds` (`fence.rs:549`) and the chapter stays open; a pause has a close of the Hub's own behind it, a continuation has none |
| `viol_hub_row` | `protocol.md:1003`: the Node is the only assigner of sequences, the Hub mirrors them | the Node journals event 1 while the link is down, the Hub writes a row of its own at sequence 1, and the next hello names it as durable: the watermark covers the event and it is never sent |

An append that is already on its way when the Hub takes its sequence ends the
same way by another path: it finds the row and is answered as a replay
(`store.rs:16825`). TLC shows it in seven steps when asked for a successful
reply whose row is not the Node's. `Mirrored` names both as `HubTook`: an event
reaches the Hub unless the Hub has taken its sequence.

The rest was met while modelling and seen as TLC counterexamples; the
properties are stated around it (a disjunct, a guard or a bound says where) and
it is recorded here.

Node:

- A fence between the two critical sections of `admit_create`
  (`fence.rs:436`) finds no instance, so the chapter is created below the live
  generation and stays open; the comment at `fence.rs:434` says it is recorded
  "so a later fence closes it", and `protocol.md:1583` that the instances of
  older generations are closed. `FencedChapterEnds` speaks of an instance that
  existed.
- A close that the driver fails settles uncertain and leaves the chapter open as
  well; `FencedChapterEnds` has the case as its second disjunct. A close that
  the queue refuses is no such excuse (`viol_fence_close`).
- A withdrawn prompt that an interrupt overtakes before the tick settles
  `rejected` (`interrupt_pending`, `pty_queue.rs:750`), not `cancelled` as
  `pty_queue.rs:659` and `protocol.md:1651` say.
- A steer deadline survives the steer it was armed for when that steer is
  withdrawn, or dropped by a cancel or by a close that fails
  (`interrupt_pending`, `pty_queue.rs:140`, leaves `steer_deadline` as it is);
  the next steer then gets no Esc and is released into the running turn when the
  old budget passes, although "the interrupted turn must actually have ended
  before a steer is written" (`pty_queue.rs:176`). `SteersAreEscaped` excludes
  exactly these ways out of the queue.
- A steer that arrives behind a dialog never gets a deadline although the turn
  goes on after the answer (`pty_queue.rs:129`); the comment at
  `pty_queue.rs:72` promises a bounded hold. `EscBeforeSteer` counts a turn that
  a dialog stopped as over: the steers waiting then are owed no Esc in what
  follows the answer.
- A command accepted after a fence had cancelled its row is accepted again
  (`runtime.rs:1646`: the row is read, then written without a look at its
  state); the dispatch claim still stops it.
- A withdrawal that wins during the probe drops the last prompt and leaves
  activity `waiting` (`pty_queue.rs:477`: no `remark_after_queue_change`).
- After a restart nothing interrupts the transcript rows of prompts that were
  queued (`held_input.rs:14`: "a restarted Node interrupts every queued
  prompt"; `reclaim.rs` does not touch them).
- When a driver cannot be built the exit is recorded before the channel is
  dropped (`runtime.rs:1490`); a command accepted in between is never settled.

Hub commands: the two behaviours of section 4, and of two overlapping
withdrawals the first may clear the intent of the second, whose reply is lost
after the Node withdrew the prompt (`cmd_queue.rs:1006`): the row then ends
cancelled without an actor, where `cmd_queue.rs:961` says it "still ends
`withdrawn` with this actor" and `protocol.md:2328` the same.

Journal:

- A Hub that comes back with an older database: `journal_flush.rs:83` says "the
  cursor must come *back* so the events it lost are replayed". The hello resets
  watermark and cursor, but `ensure_pump` leaves a pump that is running as it
  is, and an acknowledgement of the old session that is consumed after the hello
  raises the cursor again; the events stay missing until a later append meets
  the gap. `Mirrored` excludes a restored Hub.
- A page that lies under the watermark and above the cursor submits nothing and
  `flush_journal` plans it again without an await, against "stops as soon as it
  is caught up" (`runtime_wss.rs:901`).

Interactions:

- A retry with the winner's command id is told `idempotent` even when the
  forward to the driver had failed (`interaction.rs:365`); `decisions.md:1832`
  says it repeats the earlier success. The failed forward has consumed the
  ticket and sends no observation, so the card stays pending until the instance
  ends (`WaiterIsLost`).
- The consumed ticket is persisted before the native write
  (`interactions.rs:81`), and the `expired` of `cancel_for_instance` likewise;
  the put at the end of an ingest that began earlier overwrites either with
  `pending`.

Hub fence:

- A replay of an op id that finds no link sets the row of the first call from
  `sent` back to `admitted` (`node_ops.rs:204`), and F then records
  cancelled-at-hub for an operation that ran, which `node_ops.rs:161` says
  cannot happen. `OutcomeIsTrue` and `UnfinishedIsRecorded` speak of operations
  sent once (`CalledOnce`).
- `direct_entry` that refuses an entry which is open writes the refusal on disk
  and not in memory.
- A follow-on command is "queued inside F so a crash cannot lose it"
  (`fence.rs:670`); when the Hub stops or the link drops between the stored
  acknowledgement and the forward, the row is kept and nothing forwards it.
- A forward that is found held after `take_held` ran is noted for an
  acknowledgement that is already past ("the acknowledgement forwards it",
  `http.rs:5054`).

## 7. Runs

`MCPtyQueue` gives the initiators of `PtyQueue`; the other modules are run as
they are. Every `.cfg` names its bounds. Deadlock is not checked: when every
command is settled, every card shown and every fence acknowledged the system
may rest for ever.

| Run | Question | Bounds |
| --- | --- | --- |
| `pty_held` | Do withdrawals, edits and a close ever contradict the delivery? Is order kept, is nothing lost, does the transcript agree? Does the queue implement `PromptDelivery`? | two prompts (one with files), a steer, a close; capacity 2, so the channel and the queue can be full |
| `pty_crash` | Are settlements true and final and writes unique when creation fails, the harness exits or the Node crashes? Is the inductive invariant true? | a create that can be edited and withdrawn, a prompt, a cancel, a close; one crash |
| `pty_fence` | Is what the fence acknowledges true? | two prompts and a control of generation 1, fences 1 and 2, which may be delivered again or late, the fence's own close |
| `pty_steer` | Is a running turn always interrupted before a steer? | a prompt, three steers (one with files, so that its delivery can fail), dialogs, turns that start by themselves |
| `pty_live` | Does every accepted command settle, and does a fenced chapter end? | a prompt with files, a steer that can be withdrawn, the fence's close, two generations; capacity 3, so the close finds room |
| `hub_command` | Does a command leave the Hub at most once? Do Hub and harness agree on its text, its withdrawal, its rejection and its settlement, whatever is lost? | two edits, one withdrawal, two failures (lost link, restart of either side) |
| `journal_flush` | Are watermark and cursor never ahead of the Hub, is nothing lost between journal, ring and window, does every event arrive in the end whose sequence the Hub did not take? | two events, window 2, page 3, a ring of one so that it overruns, all five faults, three of them |
| `interactions` | One answer, true replies, no answer after the end of the question, and a card that settles? | two calls with the same or different command ids, one crash, a fence |
| `hub_fence` | Is the record of a fenced operation true, complete and final, does old work stop behind the acknowledgement, and is every fence acknowledged in the end? | one direct operation called twice or one command, one fence (pause or continuation), one fault |

Three commands of one queue are enough for the interesting cases: one being
delivered, one waiting behind it and one overtaking it. One crash is enough
there because a restart erases all memory. In `hub_command` two edits and a
withdrawal give every pair of requests on either side of the forward, and two
failures a lost reply followed by a reconnect that is lost again or a restart.
It states no liveness: `JournalConverges` says that a mirrored settlement has
settled the row. In `journal_flush` two events make a gap, an overrun and a
page that is partly held possible, and three faults a reconnect inside a
replay after a loss. In `interactions` the second call is either the rival or
the retry of the first. In `hub_fence` an operation and the fence are the two
parties of every race; more operations never read each other's rows. One fault
puts a timeout, a lost link or a restart at every point of the delivery, which
the sweep or the next hello then begins again from its stored rows.

The pass runs leave out the ingredients of section 6 by the constants they set:
`pty_steer` withdraws nothing, `pty_fence` has no create, `pty_crash` no fence,
`hub_command` one withdrawal, `pty_live` a channel with room for every command.

Fairness, and why the code gives it:

- `PtyQueue`: `TaskFairness` is weak fairness of every step a tokio task takes
  by itself and strong fairness of the two branches of the worker's `select!`
  (tokio picks a ready branch at random). `HarnessFairness` says that a composer
  that is asked again and again becomes available once, that turns end and that
  the clock runs; without it a prompt legitimately waits for ever.
- `JournalFlush`: tasks are scheduled, the carrier redials for ever, the Hub
  reads its sockets. Faults have none and are finite.
- `Interactions`: the pumps, the sweeper's clock, the journal's uplink and the
  calls that are at the Node. None for drivers, callers, fences and crashes.
- `HubFence`: the delivery task, hello after a lost link, `AfterCommit`, the
  forward and operation tasks. None for timeouts and faults; that they end is
  their bound.

## 8. Proofs

For every value of the constants that satisfies the named assumptions:

| Module | Theorem | States |
| --- | --- | --- |
| `PtyQueue_proofs` | `TypeCorrect` | `TypeOK` |
| | `DeliveryCorrect` | `DeliveryInv` |
| | `WithdrawnCorrect` | `WithdrawnNeverWritten` |
| | `AtMostOneWriteCorrect` | `AtMostOneWrite` |
| | `EditedTextCorrect` | `EditedTextWritten` |
| `PtyQueue_refinement` | `QueueKeepsPromise` | `RefinesDelivery` |
| | `FifoCorrect` | `FifoWithinClass` |
| | `HeldPromptsAreQueued` | `HeldIsQueued` |
| | `SteersAreEscaped` | `EscBeforeSteer`, steers leave the queue only by its head |
| `PtyQueue_ledger` | `LedgerInvariant` | `LedgerInv` |
| | `SettlementsAreTruthful` | `SettlementIsTruthful` |
| | `SettlementsAreKept` | `[][SettledIsKept]_vars` |
| | `SettledIsFinalUninitiated` | `SettledIsFinal`, no command has an initiator |
| | `FenceReportsHold` | `ReportInv` |
| | `CancelledStaysUnwritten` | `CancelledNeverWritten`, no create or close has an initiator |
| | `AckCountsWrites` | `AckAccountsForWrites`, under the same condition |
| | `QueuedRowsAreQueued` | `QueuedRowIsQueued` until a crash |
| | `AcceptedAreOwned` | `AcceptedIsOwned` until a crash, while the worker serves |
| | `FencesAreCarriedOut` | `FenceIsCarriedOut`, an adopted instance |
| `HubCommand_proofs` | `HubInvariant` | `HubInv` |
| | `HubTypeCorrect` | `TypeOK` |
| | `ForwardsOnce` | `ForwardedOnce` |
| | `WithdrawnIsNeverWritten` | `WithdrawnStaysUnwritten` |
| | `RowTextReachesHarness` | `RowTextIsWritten` |
| | `RejectsTruthfully` | `HubRejectionIsTrue` |
| | `LineRides` | `LineRidesOnce` |
| | `RowConverges` | `JournalConverges` |
| | `SettledIsFinal` | `HubSettledIsFinal` |
| | `NodeKeepsContract` | `PromptDelivery`'s specification |
| | `CreditsWithdrawal` | `WithdrawalIsCredited`, at most one withdrawal |
| `JournalFlush_proofs` | `WatermarkHolds` | `WatermarkIsHeld` |
| | `PumpStrandsNothing` | `NothingStranded` |
| | `JournalTypes` | `TypeOK` |
| | `NodeAssignsSequences` | `HubIsPrefix` and `NodeRowsMirrored`, no rows of the Hub's own |
| `Interactions_proofs` | `InteractionTypeCorrect` | `TypeOK` |
| | `OneAnswer` | `OneAnswerHanded` |
| | `TrueReplies` | `RepliesAreTrue` |
| | `ExpiredStaysUnanswered` | `ExpiredCardUnanswered` |
| | `RetiredNeverWon` | `NoWinAfterRetirement` |
| | `PendingCardsAreDriven` | `PendingIsDriven` |
| `HubFence_proofs` | `FenceInvariant` | `FenceInv` |
| | `NoOldWork` | `OldWorkStops` |
| | `FinalOutcomes` | `OutcomeIsFinal` |
| `HubFence_outcomes` | `OutcomeInvariant` | `OutcomeInv` |
| | `FenceTypeCorrect` | `TypeOK` |
| | `RecordsAreTrue` | `OutcomeIsTrue` |
| | `FenceForgetsNothing` | `UnfinishedIsRecorded` |

None of the properties is inductive alone; each module's invariant says why it
stays true. A theorem with a condition has it because the code breaks the
property without it; the paragraphs below say how.

**`DeliveryInv` (PtyQueue).** A command the worker has not received is untouched
(`UnsubmittedIsFresh`, `ChannelIsFresh`, `StartingIsFresh`, `ControlIsFresh`),
so it cannot have been written; queue elements are distinct and registered
(`PendingIsHeld`); only the head is ever delivering, only between claim and
settlement, and it is unwritten until the driver runs (`ClaimIsHead`); a prompt
that waits or was withdrawn is unwritten (`WaitingIsUnwritten`); the text in
the queue, or the edit in front of it, is the acknowledged one
(`TextIsEdited`). A crash empties the registry and the queue, which is why an
uncertain write is not repeated. One lemma per group of actions, on shared
steps: a frame (`DeliveryFrame`), a move of the worker (`DeliveryMove`), the
dropped head (`DeliveryDropHead`), a fresh prompt queued (`DeliveryQueue`), a
step of an RPC task (`DeliveryRpc`, `DeliveryAnswer`). The only assumption that
restricts the code is that at most one command creates the instance
(`CreateAssumption`): the instance id comes from the create.

**The refinement (`PtyQueue_refinement`).** `PromptDelivery` lets a withdrawal or
an edit decide a prompt only while the prompt is open, so the mapping needs that
a registry entry still has its queue element: `HeldIsQueued`. With it and
`DeliveryInv` every step is a stutter of `PromptDelivery` or a drop of commands
that are open and unwritten (`Quiet` per command), but for the five that decide
something: the claim, its return, the write, the withdrawal and the edit. A
crash or a fence may drop any number of prompts at once; since `PromptDelivery`
drops a set, that is one of its steps.

**`OrderInv` (PtyQueue).** The history of accepted commands holds each once
(`AcceptedOnce`); the channel carries them in that order (`ChannelInOrder`);
what is queued was accepted before what is in the channel
(`QueueBeforeChannel`); the queue keeps the order inside a class
(`QueueInOrder`), with all steers in front (`SteersFirst`). A prompt is written
only from the head, and a withdrawal, a drop or a fence only thins the queue
(`Thins`), so no accepted prompt of the class is overtaken.

**`EscInv` (PtyQueue).** While the instance is ready, a turn that is over owes no
Esc (`TurnOwesEsc`), and a deadline that is armed or has passed belongs to a
steer at the head of the queue that is owed none (`DeadlineHasSteer`): the Esc
that armed it was sent for every steer then queued, and one that arrives later
is inserted behind it. A steer is released into a running turn only past the
deadline, so what is released had its Esc. The invariant breaks when the head
steer leaves without `PopHead`, which re-arms: by a withdrawal the tick finds, a
cancel or a close. `SteersLeaveByHead` says that there are none of these; with
them the code breaks the property itself (section 6). Prompts may be withdrawn,
edited, fenced, fail to resolve or be lost in a crash.

**`LedgerInv` (PtyQueue).** For one command at a time, what its durable row may
read by where the command is. `StageIsKept`: no row before the insertion,
undecided but for a fence while the worker has the command. `WriteIsMarked`:
the dispatch claim of an initiated command is in the row before the driver
runs. `RowIsTrue`: what a settled row says was or was not written. Each step
leaves a command unmoved (`Unmoved`), places it, retires it, fences it, claims
it or writes it, and one lemma per kind gives `RowStep`: the invariant after
the step, that a settlement is kept, and that a claim is new only where no
fence has passed.

A row that a fence settled *is* rewritten: the insertion, the start of a create
and a close do not look at it again. So `SettledIsKept` speaks of the other
outcomes, and `SettledIsFinal` itself is proved where no command has an
initiator, that is where a fence settles nothing.

**`ReportInv` (PtyQueue).** A fence that was applied or is being applied is not
above the live generation (`FencesAreLive`); what it reported is of a fenced
initiator (`ReportedIsFenced`); cancelled means unwritten and without a dispatch
claim (`CancelIsTrue`); a write under a fence is reported or reads uncertain
(`WriteIsReported`). It is stated for `Fenceable`, every command but creates and
closes: a create, and a close of an instance that has ended, go on without a
dispatch claim after a fence has settled their row and reported them cancelled
(section 6). That also is the condition of `CancelledStaysUnwritten` and
`AckCountsWrites`.

**`RowsFollow` and `OwnedInv` (PtyQueue).** Until a crash a transcript row reads
queued only for a prompt of the queue, and an accepted row with nothing in doubt
belongs to a command in the worker's hands. Both end with a crash: the restart
restores no queue, and it does not mark the rows of an instance that had exited.
`OwnedInv` also excludes a worker whose create failed: a command accepted
between the failed build and the removal of the worker is dropped with its
channel, neither settled nor marked. For an adopted instance (`Creates = {}`) it
holds whatever the worker does.

**`ChaseInv` (PtyQueue).** The row of a close that a fence submits only moves
forward while the instance is open: idle, admitted, inserted, accepted, and from
there to rejected or uncertain (`CloseRow`); a completed one has closed the
instance. With `OwnedInv` the accepted one is in the worker's hands, so an
applied fence that passed the chapter always has a close that is yet to come,
under way, refused or failed. It is stated for an adopted instance and until a crash: a
create may be recorded after the fence looked (section 6), and a restart forgets
the fences it had not finished, which the Hub delivers again.

**`HubInv` (HubCommand).** A frame leaves only for a row marked forwarded, and
the mark is taken back only while no frame has left (`FrameIsMarked`); the Node
knows the command only from a frame (`NodeFollowsFrame`); a settlement the Hub
has mirrored settled the row (`JournalIsProjected`); a withdrawn row or answer
means that the Node's prompt is withdrawn or was never sent
(`WithdrawalIsDecided`); a rejection by the Hub comes after its last chance to
send (`RejectionIsLast`); the memory line is given back only when it is certain
that this command does not carry it (`LineIsReleased`); the registry has the
row's revision and text, or is one edit ahead whose answer is under way or lost
(`TextIsTracked`, `EditIsTracked`).

**`CreditInv` (HubCommand).** That a cancellation by the Node reads as the
withdrawal it was needs the intent mark to survive until the row settles
(`IntentIsKept`), a journal with one last entry (`JournalEndsOnce`) that the row
mirrors (`OutcomeIsMirrored`), and where the request is (`WithdrawIsTracked`).
The theorem assumes one withdrawal: a second one that the Node refuses clears
the mark of the first, so the journal's cancellation then finds none.

**`NodeKeepsContract` (HubCommand).** The Node half of `HubCommand` takes only
steps of `PromptDelivery`. With `QueueKeepsPromise` the two models meet in one
contract: what `HubCommand` assumes of a held prompt is no more than what
`PtyQueue` gives.

**`HeldInv` (JournalFlush).** The types, `WatermarkIsHeld`, and that a success
reply in flight reports a sequence the Hub holds: watermark and cursor move only
to what a reply or a hello carried, and the Hub's copy only grows until it is
restored. `NothingStranded` follows event by event: one the Hub lacks is unsent,
in the broadcast ring or awaited by the live window (`OnItsWay`), and each step
that takes it from one of these places puts it in another, or leaves the pump
marked as behind. The window drops finished appends from its front; that none it
awaits goes with them is `TrimAwaits`, which needs the least index kept.

`SizeInv` adds the sizes: an event in the ring, in flight or in a dead socket
has a sequence the journal has given out, and the Hub's copy is longer than a
journal can be by at most one row of its own per fault. The frames
of a lost socket are its positions on the wire in order (`WireAt`, the k-th by
the number of positions before it), so that `ghost` has a type for any number of
them. `HubIsPrefix` is what a Hub without rows of its own holds: a prefix of the
Node's journal. `viol_hub_row` refutes `NodeRowsMirrored` with one such row;
`NodeAssignsSequences` says that nothing else refutes it.

**`AnswerInv` (Interactions).** Nothing has happened to a question nobody asked
(`AskIsUntouched`); an open ticket has no winner (`TicketIsUnwon`); the winner,
the call that owns it and what the driver was handed agree (`WinnersAgree`); a
retired ticket is gone or past its deadline (`RetiredIsShut`); an expiry on its
way to the Hub belongs to a ticket nobody won (`ExpiryIsClosed`); a call's stage
and its reply are true (`CallsAreSound`).

`TypesInv` adds the types of the broker's rows (`RowsTyped`) and of the flags
(`FlagsTyped`).

**`OwnedInv` (Interactions).** Until a crash the request is the first event of
its journal (`AskComesFirst`, `RequestLeads`), so every event behind it that is
not the request settles the card when it is applied; the driver's clearing
observation is in the journal before its ticket goes (`ClearIsCarried`); and a
card that waits has a ticket, a winning call, a broker observation or such an
event (`CardIsOwned`). A forward that failed has none of these (`Forlorn`): it
is the gap that `WaiterIsLost` names.

**`FenceInv` (HubFence).** A fence committed for the host has a delivery
(`CommittedIsDelivered`); the successor's create exists only behind its fence
(`CreateIsCommitted`) and reaches the host after the acknowledgement
(`CreateFollowsAck`); an acknowledged fence has raised the Node's live
generation (`AckIsRaised`); an entry of the Node's log that is on disk is in
memory (`LogIsOnDisk`), so an operation that began is never taken for a new one.

**`OutcomeInv` (HubFence).** An operation has neither row nor call before its
caller is known, and no record while the caller's chapter is live
(`OwnerIsKnown`); an operation of an ended chapter that is unfinished has a
record (`UnfinishedIsRecorded`); an acknowledgement on its way is true of the
Node's log (`AckIsTrue`); and for an operation sent once, the stages of call,
row, log, disk and record belong together (`DirectOnce`, `CommandOnce`).
`OutcomeIsTrue` speaks of operations sent once: a replay of an operation id that
finds no link sets the row of the first call back (section 6).

Only model-checked: the liveness properties. Fairness and `ENABLED` are outside
the prover's reach. What each of them rests on is a safety property, that
something which can act is always there, and that half is proved; TLC checks
that, under the fairness of section 7, it does act.

| Liveness, checked by TLC | Its safety half, proved |
| --- | --- |
| `AcceptedSettles` | `AcceptedAreOwned` |
| `FencedChapterEnds` | `FencesAreCarriedOut` |
| `Mirrored` | `PumpStrandsNothing` |
| `CardSettles` | `PendingCardsAreDriven` |
| `FenceIsAcked` | `FenceInvariant` (`CommittedIsDelivered`) |

## 9. Not modelled

The lease managers (merge-gate queue, worktree pool), the inbox, restarts and
wake, and the web client's outbox are state machines of their own and are the
next candidates. Workers, tasks, providers, memory, push and auth are rows
behind HTTP routes: each operation is one SQL job with no state in between.
Drivers, screen readers, signal rules and wire codecs are I/O or pure conversion
and enter as nondeterministic answers. The gate on the Node is a pipeline of
external processes. Most of the repository's 400 000 lines are of these kinds
or are tests, so the models, which follow the delivery chain closely, cover a
small share of the lines. `PROJECT.json` lists every part with its reason.
