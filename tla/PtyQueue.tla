------------------------------ MODULE PtyQueue ------------------------------
(***************************************************************************)
(* One PTY instance of a Remuda Node: its delivery queue                   *)
(* (runtime/pty_queue.rs), the registry of prompts a Hub may still edit or *)
(* withdraw (held_input.rs), the lineage fence (fence.rs) and the durable  *)
(* command ledger they share (store.rs, runtime.rs).                       *)
(*                                                                         *)
(* The actors are the RPC tasks (submit_command, create_instance,          *)
(* command.withdraw, command.edit, lineage.fence), which the transport     *)
(* runs concurrently, the single worker task of the instance, the pump     *)
(* that records what the harness reports, and a crash of the Node.  The    *)
(* harness, the driver that types into it and the clock are external.      *)
(***************************************************************************)
EXTENDS Integers, Sequences, FiniteSets, SequencesExt

CONSTANTS
    Creates,      \* the instance.create command; {} is an adopted instance
    Sends,        \* instance.send commands in new-turn / queue mode
    Steers,       \* instance.send commands in steer mode
    Cancels,      \* instance.cancel commands
    Keys,         \* other controls: send-keys, configure
    Closes,       \* instance.close commands from the Hub
    FenceCloses,  \* the close commands a fence submits by itself
    WithFiles,    \* prompts that carry attachments
    Initiator,    \* command -> generation of its initiator, 0 for none
    Chapter,      \* the instance's own generation, 0 outside the lineage
    MaxGen,       \* bound: generations of the lineage
    Capacity,     \* instance_queue_capacity
    Texts,        \* texts an edit may carry
    Original,     \* the text a prompt is submitted with
    MaxRevision,  \* bound: revisions an edit may expect
    Withdrawable, \* bound: prompts the Hub tries to withdraw
    Editable,     \* bound: prompts the Hub tries to edit
    FenceRepeats, \* bound: fences come again, or late, without a crash
    HarnessAsks,  \* bound: the harness opens dialogs
    HarnessWorks, \* bound: the harness starts turns by itself
    HarnessExits, \* bound: the harness process ends by itself
    MaxCrashes    \* bound: crashes of the Node

Prompts  == Creates \cup Sends \cup Steers
Controls == Cancels \cup Keys \cup Closes \cup FenceCloses
Cmd      == Prompts \cup Controls

ASSUME KindsAssumption ==
    /\ Creates \cap Sends = {} /\ Creates \cap Steers = {}
    /\ Sends \cap Steers = {} /\ Prompts \cap Controls = {}
    /\ Cancels \cap (Keys \cup Closes \cup FenceCloses) = {}
    /\ Keys \cap (Closes \cup FenceCloses) = {}
    /\ Closes \cap FenceCloses = {}
    /\ WithFiles \subseteq Sends \cup Steers
ASSUME CreateAssumption == \A c, d \in Creates : c = d
ASSUME GenerationAssumption ==
    /\ MaxGen \in Nat /\ Chapter \in 0..MaxGen
    /\ Initiator \in [Cmd -> 0..MaxGen]
    /\ \A c \in FenceCloses : Initiator[c] = 0
ASSUME CapacityAssumption == Capacity \in Nat \ {0}
ASSUME BoundsAssumption ==
    /\ MaxRevision \in Nat /\ MaxCrashes \in Nat
    /\ Withdrawable \subseteq Prompts /\ Editable \subseteq Prompts
    /\ HarnessAsks \in BOOLEAN /\ HarnessWorks \in BOOLEAN
    /\ HarnessExits \in BOOLEAN /\ FenceRepeats \in BOOLEAN
ASSUME TextAssumption == Original \in Texts

NoText == "no text"
NoCmd  == "no command"
ASSUME NullAssumption == NoText \notin Texts /\ NoCmd \notin Cmd

VARIABLES
    ledger,     \* the durable command rows
    row,        \* status of a prompt's message in the transcript
    lifecycle,  \* of the instance
    activity,   \* of the instance
    rpc,        \* progress of the task that serves a command's frame
    chan,       \* the worker's bounded mpsc channel
    pending,    \* the worker's queue of prompts
    prompt,     \* the text a queued prompt would be written with
    held,       \* the HeldInputs registry
    pc,         \* where the worker is
    scan,       \* index of apply_held_changes
    ctl,        \* the control the worker executes
    deadline,   \* steer_deadline
    dialog,     \* an interaction of the instance is pending
    live,       \* the lineage's live generation in the fence table
    fencing,    \* fences persisted inline and not applied yet
    closing,    \* applied fences that have yet to close the instance
    recorded,   \* the instance's lineage is in the fence table
    reported,   \* outcomes the fence acknowledgements gave for a command
    applied,    \* the highest generation a fence was applied for
    crashes,
    (* History: what an observer of the harness and of the Hub saw.        *)
    wrote,      \* how often the driver wrote a command
    sent,       \* the text it wrote last
    told,       \* commands whose withdrawal was answered `withdrawn`
    edited,     \* the text of the last edit answered `edited`
    unescaped,  \* steers queued behind the running turn, no Esc sent since
    order       \* the prompts in the order the Node accepted them

storeVars   == <<ledger, row, lifecycle, activity>>
queueVars   == <<chan, pending, prompt, held>>
workerVars  == <<pc, scan, ctl, deadline>>
fenceVars   == <<live, fencing, closing, recorded, reported, applied>>
historyVars == <<wrote, sent, told, edited, unescaped, order>>
vars == <<storeVars, rpc, queueVars, workerVars, dialog, fenceVars, crashes,
          historyVars>>

-----------------------------------------------------------------------------
(* The command ledger.                                                     *)

NoRow == [state |-> "absent", dispatch |-> "none", outcome |-> "none",
          unknown |-> FALSE]

LedgerRow == [state : {"absent", "queued", "accepted", "settled"},
              dispatch : {"none", "intent", "written"},
              outcome : {"none", "completed", "rejected", "fenced",
                         "withdrawn", "uncertain"},
              unknown : BOOLEAN]

(* Outcomes: "rejected" (rejected, not dispatched), "fenced" (rejected for  *)
(* FENCED_REASON, not dispatched), "withdrawn" (cancelled, not dispatched),*)
(* "uncertain" (rejected, possibly dispatched), "completed".               *)
NewRow == [NoRow EXCEPT !.state = "queued"]

accept_command(r) == [r EXCEPT !.state = "accepted", !.dispatch = "intent"]

settle_command(r, outcome) ==
    [r EXCEPT !.state = "settled", !.outcome = outcome, !.unknown = FALSE]

UnlessSettled(r, outcome) ==
    IF r.state = "settled" THEN r ELSE settle_command(r, outcome)

settled_fenced(r) == r.outcome = "fenced"

(* Mutation: settled rows are marked too.                                  *)
Mut_mark_unsettled_unknown(rows) ==
    [c \in Cmd |-> [rows[c] EXCEPT !.unknown = rows[c].state # "absent"]]

mark_unsettled_unknown(rows) ==
    [c \in Cmd |-> IF rows[c].state \in {"queued", "accepted"}
                   THEN [rows[c] EXCEPT !.unknown = TRUE]
                   ELSE rows[c]]

is_fenced(c) == Initiator[c] > 0 /\ Initiator[c] < live

-----------------------------------------------------------------------------
(* The registry of held prompts.                                           *)

NotHeld == [st |-> "none", rev |-> -1, text |-> NoText]

HeldEntry == [st : {"none", "waiting", "withdrawn", "delivering"},
              rev : -1..MaxRevision, text : Texts \cup {NoText}]

hold == [NotHeld EXCEPT !.st = "waiting"]

(* The activity the queue projects while `front` heads it.                 *)
remark_after_enqueue(a, front) ==
    IF a \in {"working", "waiting"} \/ front \in Steers THEN a ELSE "waiting"

remark_after_queue_change(a, queue) ==
    IF queue = <<>> THEN a ELSE remark_after_enqueue(a, Head(queue))

blocked_on_human == activity = "waiting" /\ dialog

-----------------------------------------------------------------------------
(* Mutation: the transcript rows of dropped prompts are left as they were. *)
Mut_interrupt_pending ==
    LET dropped == ToSet(pending) IN
    /\ held' = [c \in Cmd |-> IF c \in dropped THEN NotHeld ELSE held[c]]
    /\ ledger' = [c \in Cmd |-> IF c \in dropped
                                THEN UnlessSettled(ledger[c], "rejected")
                                ELSE ledger[c]]
    /\ pending' = <<>> /\ UNCHANGED row

(* Every queued prompt is dropped: released, interrupted, rejected.        *)
interrupt_pending ==
    LET dropped == ToSet(pending) IN
    /\ held' = [c \in Cmd |-> IF c \in dropped THEN NotHeld ELSE held[c]]
    /\ row' = [c \in Cmd |-> IF c \in dropped THEN "interrupted" ELSE row[c]]
    /\ ledger' = [c \in Cmd |-> IF c \in dropped
                                THEN UnlessSettled(ledger[c], "rejected")
                                ELSE ledger[c]]
    /\ pending' = <<>>

(* A steer is inserted behind the steers already queued and ahead of every *)
(* other prompt.                                                           *)
steer_slot(queue) ==
    Cardinality({i \in 1..Len(queue) : \A j \in 1..i : queue[j] \in Steers}) + 1

InitAdopted ==
    /\ lifecycle = "ready" /\ activity = "idle" /\ pc = "select"
    /\ recorded = (Chapter # 0)

InitNew ==
    /\ lifecycle = "none" /\ activity = "unknown" /\ pc = "absent"
    /\ recorded = FALSE

Init ==
    /\ ledger = [c \in Cmd |-> NoRow]
    /\ row = [c \in Cmd |-> "none"]
    /\ rpc = [c \in Cmd |-> "idle"]
    /\ chan = <<>> /\ pending = <<>>
    /\ prompt = [c \in Cmd |-> Original]
    /\ held = [c \in Cmd |-> NotHeld]
    /\ scan = 0 /\ ctl = NoCmd /\ deadline = "none"
    /\ dialog = FALSE
    /\ live = 0 /\ fencing = {} /\ closing = {}
    /\ reported = [c \in Cmd |-> {}] /\ applied = 0
    /\ crashes = 0
    /\ wrote = [c \in Cmd |-> 0]
    /\ sent = [c \in Cmd |-> NoText]
    /\ told = {} /\ edited = [c \in Cmd |-> Original]
    /\ unescaped = {} /\ order = <<>>
    /\ IF Creates = {} THEN InitAdopted ELSE InitNew

-----------------------------------------------------------------------------
(* submit_command: refuse a fenced initiator, insert the row, enqueue it.  *)
(* A command a fence submits for itself starts at "admitted".              *)

Admit(c) ==
    /\ c \in Cmd \ (Creates \cup FenceCloses) /\ rpc[c] = "idle"
    /\ lifecycle # "none"
    /\ rpc' = [rpc EXCEPT ![c] = IF is_fenced(c) THEN "refused" ELSE "admitted"]
    /\ UNCHANGED <<storeVars, queueVars, workerVars, dialog, fenceVars, crashes,
                   historyVars>>

insert_command(c) ==
    /\ c \notin Creates /\ rpc[c] = "admitted"
    /\ rpc' = [rpc EXCEPT ![c] = "inserted"]
    /\ ledger' = [ledger EXCEPT ![c] = NewRow]
    /\ UNCHANGED <<row, lifecycle, activity, queueVars, workerVars, dialog,
                   fenceVars, crashes, historyVars>>

SenderOpen == pc \notin {"absent", "ended"}

(* The fence cancels the instance's interactions once its close returned.  *)
AnswerSubmit(c) ==
    /\ rpc' = [rpc EXCEPT ![c] = "answered"]
    /\ dialog' = (dialog /\ c \notin FenceCloses)

(* The durable accept precedes the send on the reserved permit.            *)
enqueue_existing(c) ==
    /\ c \notin Creates /\ rpc[c] = "inserted"
    /\ SenderOpen /\ Len(chan) < Capacity
    /\ ledger' = [ledger EXCEPT ![c] = accept_command(@)]
    /\ chan' = Append(chan, c)
    /\ order' = IF c \in Prompts THEN Append(order, c) ELSE order
    /\ AnswerSubmit(c)
    /\ UNCHANGED <<row, lifecycle, activity, pending, prompt, held, workerVars,
                   fenceVars, crashes, wrote, sent, told, edited, unescaped>>

(* QueueFull and DriverUnavailable settle the task's own copy of the row.  *)
(* A close is refused too when the worker's task has dropped its channel   *)
(* and is not yet finished; how long that lasts is left open.              *)
EnqueueRejected(c) ==
    /\ c \notin Creates /\ rpc[c] = "inserted"
    /\ \/ SenderOpen /\ Len(chan) = Capacity
       \/ ~SenderOpen /\ (c \in Closes \cup FenceCloses => pc = "ended")
    /\ ledger' = [ledger EXCEPT ![c] = settle_command(NewRow, "rejected")]
    /\ AnswerSubmit(c)
    /\ UNCHANGED <<row, lifecycle, activity, queueVars, workerVars, fenceVars,
                   crashes, historyVars>>

MarkExited ==
    /\ lifecycle' = "exited"
    /\ activity' = IF lifecycle = "exited" THEN activity ELSE "idle"

UnknownIfRunning ==
    IF lifecycle = "exited" THEN ledger ELSE mark_unsettled_unknown(ledger)

(* A close of an instance whose worker has ended runs close_ended_instance;*)
(* when the driver's close fails the RPC fails and the row stays queued.   *)
CloseEnded(c) ==
    /\ c \in Closes \cup FenceCloses /\ rpc[c] = "inserted" /\ ~SenderOpen
    /\ \/ /\ MarkExited
          /\ ledger' = [UnknownIfRunning EXCEPT
                           ![c] = settle_command(accept_command(NewRow), "completed")]
          /\ wrote' = [wrote EXCEPT ![c] = @ + 1]
       \/ UNCHANGED <<lifecycle, activity, ledger, wrote>>
    /\ AnswerSubmit(c)
    /\ UNCHANGED <<row, queueVars, workerVars, fenceVars, crashes, sent, told,
                   edited, unescaped, order>>

-----------------------------------------------------------------------------
(* create_instance: admit_create checks the fence and records the lineage  *)
(* in two critical sections, then the instance and the command row are     *)
(* inserted, the command is accepted and the worker spawned.               *)

CreateCheck(c) ==
    /\ c \in Creates /\ rpc[c] = "idle"
    /\ rpc' = [rpc EXCEPT ![c] = IF is_fenced(c) \/ (Chapter > 0 /\ Chapter < live)
                                 THEN "refused" ELSE "checked"]
    /\ UNCHANGED <<storeVars, queueVars, workerVars, dialog, fenceVars, crashes,
                   historyVars>>

record_lineage(c) ==
    /\ c \in Creates /\ rpc[c] = "checked"
    /\ rpc' = [rpc EXCEPT ![c] = "admitted"]
    /\ recorded' = (Chapter # 0)
    /\ UNCHANGED <<storeVars, queueVars, workerVars, dialog, live, fencing,
                   closing, reported, applied, crashes, historyVars>>

CreateInsert(c) ==
    /\ c \in Creates /\ rpc[c] = "admitted"
    /\ rpc' = [rpc EXCEPT ![c] = "inserted"]
    /\ ledger' = [ledger EXCEPT ![c] = NewRow]
    /\ lifecycle' = "starting"
    /\ UNCHANGED <<row, activity, queueVars, workerVars, dialog, fenceVars,
                   crashes, historyVars>>

(* The accept writes the task's copy of the row, not a fresh read.         *)
CreateAccept(c) ==
    /\ c \in Creates /\ rpc[c] = "inserted" /\ pc = "absent"
    /\ rpc' = [rpc EXCEPT ![c] = "answered"]
    /\ ledger' = [ledger EXCEPT ![c] = accept_command(NewRow)]
    /\ pc' = "starting"
    /\ UNCHANGED <<row, lifecycle, activity, queueVars, scan, ctl, deadline,
                   dialog, fenceVars, crashes, historyVars>>

(* Mutation: the create's prompt is queued without being held.             *)
Mut_StartOk(c, hasPrompt) ==
    /\ pc = "starting" /\ c \in Creates
    /\ lifecycle' = "ready"
    /\ pending' = IF hasPrompt THEN <<c>> ELSE <<>>
    /\ row' = IF hasPrompt THEN [row EXCEPT ![c] = "queued"] ELSE row
    /\ ledger' = [ledger EXCEPT
                     ![c] = settle_command(accept_command(NewRow), "completed")]
    /\ activity' = remark_after_queue_change(activity, pending')
    /\ pc' = "select"
    /\ UNCHANGED <<rpc, chan, prompt, held, scan, ctl, deadline, dialog,
                   fenceVars, crashes, historyVars>>

(* materialize_instance: the driver is up.  The create's prompt is held and*)
(* queued, the worker's copy of the create settles completed, and the      *)
(* queue's activity is projected.                                          *)
StartOk(c, hasPrompt) ==
    /\ pc = "starting" /\ c \in Creates
    /\ lifecycle' = "ready"
    /\ pending' = IF hasPrompt THEN <<c>> ELSE <<>>
    /\ held' = IF hasPrompt THEN [held EXCEPT ![c] = hold] ELSE held
    /\ row' = IF hasPrompt THEN [row EXCEPT ![c] = "queued"] ELSE row
    /\ ledger' = [ledger EXCEPT
                     ![c] = settle_command(accept_command(NewRow), "completed")]
    /\ activity' = remark_after_queue_change(activity, pending')
    /\ pc' = "select"
    /\ UNCHANGED <<rpc, chan, prompt, scan, ctl, deadline, dialog, fenceVars,
                   crashes, historyVars>>

record_task_exit(rows) ==
    IF lifecycle = "exited"
    THEN ledger' = rows /\ UNCHANGED <<lifecycle, activity>>
    ELSE /\ ledger' = mark_unsettled_unknown(rows)
         /\ lifecycle' = "failed" /\ activity' = "unknown"

(* reject_materialization: the create and every queued command settle      *)
(* rejected, whatever their rows say, and the worker ends.                 *)
StartFail(c) ==
    /\ pc = "starting" /\ c \in Creates
    /\ record_task_exit([d \in Cmd |->
           IF d = c THEN settle_command(accept_command(NewRow), "rejected")
           ELSE IF d \in ToSet(chan) THEN settle_command(ledger[d], "rejected")
           ELSE ledger[d]])
    /\ chan' = <<>> /\ pc' = "ended"
    /\ UNCHANGED <<row, rpc, pending, prompt, held, scan, ctl, deadline, dialog,
                   fenceVars, crashes, historyVars>>

(* The driver could not be built: the exit is recorded, then the task      *)
(* returns and drops its channel.                                          *)
BuildFail ==
    /\ pc = "starting"
    /\ record_task_exit(ledger)
    /\ pc' = "failing"
    /\ UNCHANGED <<row, rpc, queueVars, scan, ctl, deadline, dialog, fenceVars,
                   crashes, historyVars>>

BuildFailReturn ==
    /\ pc = "failing"
    /\ chan' = <<>> /\ pc' = "ended"
    /\ UNCHANGED <<storeVars, rpc, pending, prompt, held, scan, ctl, deadline,
                   dialog, fenceVars, crashes, historyVars>>

-----------------------------------------------------------------------------
(* The worker takes a command off its channel.                             *)

RecvFull(c) ==
    /\ pc = "select" /\ chan # <<>> /\ c = Head(chan) /\ c \in Prompts
    /\ Len(pending) = Capacity
    /\ chan' = Tail(chan)
    /\ ledger' = [ledger EXCEPT ![c] = settle_command(@, "rejected")]
    /\ activity' = remark_after_queue_change(activity, pending)
    /\ UNCHANGED <<row, lifecycle, rpc, pending, prompt, held, workerVars,
                   dialog, fenceVars, crashes, historyVars>>

(* A turn that is over, or stopped by a dialog, owes nobody an Esc.        *)
UnescapedIn(a) == IF a = "working" THEN unescaped ELSE {}

(* The harness gets one Esc for every steer queued at that moment.         *)
arm_steer_interrupt(queue) ==
    /\ deadline' = "running"
    /\ unescaped' = unescaped \ ToSet(queue)

(* Mutation: an ordinary prompt goes to the front of the queue.            *)
Mut_RecvPrompt(c) ==
    /\ pc = "select" /\ chan # <<>> /\ c = Head(chan) /\ c \in Sends
    /\ Len(pending) < Capacity
    /\ chan' = Tail(chan)
    /\ held' = [held EXCEPT ![c] = hold]
    /\ row' = [row EXCEPT ![c] = "queued"]
    /\ pending' = <<c>> \o pending
    /\ activity' = remark_after_enqueue(activity, Head(pending'))
    /\ UNCHANGED <<ledger, lifecycle, rpc, prompt, workerVars, dialog, fenceVars,
                   crashes, historyVars>>

RecvPrompt(c) ==
    /\ pc = "select" /\ chan # <<>> /\ c = Head(chan) /\ c \in Sends
    /\ Len(pending) < Capacity
    /\ chan' = Tail(chan)
    /\ held' = [held EXCEPT ![c] = hold]
    /\ row' = [row EXCEPT ![c] = "queued"]
    /\ pending' = Append(pending, c)
    /\ activity' = remark_after_enqueue(activity, Head(pending'))
    /\ UNCHANGED <<ledger, lifecycle, rpc, prompt, workerVars, dialog, fenceVars,
                   crashes, historyVars>>

RecvSteer(c) ==
    /\ pc = "select" /\ chan # <<>> /\ c = Head(chan) /\ c \in Steers
    /\ Len(pending) < Capacity
    /\ chan' = Tail(chan)
    /\ held' = [held EXCEPT ![c] = hold]
    /\ row' = [row EXCEPT ![c] = "queued"]
    /\ pending' = InsertAt(pending, steer_slot(pending), c)
    /\ IF activity = "working" /\ deadline = "none"
       THEN arm_steer_interrupt(pending')
       ELSE /\ deadline' = IF ~blocked_on_human /\ deadline = "none"
                           THEN "passed" ELSE deadline
            /\ unescaped' = IF activity = "working"
                            THEN unescaped \cup {c} ELSE unescaped
    /\ activity' = remark_after_enqueue(activity, Head(pending'))
    /\ UNCHANGED <<ledger, lifecycle, rpc, prompt, pc, scan, ctl, dialog,
                   fenceVars, crashes, wrote, sent, told, edited, order>>

(* A cancel or a close first interrupts every queued prompt.               *)
RecvControl(c) ==
    /\ pc = "select" /\ chan # <<>> /\ c = Head(chan) /\ c \in Controls
    /\ chan' = Tail(chan)
    /\ IF c \in Keys THEN UNCHANGED <<held, row, ledger, pending>>
       ELSE interrupt_pending
    /\ pc' = "control" /\ ctl' = c
    /\ UNCHANGED <<lifecycle, activity, rpc, prompt, scan, deadline, dialog,
                   fenceVars, crashes, historyVars>>

-----------------------------------------------------------------------------
(* The dispatch claim of fence.rs, under the fence lock.                   *)

(* Mutation: a settled command is delivered, whoever settled it.           *)
Mut_ClaimRefused(c) ==
    Initiator[c] > 0 /\ ledger[c].state # "settled" /\ is_fenced(c)

ClaimRefused(c) ==
    /\ Initiator[c] > 0
    /\ IF ledger[c].state = "settled" THEN settled_fenced(ledger[c])
       ELSE is_fenced(c)

claim(c) ==
    [ledger EXCEPT ![c] =
        IF Initiator[c] = 0 \/ @.state = "settled" THEN @
        ELSE IF is_fenced(c) THEN settle_command(@, "fenced")
        ELSE [@ EXCEPT !.dispatch = "written"]]

(* execute_queued, for a control.                                          *)
ControlClaim ==
    /\ pc = "control"
    /\ pc' = IF ClaimRefused(ctl) THEN "controlDone" ELSE "controlClaimed"
    /\ ledger' = claim(ctl)
    /\ UNCHANGED <<row, lifecycle, activity, rpc, queueVars, scan, ctl, deadline,
                   dialog, fenceVars, crashes, historyVars>>

ControlOk ==
    /\ pc = "controlClaimed"
    /\ lifecycle' = IF ctl \in Closes \cup FenceCloses THEN "exited" ELSE lifecycle
    /\ activity' = "idle"
    /\ ledger' = [ledger EXCEPT ![ctl] = settle_command(@, "completed")]
    /\ wrote' = [wrote EXCEPT ![ctl] = @ + 1]
    /\ unescaped' = UnescapedIn("idle")
    /\ pc' = "controlDone"
    /\ UNCHANGED <<row, rpc, queueVars, scan, ctl, deadline, dialog, fenceVars,
                   crashes, sent, told, edited, order>>

ControlErr(written) ==
    /\ pc = "controlClaimed"
    /\ ledger' = [ledger EXCEPT ![ctl] = settle_command(@, "uncertain")]
    /\ wrote' = IF written THEN [wrote EXCEPT ![ctl] = @ + 1] ELSE wrote
    /\ pc' = "controlDone"
    /\ UNCHANGED <<row, lifecycle, activity, rpc, queueVars, scan, ctl, deadline,
                   dialog, fenceVars, crashes, sent, told, edited, unescaped, order>>

(* Mutation: a close returns without draining the channel.                 *)
Mut_ControlReturn ==
    /\ pc = "controlDone"
    /\ ctl' = NoCmd /\ pc' = IF lifecycle = "exited" THEN "ended" ELSE "select"
    /\ activity' = remark_after_queue_change(activity, pending)
    /\ chan' = IF lifecycle = "exited" THEN <<>> ELSE chan
    /\ UNCHANGED <<ledger, row, lifecycle, rpc, pending, prompt, held, scan,
                   deadline, dialog, fenceVars, crashes, historyVars>>

(* A close that left the instance exited drains the channel and returns.   *)
ControlReturn ==
    /\ pc = "controlDone"
    /\ ctl' = NoCmd
    /\ IF ctl \in Closes \cup FenceCloses /\ lifecycle = "exited"
       THEN /\ ledger' = [c \in Cmd |-> IF c \in ToSet(chan)
                                        THEN settle_command(ledger[c], "rejected")
                                        ELSE ledger[c]]
            /\ chan' = <<>> /\ pc' = "ended"
            /\ UNCHANGED activity
       ELSE /\ activity' = remark_after_queue_change(activity, pending)
            /\ pc' = "select"
            /\ UNCHANGED <<ledger, chan>>
    /\ UNCHANGED <<row, lifecycle, rpc, pending, prompt, held, scan, deadline,
                   dialog, fenceVars, crashes, historyVars>>

-----------------------------------------------------------------------------
(* The tick: apply_held_changes, then the gate in front of the head.       *)

Tick ==
    /\ pc = "select" /\ pending # <<>>
    /\ pc' = "scan" /\ scan' = 1
    /\ UNCHANGED <<storeVars, rpc, queueVars, ctl, deadline, dialog, fenceVars,
                   crashes, historyVars>>

finalize_withdrawn(c) ==
    /\ row' = [row EXCEPT ![c] = "interrupted"]
    /\ ledger' = [ledger EXCEPT ![c] = UnlessSettled(@, "withdrawn")]

(* apply_edit: the text moves from the registry into the queued prompt and *)
(* the transcript row is republished as queued.                            *)
apply_edit(c) ==
    /\ prompt' = [prompt EXCEPT ![c] = held[c].text]
    /\ row' = [row EXCEPT ![c] = "queued"]

apply_held_changes ==
    /\ pc = "scan" /\ scan \in 1..Len(pending)
    /\ LET c == pending[scan] IN
       \/ /\ held[c].st = "withdrawn"
          /\ held' = [held EXCEPT ![c] = NotHeld]
          /\ pending' = RemoveAt(pending, scan)
          /\ finalize_withdrawn(c)
          /\ UNCHANGED <<prompt, scan>>
       \/ /\ held[c].st = "waiting" /\ held[c].text # NoText
          /\ held' = [held EXCEPT ![c].text = NoText]
          /\ apply_edit(c)
          /\ scan' = scan + 1
          /\ UNCHANGED <<ledger, pending>>
       \/ /\ held[c].st # "withdrawn"
          /\ held[c].st = "waiting" => held[c].text = NoText
          /\ scan' = scan + 1
          /\ UNCHANGED <<held, prompt, row, ledger, pending>>
    /\ UNCHANGED <<lifecycle, activity, rpc, chan, pc, ctl, deadline, dialog,
                   fenceVars, crashes, historyVars>>

Scanned == pc = "scan" /\ scan > Len(pending)

(* settle_activity_after_drain: the last queued prompt was withdrawn.      *)
TickDrained ==
    /\ Scanned /\ pending = <<>>
    /\ activity' = IF activity = "waiting" /\ ~dialog THEN "idle" ELSE activity
    /\ pc' = "select" /\ scan' = 0
    /\ UNCHANGED <<ledger, row, lifecycle, rpc, queueVars, ctl, deadline, dialog,
                   fenceVars, crashes, historyVars>>

TickNotReady ==
    /\ Scanned /\ pending # <<>> /\ lifecycle # "ready"
    /\ interrupt_pending
    /\ pc' = "select" /\ scan' = 0
    /\ UNCHANGED <<lifecycle, activity, rpc, chan, prompt, ctl, deadline, dialog,
                   fenceVars, crashes, historyVars>>

steer_gated ==
    /\ Head(pending) \in Steers
    /\ (activity = "working" /\ deadline # "passed") \/ blocked_on_human

TickGated ==
    /\ Scanned /\ pending # <<>> /\ lifecycle = "ready" /\ steer_gated
    /\ pc' = "select" /\ scan' = 0
    /\ UNCHANGED <<storeVars, rpc, queueVars, ctl, deadline, dialog, fenceVars,
                   crashes, historyVars>>

TickDeliver ==
    /\ Scanned /\ pending # <<>> /\ lifecycle = "ready" /\ ~steer_gated
    /\ pc' = "resolve" /\ scan' = 0
    /\ UNCHANGED <<storeVars, rpc, queueVars, ctl, deadline, dialog, fenceVars,
                   crashes, historyVars>>

-----------------------------------------------------------------------------
(* deliver, for the head of the queue.                                     *)

(* Mutation: the next steer gets no Esc and inherits the deadline.         *)
Mut_PopHeadNoRearm(a) ==
    /\ pending' = Tail(pending)
    /\ pc' = "select"
    /\ UNCHANGED <<deadline, unescaped>>

(* `deliver` returned true: the head leaves the queue, and a steer behind  *)
(* it gets its own Esc if a turn is running.                               *)
PopHead(a) ==
    LET next == Tail(pending) IN
    /\ pending' = next
    /\ IF next # <<>> /\ Head(next) \in Steers /\ a = "working"
       THEN arm_steer_interrupt(next)
       ELSE /\ deadline' = IF Head(pending) \in Steers THEN "none" ELSE deadline
            /\ unescaped' = UnescapedIn(a)
    /\ pc' = "select"

ResolveOk ==
    /\ pc = "resolve"
    /\ pc' = "probe"
    /\ UNCHANGED <<storeVars, rpc, queueVars, scan, ctl, deadline, dialog,
                   fenceVars, crashes, historyVars>>

(* Mutation: a prompt whose files cannot be fetched is dropped unsettled.  *)
Mut_ResolveFail ==
    /\ pc = "resolve" /\ Head(pending) \in WithFiles
    /\ held' = [held EXCEPT ![Head(pending)] = NotHeld]
    /\ row' = [row EXCEPT ![Head(pending)] = "interrupted"]
    /\ PopHead(activity)
    /\ UNCHANGED <<ledger, lifecycle, activity, rpc, chan, prompt, scan, ctl,
                   dialog, fenceVars, crashes, wrote, sent, told, edited, order>>

ResolveFail ==
    /\ pc = "resolve" /\ Head(pending) \in WithFiles
    /\ LET c == Head(pending) IN
       /\ held' = [held EXCEPT ![c] = NotHeld]
       /\ row' = [row EXCEPT ![c] = "interrupted"]
       /\ ledger' = [ledger EXCEPT ![c] = UnlessSettled(@, "rejected")]
    /\ PopHead(activity)
    /\ UNCHANGED <<lifecycle, activity, rpc, chan, prompt, scan, ctl, dialog,
                   fenceVars, crashes, wrote, sent, told, edited, order>>

(* wait_control timed out or answered control-unavailable.                 *)
ProbeUnavailable ==
    /\ pc = "probe"
    /\ pc' = "select"
    /\ UNCHANGED <<storeVars, rpc, queueVars, scan, ctl, deadline, dialog,
                   fenceVars, crashes, historyVars>>

(* Any other probe error skips both claims.                                *)
ProbeErr ==
    /\ pc = "probe"
    /\ pc' = "erred"
    /\ UNCHANGED <<storeVars, rpc, queueVars, scan, ctl, deadline, dialog,
                   fenceVars, crashes, historyVars>>

(* The held-input claim, when a withdrawal won.                            *)
ClaimWithdrawn ==
    /\ pc = "probe" /\ held[Head(pending)].st = "withdrawn"
    /\ held' = [held EXCEPT ![Head(pending)] = NotHeld]
    /\ finalize_withdrawn(Head(pending))
    /\ PopHead(activity)
    /\ UNCHANGED <<lifecycle, activity, rpc, chan, prompt, scan, ctl, dialog,
                   fenceVars, crashes, wrote, sent, told, edited, order>>

(* Mutation: the claim does not look for a withdrawal.                     *)
Mut_ClaimIgnoresWithdrawal ==
    /\ pc = "probe"
    /\ held' = [held EXCEPT ![Head(pending)].st = "delivering"]
    /\ pc' = "claimed"
    /\ UNCHANGED <<storeVars, rpc, chan, pending, prompt, scan, ctl, deadline,
                   dialog, fenceVars, crashes, historyVars>>

(* Mutation: the claim takes an unapplied edit and loses it.               *)
Mut_ClaimLosesEdit ==
    /\ pc = "probe" /\ held[Head(pending)].st # "withdrawn"
    /\ held' = [held EXCEPT ![Head(pending)].st = "delivering",
                            ![Head(pending)].text = NoText]
    /\ pc' = "claimed"
    /\ UNCHANGED <<storeVars, rpc, chan, pending, prompt, scan, ctl, deadline,
                   dialog, fenceVars, crashes, historyVars>>

(* The held-input claim, when the delivery won; an edit that the tick has  *)
(* not applied is applied here.                                            *)
ClaimDeliver ==
    /\ pc = "probe" /\ held[Head(pending)].st # "withdrawn"
    /\ LET c == Head(pending) IN
       /\ held' = IF held[c].st = "none" THEN held
                  ELSE [held EXCEPT ![c].st = "delivering", ![c].text = NoText]
       /\ IF held[c].text = NoText THEN UNCHANGED <<prompt, row>>
          ELSE apply_edit(c)
    /\ pc' = "claimed"
    /\ UNCHANGED <<ledger, lifecycle, activity, rpc, chan, pending, scan, ctl,
                   deadline, dialog, fenceVars, crashes, historyVars>>

ClaimFenced ==
    /\ pc = "claimed" /\ ClaimRefused(Head(pending))
    /\ LET c == Head(pending) IN
       /\ ledger' = claim(c)
       /\ held' = [held EXCEPT ![c] = NotHeld]
       /\ row' = [row EXCEPT ![c] = "interrupted"]
    /\ PopHead(activity)
    /\ UNCHANGED <<lifecycle, activity, rpc, chan, prompt, scan, ctl, dialog,
                   fenceVars, crashes, wrote, sent, told, edited, order>>

ClaimDispatch ==
    /\ pc = "claimed" /\ ~ClaimRefused(Head(pending))
    /\ ledger' = claim(Head(pending))
    /\ activity' = "working"
    /\ unescaped' = unescaped \cup (ToSet(Tail(pending)) \cap Steers)
    /\ pc' = "executing"
    /\ UNCHANGED <<row, lifecycle, rpc, queueVars, scan, ctl, deadline, dialog,
                   fenceVars, crashes, wrote, sent, told, edited, order>>

DriverWrites(c) ==
    /\ wrote' = [wrote EXCEPT ![c] = @ + 1]
    /\ sent' = [sent EXCEPT ![c] = prompt[c]]

ExecuteOk ==
    /\ pc = "executing"
    /\ DriverWrites(Head(pending))
    /\ pc' = "written"
    /\ UNCHANGED <<storeVars, rpc, queueVars, scan, ctl, deadline, dialog,
                   fenceVars, crashes, told, edited, unescaped, order>>

(* ControlUnavailable: nothing was written, the prompt waits again.        *)
ExecuteUnavailable ==
    /\ pc = "executing"
    /\ LET c == Head(pending) IN
       /\ held' = IF held[c].st = "delivering"
                  THEN [held EXCEPT ![c].st = "waiting"] ELSE held
       /\ activity' = remark_after_enqueue(activity, c)
    /\ pc' = "select"
    /\ UNCHANGED <<ledger, row, lifecycle, rpc, chan, pending, prompt, scan, ctl,
                   deadline, dialog, fenceVars, crashes, historyVars>>

(* The send failed; the bytes may or may not have reached the harness.     *)
ExecuteErr(written) ==
    /\ pc = "executing"
    /\ IF written THEN DriverWrites(Head(pending)) ELSE UNCHANGED <<wrote, sent>>
    /\ pc' = "erred"
    /\ UNCHANGED <<storeVars, rpc, queueVars, scan, ctl, deadline, dialog,
                   fenceVars, crashes, told, edited, unescaped, order>>

(* Mutation: a failed send settles as not dispatched.                      *)
Mut_SettleDelivered(c, outcome) ==
    IF c \in Creates THEN ledger
    ELSE [ledger EXCEPT ![c] = UnlessSettled(@,
              IF outcome = "uncertain" THEN "rejected" ELSE outcome)]

(* A create is settled already and its row is never saved here.            *)
SettleDelivered(c, outcome) ==
    IF c \in Creates THEN ledger
    ELSE [ledger EXCEPT ![c] = UnlessSettled(@, outcome)]

SettleOk ==
    /\ pc = "written"
    /\ LET c == Head(pending) IN
       /\ row' = [row EXCEPT ![c] = "complete"]
       /\ ledger' = SettleDelivered(c, "completed")
       /\ held' = [held EXCEPT ![c] = NotHeld]
    /\ PopHead(activity)
    /\ UNCHANGED <<lifecycle, activity, rpc, chan, prompt, scan, ctl, dialog,
                   fenceVars, crashes, wrote, sent, told, edited, order>>

(* Mutation: a failed send is retried.                                     *)
Mut_SettleErr ==
    /\ pc = "erred"
    /\ held' = [held EXCEPT ![Head(pending)].st = "waiting"]
    /\ pc' = "select"
    /\ UNCHANGED <<storeVars, rpc, chan, pending, prompt, scan, ctl, deadline,
                   dialog, fenceVars, crashes, historyVars>>

SettleErr ==
    /\ pc = "erred"
    /\ LET c == Head(pending) IN
       /\ row' = [row EXCEPT ![c] = "interrupted"]
       /\ ledger' = SettleDelivered(c, "uncertain")
       /\ held' = [held EXCEPT ![c] = NotHeld]
    /\ activity' = "unknown"
    /\ PopHead("unknown")
    /\ UNCHANGED <<lifecycle, rpc, chan, prompt, scan, ctl, dialog, fenceVars,
                   crashes, wrote, sent, told, edited, order>>

-----------------------------------------------------------------------------
(* The Hub's command.withdraw and command.edit, first-wins against the     *)
(* claim.  Answers that change nothing are stuttering steps.               *)

withdraw(c) ==
    /\ c \in Withdrawable /\ held[c].st \in {"waiting", "withdrawn"}
    /\ held' = [held EXCEPT ![c].st = "withdrawn"]
    /\ told' = told \cup {c}
    /\ UNCHANGED <<storeVars, rpc, chan, pending, prompt, workerVars, dialog,
                   fenceVars, crashes, wrote, sent, edited, unescaped, order>>

edit(c, expected, text) ==
    /\ c \in Editable /\ held[c].st = "waiting"
    /\ held[c].rev \in {-1, expected}
    /\ expected < MaxRevision
    /\ held' = [held EXCEPT ![c].rev = expected + 1, ![c].text = text]
    /\ edited' = [edited EXCEPT ![c] = text]
    /\ UNCHANGED <<storeVars, rpc, chan, pending, prompt, workerVars, dialog,
                   fenceVars, crashes, wrote, sent, told, unescaped, order>>

-----------------------------------------------------------------------------
(* lineage.fence: the transport persists it inline, in read order; a task  *)
(* applies it; then the instance is closed if its generation is below.  The*)
(* Hub repeats a fence until it is acknowledged, and a frame may come late:*)
(* the live generation never moves backwards.                              *)

persist_fence_frame(g) ==
    /\ g \in 1..MaxGen /\ g \notin fencing \cup closing
    /\ g > live \/ crashes > 0 \/ FenceRepeats
    /\ live' = IF g > live THEN g ELSE live
    /\ fencing' = fencing \cup {g}
    /\ UNCHANGED <<storeVars, rpc, queueVars, workerVars, dialog, closing,
                   recorded, reported, applied, crashes, historyVars>>

Below(c, g) == Initiator[c] > 0 /\ Initiator[c] < g

(* Mutation: the acknowledgement leaves out writes that are under way.     *)
Mut_fence_outcome(c) ==
    LET r == ledger[c] IN
    CASE r.state = "absent"  -> {}
      [] r.state = "settled" -> IF r.outcome = "completed" THEN {"ran"}
                                ELSE IF settled_fenced(r) THEN {"cancelled"}
                                ELSE {}
      [] OTHER -> IF r.dispatch = "written" THEN {} ELSE {"cancelled"}

fence_outcome(c) ==
    LET r == ledger[c] IN
    CASE r.state = "absent"  -> {}
      [] r.state = "settled" -> IF r.outcome = "completed" THEN {"ran"}
                                ELSE IF settled_fenced(r) THEN {"cancelled"}
                                ELSE {}
      [] OTHER -> IF r.dispatch = "written" THEN {"unknown"} ELSE {"cancelled"}

apply_lineage_fence(g) ==
    /\ g \in fencing
    /\ fencing' = fencing \ {g}
    /\ ledger' = [c \in Cmd |->
           IF Below(c, g) /\ ledger[c].state \in {"queued", "accepted"}
                          /\ ledger[c].dispatch # "written"
           THEN settle_command(ledger[c], "fenced") ELSE ledger[c]]
    /\ reported' = [c \in Cmd |->
           IF Below(c, g) THEN reported[c] \cup fence_outcome(c) ELSE reported[c]]
    /\ closing' = IF recorded /\ Chapter < g THEN closing \cup {g} ELSE closing
    /\ applied' = IF g > applied THEN g ELSE applied
    /\ UNCHANGED <<row, lifecycle, activity, rpc, queueVars, workerVars, dialog,
                   live, recorded, crashes, historyVars>>

(* Mutation: the fence only closes an idle instance.                       *)
Mut_FenceClose(g, c) ==
    /\ g \in closing /\ c \in FenceCloses /\ rpc[c] = "idle"
    /\ closing' = closing \ {g}
    /\ rpc' = IF lifecycle = "ready" /\ activity = "idle"
              THEN [rpc EXCEPT ![c] = "admitted"] ELSE rpc
    /\ UNCHANGED <<storeVars, queueVars, workerVars, dialog, live, fencing,
                   recorded, reported, applied, crashes, historyVars>>

(* The close is an ordinary submit_command without an initiator.           *)
FenceClose(g, c) ==
    /\ g \in closing /\ c \in FenceCloses /\ rpc[c] = "idle"
    /\ closing' = closing \ {g}
    /\ rpc' = IF lifecycle \in {"starting", "ready"}
              THEN [rpc EXCEPT ![c] = "admitted"] ELSE rpc
    /\ UNCHANGED <<storeVars, queueVars, workerVars, dialog, live, fencing,
                   recorded, reported, applied, crashes, historyVars>>

-----------------------------------------------------------------------------
(* What the harness and the clock do.  What it reports is recorded while   *)
(* the instance has a worker.                                              *)

(* Turn evidence (hooks, transcript, screen) moves the activity.           *)
SignalActivity(a) ==
    /\ lifecycle = "ready" /\ SenderOpen /\ activity # a
    /\ a = "idle" \/ (a = "working" /\ HarnessWorks)
    /\ activity' = a
    /\ unescaped' = UnescapedIn(a)
    /\ UNCHANGED <<ledger, row, lifecycle, rpc, queueVars, workerVars, dialog,
                   fenceVars, crashes, wrote, sent, told, edited, order>>

DialogOpens ==
    /\ HarnessAsks /\ lifecycle = "ready" /\ SenderOpen /\ ~dialog
    /\ dialog' = TRUE /\ activity' = "waiting"
    /\ unescaped' = UnescapedIn("waiting")
    /\ UNCHANGED <<ledger, row, lifecycle, rpc, queueVars, workerVars, fenceVars,
                   crashes, wrote, sent, told, edited, order>>

DialogAnswered ==
    /\ dialog /\ dialog' = FALSE
    /\ UNCHANGED <<storeVars, rpc, queueVars, workerVars, fenceVars, crashes,
                   historyVars>>

BudgetPasses ==
    /\ deadline = "running" /\ deadline' = "passed"
    /\ UNCHANGED <<storeVars, rpc, queueVars, pc, scan, ctl, dialog, fenceVars,
                   crashes, historyVars>>

record_native_exit(end) ==
    /\ HarnessExits /\ lifecycle = "ready" /\ SenderOpen /\ end \in {"exited", "failed"}
    /\ ledger' = mark_unsettled_unknown(ledger)
    /\ lifecycle' = end /\ activity' = "idle"
    /\ UNCHANGED <<row, rpc, queueVars, workerVars, dialog, fenceVars, crashes,
                   historyVars>>

(* The Node dies and starts again: memory is lost, the store and the fence *)
(* table are reopened, and a Ready instance whose pane survived is adopted *)
(* with an empty queue.  Any other one has no worker; it is marked exited, *)
(* but for one whose carrier is there and herdr_orphan_sweep is off.       *)
Restart(survives) ==
    /\ crashes < MaxCrashes /\ lifecycle # "none"
    /\ crashes' = crashes + 1
    /\ chan' = <<>> /\ pending' = <<>>
    /\ prompt' = [c \in Cmd |-> Original]
    /\ held' = [c \in Cmd |-> NotHeld]
    /\ scan' = 0 /\ ctl' = NoCmd /\ deadline' = "none"
    /\ dialog' = FALSE
    /\ fencing' = {} /\ closing' = {}
    /\ rpc' = [c \in Cmd |-> IF rpc[c] = "admitted" /\ c \notin Creates
                             THEN "idle"
                             ELSE IF rpc[c] \in {"admitted", "checked", "inserted"}
                             THEN "answered" ELSE rpc[c]]
    /\ unescaped' = {}
    /\ IF lifecycle = "ready" /\ survives
       THEN /\ ledger' = mark_unsettled_unknown(ledger)
            /\ pc' = "select"
            /\ UNCHANGED <<lifecycle, activity>>
       ELSE /\ pc' = "ended"
            /\ \/ /\ lifecycle \in {"starting", "ready"}
                  /\ ledger' = mark_unsettled_unknown(ledger)
                  /\ lifecycle' = "exited" /\ activity' = "idle"
               \/ UNCHANGED <<ledger, lifecycle, activity>>
    /\ UNCHANGED <<row, live, recorded, reported, applied, wrote, sent, told,
                   edited, order>>

-----------------------------------------------------------------------------
Submit ==
    \E c \in Cmd : \/ Admit(c) \/ insert_command(c) \/ enqueue_existing(c)
                   \/ EnqueueRejected(c) \/ CloseEnded(c)

Create ==
    \E c \in Creates : \/ CreateCheck(c) \/ record_lineage(c)
                       \/ CreateInsert(c) \/ CreateAccept(c)

Start ==
    \/ \E c \in Creates, hasPrompt \in BOOLEAN : StartOk(c, hasPrompt)
    \/ \E c \in Creates : StartFail(c)
    \/ BuildFail \/ BuildFailReturn

Recv ==
    \E c \in Cmd : RecvFull(c) \/ RecvPrompt(c) \/ RecvSteer(c) \/ RecvControl(c)

Control ==
    \/ ControlClaim \/ ControlOk \/ ControlReturn
    \/ \E written \in BOOLEAN : ControlErr(written)

Gate == Tick \/ apply_held_changes \/ TickDrained \/ TickNotReady \/ TickGated
        \/ TickDeliver

Deliver ==
    \/ ResolveOk \/ ResolveFail
    \/ ProbeUnavailable \/ ProbeErr \/ ClaimWithdrawn \/ ClaimDeliver
    \/ ClaimFenced \/ ClaimDispatch
    \/ ExecuteOk \/ ExecuteUnavailable
    \/ \E written \in BOOLEAN : ExecuteErr(written)
    \/ SettleOk \/ SettleErr

HeldInput ==
    \/ \E c \in Prompts : withdraw(c)
    \/ \E c \in Prompts, expected \in 0..MaxRevision, text \in Texts :
          edit(c, expected, text)

Fence ==
    \E g \in 1..MaxGen : \/ persist_fence_frame(g)
                         \/ apply_lineage_fence(g)
                         \/ \E c \in FenceCloses : FenceClose(g, c)

Harness ==
    \/ \E a \in {"working", "idle"} : SignalActivity(a)
    \/ DialogOpens \/ DialogAnswered \/ BudgetPasses
    \/ \E end \in {"exited", "failed"} : record_native_exit(end)

Next ==
    \/ Submit \/ Create \/ Start \/ Recv \/ Control \/ Gate \/ Deliver
    \/ HeldInput \/ Fence \/ Harness
    \/ \E survives \in BOOLEAN : Restart(survives)

Spec == Init /\ [][Next]_vars

(* The RPC tasks and the worker keep running; select! picks a ready branch *)
(* at random, so neither the channel nor the tick starves.                 *)
TaskFairness ==
    /\ \A c \in Cmd : WF_vars(insert_command(c))
    /\ \A c \in Cmd : WF_vars(\/ enqueue_existing(c) \/ EnqueueRejected(c)
                              \/ CloseEnded(c))
    /\ SF_vars(Recv) /\ SF_vars(Tick)
    /\ WF_vars(Control) /\ WF_vars(apply_held_changes)
    /\ WF_vars(TickDrained \/ TickNotReady \/ TickGated \/ TickDeliver)
    /\ WF_vars(ResolveOk \/ ResolveFail)
    /\ WF_vars(ClaimFenced \/ ClaimDispatch)
    /\ WF_vars(SettleOk \/ SettleErr)
    /\ \A g \in 1..MaxGen : WF_vars(apply_lineage_fence(g))
    /\ \A g \in 1..MaxGen : WF_vars(\E c \in FenceCloses : FenceClose(g, c))

(* The harness: control becomes available if it is asked for often enough, *)
(* a turn ends, and the clock runs.                                        *)
HarnessFairness ==
    /\ SF_vars(ProbeErr \/ ClaimWithdrawn \/ ClaimDeliver)
    /\ SF_vars(ExecuteOk \/ \E written \in BOOLEAN : ExecuteErr(written))
    /\ WF_vars(SignalActivity("idle"))
    /\ WF_vars(BudgetPasses)

FairSpec == Spec /\ TaskFairness /\ HarnessFairness

-----------------------------------------------------------------------------
Activities == {"unknown", "idle", "working", "waiting"}
WorkerStates == {"absent", "starting", "failing", "ended", "select", "control",
                 "controlClaimed", "controlDone", "scan", "resolve", "probe",
                 "claimed", "executing", "written", "erred"}

(* Every variable has its type; while a prompt is being delivered the queue*)
(* is not empty, and while a control runs it is a command.                 *)
TypeOK ==
    /\ ledger \in [Cmd -> LedgerRow]
    /\ row \in [Cmd -> {"none", "queued", "complete", "interrupted"}]
    /\ lifecycle \in {"none", "starting", "ready", "exited", "failed"}
    /\ activity \in Activities
    /\ rpc \in [Cmd -> {"idle", "checked", "admitted", "inserted", "answered",
                        "refused"}]
    /\ chan \in Seq(Cmd) /\ pending \in Seq(Prompts)
    /\ prompt \in [Cmd -> Texts]
    /\ held \in [Cmd -> HeldEntry]
    /\ pc \in WorkerStates /\ scan \in Nat
    /\ ctl \in Controls \cup {NoCmd}
    /\ deadline \in {"none", "running", "passed"}
    /\ dialog \in BOOLEAN
    /\ live \in 0..MaxGen /\ applied \in 0..MaxGen
    /\ fencing \subseteq 1..MaxGen /\ closing \subseteq 1..MaxGen
    /\ recorded \in BOOLEAN
    /\ reported \in [Cmd -> SUBSET {"ran", "cancelled", "unknown"}]
    /\ crashes \in 0..MaxCrashes
    /\ wrote \in [Cmd -> Nat]
    /\ sent \in [Cmd -> Texts \cup {NoText}]
    /\ told \subseteq Prompts
    /\ edited \in [Cmd -> Texts]
    /\ unescaped \subseteq Steers
    /\ order \in Seq(Prompts)
    /\ pc \in {"resolve", "probe", "claimed", "executing", "written", "erred"}
          => pending # <<>>
    /\ pc \in {"control", "controlClaimed", "controlDone"} => ctl # NoCmd

(* held_input.rs: a withdrawal the Hub was told succeeded is never written *)
(* to the harness, whatever the worker, a fence or a restart do.           *)
WithdrawnNeverWritten == \A c \in told : wrote[c] = 0

(* A command reaches the driver at most once: no retry after an unclaim, an*)
(* uncertain write or a restart replays it.                                *)
AtMostOneWrite == \A c \in Cmd : wrote[c] <= 1

(* The text written is the text of the last edit the Hub was told took     *)
(* effect, or the submitted text: no acknowledged edit is lost and none is *)
(* applied after the write.                                                *)
EditedTextWritten == \A c \in Prompts : wrote[c] > 0 => sent[c] = edited[c]

(* A settlement that says `not dispatched` is true, and so is a completion *)
(* (a create completes when its runtime is up, so only the first half is   *)
(* about creates).                                                         *)
SettlementIsTruthful ==
    \A c \in Cmd : ledger[c].state = "settled" =>
        /\ ledger[c].outcome \in {"rejected", "fenced", "withdrawn"} => wrote[c] = 0
        /\ ledger[c].outcome = "completed" /\ c \notin Creates => wrote[c] = 1

(* fence.rs: a command a fence acknowledgement reported cancelled is never *)
(* written.                                                                *)
CancelledNeverWritten ==
    \A c \in Cmd : "cancelled" \in reported[c] => wrote[c] = 0

(* A write of a fenced generation that the harness saw is accounted for:   *)
(* the acknowledgement said ran or unknown, or the row says uncertain.     *)
AckAccountsForWrites ==
    \A c \in Cmd : Below(c, applied) /\ wrote[c] > 0 =>
        \/ reported[c] \cap {"ran", "unknown"} # {}
        \/ ledger[c].outcome = "uncertain"

(* Within a class (steers, other prompts) nothing overtakes: a prompt that *)
(* was written has no prompt accepted before it still waiting.             *)
FifoWithinClass ==
    \A i, j \in 1..Len(order) :
        /\ i < j /\ (order[i] \in Steers <=> order[j] \in Steers)
        /\ wrote[order[j]] > 0
        => order[i] \notin ToSet(chan) \cup ToSet(pending)

(* A command the ledger shows as accepted with nothing in doubt is in the  *)
(* hands of the worker: none is lost between the RPC task, the channel and *)
(* the queue.                                                              *)
AcceptedIsOwned ==
    \A c \in Cmd : ledger[c].state = "accepted" /\ ~ledger[c].unknown =>
        \/ c \in ToSet(chan) \cup ToSet(pending) \cup {ctl}
        \/ c \in Creates /\ pc = "starting"

(* A transcript row reads `queued` only while its prompt is queued.        *)
QueuedRowIsQueued ==
    \A c \in Prompts : row[c] = "queued" => c \in ToSet(pending)

(* A settled row is final: no later step rewrites its outcome.             *)
SettledIsFinal ==
    [][\A c \in Cmd : ledger[c].state = "settled" => ledger'[c] = ledger[c]]_vars

(* A steer that waits behind a running turn, whether it arrived in it or   *)
(* the turn is that of a prompt delivered ahead of it, is not released into*)
(* that turn before the harness was sent an Esc for it.                    *)
EscBeforeSteer ==
    [][pc = "scan" /\ pc' = "resolve" /\ activity = "working"
          => Head(pending) \notin unescaped]_vars

-----------------------------------------------------------------------------
(* The inductive invariant behind the three properties of a write.         *)

(* Nothing has happened to a command the worker has not received yet.      *)
Fresh(c) ==
    /\ wrote[c] = 0 /\ held[c] = NotHeld /\ c \notin told
    /\ edited[c] = Original /\ prompt[c] = Original

UnsubmittedIsFresh == \A c \in Cmd : rpc[c] # "answered" => Fresh(c)

(* The channel holds each command once, untouched, and not the one the     *)
(* worker executes.                                                        *)
ChannelIsFresh ==
    \A i \in 1..Len(chan) :
        /\ rpc[chan[i]] = "answered" /\ Fresh(chan[i]) /\ chan[i] \notin Creates
        /\ \A j \in 1..Len(chan) : chan[i] = chan[j] => i = j

StartingIsFresh ==
    /\ pc \in {"absent", "starting"} => pending = <<>>
    /\ pc = "starting" => \A c \in Creates : rpc[c] = "answered" /\ Fresh(c)

ControlIsFresh ==
    pc \in {"control", "controlClaimed"} =>
        /\ rpc[ctl] = "answered" /\ Fresh(ctl)
        /\ \A i \in 1..Len(chan) : chan[i] # ctl

(* The queue holds each prompt once, and all of them are in the registry.  *)
PendingIsHeld ==
    \A i \in 1..Len(pending) :
        /\ held[pending[i]].st # "none"
        /\ \A j \in 1..Len(pending) : pending[i] = pending[j] => i = j

(* A claim belongs to the head of the queue, between claim and settlement. *)
ClaimIsHead ==
    /\ \A c \in Cmd : held[c].st = "delivering" =>
          /\ pc \in {"claimed", "executing", "written", "erred"}
          /\ pending # <<>> /\ c = Head(pending)
    /\ pc \in {"claimed", "executing"} =>
          held[Head(pending)].st = "delivering" /\ wrote[Head(pending)] = 0

WaitingIsUnwritten ==
    \A c \in Cmd :
        /\ held[c].st \in {"waiting", "withdrawn"} => wrote[c] = 0
        /\ c \in told => wrote[c] = 0 /\ held[c].st \in {"none", "withdrawn"}
        /\ wrote[c] <= 1

(* The text a prompt would be written with is the acknowledged one.        *)
TextIsEdited ==
    \A c \in Cmd :
        /\ held[c].st = "waiting" =>
              edited[c] = IF held[c].text = NoText THEN prompt[c] ELSE held[c].text
        /\ held[c].st = "delivering" =>
              held[c].text = NoText /\ edited[c] = prompt[c]
        /\ wrote[c] > 0 /\ c \in Prompts => sent[c] = edited[c]

DeliveryInv ==
    /\ TypeOK
    /\ UnsubmittedIsFresh /\ ChannelIsFresh /\ StartingIsFresh /\ ControlIsFresh
    /\ PendingIsHeld /\ ClaimIsHead /\ WaitingIsUnwritten /\ TextIsEdited

-----------------------------------------------------------------------------
(* The refinement: what became of a prompt, read off the Node's state.  A  *)
(* prompt is still open before it is accepted, while it waits in the       *)
(* channel or the queue, and while a create's driver starts.               *)

StillQueued(c) ==
    \/ rpc[c] \in {"idle", "checked", "admitted", "inserted"}
    \/ c \in ToSet(chan) \cup ToSet(pending)
    \/ c \in Creates /\ pc = "starting"

Fate(c) ==
    CASE wrote[c] > 0                -> "written"
      [] wrote[c] = 0 /\ c \in told  -> "withdrawn"
      [] OTHER -> IF held[c].st = "delivering" THEN "claimed"
                  ELSE IF StillQueued(c) THEN "open" ELSE "dropped"

Delivery == INSTANCE PromptDelivery WITH
    fate   <- [c \in Prompts |-> Fate(c)],
    text   <- [c \in Prompts |-> edited[c]],
    output <- [c \in Prompts |-> sent[c]]

(* The queue implements the promise of PromptDelivery.                     *)
RefinesDelivery == Delivery!Spec

-----------------------------------------------------------------------------
(* protocol.md (lineage.fence): the Node closes the instances whose        *)
(* generation is below the live one.                                       *)
(* A chapter below an applied fence ends, or the driver has been given the *)
(* fence's close and has failed it.  A close the queue refused is no       *)
(* excuse: the fence reports the instance as closed all the same.          *)
FencedChapterEnds ==
    (Chapter > 0 /\ Chapter < applied) ~>
        \/ lifecycle \in {"exited", "failed"}
        \/ \E c \in FenceCloses : ledger[c].outcome = "uncertain"

(* An accepted command settles: the queue neither loses nor sticks one.    *)
AcceptedSettles ==
    \A c \in Cmd : ledger[c].state = "accepted" ~> ledger[c].state = "settled"

=============================================================================
