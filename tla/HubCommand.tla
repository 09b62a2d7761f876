----------------------------- MODULE HubCommand -----------------------------
(***************************************************************************)
(* One instance.send a person queued for a PTY instance: its row in the    *)
(* Hub's store, the attempt that forwards it (http.rs), the requests that  *)
(* edit and withdraw it (cmd_queue.rs), the projection of the Node's       *)
(* journal on the row (store.rs), and the Node that holds the prompt.      *)
(*                                                                         *)
(* Every store job runs in the Hub's serial writer, so a job is one step;  *)
(* a handler that awaits between two jobs takes several.  The Node's half  *)
(* is PromptDelivery, which PtyQueue implements, with the registry and the *)
(* journal around it.  The link loses frames and replies and reconnects;   *)
(* Hub and Node restart.  The Hub's fences are not modelled here: a person *)
(* has no initiator to fence, and a host with unacknowledged fences holds  *)
(* the row back as ForwardHeld says.                                       *)
(***************************************************************************)
EXTENDS Integers, Sequences, FiniteSets

CONSTANTS
    Cmd,         \* the command
    Edits,       \* PATCH requests; a request stands for the text it carries
    Withdraws,   \* POST .../withdraw requests; each stands for its actor
    Original,    \* the text the command was first POSTed with
    NoText, NoReq,
    MaxFailures  \* bound: losses of the link and restarts of Hub and Node

Texts   == Edits \cup {Original}
Forward == "forward"
Reqs    == Edits \cup Withdraws
Calls   == Reqs \cup {Forward}
MaxRev  == Cardinality(Edits)

ASSUME NamesAssumption ==
    /\ Edits \cap Withdraws = {} /\ Forward \notin Reqs
    /\ NoReq \notin Reqs /\ NoText \notin Texts /\ Original \notin Edits
ASSUME FiniteAssumption == IsFiniteSet(Edits)
ASSUME BoundsAssumption == MaxFailures \in Nat

VARIABLES
    row,        \* the command's row in the Hub's store
    seen,       \* the chapter counts as told of the last memory change
    fwd,        \* where the forward attempt that holds the slot is
    frame,      \* the parameters that attempt read from the row
    req,        \* the edit and withdraw requests
    up,         \* a Node is connected
    wire,       \* the RPC of a request: its frame or the Node's answer
    journal,    \* the Node's lifecycle records of the command
    mirrored,   \* how many of them the Hub has projected
    nodeRow,    \* the Node's ledger row; "lost" after a restart
    entry,      \* the registry's entry of the prompt
    nodeRev,    \* the revision the entry carries, -1 until its first edit
    nodeLine,   \* the held prompt starts with the memory line
    fate, text, output,              \* the prompt, as in PromptDelivery
    failures,
    (* History.                                                            *)
    frames,     \* frames of the command that left the Hub
    outLine,    \* the harness received the memory line with this command
    carried     \* a later input carried the line instead

hubVars  == <<row, seen, fwd, frame, req>>
nodeVars == <<journal, nodeRow, entry, nodeRev, nodeLine, fate, text, output,
              outLine>>
promptVars == <<fate, text, output>>
linkVars == <<up, wire>>
vars == <<hubVars, nodeVars, linkVars, failures, mirrored, frames, carried>>

Delivery == INSTANCE PromptDelivery WITH Prompts <- {Cmd}

-----------------------------------------------------------------------------
(* The row.                                                                *)

Row == [state : {"queued", "accepted", "settled"}, forwarded : BOOLEAN,
        resolution : {"clear", "unknown", "reconciling"},
        outcome : {"none", "completed", "rejected", "cancelled", "withdrawn"},
        text : Texts, rev : 0..MaxRev, original : Texts \cup {NoText},
        intent : Withdraws \cup {NoReq}, by : Withdraws \cup {NoReq},
        line : BOOLEAN]

(* Where a still undelivered command waits.                                *)
held(r) == CASE r.state = "queued" /\ ~r.forwarded -> "hub"
             [] r.state = "accepted"               -> "node"
             [] OTHER                              -> "no"

Settle(r, outcome) ==
    [r EXCEPT !.state = "settled", !.resolution = "clear", !.outcome = outcome]

mark_accepted(r) ==
    IF r.state = "queued"
    THEN [r EXCEPT !.state = "accepted", !.resolution = "clear"] ELSE r

reject_command(r) == IF r.state = "queued" THEN Settle(r, "rejected") ELSE r

(* The new text, with the first one kept to recognise a replay.            *)
EditRow(r, e, rev) ==
    [r EXCEPT !.text = e, !.rev = rev,
              !.original = IF @ = NoText THEN r.text ELSE @]

release_memory_line(r) == [r EXCEPT !.line = FALSE]

(* memory_seen_rev goes back when the row carried the line.                *)
SeenAfterRelease(r) == seen /\ ~r.line

(* Mutation: the line is not given back.                                   *)
Mut_withdrawn_row(r, w) == [Settle(r, "withdrawn") EXCEPT !.by = w]

withdrawn_row(r, w) == release_memory_line([Settle(r, "withdrawn") EXCEPT !.by = w])

(* Mutation: the projection forgets the intent.                            *)
Mut_settle_withdraw_intent(r, outcome) == FALSE

settle_withdraw_intent(r, outcome) ==
    outcome = "cancelled" /\ r.state # "settled" /\ r.intent # NoReq

(* Mutation: a late accept is projected whatever the row's state.          *)
Mut_project_accepted(r) == [r EXCEPT !.state = "accepted", !.resolution = "clear"]

project_accepted(r) == mark_accepted(r)

(* Mutation: only an accepted row is settled.                              *)
Mut_project_settled(r, outcome) ==
    CASE settle_withdraw_intent(r, outcome) -> withdrawn_row(r, r.intent)
      [] r.state # "accepted"               -> r
      [] OTHER                              -> Settle(r, outcome)

project_settled(r, outcome) ==
    CASE settle_withdraw_intent(r, outcome) -> withdrawn_row(r, r.intent)
      [] r.state = "settled"                -> r
      [] OTHER                              -> Settle(r, outcome)

-----------------------------------------------------------------------------
Init ==
    /\ row \in {[state |-> "queued", forwarded |-> FALSE, resolution |-> "clear",
                 outcome |-> "none", text |-> Original, rev |-> 0,
                 original |-> NoText, intent |-> NoReq, by |-> NoReq,
                 line |-> b] : b \in BOOLEAN}
    /\ seen = TRUE
    /\ fwd = "idle" /\ frame = [text |-> Original, line |-> FALSE]
    /\ req = [r \in Reqs |-> [pc |-> "idle", exp |-> 0, earlier |-> FALSE]]
    /\ up = FALSE /\ wire = [r \in Calls |-> "none"]
    /\ journal = <<>> /\ mirrored = 0
    /\ nodeRow = "absent" /\ entry = "none" /\ nodeRev = -1 /\ nodeLine = FALSE
    /\ Delivery!Init
    /\ failures = 0
    /\ frames = 0 /\ outLine = FALSE /\ carried = FALSE

(* ConnectedNodes::call.  A frame that is queued may be answered; without a*)
(* link the call returns Ok(None), with every slot taken NODE_BUSY.        *)
Answers == {"accepted", "error", "edited", "conflict", "withdrawn", "delivered"}

CallSent(r) == up /\ wire' = [wire EXCEPT ![r] = "out"] /\ UNCHANGED up

Answered(r, a) == wire[r] = a /\ wire' = [wire EXCEPT ![r] = "over"] /\ UNCHANGED up

-----------------------------------------------------------------------------
(* forward_if_online.  The slot of the command admits one attempt.         *)

acquire_forward_leader ==
    /\ fwd = "idle" /\ up /\ row.state = "queued"
    /\ fwd' = "lead"
    /\ UNCHANGED <<row, seen, frame, req, nodeVars, linkVars, failures, mirrored,
                   frames, carried>>

(* Already forwarded, or the host has unacknowledged fences.               *)
ForwardHeld ==
    /\ fwd = "lead" /\ fwd' = "idle"
    /\ UNCHANGED <<row, seen, frame, req, nodeVars, linkVars, failures, mirrored,
                   frames, carried>>

(* Mutation: the mark looks at `forwarded` only.                           *)
Mut_mark_forward_intent ==
    /\ fwd = "lead" /\ ~row.forwarded
    /\ fwd' = "marked"
    /\ row' = [row EXCEPT !.forwarded = TRUE, !.resolution = "unknown"]
    /\ UNCHANGED <<seen, frame, req, nodeVars, linkVars, failures, mirrored,
                   frames, carried>>

mark_forward_intent ==
    /\ fwd = "lead" /\ ~row.forwarded /\ row.state = "queued"
    /\ fwd' = "marked"
    /\ row' = [row EXCEPT !.forwarded = TRUE, !.resolution = "unknown"]
    /\ UNCHANGED <<seen, frame, req, nodeVars, linkVars, failures, mirrored,
                   frames, carried>>

(* The row is read again after the mark.                                   *)
ForwardRead ==
    /\ fwd = "marked" /\ fwd' = "ready"
    /\ frame' = [text |-> row.text, line |-> row.line]
    /\ UNCHANGED <<row, seen, req, nodeVars, linkVars, failures, mirrored,
                   frames, carried>>

ForwardSend ==
    /\ fwd = "ready" /\ CallSent(Forward)
    /\ fwd' = "waiting" /\ frames' = frames + 1
    /\ UNCHANGED <<row, seen, frame, req, nodeVars, failures, mirrored, carried>>

(* The frame was provably not queued.                                      *)
ForwardUnsent ==
    /\ fwd = "ready"
    /\ \/ ~up /\ fwd' = "unsent"
       \/ up /\ fwd' = "busy"
    /\ UNCHANGED <<row, seen, frame, req, nodeVars, linkVars, failures, mirrored,
                   frames, carried>>

release_intent ==
    /\ fwd = "unsent" /\ fwd' = "idle"
    /\ row' = IF row.state = "queued" /\ row.forwarded
              THEN [row EXCEPT !.forwarded = FALSE, !.resolution = "clear"]
              ELSE row
    /\ UNCHANGED <<seen, frame, req, nodeVars, linkVars, failures, mirrored,
                   frames, carried>>

ForwardBusy ==
    /\ fwd = "busy" /\ fwd' = "idle"
    /\ row' = reject_command(row)
    /\ UNCHANGED <<seen, frame, req, nodeVars, linkVars, failures, mirrored,
                   frames, carried>>

ForwardAnswered ==
    /\ fwd = "waiting" /\ fwd' = "idle"
    /\ \/ Answered(Forward, "accepted") /\ row' = mark_accepted(row)
       \/ Answered(Forward, "error") /\ row' = reject_command(row)
    /\ UNCHANGED <<seen, frame, req, nodeVars, failures, mirrored, frames, carried>>

(* Mutation: a lost reply releases the intent too.                         *)
Mut_ForwardLost ==
    /\ fwd = "waiting" /\ fwd' = "unsent"
    /\ UNCHANGED <<row, seen, frame, req, nodeVars, linkVars, failures, mirrored,
                   frames, carried>>

(* Mutation: a lost reply counts as a rejection.                           *)
Mut_RejectLost ==
    /\ fwd = "waiting" /\ fwd' = "idle" /\ row' = reject_command(row)
    /\ UNCHANGED <<seen, frame, req, nodeVars, linkVars, failures, mirrored,
                   frames, carried>>

(* The accept deadline passed or the link was torn down: mark_reconciling, *)
(* never a resend.                                                         *)
ForwardLost ==
    /\ fwd = "waiting" /\ fwd' = "idle"
    /\ row' = IF row.state = "queued" /\ row.resolution = "unknown"
              THEN [row EXCEPT !.resolution = "reconciling"] ELSE row
    /\ UNCHANGED <<seen, frame, req, nodeVars, linkVars, failures, mirrored,
                   frames, carried>>

-----------------------------------------------------------------------------
(* PATCH /v1/commands/{id}.                                                *)

(* owned_command reads the row; the jobs below run later.                  *)
edit_command(e, exp) ==
    /\ req[e].pc = "idle"
    /\ req' = [req EXCEPT ![e].exp = exp, ![e].pc =
                 CASE held(row) = "hub"                       -> "hub"
                   [] held(row) = "node" /\ exp = row.rev     -> "call"
                   [] OTHER                                   -> "refused"]
    /\ UNCHANGED <<row, seen, fwd, frame, nodeVars, linkVars, failures, mirrored,
                   frames, carried>>

(* Mutation: the writer job trusts the earlier read.                       *)
Mut_edit_queued(e) ==
    /\ req[e].pc = "hub"
    /\ req' = [req EXCEPT ![e].pc = "done"]
    /\ row' = EditRow(row, e, req[e].exp + 1)
    /\ UNCHANGED <<seen, fwd, frame, nodeVars, linkVars, failures, mirrored,
                   frames, carried>>

edit_queued(e) ==
    /\ req[e].pc = "hub"
    /\ IF held(row) = "hub" /\ row.rev = req[e].exp
       THEN /\ row' = EditRow(row, e, row.rev + 1)
            /\ req' = [req EXCEPT ![e].pc = "done"]
       ELSE req' = [req EXCEPT ![e].pc = "refused"] /\ UNCHANGED row
    /\ UNCHANGED <<seen, fwd, frame, nodeVars, linkVars, failures, mirrored,
                   frames, carried>>

(* The call of edit_on_node and withdraw_on_node.                          *)
CallNode(r) ==
    /\ req[r].pc = "call" /\ CallSent(r)
    /\ req' = [req EXCEPT ![r].pc = "waiting"]
    /\ UNCHANGED <<row, seen, fwd, frame, nodeVars, failures, mirrored, frames,
                   carried>>

(* Ok(None): the frame never left.                                         *)
CallUnsent(r) ==
    /\ req[r].pc = "call" /\ ~up
    /\ req' = [req EXCEPT ![r].pc = IF r \in Edits THEN "refused" ELSE "no"]
    /\ UNCHANGED <<row, seen, fwd, frame, nodeVars, linkVars, failures, mirrored,
                   frames, carried>>

(* Err: a timeout, a torn link or NODE_BUSY.  Nothing is recorded.         *)
CallLost(r) ==
    /\ req[r].pc = "waiting" \/ (req[r].pc = "call" /\ up)
    /\ req' = [req EXCEPT ![r].pc = "lost"]
    /\ UNCHANGED <<row, seen, fwd, frame, nodeVars, linkVars, failures, mirrored,
                   frames, carried>>

EditAnswered(e) ==
    /\ req[e].pc = "waiting"
    /\ \E a \in {"edited", "conflict", "delivered"} :
          /\ Answered(e, a)
          /\ req' = [req EXCEPT ![e].pc = IF a = "edited" THEN "record" ELSE "refused"]
    /\ UNCHANGED <<row, seen, fwd, frame, nodeVars, failures, mirrored, frames,
                   carried>>

(* The text the Node confirmed is recorded whatever the row's state.       *)
record_node_edit(e) ==
    /\ req[e].pc = "record"
    /\ req' = [req EXCEPT ![e].pc = "done"]
    /\ row' = release_memory_line(EditRow(row, e, req[e].exp + 1))
    /\ seen' = SeenAfterRelease(row)
    /\ UNCHANGED <<fwd, frame, nodeVars, linkVars, failures, mirrored, frames,
                   carried>>

-----------------------------------------------------------------------------
(* POST /v1/commands/{id}/withdraw.                                        *)

withdraw_command(w) ==
    /\ req[w].pc = "idle"
    /\ req' = [req EXCEPT ![w].pc =
                 CASE row.outcome = "withdrawn" -> "done"
                   [] held(row) = "hub"         -> "hub"
                   [] held(row) = "node"        -> "mark"
                   [] OTHER                     -> "refused"]
    /\ UNCHANGED <<row, seen, fwd, frame, nodeVars, linkVars, failures, mirrored,
                   frames, carried>>

withdraw_queued(w) ==
    /\ req[w].pc = "hub"
    /\ IF held(row) = "hub"
       THEN row' = withdrawn_row(row, w) /\ seen' = SeenAfterRelease(row)
       ELSE UNCHANGED <<row, seen>>
    /\ req' = [req EXCEPT ![w].pc = IF row'.outcome = "withdrawn" THEN "done"
                                    ELSE "refused"]
    /\ UNCHANGED <<fwd, frame, nodeVars, linkVars, failures, mirrored, frames,
                   carried>>

mark_withdraw_intent(w) ==
    /\ req[w].pc = "mark"
    /\ req' = [req EXCEPT ![w].pc = "call", ![w].earlier = row.intent # NoReq]
    /\ row' = IF row.state = "settled" THEN row ELSE [row EXCEPT !.intent = w]
    /\ UNCHANGED <<seen, fwd, frame, nodeVars, linkVars, failures, mirrored,
                   frames, carried>>

WithdrawAnswered(w) ==
    /\ req[w].pc = "waiting"
    /\ \E a \in {"withdrawn", "delivered"} :
          /\ Answered(w, a)
          /\ req' = [req EXCEPT ![w].pc = IF a = "withdrawn" THEN "record" ELSE "no"]
    /\ UNCHANGED <<row, seen, fwd, frame, nodeVars, failures, mirrored, frames,
                   carried>>

(* An explicit no clears the intent, unless an earlier attempt left one.   *)
clear_withdraw_intent(w) ==
    /\ req[w].pc = "no"
    /\ req' = [req EXCEPT ![w].pc = "refused"]
    /\ row' = IF req[w].earlier \/ row.state = "settled" THEN row
              ELSE [row EXCEPT !.intent = NoReq]
    /\ UNCHANGED <<seen, fwd, frame, nodeVars, linkVars, failures, mirrored,
                   frames, carried>>

record_node_withdraw(w) ==
    /\ req[w].pc = "record"
    /\ req' = [req EXCEPT ![w].pc = "done"]
    /\ IF row.state # "settled" \/ row.outcome = "cancelled"
       THEN row' = withdrawn_row(row, w) /\ seen' = SeenAfterRelease(row)
       ELSE UNCHANGED <<row, seen>>
    /\ UNCHANGED <<fwd, frame, nodeVars, linkVars, failures, mirrored, frames,
                   carried>>

-----------------------------------------------------------------------------
(* The Hub projects the next record of the Node's journal.                 *)
apply_command_projection ==
    /\ up /\ mirrored < Len(journal)
    /\ mirrored' = mirrored + 1
    /\ LET o == journal[mirrored + 1] IN
       /\ row' = IF o = "accepted" THEN project_accepted(row)
                 ELSE project_settled(row, o)
       /\ seen' = IF settle_withdraw_intent(row, o) THEN SeenAfterRelease(row)
                  ELSE seen
    /\ UNCHANGED <<fwd, frame, req, nodeVars, linkVars, failures, frames, carried>>

(* The next input queued to the chapter claims a line that was released.   *)
claim_change_line ==
    /\ ~seen /\ seen' = TRUE /\ carried' = TRUE
    /\ UNCHANGED <<row, fwd, frame, req, nodeVars, linkVars, failures, mirrored,
                   frames>>

-----------------------------------------------------------------------------
(* The Node.  A frame whose link is gone is still served; its answer is    *)
(* lost.                                                                   *)

Reply(r, a) ==
    /\ wire' = [wire EXCEPT ![r] = IF @ = "out" THEN a ELSE "over"]
    /\ UNCHANGED up

Arrived(r) == wire[r] \in {"out", "orphan"}

(* The accept is durable and journalled before the RPC is answered.        *)
NodeAccept ==
    /\ Arrived(Forward) /\ nodeRow = "absent"
    /\ Delivery!Edit(Cmd, frame.text) /\ nodeLine' = frame.line
    /\ nodeRow' = "accepted" /\ journal' = Append(journal, "accepted")
    /\ Reply(Forward, "accepted")
    /\ UNCHANGED <<hubVars, entry, nodeRev, outLine, failures, mirrored, frames,
                   carried>>

(* Refused before anything is recorded.                                    *)
NodeRefuse ==
    /\ Arrived(Forward) /\ nodeRow = "absent"
    /\ Reply(Forward, "error")
    /\ UNCHANGED <<hubVars, nodeVars, failures, mirrored, frames, carried>>

(* QueueFull, DriverUnavailable: the settled row is the answer.            *)
NodeRejects ==
    /\ Arrived(Forward) /\ nodeRow = "absent"
    /\ Delivery!Drop({Cmd})
    /\ nodeRow' = "settled" /\ journal' = Append(journal, "rejected")
    /\ Reply(Forward, "accepted")
    /\ UNCHANGED <<hubVars, entry, nodeRev, nodeLine, outLine, failures, mirrored,
                   frames, carried>>

NodeHold ==
    /\ nodeRow = "accepted" /\ entry = "none" /\ fate[Cmd] = "open"
    /\ entry' = "held"
    /\ UNCHANGED <<hubVars, journal, nodeRow, nodeRev, nodeLine, fate, text,
                   output, outLine, linkVars, failures, mirrored, frames, carried>>

(* HeldInputs::withdraw.                                                   *)
NodeWithdraw(w) ==
    /\ Arrived(w)
    /\ IF entry = "held" /\ fate[Cmd] \in {"open", "withdrawn"}
       THEN /\ \/ Delivery!Withdraw(Cmd)
               \/ fate[Cmd] = "withdrawn" /\ UNCHANGED promptVars
            /\ Reply(w, "withdrawn")
       ELSE Reply(w, "delivered") /\ UNCHANGED promptVars
    /\ UNCHANGED <<hubVars, journal, nodeRow, entry, nodeRev, nodeLine, outLine,
                   failures, mirrored, frames, carried>>

(* Mutation: the first edit's revision counts as already applied.          *)
Mut_NodeEdit(e) ==
    /\ Arrived(e)
    /\ IF entry = "held" /\ fate[Cmd] = "open"
       THEN /\ Delivery!Edit(Cmd, e)
            /\ nodeRev' = IF nodeRev = -1 THEN req[e].exp + 2 ELSE nodeRev + 1
            /\ nodeLine' = FALSE /\ Reply(e, "edited")
       ELSE Reply(e, "delivered") /\ UNCHANGED <<promptVars, nodeRev, nodeLine>>
    /\ UNCHANGED <<hubVars, journal, nodeRow, entry, outLine, failures, mirrored,
                   frames, carried>>

(* HeldInputs::edit: the first edit's revision is adopted.                 *)
NodeEdit(e) ==
    /\ Arrived(e)
    /\ IF entry = "held" /\ fate[Cmd] = "open"
       THEN IF nodeRev \in {-1, req[e].exp}
            THEN /\ Delivery!Edit(Cmd, e)
                 /\ nodeRev' = req[e].exp + 1 /\ nodeLine' = FALSE
                 /\ Reply(e, "edited")
            ELSE /\ Reply(e, "conflict")
                 /\ UNCHANGED <<promptVars, nodeRev, nodeLine>>
       ELSE /\ Reply(e, "delivered")
            /\ UNCHANGED <<promptVars, nodeRev, nodeLine>>
    /\ UNCHANGED <<hubVars, journal, nodeRow, entry, outLine, failures, mirrored,
                   frames, carried>>

(* The queue's worker.                                                     *)
NodeClaim ==
    /\ entry = "held"
    /\ Delivery!Claim(Cmd) \/ Delivery!Unclaim(Cmd)
    /\ UNCHANGED <<hubVars, journal, nodeRow, entry, nodeRev, nodeLine, outLine,
                   linkVars, failures, mirrored, frames, carried>>

NodeWrite ==
    /\ Delivery!Write(Cmd) /\ outLine' = nodeLine
    /\ UNCHANGED <<hubVars, journal, nodeRow, entry, nodeRev, nodeLine, linkVars,
                   failures, mirrored, frames, carried>>

(* A failure, an interrupt or a close gives the prompt up.                 *)
NodeDrop ==
    /\ nodeRow = "accepted" /\ Delivery!Drop({Cmd})
    /\ entry' = "gone"
    /\ UNCHANGED <<hubVars, journal, nodeRow, nodeRev, nodeLine, outLine,
                   linkVars, failures, mirrored, frames, carried>>

(* A withdrawn prompt settles cancelled when the queue drops it, rejected  *)
(* when an interrupt overtakes the tick.                                   *)
NodeSettle(outcome) ==
    /\ nodeRow = "accepted"
    /\ outcome \in CASE fate[Cmd] = "written"   -> {"completed", "rejected"}
                     [] fate[Cmd] = "withdrawn" -> {"cancelled", "rejected"}
                     [] fate[Cmd] = "dropped"   -> {"rejected"}
                     [] OTHER                   -> {}
    /\ nodeRow' = "settled" /\ journal' = Append(journal, outcome)
    /\ entry' = "gone"
    /\ UNCHANGED <<hubVars, nodeRev, nodeLine, promptVars, outLine, linkVars,
                   failures, mirrored, frames, carried>>

-----------------------------------------------------------------------------
(* The link and the two processes.                                         *)

Connect ==
    /\ ~up /\ up' = TRUE
    /\ UNCHANGED <<hubVars, nodeVars, wire, failures, mirrored, frames, carried>>

Fails == failures < MaxFailures /\ failures' = failures + 1

(* Frames in S were read by the Node before the link broke.                *)
Torn(S) ==
    /\ up' = FALSE
    /\ wire' = [r \in Calls |->
                  IF wire[r] = "orphan" THEN "orphan"
                  ELSE IF wire[r] = "out" /\ r \in S THEN "orphan"
                  ELSE IF wire[r] = "none" THEN "none" ELSE "over"]

Disconnect(S) ==
    /\ up /\ Fails /\ Torn(S)
    /\ UNCHANGED <<hubVars, nodeVars, mirrored, frames, carried>>

(* The rows survive a restart of the Hub, its tasks do not.                *)
HubRestart(S) ==
    /\ Fails /\ Torn(S)
    /\ fwd' = "idle"
    /\ req' = [r \in Reqs |-> IF req[r].pc \in {"idle", "done", "refused"}
                              THEN req[r] ELSE [req[r] EXCEPT !.pc = "lost"]]
    /\ UNCHANGED <<row, seen, frame, nodeVars, mirrored, frames, carried>>

(* The ledger and the journal survive a restart of the Node; the queue and *)
(* the registry do not, and an unsettled command stays unsettled.          *)
NodeRestart ==
    /\ Fails
    /\ up' = FALSE
    /\ wire' = [r \in Calls |-> IF wire[r] = "none" THEN "none" ELSE "over"]
    /\ entry' = IF nodeRow = "absent" THEN "none" ELSE "gone"
    /\ nodeRow' = IF nodeRow = "accepted" THEN "lost" ELSE nodeRow
    /\ IF nodeRow = "accepted" /\ fate[Cmd] \in {"open", "claimed"}
       THEN Delivery!Drop({Cmd}) ELSE UNCHANGED promptVars
    /\ UNCHANGED <<hubVars, journal, nodeRev, nodeLine, outLine, mirrored, frames,
                   carried>>

-----------------------------------------------------------------------------
ForwardStep ==
    \/ acquire_forward_leader \/ ForwardHeld \/ mark_forward_intent
    \/ ForwardRead \/ ForwardSend \/ ForwardUnsent \/ release_intent
    \/ ForwardBusy \/ ForwardAnswered \/ ForwardLost

EditStep(e) ==
    \/ \E exp \in 0..(MaxRev - 1) : edit_command(e, exp)
    \/ edit_queued(e) \/ EditAnswered(e) \/ record_node_edit(e)

WithdrawStep(w) ==
    \/ withdraw_command(w) \/ withdraw_queued(w) \/ mark_withdraw_intent(w)
    \/ WithdrawAnswered(w) \/ clear_withdraw_intent(w) \/ record_node_withdraw(w)

CallStep(r) == CallNode(r) \/ CallUnsent(r) \/ CallLost(r)

NodeStep ==
    \/ NodeAccept \/ NodeRefuse \/ NodeRejects \/ NodeHold
    \/ (\E w \in Withdraws : NodeWithdraw(w))
    \/ (\E e \in Edits : NodeEdit(e))
    \/ NodeClaim \/ NodeWrite \/ NodeDrop
    \/ \E o \in {"completed", "rejected", "cancelled"} : NodeSettle(o)

Next ==
    \/ ForwardStep
    \/ \E e \in Edits : EditStep(e)
    \/ \E w \in Withdraws : WithdrawStep(w)
    \/ \E r \in Reqs : CallStep(r)
    \/ apply_command_projection \/ claim_change_line
    \/ NodeStep
    \/ Connect
    \/ \E S \in SUBSET {r \in Calls : wire[r] = "out"} : Disconnect(S) \/ HubRestart(S)
    \/ NodeRestart

Spec == Init /\ [][Next]_vars

-----------------------------------------------------------------------------
TypeOK ==
    /\ row \in Row /\ seen \in BOOLEAN
    /\ fwd \in {"idle", "lead", "marked", "ready", "waiting", "unsent", "busy"}
    /\ frame \in [text : Texts, line : BOOLEAN]
    /\ req \in [Reqs -> [pc : {"idle", "hub", "mark", "call", "waiting", "no",
                               "record", "done", "refused", "lost"},
                         exp : 0..MaxRev, earlier : BOOLEAN]]
    /\ up \in BOOLEAN
    /\ wire \in [Calls -> Answers \cup {"none", "out", "orphan", "over"}]
    /\ journal \in Seq({"accepted", "completed", "rejected", "cancelled"})
    /\ mirrored \in 0..Len(journal)
    /\ nodeRow \in {"absent", "accepted", "settled", "lost"}
    /\ entry \in {"none", "held", "gone"} /\ nodeRev \in -1..MaxRev
    /\ nodeLine \in BOOLEAN /\ outLine \in BOOLEAN /\ carried \in BOOLEAN
    /\ fate \in [{Cmd} -> {"open", "claimed", "withdrawn", "written", "dropped"}]
    /\ text \in [{Cmd} -> Texts] /\ output \in [{Cmd} -> Texts \cup {NoText}]
    /\ failures \in Nat /\ frames \in Nat

(* A command leaves the Hub at most once, whatever is lost, retried or     *)
(* restarted (forward_if_online: "never resend on a missing ACK"); the     *)
(* intent is released only for a frame that was never queued.              *)
ForwardedOnce == frames <= 1

(* A command whose withdrawal was answered, or whose row says withdrawn,   *)
(* is never written to the harness (withdraw_command: "it is never         *)
(* forwarded"; held_input.rs: "a withdrawn one is never written").         *)
WithdrawnStaysUnwritten ==
    (row.outcome = "withdrawn" \/ \E w \in Withdraws : req[w].pc = "done")
        => output[Cmd] = NoText

(* What the harness received is the text of the Hub's row, or the text of  *)
(* an edit the Node applied whose answer the Hub does not have (yet).      *)
RowTextIsWritten ==
    output[Cmd] # NoText =>
        \/ output[Cmd] = row.text
        \/ \E e \in Edits : e = output[Cmd] /\ req[e].pc \in {"waiting", "record", "lost"}

(* Once no withdrawal awaits its answer, one the Node carried out reads    *)
(* `withdrawn` at the Hub with its actor, even when the reply was lost     *)
(* (withdraw_on_node: "a reply lost after the Node withdrew the prompt     *)
(* still ends `withdrawn` with this actor").                               *)
WithdrawalIsCredited ==
    (/\ \E i \in 1..mirrored : journal[i] = "cancelled"
     /\ \A w \in Withdraws : req[w].pc \notin {"waiting", "record"})
        => row.outcome = "withdrawn" /\ row.by # NoReq

(* A rejection the Hub decided by itself (NODE_BUSY, an error reply) is    *)
(* true: the Node never recorded the command (fail_unaccepted_create:      *)
(* "positive evidence the command did not run").                           *)
HubRejectionIsTrue ==
    (row.outcome = "rejected" /\ \A i \in 1..mirrored : journal[i] # "rejected")
        => nodeRow = "absent" /\ output[Cmd] = NoText

(* The memory line reaches the chapter at most once, and a withdrawn send  *)
(* gives it back (release_memory_line, claim_change_line: "rides exactly   *)
(* one input").                                                            *)
LineRidesOnce ==
    /\ ~(outLine /\ carried)
    /\ row.outcome = "withdrawn" => ~row.line

(* A settled row stays settled with its outcome; only a cancellation may   *)
(* still be credited as the withdrawal it was (record_node_withdraw).      *)
HubSettledIsFinal ==
    [][row.state = "settled" =>
          /\ row'.state = "settled"
          /\ \/ row'.outcome = row.outcome
             \/ row.outcome = "cancelled" /\ row'.outcome = "withdrawn"]_vars

(* Once the Hub has projected what the Node journalled, a command the Node *)
(* settled is settled at the Hub, whatever replies were lost on the way    *)
(* (mark_reconciling: "convergence is now delegated to the mirrored        *)
(* journal").                                                              *)
JournalConverges ==
    nodeRow = "settled" /\ mirrored = Len(journal) => row.state = "settled"
=============================================================================
