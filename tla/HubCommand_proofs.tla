--------------------------- MODULE HubCommand_proofs ---------------------------
(***************************************************************************)
(* Proofs about HubCommand, for every set of edits and withdrawals and any *)
(* number of failures: a command leaves the Hub once, a withdrawn one is   *)
(* never written, what is written is a text the Hub knows of, the memory   *)
(* line rides one input, and the row converges to the Node's journal.      *)
(***************************************************************************)
EXTENDS HubCommand, FiniteSetTheorems, TLAPS

(* The requests; a revision that an edit carries is below the bound.       *)
ReqState == [pc : {"idle", "hub", "mark", "call", "waiting", "no",
                   "record", "done", "refused", "lost"},
             exp : 0..MaxRev, earlier : BOOLEAN]

ReqTyped ==
    /\ req \in [Reqs -> ReqState]
    /\ \A e \in Edits : req[e].pc # "idle" => req[e].exp < MaxRev

(* Everything but the row and the requests.                                *)
RestTyped ==
    /\ seen \in BOOLEAN
    /\ fwd \in {"idle", "lead", "marked", "ready", "waiting", "unsent", "busy"}
    /\ frame \in [text : Texts, line : BOOLEAN]
    /\ up \in BOOLEAN
    /\ wire \in [Calls -> Answers \cup {"none", "out", "orphan", "over"}]
    /\ journal \in Seq({"accepted", "completed", "rejected", "cancelled"})
    /\ mirrored \in 0..Len(journal)
    /\ nodeRow \in {"absent", "accepted", "settled", "lost"}
    /\ entry \in {"none", "held", "gone"} /\ nodeRev \in -1..MaxRev
    /\ nodeLine \in BOOLEAN /\ outLine \in BOOLEAN /\ carried \in BOOLEAN
    /\ fate \in [{Cmd} -> {"open", "claimed", "withdrawn", "written", "dropped"}]
    /\ text \in [{Cmd} -> Texts] /\ output \in [{Cmd} -> Texts \cup {NoText}]
    /\ failures \in Nat /\ frames \in Nat

Typed == row \in Row /\ ReqTyped /\ RestTyped

Sending == {"marked", "ready", "unsent", "busy"}

(* A frame leaves for a row that is marked forwarded, and the mark goes    *)
(* back only while no frame has left.                                      *)
FrameIsMarked ==
    /\ frames <= 1
    /\ frames = 1 => row.forwarded
    /\ fwd \in Sending => frames = 0 /\ row.forwarded
    /\ fwd = "waiting" => frames = 1
    /\ wire[Forward] = "none" <=> frames = 0
    /\ row.state = "accepted" => frames = 1
    /\ row.state = "settled" <=> row.outcome # "none"

(* The Node knows the command from the frame alone; before it records the  *)
(* command, nothing of it exists there.                                    *)
NodeFollowsFrame ==
    /\ nodeRow # "absent" => wire[Forward] \in {"accepted", "over"}
    /\ wire[Forward] = "error" => nodeRow = "absent"
    /\ nodeRow = "absent" =>
          /\ journal = <<>> /\ fate[Cmd] = "open" /\ entry = "none" /\ nodeRev = -1
    /\ outLine \/ output[Cmd] # NoText => fate[Cmd] = "written"
    /\ fate[Cmd] = "written" => output[Cmd] = text[Cmd]

(* What the Node journalled, and what of it the Hub has projected.         *)
JournalIsProjected ==
    /\ nodeRow \in {"accepted", "lost"} => journal = <<"accepted">>
    /\ nodeRow = "settled" => journal # <<>> /\ journal[Len(journal)] # "accepted"
    /\ \A i \in 1..Len(journal) : journal[i] = "cancelled" => fate[Cmd] = "withdrawn"
    /\ \A i \in 1..mirrored : journal[i] # "accepted" => row.state = "settled"

(* The row was settled before anything of it left the Hub.                 *)
NeverSent == row.state = "settled" /\ ~row.forwarded /\ frames = 0

(* A withdrawal the Hub knows of was decided in the registry, or the       *)
(* command never left.                                                     *)
WithdrawalIsDecided ==
    /\ row.outcome = "withdrawn" => NeverSent \/ fate[Cmd] = "withdrawn"
    /\ \A w \in Withdraws :
          /\ wire[w] = "withdrawn" \/ req[w].pc = "record" => fate[Cmd] = "withdrawn"
          /\ req[w].pc = "done" => row.outcome = "withdrawn" \/ fate[Cmd] = "withdrawn"

(* A rejection the journal does not account for is one of a command that   *)
(* cannot reach the Node any more.                                         *)
RejectionIsLast ==
    (row.outcome = "rejected" /\ \A i \in 1..mirrored : journal[i] # "rejected")
        => nodeRow = "absent" /\ fwd = "idle" /\ wire[Forward] \notin {"out", "orphan"}

(* The prompt at the Node no longer starts with the line.                  *)
LineIsOff == nodeRow # "absent" /\ ~nodeLine /\ ~outLine

(* A line that was given back cannot reach the harness with this command.  *)
LineIsReleased ==
    /\ carried \/ ~seen => ~outLine /\ (NeverSent \/ fate[Cmd] = "withdrawn" \/ LineIsOff)
    /\ \A e \in Edits : req[e].pc = "record" \/ wire[e] = "edited" => LineIsOff
    /\ row.outcome = "withdrawn" => ~row.line

(* The edit's frame may still reach the registry.                          *)
Called(e) == req[e].pc \in {"call", "waiting"} \/ Arrived(e)

(* The edit has been carried out nowhere.                                  *)
Fresh(e) ==
    req[e].pc \in {"idle", "hub", "call"} \/ wire[e] \in {"out", "orphan", "conflict", "delivered"}

(* The answer that says the Node applied the edit is on its way.           *)
Confirmed(e) ==
    req[e].pc = "record" \/ (req[e].pc = "waiting" /\ wire[e] = "edited")

(* The registry is at the row's revision with the row's text, or one edit  *)
(* ahead of it.                                                            *)
TextIsTracked ==
    /\ fwd = "ready" \/ (frames = 1 /\ nodeRow = "absent") => frame.text = row.text
    /\ nodeRev \in {-1, row.rev, row.rev + 1}
    /\ nodeRow # "absent" /\ fate[Cmd] # "dropped" /\ nodeRev # row.rev + 1
          => text[Cmd] = row.text
    /\ nodeRev = row.rev + 1 =>
          \E e \in Edits : text[Cmd] = e /\ req[e].pc \in {"waiting", "record", "lost"}

EditIsTracked(e) ==
    /\ req[e].pc \in {"idle", "hub", "call"} => wire[e] = "none"
    /\ Arrived(e) => req[e].pc \in {"waiting", "lost"}
    /\ Called(e) => /\ frames = 1 /\ req[e].exp <= row.rev
                    /\ nodeRev = -1 => req[e].exp = row.rev
    /\ Confirmed(e) => /\ text[Cmd] = e /\ nodeRev = row.rev + 1
                       /\ req[e].exp = row.rev /\ nodeRow # "absent"
    /\ Fresh(e) => e # row.text /\ e # text[Cmd]

HubInv ==
    /\ Typed /\ FrameIsMarked /\ NodeFollowsFrame /\ JournalIsProjected
    /\ WithdrawalIsDecided /\ RejectionIsLast /\ LineIsReleased
    /\ TextIsTracked /\ \A e \in Edits : EditIsTracked(e)

-----------------------------------------------------------------------------
(* The constants, and what the writer's jobs do to a row.                  *)

LEMMA ConstantFacts ==
    /\ MaxRev \in Nat
    /\ Edits \subseteq Reqs /\ Withdraws \subseteq Reqs /\ Reqs \subseteq Calls
    /\ Forward \in Calls /\ Forward \notin Reqs
    /\ \A e \in Edits : e \notin Withdraws /\ e \in Texts /\ e # Original
    /\ Original \in Texts /\ NoText \notin Texts
BY FS_CardinalityType, FiniteAssumption, NamesAssumption DEF MaxRev, Texts, Reqs, Calls

Outcomes == {"completed", "rejected", "cancelled", "withdrawn"}

LEMMA SettleRow ==
    ASSUME NEW r \in Row, NEW o \in Outcomes
    PROVE  /\ Settle(r, o) \in Row
           /\ Settle(r, o).state = "settled" /\ Settle(r, o).outcome = o
           /\ Settle(r, o).forwarded = r.forwarded
           /\ Settle(r, o).text = r.text /\ Settle(r, o).rev = r.rev
           /\ Settle(r, o).line = r.line /\ Settle(r, o).intent = r.intent
           /\ Settle(r, o).by = r.by
BY DEF Row, Settle, Outcomes

LEMMA WithdrawnRow ==
    ASSUME NEW r \in Row, NEW w \in Withdraws
    PROVE  /\ withdrawn_row(r, w) \in Row
           /\ withdrawn_row(r, w).state = "settled"
           /\ withdrawn_row(r, w).outcome = "withdrawn"
           /\ withdrawn_row(r, w).forwarded = r.forwarded
           /\ withdrawn_row(r, w).text = r.text /\ withdrawn_row(r, w).rev = r.rev
           /\ ~withdrawn_row(r, w).line
           /\ withdrawn_row(r, w).by = w
BY DEF Row, withdrawn_row, release_memory_line, Settle

LEMMA AcceptedRow ==
    ASSUME NEW r \in Row
    PROVE  /\ mark_accepted(r) \in Row
           /\ mark_accepted(r).state = IF r.state = "queued" THEN "accepted" ELSE r.state
           /\ mark_accepted(r).outcome = r.outcome
           /\ mark_accepted(r).forwarded = r.forwarded
           /\ mark_accepted(r).text = r.text /\ mark_accepted(r).rev = r.rev
           /\ mark_accepted(r).line = r.line /\ mark_accepted(r).intent = r.intent
           /\ mark_accepted(r).by = r.by
BY DEF Row, mark_accepted

LEMMA RejectedRow ==
    ASSUME NEW r \in Row
    PROVE  /\ reject_command(r) \in Row
           /\ reject_command(r).forwarded = r.forwarded
           /\ reject_command(r).text = r.text /\ reject_command(r).rev = r.rev
           /\ reject_command(r).line = r.line /\ reject_command(r).intent = r.intent
           /\ IF r.state = "queued"
              THEN reject_command(r).state = "settled" /\ reject_command(r).outcome = "rejected"
              ELSE reject_command(r) = r
BY DEF Row, reject_command, Settle

LEMMA EditedRow ==
    ASSUME NEW r \in Row, NEW e \in Edits, NEW v \in 0..MaxRev
    PROVE  /\ EditRow(r, e, v) \in Row
           /\ EditRow(r, e, v).text = e /\ EditRow(r, e, v).rev = v
           /\ EditRow(r, e, v).state = r.state /\ EditRow(r, e, v).outcome = r.outcome
           /\ EditRow(r, e, v).forwarded = r.forwarded
           /\ EditRow(r, e, v).line = r.line /\ EditRow(r, e, v).intent = r.intent
           /\ EditRow(r, e, v).by = r.by
BY ConstantFacts DEF Row, EditRow, Texts

LEMMA ReleasedRow ==
    ASSUME NEW r \in Row
    PROVE  /\ release_memory_line(r) \in Row
           /\ ~release_memory_line(r).line
           /\ release_memory_line(r).text = r.text /\ release_memory_line(r).rev = r.rev
           /\ release_memory_line(r).state = r.state
           /\ release_memory_line(r).outcome = r.outcome
           /\ release_memory_line(r).forwarded = r.forwarded
           /\ release_memory_line(r).intent = r.intent
           /\ release_memory_line(r).by = r.by
BY DEF Row, release_memory_line

LEMMA NodeEditedRow ==
    ASSUME NEW r \in Row, NEW e \in Edits, NEW v \in 0..MaxRev,
           NEW q, q = release_memory_line(EditRow(r, e, v))
    PROVE  /\ q \in Row /\ q.text = e /\ q.rev = v /\ ~q.line
           /\ q.state = r.state /\ q.outcome = r.outcome
           /\ q.forwarded = r.forwarded /\ q.intent = r.intent /\ q.by = r.by
<1>1. EditRow(r, e, v) \in Row
  BY EditedRow
<1>. QED
  BY <1>1, EditedRow, ReleasedRow

(* A record that is not an accept settles the row, as withdrawn when the   *)
(* intent says so.                                                         *)
LEMMA ProjectedRow ==
    ASSUME NEW r \in Row, NEW o \in {"completed", "rejected", "cancelled"}
    PROVE  /\ project_settled(r, o) \in Row
           /\ project_settled(r, o).state = "settled"
           /\ project_settled(r, o).forwarded = r.forwarded
           /\ project_settled(r, o).text = r.text /\ project_settled(r, o).rev = r.rev
           /\ settle_withdraw_intent(r, o) =>
                 /\ project_settled(r, o).outcome = "withdrawn"
                 /\ ~project_settled(r, o).line
           /\ ~settle_withdraw_intent(r, o) /\ r.state # "settled" =>
                 /\ project_settled(r, o).outcome = o
                 /\ project_settled(r, o).line = r.line
           /\ r.state = "settled" => project_settled(r, o) = r
           /\ settle_withdraw_intent(r, o) => o = "cancelled" /\ r.state # "settled"
<1>. USE DEF settle_withdraw_intent
<1>1. CASE settle_withdraw_intent(r, o)
  <2>1. r.intent \in Withdraws /\ o = "cancelled" /\ r.state # "settled"
    BY <1>1, NamesAssumption DEF Row
  <2>2. project_settled(r, o) = withdrawn_row(r, r.intent)
    BY <1>1 DEF project_settled
  <2>. QED
    BY <1>1, <2>1, WithdrawnRow DEF project_settled
<1>2. CASE ~settle_withdraw_intent(r, o) /\ r.state = "settled"
  BY <1>2 DEF project_settled
<1>3. CASE ~settle_withdraw_intent(r, o) /\ r.state # "settled"
  BY <1>3, SettleRow DEF project_settled, Outcomes
<1>. QED
  BY <1>1, <1>2, <1>3

-----------------------------------------------------------------------------
(* One lemma per action.                                                   *)

LEMMA acquire_forward_leaderKeeps ==
    ASSUME HubInv, acquire_forward_leader
    PROVE  HubInv'
<1>1. RestTyped'
  BY ConstantFacts DEF acquire_forward_leader, nodeVars, linkVars, HubInv, Typed, RestTyped
<1>2. FrameIsMarked'
  BY ConstantFacts DEF acquire_forward_leader, nodeVars, linkVars, HubInv, Typed, ReqTyped,
     ReqState, RestTyped, FrameIsMarked, Sending, NodeFollowsFrame
<1>3. RejectionIsLast'
  BY ConstantFacts DEF acquire_forward_leader, nodeVars, linkVars, HubInv, Typed, ReqTyped,
     ReqState, RestTyped, RejectionIsLast, FrameIsMarked, Sending, NodeFollowsFrame,
     JournalIsProjected
<1>4. TextIsTracked'
  BY ConstantFacts DEF acquire_forward_leader, nodeVars, linkVars, HubInv, Typed, ReqTyped,
     ReqState, RestTyped, TextIsTracked, FrameIsMarked, Sending, NodeFollowsFrame,
     EditIsTracked, Called, Fresh, Confirmed, Arrived
<1>5. /\ row' \in Row /\ ReqTyped' /\ NodeFollowsFrame' /\ JournalIsProjected'
      /\ WithdrawalIsDecided' /\ LineIsReleased' /\ (\A x \in Edits : EditIsTracked(x)')
  BY DEF acquire_forward_leader, nodeVars, linkVars, HubInv, Typed, ReqTyped, NodeFollowsFrame,
     JournalIsProjected, WithdrawalIsDecided, NeverSent, LineIsReleased, LineIsOff,
     EditIsTracked, Called, Fresh, Confirmed, Arrived
<1>. QED
  BY <1>1, <1>2, <1>3, <1>4, <1>5 DEF HubInv, Typed

LEMMA ForwardHeldKeeps ==
    ASSUME HubInv, ForwardHeld
    PROVE  HubInv'
<1>1. RestTyped'
  BY ConstantFacts DEF ForwardHeld, nodeVars, linkVars, HubInv, Typed, RestTyped
<1>2. FrameIsMarked'
  BY ConstantFacts DEF ForwardHeld, nodeVars, linkVars, HubInv, Typed, ReqTyped, ReqState,
     RestTyped, FrameIsMarked, Sending, NodeFollowsFrame
<1>3. RejectionIsLast'
  BY ConstantFacts DEF ForwardHeld, nodeVars, linkVars, HubInv, Typed, ReqTyped, ReqState,
     RestTyped, RejectionIsLast, FrameIsMarked, Sending, NodeFollowsFrame, JournalIsProjected
<1>4. TextIsTracked'
  BY ConstantFacts DEF ForwardHeld, nodeVars, linkVars, HubInv, Typed, ReqTyped, ReqState,
     RestTyped, TextIsTracked, FrameIsMarked, Sending, NodeFollowsFrame, EditIsTracked, Called,
     Fresh, Confirmed, Arrived
<1>5. /\ row' \in Row /\ ReqTyped' /\ NodeFollowsFrame' /\ JournalIsProjected'
      /\ WithdrawalIsDecided' /\ LineIsReleased' /\ (\A x \in Edits : EditIsTracked(x)')
  BY DEF ForwardHeld, nodeVars, linkVars, HubInv, Typed, ReqTyped, NodeFollowsFrame,
     JournalIsProjected, WithdrawalIsDecided, NeverSent, LineIsReleased, LineIsOff,
     EditIsTracked, Called, Fresh, Confirmed, Arrived
<1>. QED
  BY <1>1, <1>2, <1>3, <1>4, <1>5 DEF HubInv, Typed

LEMMA mark_forward_intentKeeps ==
    ASSUME HubInv, mark_forward_intent
    PROVE  HubInv'
<1>1. row' \in Row
  BY ConstantFacts DEF mark_forward_intent, Row, nodeVars, linkVars, HubInv, Typed, ReqTyped,
     ReqState, RestTyped
<1>2. RestTyped'
  BY ConstantFacts DEF mark_forward_intent, Row, nodeVars, linkVars, HubInv, Typed, RestTyped
<1>3. FrameIsMarked' /\ JournalIsProjected'
  BY ConstantFacts DEF mark_forward_intent, Row, nodeVars, linkVars, HubInv, Typed, ReqTyped,
     ReqState, RestTyped, FrameIsMarked, Sending, JournalIsProjected, NodeFollowsFrame
<1>4. WithdrawalIsDecided' /\ RejectionIsLast'
  BY ConstantFacts DEF mark_forward_intent, Row, nodeVars, linkVars, HubInv, Typed, ReqTyped,
     ReqState, RestTyped, WithdrawalIsDecided, NeverSent, RejectionIsLast, FrameIsMarked,
     Sending, NodeFollowsFrame, JournalIsProjected
<1>5. LineIsReleased'
  BY ConstantFacts DEF mark_forward_intent, Row, nodeVars, linkVars, HubInv, Typed, ReqTyped,
     ReqState, RestTyped, LineIsReleased, LineIsOff, NeverSent, FrameIsMarked, Sending,
     NodeFollowsFrame, JournalIsProjected, WithdrawalIsDecided
<1>6. TextIsTracked'
  BY ConstantFacts DEF mark_forward_intent, Row, nodeVars, linkVars, HubInv, Typed, ReqTyped,
     ReqState, RestTyped, TextIsTracked, FrameIsMarked, Sending, NodeFollowsFrame,
     EditIsTracked, Called, Fresh, Confirmed, Arrived
<1>7. \A x \in Edits : EditIsTracked(x)'
  BY ConstantFacts DEF mark_forward_intent, Row, nodeVars, linkVars, HubInv, Typed, ReqTyped,
     ReqState, RestTyped, EditIsTracked, Called, Fresh, Confirmed, Arrived, FrameIsMarked,
     Sending, NodeFollowsFrame, TextIsTracked
<1>8. ReqTyped' /\ NodeFollowsFrame'
  BY DEF mark_forward_intent, nodeVars, linkVars, HubInv, Typed, ReqTyped, NodeFollowsFrame
<1>. QED
  BY <1>1, <1>2, <1>3, <1>4, <1>5, <1>6, <1>7, <1>8 DEF HubInv, Typed

LEMMA ForwardReadKeeps ==
    ASSUME HubInv, ForwardRead
    PROVE  HubInv'
<1>1. RestTyped'
  BY ConstantFacts DEF ForwardRead, Row, nodeVars, linkVars, HubInv, Typed, RestTyped
<1>2. FrameIsMarked'
  BY ConstantFacts DEF ForwardRead, Row, nodeVars, linkVars, HubInv, Typed, ReqTyped, ReqState,
     RestTyped, FrameIsMarked, Sending, NodeFollowsFrame
<1>3. RejectionIsLast'
  BY ConstantFacts DEF ForwardRead, Row, nodeVars, linkVars, HubInv, Typed, ReqTyped, ReqState,
     RestTyped, RejectionIsLast, FrameIsMarked, Sending, NodeFollowsFrame, JournalIsProjected
<1>4. TextIsTracked'
  BY ConstantFacts DEF ForwardRead, Row, nodeVars, linkVars, HubInv, Typed, ReqTyped, ReqState,
     RestTyped, TextIsTracked, FrameIsMarked, Sending, NodeFollowsFrame, EditIsTracked, Called,
     Fresh, Confirmed, Arrived
<1>5. /\ row' \in Row /\ ReqTyped' /\ NodeFollowsFrame' /\ JournalIsProjected'
      /\ WithdrawalIsDecided' /\ LineIsReleased' /\ (\A x \in Edits : EditIsTracked(x)')
  BY DEF ForwardRead, nodeVars, linkVars, HubInv, Typed, ReqTyped, NodeFollowsFrame,
     JournalIsProjected, WithdrawalIsDecided, NeverSent, LineIsReleased, LineIsOff,
     EditIsTracked, Called, Fresh, Confirmed, Arrived
<1>. QED
  BY <1>1, <1>2, <1>3, <1>4, <1>5 DEF HubInv, Typed

LEMMA ForwardSendKeeps ==
    ASSUME HubInv, ForwardSend
    PROVE  HubInv'
<1>1. RestTyped'
  BY ConstantFacts DEF ForwardSend, CallSent, Answers, nodeVars, HubInv, Typed, RestTyped
<1>2. FrameIsMarked' /\ NodeFollowsFrame'
  BY ConstantFacts DEF ForwardSend, CallSent, Answers, nodeVars, HubInv, Typed, ReqTyped,
     ReqState, RestTyped, FrameIsMarked, Sending, NodeFollowsFrame
<1>3. WithdrawalIsDecided' /\ RejectionIsLast'
  BY ConstantFacts DEF ForwardSend, CallSent, Answers, nodeVars, HubInv, Typed, ReqTyped,
     ReqState, RestTyped, WithdrawalIsDecided, NeverSent, RejectionIsLast, FrameIsMarked,
     Sending, NodeFollowsFrame, JournalIsProjected
<1>4. LineIsReleased'
  BY ConstantFacts DEF ForwardSend, CallSent, Answers, nodeVars, HubInv, Typed, ReqTyped,
     ReqState, RestTyped, LineIsReleased, LineIsOff, NeverSent, FrameIsMarked, Sending,
     NodeFollowsFrame, JournalIsProjected, WithdrawalIsDecided
<1>5. TextIsTracked'
  BY ConstantFacts DEF ForwardSend, CallSent, Answers, nodeVars, HubInv, Typed, ReqTyped,
     ReqState, RestTyped, TextIsTracked, FrameIsMarked, Sending, NodeFollowsFrame,
     EditIsTracked, Called, Fresh, Confirmed, Arrived
<1>6. \A x \in Edits : EditIsTracked(x)'
  BY ConstantFacts DEF ForwardSend, CallSent, Answers, nodeVars, HubInv, Typed, ReqTyped,
     ReqState, RestTyped, EditIsTracked, Called, Fresh, Confirmed, Arrived, FrameIsMarked,
     Sending, NodeFollowsFrame, TextIsTracked
<1>7. row' \in Row /\ ReqTyped' /\ JournalIsProjected'
  BY DEF ForwardSend, CallSent, nodeVars, HubInv, Typed, ReqTyped, JournalIsProjected
<1>. QED
  BY <1>1, <1>2, <1>3, <1>4, <1>5, <1>6, <1>7 DEF HubInv, Typed

LEMMA ForwardUnsentKeeps ==
    ASSUME HubInv, ForwardUnsent
    PROVE  HubInv'
<1>1. RestTyped'
  BY ConstantFacts DEF ForwardUnsent, nodeVars, linkVars, HubInv, Typed, RestTyped
<1>2. FrameIsMarked'
  BY ConstantFacts DEF ForwardUnsent, nodeVars, linkVars, HubInv, Typed, ReqTyped, ReqState,
     RestTyped, FrameIsMarked, Sending, NodeFollowsFrame
<1>3. RejectionIsLast'
  BY ConstantFacts DEF ForwardUnsent, nodeVars, linkVars, HubInv, Typed, ReqTyped, ReqState,
     RestTyped, RejectionIsLast, FrameIsMarked, Sending, NodeFollowsFrame, JournalIsProjected
<1>4. TextIsTracked'
  BY ConstantFacts DEF ForwardUnsent, nodeVars, linkVars, HubInv, Typed, ReqTyped, ReqState,
     RestTyped, TextIsTracked, FrameIsMarked, Sending, NodeFollowsFrame, EditIsTracked, Called,
     Fresh, Confirmed, Arrived
<1>5. /\ row' \in Row /\ ReqTyped' /\ NodeFollowsFrame' /\ JournalIsProjected'
      /\ WithdrawalIsDecided' /\ LineIsReleased' /\ (\A x \in Edits : EditIsTracked(x)')
  BY DEF ForwardUnsent, nodeVars, linkVars, HubInv, Typed, ReqTyped, NodeFollowsFrame,
     JournalIsProjected, WithdrawalIsDecided, NeverSent, LineIsReleased, LineIsOff,
     EditIsTracked, Called, Fresh, Confirmed, Arrived
<1>. QED
  BY <1>1, <1>2, <1>3, <1>4, <1>5 DEF HubInv, Typed

LEMMA release_intentKeeps ==
    ASSUME HubInv, release_intent
    PROVE  HubInv'
<1>1. row' \in Row
  BY ConstantFacts DEF release_intent, Row, nodeVars, linkVars, HubInv, Typed, ReqTyped,
     ReqState, RestTyped
<1>2. RestTyped'
  BY ConstantFacts DEF release_intent, Row, nodeVars, linkVars, HubInv, Typed, RestTyped
<1>3. FrameIsMarked' /\ JournalIsProjected'
  BY ConstantFacts DEF release_intent, Row, nodeVars, linkVars, HubInv, Typed, ReqTyped,
     ReqState, RestTyped, FrameIsMarked, Sending, JournalIsProjected, NodeFollowsFrame
<1>4. WithdrawalIsDecided' /\ RejectionIsLast'
  BY ConstantFacts DEF release_intent, Row, nodeVars, linkVars, HubInv, Typed, ReqTyped,
     ReqState, RestTyped, WithdrawalIsDecided, NeverSent, RejectionIsLast, FrameIsMarked,
     Sending, NodeFollowsFrame, JournalIsProjected
<1>5. LineIsReleased'
  BY ConstantFacts DEF release_intent, Row, nodeVars, linkVars, HubInv, Typed, ReqTyped,
     ReqState, RestTyped, LineIsReleased, LineIsOff, NeverSent, FrameIsMarked, Sending,
     NodeFollowsFrame, JournalIsProjected, WithdrawalIsDecided
<1>6. TextIsTracked'
  BY ConstantFacts DEF release_intent, Row, nodeVars, linkVars, HubInv, Typed, ReqTyped,
     ReqState, RestTyped, TextIsTracked, FrameIsMarked, Sending, NodeFollowsFrame,
     EditIsTracked, Called, Fresh, Confirmed, Arrived
<1>7. \A x \in Edits : EditIsTracked(x)'
  BY ConstantFacts DEF release_intent, Row, nodeVars, linkVars, HubInv, Typed, ReqTyped,
     ReqState, RestTyped, EditIsTracked, Called, Fresh, Confirmed, Arrived, FrameIsMarked,
     Sending, NodeFollowsFrame, TextIsTracked
<1>8. ReqTyped' /\ NodeFollowsFrame'
  BY DEF release_intent, nodeVars, linkVars, HubInv, Typed, ReqTyped, NodeFollowsFrame
<1>. QED
  BY <1>1, <1>2, <1>3, <1>4, <1>5, <1>6, <1>7, <1>8 DEF HubInv, Typed

LEMMA ForwardBusyKeeps ==
    ASSUME HubInv, ForwardBusy
    PROVE  HubInv'
<1>1. row' \in Row
  BY ConstantFacts, RejectedRow DEF ForwardBusy, nodeVars, linkVars, HubInv, Typed, ReqTyped,
     ReqState, RestTyped
<1>2. RestTyped'
  BY ConstantFacts, RejectedRow DEF ForwardBusy, nodeVars, linkVars, HubInv, Typed, RestTyped
<1>3. FrameIsMarked' /\ JournalIsProjected'
  BY ConstantFacts, RejectedRow DEF ForwardBusy, nodeVars, linkVars, HubInv, Typed, ReqTyped,
     ReqState, RestTyped, FrameIsMarked, Sending, JournalIsProjected, NodeFollowsFrame
<1>4. WithdrawalIsDecided' /\ RejectionIsLast'
  BY ConstantFacts, RejectedRow DEF ForwardBusy, nodeVars, linkVars, HubInv, Typed, ReqTyped,
     ReqState, RestTyped, WithdrawalIsDecided, NeverSent, RejectionIsLast, FrameIsMarked,
     Sending, NodeFollowsFrame, JournalIsProjected
<1>5. LineIsReleased'
  BY ConstantFacts, RejectedRow DEF ForwardBusy, nodeVars, linkVars, HubInv, Typed, ReqTyped,
     ReqState, RestTyped, LineIsReleased, LineIsOff, NeverSent, FrameIsMarked, Sending,
     NodeFollowsFrame, JournalIsProjected, WithdrawalIsDecided
<1>6. TextIsTracked'
  BY ConstantFacts, RejectedRow DEF ForwardBusy, nodeVars, linkVars, HubInv, Typed, ReqTyped,
     ReqState, RestTyped, TextIsTracked, FrameIsMarked, Sending, NodeFollowsFrame,
     EditIsTracked, Called, Fresh, Confirmed, Arrived
<1>7. \A x \in Edits : EditIsTracked(x)'
  BY ConstantFacts, RejectedRow DEF ForwardBusy, nodeVars, linkVars, HubInv, Typed, ReqTyped,
     ReqState, RestTyped, EditIsTracked, Called, Fresh, Confirmed, Arrived, FrameIsMarked,
     Sending, NodeFollowsFrame, TextIsTracked
<1>8. ReqTyped' /\ NodeFollowsFrame'
  BY DEF ForwardBusy, nodeVars, linkVars, HubInv, Typed, ReqTyped, NodeFollowsFrame
<1>. QED
  BY <1>1, <1>2, <1>3, <1>4, <1>5, <1>6, <1>7, <1>8 DEF HubInv, Typed

LEMMA ForwardAnsweredKeeps ==
    ASSUME HubInv, ForwardAnswered
    PROVE  HubInv'
<1>1. row' \in Row
  BY ConstantFacts, RejectedRow, AcceptedRow DEF ForwardAnswered, Answered, Answers, nodeVars,
     HubInv, Typed, ReqTyped, ReqState, RestTyped
<1>2. RestTyped'
  BY ConstantFacts, RejectedRow, AcceptedRow DEF ForwardAnswered, Answered, Answers, nodeVars,
     HubInv, Typed, RestTyped
<1>3. FrameIsMarked' /\ NodeFollowsFrame' /\ JournalIsProjected'
  BY ConstantFacts, RejectedRow, AcceptedRow DEF ForwardAnswered, Answered, Answers, nodeVars,
     HubInv, Typed, ReqTyped, ReqState, RestTyped, FrameIsMarked, Sending, NodeFollowsFrame,
     JournalIsProjected
<1>4. WithdrawalIsDecided' /\ RejectionIsLast'
  BY ConstantFacts, RejectedRow, AcceptedRow DEF ForwardAnswered, Answered, Answers, nodeVars,
     HubInv, Typed, ReqTyped, ReqState, RestTyped, WithdrawalIsDecided, NeverSent,
     RejectionIsLast, FrameIsMarked, Sending, NodeFollowsFrame, JournalIsProjected
<1>5. LineIsReleased'
  BY ConstantFacts, RejectedRow, AcceptedRow DEF ForwardAnswered, Answered, Answers, nodeVars,
     HubInv, Typed, ReqTyped, ReqState, RestTyped, LineIsReleased, LineIsOff, NeverSent,
     FrameIsMarked, Sending, NodeFollowsFrame, JournalIsProjected, WithdrawalIsDecided
<1>6. TextIsTracked'
  BY ConstantFacts, RejectedRow, AcceptedRow DEF ForwardAnswered, Answered, Answers, nodeVars,
     HubInv, Typed, ReqTyped, ReqState, RestTyped, TextIsTracked, FrameIsMarked, Sending,
     NodeFollowsFrame, EditIsTracked, Called, Fresh, Confirmed, Arrived
<1>7. \A x \in Edits : EditIsTracked(x)'
  BY ConstantFacts, RejectedRow, AcceptedRow DEF ForwardAnswered, Answered, Answers, nodeVars,
     HubInv, Typed, ReqTyped, ReqState, RestTyped, EditIsTracked, Called, Fresh, Confirmed,
     Arrived, FrameIsMarked, Sending, NodeFollowsFrame, TextIsTracked
<1>8. ReqTyped'
  BY DEF ForwardAnswered, Answered, nodeVars, HubInv, Typed, ReqTyped
<1>. QED
  BY <1>1, <1>2, <1>3, <1>4, <1>5, <1>6, <1>7, <1>8 DEF HubInv, Typed

LEMMA ForwardLostKeeps ==
    ASSUME HubInv, ForwardLost
    PROVE  HubInv'
<1>1. row' \in Row
  BY ConstantFacts DEF ForwardLost, Row, nodeVars, linkVars, HubInv, Typed, ReqTyped, ReqState,
     RestTyped
<1>2. RestTyped'
  BY ConstantFacts DEF ForwardLost, Row, nodeVars, linkVars, HubInv, Typed, RestTyped
<1>3. FrameIsMarked' /\ JournalIsProjected'
  BY ConstantFacts DEF ForwardLost, Row, nodeVars, linkVars, HubInv, Typed, ReqTyped, ReqState,
     RestTyped, FrameIsMarked, Sending, JournalIsProjected, NodeFollowsFrame
<1>4. WithdrawalIsDecided' /\ RejectionIsLast'
  BY ConstantFacts DEF ForwardLost, Row, nodeVars, linkVars, HubInv, Typed, ReqTyped, ReqState,
     RestTyped, WithdrawalIsDecided, NeverSent, RejectionIsLast, FrameIsMarked, Sending,
     NodeFollowsFrame, JournalIsProjected
<1>5. LineIsReleased'
  BY ConstantFacts DEF ForwardLost, Row, nodeVars, linkVars, HubInv, Typed, ReqTyped, ReqState,
     RestTyped, LineIsReleased, LineIsOff, NeverSent, FrameIsMarked, Sending, NodeFollowsFrame,
     JournalIsProjected, WithdrawalIsDecided
<1>6. TextIsTracked'
  BY ConstantFacts DEF ForwardLost, Row, nodeVars, linkVars, HubInv, Typed, ReqTyped, ReqState,
     RestTyped, TextIsTracked, FrameIsMarked, Sending, NodeFollowsFrame, EditIsTracked, Called,
     Fresh, Confirmed, Arrived
<1>7. \A x \in Edits : EditIsTracked(x)'
  BY ConstantFacts DEF ForwardLost, Row, nodeVars, linkVars, HubInv, Typed, ReqTyped, ReqState,
     RestTyped, EditIsTracked, Called, Fresh, Confirmed, Arrived, FrameIsMarked, Sending,
     NodeFollowsFrame, TextIsTracked
<1>8. ReqTyped' /\ NodeFollowsFrame'
  BY DEF ForwardLost, nodeVars, linkVars, HubInv, Typed, ReqTyped, NodeFollowsFrame
<1>. QED
  BY <1>1, <1>2, <1>3, <1>4, <1>5, <1>6, <1>7, <1>8 DEF HubInv, Typed

LEMMA edit_commandKeeps ==
    ASSUME HubInv, NEW e \in Edits, NEW exp \in 0..(MaxRev - 1), edit_command(e, exp)
    PROVE  HubInv'
<1>1. ReqTyped'
  BY ConstantFacts DEF edit_command, held, nodeVars, linkVars, HubInv, Typed, ReqTyped,
     ReqState, RestTyped
<1>2. WithdrawalIsDecided'
  BY ConstantFacts DEF edit_command, held, nodeVars, linkVars, HubInv, Typed, ReqTyped,
     ReqState, RestTyped, WithdrawalIsDecided, NeverSent, FrameIsMarked, Sending,
     NodeFollowsFrame, JournalIsProjected
<1>3. LineIsReleased'
  BY ConstantFacts DEF edit_command, held, nodeVars, linkVars, HubInv, Typed, ReqTyped,
     ReqState, RestTyped, LineIsReleased, LineIsOff, NeverSent, FrameIsMarked, Sending,
     NodeFollowsFrame, JournalIsProjected, WithdrawalIsDecided
<1>4. TextIsTracked'
  BY ConstantFacts DEF edit_command, held, nodeVars, linkVars, HubInv, Typed, ReqTyped,
     ReqState, RestTyped, TextIsTracked, FrameIsMarked, Sending, NodeFollowsFrame,
     EditIsTracked, Called, Fresh, Confirmed, Arrived
<1>5. \A x \in Edits : EditIsTracked(x)'
  BY ConstantFacts DEF edit_command, held, nodeVars, linkVars, HubInv, Typed, ReqTyped,
     ReqState, RestTyped, EditIsTracked, Called, Fresh, Confirmed, Arrived, FrameIsMarked,
     Sending, NodeFollowsFrame, TextIsTracked
<1>6. /\ row' \in Row /\ RestTyped' /\ FrameIsMarked' /\ NodeFollowsFrame'
      /\ JournalIsProjected' /\ RejectionIsLast'
  BY DEF edit_command, nodeVars, linkVars, HubInv, Typed, RestTyped, FrameIsMarked, Sending,
     NodeFollowsFrame, JournalIsProjected, RejectionIsLast
<1>. QED
  BY <1>1, <1>2, <1>3, <1>4, <1>5, <1>6 DEF HubInv, Typed

LEMMA edit_queuedKeeps ==
    ASSUME HubInv, NEW e \in Edits, edit_queued(e)
    PROVE  HubInv'
<1>1. CASE held(row) = "hub" /\ row.rev = req[e].exp
  <2>1. /\ row.state = "queued" /\ ~row.forwarded /\ req[e].pc = "hub"
        /\ row.rev + 1 <= MaxRev
        /\ row' \in Row /\ row'.text = e /\ row'.rev = row.rev + 1
        /\ row'.state = row.state /\ row'.outcome = row.outcome
        /\ row'.forwarded = row.forwarded
        /\ row'.line = row.line /\ req' = [req EXCEPT ![e].pc = "done"]
    BY <1>1, ConstantFacts, EditedRow DEF edit_queued, held, HubInv, Typed, ReqTyped, ReqState,
       Row
  <2>2. row' \in Row
    BY <1>1, <2>1, ConstantFacts DEF edit_queued, held, nodeVars, linkVars, HubInv, Typed,
       ReqTyped, ReqState, RestTyped
  <2>3. ReqTyped'
    BY <2>1, ConstantFacts DEF HubInv, Typed, ReqTyped, ReqState
  <2>4. FrameIsMarked' /\ JournalIsProjected'
    BY <1>1, <2>1, ConstantFacts DEF edit_queued, held, nodeVars, linkVars, HubInv, Typed,
       ReqTyped, ReqState, RestTyped, FrameIsMarked, Sending, JournalIsProjected,
       NodeFollowsFrame
  <2>5. WithdrawalIsDecided' /\ RejectionIsLast'
    BY <1>1, <2>1, ConstantFacts DEF edit_queued, held, nodeVars, linkVars, HubInv, Typed,
       ReqTyped, ReqState, RestTyped, WithdrawalIsDecided, NeverSent, RejectionIsLast,
       FrameIsMarked, Sending, NodeFollowsFrame, JournalIsProjected
  <2>6. LineIsReleased'
    BY <1>1, <2>1, ConstantFacts DEF edit_queued, held, nodeVars, linkVars, HubInv, Typed,
       ReqTyped, ReqState, RestTyped, LineIsReleased, LineIsOff, NeverSent, FrameIsMarked,
       Sending, NodeFollowsFrame, JournalIsProjected, WithdrawalIsDecided
  <2>7. TextIsTracked'
    BY <1>1, <2>1, ConstantFacts DEF edit_queued, held, nodeVars, linkVars, HubInv, Typed,
       ReqTyped, ReqState, RestTyped, TextIsTracked, FrameIsMarked, Sending, NodeFollowsFrame,
       EditIsTracked, Called, Fresh, Confirmed, Arrived
  <2>8. \A x \in Edits : EditIsTracked(x)'
    BY <1>1, <2>1, ConstantFacts DEF edit_queued, held, nodeVars, linkVars, HubInv, Typed,
       ReqTyped, ReqState, RestTyped, EditIsTracked, Called, Fresh, Confirmed, Arrived,
       FrameIsMarked, Sending, NodeFollowsFrame, TextIsTracked
  <2>9. RestTyped' /\ NodeFollowsFrame'
    BY <1>1, <2>1 DEF edit_queued, nodeVars, linkVars, HubInv, Typed, RestTyped,
       NodeFollowsFrame
  <2>. QED
    BY <2>2, <2>3, <2>4, <2>5, <2>6, <2>7, <2>8, <2>9 DEF HubInv, Typed
<1>2. CASE ~(held(row) = "hub" /\ row.rev = req[e].exp)
  <2>1. row' = row /\ req' = [req EXCEPT ![e].pc = "refused"]
    BY <1>2 DEF edit_queued
  <2>2. ReqTyped'
    BY <1>2, <2>1, ConstantFacts DEF edit_queued, held, nodeVars, linkVars, HubInv, Typed,
       ReqTyped, ReqState, RestTyped
  <2>3. WithdrawalIsDecided'
    BY <1>2, <2>1, ConstantFacts DEF edit_queued, held, nodeVars, linkVars, HubInv, Typed,
       ReqTyped, ReqState, RestTyped, WithdrawalIsDecided, NeverSent, FrameIsMarked, Sending,
       NodeFollowsFrame, JournalIsProjected
  <2>4. LineIsReleased'
    BY <1>2, <2>1, ConstantFacts DEF edit_queued, held, nodeVars, linkVars, HubInv, Typed,
       ReqTyped, ReqState, RestTyped, LineIsReleased, LineIsOff, NeverSent, FrameIsMarked,
       Sending, NodeFollowsFrame, JournalIsProjected, WithdrawalIsDecided
  <2>5. TextIsTracked'
    BY <1>2, <2>1, ConstantFacts DEF edit_queued, held, nodeVars, linkVars, HubInv, Typed,
       ReqTyped, ReqState, RestTyped, TextIsTracked, FrameIsMarked, Sending, NodeFollowsFrame,
       EditIsTracked, Called, Fresh, Confirmed, Arrived
  <2>6. \A x \in Edits : EditIsTracked(x)'
    BY <1>2, <2>1, ConstantFacts DEF edit_queued, held, nodeVars, linkVars, HubInv, Typed,
       ReqTyped, ReqState, RestTyped, EditIsTracked, Called, Fresh, Confirmed, Arrived,
       FrameIsMarked, Sending, NodeFollowsFrame, TextIsTracked
  <2>7. /\ row' \in Row /\ RestTyped' /\ FrameIsMarked' /\ NodeFollowsFrame'
        /\ JournalIsProjected' /\ RejectionIsLast'
    BY <1>2, <2>1 DEF edit_queued, nodeVars, linkVars, HubInv, Typed, RestTyped, FrameIsMarked,
       Sending, NodeFollowsFrame, JournalIsProjected, RejectionIsLast
  <2>. QED
    BY <2>2, <2>3, <2>4, <2>5, <2>6, <2>7 DEF HubInv, Typed
<1>. QED
  BY <1>1, <1>2

LEMMA EditAnsweredKeeps ==
    ASSUME HubInv, NEW e \in Edits, EditAnswered(e)
    PROVE  HubInv'
<1>1. ReqTyped'
  <2>1. req' = [req EXCEPT ![e].pc = "record"] \/ req' = [req EXCEPT ![e].pc = "refused"]
    BY DEF EditAnswered
  <2>. QED
    BY <2>1, ConstantFacts DEF EditAnswered, HubInv, Typed, ReqTyped, ReqState
<1>2. RestTyped'
  BY ConstantFacts DEF EditAnswered, Answered, Answers, nodeVars, HubInv, Typed, RestTyped
<1>3. FrameIsMarked' /\ NodeFollowsFrame'
  BY ConstantFacts DEF EditAnswered, Answered, Answers, nodeVars, HubInv, Typed, ReqTyped,
     ReqState, RestTyped, FrameIsMarked, Sending, NodeFollowsFrame
<1>4. WithdrawalIsDecided' /\ RejectionIsLast'
  BY ConstantFacts DEF EditAnswered, Answered, Answers, nodeVars, HubInv, Typed, ReqTyped,
     ReqState, RestTyped, WithdrawalIsDecided, NeverSent, RejectionIsLast, FrameIsMarked,
     Sending, NodeFollowsFrame, JournalIsProjected
<1>5. LineIsReleased'
  BY ConstantFacts DEF EditAnswered, Answered, Answers, nodeVars, HubInv, Typed, ReqTyped,
     ReqState, RestTyped, LineIsReleased, LineIsOff, NeverSent, FrameIsMarked, Sending,
     NodeFollowsFrame, JournalIsProjected, WithdrawalIsDecided
<1>6. TextIsTracked'
  BY ConstantFacts DEF EditAnswered, Answered, Answers, nodeVars, HubInv, Typed, ReqTyped,
     ReqState, RestTyped, TextIsTracked, FrameIsMarked, Sending, NodeFollowsFrame,
     EditIsTracked, Called, Fresh, Confirmed, Arrived
<1>7. \A x \in Edits : EditIsTracked(x)'
  BY ConstantFacts DEF EditAnswered, Answered, Answers, nodeVars, HubInv, Typed, ReqTyped,
     ReqState, RestTyped, EditIsTracked, Called, Fresh, Confirmed, Arrived, FrameIsMarked,
     Sending, NodeFollowsFrame, TextIsTracked
<1>8. row' \in Row /\ JournalIsProjected'
  BY DEF EditAnswered, Answered, nodeVars, HubInv, Typed, JournalIsProjected
<1>. QED
  BY <1>1, <1>2, <1>3, <1>4, <1>5, <1>6, <1>7, <1>8 DEF HubInv, Typed

LEMMA record_node_editKeeps ==
    ASSUME HubInv, NEW e \in Edits, record_node_edit(e)
    PROVE  HubInv'
<1>1. /\ row' \in Row /\ row'.text = e /\ row'.rev = req[e].exp + 1
      /\ row'.state = row.state /\ row'.outcome = row.outcome
      /\ row'.forwarded = row.forwarded
      /\ ~row'.line
  <2>1. req[e].exp + 1 \in 0..MaxRev
    BY ConstantFacts DEF record_node_edit, HubInv, Typed, ReqTyped, ReqState
  <2>2. row' = release_memory_line(EditRow(row, e, req[e].exp + 1)) /\ row \in Row
    BY DEF record_node_edit, HubInv, Typed
  <2>. QED
    BY <2>1, <2>2, NodeEditedRow
<1>2. row' \in Row
  BY <1>1, ConstantFacts DEF record_node_edit, SeenAfterRelease, nodeVars, linkVars, HubInv,
     Typed, ReqTyped, ReqState, RestTyped
<1>3. ReqTyped'
  BY <1>1, ConstantFacts DEF record_node_edit, SeenAfterRelease, nodeVars, linkVars, HubInv,
     Typed, ReqTyped, ReqState, RestTyped
<1>4. RestTyped'
  BY <1>1, ConstantFacts DEF record_node_edit, SeenAfterRelease, nodeVars, linkVars, HubInv,
     Typed, RestTyped
<1>5. FrameIsMarked' /\ JournalIsProjected'
  BY <1>1, ConstantFacts DEF record_node_edit, SeenAfterRelease, nodeVars, linkVars, HubInv,
     Typed, ReqTyped, ReqState, RestTyped, FrameIsMarked, Sending, JournalIsProjected,
     NodeFollowsFrame
<1>6. WithdrawalIsDecided' /\ RejectionIsLast'
  BY <1>1, ConstantFacts DEF record_node_edit, SeenAfterRelease, nodeVars, linkVars, HubInv,
     Typed, ReqTyped, ReqState, RestTyped, WithdrawalIsDecided, NeverSent, RejectionIsLast,
     FrameIsMarked, Sending, NodeFollowsFrame, JournalIsProjected
<1>7. LineIsReleased'
  BY <1>1, ConstantFacts DEF record_node_edit, SeenAfterRelease, nodeVars, linkVars, HubInv,
     Typed, ReqTyped, ReqState, RestTyped, LineIsReleased, LineIsOff, NeverSent, FrameIsMarked,
     Sending, NodeFollowsFrame, JournalIsProjected, WithdrawalIsDecided
<1>8. TextIsTracked'
  BY <1>1, ConstantFacts DEF record_node_edit, SeenAfterRelease, nodeVars, linkVars, HubInv,
     Typed, ReqTyped, ReqState, RestTyped, TextIsTracked, FrameIsMarked, Sending,
     NodeFollowsFrame, EditIsTracked, Called, Fresh, Confirmed, Arrived
<1>9. \A x \in Edits : EditIsTracked(x)'
  BY <1>1, ConstantFacts DEF record_node_edit, SeenAfterRelease, nodeVars, linkVars, HubInv,
     Typed, ReqTyped, ReqState, RestTyped, EditIsTracked, Called, Fresh, Confirmed, Arrived,
     FrameIsMarked, Sending, NodeFollowsFrame, TextIsTracked
<1>10. NodeFollowsFrame'
  BY <1>1 DEF record_node_edit, nodeVars, linkVars, HubInv, NodeFollowsFrame
<1>. QED
  BY <1>2, <1>3, <1>4, <1>5, <1>6, <1>7, <1>8, <1>9, <1>10 DEF HubInv, Typed

LEMMA withdraw_commandKeeps ==
    ASSUME HubInv, NEW w \in Withdraws, withdraw_command(w)
    PROVE  HubInv'
<1>1. ReqTyped'
  BY ConstantFacts DEF withdraw_command, held, nodeVars, linkVars, HubInv, Typed, ReqTyped,
     ReqState, RestTyped
<1>2. WithdrawalIsDecided'
  BY ConstantFacts DEF withdraw_command, held, nodeVars, linkVars, HubInv, Typed, ReqTyped,
     ReqState, RestTyped, WithdrawalIsDecided, NeverSent, FrameIsMarked, Sending,
     NodeFollowsFrame, JournalIsProjected
<1>3. LineIsReleased'
  BY ConstantFacts DEF withdraw_command, held, nodeVars, linkVars, HubInv, Typed, ReqTyped,
     ReqState, RestTyped, LineIsReleased, LineIsOff, NeverSent, FrameIsMarked, Sending,
     NodeFollowsFrame, JournalIsProjected, WithdrawalIsDecided
<1>4. TextIsTracked'
  BY ConstantFacts DEF withdraw_command, held, nodeVars, linkVars, HubInv, Typed, ReqTyped,
     ReqState, RestTyped, TextIsTracked, FrameIsMarked, Sending, NodeFollowsFrame,
     EditIsTracked, Called, Fresh, Confirmed, Arrived
<1>5. \A x \in Edits : EditIsTracked(x)'
  BY ConstantFacts DEF withdraw_command, held, nodeVars, linkVars, HubInv, Typed, ReqTyped,
     ReqState, RestTyped, EditIsTracked, Called, Fresh, Confirmed, Arrived, FrameIsMarked,
     Sending, NodeFollowsFrame, TextIsTracked
<1>6. /\ row' \in Row /\ RestTyped' /\ FrameIsMarked' /\ NodeFollowsFrame'
      /\ JournalIsProjected' /\ RejectionIsLast'
  BY DEF withdraw_command, nodeVars, linkVars, HubInv, Typed, RestTyped, FrameIsMarked, Sending,
     NodeFollowsFrame, JournalIsProjected, RejectionIsLast
<1>. QED
  BY <1>1, <1>2, <1>3, <1>4, <1>5, <1>6 DEF HubInv, Typed

LEMMA withdraw_queuedKeeps ==
    ASSUME HubInv, NEW w \in Withdraws, withdraw_queued(w)
    PROVE  HubInv'
<1>1. CASE held(row) = "hub"
  <2>1. /\ row.state = "queued" /\ ~row.forwarded
        /\ row' \in Row /\ row'.state = "settled" /\ row'.outcome = "withdrawn"
        /\ row'.forwarded = row.forwarded /\ row'.text = row.text /\ row'.rev = row.rev
        /\ ~row'.line
    BY <1>1, WithdrawnRow DEF withdraw_queued, held, HubInv, Typed
  <2>2. row' \in Row
    BY <1>1, <2>1, ConstantFacts DEF withdraw_queued, held, SeenAfterRelease, nodeVars,
       linkVars, HubInv, Typed, ReqTyped, ReqState, RestTyped
  <2>3. ReqTyped'
    BY <1>1, <2>1, ConstantFacts DEF withdraw_queued, held, SeenAfterRelease, nodeVars,
       linkVars, HubInv, Typed, ReqTyped, ReqState, RestTyped
  <2>4. RestTyped'
    BY <1>1, <2>1, ConstantFacts DEF withdraw_queued, held, SeenAfterRelease, nodeVars,
       linkVars, HubInv, Typed, RestTyped
  <2>5. FrameIsMarked' /\ JournalIsProjected'
    BY <1>1, <2>1, ConstantFacts DEF withdraw_queued, held, SeenAfterRelease, nodeVars,
       linkVars, HubInv, Typed, ReqTyped, ReqState, RestTyped, FrameIsMarked, Sending,
       JournalIsProjected, NodeFollowsFrame
  <2>6. WithdrawalIsDecided' /\ RejectionIsLast'
    BY <1>1, <2>1, ConstantFacts DEF withdraw_queued, held, SeenAfterRelease, nodeVars,
       linkVars, HubInv, Typed, ReqTyped, ReqState, RestTyped, WithdrawalIsDecided, NeverSent,
       RejectionIsLast, FrameIsMarked, Sending, NodeFollowsFrame, JournalIsProjected
  <2>7. LineIsReleased'
    BY <1>1, <2>1, ConstantFacts DEF withdraw_queued, held, SeenAfterRelease, nodeVars,
       linkVars, HubInv, Typed, ReqTyped, ReqState, RestTyped, LineIsReleased, LineIsOff,
       NeverSent, FrameIsMarked, Sending, NodeFollowsFrame, JournalIsProjected,
       WithdrawalIsDecided
  <2>8. TextIsTracked'
    BY <1>1, <2>1, ConstantFacts DEF withdraw_queued, held, SeenAfterRelease, nodeVars,
       linkVars, HubInv, Typed, ReqTyped, ReqState, RestTyped, TextIsTracked, FrameIsMarked,
       Sending, NodeFollowsFrame, EditIsTracked, Called, Fresh, Confirmed, Arrived
  <2>9. \A x \in Edits : EditIsTracked(x)'
    BY <1>1, <2>1, ConstantFacts DEF withdraw_queued, held, SeenAfterRelease, nodeVars,
       linkVars, HubInv, Typed, ReqTyped, ReqState, RestTyped, EditIsTracked, Called, Fresh,
       Confirmed, Arrived, FrameIsMarked, Sending, NodeFollowsFrame, TextIsTracked
  <2>10. NodeFollowsFrame'
    BY <1>1, <2>1 DEF withdraw_queued, nodeVars, linkVars, HubInv, NodeFollowsFrame
  <2>. QED
    BY <2>2, <2>3, <2>4, <2>5, <2>6, <2>7, <2>8, <2>9, <2>10 DEF HubInv, Typed
<1>2. CASE held(row) # "hub"
  <2>1. row' = row /\ seen' = seen
    BY <1>2 DEF withdraw_queued
  <2>2. ReqTyped'
    BY <1>2, <2>1, ConstantFacts DEF withdraw_queued, held, SeenAfterRelease, nodeVars,
       linkVars, HubInv, Typed, ReqTyped, ReqState, RestTyped
  <2>3. WithdrawalIsDecided'
    BY <1>2, <2>1, ConstantFacts DEF withdraw_queued, held, SeenAfterRelease, nodeVars,
       linkVars, HubInv, Typed, ReqTyped, ReqState, RestTyped, WithdrawalIsDecided, NeverSent,
       FrameIsMarked, Sending, NodeFollowsFrame, JournalIsProjected
  <2>4. LineIsReleased'
    BY <1>2, <2>1, ConstantFacts DEF withdraw_queued, held, SeenAfterRelease, nodeVars,
       linkVars, HubInv, Typed, ReqTyped, ReqState, RestTyped, LineIsReleased, LineIsOff,
       NeverSent, FrameIsMarked, Sending, NodeFollowsFrame, JournalIsProjected,
       WithdrawalIsDecided
  <2>5. TextIsTracked'
    BY <1>2, <2>1, ConstantFacts DEF withdraw_queued, held, SeenAfterRelease, nodeVars,
       linkVars, HubInv, Typed, ReqTyped, ReqState, RestTyped, TextIsTracked, FrameIsMarked,
       Sending, NodeFollowsFrame, EditIsTracked, Called, Fresh, Confirmed, Arrived
  <2>6. \A x \in Edits : EditIsTracked(x)'
    BY <1>2, <2>1, ConstantFacts DEF withdraw_queued, held, SeenAfterRelease, nodeVars,
       linkVars, HubInv, Typed, ReqTyped, ReqState, RestTyped, EditIsTracked, Called, Fresh,
       Confirmed, Arrived, FrameIsMarked, Sending, NodeFollowsFrame, TextIsTracked
  <2>7. /\ row' \in Row /\ RestTyped' /\ FrameIsMarked' /\ NodeFollowsFrame'
        /\ JournalIsProjected' /\ RejectionIsLast'
    BY <1>2, <2>1 DEF withdraw_queued, nodeVars, linkVars, HubInv, Typed, RestTyped,
       FrameIsMarked, Sending, NodeFollowsFrame, JournalIsProjected, RejectionIsLast
  <2>. QED
    BY <2>2, <2>3, <2>4, <2>5, <2>6, <2>7 DEF HubInv, Typed
<1>. QED
  BY <1>1, <1>2

LEMMA mark_withdraw_intentKeeps ==
    ASSUME HubInv, NEW w \in Withdraws, mark_withdraw_intent(w)
    PROVE  HubInv'
<1>1. row' \in Row
  BY ConstantFacts DEF mark_withdraw_intent, Row, nodeVars, linkVars, HubInv, Typed, ReqTyped,
     ReqState, RestTyped
<1>2. ReqTyped'
  BY ConstantFacts DEF mark_withdraw_intent, Row, nodeVars, linkVars, HubInv, Typed, ReqTyped,
     ReqState, RestTyped
<1>3. FrameIsMarked' /\ JournalIsProjected'
  BY ConstantFacts DEF mark_withdraw_intent, Row, nodeVars, linkVars, HubInv, Typed, ReqTyped,
     ReqState, RestTyped, FrameIsMarked, Sending, JournalIsProjected, NodeFollowsFrame
<1>4. WithdrawalIsDecided' /\ RejectionIsLast'
  BY ConstantFacts DEF mark_withdraw_intent, Row, nodeVars, linkVars, HubInv, Typed, ReqTyped,
     ReqState, RestTyped, WithdrawalIsDecided, NeverSent, RejectionIsLast, FrameIsMarked,
     Sending, NodeFollowsFrame, JournalIsProjected
<1>5. LineIsReleased'
  BY ConstantFacts DEF mark_withdraw_intent, Row, nodeVars, linkVars, HubInv, Typed, ReqTyped,
     ReqState, RestTyped, LineIsReleased, LineIsOff, NeverSent, FrameIsMarked, Sending,
     NodeFollowsFrame, JournalIsProjected, WithdrawalIsDecided
<1>6. TextIsTracked'
  BY ConstantFacts DEF mark_withdraw_intent, Row, nodeVars, linkVars, HubInv, Typed, ReqTyped,
     ReqState, RestTyped, TextIsTracked, FrameIsMarked, Sending, NodeFollowsFrame,
     EditIsTracked, Called, Fresh, Confirmed, Arrived
<1>7. \A x \in Edits : EditIsTracked(x)'
  BY ConstantFacts DEF mark_withdraw_intent, Row, nodeVars, linkVars, HubInv, Typed, ReqTyped,
     ReqState, RestTyped, EditIsTracked, Called, Fresh, Confirmed, Arrived, FrameIsMarked,
     Sending, NodeFollowsFrame, TextIsTracked
<1>8. RestTyped' /\ NodeFollowsFrame'
  BY DEF mark_withdraw_intent, nodeVars, linkVars, HubInv, Typed, RestTyped, NodeFollowsFrame
<1>. QED
  BY <1>1, <1>2, <1>3, <1>4, <1>5, <1>6, <1>7, <1>8 DEF HubInv, Typed

LEMMA WithdrawAnsweredKeeps ==
    ASSUME HubInv, NEW w \in Withdraws, WithdrawAnswered(w)
    PROVE  HubInv'
<1>1. ReqTyped'
  <2>1. req' = [req EXCEPT ![w].pc = "record"] \/ req' = [req EXCEPT ![w].pc = "no"]
    BY DEF WithdrawAnswered
  <2>. QED
    BY <2>1, ConstantFacts DEF WithdrawAnswered, HubInv, Typed, ReqTyped, ReqState
<1>2. RestTyped'
  BY ConstantFacts DEF WithdrawAnswered, Answered, Answers, nodeVars, HubInv, Typed, RestTyped
<1>3. FrameIsMarked' /\ NodeFollowsFrame'
  BY ConstantFacts DEF WithdrawAnswered, Answered, Answers, nodeVars, HubInv, Typed, ReqTyped,
     ReqState, RestTyped, FrameIsMarked, Sending, NodeFollowsFrame
<1>4. WithdrawalIsDecided' /\ RejectionIsLast'
  BY ConstantFacts DEF WithdrawAnswered, Answered, Answers, nodeVars, HubInv, Typed, ReqTyped,
     ReqState, RestTyped, WithdrawalIsDecided, NeverSent, RejectionIsLast, FrameIsMarked,
     Sending, NodeFollowsFrame, JournalIsProjected
<1>5. LineIsReleased'
  BY ConstantFacts DEF WithdrawAnswered, Answered, Answers, nodeVars, HubInv, Typed, ReqTyped,
     ReqState, RestTyped, LineIsReleased, LineIsOff, NeverSent, FrameIsMarked, Sending,
     NodeFollowsFrame, JournalIsProjected, WithdrawalIsDecided
<1>6. TextIsTracked'
  BY ConstantFacts DEF WithdrawAnswered, Answered, Answers, nodeVars, HubInv, Typed, ReqTyped,
     ReqState, RestTyped, TextIsTracked, FrameIsMarked, Sending, NodeFollowsFrame,
     EditIsTracked, Called, Fresh, Confirmed, Arrived
<1>7. \A x \in Edits : EditIsTracked(x)'
  BY ConstantFacts DEF WithdrawAnswered, Answered, Answers, nodeVars, HubInv, Typed, ReqTyped,
     ReqState, RestTyped, EditIsTracked, Called, Fresh, Confirmed, Arrived, FrameIsMarked,
     Sending, NodeFollowsFrame, TextIsTracked
<1>8. row' \in Row /\ JournalIsProjected'
  BY DEF WithdrawAnswered, Answered, nodeVars, HubInv, Typed, JournalIsProjected
<1>. QED
  BY <1>1, <1>2, <1>3, <1>4, <1>5, <1>6, <1>7, <1>8 DEF HubInv, Typed

LEMMA clear_withdraw_intentKeeps ==
    ASSUME HubInv, NEW w \in Withdraws, clear_withdraw_intent(w)
    PROVE  HubInv'
<1>1. row' \in Row
  BY ConstantFacts DEF clear_withdraw_intent, Row, nodeVars, linkVars, HubInv, Typed, ReqTyped,
     ReqState, RestTyped
<1>2. ReqTyped'
  BY ConstantFacts DEF clear_withdraw_intent, Row, nodeVars, linkVars, HubInv, Typed, ReqTyped,
     ReqState, RestTyped
<1>3. FrameIsMarked' /\ JournalIsProjected'
  BY ConstantFacts DEF clear_withdraw_intent, Row, nodeVars, linkVars, HubInv, Typed, ReqTyped,
     ReqState, RestTyped, FrameIsMarked, Sending, JournalIsProjected, NodeFollowsFrame
<1>4. WithdrawalIsDecided' /\ RejectionIsLast'
  BY ConstantFacts DEF clear_withdraw_intent, Row, nodeVars, linkVars, HubInv, Typed, ReqTyped,
     ReqState, RestTyped, WithdrawalIsDecided, NeverSent, RejectionIsLast, FrameIsMarked,
     Sending, NodeFollowsFrame, JournalIsProjected
<1>5. LineIsReleased'
  BY ConstantFacts DEF clear_withdraw_intent, Row, nodeVars, linkVars, HubInv, Typed, ReqTyped,
     ReqState, RestTyped, LineIsReleased, LineIsOff, NeverSent, FrameIsMarked, Sending,
     NodeFollowsFrame, JournalIsProjected, WithdrawalIsDecided
<1>6. TextIsTracked'
  BY ConstantFacts DEF clear_withdraw_intent, Row, nodeVars, linkVars, HubInv, Typed, ReqTyped,
     ReqState, RestTyped, TextIsTracked, FrameIsMarked, Sending, NodeFollowsFrame,
     EditIsTracked, Called, Fresh, Confirmed, Arrived
<1>7. \A x \in Edits : EditIsTracked(x)'
  BY ConstantFacts DEF clear_withdraw_intent, Row, nodeVars, linkVars, HubInv, Typed, ReqTyped,
     ReqState, RestTyped, EditIsTracked, Called, Fresh, Confirmed, Arrived, FrameIsMarked,
     Sending, NodeFollowsFrame, TextIsTracked
<1>8. RestTyped' /\ NodeFollowsFrame'
  BY DEF clear_withdraw_intent, nodeVars, linkVars, HubInv, Typed, RestTyped, NodeFollowsFrame
<1>. QED
  BY <1>1, <1>2, <1>3, <1>4, <1>5, <1>6, <1>7, <1>8 DEF HubInv, Typed

LEMMA record_node_withdrawKeeps ==
    ASSUME HubInv, NEW w \in Withdraws, record_node_withdraw(w)
    PROVE  HubInv'
<1>1. CASE row.state # "settled" \/ row.outcome = "cancelled"
  <2>1. /\ row' \in Row /\ row'.state = "settled" /\ row'.outcome = "withdrawn"
        /\ row'.forwarded = row.forwarded /\ row'.text = row.text /\ row'.rev = row.rev
        /\ ~row'.line
    BY <1>1, WithdrawnRow DEF record_node_withdraw, HubInv, Typed
  <2>2. row' \in Row
    BY <1>1, <2>1, ConstantFacts DEF record_node_withdraw, SeenAfterRelease, nodeVars, linkVars,
       HubInv, Typed, ReqTyped, ReqState, RestTyped
  <2>3. ReqTyped'
    BY <1>1, <2>1, ConstantFacts DEF record_node_withdraw, SeenAfterRelease, nodeVars, linkVars,
       HubInv, Typed, ReqTyped, ReqState, RestTyped
  <2>4. RestTyped'
    <3>1. seen' \in BOOLEAN
      BY <1>1 DEF record_node_withdraw, SeenAfterRelease
    <3>. QED
      BY <3>1 DEF record_node_withdraw, hubVars, nodeVars, linkVars, HubInv, Typed, RestTyped
  <2>5. FrameIsMarked' /\ JournalIsProjected'
    BY <1>1, <2>1, ConstantFacts DEF record_node_withdraw, SeenAfterRelease, nodeVars, linkVars,
       HubInv, Typed, ReqTyped, ReqState, RestTyped, FrameIsMarked, Sending, JournalIsProjected,
       NodeFollowsFrame
  <2>6. WithdrawalIsDecided' /\ RejectionIsLast'
    BY <1>1, <2>1, ConstantFacts DEF record_node_withdraw, SeenAfterRelease, nodeVars, linkVars,
       HubInv, Typed, ReqTyped, ReqState, RestTyped, WithdrawalIsDecided, NeverSent,
       RejectionIsLast, FrameIsMarked, Sending, NodeFollowsFrame, JournalIsProjected
  <2>7. LineIsReleased'
    BY <1>1, <2>1, ConstantFacts DEF record_node_withdraw, SeenAfterRelease, nodeVars, linkVars,
       HubInv, Typed, ReqTyped, ReqState, RestTyped, LineIsReleased, LineIsOff, NeverSent,
       FrameIsMarked, Sending, NodeFollowsFrame, JournalIsProjected, WithdrawalIsDecided
  <2>8. TextIsTracked'
    BY <1>1, <2>1, ConstantFacts DEF record_node_withdraw, SeenAfterRelease, nodeVars, linkVars,
       HubInv, Typed, ReqTyped, ReqState, RestTyped, TextIsTracked, FrameIsMarked, Sending,
       NodeFollowsFrame, EditIsTracked, Called, Fresh, Confirmed, Arrived
  <2>9. \A x \in Edits : EditIsTracked(x)'
    BY <1>1, <2>1, ConstantFacts DEF record_node_withdraw, SeenAfterRelease, nodeVars, linkVars,
       HubInv, Typed, ReqTyped, ReqState, RestTyped, EditIsTracked, Called, Fresh, Confirmed,
       Arrived, FrameIsMarked, Sending, NodeFollowsFrame, TextIsTracked
  <2>10. NodeFollowsFrame'
    BY <1>1, <2>1 DEF record_node_withdraw, nodeVars, linkVars, HubInv, NodeFollowsFrame
  <2>. QED
    BY <2>2, <2>3, <2>4, <2>5, <2>6, <2>7, <2>8, <2>9, <2>10 DEF HubInv, Typed
<1>2. CASE ~(row.state # "settled" \/ row.outcome = "cancelled")
  <2>1. /\ row' = row /\ seen' = seen
        /\ row.state = "settled" /\ row.outcome # "cancelled"
    BY <1>2 DEF record_node_withdraw
  <2>2. ReqTyped'
    BY <1>2, <2>1, ConstantFacts DEF record_node_withdraw, SeenAfterRelease, nodeVars, linkVars,
       HubInv, Typed, ReqTyped, ReqState, RestTyped
  <2>3. WithdrawalIsDecided'
    BY <1>2, <2>1, ConstantFacts DEF record_node_withdraw, SeenAfterRelease, nodeVars, linkVars,
       HubInv, Typed, ReqTyped, ReqState, RestTyped, WithdrawalIsDecided, NeverSent,
       FrameIsMarked, Sending, NodeFollowsFrame, JournalIsProjected
  <2>4. LineIsReleased'
    BY <1>2, <2>1, ConstantFacts DEF record_node_withdraw, SeenAfterRelease, nodeVars, linkVars,
       HubInv, Typed, ReqTyped, ReqState, RestTyped, LineIsReleased, LineIsOff, NeverSent,
       FrameIsMarked, Sending, NodeFollowsFrame, JournalIsProjected, WithdrawalIsDecided
  <2>5. TextIsTracked'
    BY <1>2, <2>1, ConstantFacts DEF record_node_withdraw, SeenAfterRelease, nodeVars, linkVars,
       HubInv, Typed, ReqTyped, ReqState, RestTyped, TextIsTracked, FrameIsMarked, Sending,
       NodeFollowsFrame, EditIsTracked, Called, Fresh, Confirmed, Arrived
  <2>6. \A x \in Edits : EditIsTracked(x)'
    BY <1>2, <2>1, ConstantFacts DEF record_node_withdraw, SeenAfterRelease, nodeVars, linkVars,
       HubInv, Typed, ReqTyped, ReqState, RestTyped, EditIsTracked, Called, Fresh, Confirmed,
       Arrived, FrameIsMarked, Sending, NodeFollowsFrame, TextIsTracked
  <2>7. /\ row' \in Row /\ RestTyped' /\ FrameIsMarked' /\ NodeFollowsFrame'
        /\ JournalIsProjected' /\ RejectionIsLast'
    BY <1>2, <2>1 DEF record_node_withdraw, nodeVars, linkVars, HubInv, Typed, RestTyped,
       FrameIsMarked, Sending, NodeFollowsFrame, JournalIsProjected, RejectionIsLast
  <2>. QED
    BY <2>2, <2>3, <2>4, <2>5, <2>6, <2>7 DEF HubInv, Typed
<1>. QED
  BY <1>1, <1>2

LEMMA CallNodeKeeps ==
    ASSUME HubInv, NEW r \in Reqs, CallNode(r)
    PROVE  HubInv'
<1>1. ReqTyped'
  BY ConstantFacts DEF CallNode, CallSent, nodeVars, HubInv, Typed, ReqTyped, ReqState,
     RestTyped
<1>2. RestTyped'
  BY ConstantFacts DEF CallNode, CallSent, nodeVars, HubInv, Typed, RestTyped
<1>3. FrameIsMarked' /\ NodeFollowsFrame'
  BY ConstantFacts DEF CallNode, CallSent, nodeVars, HubInv, Typed, ReqTyped, ReqState,
     RestTyped, FrameIsMarked, Sending, NodeFollowsFrame
<1>4. WithdrawalIsDecided' /\ RejectionIsLast'
  BY ConstantFacts DEF CallNode, CallSent, nodeVars, HubInv, Typed, ReqTyped, ReqState,
     RestTyped, WithdrawalIsDecided, NeverSent, RejectionIsLast, FrameIsMarked, Sending,
     NodeFollowsFrame, JournalIsProjected
<1>5. LineIsReleased'
  BY ConstantFacts DEF CallNode, CallSent, nodeVars, HubInv, Typed, ReqTyped, ReqState,
     RestTyped, LineIsReleased, LineIsOff, NeverSent, FrameIsMarked, Sending, NodeFollowsFrame,
     JournalIsProjected, WithdrawalIsDecided
<1>6. TextIsTracked'
  BY ConstantFacts DEF CallNode, CallSent, nodeVars, HubInv, Typed, ReqTyped, ReqState,
     RestTyped, TextIsTracked, FrameIsMarked, Sending, NodeFollowsFrame, EditIsTracked, Called,
     Fresh, Confirmed, Arrived
<1>7. \A x \in Edits : EditIsTracked(x)'
  BY ConstantFacts DEF CallNode, CallSent, nodeVars, HubInv, Typed, ReqTyped, ReqState,
     RestTyped, EditIsTracked, Called, Fresh, Confirmed, Arrived, FrameIsMarked, Sending,
     NodeFollowsFrame, TextIsTracked
<1>8. row' \in Row /\ JournalIsProjected'
  BY DEF CallNode, CallSent, nodeVars, HubInv, Typed, JournalIsProjected
<1>. QED
  BY <1>1, <1>2, <1>3, <1>4, <1>5, <1>6, <1>7, <1>8 DEF HubInv, Typed

LEMMA CallUnsentKeeps ==
    ASSUME HubInv, NEW r \in Reqs, CallUnsent(r)
    PROVE  HubInv'
<1>1. ReqTyped'
  BY ConstantFacts DEF CallUnsent, nodeVars, linkVars, HubInv, Typed, ReqTyped, ReqState,
     RestTyped
<1>2. WithdrawalIsDecided'
  BY ConstantFacts DEF CallUnsent, nodeVars, linkVars, HubInv, Typed, ReqTyped, ReqState,
     RestTyped, WithdrawalIsDecided, NeverSent, FrameIsMarked, Sending, NodeFollowsFrame,
     JournalIsProjected
<1>3. LineIsReleased'
  BY ConstantFacts DEF CallUnsent, nodeVars, linkVars, HubInv, Typed, ReqTyped, ReqState,
     RestTyped, LineIsReleased, LineIsOff, NeverSent, FrameIsMarked, Sending, NodeFollowsFrame,
     JournalIsProjected, WithdrawalIsDecided
<1>4. TextIsTracked'
  BY ConstantFacts DEF CallUnsent, nodeVars, linkVars, HubInv, Typed, ReqTyped, ReqState,
     RestTyped, TextIsTracked, FrameIsMarked, Sending, NodeFollowsFrame, EditIsTracked, Called,
     Fresh, Confirmed, Arrived
<1>5. \A x \in Edits : EditIsTracked(x)'
  BY ConstantFacts DEF CallUnsent, nodeVars, linkVars, HubInv, Typed, ReqTyped, ReqState,
     RestTyped, EditIsTracked, Called, Fresh, Confirmed, Arrived, FrameIsMarked, Sending,
     NodeFollowsFrame, TextIsTracked
<1>6. /\ row' \in Row /\ RestTyped' /\ FrameIsMarked' /\ NodeFollowsFrame'
      /\ JournalIsProjected' /\ RejectionIsLast'
  BY DEF CallUnsent, nodeVars, linkVars, HubInv, Typed, RestTyped, FrameIsMarked, Sending,
     NodeFollowsFrame, JournalIsProjected, RejectionIsLast
<1>. QED
  BY <1>1, <1>2, <1>3, <1>4, <1>5, <1>6 DEF HubInv, Typed

LEMMA CallLostKeeps ==
    ASSUME HubInv, NEW r \in Reqs, CallLost(r)
    PROVE  HubInv'
<1>1. ReqTyped'
  BY ConstantFacts DEF CallLost, nodeVars, linkVars, HubInv, Typed, ReqTyped, ReqState,
     RestTyped
<1>2. WithdrawalIsDecided'
  BY ConstantFacts DEF CallLost, nodeVars, linkVars, HubInv, Typed, ReqTyped, ReqState,
     RestTyped, WithdrawalIsDecided, NeverSent, FrameIsMarked, Sending, NodeFollowsFrame,
     JournalIsProjected
<1>3. LineIsReleased'
  BY ConstantFacts DEF CallLost, nodeVars, linkVars, HubInv, Typed, ReqTyped, ReqState,
     RestTyped, LineIsReleased, LineIsOff, NeverSent, FrameIsMarked, Sending, NodeFollowsFrame,
     JournalIsProjected, WithdrawalIsDecided
<1>4. TextIsTracked'
  BY ConstantFacts DEF CallLost, nodeVars, linkVars, HubInv, Typed, ReqTyped, ReqState,
     RestTyped, TextIsTracked, FrameIsMarked, Sending, NodeFollowsFrame, EditIsTracked, Called,
     Fresh, Confirmed, Arrived
<1>5. \A x \in Edits : EditIsTracked(x)'
  BY ConstantFacts DEF CallLost, nodeVars, linkVars, HubInv, Typed, ReqTyped, ReqState,
     RestTyped, EditIsTracked, Called, Fresh, Confirmed, Arrived, FrameIsMarked, Sending,
     NodeFollowsFrame, TextIsTracked
<1>6. /\ row' \in Row /\ RestTyped' /\ FrameIsMarked' /\ NodeFollowsFrame'
      /\ JournalIsProjected' /\ RejectionIsLast'
  BY DEF CallLost, nodeVars, linkVars, HubInv, Typed, RestTyped, FrameIsMarked, Sending,
     NodeFollowsFrame, JournalIsProjected, RejectionIsLast
<1>. QED
  BY <1>1, <1>2, <1>3, <1>4, <1>5, <1>6 DEF HubInv, Typed

LEMMA apply_command_projectionKeeps ==
    ASSUME HubInv, apply_command_projection
    PROVE  HubInv'
<1>1. CASE journal[mirrored + 1] = "accepted"
  <2>1. /\ row' \in Row /\ seen' = seen
        /\ row'.state = IF row.state = "queued" THEN "accepted" ELSE row.state
        /\ row'.outcome = row.outcome /\ row'.forwarded = row.forwarded
        /\ row'.text = row.text /\ row'.rev = row.rev /\ row'.line = row.line
    BY <1>1, AcceptedRow DEF apply_command_projection, project_accepted, settle_withdraw_intent,
       HubInv, Typed
  <2>2. row' \in Row
    BY <1>1, <2>1, ConstantFacts DEF apply_command_projection, SeenAfterRelease, nodeVars,
       linkVars, HubInv, Typed, ReqTyped, ReqState, RestTyped
  <2>3. RestTyped'
    BY <1>1, <2>1, ConstantFacts DEF apply_command_projection, SeenAfterRelease, nodeVars,
       linkVars, HubInv, Typed, RestTyped
  <2>4. FrameIsMarked' /\ JournalIsProjected'
    BY <1>1, <2>1, ConstantFacts DEF apply_command_projection, SeenAfterRelease, nodeVars,
       linkVars, HubInv, Typed, ReqTyped, ReqState, RestTyped, FrameIsMarked, Sending,
       JournalIsProjected, NodeFollowsFrame
  <2>5. WithdrawalIsDecided' /\ RejectionIsLast'
    BY <1>1, <2>1, ConstantFacts DEF apply_command_projection, SeenAfterRelease, nodeVars,
       linkVars, HubInv, Typed, ReqTyped, ReqState, RestTyped, WithdrawalIsDecided, NeverSent,
       RejectionIsLast, FrameIsMarked, Sending, NodeFollowsFrame, JournalIsProjected
  <2>6. LineIsReleased'
    BY <1>1, <2>1, ConstantFacts DEF apply_command_projection, SeenAfterRelease, nodeVars,
       linkVars, HubInv, Typed, ReqTyped, ReqState, RestTyped, LineIsReleased, LineIsOff,
       NeverSent, FrameIsMarked, Sending, NodeFollowsFrame, JournalIsProjected,
       WithdrawalIsDecided
  <2>7. TextIsTracked'
    BY <1>1, <2>1, ConstantFacts DEF apply_command_projection, SeenAfterRelease, nodeVars,
       linkVars, HubInv, Typed, ReqTyped, ReqState, RestTyped, TextIsTracked, FrameIsMarked,
       Sending, NodeFollowsFrame, EditIsTracked, Called, Fresh, Confirmed, Arrived
  <2>8. \A x \in Edits : EditIsTracked(x)'
    BY <1>1, <2>1, ConstantFacts DEF apply_command_projection, SeenAfterRelease, nodeVars,
       linkVars, HubInv, Typed, ReqTyped, ReqState, RestTyped, EditIsTracked, Called, Fresh,
       Confirmed, Arrived, FrameIsMarked, Sending, NodeFollowsFrame, TextIsTracked
  <2>9. ReqTyped' /\ NodeFollowsFrame'
    BY <1>1, <2>1 DEF apply_command_projection, nodeVars, linkVars, HubInv, Typed, ReqTyped,
       NodeFollowsFrame
  <2>. QED
    BY <2>2, <2>3, <2>4, <2>5, <2>6, <2>7, <2>8, <2>9 DEF HubInv, Typed
<1>2. CASE journal[mirrored + 1] # "accepted"
  <2>1. /\ journal[mirrored + 1] \in {"completed", "rejected", "cancelled"}
        /\ row' \in Row /\ row'.state = "settled" /\ row'.forwarded = row.forwarded
        /\ row'.text = row.text /\ row'.rev = row.rev
        /\ \/ row' = row /\ seen' = seen
           \/ row.state # "settled" /\ row'.outcome = journal[mirrored + 1] /\ seen' = seen
           \/ row.state # "settled" /\ journal[mirrored + 1] = "cancelled" /\ row'.outcome = "withdrawn"
              /\ ~row'.line
    <3>1. PICK o \in {"completed", "rejected", "cancelled"} : o = journal[mirrored + 1]
      BY <1>2 DEF apply_command_projection, HubInv, Typed, RestTyped
    <3>2. row' = project_settled(row, o) /\ row \in Row
      BY <1>2, <3>1 DEF apply_command_projection, HubInv, Typed
    <3>3. CASE settle_withdraw_intent(row, o)
      BY <3>1, <3>2, <3>3, ProjectedRow DEF settle_withdraw_intent
    <3>4. CASE ~settle_withdraw_intent(row, o)
      <4>1. seen' = seen
        BY <3>1, <3>4 DEF apply_command_projection
      <4>2. CASE row.state = "settled"
        <5>1. row' = row
          BY <3>2, <4>2 DEF project_settled, settle_withdraw_intent
        <5>. QED
          BY <3>1, <3>2, <4>1, <4>2, <5>1
      <4>3. CASE row.state # "settled"
        <5>1. row' = Settle(row, o)
          BY <3>2, <3>4, <4>3 DEF project_settled, settle_withdraw_intent
        <5>. QED
          <6>1. o \in Outcomes
            BY DEF Outcomes
          <6>. QED
            BY <3>1, <3>2, <4>1, <4>3, <5>1, <6>1, SettleRow
      <4>. QED
        BY <4>2, <4>3
    <3>. QED
      BY <3>3, <3>4
  <2>2. row' \in Row
    BY <1>2, <2>1, ConstantFacts DEF apply_command_projection, SeenAfterRelease, nodeVars,
       linkVars, HubInv, Typed, ReqTyped, ReqState, RestTyped
  <2>3. RestTyped'
    <3>1. seen' \in BOOLEAN
      BY DEF apply_command_projection, SeenAfterRelease, HubInv, Typed, RestTyped
    <3>. QED
      BY <3>1 DEF apply_command_projection, hubVars, nodeVars, linkVars, HubInv, Typed, RestTyped
  <2>4. FrameIsMarked' /\ JournalIsProjected'
    BY <1>2, <2>1, ConstantFacts DEF apply_command_projection, SeenAfterRelease, nodeVars,
       linkVars, HubInv, Typed, ReqTyped, ReqState, RestTyped, FrameIsMarked, Sending,
       JournalIsProjected, NodeFollowsFrame
  <2>5. WithdrawalIsDecided' /\ RejectionIsLast'
    BY <1>2, <2>1, ConstantFacts DEF apply_command_projection, SeenAfterRelease, nodeVars,
       linkVars, HubInv, Typed, ReqTyped, ReqState, RestTyped, WithdrawalIsDecided, NeverSent,
       RejectionIsLast, FrameIsMarked, Sending, NodeFollowsFrame, JournalIsProjected
  <2>6. LineIsReleased'
    BY <1>2, <2>1, ConstantFacts DEF apply_command_projection, SeenAfterRelease, nodeVars,
       linkVars, HubInv, Typed, ReqTyped, ReqState, RestTyped, LineIsReleased, LineIsOff,
       NeverSent, FrameIsMarked, Sending, NodeFollowsFrame, JournalIsProjected,
       WithdrawalIsDecided
  <2>7. TextIsTracked'
    BY <1>2, <2>1, ConstantFacts DEF apply_command_projection, SeenAfterRelease, nodeVars,
       linkVars, HubInv, Typed, ReqTyped, ReqState, RestTyped, TextIsTracked, FrameIsMarked,
       Sending, NodeFollowsFrame, EditIsTracked, Called, Fresh, Confirmed, Arrived
  <2>8. \A x \in Edits : EditIsTracked(x)'
    BY <1>2, <2>1, ConstantFacts DEF apply_command_projection, SeenAfterRelease, nodeVars,
       linkVars, HubInv, Typed, ReqTyped, ReqState, RestTyped, EditIsTracked, Called, Fresh,
       Confirmed, Arrived, FrameIsMarked, Sending, NodeFollowsFrame, TextIsTracked
  <2>9. ReqTyped' /\ NodeFollowsFrame'
    BY <1>2, <2>1 DEF apply_command_projection, nodeVars, linkVars, HubInv, Typed, ReqTyped,
       NodeFollowsFrame
  <2>. QED
    BY <2>2, <2>3, <2>4, <2>5, <2>6, <2>7, <2>8, <2>9 DEF HubInv, Typed
<1>. QED
  BY <1>1, <1>2

LEMMA claim_change_lineKeeps ==
    ASSUME HubInv, claim_change_line
    PROVE  HubInv'
<1>1. RestTyped'
  BY ConstantFacts DEF claim_change_line, nodeVars, linkVars, HubInv, Typed, RestTyped
<1>2. LineIsReleased'
  BY ConstantFacts DEF claim_change_line, nodeVars, linkVars, HubInv, Typed, ReqTyped, ReqState,
     RestTyped, LineIsReleased, LineIsOff, NeverSent, FrameIsMarked, Sending, NodeFollowsFrame,
     JournalIsProjected, WithdrawalIsDecided
<1>3. /\ row' \in Row /\ ReqTyped' /\ FrameIsMarked' /\ NodeFollowsFrame'
      /\ JournalIsProjected' /\ WithdrawalIsDecided' /\ RejectionIsLast' /\ TextIsTracked'
      /\ (\A x \in Edits : EditIsTracked(x)')
  BY DEF claim_change_line, nodeVars, linkVars, HubInv, Typed, ReqTyped, FrameIsMarked, Sending,
     NodeFollowsFrame, JournalIsProjected, WithdrawalIsDecided, NeverSent, RejectionIsLast,
     TextIsTracked, EditIsTracked, Called, Fresh, Confirmed, Arrived
<1>. QED
  BY <1>1, <1>2, <1>3 DEF HubInv, Typed

LEMMA NodeAcceptKeeps ==
    ASSUME HubInv, NodeAccept
    PROVE  HubInv'
<1>1. RestTyped'
  BY ConstantFacts DEF NodeAccept, Arrived, Reply, Answers, Delivery!Edit, hubVars, HubInv,
     Typed, RestTyped
<1>2. FrameIsMarked' /\ NodeFollowsFrame' /\ JournalIsProjected'
  BY ConstantFacts DEF NodeAccept, Arrived, Reply, Answers, Delivery!Edit, hubVars, HubInv,
     Typed, ReqTyped, ReqState, RestTyped, FrameIsMarked, Sending, NodeFollowsFrame,
     JournalIsProjected
<1>3. WithdrawalIsDecided' /\ RejectionIsLast'
  BY ConstantFacts DEF NodeAccept, Arrived, Reply, Answers, Delivery!Edit, hubVars, HubInv,
     Typed, ReqTyped, ReqState, RestTyped, WithdrawalIsDecided, NeverSent, RejectionIsLast,
     FrameIsMarked, Sending, NodeFollowsFrame, JournalIsProjected
<1>4. LineIsReleased'
  BY ConstantFacts DEF NodeAccept, Arrived, Reply, Answers, Delivery!Edit, hubVars, HubInv,
     Typed, ReqTyped, ReqState, RestTyped, LineIsReleased, LineIsOff, NeverSent, FrameIsMarked,
     Sending, NodeFollowsFrame, JournalIsProjected, WithdrawalIsDecided
<1>5. TextIsTracked'
  <2>1. text'[Cmd] = row.text /\ nodeRev' = -1 /\ frames = 1 /\ fwd # "ready"
    BY ConstantFacts DEF NodeAccept, Arrived, Delivery!Edit, HubInv, Typed, RestTyped,
       FrameIsMarked, Sending, NodeFollowsFrame, TextIsTracked
  <2>. QED
    BY <2>1 DEF NodeAccept, hubVars, HubInv, Typed, RestTyped, Row, TextIsTracked
<1>6. \A x \in Edits : EditIsTracked(x)'
  BY ConstantFacts DEF NodeAccept, Arrived, Reply, Answers, Delivery!Edit, hubVars, HubInv,
     Typed, ReqTyped, ReqState, RestTyped, EditIsTracked, Called, Fresh, Confirmed,
     FrameIsMarked, Sending, NodeFollowsFrame, TextIsTracked
<1>7. row' \in Row /\ ReqTyped'
  BY DEF NodeAccept, Reply, Delivery!Edit, hubVars, HubInv, Typed, ReqTyped
<1>. QED
  BY <1>1, <1>2, <1>3, <1>4, <1>5, <1>6, <1>7 DEF HubInv, Typed

LEMMA NodeRefuseKeeps ==
    ASSUME HubInv, NodeRefuse
    PROVE  HubInv'
<1>1. RestTyped'
  BY ConstantFacts DEF NodeRefuse, Arrived, Reply, Answers, hubVars, nodeVars, HubInv, Typed,
     RestTyped
<1>2. FrameIsMarked' /\ NodeFollowsFrame'
  BY ConstantFacts DEF NodeRefuse, Arrived, Reply, Answers, hubVars, nodeVars, HubInv, Typed,
     ReqTyped, ReqState, RestTyped, FrameIsMarked, Sending, NodeFollowsFrame
<1>3. WithdrawalIsDecided' /\ RejectionIsLast'
  BY ConstantFacts DEF NodeRefuse, Arrived, Reply, Answers, hubVars, nodeVars, HubInv, Typed,
     ReqTyped, ReqState, RestTyped, WithdrawalIsDecided, NeverSent, RejectionIsLast,
     FrameIsMarked, Sending, NodeFollowsFrame, JournalIsProjected
<1>4. LineIsReleased'
  BY ConstantFacts DEF NodeRefuse, Arrived, Reply, Answers, hubVars, nodeVars, HubInv, Typed,
     ReqTyped, ReqState, RestTyped, LineIsReleased, LineIsOff, NeverSent, FrameIsMarked,
     Sending, NodeFollowsFrame, JournalIsProjected, WithdrawalIsDecided
<1>5. \A x \in Edits : EditIsTracked(x)'
  BY ConstantFacts DEF NodeRefuse, Arrived, Reply, Answers, hubVars, nodeVars, HubInv, Typed,
     ReqTyped, ReqState, RestTyped, EditIsTracked, Called, Fresh, Confirmed, FrameIsMarked,
     Sending, NodeFollowsFrame, TextIsTracked
<1>6. row' \in Row /\ ReqTyped' /\ JournalIsProjected' /\ TextIsTracked'
  BY DEF NodeRefuse, Reply, hubVars, nodeVars, HubInv, Typed, ReqTyped, JournalIsProjected,
     TextIsTracked
<1>. QED
  BY <1>1, <1>2, <1>3, <1>4, <1>5, <1>6 DEF HubInv, Typed

LEMMA NodeRejectsKeeps ==
    ASSUME HubInv, NodeRejects
    PROVE  HubInv'
<1>1. RestTyped'
  BY ConstantFacts DEF NodeRejects, Arrived, Reply, Answers, Delivery!Drop, hubVars, HubInv,
     Typed, RestTyped
<1>2. FrameIsMarked' /\ NodeFollowsFrame' /\ JournalIsProjected'
  BY ConstantFacts DEF NodeRejects, Arrived, Reply, Answers, Delivery!Drop, hubVars, HubInv,
     Typed, ReqTyped, ReqState, RestTyped, FrameIsMarked, Sending, NodeFollowsFrame,
     JournalIsProjected
<1>3. WithdrawalIsDecided' /\ RejectionIsLast'
  BY ConstantFacts DEF NodeRejects, Arrived, Reply, Answers, Delivery!Drop, hubVars, HubInv,
     Typed, ReqTyped, ReqState, RestTyped, WithdrawalIsDecided, NeverSent, RejectionIsLast,
     FrameIsMarked, Sending, NodeFollowsFrame, JournalIsProjected
<1>4. LineIsReleased'
  BY ConstantFacts DEF NodeRejects, Arrived, Reply, Answers, Delivery!Drop, hubVars, HubInv,
     Typed, ReqTyped, ReqState, RestTyped, LineIsReleased, LineIsOff, NeverSent, FrameIsMarked,
     Sending, NodeFollowsFrame, JournalIsProjected, WithdrawalIsDecided
<1>5. TextIsTracked'
  BY ConstantFacts DEF NodeRejects, Arrived, Reply, Answers, Delivery!Drop, hubVars, HubInv,
     Typed, ReqTyped, ReqState, RestTyped, TextIsTracked, FrameIsMarked, Sending,
     NodeFollowsFrame, EditIsTracked, Called, Fresh, Confirmed
<1>6. \A x \in Edits : EditIsTracked(x)'
  BY ConstantFacts DEF NodeRejects, Arrived, Reply, Answers, Delivery!Drop, hubVars, HubInv,
     Typed, ReqTyped, ReqState, RestTyped, EditIsTracked, Called, Fresh, Confirmed,
     FrameIsMarked, Sending, NodeFollowsFrame, TextIsTracked
<1>7. row' \in Row /\ ReqTyped'
  BY DEF NodeRejects, Reply, Delivery!Drop, hubVars, HubInv, Typed, ReqTyped
<1>. QED
  BY <1>1, <1>2, <1>3, <1>4, <1>5, <1>6, <1>7 DEF HubInv, Typed

LEMMA NodeHoldKeeps ==
    ASSUME HubInv, NodeHold
    PROVE  HubInv'
<1>1. RestTyped'
  BY ConstantFacts DEF NodeHold, hubVars, linkVars, HubInv, Typed, RestTyped
<1>2. NodeFollowsFrame'
  BY ConstantFacts DEF NodeHold, hubVars, linkVars, HubInv, Typed, ReqTyped, ReqState,
     RestTyped, NodeFollowsFrame, FrameIsMarked, Sending
<1>3. /\ row' \in Row /\ ReqTyped' /\ FrameIsMarked' /\ JournalIsProjected'
      /\ WithdrawalIsDecided' /\ RejectionIsLast' /\ LineIsReleased' /\ TextIsTracked'
      /\ (\A x \in Edits : EditIsTracked(x)')
  BY DEF NodeHold, hubVars, linkVars, HubInv, Typed, ReqTyped, FrameIsMarked, Sending,
     JournalIsProjected, WithdrawalIsDecided, NeverSent, RejectionIsLast, LineIsReleased,
     LineIsOff, TextIsTracked, EditIsTracked, Called, Fresh, Confirmed, Arrived
<1>. QED
  BY <1>1, <1>2, <1>3 DEF HubInv, Typed

LEMMA NodeWithdrawKeeps ==
    ASSUME HubInv, NEW w \in Withdraws, NodeWithdraw(w)
    PROVE  HubInv'
<1>1. RestTyped'
  BY ConstantFacts DEF NodeWithdraw, Arrived, Reply, Answers, Delivery!Withdraw, hubVars,
     promptVars, HubInv, Typed, RestTyped
<1>2. FrameIsMarked' /\ NodeFollowsFrame' /\ JournalIsProjected'
  BY ConstantFacts DEF NodeWithdraw, Arrived, Reply, Answers, Delivery!Withdraw, hubVars,
     promptVars, HubInv, Typed, ReqTyped, ReqState, RestTyped, FrameIsMarked, Sending,
     NodeFollowsFrame, JournalIsProjected
<1>3. WithdrawalIsDecided' /\ RejectionIsLast'
  BY ConstantFacts DEF NodeWithdraw, Arrived, Reply, Answers, Delivery!Withdraw, hubVars,
     promptVars, HubInv, Typed, ReqTyped, ReqState, RestTyped, WithdrawalIsDecided, NeverSent,
     RejectionIsLast, FrameIsMarked, Sending, NodeFollowsFrame, JournalIsProjected
<1>4. LineIsReleased'
  BY ConstantFacts DEF NodeWithdraw, Arrived, Reply, Answers, Delivery!Withdraw, hubVars,
     promptVars, HubInv, Typed, ReqTyped, ReqState, RestTyped, LineIsReleased, LineIsOff,
     NeverSent, FrameIsMarked, Sending, NodeFollowsFrame, JournalIsProjected,
     WithdrawalIsDecided
<1>5. TextIsTracked'
  BY ConstantFacts DEF NodeWithdraw, Arrived, Reply, Answers, Delivery!Withdraw, hubVars,
     promptVars, HubInv, Typed, ReqTyped, ReqState, RestTyped, TextIsTracked, FrameIsMarked,
     Sending, NodeFollowsFrame, EditIsTracked, Called, Fresh, Confirmed
<1>6. \A x \in Edits : EditIsTracked(x)'
  BY ConstantFacts DEF NodeWithdraw, Arrived, Reply, Answers, Delivery!Withdraw, hubVars,
     promptVars, HubInv, Typed, ReqTyped, ReqState, RestTyped, EditIsTracked, Called, Fresh,
     Confirmed, FrameIsMarked, Sending, NodeFollowsFrame, TextIsTracked
<1>7. row' \in Row /\ ReqTyped'
  BY DEF NodeWithdraw, Reply, Delivery!Withdraw, hubVars, promptVars, HubInv, Typed, ReqTyped
<1>. QED
  BY <1>1, <1>2, <1>3, <1>4, <1>5, <1>6, <1>7 DEF HubInv, Typed

LEMMA NodeEditKeeps ==
    ASSUME HubInv, NEW e \in Edits, NodeEdit(e)
    PROVE  HubInv'
<1>1. CASE entry = "held" /\ fate[Cmd] = "open" /\ nodeRev \in {-1, req[e].exp}
  <2>1. /\ req[e].pc \in {"waiting", "lost"} /\ frames = 1 /\ nodeRow # "absent"
        /\ req[e].exp = row.rev /\ nodeRev \in {-1, row.rev} /\ row.rev + 1 \in 0..MaxRev
        /\ text' \in [{Cmd} -> Texts] /\ text'[Cmd] = e /\ nodeRev' = row.rev + 1
        /\ wire' \in [Calls -> Answers \cup {"none", "out", "orphan", "over"}]
        /\ \A c \in Calls : c # e => wire'[c] = wire[c]
        /\ wire'[e] \in {"edited", "over"}
    <3>1. /\ req[e].pc \in {"waiting", "lost"} /\ frames = 1 /\ nodeRow # "absent"
          /\ req[e].exp <= row.rev /\ (nodeRev = -1 => req[e].exp = row.rev)
          /\ req[e].exp + 1 \in 0..MaxRev
      BY <1>1, ConstantFacts DEF NodeEdit, HubInv, Typed, ReqTyped, ReqState, NodeFollowsFrame,
         EditIsTracked, Called, Arrived
    <3>2. nodeRev \in {-1, row.rev} /\ req[e].exp = row.rev
      BY <1>1, <3>1, ConstantFacts DEF HubInv, Typed, Row, ReqTyped, ReqState, TextIsTracked
    <3>3. /\ text' = [text EXCEPT ![Cmd] = e] /\ nodeRev' = req[e].exp + 1
          /\ wire' = [wire EXCEPT ![e] = IF @ = "out" THEN "edited" ELSE "over"]
      BY <1>1 DEF NodeEdit, Reply, Delivery!Edit
    <3>4. text' \in [{Cmd} -> Texts] /\ text'[Cmd] = e
      BY <3>3, ConstantFacts DEF HubInv, Typed, RestTyped
    <3>5. /\ wire' \in [Calls -> Answers \cup {"none", "out", "orphan", "over"}]
          /\ \A c \in Calls : c # e => wire'[c] = wire[c]
          /\ wire'[e] \in {"edited", "over"}
      BY <3>3, ConstantFacts DEF Answers, HubInv, Typed, RestTyped
    <3>. QED
      BY <3>1, <3>2, <3>3, <3>4, <3>5
  <2>2. RestTyped'
    <3>1. nodeRev' \in -1..MaxRev
      BY <2>1, ConstantFacts DEF HubInv, Typed, Row
    <3>2. nodeLine' \in BOOLEAN /\ fate' = fate /\ output' = output
      BY <1>1 DEF NodeEdit, Delivery!Edit
    <3>. QED
      BY <2>1, <3>1, <3>2 DEF NodeEdit, Reply, hubVars, HubInv, Typed, RestTyped
  <2>3. FrameIsMarked' /\ NodeFollowsFrame'
    BY <1>1, <2>1, ConstantFacts DEF NodeEdit, Arrived, Reply, Answers, Delivery!Edit, hubVars,
       promptVars, HubInv, Typed, ReqTyped, ReqState, RestTyped, FrameIsMarked, Sending,
       NodeFollowsFrame
  <2>4. WithdrawalIsDecided' /\ RejectionIsLast'
    BY <1>1, <2>1, ConstantFacts DEF NodeEdit, Arrived, Reply, Answers, Delivery!Edit, hubVars,
       promptVars, HubInv, Typed, ReqTyped, ReqState, RestTyped, WithdrawalIsDecided, NeverSent,
       RejectionIsLast, FrameIsMarked, Sending, NodeFollowsFrame, JournalIsProjected
  <2>5. LineIsReleased'
    BY <1>1, <2>1, ConstantFacts DEF NodeEdit, Arrived, Reply, Answers, Delivery!Edit, hubVars,
       promptVars, HubInv, Typed, ReqTyped, ReqState, RestTyped, LineIsReleased, LineIsOff,
       NeverSent, FrameIsMarked, Sending, NodeFollowsFrame, JournalIsProjected,
       WithdrawalIsDecided
  <2>6. TextIsTracked'
    BY <1>1, <2>1, ConstantFacts DEF NodeEdit, Arrived, Reply, Answers, Delivery!Edit, hubVars,
       promptVars, HubInv, Typed, ReqTyped, ReqState, RestTyped, TextIsTracked, FrameIsMarked,
       Sending, NodeFollowsFrame, EditIsTracked, Called, Fresh, Confirmed
  <2>7. \A x \in Edits : EditIsTracked(x)'
    BY <1>1, <2>1, ConstantFacts DEF NodeEdit, Arrived, Reply, Answers, Delivery!Edit, hubVars,
       promptVars, HubInv, Typed, ReqTyped, ReqState, RestTyped, EditIsTracked, Called, Fresh,
       Confirmed, FrameIsMarked, Sending, NodeFollowsFrame, TextIsTracked
  <2>8. row' \in Row /\ ReqTyped' /\ JournalIsProjected'
    BY <1>1, <2>1 DEF NodeEdit, Reply, Delivery!Edit, hubVars, promptVars, HubInv, Typed,
       ReqTyped, JournalIsProjected
  <2>. QED
    BY <2>2, <2>3, <2>4, <2>5, <2>6, <2>7, <2>8 DEF HubInv, Typed
<1>2. CASE ~(entry = "held" /\ fate[Cmd] = "open" /\ nodeRev \in {-1, req[e].exp})
  <2>1. /\ text' = text /\ fate' = fate /\ output' = output
        /\ nodeRev' = nodeRev /\ nodeLine' = nodeLine
        /\ wire' \in [Calls -> Answers \cup {"none", "out", "orphan", "over"}]
        /\ \A c \in Calls : c # e => wire'[c] = wire[c]
        /\ wire'[e] \in {"conflict", "delivered", "over"}
    BY <1>2, ConstantFacts DEF NodeEdit, Reply, Answers, promptVars, HubInv, Typed, RestTyped
  <2>2. RestTyped'
    BY <1>2, <2>1, ConstantFacts DEF NodeEdit, Arrived, Reply, Answers, Delivery!Edit, hubVars,
       promptVars, HubInv, Typed, RestTyped
  <2>3. FrameIsMarked' /\ NodeFollowsFrame'
    BY <1>2, <2>1, ConstantFacts DEF NodeEdit, Arrived, Reply, Answers, Delivery!Edit, hubVars,
       promptVars, HubInv, Typed, ReqTyped, ReqState, RestTyped, FrameIsMarked, Sending,
       NodeFollowsFrame
  <2>4. WithdrawalIsDecided' /\ RejectionIsLast'
    BY <1>2, <2>1, ConstantFacts DEF NodeEdit, Arrived, Reply, Answers, Delivery!Edit, hubVars,
       promptVars, HubInv, Typed, ReqTyped, ReqState, RestTyped, WithdrawalIsDecided, NeverSent,
       RejectionIsLast, FrameIsMarked, Sending, NodeFollowsFrame, JournalIsProjected
  <2>5. LineIsReleased'
    BY <1>2, <2>1, ConstantFacts DEF NodeEdit, Arrived, Reply, Answers, Delivery!Edit, hubVars,
       promptVars, HubInv, Typed, ReqTyped, ReqState, RestTyped, LineIsReleased, LineIsOff,
       NeverSent, FrameIsMarked, Sending, NodeFollowsFrame, JournalIsProjected,
       WithdrawalIsDecided
  <2>6. TextIsTracked'
    BY <1>2, <2>1, ConstantFacts DEF NodeEdit, Arrived, Reply, Answers, Delivery!Edit, hubVars,
       promptVars, HubInv, Typed, ReqTyped, ReqState, RestTyped, TextIsTracked, FrameIsMarked,
       Sending, NodeFollowsFrame, EditIsTracked, Called, Fresh, Confirmed
  <2>7. \A x \in Edits : EditIsTracked(x)'
    BY <1>2, <2>1, ConstantFacts DEF NodeEdit, Arrived, Reply, Answers, Delivery!Edit, hubVars,
       promptVars, HubInv, Typed, ReqTyped, ReqState, RestTyped, EditIsTracked, Called, Fresh,
       Confirmed, FrameIsMarked, Sending, NodeFollowsFrame, TextIsTracked
  <2>8. row' \in Row /\ ReqTyped' /\ JournalIsProjected'
    BY <1>2, <2>1 DEF NodeEdit, Reply, Delivery!Edit, hubVars, promptVars, HubInv, Typed,
       ReqTyped, JournalIsProjected
  <2>. QED
    BY <2>2, <2>3, <2>4, <2>5, <2>6, <2>7, <2>8 DEF HubInv, Typed
<1>. QED
  BY <1>1, <1>2

LEMMA NodeClaimKeeps ==
    ASSUME HubInv, NodeClaim
    PROVE  HubInv'
<1>1. RestTyped'
  BY ConstantFacts DEF NodeClaim, Delivery!Claim, Delivery!Unclaim, hubVars, linkVars, HubInv,
     Typed, RestTyped
<1>2. NodeFollowsFrame' /\ JournalIsProjected'
  BY ConstantFacts DEF NodeClaim, Delivery!Claim, Delivery!Unclaim, hubVars, linkVars, HubInv,
     Typed, ReqTyped, ReqState, RestTyped, NodeFollowsFrame, JournalIsProjected, FrameIsMarked,
     Sending
<1>3. WithdrawalIsDecided'
  BY ConstantFacts DEF NodeClaim, Delivery!Claim, Delivery!Unclaim, hubVars, linkVars, HubInv,
     Typed, ReqTyped, ReqState, RestTyped, WithdrawalIsDecided, NeverSent, FrameIsMarked,
     Sending, NodeFollowsFrame, JournalIsProjected
<1>4. LineIsReleased'
  BY ConstantFacts DEF NodeClaim, Delivery!Claim, Delivery!Unclaim, hubVars, linkVars, HubInv,
     Typed, ReqTyped, ReqState, RestTyped, LineIsReleased, LineIsOff, NeverSent, FrameIsMarked,
     Sending, NodeFollowsFrame, JournalIsProjected, WithdrawalIsDecided
<1>5. TextIsTracked'
  BY ConstantFacts DEF NodeClaim, Delivery!Claim, Delivery!Unclaim, hubVars, linkVars, HubInv,
     Typed, ReqTyped, ReqState, RestTyped, TextIsTracked, FrameIsMarked, Sending,
     NodeFollowsFrame, EditIsTracked, Called, Fresh, Confirmed, Arrived
<1>6. /\ row' \in Row /\ ReqTyped' /\ FrameIsMarked' /\ RejectionIsLast'
      /\ (\A x \in Edits : EditIsTracked(x)')
  BY DEF NodeClaim, Delivery!Claim, Delivery!Unclaim, hubVars, linkVars, HubInv, Typed,
     ReqTyped, FrameIsMarked, Sending, RejectionIsLast, EditIsTracked, Called, Fresh, Confirmed,
     Arrived
<1>. QED
  BY <1>1, <1>2, <1>3, <1>4, <1>5, <1>6 DEF HubInv, Typed

LEMMA NodeWriteKeeps ==
    ASSUME HubInv, NodeWrite
    PROVE  HubInv'
<1>1. RestTyped'
  BY ConstantFacts DEF NodeWrite, Delivery!Write, hubVars, linkVars, HubInv, Typed, RestTyped
<1>2. NodeFollowsFrame' /\ JournalIsProjected'
  BY ConstantFacts DEF NodeWrite, Delivery!Write, hubVars, linkVars, HubInv, Typed, ReqTyped,
     ReqState, RestTyped, NodeFollowsFrame, JournalIsProjected, FrameIsMarked, Sending
<1>3. WithdrawalIsDecided'
  BY ConstantFacts DEF NodeWrite, Delivery!Write, hubVars, linkVars, HubInv, Typed, ReqTyped,
     ReqState, RestTyped, WithdrawalIsDecided, NeverSent, FrameIsMarked, Sending,
     NodeFollowsFrame, JournalIsProjected
<1>4. LineIsReleased'
  BY ConstantFacts DEF NodeWrite, Delivery!Write, hubVars, linkVars, HubInv, Typed, ReqTyped,
     ReqState, RestTyped, LineIsReleased, LineIsOff, NeverSent, FrameIsMarked, Sending,
     NodeFollowsFrame, JournalIsProjected, WithdrawalIsDecided
<1>5. TextIsTracked'
  BY ConstantFacts DEF NodeWrite, Delivery!Write, hubVars, linkVars, HubInv, Typed, ReqTyped,
     ReqState, RestTyped, TextIsTracked, FrameIsMarked, Sending, NodeFollowsFrame,
     EditIsTracked, Called, Fresh, Confirmed, Arrived
<1>6. /\ row' \in Row /\ ReqTyped' /\ FrameIsMarked' /\ RejectionIsLast'
      /\ (\A x \in Edits : EditIsTracked(x)')
  BY DEF NodeWrite, Delivery!Write, hubVars, linkVars, HubInv, Typed, ReqTyped, FrameIsMarked,
     Sending, RejectionIsLast, EditIsTracked, Called, Fresh, Confirmed, Arrived
<1>. QED
  BY <1>1, <1>2, <1>3, <1>4, <1>5, <1>6 DEF HubInv, Typed

LEMMA NodeDropKeeps ==
    ASSUME HubInv, NodeDrop
    PROVE  HubInv'
<1>1. RestTyped'
  BY ConstantFacts DEF NodeDrop, Delivery!Drop, hubVars, linkVars, HubInv, Typed, RestTyped
<1>2. NodeFollowsFrame' /\ JournalIsProjected'
  BY ConstantFacts DEF NodeDrop, Delivery!Drop, hubVars, linkVars, HubInv, Typed, ReqTyped,
     ReqState, RestTyped, NodeFollowsFrame, JournalIsProjected, FrameIsMarked, Sending
<1>3. WithdrawalIsDecided'
  BY ConstantFacts DEF NodeDrop, Delivery!Drop, hubVars, linkVars, HubInv, Typed, ReqTyped,
     ReqState, RestTyped, WithdrawalIsDecided, NeverSent, FrameIsMarked, Sending,
     NodeFollowsFrame, JournalIsProjected
<1>4. LineIsReleased'
  BY ConstantFacts DEF NodeDrop, Delivery!Drop, hubVars, linkVars, HubInv, Typed, ReqTyped,
     ReqState, RestTyped, LineIsReleased, LineIsOff, NeverSent, FrameIsMarked, Sending,
     NodeFollowsFrame, JournalIsProjected, WithdrawalIsDecided
<1>5. TextIsTracked'
  BY ConstantFacts DEF NodeDrop, Delivery!Drop, hubVars, linkVars, HubInv, Typed, ReqTyped,
     ReqState, RestTyped, TextIsTracked, FrameIsMarked, Sending, NodeFollowsFrame,
     EditIsTracked, Called, Fresh, Confirmed, Arrived
<1>6. /\ row' \in Row /\ ReqTyped' /\ FrameIsMarked' /\ RejectionIsLast'
      /\ (\A x \in Edits : EditIsTracked(x)')
  BY DEF NodeDrop, Delivery!Drop, hubVars, linkVars, HubInv, Typed, ReqTyped, FrameIsMarked,
     Sending, RejectionIsLast, EditIsTracked, Called, Fresh, Confirmed, Arrived
<1>. QED
  BY <1>1, <1>2, <1>3, <1>4, <1>5, <1>6 DEF HubInv, Typed

LEMMA NodeSettleKeeps ==
    ASSUME HubInv, NEW o \in {"completed", "rejected", "cancelled"}, NodeSettle(o)
    PROVE  HubInv'
<1>1. RestTyped'
  BY ConstantFacts DEF NodeSettle, hubVars, promptVars, linkVars, HubInv, Typed, RestTyped
<1>2. NodeFollowsFrame' /\ JournalIsProjected'
  BY ConstantFacts DEF NodeSettle, hubVars, promptVars, linkVars, HubInv, Typed, ReqTyped,
     ReqState, RestTyped, NodeFollowsFrame, JournalIsProjected, FrameIsMarked, Sending
<1>3. RejectionIsLast'
  BY ConstantFacts DEF NodeSettle, hubVars, promptVars, linkVars, HubInv, Typed, ReqTyped,
     ReqState, RestTyped, RejectionIsLast, FrameIsMarked, Sending, NodeFollowsFrame,
     JournalIsProjected
<1>4. LineIsReleased'
  BY ConstantFacts DEF NodeSettle, hubVars, promptVars, linkVars, HubInv, Typed, ReqTyped,
     ReqState, RestTyped, LineIsReleased, LineIsOff, NeverSent, FrameIsMarked, Sending,
     NodeFollowsFrame, JournalIsProjected, WithdrawalIsDecided
<1>5. TextIsTracked'
  BY ConstantFacts DEF NodeSettle, hubVars, promptVars, linkVars, HubInv, Typed, ReqTyped,
     ReqState, RestTyped, TextIsTracked, FrameIsMarked, Sending, NodeFollowsFrame,
     EditIsTracked, Called, Fresh, Confirmed, Arrived
<1>6. \A x \in Edits : EditIsTracked(x)'
  BY ConstantFacts DEF NodeSettle, hubVars, promptVars, linkVars, HubInv, Typed, ReqTyped,
     ReqState, RestTyped, EditIsTracked, Called, Fresh, Confirmed, Arrived, FrameIsMarked,
     Sending, NodeFollowsFrame, TextIsTracked
<1>7. row' \in Row /\ ReqTyped' /\ FrameIsMarked' /\ WithdrawalIsDecided'
  BY DEF NodeSettle, hubVars, promptVars, linkVars, HubInv, Typed, ReqTyped, FrameIsMarked,
     Sending, WithdrawalIsDecided, NeverSent
<1>. QED
  BY <1>1, <1>2, <1>3, <1>4, <1>5, <1>6, <1>7 DEF HubInv, Typed

LEMMA ConnectKeeps ==
    ASSUME HubInv, Connect
    PROVE  HubInv'
<1>1. RestTyped'
  BY ConstantFacts DEF Connect, hubVars, nodeVars, HubInv, Typed, RestTyped
<1>2. /\ row' \in Row /\ ReqTyped' /\ FrameIsMarked' /\ NodeFollowsFrame'
      /\ JournalIsProjected' /\ WithdrawalIsDecided' /\ RejectionIsLast' /\ LineIsReleased'
      /\ TextIsTracked' /\ (\A x \in Edits : EditIsTracked(x)')
  BY DEF Connect, hubVars, nodeVars, HubInv, Typed, ReqTyped, FrameIsMarked, Sending,
     NodeFollowsFrame, JournalIsProjected, WithdrawalIsDecided, NeverSent, RejectionIsLast,
     LineIsReleased, LineIsOff, TextIsTracked, EditIsTracked, Called, Fresh, Confirmed, Arrived
<1>. QED
  BY <1>1, <1>2 DEF HubInv, Typed

LEMMA DisconnectKeeps ==
    ASSUME HubInv, NEW S \in SUBSET Calls, Disconnect(S)
    PROVE  HubInv'
<1>1. RestTyped'
  <2>1. wire' \in [Calls -> Answers \cup {"none", "out", "orphan", "over"}]
    BY DEF Disconnect, Torn
  <2>2. up' \in BOOLEAN
    BY DEF Disconnect, Torn
  <2>3. failures' \in Nat
    BY DEF Disconnect, Fails, HubInv, Typed, RestTyped
  <2>. QED
    BY <2>1, <2>2, <2>3 DEF Disconnect, hubVars, nodeVars, HubInv, Typed, RestTyped
<1>2. FrameIsMarked' /\ NodeFollowsFrame'
  BY ConstantFacts DEF Disconnect, Fails, Torn, Answers, hubVars, nodeVars, HubInv, Typed,
     ReqTyped, ReqState, RestTyped, FrameIsMarked, Sending, NodeFollowsFrame
<1>3. WithdrawalIsDecided' /\ RejectionIsLast'
  BY ConstantFacts DEF Disconnect, Fails, Torn, Answers, hubVars, nodeVars, HubInv, Typed,
     ReqTyped, ReqState, RestTyped, WithdrawalIsDecided, NeverSent, RejectionIsLast,
     FrameIsMarked, Sending, NodeFollowsFrame, JournalIsProjected
<1>4. LineIsReleased'
  BY ConstantFacts DEF Disconnect, Fails, Torn, Answers, hubVars, nodeVars, HubInv, Typed,
     ReqTyped, ReqState, RestTyped, LineIsReleased, LineIsOff, NeverSent, FrameIsMarked,
     Sending, NodeFollowsFrame, JournalIsProjected, WithdrawalIsDecided
<1>5. \A x \in Edits : EditIsTracked(x)'
  BY ConstantFacts DEF Disconnect, Fails, Torn, Answers, hubVars, nodeVars, HubInv, Typed,
     ReqTyped, ReqState, RestTyped, EditIsTracked, Called, Fresh, Confirmed, Arrived,
     FrameIsMarked, Sending, NodeFollowsFrame, TextIsTracked
<1>6. row' \in Row /\ ReqTyped' /\ JournalIsProjected' /\ TextIsTracked'
  BY DEF Disconnect, hubVars, nodeVars, HubInv, Typed, ReqTyped, JournalIsProjected,
     TextIsTracked
<1>. QED
  BY <1>1, <1>2, <1>3, <1>4, <1>5, <1>6 DEF HubInv, Typed

LEMMA HubRestartKeeps ==
    ASSUME HubInv, NEW S \in SUBSET Calls, HubRestart(S)
    PROVE  HubInv'
<1>1. ReqTyped'
  <2>1. \A r \in Reqs : req'[r] \in ReqState /\ req'[r].exp = req[r].exp
    BY DEF HubRestart, HubInv, Typed, ReqTyped, ReqState
  <2>2. \A e \in Edits : req'[e].pc # "idle" => req[e].pc # "idle"
    BY ConstantFacts DEF HubRestart, HubInv, Typed, ReqTyped, ReqState
  <2>3. req' \in [Reqs -> ReqState]
    BY <2>1 DEF HubRestart
  <2>. QED
    BY <2>1, <2>2, <2>3, ConstantFacts DEF HubInv, Typed, ReqTyped
<1>2. RestTyped'
  <2>1. wire' \in [Calls -> Answers \cup {"none", "out", "orphan", "over"}]
    BY DEF HubRestart, Torn
  <2>2. up' \in BOOLEAN
    BY DEF HubRestart, Torn
  <2>3. failures' \in Nat
    BY DEF HubRestart, Fails, HubInv, Typed, RestTyped
  <2>. QED
    BY <2>1, <2>2, <2>3 DEF HubRestart, nodeVars, HubInv, Typed, RestTyped
<1>3. FrameIsMarked' /\ NodeFollowsFrame'
  BY ConstantFacts DEF HubRestart, Fails, Torn, Answers, nodeVars, HubInv, Typed, ReqTyped,
     ReqState, RestTyped, FrameIsMarked, Sending, NodeFollowsFrame
<1>4. WithdrawalIsDecided' /\ RejectionIsLast'
  BY ConstantFacts DEF HubRestart, Fails, Torn, Answers, nodeVars, HubInv, Typed, ReqTyped,
     ReqState, RestTyped, WithdrawalIsDecided, NeverSent, RejectionIsLast, FrameIsMarked,
     Sending, NodeFollowsFrame, JournalIsProjected
<1>5. LineIsReleased'
  BY ConstantFacts DEF HubRestart, Fails, Torn, Answers, nodeVars, HubInv, Typed, ReqTyped,
     ReqState, RestTyped, LineIsReleased, LineIsOff, NeverSent, FrameIsMarked, Sending,
     NodeFollowsFrame, JournalIsProjected, WithdrawalIsDecided
<1>6. TextIsTracked'
  BY ConstantFacts DEF HubRestart, Fails, Torn, Answers, nodeVars, HubInv, Typed, ReqTyped,
     ReqState, RestTyped, TextIsTracked, FrameIsMarked, Sending, NodeFollowsFrame,
     EditIsTracked, Called, Fresh, Confirmed, Arrived
<1>7. \A x \in Edits : EditIsTracked(x)'
  BY ConstantFacts DEF HubRestart, Fails, Torn, Answers, nodeVars, HubInv, Typed, ReqTyped,
     ReqState, RestTyped, EditIsTracked, Called, Fresh, Confirmed, Arrived, FrameIsMarked,
     Sending, NodeFollowsFrame, TextIsTracked
<1>8. row' \in Row /\ JournalIsProjected'
  BY DEF HubRestart, nodeVars, HubInv, Typed, JournalIsProjected
<1>. QED
  BY <1>1, <1>2, <1>3, <1>4, <1>5, <1>6, <1>7, <1>8 DEF HubInv, Typed

LEMMA NodeRestartKeeps ==
    ASSUME HubInv, NodeRestart
    PROVE  HubInv'
<1>1. RestTyped'
  <2>1. wire' \in [Calls -> Answers \cup {"none", "out", "orphan", "over"}]
    BY DEF NodeRestart
  <2>2. fate' \in [{Cmd} -> {"open", "claimed", "withdrawn", "written", "dropped"}]
        /\ text' = text /\ output' = output
    BY DEF NodeRestart, Delivery!Drop, promptVars, HubInv, Typed, RestTyped
  <2>3. up' \in BOOLEAN
    BY DEF NodeRestart
  <2>4. /\ failures' \in Nat /\ entry' \in {"none", "held", "gone"}
        /\ nodeRow' \in {"absent", "accepted", "settled", "lost"}
    BY DEF NodeRestart, Fails, HubInv, Typed, RestTyped
  <2>. QED
    BY <2>1, <2>2, <2>3, <2>4 DEF NodeRestart, hubVars, HubInv, Typed, RestTyped
<1>2. FrameIsMarked' /\ NodeFollowsFrame' /\ JournalIsProjected'
  BY ConstantFacts DEF NodeRestart, Fails, Answers, Delivery!Drop, hubVars, promptVars, HubInv,
     Typed, ReqTyped, ReqState, RestTyped, FrameIsMarked, Sending, NodeFollowsFrame,
     JournalIsProjected
<1>3. WithdrawalIsDecided' /\ RejectionIsLast'
  BY ConstantFacts DEF NodeRestart, Fails, Answers, Delivery!Drop, hubVars, promptVars, HubInv,
     Typed, ReqTyped, ReqState, RestTyped, WithdrawalIsDecided, NeverSent, RejectionIsLast,
     FrameIsMarked, Sending, NodeFollowsFrame, JournalIsProjected
<1>4. LineIsReleased'
  BY ConstantFacts DEF NodeRestart, Fails, Answers, Delivery!Drop, hubVars, promptVars, HubInv,
     Typed, ReqTyped, ReqState, RestTyped, LineIsReleased, LineIsOff, NeverSent, FrameIsMarked,
     Sending, NodeFollowsFrame, JournalIsProjected, WithdrawalIsDecided
<1>5. TextIsTracked'
  BY ConstantFacts DEF NodeRestart, Fails, Answers, Delivery!Drop, hubVars, promptVars, HubInv,
     Typed, ReqTyped, ReqState, RestTyped, TextIsTracked, FrameIsMarked, Sending,
     NodeFollowsFrame, EditIsTracked, Called, Fresh, Confirmed, Arrived
<1>6. \A x \in Edits : EditIsTracked(x)'
  BY ConstantFacts DEF NodeRestart, Fails, Answers, Delivery!Drop, hubVars, promptVars, HubInv,
     Typed, ReqTyped, ReqState, RestTyped, EditIsTracked, Called, Fresh, Confirmed, Arrived,
     FrameIsMarked, Sending, NodeFollowsFrame, TextIsTracked
<1>7. row' \in Row /\ ReqTyped'
  BY DEF NodeRestart, Delivery!Drop, hubVars, promptVars, HubInv, Typed, ReqTyped
<1>. QED
  BY <1>1, <1>2, <1>3, <1>4, <1>5, <1>6, <1>7 DEF HubInv, Typed
-----------------------------------------------------------------------------
(* The invariant, and the properties it carries.                           *)

LEMMA InitHub == Init => HubInv
<1>. SUFFICES ASSUME Init PROVE HubInv
  OBVIOUS
<1>. USE ConstantFacts DEF Init, Delivery!Init
<1>1. row \in Row
  <2>1. PICK b \in BOOLEAN :
          row = [state |-> "queued", forwarded |-> FALSE, resolution |-> "clear",
                 outcome |-> "none", text |-> Original, rev |-> 0,
                 original |-> NoText, intent |-> NoReq, by |-> NoReq, line |-> b]
    OBVIOUS
  <2>. QED
    BY <2>1 DEF Row
<1>2. ReqTyped
  BY DEF ReqTyped, ReqState
<1>3. RestTyped
  <2>1. fate \in [{Cmd} -> {"open", "claimed", "withdrawn", "written", "dropped"}]
    OBVIOUS
  <2>2. text \in [{Cmd} -> Texts] /\ output \in [{Cmd} -> Texts \cup {NoText}]
    OBVIOUS
  <2>3. /\ journal \in Seq({"accepted", "completed", "rejected", "cancelled"})
        /\ mirrored \in 0..Len(journal) /\ nodeRev \in -1..MaxRev
    OBVIOUS
  <2>4. /\ seen \in BOOLEAN /\ up \in BOOLEAN /\ nodeLine \in BOOLEAN /\ outLine \in BOOLEAN
        /\ carried \in BOOLEAN
    OBVIOUS
  <2>5. frame \in [text : Texts, line : BOOLEAN]
    OBVIOUS
  <2>6. wire \in [Calls -> Answers \cup {"none", "out", "orphan", "over"}]
    OBVIOUS
  <2>. QED
    BY <2>1, <2>2, <2>3, <2>4, <2>5, <2>6 DEF RestTyped
<1>4. FrameIsMarked /\ NodeFollowsFrame /\ JournalIsProjected
  BY DEF FrameIsMarked, NodeFollowsFrame, JournalIsProjected, Sending
<1>5. WithdrawalIsDecided /\ RejectionIsLast /\ LineIsReleased
  BY DEF WithdrawalIsDecided, RejectionIsLast, LineIsReleased, LineIsOff, NeverSent
<1>6. TextIsTracked
  BY DEF TextIsTracked
<1>7. \A e \in Edits : EditIsTracked(e)
  BY DEF EditIsTracked, Called, Fresh, Confirmed, Arrived
<1>. QED
  BY <1>1, <1>2, <1>3, <1>4, <1>5, <1>6, <1>7 DEF HubInv, Typed

LEMMA StutterKeeps ==
    ASSUME HubInv, UNCHANGED vars
    PROVE  HubInv'
BY DEF vars, hubVars, nodeVars, linkVars, HubInv, Typed, ReqTyped, RestTyped, FrameIsMarked,
   NodeFollowsFrame, JournalIsProjected, WithdrawalIsDecided, NeverSent, RejectionIsLast,
   LineIsReleased, LineIsOff, TextIsTracked, EditIsTracked, Called, Fresh, Confirmed, Arrived

LEMMA NextKeeps ==
    ASSUME HubInv, [Next]_vars
    PROVE  HubInv'
<1>1. CASE ForwardStep
  BY <1>1, acquire_forward_leaderKeeps, ForwardHeldKeeps, mark_forward_intentKeeps,
     ForwardReadKeeps, ForwardSendKeeps, ForwardUnsentKeeps, release_intentKeeps,
     ForwardBusyKeeps, ForwardAnsweredKeeps, ForwardLostKeeps DEF ForwardStep
<1>2. CASE \E e \in Edits : EditStep(e)
  BY <1>2, edit_commandKeeps, edit_queuedKeeps, EditAnsweredKeeps, record_node_editKeeps DEF
     EditStep
<1>3. CASE \E w \in Withdraws : WithdrawStep(w)
  BY <1>3, withdraw_commandKeeps, withdraw_queuedKeeps, mark_withdraw_intentKeeps,
     WithdrawAnsweredKeeps, clear_withdraw_intentKeeps, record_node_withdrawKeeps DEF
     WithdrawStep
<1>4. CASE \E r \in Reqs : CallStep(r)
  BY <1>4, CallNodeKeeps, CallUnsentKeeps, CallLostKeeps DEF CallStep
<1>5. CASE apply_command_projection \/ claim_change_line
  BY <1>5, apply_command_projectionKeeps, claim_change_lineKeeps
<1>6. CASE NodeStep
  BY <1>6, NodeAcceptKeeps, NodeRefuseKeeps, NodeRejectsKeeps, NodeHoldKeeps, NodeWithdrawKeeps,
     NodeEditKeeps, NodeClaimKeeps, NodeWriteKeeps, NodeDropKeeps, NodeSettleKeeps DEF NodeStep
<1>7. CASE Connect \/ NodeRestart
  BY <1>7, ConnectKeeps, NodeRestartKeeps
<1>8. CASE \E S \in SUBSET {r \in Calls : wire[r] = "out"} : Disconnect(S) \/ HubRestart(S)
  BY <1>8, DisconnectKeeps, HubRestartKeeps
<1>9. CASE UNCHANGED vars
  BY <1>9, StutterKeeps
<1>. QED
  BY <1>1, <1>2, <1>3, <1>4, <1>5, <1>6, <1>7, <1>8, <1>9 DEF Next

(* The inductive invariant holds of every behaviour.                       *)
THEOREM HubInvariant == Spec => []HubInv
BY InitHub, NextKeeps, PTL DEF Spec

(* The variables keep their types.                                         *)
THEOREM HubTypeCorrect == Spec => []TypeOK
<1>1. HubInv => TypeOK
  BY DEF HubInv, Typed, ReqTyped, ReqState, RestTyped, TypeOK
<1>. QED
  BY <1>1, HubInvariant, PTL

(* A command leaves the Hub at most once, for any number of lost replies,  *)
(* reconnects and restarts (forward_if_online, mark_forward_intent).       *)
THEOREM ForwardsOnce == Spec => []ForwardedOnce
<1>1. HubInv => ForwardedOnce
  BY DEF HubInv, FrameIsMarked, ForwardedOnce
<1>. QED
  BY <1>1, HubInvariant, PTL

(* A command whose withdrawal was answered, or whose row says withdrawn,   *)
(* is never written to the harness, for any number of withdrawals racing   *)
(* edits, the forward and the queue's worker (withdraw_command,            *)
(* withdraw_on_node, HeldInputs::withdraw).                                *)
THEOREM WithdrawnIsNeverWritten == Spec => []WithdrawnStaysUnwritten
<1>1. HubInv => WithdrawnStaysUnwritten
  BY DEF HubInv, FrameIsMarked, NodeFollowsFrame, WithdrawalIsDecided, NeverSent, WithdrawnStaysUnwritten
<1>. QED
  BY <1>1, HubInvariant, PTL

(* The harness receives the text of the Hub's row, or that of an edit the  *)
(* Node applied and the Hub has no answer to, for any number of edits      *)
(* (edit_queued, record_node_edit, HeldInputs::edit).                      *)
THEOREM RowTextReachesHarness == Spec => []RowTextIsWritten
<1>1. HubInv => RowTextIsWritten
  BY DEF HubInv, Typed, Row, RestTyped, NodeFollowsFrame, TextIsTracked, RowTextIsWritten
<1>. QED
  BY <1>1, HubInvariant, PTL

(* A rejection the Hub decided without the Node's journal is of a command  *)
(* the Node never records (reject_command).                                *)
THEOREM RejectsTruthfully == Spec => []HubRejectionIsTrue
<1>1. HubInv => HubRejectionIsTrue
  BY DEF HubInv, NodeFollowsFrame, RejectionIsLast, HubRejectionIsTrue
<1>. QED
  BY <1>1, HubInvariant, PTL

(* The memory line reaches the harness with this command or with a later   *)
(* input, never with both (release_memory_line, claim_change_line).        *)
THEOREM LineRides == Spec => []LineRidesOnce
<1>1. HubInv => LineRidesOnce
  BY DEF HubInv, LineIsReleased, LineRidesOnce
<1>. QED
  BY <1>1, HubInvariant, PTL

(* When the Node's journal is projected, what the Node settled is settled  *)
(* at the Hub (apply_command_projection).                                  *)
THEOREM RowConverges == Spec => []JournalConverges
<1>1. HubInv => JournalConverges
  BY DEF HubInv, Typed, RestTyped, JournalIsProjected, JournalConverges
<1>. QED
  BY <1>1, HubInvariant, PTL
-----------------------------------------------------------------------------
(* Steps that leave the row alone.                                         *)
LEMMA RowIsLeft ==
    ASSUME \/ acquire_forward_leader \/ ForwardHeld \/ ForwardRead \/ ForwardSend
           \/ ForwardUnsent
           \/ \E e \in Edits, exp \in 0..(MaxRev - 1) : edit_command(e, exp)
           \/ \E e \in Edits : EditAnswered(e)
           \/ \E w \in Withdraws : withdraw_command(w) \/ WithdrawAnswered(w)
           \/ \E r \in Reqs : CallStep(r)
           \/ claim_change_line \/ NodeStep \/ Connect
           \/ \E S : Disconnect(S) \/ HubRestart(S)
           \/ NodeRestart \/ UNCHANGED vars
    PROVE  row' = row
<1>1. CASE \/ acquire_forward_leader \/ ForwardHeld \/ ForwardRead \/ ForwardSend
           \/ ForwardUnsent
  BY <1>1 DEF acquire_forward_leader, ForwardHeld, ForwardRead, ForwardSend, ForwardUnsent
<1>2. CASE \E e \in Edits, exp \in 0..(MaxRev - 1) : edit_command(e, exp)
  BY <1>2 DEF edit_command
<1>3. CASE \E e \in Edits : EditAnswered(e)
  BY <1>3 DEF EditAnswered
<1>4. CASE \E w \in Withdraws : withdraw_command(w) \/ WithdrawAnswered(w)
  BY <1>4 DEF withdraw_command, WithdrawAnswered
<1>5. CASE \E r \in Reqs : CallStep(r)
  BY <1>5 DEF CallStep, CallNode, CallUnsent, CallLost
<1>6. CASE claim_change_line \/ Connect \/ NodeRestart \/ UNCHANGED vars
  BY <1>6 DEF claim_change_line, Connect, NodeRestart, hubVars, vars
<1>7. CASE NodeStep
  BY <1>7 DEF NodeStep, NodeAccept, NodeRefuse, NodeRejects, NodeHold, NodeWithdraw, NodeEdit,
     NodeClaim, NodeWrite, NodeDrop, NodeSettle, hubVars
<1>8. CASE \E S : Disconnect(S) \/ HubRestart(S)
  BY <1>8 DEF Disconnect, HubRestart, hubVars
<1>. QED
  BY <1>1, <1>2, <1>3, <1>4, <1>5, <1>6, <1>7, <1>8

(* What a step may do to a settled row.                                    *)
StaysSettled ==
    /\ row'.state = "settled"
    /\ \/ row'.outcome = row.outcome
       \/ row.outcome = "cancelled" /\ row'.outcome = "withdrawn"

LEMMA SettledStays ==
    ASSUME HubInv, [Next]_vars, row.state = "settled"
    PROVE  StaysSettled
<1>. row \in Row
  BY DEF HubInv, Typed
<1>. USE DEF StaysSettled
<1>1. CASE row' = row
  BY <1>1
<1>2. CASE mark_forward_intent \/ release_intent \/ ForwardBusy \/ ForwardLost
  BY <1>2, RejectedRow DEF mark_forward_intent, release_intent, ForwardBusy, ForwardLost
<1>3. CASE ForwardAnswered
  BY <1>3, AcceptedRow, RejectedRow DEF ForwardAnswered
<1>4. ASSUME NEW e \in Edits, edit_queued(e)
      PROVE  StaysSettled
  BY <1>4 DEF edit_queued, held
<1>5. ASSUME NEW e \in Edits, record_node_edit(e)
      PROVE  StaysSettled
  <2>1. req[e].exp + 1 \in 0..MaxRev
    BY <1>5, ConstantFacts DEF record_node_edit, HubInv, Typed, ReqTyped, ReqState
  <2>2. row' = release_memory_line(EditRow(row, e, req[e].exp + 1))
    BY <1>5 DEF record_node_edit
  <2>. QED
    BY <2>1, <2>2, NodeEditedRow
<1>6. ASSUME NEW w \in Withdraws,
             withdraw_queued(w) \/ mark_withdraw_intent(w) \/ clear_withdraw_intent(w)
      PROVE  StaysSettled
  BY <1>6 DEF withdraw_queued, held, mark_withdraw_intent, clear_withdraw_intent
<1>7. ASSUME NEW w \in Withdraws, record_node_withdraw(w)
      PROVE  StaysSettled
  BY <1>7, WithdrawnRow DEF record_node_withdraw
<1>8. CASE apply_command_projection
  BY <1>8 DEF apply_command_projection, project_accepted, mark_accepted, project_settled,
     settle_withdraw_intent
<1>. QED
  BY <1>1, <1>2, <1>3, <1>4, <1>5, <1>6, <1>7, <1>8, RowIsLeft
     DEF Next, ForwardStep, EditStep, WithdrawStep

(* A settled row stays settled with its outcome, but that a cancellation   *)
(* may be credited as the withdrawal it was (Store's projections and       *)
(* record_node_withdraw).                                                  *)
THEOREM SettledIsFinal == Spec => HubSettledIsFinal
<1>1. ASSUME HubInv, [Next]_vars
      PROVE  [row.state = "settled" =>
                /\ row'.state = "settled"
                /\ \/ row'.outcome = row.outcome
                   \/ row.outcome = "cancelled" /\ row'.outcome = "withdrawn"]_vars
  BY <1>1, SettledStays DEF StaysSettled
<1>. QED
  BY <1>1, HubInvariant, PTL DEF Spec, HubSettledIsFinal

-----------------------------------------------------------------------------
(* Steps that leave the prompt alone.                                      *)
LEMMA PromptIsLeft ==
    ASSUME \/ ForwardStep
           \/ \E e \in Edits : EditStep(e)
           \/ \E w \in Withdraws : WithdrawStep(w)
           \/ \E r \in Reqs : CallStep(r)
           \/ apply_command_projection \/ claim_change_line
           \/ NodeRefuse \/ NodeHold \/ Connect
           \/ \E S : Disconnect(S) \/ HubRestart(S)
           \/ \E o : NodeSettle(o)
           \/ UNCHANGED vars
    PROVE  UNCHANGED promptVars
<1>. USE DEF nodeVars, promptVars
<1>1. CASE ForwardStep
  BY <1>1 DEF ForwardStep, acquire_forward_leader, ForwardHeld, mark_forward_intent, ForwardRead,
     ForwardSend, ForwardUnsent, release_intent, ForwardBusy, ForwardAnswered, ForwardLost
<1>2. CASE \E e \in Edits : EditStep(e)
  BY <1>2 DEF EditStep, edit_command, edit_queued, EditAnswered, record_node_edit
<1>3. CASE \E w \in Withdraws : WithdrawStep(w)
  BY <1>3 DEF WithdrawStep, withdraw_command, withdraw_queued, mark_withdraw_intent,
     WithdrawAnswered, clear_withdraw_intent, record_node_withdraw
<1>4. CASE \E r \in Reqs : CallStep(r)
  BY <1>4 DEF CallStep, CallNode, CallUnsent, CallLost
<1>5. CASE apply_command_projection \/ claim_change_line \/ UNCHANGED vars
  BY <1>5 DEF apply_command_projection, claim_change_line, vars
<1>6. CASE NodeRefuse \/ NodeHold \/ Connect \/ \E o : NodeSettle(o)
  BY <1>6 DEF NodeRefuse, NodeHold, Connect, NodeSettle
<1>7. CASE \E S : Disconnect(S) \/ HubRestart(S)
  BY <1>7 DEF Disconnect, HubRestart
<1>. QED
  BY <1>1, <1>2, <1>3, <1>4, <1>5, <1>6, <1>7

LEMMA DeliveryStep ==
    ASSUME HubInv, [Next]_vars
    PROVE  [Delivery!Next]_(Delivery!vars)
<1>. USE DEF Delivery!Next, Delivery!vars
<1>1. CASE UNCHANGED promptVars
  BY <1>1 DEF promptVars
<1>2. CASE NodeAccept
  <2>1. frame.text \in Texts
    BY DEF HubInv, Typed, RestTyped
  <2>. QED
    BY <1>2, <2>1 DEF NodeAccept
<1>3. CASE NodeRejects \/ NodeDrop
  BY <1>3 DEF NodeRejects, NodeDrop
<1>4. ASSUME NEW w \in Withdraws, NodeWithdraw(w)
      PROVE  [Delivery!Next]_(Delivery!vars)
  BY <1>4 DEF NodeWithdraw, promptVars
<1>5. ASSUME NEW e \in Edits, NodeEdit(e)
      PROVE  [Delivery!Next]_(Delivery!vars)
  BY <1>5, ConstantFacts DEF NodeEdit, promptVars
<1>6. CASE NodeClaim \/ NodeWrite
  BY <1>6 DEF NodeClaim, NodeWrite
<1>7. CASE NodeRestart
  BY <1>7 DEF NodeRestart, promptVars
<1>. QED
  BY <1>1, <1>2, <1>3, <1>4, <1>5, <1>6, <1>7, PromptIsLeft DEF Next, NodeStep

(* The Node of this module keeps the contract of PromptDelivery, which the *)
(* Node's queue implements: whatever Hub and link do, exactly one of a     *)
(* withdrawal and a delivery wins and a prompt is written once.            *)
THEOREM NodeKeepsContract == Spec => Delivery!Spec
<1>1. Init => Delivery!Init
  BY DEF Init
<1>. QED
  BY <1>1, HubInvariant, DeliveryStep, PTL DEF Spec, Delivery!Spec

-----------------------------------------------------------------------------
(* The credit of a withdrawal.  Of two withdrawals the one that is refused *)
(* clears the intent the other left, so this is stated for one.            *)

OneWithdrawal == \A v, w \in Withdraws : v = w

(* The requests that call the Node for a withdrawal.                       *)
WithdrawIsTracked ==
    \A w \in Withdraws :
       /\ req[w].pc \in {"idle", "hub", "mark", "call"} => wire[w] = "none"
       /\ Arrived(w) => req[w].pc \in {"waiting", "lost"}
       /\ fate[Cmd] = "withdrawn" =>
             req[w].pc \in {"waiting", "record", "done", "lost"} /\ wire[w] \in {"withdrawn", "over"}
       /\ (req[w].pc \in {"call", "waiting", "record"} \/ Arrived(w)) /\ row.state # "settled"
             => row.intent # NoReq

(* A prompt the registry withdrew leaves an intent, or a settled row.      *)
IntentIsKept == fate[Cmd] = "withdrawn" /\ row.state # "settled" => row.intent # NoReq

(* Only the last record of the journal settles the command.                *)
JournalEndsOnce == \A i \in 1..(Len(journal) - 1) : journal[i] = "accepted"

(* What the projection made of the Node's outcome.                         *)
OutcomeIsMirrored ==
    /\ row.outcome \in {"completed", "cancelled"} =>
          \E i \in 1..mirrored : journal[i] = row.outcome
    /\ \A i \in 1..mirrored : journal[i] = "cancelled" => row.outcome = "withdrawn"
    /\ row.outcome = "withdrawn" => row.by # NoReq

CreditInv ==
    WithdrawIsTracked /\ IntentIsKept /\ JournalEndsOnce /\ OutcomeIsMirrored

(* An edit of the row leaves its state, its outcome and the intent.        *)
LEMMA EditLeavesRow ==
    ASSUME HubInv, NEW e \in Edits, edit_queued(e) \/ record_node_edit(e)
    PROVE  /\ row'.state = row.state /\ row'.outcome = row.outcome
           /\ row'.intent = row.intent /\ row'.by = row.by
<1>. row \in Row
  BY DEF HubInv, Typed
<1>1. CASE edit_queued(e) /\ held(row) = "hub" /\ row.rev = req[e].exp
  <2>1. row.rev + 1 \in 0..MaxRev
    BY <1>1, ConstantFacts DEF edit_queued, HubInv, Typed, ReqTyped, ReqState, Row
  <2>2. row' = EditRow(row, e, row.rev + 1)
    BY <1>1 DEF edit_queued
  <2>. QED
    BY <2>1, <2>2, EditedRow
<1>2. CASE edit_queued(e) /\ ~(held(row) = "hub" /\ row.rev = req[e].exp)
  BY <1>2 DEF edit_queued
<1>3. CASE record_node_edit(e)
  <2>1. req[e].exp + 1 \in 0..MaxRev
    BY <1>3, ConstantFacts DEF record_node_edit, HubInv, Typed, ReqTyped, ReqState
  <2>2. row' = release_memory_line(EditRow(row, e, req[e].exp + 1))
    BY <1>3 DEF record_node_edit
  <2>. QED
    BY <2>1, <2>2, NodeEditedRow
<1>. QED
  BY <1>1, <1>2, <1>3

LEMMA mark_forward_intentCredits ==
    ASSUME HubInv, CreditInv, OneWithdrawal, mark_forward_intent
    PROVE  CreditInv'
<1>1. WithdrawIsTracked'
  BY ConstantFacts, NamesAssumption DEF mark_forward_intent, Row, nodeVars, linkVars, CreditInv,
     WithdrawIsTracked, HubInv, Typed, ReqTyped, ReqState, RestTyped, OneWithdrawal, Arrived
<1>2. IntentIsKept'
  BY ConstantFacts, NamesAssumption DEF mark_forward_intent, Row, nodeVars, linkVars, CreditInv,
     IntentIsKept, HubInv, Typed, ReqTyped, ReqState, RestTyped, OneWithdrawal, Arrived
<1>3. OutcomeIsMirrored'
  BY ConstantFacts, NamesAssumption DEF mark_forward_intent, Row, nodeVars, linkVars, CreditInv,
     OutcomeIsMirrored, HubInv, Typed, ReqTyped, ReqState, RestTyped, OneWithdrawal, Arrived,
     FrameIsMarked, JournalIsProjected
<1>4. JournalEndsOnce'
  BY DEF mark_forward_intent, Row, nodeVars, linkVars, CreditInv, JournalEndsOnce
<1>. QED
  BY <1>1, <1>2, <1>3, <1>4 DEF CreditInv

LEMMA ForwardSendCredits ==
    ASSUME HubInv, CreditInv, OneWithdrawal, ForwardSend
    PROVE  CreditInv'
<1>1. WithdrawIsTracked'
  BY ConstantFacts, NamesAssumption DEF ForwardSend, CallSent, Answers, nodeVars, CreditInv,
     WithdrawIsTracked, HubInv, Typed, ReqTyped, ReqState, RestTyped, OneWithdrawal, Arrived
<1>2. IntentIsKept' /\ JournalEndsOnce' /\ OutcomeIsMirrored'
  BY DEF ForwardSend, CallSent, Answers, nodeVars, CreditInv, IntentIsKept, JournalEndsOnce,
     OutcomeIsMirrored
<1>. QED
  BY <1>1, <1>2 DEF CreditInv

LEMMA release_intentCredits ==
    ASSUME HubInv, CreditInv, OneWithdrawal, release_intent
    PROVE  CreditInv'
<1>1. WithdrawIsTracked'
  BY ConstantFacts, NamesAssumption DEF release_intent, Row, nodeVars, linkVars, CreditInv,
     WithdrawIsTracked, HubInv, Typed, ReqTyped, ReqState, RestTyped, OneWithdrawal, Arrived
<1>2. IntentIsKept'
  BY ConstantFacts, NamesAssumption DEF release_intent, Row, nodeVars, linkVars, CreditInv,
     IntentIsKept, HubInv, Typed, ReqTyped, ReqState, RestTyped, OneWithdrawal, Arrived
<1>3. OutcomeIsMirrored'
  BY ConstantFacts, NamesAssumption DEF release_intent, Row, nodeVars, linkVars, CreditInv,
     OutcomeIsMirrored, HubInv, Typed, ReqTyped, ReqState, RestTyped, OneWithdrawal, Arrived,
     FrameIsMarked, JournalIsProjected
<1>4. JournalEndsOnce'
  BY DEF release_intent, Row, nodeVars, linkVars, CreditInv, JournalEndsOnce
<1>. QED
  BY <1>1, <1>2, <1>3, <1>4 DEF CreditInv

LEMMA ForwardBusyCredits ==
    ASSUME HubInv, CreditInv, OneWithdrawal, ForwardBusy
    PROVE  CreditInv'
<1>1. WithdrawIsTracked'
  BY ConstantFacts, NamesAssumption, RejectedRow DEF ForwardBusy, nodeVars, linkVars, CreditInv,
     WithdrawIsTracked, HubInv, Typed, ReqTyped, ReqState, RestTyped, OneWithdrawal, Arrived
<1>2. IntentIsKept'
  BY ConstantFacts, NamesAssumption, RejectedRow DEF ForwardBusy, nodeVars, linkVars, CreditInv,
     IntentIsKept, HubInv, Typed, ReqTyped, ReqState, RestTyped, OneWithdrawal, Arrived
<1>3. OutcomeIsMirrored'
  BY ConstantFacts, NamesAssumption, RejectedRow DEF ForwardBusy, nodeVars, linkVars, CreditInv,
     OutcomeIsMirrored, HubInv, Typed, ReqTyped, ReqState, RestTyped, OneWithdrawal, Arrived,
     FrameIsMarked, JournalIsProjected
<1>4. JournalEndsOnce'
  BY DEF ForwardBusy, nodeVars, linkVars, CreditInv, JournalEndsOnce
<1>. QED
  BY <1>1, <1>2, <1>3, <1>4 DEF CreditInv

LEMMA ForwardAnsweredCredits ==
    ASSUME HubInv, CreditInv, OneWithdrawal, ForwardAnswered
    PROVE  CreditInv'
<1>1. WithdrawIsTracked'
  BY ConstantFacts, NamesAssumption, RejectedRow, AcceptedRow DEF ForwardAnswered, Answered,
     Answers, nodeVars, CreditInv, WithdrawIsTracked, HubInv, Typed, ReqTyped, ReqState,
     RestTyped, OneWithdrawal, Arrived
<1>2. IntentIsKept'
  BY ConstantFacts, NamesAssumption, RejectedRow, AcceptedRow DEF ForwardAnswered, Answered,
     Answers, nodeVars, CreditInv, IntentIsKept, HubInv, Typed, ReqTyped, ReqState, RestTyped,
     OneWithdrawal, Arrived
<1>3. OutcomeIsMirrored'
  BY ConstantFacts, NamesAssumption, RejectedRow, AcceptedRow DEF ForwardAnswered, Answered,
     Answers, nodeVars, CreditInv, OutcomeIsMirrored, HubInv, Typed, ReqTyped, ReqState,
     RestTyped, OneWithdrawal, Arrived, FrameIsMarked, JournalIsProjected
<1>4. JournalEndsOnce'
  BY DEF ForwardAnswered, Answered, Answers, nodeVars, CreditInv, JournalEndsOnce
<1>. QED
  BY <1>1, <1>2, <1>3, <1>4 DEF CreditInv

LEMMA ForwardLostCredits ==
    ASSUME HubInv, CreditInv, OneWithdrawal, ForwardLost
    PROVE  CreditInv'
<1>1. WithdrawIsTracked'
  BY ConstantFacts, NamesAssumption DEF ForwardLost, Row, nodeVars, linkVars, CreditInv,
     WithdrawIsTracked, HubInv, Typed, ReqTyped, ReqState, RestTyped, OneWithdrawal, Arrived
<1>2. IntentIsKept'
  BY ConstantFacts, NamesAssumption DEF ForwardLost, Row, nodeVars, linkVars, CreditInv,
     IntentIsKept, HubInv, Typed, ReqTyped, ReqState, RestTyped, OneWithdrawal, Arrived
<1>3. OutcomeIsMirrored'
  BY ConstantFacts, NamesAssumption DEF ForwardLost, Row, nodeVars, linkVars, CreditInv,
     OutcomeIsMirrored, HubInv, Typed, ReqTyped, ReqState, RestTyped, OneWithdrawal, Arrived,
     FrameIsMarked, JournalIsProjected
<1>4. JournalEndsOnce'
  BY DEF ForwardLost, Row, nodeVars, linkVars, CreditInv, JournalEndsOnce
<1>. QED
  BY <1>1, <1>2, <1>3, <1>4 DEF CreditInv

LEMMA edit_commandCredits ==
    ASSUME HubInv, CreditInv, OneWithdrawal, NEW e \in Edits, NEW exp \in 0..(MaxRev - 1), edit_command(e, exp)
    PROVE  CreditInv'
<1>1. WithdrawIsTracked'
  BY ConstantFacts, NamesAssumption DEF edit_command, held, nodeVars, linkVars, CreditInv,
     WithdrawIsTracked, HubInv, Typed, ReqTyped, ReqState, RestTyped, OneWithdrawal, Arrived
<1>2. IntentIsKept' /\ JournalEndsOnce' /\ OutcomeIsMirrored'
  BY DEF edit_command, held, nodeVars, linkVars, CreditInv, IntentIsKept, JournalEndsOnce,
     OutcomeIsMirrored
<1>. QED
  BY <1>1, <1>2 DEF CreditInv

LEMMA edit_queuedCredits ==
    ASSUME HubInv, CreditInv, OneWithdrawal, NEW e \in Edits, edit_queued(e)
    PROVE  CreditInv'
<1>1. /\ row'.state = row.state /\ row'.outcome = row.outcome
      /\ row'.intent = row.intent /\ row'.by = row.by
  BY EditLeavesRow
<1>2. \A w \in Withdraws : req'[w] = req[w]
  BY ConstantFacts DEF edit_queued, HubInv, Typed, ReqTyped
<1>. QED
  BY <1>1, <1>2 DEF edit_queued, nodeVars, linkVars, CreditInv, WithdrawIsTracked, Arrived, IntentIsKept,
     JournalEndsOnce, OutcomeIsMirrored

LEMMA EditAnsweredCredits ==
    ASSUME HubInv, CreditInv, OneWithdrawal, NEW e \in Edits, EditAnswered(e)
    PROVE  CreditInv'
<1>1. WithdrawIsTracked'
  BY ConstantFacts, NamesAssumption DEF EditAnswered, Answered, Answers, nodeVars, CreditInv,
     WithdrawIsTracked, HubInv, Typed, ReqTyped, ReqState, RestTyped, OneWithdrawal, Arrived
<1>2. IntentIsKept' /\ JournalEndsOnce' /\ OutcomeIsMirrored'
  BY DEF EditAnswered, Answered, Answers, nodeVars, CreditInv, IntentIsKept, JournalEndsOnce,
     OutcomeIsMirrored
<1>. QED
  BY <1>1, <1>2 DEF CreditInv

LEMMA record_node_editCredits ==
    ASSUME HubInv, CreditInv, OneWithdrawal, NEW e \in Edits, record_node_edit(e)
    PROVE  CreditInv'
<1>1. /\ row'.state = row.state /\ row'.outcome = row.outcome
      /\ row'.intent = row.intent /\ row'.by = row.by
  BY EditLeavesRow
<1>2. \A w \in Withdraws : req'[w] = req[w]
  BY ConstantFacts DEF record_node_edit, HubInv, Typed, ReqTyped
<1>. QED
  BY <1>1, <1>2 DEF record_node_edit, nodeVars, linkVars, CreditInv, WithdrawIsTracked, Arrived, IntentIsKept,
     JournalEndsOnce, OutcomeIsMirrored

LEMMA withdraw_commandCredits ==
    ASSUME HubInv, CreditInv, OneWithdrawal, NEW w \in Withdraws, withdraw_command(w)
    PROVE  CreditInv'
<1>1. WithdrawIsTracked'
  BY ConstantFacts, NamesAssumption DEF withdraw_command, held, nodeVars, linkVars, CreditInv,
     WithdrawIsTracked, HubInv, Typed, ReqTyped, ReqState, RestTyped, OneWithdrawal, Arrived
<1>2. IntentIsKept' /\ JournalEndsOnce' /\ OutcomeIsMirrored'
  BY DEF withdraw_command, held, nodeVars, linkVars, CreditInv, IntentIsKept, JournalEndsOnce,
     OutcomeIsMirrored
<1>. QED
  BY <1>1, <1>2 DEF CreditInv

LEMMA withdraw_queuedCredits ==
    ASSUME HubInv, CreditInv, OneWithdrawal, NEW w \in Withdraws, withdraw_queued(w)
    PROVE  CreditInv'
<1>. row \in Row
  BY DEF HubInv, Typed
<1>1. CASE held(row) = "hub"
  <2>1. row'.state = "settled" /\ row'.outcome = "withdrawn" /\ row'.by = w
    BY <1>1, WithdrawnRow DEF withdraw_queued
  <2>2. fate[Cmd] # "withdrawn"
    BY <1>1 DEF withdraw_queued, CreditInv, WithdrawIsTracked
  <2>. QED
    BY <2>1, <2>2, ConstantFacts, NamesAssumption DEF withdraw_queued, nodeVars, linkVars, HubInv,
       Typed, ReqTyped, ReqState, CreditInv, WithdrawIsTracked, Arrived, IntentIsKept,
       JournalEndsOnce, OutcomeIsMirrored, Reqs
<1>2. CASE held(row) # "hub"
  <2>1. row' = row /\ fate[Cmd] # "withdrawn"
    BY <1>2 DEF withdraw_queued, CreditInv, WithdrawIsTracked
  <2>. QED
    BY <2>1, ConstantFacts DEF withdraw_queued, nodeVars, linkVars, HubInv,
       Typed, ReqTyped, ReqState, CreditInv, WithdrawIsTracked, Arrived, IntentIsKept,
       JournalEndsOnce, OutcomeIsMirrored
<1>. QED
  BY <1>1, <1>2

LEMMA mark_withdraw_intentCredits ==
    ASSUME HubInv, CreditInv, OneWithdrawal, NEW w \in Withdraws, mark_withdraw_intent(w)
    PROVE  CreditInv'
<1>1. WithdrawIsTracked'
  BY ConstantFacts, NamesAssumption DEF mark_withdraw_intent, Row, nodeVars, linkVars,
     CreditInv, WithdrawIsTracked, HubInv, Typed, ReqTyped, ReqState, RestTyped, OneWithdrawal,
     Arrived
<1>2. IntentIsKept'
  BY ConstantFacts, NamesAssumption DEF mark_withdraw_intent, Row, nodeVars, linkVars,
     CreditInv, IntentIsKept, HubInv, Typed, ReqTyped, ReqState, RestTyped, OneWithdrawal,
     Arrived
<1>3. OutcomeIsMirrored'
  BY ConstantFacts, NamesAssumption DEF mark_withdraw_intent, Row, nodeVars, linkVars,
     CreditInv, OutcomeIsMirrored, HubInv, Typed, ReqTyped, ReqState, RestTyped, OneWithdrawal,
     Arrived, FrameIsMarked, JournalIsProjected
<1>4. JournalEndsOnce'
  BY DEF mark_withdraw_intent, Row, nodeVars, linkVars, CreditInv, JournalEndsOnce
<1>. QED
  BY <1>1, <1>2, <1>3, <1>4 DEF CreditInv

LEMMA WithdrawAnsweredCredits ==
    ASSUME HubInv, CreditInv, OneWithdrawal, NEW w \in Withdraws, WithdrawAnswered(w)
    PROVE  CreditInv'
<1>1. WithdrawIsTracked'
  BY ConstantFacts, NamesAssumption DEF WithdrawAnswered, Answered, Answers, nodeVars,
     CreditInv, WithdrawIsTracked, HubInv, Typed, ReqTyped, ReqState, RestTyped, OneWithdrawal,
     Arrived
<1>2. IntentIsKept' /\ JournalEndsOnce' /\ OutcomeIsMirrored'
  BY DEF WithdrawAnswered, Answered, Answers, nodeVars, CreditInv, IntentIsKept,
     JournalEndsOnce, OutcomeIsMirrored
<1>. QED
  BY <1>1, <1>2 DEF CreditInv

LEMMA clear_withdraw_intentCredits ==
    ASSUME HubInv, CreditInv, OneWithdrawal, NEW w \in Withdraws, clear_withdraw_intent(w)
    PROVE  CreditInv'
<1>1. WithdrawIsTracked'
  BY ConstantFacts, NamesAssumption DEF clear_withdraw_intent, Row, nodeVars, linkVars,
     CreditInv, WithdrawIsTracked, HubInv, Typed, ReqTyped, ReqState, RestTyped, OneWithdrawal,
     Arrived
<1>2. IntentIsKept'
  BY ConstantFacts, NamesAssumption DEF clear_withdraw_intent, Row, nodeVars, linkVars,
     CreditInv, IntentIsKept, HubInv, Typed, ReqTyped, ReqState, RestTyped, OneWithdrawal,
     Arrived, WithdrawIsTracked
<1>3. OutcomeIsMirrored'
  BY ConstantFacts, NamesAssumption DEF clear_withdraw_intent, Row, nodeVars, linkVars,
     CreditInv, OutcomeIsMirrored, HubInv, Typed, ReqTyped, ReqState, RestTyped, OneWithdrawal,
     Arrived, FrameIsMarked, JournalIsProjected
<1>4. JournalEndsOnce'
  BY DEF clear_withdraw_intent, Row, nodeVars, linkVars, CreditInv, JournalEndsOnce
<1>. QED
  BY <1>1, <1>2, <1>3, <1>4 DEF CreditInv

LEMMA record_node_withdrawCredits ==
    ASSUME HubInv, CreditInv, OneWithdrawal, NEW w \in Withdraws, record_node_withdraw(w)
    PROVE  CreditInv'
<1>. row \in Row
  BY DEF HubInv, Typed
<1>1. /\ row'.state = "settled"
      /\ \/ row' = row
         \/ row'.outcome = "withdrawn" /\ row'.by = w
  BY WithdrawnRow DEF record_node_withdraw
<1>2. WithdrawIsTracked'
  BY <1>1, ConstantFacts DEF record_node_withdraw, nodeVars, linkVars, HubInv, Typed, ReqTyped,
     ReqState, CreditInv, WithdrawIsTracked, Arrived
<1>. QED
  BY <1>1, <1>2, NamesAssumption DEF record_node_withdraw, nodeVars, CreditInv, IntentIsKept,
     JournalEndsOnce, OutcomeIsMirrored, Reqs

LEMMA CallNodeCredits ==
    ASSUME HubInv, CreditInv, OneWithdrawal, NEW r \in Reqs, CallNode(r)
    PROVE  CreditInv'
<1>1. WithdrawIsTracked'
  BY ConstantFacts, NamesAssumption DEF CallNode, CallSent, nodeVars, CreditInv,
     WithdrawIsTracked, HubInv, Typed, ReqTyped, ReqState, RestTyped, OneWithdrawal, Arrived
<1>2. IntentIsKept' /\ JournalEndsOnce' /\ OutcomeIsMirrored'
  BY DEF CallNode, CallSent, nodeVars, CreditInv, IntentIsKept, JournalEndsOnce,
     OutcomeIsMirrored
<1>. QED
  BY <1>1, <1>2 DEF CreditInv

LEMMA CallUnsentCredits ==
    ASSUME HubInv, CreditInv, OneWithdrawal, NEW r \in Reqs, CallUnsent(r)
    PROVE  CreditInv'
<1>1. WithdrawIsTracked'
  BY ConstantFacts, NamesAssumption DEF CallUnsent, nodeVars, linkVars, CreditInv,
     WithdrawIsTracked, HubInv, Typed, ReqTyped, ReqState, RestTyped, OneWithdrawal, Arrived
<1>2. IntentIsKept' /\ JournalEndsOnce' /\ OutcomeIsMirrored'
  BY DEF CallUnsent, nodeVars, linkVars, CreditInv, IntentIsKept, JournalEndsOnce,
     OutcomeIsMirrored
<1>. QED
  BY <1>1, <1>2 DEF CreditInv

LEMMA CallLostCredits ==
    ASSUME HubInv, CreditInv, OneWithdrawal, NEW r \in Reqs, CallLost(r)
    PROVE  CreditInv'
<1>1. WithdrawIsTracked'
  BY ConstantFacts, NamesAssumption DEF CallLost, nodeVars, linkVars, CreditInv,
     WithdrawIsTracked, HubInv, Typed, ReqTyped, ReqState, RestTyped, OneWithdrawal, Arrived
<1>2. IntentIsKept' /\ JournalEndsOnce' /\ OutcomeIsMirrored'
  BY DEF CallLost, nodeVars, linkVars, CreditInv, IntentIsKept, JournalEndsOnce,
     OutcomeIsMirrored
<1>. QED
  BY <1>1, <1>2 DEF CreditInv

LEMMA apply_command_projectionCredits ==
    ASSUME HubInv, CreditInv, OneWithdrawal, apply_command_projection
    PROVE  CreditInv'
<1>. row \in Row
  BY DEF HubInv, Typed
<1>. DEFINE o == journal[mirrored + 1]
<1>1. o \in {"accepted", "completed", "rejected", "cancelled"} /\ mirrored' = mirrored + 1
  BY DEF apply_command_projection, HubInv, Typed, RestTyped
<1>2. CASE o = "accepted"
  <2>1. row' = mark_accepted(row)
    BY <1>2 DEF apply_command_projection, project_accepted
  <2>2. /\ row'.state = "settled" <=> row.state = "settled"
        /\ row'.outcome = row.outcome /\ row'.intent = row.intent /\ row'.by = row.by
    BY <2>1, AcceptedRow
  <2>. QED
    BY <1>1, <1>2, <2>2 DEF apply_command_projection, nodeVars, linkVars, HubInv, Typed, RestTyped,
       CreditInv, WithdrawIsTracked, Arrived, IntentIsKept, JournalEndsOnce, OutcomeIsMirrored
<1>3. CASE o # "accepted" /\ row.state = "settled"
  <2>1. row' = row
    BY <1>3 DEF apply_command_projection, project_settled, settle_withdraw_intent
  <2>2. ASSUME o = "cancelled" PROVE row.outcome = "withdrawn"
    <3>1. nodeRow # "absent" /\ \A i \in 1..mirrored : journal[i] = "accepted"
      BY <2>2, <1>1 DEF apply_command_projection, HubInv, Typed, RestTyped, NodeFollowsFrame,
         CreditInv, JournalEndsOnce
    <3>. QED
      BY <1>3, <3>1 DEF HubInv, Typed, Row, FrameIsMarked, RejectionIsLast, CreditInv,
         OutcomeIsMirrored
  <2>3. OutcomeIsMirrored'
    BY <1>1, <2>1, <2>2 DEF apply_command_projection, nodeVars, HubInv, Typed, RestTyped,
       CreditInv, OutcomeIsMirrored
  <2>. QED
    BY <2>1, <2>3 DEF apply_command_projection, nodeVars, linkVars, CreditInv, WithdrawIsTracked,
       Arrived, IntentIsKept, JournalEndsOnce
<1>4. CASE o # "accepted" /\ row.state # "settled"
  <2>1. o = "cancelled" => row.intent \in Withdraws
    BY <1>1, <1>4 DEF apply_command_projection, HubInv, Typed, RestTyped, Row, JournalIsProjected,
       CreditInv, IntentIsKept
  <2>2. /\ row'.state = "settled"
        /\ o = "cancelled" => row'.outcome = "withdrawn" /\ row'.by \in Withdraws
        /\ o # "cancelled" => row'.outcome = o
    <3>1. CASE o = "cancelled"
      <4>1. row' = withdrawn_row(row, row.intent)
        BY <1>4, <2>1, <3>1, NamesAssumption DEF apply_command_projection, project_settled,
           settle_withdraw_intent, Reqs
      <4>. QED
        BY <2>1, <3>1, <4>1, WithdrawnRow
    <3>2. CASE o # "cancelled"
      <4>1. row' = Settle(row, o)
        BY <1>4, <3>2 DEF apply_command_projection, project_settled, settle_withdraw_intent
      <4>2. o \in Outcomes
        BY <1>1, <1>4 DEF Outcomes
      <4>. QED
        BY <3>2, <4>1, <4>2, SettleRow
    <3>. QED
      BY <3>1, <3>2
  <2>3. \A i \in 1..mirrored : journal[i] = "accepted"
    BY <1>4 DEF HubInv, JournalIsProjected
  <2>4. OutcomeIsMirrored'
    BY <1>1, <1>4, <2>2, <2>3, NamesAssumption DEF apply_command_projection, nodeVars, HubInv,
       Typed, RestTyped, OutcomeIsMirrored, Reqs
  <2>. QED
    BY <2>2, <2>4 DEF apply_command_projection, nodeVars, linkVars, CreditInv, WithdrawIsTracked,
       Arrived, IntentIsKept, JournalEndsOnce
<1>. QED
  BY <1>2, <1>3, <1>4

LEMMA NodeAcceptCredits ==
    ASSUME HubInv, CreditInv, OneWithdrawal, NodeAccept
    PROVE  CreditInv'
<1>1. WithdrawIsTracked'
  BY ConstantFacts, NamesAssumption DEF NodeAccept, Arrived, Reply, Answers, Delivery!Edit,
     hubVars, CreditInv, WithdrawIsTracked, HubInv, Typed, ReqTyped, ReqState, RestTyped,
     OneWithdrawal
<1>2. JournalEndsOnce'
  BY ConstantFacts, NamesAssumption DEF NodeAccept, Arrived, Reply, Answers, Delivery!Edit,
     hubVars, CreditInv, JournalEndsOnce, HubInv, Typed, ReqTyped, ReqState, RestTyped,
     OneWithdrawal, NodeFollowsFrame, JournalIsProjected
<1>3. OutcomeIsMirrored'
  BY ConstantFacts, NamesAssumption DEF NodeAccept, Arrived, Reply, Answers, Delivery!Edit,
     hubVars, CreditInv, OutcomeIsMirrored, HubInv, Typed, ReqTyped, ReqState, RestTyped,
     OneWithdrawal, FrameIsMarked, JournalIsProjected
<1>4. IntentIsKept'
  BY DEF NodeAccept, Arrived, Reply, Answers, Delivery!Edit, hubVars, CreditInv, IntentIsKept
<1>. QED
  BY <1>1, <1>2, <1>3, <1>4 DEF CreditInv

LEMMA NodeRefuseCredits ==
    ASSUME HubInv, CreditInv, OneWithdrawal, NodeRefuse
    PROVE  CreditInv'
<1>1. WithdrawIsTracked'
  BY ConstantFacts, NamesAssumption DEF NodeRefuse, Arrived, Reply, Answers, hubVars, nodeVars,
     CreditInv, WithdrawIsTracked, HubInv, Typed, ReqTyped, ReqState, RestTyped, OneWithdrawal
<1>2. IntentIsKept' /\ JournalEndsOnce' /\ OutcomeIsMirrored'
  BY DEF NodeRefuse, Arrived, Reply, Answers, hubVars, nodeVars, CreditInv, IntentIsKept,
     JournalEndsOnce, OutcomeIsMirrored
<1>. QED
  BY <1>1, <1>2 DEF CreditInv

LEMMA NodeRejectsCredits ==
    ASSUME HubInv, CreditInv, OneWithdrawal, NodeRejects
    PROVE  CreditInv'
<1>1. WithdrawIsTracked'
  BY ConstantFacts, NamesAssumption DEF NodeRejects, Arrived, Reply, Answers, Delivery!Drop,
     hubVars, CreditInv, WithdrawIsTracked, HubInv, Typed, ReqTyped, ReqState, RestTyped,
     OneWithdrawal
<1>2. IntentIsKept'
  BY ConstantFacts, NamesAssumption DEF NodeRejects, Arrived, Reply, Answers, Delivery!Drop,
     hubVars, CreditInv, IntentIsKept, HubInv, Typed, ReqTyped, ReqState, RestTyped,
     OneWithdrawal
<1>3. JournalEndsOnce'
  BY ConstantFacts, NamesAssumption DEF NodeRejects, Arrived, Reply, Answers, Delivery!Drop,
     hubVars, CreditInv, JournalEndsOnce, HubInv, Typed, ReqTyped, ReqState, RestTyped,
     OneWithdrawal, NodeFollowsFrame, JournalIsProjected
<1>4. OutcomeIsMirrored'
  BY ConstantFacts, NamesAssumption DEF NodeRejects, Arrived, Reply, Answers, Delivery!Drop,
     hubVars, CreditInv, OutcomeIsMirrored, HubInv, Typed, ReqTyped, ReqState, RestTyped,
     OneWithdrawal, FrameIsMarked, JournalIsProjected
<1>. QED
  BY <1>1, <1>2, <1>3, <1>4 DEF CreditInv

LEMMA NodeWithdrawCredits ==
    ASSUME HubInv, CreditInv, OneWithdrawal, NEW w \in Withdraws, NodeWithdraw(w)
    PROVE  CreditInv'
<1>1. WithdrawIsTracked'
  BY ConstantFacts, NamesAssumption DEF NodeWithdraw, Arrived, Reply, Answers,
     Delivery!Withdraw, hubVars, promptVars, CreditInv, WithdrawIsTracked, HubInv, Typed,
     ReqTyped, ReqState, RestTyped, OneWithdrawal
<1>2. IntentIsKept'
  BY ConstantFacts, NamesAssumption DEF NodeWithdraw, Arrived, Reply, Answers,
     Delivery!Withdraw, hubVars, promptVars, CreditInv, IntentIsKept, HubInv, Typed, ReqTyped,
     ReqState, RestTyped, OneWithdrawal, WithdrawIsTracked
<1>3. JournalEndsOnce' /\ OutcomeIsMirrored'
  BY DEF NodeWithdraw, Arrived, Reply, Answers, Delivery!Withdraw, hubVars, promptVars,
     CreditInv, JournalEndsOnce, OutcomeIsMirrored
<1>. QED
  BY <1>1, <1>2, <1>3 DEF CreditInv

LEMMA NodeEditCredits ==
    ASSUME HubInv, CreditInv, OneWithdrawal, NEW e \in Edits, NodeEdit(e)
    PROVE  CreditInv'
<1>1. WithdrawIsTracked'
  BY ConstantFacts, NamesAssumption DEF NodeEdit, Arrived, Reply, Answers, Delivery!Edit,
     hubVars, promptVars, CreditInv, WithdrawIsTracked, HubInv, Typed, ReqTyped, ReqState,
     RestTyped, OneWithdrawal
<1>2. IntentIsKept' /\ JournalEndsOnce' /\ OutcomeIsMirrored'
  BY DEF NodeEdit, Arrived, Reply, Answers, Delivery!Edit, hubVars, promptVars, CreditInv,
     IntentIsKept, JournalEndsOnce, OutcomeIsMirrored
<1>. QED
  BY <1>1, <1>2 DEF CreditInv

LEMMA NodeClaimCredits ==
    ASSUME HubInv, CreditInv, OneWithdrawal, NodeClaim
    PROVE  CreditInv'
<1>1. WithdrawIsTracked'
  BY ConstantFacts, NamesAssumption DEF NodeClaim, Delivery!Claim, Delivery!Unclaim, hubVars,
     linkVars, CreditInv, WithdrawIsTracked, HubInv, Typed, ReqTyped, ReqState, RestTyped,
     OneWithdrawal, Arrived
<1>2. IntentIsKept'
  BY ConstantFacts, NamesAssumption DEF NodeClaim, Delivery!Claim, Delivery!Unclaim, hubVars,
     linkVars, CreditInv, IntentIsKept, HubInv, Typed, ReqTyped, ReqState, RestTyped,
     OneWithdrawal, Arrived
<1>3. JournalEndsOnce' /\ OutcomeIsMirrored'
  BY DEF NodeClaim, Delivery!Claim, Delivery!Unclaim, hubVars, linkVars, CreditInv,
     JournalEndsOnce, OutcomeIsMirrored
<1>. QED
  BY <1>1, <1>2, <1>3 DEF CreditInv

LEMMA NodeWriteCredits ==
    ASSUME HubInv, CreditInv, OneWithdrawal, NodeWrite
    PROVE  CreditInv'
<1>1. WithdrawIsTracked'
  BY ConstantFacts, NamesAssumption DEF NodeWrite, Delivery!Write, hubVars, linkVars, CreditInv,
     WithdrawIsTracked, HubInv, Typed, ReqTyped, ReqState, RestTyped, OneWithdrawal, Arrived
<1>2. IntentIsKept'
  BY ConstantFacts, NamesAssumption DEF NodeWrite, Delivery!Write, hubVars, linkVars, CreditInv,
     IntentIsKept, HubInv, Typed, ReqTyped, ReqState, RestTyped, OneWithdrawal, Arrived
<1>3. JournalEndsOnce' /\ OutcomeIsMirrored'
  BY DEF NodeWrite, Delivery!Write, hubVars, linkVars, CreditInv, JournalEndsOnce,
     OutcomeIsMirrored
<1>. QED
  BY <1>1, <1>2, <1>3 DEF CreditInv

LEMMA NodeDropCredits ==
    ASSUME HubInv, CreditInv, OneWithdrawal, NodeDrop
    PROVE  CreditInv'
<1>1. WithdrawIsTracked'
  BY ConstantFacts, NamesAssumption DEF NodeDrop, Delivery!Drop, hubVars, linkVars, CreditInv,
     WithdrawIsTracked, HubInv, Typed, ReqTyped, ReqState, RestTyped, OneWithdrawal, Arrived
<1>2. IntentIsKept'
  BY ConstantFacts, NamesAssumption DEF NodeDrop, Delivery!Drop, hubVars, linkVars, CreditInv,
     IntentIsKept, HubInv, Typed, ReqTyped, ReqState, RestTyped, OneWithdrawal, Arrived
<1>3. JournalEndsOnce' /\ OutcomeIsMirrored'
  BY DEF NodeDrop, Delivery!Drop, hubVars, linkVars, CreditInv, JournalEndsOnce,
     OutcomeIsMirrored
<1>. QED
  BY <1>1, <1>2, <1>3 DEF CreditInv

LEMMA NodeSettleCredits ==
    ASSUME HubInv, CreditInv, OneWithdrawal, NEW o \in {"completed", "rejected", "cancelled"}, NodeSettle(o)
    PROVE  CreditInv'
<1>1. JournalEndsOnce'
  <2>1. journal = <<"accepted">> /\ journal' = Append(journal, o)
    BY DEF NodeSettle, HubInv, JournalIsProjected
  <2>2. Len(journal') = 2 /\ journal'[1] = "accepted"
    BY <2>1
  <2>. QED
    BY <2>2 DEF JournalEndsOnce
<1>2. OutcomeIsMirrored'
  BY ConstantFacts, NamesAssumption DEF NodeSettle, hubVars, promptVars, linkVars, CreditInv,
     OutcomeIsMirrored, HubInv, Typed, ReqTyped, ReqState, RestTyped, OneWithdrawal, Arrived,
     FrameIsMarked, JournalIsProjected
<1>3. WithdrawIsTracked' /\ IntentIsKept'
  BY DEF NodeSettle, hubVars, promptVars, linkVars, CreditInv, WithdrawIsTracked, IntentIsKept,
     Arrived
<1>. QED
  BY <1>1, <1>2, <1>3 DEF CreditInv

LEMMA DisconnectCredits ==
    ASSUME HubInv, CreditInv, OneWithdrawal, NEW S \in SUBSET Calls, Disconnect(S)
    PROVE  CreditInv'
<1>1. WithdrawIsTracked'
  BY ConstantFacts, NamesAssumption DEF Disconnect, Fails, Torn, Answers, hubVars, nodeVars,
     CreditInv, WithdrawIsTracked, HubInv, Typed, ReqTyped, ReqState, RestTyped, OneWithdrawal,
     Arrived
<1>2. IntentIsKept' /\ JournalEndsOnce' /\ OutcomeIsMirrored'
  BY DEF Disconnect, Fails, Torn, Answers, hubVars, nodeVars, CreditInv, IntentIsKept,
     JournalEndsOnce, OutcomeIsMirrored
<1>. QED
  BY <1>1, <1>2 DEF CreditInv

LEMMA HubRestartCredits ==
    ASSUME HubInv, CreditInv, OneWithdrawal, NEW S \in SUBSET Calls, HubRestart(S)
    PROVE  CreditInv'
<1>1. WithdrawIsTracked'
  BY ConstantFacts, NamesAssumption DEF HubRestart, Fails, Torn, Answers, nodeVars, CreditInv,
     WithdrawIsTracked, HubInv, Typed, ReqTyped, ReqState, RestTyped, OneWithdrawal, Arrived
<1>2. IntentIsKept' /\ JournalEndsOnce' /\ OutcomeIsMirrored'
  BY DEF HubRestart, Fails, Torn, Answers, nodeVars, CreditInv, IntentIsKept, JournalEndsOnce,
     OutcomeIsMirrored
<1>. QED
  BY <1>1, <1>2 DEF CreditInv

LEMMA NodeRestartCredits ==
    ASSUME HubInv, CreditInv, OneWithdrawal, NodeRestart
    PROVE  CreditInv'
<1>1. WithdrawIsTracked'
  BY ConstantFacts, NamesAssumption DEF NodeRestart, Fails, Answers, Delivery!Drop, hubVars,
     promptVars, CreditInv, WithdrawIsTracked, HubInv, Typed, ReqTyped, ReqState, RestTyped,
     OneWithdrawal, Arrived
<1>2. IntentIsKept'
  BY ConstantFacts, NamesAssumption DEF NodeRestart, Fails, Answers, Delivery!Drop, hubVars,
     promptVars, CreditInv, IntentIsKept, HubInv, Typed, ReqTyped, ReqState, RestTyped,
     OneWithdrawal, Arrived
<1>3. JournalEndsOnce' /\ OutcomeIsMirrored'
  BY DEF NodeRestart, Fails, Answers, Delivery!Drop, hubVars, promptVars, CreditInv,
     JournalEndsOnce, OutcomeIsMirrored
<1>. QED
  BY <1>1, <1>2, <1>3 DEF CreditInv

LEMMA CreditKeeps ==
    ASSUME HubInv, CreditInv, OneWithdrawal, [Next]_vars
    PROVE  CreditInv'
<1>1. CASE acquire_forward_leader \/ ForwardHeld \/ ForwardRead \/ ForwardUnsent
           \/ claim_change_line \/ NodeHold \/ Connect \/ UNCHANGED vars
  BY <1>1 DEF acquire_forward_leader, ForwardHeld, ForwardRead, ForwardUnsent,
     claim_change_line, NodeHold, Connect, hubVars, nodeVars, linkVars, vars, CreditInv,
     WithdrawIsTracked, Arrived, IntentIsKept, JournalEndsOnce, OutcomeIsMirrored
<1>. QED
  BY <1>1, mark_forward_intentCredits, ForwardSendCredits, release_intentCredits,
     ForwardBusyCredits, ForwardAnsweredCredits, ForwardLostCredits, edit_commandCredits,
     edit_queuedCredits, EditAnsweredCredits, record_node_editCredits, withdraw_commandCredits,
     withdraw_queuedCredits, mark_withdraw_intentCredits, WithdrawAnsweredCredits,
     clear_withdraw_intentCredits, record_node_withdrawCredits, CallNodeCredits,
     CallUnsentCredits, CallLostCredits, apply_command_projectionCredits, NodeAcceptCredits,
     NodeRefuseCredits, NodeRejectsCredits, NodeWithdrawCredits, NodeEditCredits,
     NodeClaimCredits, NodeWriteCredits, NodeDropCredits, NodeSettleCredits, DisconnectCredits,
     HubRestartCredits, NodeRestartCredits DEF Next, ForwardStep, EditStep, WithdrawStep,
     CallStep, NodeStep

(* With one withdrawal, what the Node cancelled for it reads withdrawn at  *)
(* the Hub with its actor, although the answer may be lost, the journal    *)
(* may overtake it and both sides may restart (mark_withdraw_intent,       *)
(* settle_withdraw_intent).                                                *)
THEOREM CreditsWithdrawal ==
    ASSUME OneWithdrawal
    PROVE  Spec => []WithdrawalIsCredited
<1>1. Init => CreditInv
  <2>. SUFFICES ASSUME Init PROVE CreditInv
    OBVIOUS
  <2>. QED
    BY ConstantFacts DEF Init, Delivery!Init, CreditInv, WithdrawIsTracked, Arrived, IntentIsKept,
       JournalEndsOnce, OutcomeIsMirrored
<1>2. HubInv /\ CreditInv /\ [Next]_vars => CreditInv'
  BY CreditKeeps
<1>3. CreditInv => WithdrawalIsCredited
  BY DEF CreditInv, OutcomeIsMirrored, WithdrawalIsCredited
<1>. QED
  BY <1>1, <1>2, <1>3, HubInvariant, PTL DEF Spec
=============================================================================
