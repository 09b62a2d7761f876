-------------------------- MODULE PtyQueue_ledger --------------------------
(***************************************************************************)
(* The durable rows of an instance's commands, for every set of commands,  *)
(* with crashes and fences: what a settled row says is true, what a fence  *)
(* acknowledged is what happened, no accepted command is lost, and a fence *)
(* that passed a chapter does not forget to close it.                      *)
(*                                                                         *)
(* Every property is about one command at a time, so the invariant is too: *)
(* it says what the row of a command may read by where the command is, and *)
(* every step is one that leaves the command alone, retires it, or moves it*)
(* to its next place.                                                      *)
(***************************************************************************)
EXTENDS PtyQueue_refinement

-----------------------------------------------------------------------------
(* No task has inserted the row.                                           *)
Unsubmitted == {"idle", "checked", "admitted", "refused"}

(* The worker owns the command: it is in the channel, in the queue, under  *)
(* way as a control, or the create it is starting.                         *)
InHand(c) ==
    \/ c \in ToSet(chan)
    \/ c \in ToSet(pending) \ Creates
    \/ c = ctl /\ pc \in {"control", "controlClaimed"}
    \/ c \in Creates /\ pc = "starting"

(* Past the dispatch claim: a write may happen and no fence stops it.      *)
Claimed(c) ==
    \/ pc = "executing" /\ c = Head(pending)
    \/ pc = "controlClaimed" /\ c = ctl

Delivered(c) == pc = "written" /\ c = Head(pending)

(* A row only a fence has settled, if anything has.                        *)
Undecided(c, s) ==
    /\ ledger[c].state \in {s, "settled"}
    /\ ledger[c].outcome \in {"none", "fenced"}
    /\ ledger[c].state = "settled" => ledger[c].outcome = "fenced"

(* What the row says of one command, by where the command is.              *)
StageIsKept(c) ==
    /\ rpc[c] \in Unsubmitted => ledger[c].state = "absent"
    /\ rpc[c] = "inserted" => Undecided(c, "queued")
    /\ InHand(c) => Undecided(c, "accepted")
    /\ c \in Creates \cap ToSet(pending) =>
          ledger[c].state = "settled" /\ ledger[c].outcome = "completed"

(* What a write leaves in the row, for a fence to read.                    *)
WriteIsMarked(c) ==
    /\ c \notin Creates /\ Claimed(c) =>
          /\ ledger[c].state = "accepted"
          /\ Initiator[c] > 0 => ledger[c].dispatch = "written"
    /\ Delivered(c) => wrote[c] = 1 /\ (c \notin Creates => ledger[c].state = "accepted")
    /\ wrote[c] > 0 =>
          /\ ledger[c].state # "absent"
          /\ Initiator[c] > 0 /\ ledger[c].state # "settled" => ledger[c].dispatch = "written"

(* The outcome of one row is true.                                         *)
RowIsTrue(c) ==
    /\ ledger[c].outcome = "fenced" => Initiator[c] > 0
    /\ ledger[c].outcome \notin {"none", "fenced"} => ledger[c].state = "settled"
    /\ ledger[c].state = "settled" =>
          /\ ledger[c].outcome # "none"
          /\ ledger[c].outcome \in {"rejected", "fenced", "withdrawn"} => wrote[c] = 0
          /\ ledger[c].outcome = "completed" /\ c \notin Creates => wrote[c] = 1

RowInv(c) == StageIsKept(c) /\ WriteIsMarked(c) /\ RowIsTrue(c)

LedgerInv == \A c \in Cmd : RowInv(c)

-----------------------------------------------------------------------------
(* What a step does with one row.                                          *)

(* A settled row is only rewritten if a fence settled it.                  *)
SettledStays(c) ==
    ledger[c].state = "settled" /\ ledger[c].outcome # "fenced" => ledger'[c] = ledger[c]

(* Nothing is claimed for a generation the fence table has left behind (the*)
(* prompt of a create settled with its driver and is not looked at again). *)
ClaimIsFree(c) == c \notin Creates /\ Claimed(c)' => Claimed(c) \/ ~is_fenced(c)

(* Only a close of an ended instance is written without a claim.           *)
WriteIsClaimed(c) == wrote'[c] = wrote[c] \/ Claimed(c) \/ c \in Closes \cup FenceCloses

RowStep(c) == RowInv(c)' /\ SettledStays(c) /\ ClaimIsFree(c) /\ WriteIsClaimed(c)

(* The step leaves the command where it is, or loses it, and leaves its    *)
(* row alone but for the mark of an unknown outcome.                       *)
Unmoved(c) ==
    /\ rpc'[c] \in Unsubmitted => rpc[c] \in Unsubmitted
    /\ rpc'[c] = "inserted" => rpc[c] = "inserted"
    /\ InHand(c)' => InHand(c)
    /\ c \in Creates \cap ToSet(pending') => c \in ToSet(pending)
    /\ Claimed(c)' => Claimed(c)
    /\ Delivered(c)' => Delivered(c)
    /\ \/ ledger'[c] = ledger[c]
       \/ ledger[c].state # "settled" /\ ledger'[c] = [ledger[c] EXCEPT !.unknown = TRUE]
    /\ wrote'[c] = wrote[c]

LEMMA UnmovedStep ==
    ASSUME TypeOK, NEW c \in Cmd, RowInv(c), Unmoved(c)
    PROVE  RowStep(c)
<1>1. ledger[c] \in LedgerRow
  BY DEF TypeOK
<1>2. /\ ledger'[c].state = ledger[c].state /\ ledger'[c].outcome = ledger[c].outcome
      /\ ledger'[c].dispatch = ledger[c].dispatch
  BY <1>1 DEF Unmoved, LedgerRow
<1>3. StageIsKept(c)'
  BY <1>2 DEF RowInv, Unmoved, StageIsKept, Undecided
<1>4. WriteIsMarked(c)'
  BY <1>2 DEF RowInv, Unmoved, WriteIsMarked
<1>5. RowIsTrue(c)'
  BY <1>2 DEF RowInv, Unmoved, RowIsTrue
<1>6. SettledStays(c) /\ ClaimIsFree(c) /\ WriteIsClaimed(c)
  BY DEF Unmoved, SettledStays, ClaimIsFree, WriteIsClaimed
<1> QED BY <1>3, <1>4, <1>5, <1>6 DEF RowStep, RowInv

(* The step settles the row and is done with the command.                  *)
LEMMA RetiredStep ==
    ASSUME NEW c \in Cmd, rpc'[c] = "answered", ~InHand(c)', c \notin ToSet(pending'),
           pc' \notin {"executing", "controlClaimed", "written"} \/ (~Claimed(c)' /\ ~Delivered(c)'),
           ledger'[c].state = "settled",
           ledger'[c].outcome \in Outcomes,
           ledger'[c].outcome = "fenced" => Initiator[c] > 0,
           ledger'[c].outcome \in {"rejected", "fenced", "withdrawn"} => wrote'[c] = 0,
           ledger'[c].outcome = "completed" /\ c \notin Creates => wrote'[c] = 1,
           ledger[c].state = "settled" => ledger[c].outcome = "fenced",
           WriteIsClaimed(c)
    PROVE  RowStep(c)
<1>1. ~Claimed(c)' /\ ~Delivered(c)'
  BY DEF Claimed, Delivered
<1>2. StageIsKept(c)'
  BY DEF StageIsKept, Unsubmitted
<1>3. WriteIsMarked(c)'
  BY <1>1 DEF WriteIsMarked
<1>4. RowIsTrue(c)'
  BY DEF RowIsTrue, Outcomes
<1>5. SettledStays(c) /\ ClaimIsFree(c)
  BY <1>1 DEF SettledStays, ClaimIsFree
<1> QED BY <1>2, <1>3, <1>4, <1>5 DEF RowStep, RowInv

(* A command nobody was answered for is nowhere yet.                       *)
LEMMA NotYet ==
    ASSUME DeliveryInv, NEW c \in Cmd, rpc[c] # "answered"
    PROVE  /\ ~InHand(c) /\ c \notin ToSet(pending) /\ c \notin ToSet(chan)
           /\ ~Claimed(c) /\ ~Delivered(c) /\ wrote[c] = 0
           /\ c = ctl => pc \notin {"control", "controlClaimed"}
           /\ c \in Creates => pc # "starting"
<1>0. TypeOK
  BY DEF DeliveryInv
<1>1. Fresh(c) /\ wrote[c] = 0 /\ held[c].st = "none"
  BY DEF DeliveryInv, UnsubmittedIsFresh, Fresh, NotHeld
<1>2. c \notin ToSet(pending)
  BY <1>0, <1>1, QueueTypes, SetOfSeq DEF DeliveryInv, PendingIsHeld
<1>3. c \notin ToSet(chan)
  BY <1>0, QueueTypes, SetOfSeq DEF DeliveryInv, ChannelIsFresh
<1>4. /\ c = ctl => pc \notin {"control", "controlClaimed"}
      /\ c \in Creates => pc # "starting"
  BY DEF DeliveryInv, ControlIsFresh, StartingIsFresh
<1>5. pc \in {"executing", "written"} => c # Head(pending)
  <2>1. pc \in {"executing", "written"} => pending # <<>>
    BY <1>0 DEF TypeOK
  <2> QED BY <2>1, PendingElement
<1> QED BY <1>1, <1>2, <1>3, <1>4, <1>5 DEF InHand, Claimed, Delivered

(* A queued prompt is not in the channel, and not written before the head  *)
(* is claimed.                                                             *)
LEMMA Queued ==
    ASSUME DeliveryInv, NEW c \in ToSet(pending)
    PROVE  /\ c \in Prompts /\ c \in Cmd /\ rpc[c] = "answered" /\ c \notin ToSet(chan)
           /\ c \notin Controls
           /\ pc \notin {"claimed", "executing", "written", "erred"} => wrote[c] = 0
<1>0. TypeOK
  BY DEF DeliveryInv
<1>1. c \in Prompts /\ c \in Cmd /\ c \notin Controls
  BY <1>0, QueueTypes, KindFacts
<1>2. held[c].st # "none"
  BY <1>0, QueueTypes, SetOfSeq DEF DeliveryInv, PendingIsHeld
<1>3. ~Fresh(c)
  BY <1>2 DEF Fresh, NotHeld
<1>4. rpc[c] = "answered"
  BY <1>1, <1>3 DEF DeliveryInv, UnsubmittedIsFresh
<1>5. c \notin ToSet(chan)
  BY <1>0, <1>3, QueueTypes, SetOfSeq DEF DeliveryInv, ChannelIsFresh
<1>6. held[c].st \in {"none", "waiting", "withdrawn", "delivering"}
  BY <1>0, <1>1 DEF TypeOK, HeldEntry
<1>7. pc \notin {"claimed", "executing", "written", "erred"} => wrote[c] = 0
  BY <1>1, <1>2, <1>6 DEF DeliveryInv, ClaimIsHead, WaitingIsUnwritten
<1> QED BY <1>1, <1>4, <1>5, <1>7

(* A command in the channel is answered and has not been touched.          *)
LEMMA Channelled ==
    ASSUME DeliveryInv, NEW c \in ToSet(chan)
    PROVE  /\ c \in Cmd /\ rpc[c] = "answered" /\ wrote[c] = 0 /\ c \notin Creates
           /\ c \notin ToSet(pending)
           /\ pc \in {"control", "controlClaimed"} => c # ctl
<1>0. TypeOK
  BY DEF DeliveryInv
<1>1. c \in Cmd /\ rpc[c] = "answered" /\ Fresh(c) /\ c \notin Creates
  BY <1>0, QueueTypes, SetOfSeq DEF DeliveryInv, ChannelIsFresh
<1>2. pc \in {"control", "controlClaimed"} => c # ctl
  BY <1>0, QueueTypes, SetOfSeq DEF DeliveryInv, ControlIsFresh
<1> QED BY <1>1, <1>2, Queued DEF Fresh

(* How the ledger's rows are rewritten.                                    *)
LEMMA AcceptEffect ==
    ASSUME NEW r \in LedgerRow
    PROVE  accept_command(r).state = "accepted" /\ accept_command(r).outcome = r.outcome
BY DEF LedgerRow, accept_command

LEMMA SettleEffect ==
    ASSUME NEW r \in LedgerRow, NEW o \in Outcomes
    PROVE  settle_command(r, o).state = "settled" /\ settle_command(r, o).outcome = o
BY DEF LedgerRow, settle_command, Outcomes

LEMMA NewRowFacts ==
    /\ NewRow \in LedgerRow /\ NewRow.state = "queued" /\ NewRow.outcome = "none"
    /\ accept_command(NewRow) \in LedgerRow
<1>1. NewRow \in LedgerRow /\ accept_command(NewRow) \in LedgerRow
  BY RowType
<1>2. NewRow.state = "queued" /\ NewRow.outcome = "none"
  BY DEF NewRow, NoRow
<1> QED BY <1>1, <1>2

LEMMA MarkEffect ==
    ASSUME NEW rows \in [Cmd -> LedgerRow], NEW c \in Cmd
    PROVE  \/ mark_unsettled_unknown(rows)[c] = rows[c]
           \/ /\ rows[c].state # "settled"
              /\ mark_unsettled_unknown(rows)[c] = [rows[c] EXCEPT !.unknown = TRUE]
BY DEF mark_unsettled_unknown

(* The step places an unwritten command: its row is new or just accepted.  *)
LEMMA PlacedStep ==
    ASSUME NEW c \in Cmd, wrote[c] = 0, wrote'[c] = 0, ~Claimed(c)', ~Delivered(c)',
           StageIsKept(c)', ledger'[c].state # "settled",
           ledger'[c].outcome \in {"none", "fenced"},
           ledger'[c].outcome = "fenced" => Initiator[c] > 0,
           ledger[c].state = "settled" => ledger[c].outcome = "fenced"
    PROVE  RowStep(c)
<1>1. WriteIsMarked(c)'
  BY DEF WriteIsMarked
<1>2. RowIsTrue(c)'
  BY DEF RowIsTrue
<1>3. SettledStays(c) /\ ClaimIsFree(c) /\ WriteIsClaimed(c)
  BY DEF SettledStays, ClaimIsFree, WriteIsClaimed
<1> QED BY <1>1, <1>2, <1>3 DEF RowStep, RowInv

(* The step drops a command the worker had, and settles it if it must.     *)
LEMMA DroppedStep ==
    ASSUME TypeOK, NEW c \in Cmd, RowInv(c), rpc'[c] = "answered", ~InHand(c)',
           c \notin ToSet(pending'), ~Claimed(c)', ~Delivered(c)', wrote'[c] = wrote[c],
           NEW o \in Outcomes,
           \/ ledger'[c] = ledger[c]
           \/ /\ ledger'[c] = settle_command(ledger[c], o)
              /\ ledger[c].state = "settled" => ledger[c].outcome = "fenced"
              /\ o = "fenced" => Initiator[c] > 0
              /\ o \in {"rejected", "fenced", "withdrawn"} => wrote[c] = 0
              /\ o = "completed" /\ c \notin Creates => wrote[c] = 1
    PROVE  RowStep(c)
<1>1. CASE ledger'[c] = ledger[c]
  <2>1. Unmoved(c)
    BY <1>1 DEF Unmoved, Unsubmitted
  <2> QED BY <2>1, UnmovedStep
<1>2. CASE ledger'[c] # ledger[c]
  <2>1. ledger[c] \in LedgerRow
    BY DEF TypeOK
  <2>2. ledger'[c].state = "settled" /\ ledger'[c].outcome = o
    BY <1>2, <2>1, SettleEffect
  <2>3. WriteIsClaimed(c)
    BY DEF WriteIsClaimed
  <2> QED BY <1>2, <2>2, <2>3, RetiredStep
<1> QED BY <1>1, <1>2

(* A fence settles a row that no claim has marked.                         *)
LEMMA FencedStep ==
    ASSUME TypeOK, NEW c \in Cmd, RowInv(c), UNCHANGED <<rpc, chan, pending, pc, ctl, wrote>>,
           Initiator[c] > 0, ledger[c].state \in {"queued", "accepted"},
           ledger[c].dispatch # "written", ledger'[c] = settle_command(ledger[c], "fenced")
    PROVE  RowStep(c)
<1>1. ledger[c] \in LedgerRow /\ wrote[c] \in Nat
  BY DEF TypeOK
<1>2. ledger'[c].state = "settled" /\ ledger'[c].outcome = "fenced"
  BY <1>1, SettleEffect DEF Outcomes
<1>3. wrote[c] = 0
  BY <1>1 DEF RowInv, WriteIsMarked
<1>4. c \notin Creates => ~Claimed(c) /\ ~Delivered(c)
  BY <1>3 DEF RowInv, WriteIsMarked
<1>5. ~Delivered(c)
  BY <1>3 DEF RowInv, WriteIsMarked
<1>6. StageIsKept(c)'
  BY <1>2 DEF RowInv, StageIsKept, Undecided, Unsubmitted, InHand
<1>7. WriteIsMarked(c)'
  BY <1>3, <1>4, <1>5 DEF WriteIsMarked, Claimed, Delivered
<1>8. RowIsTrue(c)'
  BY <1>2, <1>3 DEF RowIsTrue
<1>9. SettledStays(c) /\ ClaimIsFree(c) /\ WriteIsClaimed(c)
  BY <1>4 DEF SettledStays, ClaimIsFree, WriteIsClaimed, Claimed
<1> QED BY <1>6, <1>7, <1>8, <1>9 DEF RowStep, RowInv

-----------------------------------------------------------------------------
(* One lemma for each group of actions.                                    *)

LEMMA LedgerSubmit ==
    ASSUME DeliveryInv, LedgerInv, Submit PROVE \A d \in Cmd : RowStep(d)
<1>0. TypeOK
  BY DEF DeliveryInv
<1> PICK c \in Cmd : \/ Admit(c) \/ insert_command(c) \/ enqueue_existing(c)
                     \/ EnqueueRejected(c) \/ CloseEnded(c)
  BY DEF Submit
<1>1. /\ rpc[c] \in {"idle", "admitted", "inserted"} /\ UNCHANGED <<pending, pc, ctl>>
      /\ \A d \in Cmd : d # c => rpc'[d] = rpc[d]
  BY <1>0 DEF Admit, insert_command, enqueue_existing, EnqueueRejected, CloseEnded, AnswerSubmit,
     queueVars, workerVars, TypeOK
<1>2. ToSet(chan') \subseteq ToSet(chan) \cup {c} /\ (chan' = chan \/ enqueue_existing(c))
  <2>1. chan' = chan \/ (chan' = Append(chan, c) /\ enqueue_existing(c))
    BY DEF Admit, insert_command, enqueue_existing, EnqueueRejected, CloseEnded, queueVars
  <2>2. ToSet(Append(chan, c)) = ToSet(chan) \cup {c}
    BY <1>0, QueueTypes, SetOfAppend
  <2> QED BY <2>1, <2>2
<1>3. /\ ~InHand(c) /\ c \notin ToSet(pending) /\ c \notin ToSet(chan)
      /\ ~Claimed(c) /\ ~Delivered(c) /\ wrote[c] = 0
      /\ c = ctl => pc \notin {"control", "controlClaimed"}
  BY <1>1, NotYet
<1>4. RowInv(c) /\ ledger[c] \in LedgerRow
  BY <1>0 DEF LedgerInv, TypeOK
<1>5. ~Claimed(c)' /\ ~Delivered(c)'
  BY <1>1, <1>3 DEF Claimed, Delivered
<1>6. ASSUME NEW d \in Cmd, d # c PROVE RowStep(d)
  <2>1. wrote'[d] = wrote[d]
    <3>1. wrote' = wrote \/ wrote' = [wrote EXCEPT ![c] = @ + 1]
      BY DEF Admit, insert_command, enqueue_existing, EnqueueRejected, CloseEnded, historyVars
    <3> QED BY <1>0, <1>6, <3>1 DEF TypeOK
  <2>2. \/ ledger'[d] = ledger[d]
        \/ ledger[d].state # "settled" /\ ledger'[d] = [ledger[d] EXCEPT !.unknown = TRUE]
    <3>1. \/ ledger'[d] = ledger[d]
          \/ ledger'[d] = mark_unsettled_unknown(ledger)[d]
      <4>1. ledger \in [Cmd -> LedgerRow] /\ mark_unsettled_unknown(ledger) \in [Cmd -> LedgerRow]
        BY <1>0, MarkType DEF TypeOK
      <4>2. \/ \E r : ledger' = [ledger EXCEPT ![c] = r]
            \/ \E r : ledger' = [mark_unsettled_unknown(ledger) EXCEPT ![c] = r]
            \/ ledger' = ledger
        BY DEF Admit, insert_command, enqueue_existing, EnqueueRejected, CloseEnded, storeVars,
           UnknownIfRunning
      <4> QED BY <1>6, <4>1, <4>2
    <3> QED BY <1>0, <3>1, MarkEffect DEF TypeOK
  <2>3. Unmoved(d)
    BY <1>1, <1>2, <1>6, <2>1, <2>2 DEF Unmoved, InHand, Claimed, Delivered
  <2> QED BY <1>0, <2>3, UnmovedStep DEF LedgerInv
<1>7. ASSUME chan' = chan PROVE ~InHand(c)'
  BY <1>1, <1>3, <1>7 DEF InHand
<1>8. ASSUME Admit(c) PROVE RowStep(c)
  <2>1. Unmoved(c)
    <3>1. chan' = chan /\ ledger' = ledger /\ wrote' = wrote /\ rpc[c] \in Unsubmitted
      BY <1>8 DEF Admit, queueVars, storeVars, historyVars, Unsubmitted
    <3>2. rpc'[c] # "inserted"
      BY <1>0, <1>8 DEF Admit, TypeOK
    <3> QED BY <1>1, <1>5, <1>7, <3>1, <3>2 DEF Unmoved
  <2> QED BY <1>0, <1>4, <2>1, UnmovedStep
<1>9. ASSUME insert_command(c) PROVE RowStep(c)
  <2>1. /\ ledger'[c] = NewRow /\ rpc'[c] = "inserted" /\ wrote' = wrote /\ chan' = chan
    BY <1>0, <1>9 DEF insert_command, TypeOK, historyVars, queueVars
  <2>2. ledger'[c].state = "queued" /\ ledger'[c].outcome = "none"
    BY <2>1, NewRowFacts
  <2>3. StageIsKept(c)'
    BY <1>1, <1>3, <1>7, <2>1, <2>2 DEF StageIsKept, Unsubmitted, Undecided
  <2>4. ledger[c].state # "settled"
    BY <1>4, <1>9 DEF insert_command, RowInv, StageIsKept, Unsubmitted
  <2> QED BY <1>3, <1>5, <2>1, <2>2, <2>3, <2>4, PlacedStep
<1>10. ASSUME rpc[c] = "inserted" PROVE RowStep(c)
  <2>1. Undecided(c, "queued")
    BY <1>4, <1>10 DEF RowInv, StageIsKept
  <2>2. c \notin Creates /\ rpc'[c] = "answered"
    BY <1>0, <1>10, KindsAssumption DEF Admit, insert_command, enqueue_existing, EnqueueRejected,
       CloseEnded, AnswerSubmit, TypeOK, Prompts, Controls
  <2>3. CASE enqueue_existing(c)
    <3>1. ledger'[c] = accept_command(ledger[c]) /\ wrote' = wrote
      BY <1>0, <2>3 DEF enqueue_existing, TypeOK
    <3>2. ledger'[c].state = "accepted" /\ ledger'[c].outcome = ledger[c].outcome
      BY <1>4, <3>1, AcceptEffect
    <3>3. StageIsKept(c)'
      BY <2>1, <2>2, <3>2 DEF StageIsKept, Unsubmitted, Undecided
    <3>4. ledger[c].outcome = "fenced" => Initiator[c] > 0
      BY <1>4 DEF RowInv, RowIsTrue
    <3> QED BY <1>3, <1>5, <2>1, <3>1, <3>2, <3>3, <3>4, PlacedStep DEF Undecided
  <2>4. CASE EnqueueRejected(c)
    <3>1. ledger'[c] = settle_command(NewRow, "rejected") /\ wrote' = wrote /\ chan' = chan
      BY <1>0, <2>4 DEF EnqueueRejected, TypeOK, historyVars, queueVars
    <3>2. ledger'[c].state = "settled" /\ ledger'[c].outcome = "rejected"
      BY <3>1, NewRowFacts, SettleEffect DEF Outcomes
    <3>3. WriteIsClaimed(c)
      BY <3>1 DEF WriteIsClaimed
    <3> QED BY <1>1, <1>3, <1>5, <1>7, <2>1, <2>2, <3>1, <3>2, <3>3, RetiredStep DEF Undecided, Outcomes
  <2>5. CASE CloseEnded(c)
    <3>1. chan' = chan /\ c \in Closes \cup FenceCloses
      BY <2>5 DEF CloseEnded, queueVars
    <3>2. CASE UNCHANGED <<ledger, wrote>>
      <4>1. Unmoved(c)
        BY <1>1, <1>5, <1>7, <2>2, <3>1, <3>2 DEF Unmoved, Unsubmitted
      <4> QED BY <1>0, <1>4, <4>1, UnmovedStep
    <3>3. CASE /\ ledger' = [UnknownIfRunning EXCEPT
                                ![c] = settle_command(accept_command(NewRow), "completed")]
               /\ wrote' = [wrote EXCEPT ![c] = @ + 1]
      <4>1. wrote'[c] = 1
        BY <1>0, <1>3, <3>3 DEF TypeOK
      <4>2. UnknownIfRunning \in [Cmd -> LedgerRow]
        BY <1>0, MarkType DEF UnknownIfRunning, TypeOK
      <4>3. ledger'[c] = settle_command(accept_command(NewRow), "completed")
        BY <3>3, <4>2
      <4>4. ledger'[c].state = "settled" /\ ledger'[c].outcome = "completed"
        BY <4>3, NewRowFacts, SettleEffect DEF Outcomes
      <4>5. WriteIsClaimed(c)
        BY <3>1 DEF WriteIsClaimed
      <4> QED BY <1>1, <1>3, <1>5, <1>7, <2>1, <2>2, <3>1, <4>1, <4>4, <4>5, RetiredStep
              DEF Undecided, Outcomes
    <3> QED BY <2>5, <3>2, <3>3 DEF CloseEnded
  <2> QED BY <1>10, <2>3, <2>4, <2>5 DEF Admit, insert_command
<1>11. RowStep(c)
  BY <1>8, <1>9, <1>10 DEF enqueue_existing, EnqueueRejected, CloseEnded
<1> QED BY <1>6, <1>11

LEMMA LedgerCreate ==
    ASSUME DeliveryInv, LedgerInv, Create PROVE \A d \in Cmd : RowStep(d)
<1>0. TypeOK
  BY DEF DeliveryInv
<1> PICK c \in Creates : \/ CreateCheck(c) \/ record_lineage(c)
                         \/ CreateInsert(c) \/ CreateAccept(c)
  BY DEF Create
<1>1. c \in Cmd /\ \A d \in Creates : d = c
  BY KindFacts, CreateAssumption
<1>2. /\ rpc[c] \in {"idle", "checked", "admitted", "inserted"}
      /\ UNCHANGED <<chan, pending, ctl, wrote>>
      /\ \A d \in Cmd : d # c => rpc'[d] = rpc[d] /\ ledger'[d] = ledger[d]
      /\ pc' = pc \/ (pc = "absent" /\ pc' = "starting" /\ CreateAccept(c))
  BY <1>0, <1>1 DEF CreateCheck, record_lineage, CreateInsert, CreateAccept, queueVars, workerVars,
     historyVars, storeVars, TypeOK
<1>3. /\ ~InHand(c) /\ c \notin ToSet(pending) /\ c \notin ToSet(chan)
      /\ ~Claimed(c) /\ ~Delivered(c) /\ wrote[c] = 0
      /\ c = ctl => pc \notin {"control", "controlClaimed"}
      /\ pc # "starting"
  BY <1>1, <1>2, NotYet
<1>4. RowInv(c) /\ ledger[c] \in LedgerRow
  BY <1>0, <1>1 DEF LedgerInv, TypeOK
<1>5. ~Claimed(c)' /\ ~Delivered(c)'
  BY <1>2, <1>3 DEF Claimed, Delivered
<1>6. ASSUME NEW d \in Cmd, d # c PROVE RowStep(d)
  <2>1. Unmoved(d)
    BY <1>1, <1>2, <1>6 DEF Unmoved, InHand, Claimed, Delivered
  <2> QED BY <1>0, <2>1, UnmovedStep DEF LedgerInv
<1>7. ASSUME CreateCheck(c) \/ record_lineage(c) PROVE RowStep(c)
  <2>1. /\ ledger' = ledger /\ pc' = pc /\ rpc[c] \in Unsubmitted /\ rpc'[c] # "inserted"
    BY <1>0, <1>1, <1>7 DEF CreateCheck, record_lineage, TypeOK, storeVars, workerVars, Unsubmitted
  <2>2. Unmoved(c)
    BY <1>2, <1>3, <1>5, <2>1 DEF Unmoved, InHand
  <2> QED BY <1>0, <1>1, <1>4, <2>2, UnmovedStep
<1>8. ASSUME CreateInsert(c) PROVE RowStep(c)
  <2>1. ledger'[c] = NewRow /\ rpc'[c] = "inserted" /\ pc' = pc
    BY <1>0, <1>1, <1>8 DEF CreateInsert, TypeOK, workerVars
  <2>2. ledger'[c].state = "queued" /\ ledger'[c].outcome = "none"
    BY <2>1, NewRowFacts
  <2>3. StageIsKept(c)'
    BY <1>2, <1>3, <2>1, <2>2 DEF StageIsKept, Unsubmitted, Undecided, InHand
  <2>4. ledger[c].state # "settled"
    BY <1>4, <1>8 DEF CreateInsert, RowInv, StageIsKept, Unsubmitted
  <2> QED BY <1>1, <1>2, <1>3, <1>5, <2>1, <2>2, <2>3, <2>4, PlacedStep
<1>9. ASSUME CreateAccept(c) PROVE RowStep(c)
  <2>1. ledger'[c] = accept_command(NewRow) /\ rpc'[c] = "answered" /\ rpc[c] = "inserted"
    BY <1>0, <1>1, <1>9 DEF CreateAccept, TypeOK
  <2>2. ledger'[c].state = "accepted" /\ ledger'[c].outcome = "none"
    BY <2>1, NewRowFacts, AcceptEffect
  <2>3. StageIsKept(c)'
    BY <1>2, <1>3, <2>1, <2>2 DEF StageIsKept, Unsubmitted, Undecided
  <2>4. ledger[c].state = "settled" => ledger[c].outcome = "fenced"
    BY <1>4, <2>1 DEF RowInv, StageIsKept, Undecided
  <2> QED BY <1>1, <1>2, <1>3, <1>5, <2>1, <2>2, <2>3, <2>4, PlacedStep
<1>10. RowStep(c)
  BY <1>7, <1>8, <1>9
<1> QED BY <1>6, <1>10

(* The driver starts or fails: the create settles, and so does what waits. *)
LEMMA LedgerStart ==
    ASSUME DeliveryInv, LedgerInv, Start PROVE \A d \in Cmd : RowStep(d)
<1>0. TypeOK /\ ledger \in [Cmd -> LedgerRow]
  BY DEF DeliveryInv, TypeOK
<1>1. /\ pc \in {"starting", "failing"} /\ pc' \in {"select", "ended", "failing"}
      /\ UNCHANGED <<rpc, wrote, ctl>>
  BY DEF queueVars, historyVars, Start, StartOk, StartFail, BuildFail, BuildFailReturn
<1>2. \A d \in Cmd : ~Claimed(d)' /\ ~Delivered(d)'
  BY <1>1 DEF Claimed, Delivered
<1>3. ASSUME BuildFail \/ BuildFailReturn PROVE \A d \in Cmd : RowStep(d)
  <2> TAKE d \in Cmd
  <2>1. ToSet(chan') \subseteq ToSet(chan) /\ pending' = pending
    <3>1. (chan' = chan \/ chan' = <<>>) /\ pending' = pending
      BY <1>3 DEF BuildFail, BuildFailReturn, queueVars
    <3> QED BY <1>0, <3>1, QueueTypes
  <2>2. ledger' = ledger \/ ledger' = mark_unsettled_unknown(ledger)
    BY <1>3 DEF BuildFail, BuildFailReturn, record_task_exit, storeVars
  <2>3. \/ ledger'[d] = ledger[d]
        \/ ledger[d].state # "settled" /\ ledger'[d] = [ledger[d] EXCEPT !.unknown = TRUE]
    BY <1>0, <2>2, MarkEffect
  <2>4. Unmoved(d)
    BY <1>1, <1>2, <2>1, <2>3 DEF Unmoved, InHand
  <2> QED BY <1>0, <2>4, UnmovedStep DEF LedgerInv
<1>4. ASSUME NEW c \in Creates, StartFail(c) PROVE \A d \in Cmd : RowStep(d)
  <2> TAKE d \in Cmd
  <2> DEFINE settledRow == IF d = c THEN settle_command(accept_command(NewRow), "rejected")
                           ELSE IF d \in ToSet(chan) THEN settle_command(ledger[d], "rejected")
                           ELSE ledger[d]
  <2>1. /\ c \in Cmd /\ pc = "starting" /\ \A e \in Creates : e = c
        /\ chan' = <<>> /\ pending' = pending /\ pc' = "ended"
    BY <1>4, KindFacts, CreateAssumption DEF StartFail
  <2>2. pending = <<>> /\ rpc[c] = "answered" /\ wrote[c] = 0
    BY <1>4, <2>1 DEF DeliveryInv, StartingIsFresh, Fresh
  <2>3. ToSet(pending') = {} /\ ToSet(chan') = {} /\ ~InHand(d)'
    BY <1>0, <2>1, <2>2, QueueTypes DEF InHand
  <2>4. ledger[d] \in LedgerRow /\ RowInv(d)
    BY <1>0 DEF LedgerInv
  <2>5. InHand(c) /\ (d \in ToSet(chan) => InHand(d) /\ wrote[d] = 0 /\ rpc[d] = "answered")
    BY <1>4, <2>1, Channelled DEF InHand
  <2>6. settledRow \in LedgerRow
    BY <2>4, NewRowFacts, RowType DEF Outcomes
  <2>7. \/ ledger'[d] = settledRow
        \/ settledRow.state # "settled" /\ ledger'[d] = [settledRow EXCEPT !.unknown = TRUE]
    <3> DEFINE rows == [e \in Cmd |-> IF e = c THEN settle_command(accept_command(NewRow), "rejected")
                           ELSE IF e \in ToSet(chan) THEN settle_command(ledger[e], "rejected")
                           ELSE ledger[e]]
    <3>1. ledger' = rows \/ ledger' = mark_unsettled_unknown(rows)
      BY <1>4 DEF StartFail, record_task_exit
    <3>2. rows \in [Cmd -> LedgerRow]
      BY <1>0, NewRowFacts, RowType DEF Outcomes
    <3>3. rows[d] = settledRow
      OBVIOUS
    <3> HIDE DEF rows, settledRow
    <3> QED BY <3>1, <3>2, <3>3, MarkEffect
  <2>8. CASE d = c \/ d \in ToSet(chan)
    <3>1. settledRow.state = "settled" /\ settledRow.outcome = "rejected"
      BY <2>4, <2>8, NewRowFacts, SettleEffect DEF Outcomes
    <3>2. ledger'[d].state = "settled" /\ ledger'[d].outcome = "rejected"
      BY <2>7, <3>1
    <3>3. ledger[d].state = "settled" => ledger[d].outcome = "fenced"
      BY <2>4, <2>5, <2>8 DEF RowInv, StageIsKept, Undecided
    <3>4. WriteIsClaimed(d) /\ rpc'[d] = "answered" /\ wrote'[d] = 0
      BY <1>1, <2>2, <2>5, <2>8 DEF WriteIsClaimed
    <3> QED BY <1>2, <2>3, <3>2, <3>3, <3>4, RetiredStep DEF Outcomes
  <2>9. CASE d # c /\ d \notin ToSet(chan)
    <3>1. settledRow = ledger[d]
      BY <2>9
    <3>2. Unmoved(d)
      BY <1>1, <1>2, <2>3, <2>7, <3>1 DEF Unmoved
    <3> QED BY <1>0, <2>4, <3>2, UnmovedStep
  <2> QED BY <2>8, <2>9
<1>5. ASSUME NEW c \in Creates, NEW hasPrompt \in BOOLEAN, StartOk(c, hasPrompt)
      PROVE  \A d \in Cmd : RowStep(d)
  <2> TAKE d \in Cmd
  <2>1. /\ c \in Cmd /\ pc = "starting" /\ \A e \in Creates : e = c
        /\ chan' = chan /\ pc' = "select"
        /\ ledger' = [ledger EXCEPT ![c] = settle_command(accept_command(NewRow), "completed")]
        /\ pending' = <<c>> \/ pending' = <<>>
    BY <1>5, KindFacts, CreateAssumption DEF StartOk
  <2>2. rpc[c] = "answered" /\ wrote[c] = 0 /\ InHand(c)
    BY <1>5, <2>1 DEF DeliveryInv, StartingIsFresh, Fresh, InHand
  <2>3. ToSet(pending') \subseteq {c}
    BY <2>1 DEF ToSet
  <2>4. CASE d = c
    <3>1. ledger'[c] = settle_command(accept_command(NewRow), "completed")
      BY <1>0, <2>1
    <3>2. ledger'[c].state = "settled" /\ ledger'[c].outcome = "completed"
      BY <3>1, NewRowFacts, SettleEffect DEF Outcomes
    <3>3. c \notin ToSet(chan)
      BY <1>5, Channelled
    <3>4. StageIsKept(c)'
      BY <1>1, <1>5, <2>1, <2>2, <3>2, <3>3 DEF StageIsKept, Unsubmitted, InHand
    <3>5. WriteIsMarked(c)' /\ RowIsTrue(c)'
      BY <1>1, <1>2, <1>5, <2>1, <2>2, <3>2 DEF WriteIsMarked, RowIsTrue
    <3>6. SettledStays(c) /\ ClaimIsFree(c) /\ WriteIsClaimed(c)
      BY <1>1, <1>2, <2>1, <2>2 DEF SettledStays, ClaimIsFree, WriteIsClaimed, LedgerInv, RowInv,
         StageIsKept, Undecided
    <3> QED BY <2>4, <3>4, <3>5, <3>6 DEF RowStep, RowInv
  <2>5. CASE d # c
    <3>1. ledger'[d] = ledger[d]
      BY <1>0, <2>1, <2>5
    <3>2. Unmoved(d)
      BY <1>1, <1>2, <2>1, <2>3, <2>5, <3>1 DEF Unmoved, InHand
    <3> QED BY <1>0, <3>2, UnmovedStep DEF LedgerInv
  <2> QED BY <2>4, <2>5
<1> QED BY <1>3, <1>4, <1>5 DEF Start

(* interrupt_pending settles every queued prompt that is not settled.      *)
LEMMA InterruptRows ==
    ASSUME TypeOK, interrupt_pending, NEW d \in Cmd
    PROVE  \/ ledger'[d] = ledger[d]
           \/ /\ d \in ToSet(pending) /\ ledger[d].state # "settled"
              /\ ledger'[d] = settle_command(ledger[d], "rejected")
BY DEF interrupt_pending, TypeOK, UnlessSettled

LEMMA LedgerRecv ==
    ASSUME DeliveryInv, LedgerInv, Recv PROVE \A d \in Cmd : RowStep(d)
<1>0. TypeOK /\ ledger \in [Cmd -> LedgerRow]
  BY DEF DeliveryInv, TypeOK
<1> PICK c \in Cmd : RecvFull(c) \/ RecvPrompt(c) \/ RecvSteer(c) \/ RecvControl(c)
  BY DEF Recv
<1>1. /\ pc = "select" /\ pc' \in {"select", "control"} /\ chan # <<>>
      /\ c = Head(chan) /\ chan' = Tail(chan) /\ UNCHANGED <<rpc, wrote>>
  BY DEF RecvFull, RecvPrompt, RecvSteer, RecvControl, historyVars, workerVars
<1>2. ToSet(chan) = ToSet(chan') \cup {c} /\ c \notin ToSet(chan')
  BY <1>0, <1>1, QueueTypes, SetOfTail DEF DeliveryInv, ChannelIsFresh
<1>3. /\ rpc[c] = "answered" /\ wrote[c] = 0 /\ c \notin Creates /\ c \notin ToSet(pending)
      /\ InHand(c) /\ RowInv(c)
  BY <1>2, Channelled DEF InHand, LedgerInv
<1>4. \A d \in Cmd : ~Claimed(d)' /\ ~Delivered(d)'
  BY <1>1 DEF Claimed, Delivered
<1>5. ASSUME RecvFull(c) PROVE \A d \in Cmd : RowStep(d)
  <2> TAKE d \in Cmd
  <2>1. /\ ledger' = [ledger EXCEPT ![c] = settle_command(@, "rejected")]
        /\ pending' = pending /\ pc' = "select"
    BY <1>1, <1>5 DEF RecvFull, workerVars
  <2>2. CASE d = c
    <3>1. ledger'[c] = settle_command(ledger[c], "rejected")
      BY <1>0, <2>1
    <3>2. ~InHand(c)'
      BY <1>2, <1>3, <2>1 DEF InHand
    <3>3. ledger[c].state = "settled" => ledger[c].outcome = "fenced"
      BY <1>3 DEF RowInv, StageIsKept, Undecided
    <3>4. RowStep(c)
      BY <1>0, <1>1, <1>3, <1>4, <2>1, <3>1, <3>2, <3>3, DroppedStep DEF Outcomes
    <3> QED BY <2>2, <3>4
  <2>3. CASE d # c
    <3>1. ledger'[d] = ledger[d]
      BY <1>0, <2>1, <2>3
    <3>2. Unmoved(d)
      BY <1>1, <1>2, <1>4, <2>1, <3>1 DEF Unmoved, InHand
    <3> QED BY <1>0, <3>2, UnmovedStep DEF LedgerInv
  <2> QED BY <2>2, <2>3
<1>6. ASSUME RecvPrompt(c) \/ RecvSteer(c) PROVE \A d \in Cmd : RowStep(d)
  <2> TAKE d \in Cmd
  <2>1. ToSet(pending') = ToSet(pending) \cup {c}
    BY <1>6, Received
  <2>2. ledger' = ledger /\ pc' = "select"
    BY <1>1, <1>6 DEF RecvPrompt, RecvSteer, workerVars
  <2>3. Unmoved(d)
    BY <1>1, <1>2, <1>3, <1>4, <2>1, <2>2 DEF Unmoved, InHand
  <2> QED BY <1>0, <2>3, UnmovedStep DEF LedgerInv
<1>7. ASSUME RecvControl(c) PROVE \A d \in Cmd : RowStep(d)
  <2> TAKE d \in Cmd
  <2>1. /\ pc' = "control" /\ ctl' = c
        /\ UNCHANGED <<ledger, pending>> \/ interrupt_pending
    BY <1>7 DEF RecvControl
  <2>2. pending' = pending \/ ToSet(pending') = {}
    BY <1>0, <2>1, Interrupted
  <2>3. CASE ledger'[d] = ledger[d]
    <3>1. Unmoved(d)
      BY <1>1, <1>2, <1>3, <1>4, <2>1, <2>2, <2>3 DEF Unmoved, InHand
    <3> QED BY <1>0, <3>1, UnmovedStep DEF LedgerInv
  <2>4. CASE ledger'[d] # ledger[d]
    <3>1. interrupt_pending
      BY <2>1, <2>4
    <3>2. /\ d \in ToSet(pending) /\ ledger[d].state # "settled"
          /\ ledger'[d] = settle_command(ledger[d], "rejected")
      BY <1>0, <2>4, <3>1, InterruptRows
    <3>3. /\ rpc[d] = "answered" /\ d \notin ToSet(chan) /\ wrote[d] = 0
      BY <1>1, <3>2, Queued
    <3>4. ToSet(pending') = {}
      BY <1>0, <3>1, Interrupted
    <3>5. ~InHand(d)'
      BY <1>2, <1>3, <2>1, <3>2, <3>3, <3>4 DEF InHand
    <3> QED BY <1>0, <1>1, <1>4, <3>2, <3>3, <3>4, <3>5, DroppedStep DEF LedgerInv, Outcomes
  <2> QED BY <2>3, <2>4
<1> QED BY <1>5, <1>6, <1>7

(* The dispatch claim of fence.rs: what it does to the row it looks at.    *)
LEMMA ClaimEffect ==
    ASSUME TypeOK, NEW c \in Cmd, ledger' = claim(c)
    PROVE  /\ \A d \in Cmd : d # c => ledger'[d] = ledger[d]
           /\ ClaimRefused(c) =>
                 \/ ledger'[c] = ledger[c]
                 \/ /\ ledger'[c] = settle_command(ledger[c], "fenced")
                    /\ ledger[c].state # "settled" /\ Initiator[c] > 0
           /\ ~ClaimRefused(c) =>
                 \/ /\ ledger'[c] = ledger[c]
                    /\ Initiator[c] = 0 \/ (ledger[c].state = "settled" /\ ledger[c].outcome # "fenced")
                 \/ /\ ledger'[c] = [ledger[c] EXCEPT !.dispatch = "written"]
                    /\ ledger[c].state # "settled" /\ Initiator[c] > 0 /\ ~is_fenced(c)
<1>1. ledger \in [Cmd -> LedgerRow] /\ Initiator[c] \in Nat
  BY GenerationAssumption DEF TypeOK
<1>2. /\ \A d \in Cmd : d # c => ledger'[d] = ledger[d]
      /\ ledger'[c] = IF Initiator[c] = 0 \/ ledger[c].state = "settled" THEN ledger[c]
                      ELSE IF is_fenced(c) THEN settle_command(ledger[c], "fenced")
                      ELSE [ledger[c] EXCEPT !.dispatch = "written"]
  BY <1>1 DEF claim
<1> QED BY <1>1, <1>2 DEF ClaimRefused, settled_fenced, is_fenced

(* The claim marks the row of a command it lets through.                   *)
LEMMA ClaimedStep ==
    ASSUME TypeOK, NEW c \in Cmd, InHand(c), RowInv(c), wrote[c] = 0, wrote'[c] = 0,
           rpc'[c] = rpc[c], rpc[c] = "answered", c \notin Creates, InHand(c)', ~Delivered(c)',
           ledger' = claim(c), ~ClaimRefused(c)
    PROVE  RowStep(c)
<1>1. Undecided(c, "accepted") /\ (ledger[c].outcome = "fenced" => Initiator[c] > 0)
  BY DEF RowInv, StageIsKept, RowIsTrue
<1>2. ledger[c] \in LedgerRow /\ Initiator[c] \in Nat
  BY GenerationAssumption DEF TypeOK
<1>3. \/ ledger'[c] = ledger[c] /\ Initiator[c] = 0
      \/ /\ ledger'[c] = [ledger[c] EXCEPT !.dispatch = "written"]
         /\ ledger[c].state # "settled" /\ ~is_fenced(c)
  BY <1>1, ClaimEffect DEF Undecided
<1>4. ledger[c].state = "accepted"
  BY <1>1, <1>2, <1>3 DEF Undecided
<1>5. /\ ledger'[c].state = "accepted" /\ ledger'[c].outcome = ledger[c].outcome
      /\ Initiator[c] > 0 => ledger'[c].dispatch = "written"
  BY <1>2, <1>3, <1>4 DEF LedgerRow
<1>6. StageIsKept(c)'
  BY <1>1, <1>5 DEF StageIsKept, Unsubmitted, Undecided
<1>7. WriteIsMarked(c)' /\ RowIsTrue(c)'
  BY <1>1, <1>5 DEF WriteIsMarked, RowIsTrue, Undecided
<1>8. ~is_fenced(c)
  BY <1>3 DEF is_fenced
<1>9. SettledStays(c) /\ ClaimIsFree(c) /\ WriteIsClaimed(c)
  BY <1>4, <1>8 DEF SettledStays, ClaimIsFree, WriteIsClaimed
<1> QED BY <1>6, <1>7, <1>9 DEF RowStep, RowInv

LEMMA LedgerControl ==
    ASSUME DeliveryInv, LedgerInv, Control PROVE \A d \in Cmd : RowStep(d)
<1>0. TypeOK /\ ledger \in [Cmd -> LedgerRow] /\ wrote \in [Cmd -> Nat]
  BY DEF DeliveryInv, TypeOK
<1>1. /\ pc \in {"control", "controlClaimed", "controlDone"} /\ UNCHANGED <<rpc, pending>>
      /\ pc' \in {"controlClaimed", "controlDone", "select", "ended"}
  BY DEF Control, ControlClaim, ControlOk, ControlErr, ControlReturn, queueVars
<1>2. ctl \in Controls /\ ctl \in Cmd /\ ctl \notin Prompts /\ ctl \notin ToSet(pending)
  BY <1>0, <1>1, KindFacts, KindsAssumption, QueueTypes DEF TypeOK
<1>3. RowInv(ctl) /\ ctl \notin Creates
  BY <1>2, KindFacts DEF LedgerInv
<1>4. \A d \in Cmd : ~Delivered(d)'
  BY <1>1 DEF Delivered
<1>5. ASSUME pc \in {"control", "controlClaimed"}
      PROVE  rpc[ctl] = "answered" /\ wrote[ctl] = 0 /\ ctl \notin ToSet(chan) /\ InHand(ctl)
  <2>1. rpc[ctl] = "answered" /\ wrote[ctl] = 0 /\ \A i \in 1..Len(chan) : chan[i] # ctl
    BY <1>5 DEF DeliveryInv, ControlIsFresh, Fresh
  <2>2. ctl \notin ToSet(chan)
    <3>1. chan \in Seq(Cmd)
      BY <1>0, QueueTypes
    <3>2. ToSet(chan) = {chan[i] : i \in 1..Len(chan)}
      BY <3>1, SetOfSeq
    <3> QED BY <2>1, <3>2
  <2> QED BY <1>5, <2>1, <2>2 DEF InHand
<1>6. ASSUME NEW d \in Cmd, d # ctl, UNCHANGED <<chan, ctl>>, pc' \in {"controlClaimed", "controlDone"},
             ledger'[d] = ledger[d], wrote'[d] = wrote[d]
      PROVE  RowStep(d)
  <2>1. Unmoved(d)
    BY <1>1, <1>4, <1>6 DEF Unmoved, InHand, Claimed
  <2> QED BY <1>0, <2>1, UnmovedStep DEF LedgerInv
<1>7. ASSUME UNCHANGED <<chan, ctl>>, pc' = "controlDone", pc \in {"control", "controlClaimed"}
      PROVE  ~InHand(ctl)' /\ ~Claimed(ctl)' /\ ctl \notin ToSet(pending')
  BY <1>1, <1>2, <1>3, <1>5, <1>7 DEF InHand, Claimed
<1>8. ASSUME ControlClaim PROVE \A d \in Cmd : RowStep(d)
  <2>1. /\ pc = "control" /\ ledger' = claim(ctl) /\ UNCHANGED <<chan, ctl, wrote>>
        /\ pc' = IF ClaimRefused(ctl) THEN "controlDone" ELSE "controlClaimed"
    BY <1>8 DEF ControlClaim, queueVars, historyVars
  <2>2. \A d \in Cmd : d # ctl => RowStep(d)
    BY <1>0, <1>2, <1>6, <2>1, ClaimEffect
  <2>3. CASE ClaimRefused(ctl)
    <3>1. \/ ledger'[ctl] = ledger[ctl]
          \/ /\ ledger'[ctl] = settle_command(ledger[ctl], "fenced")
             /\ ledger[ctl].state # "settled" /\ Initiator[ctl] > 0
      BY <1>0, <1>2, <2>1, <2>3, ClaimEffect
    <3>2. ~InHand(ctl)' /\ ~Claimed(ctl)' /\ ctl \notin ToSet(pending')
      BY <1>7, <2>1, <2>3
    <3>3. RowStep(ctl)
      BY <1>0, <1>1, <1>2, <1>3, <1>4, <1>5, <2>1, <3>1, <3>2, DroppedStep DEF Outcomes
    <3> QED BY <2>2, <3>3
  <2>4. CASE ~ClaimRefused(ctl)
    <3>1. InHand(ctl)'
      BY <2>1, <2>4 DEF InHand
    <3>2. RowStep(ctl)
      BY <1>0, <1>1, <1>2, <1>3, <1>4, <1>5, <2>1, <2>4, <3>1, ClaimedStep
    <3> QED BY <2>2, <3>2
  <2> QED BY <2>3, <2>4
<1>9. ASSUME NEW o \in {"completed", "uncertain"}, NEW n \in {0, 1}, o = "completed" => n = 1,
             pc = "controlClaimed", pc' = "controlDone", UNCHANGED <<chan, ctl>>,
             ledger' = [ledger EXCEPT ![ctl] = settle_command(@, o)],
             wrote' = [wrote EXCEPT ![ctl] = @ + n]
      PROVE  \A d \in Cmd : RowStep(d)
  <2>1. \A d \in Cmd : d # ctl => RowStep(d)
    BY <1>0, <1>6, <1>9
  <2>2. ledger'[ctl] = settle_command(ledger[ctl], o) /\ wrote'[ctl] = n
    BY <1>0, <1>2, <1>5, <1>9
  <2>3. ledger'[ctl].state = "settled" /\ ledger'[ctl].outcome = o
    BY <1>0, <1>2, <1>9, <2>2, SettleEffect DEF Outcomes
  <2>4. WriteIsClaimed(ctl)
    BY <1>9 DEF WriteIsClaimed, Claimed
  <2>5. ~InHand(ctl)' /\ ~Claimed(ctl)' /\ ctl \notin ToSet(pending')
    BY <1>7, <1>9
  <2>6. ledger[ctl].state = "settled" => ledger[ctl].outcome = "fenced"
    BY <1>3, <1>5, <1>9 DEF RowInv, StageIsKept, Undecided
  <2>7. RowStep(ctl)
    BY <1>1, <1>2, <1>4, <1>5, <1>9, <2>2, <2>3, <2>4, <2>5, <2>6, RetiredStep DEF Outcomes
  <2> QED BY <2>1, <2>7
<1>10. ASSUME ControlOk PROVE \A d \in Cmd : RowStep(d)
  <2>1. /\ pc = "controlClaimed" /\ pc' = "controlDone" /\ UNCHANGED <<chan, ctl>>
        /\ ledger' = [ledger EXCEPT ![ctl] = settle_command(@, "completed")]
        /\ wrote' = [wrote EXCEPT ![ctl] = @ + 1]
    BY <1>10 DEF ControlOk, queueVars
  <2> QED BY <1>9, <2>1
<1>11. ASSUME NEW written \in BOOLEAN, ControlErr(written) PROVE \A d \in Cmd : RowStep(d)
  <2>1. /\ pc = "controlClaimed" /\ pc' = "controlDone" /\ UNCHANGED <<chan, ctl>>
        /\ ledger' = [ledger EXCEPT ![ctl] = settle_command(@, "uncertain")]
        /\ wrote' = [wrote EXCEPT ![ctl] = @ + 1] \/ wrote' = wrote
    BY <1>11 DEF ControlErr, queueVars
  <2>2. wrote = [wrote EXCEPT ![ctl] = @ + 0]
    BY <1>0, <1>2
  <2> QED BY <1>9, <2>1, <2>2
<1>12. ASSUME ControlReturn PROVE \A d \in Cmd : RowStep(d)
  <2> TAKE d \in Cmd
  <2>1. pc = "controlDone" /\ wrote' = wrote /\ pc' \in {"select", "ended"}
    BY <1>12 DEF ControlReturn, historyVars
  <2>2. ~Claimed(d)'
    BY <2>1 DEF Claimed
  <2>3. CASE UNCHANGED <<ledger, chan>>
    <3>1. Unmoved(d)
      BY <1>1, <1>4, <2>1, <2>2, <2>3 DEF Unmoved, InHand
    <3> QED BY <1>0, <3>1, UnmovedStep DEF LedgerInv
  <2>4. CASE /\ ledger' = [c \in Cmd |-> IF c \in ToSet(chan)
                                         THEN settle_command(ledger[c], "rejected") ELSE ledger[c]]
             /\ chan' = <<>>
    <3>1. ToSet(chan') = {}
      BY <1>0, <2>4, QueueTypes
    <3>2. CASE d \in ToSet(chan)
      <4>1. ledger'[d] = settle_command(ledger[d], "rejected")
        BY <2>4, <3>2
      <4>2. rpc[d] = "answered" /\ wrote[d] = 0 /\ d \notin ToSet(pending) /\ d \notin Creates
        BY <3>2, Channelled
      <4>3. InHand(d) /\ ~InHand(d)'
        BY <1>1, <2>1, <3>1, <3>2, <4>2 DEF InHand
      <4>4. ledger[d].state = "settled" => ledger[d].outcome = "fenced"
        BY <4>3 DEF LedgerInv, RowInv, StageIsKept, Undecided
      <4> QED BY <1>0, <1>1, <1>4, <2>1, <2>2, <4>1, <4>2, <4>3, <4>4, DroppedStep
              DEF LedgerInv, Outcomes
    <3>3. CASE d \notin ToSet(chan)
      <4>1. Unmoved(d)
        BY <1>1, <1>4, <2>1, <2>2, <2>4, <3>1, <3>3 DEF Unmoved, InHand
      <4> QED BY <1>0, <4>1, UnmovedStep DEF LedgerInv
    <3> QED BY <3>2, <3>3
  <2> QED BY <1>12, <2>3, <2>4 DEF ControlReturn
<1> QED BY <1>8, <1>10, <1>11, <1>12 DEF Control

LEMMA LedgerGate ==
    ASSUME DeliveryInv, LedgerInv, Gate PROVE \A d \in Cmd : RowStep(d)
<1>0. TypeOK /\ ledger \in [Cmd -> LedgerRow]
  BY DEF DeliveryInv, TypeOK
<1> TAKE d \in Cmd
<1>1. /\ pc \in {"select", "scan"} /\ pc' \in {"select", "scan", "resolve"}
      /\ UNCHANGED <<rpc, chan, ctl, wrote>>
  BY DEF queueVars, historyVars, Gate, Tick, apply_held_changes, TickDrained, TickNotReady,
     TickGated, TickDeliver, Scanned
<1>2. ~Claimed(d)' /\ ~Delivered(d)'
  BY <1>1 DEF Claimed, Delivered
<1>3. ToSet(pending') \subseteq ToSet(pending)
  <2>1. CASE apply_held_changes
    BY <2>1, ScannedOne
  <2>2. CASE TickNotReady
    BY <1>0, <2>2, Interrupted DEF TickNotReady
  <2>3. CASE pending' = pending
    BY <2>3
  <2> QED BY <2>1, <2>2, <2>3 DEF Gate, Tick, TickDrained, TickGated, TickDeliver, queueVars
<1>4. CASE ledger'[d] = ledger[d]
  <2>1. Unmoved(d)
    BY <1>1, <1>2, <1>3, <1>4 DEF Unmoved, InHand
  <2> QED BY <1>0, <2>1, UnmovedStep DEF LedgerInv
<1>5. CASE ledger'[d] # ledger[d]
  <2>1. \E o \in {"rejected", "withdrawn"} :
           /\ ledger'[d] = settle_command(ledger[d], o) /\ ledger[d].state # "settled"
           /\ d \in ToSet(pending) /\ d \notin ToSet(pending')
    <3>1. CASE apply_held_changes
      <4>1. PICK c : /\ c = pending[scan] /\ scan \in 1..Len(pending)
                     /\ pending' = RemoveAt(pending, scan)
                     /\ ledger' = [ledger EXCEPT ![c] = UnlessSettled(@, "withdrawn")]
        BY <1>5, <3>1 DEF apply_held_changes, finalize_withdrawn
      <4>2. c = d /\ ledger'[d] = settle_command(ledger[d], "withdrawn") /\ ledger[d].state # "settled"
        BY <1>0, <1>5, <4>1 DEF UnlessSettled
      <4>3. d \in ToSet(pending) /\ d \notin ToSet(pending')
        <5>1. ToSet(pending) = ToSet(pending') \cup {c} /\ c \in ToSet(pending)
          BY <1>0, <4>1, QueueTypes, SetOfRemove
        <5>2. c \notin ToSet(pending')
          BY <1>0, <4>1, QueueTypes, SetOfRemove DEF DeliveryInv, PendingIsHeld
        <5> QED BY <4>2, <5>1, <5>2
      <4> QED BY <4>2, <4>3
    <3>2. CASE TickNotReady
      BY <1>0, <1>5, <3>2, InterruptRows, Interrupted DEF TickNotReady
    <3> QED BY <1>5, <3>1, <3>2 DEF Gate, Tick, TickDrained, TickGated, TickDeliver, storeVars
  <2>2. /\ d \in Prompts /\ rpc[d] = "answered" /\ d \notin ToSet(chan) /\ wrote[d] = 0
    BY <1>1, <2>1, Queued
  <2>3. ~InHand(d)'
    BY <1>1, <2>1, <2>2 DEF InHand
  <2> QED BY <1>0, <1>1, <1>2, <2>1, <2>2, <2>3, DroppedStep DEF LedgerInv, Outcomes
<1> QED BY <1>4, <1>5

(* The driver wrote the head: the mark the claim left in the row stays.    *)
LEMMA WrittenStep ==
    ASSUME TypeOK, NEW h \in Cmd, RowInv(h), h = Head(pending), pc = "executing",
           rpc[h] = "answered", h \in ToSet(pending), h \notin ToSet(chan),
           UNCHANGED <<ledger, rpc, pending, chan>>, wrote'[h] = 1,
           pc' \in {"written", "erred"}
    PROVE  RowStep(h)
<1>1. Claimed(h) /\ ~Claimed(h)'
  BY DEF Claimed
<1>2. h \notin Creates => InHand(h) /\ ledger[h].state = "accepted" /\
                          (Initiator[h] > 0 => ledger[h].dispatch = "written")
  BY <1>1 DEF InHand, RowInv, WriteIsMarked
<1>3. h \in Creates => ledger[h].state = "settled" /\ ledger[h].outcome = "completed"
  BY DEF RowInv, StageIsKept
<1>4. StageIsKept(h)'
  BY <1>2, <1>3 DEF RowInv, StageIsKept, Unsubmitted, Undecided, InHand
<1>5. WriteIsMarked(h)'
  BY <1>1, <1>2, <1>3 DEF WriteIsMarked
<1>6. RowIsTrue(h)'
  BY <1>2, <1>3 DEF RowInv, RowIsTrue
<1>7. SettledStays(h) /\ ClaimIsFree(h) /\ WriteIsClaimed(h)
  BY <1>1 DEF SettledStays, ClaimIsFree, WriteIsClaimed
<1> QED BY <1>4, <1>5, <1>6, <1>7 DEF RowStep, RowInv

(* What a delivery that is over settles, and with what.                    *)
LEMMA PoppedRow ==
    ASSUME DeliveryInv, LedgerInv, pending # <<>>, NEW h \in Cmd, h = Head(pending),
           ResolveFail \/ ClaimWithdrawn \/ ClaimFenced \/ SettleOk \/ SettleErr
    PROVE  /\ \A d \in Cmd : d # h => ledger'[d] = ledger[d]
           /\ \/ ledger'[h] = ledger[h]
              \/ \E o \in {"rejected", "fenced", "withdrawn", "completed", "uncertain"} :
                    /\ ledger'[h] = settle_command(ledger[h], o) /\ ledger[h].state # "settled"
                    /\ o = "fenced" => Initiator[h] > 0
                    /\ o \in {"rejected", "fenced", "withdrawn"} => wrote[h] = 0
                    /\ o = "completed" => wrote[h] = 1
<1>0. TypeOK /\ ledger \in [Cmd -> LedgerRow]
  BY DEF DeliveryInv, TypeOK
<1>1. h \in ToSet(pending)
  BY <1>0, QueueTypes, SetOfTail
<1>2. ASSUME NEW o, ledger' = [ledger EXCEPT ![h] = UnlessSettled(@, o)]
      PROVE  /\ \A d \in Cmd : d # h => ledger'[d] = ledger[d]
             /\ \/ ledger'[h] = ledger[h]
                \/ ledger'[h] = settle_command(ledger[h], o) /\ ledger[h].state # "settled"
  BY <1>0, <1>2 DEF UnlessSettled
<1>3. CASE ResolveFail
  <2>1. wrote[h] = 0
    BY <1>1, <1>3, Queued DEF ResolveFail
  <2>2. ledger' = [ledger EXCEPT ![h] = UnlessSettled(@, "rejected")]
    BY <1>3 DEF ResolveFail
  <2> QED BY <1>2, <2>1, <2>2
<1>4. CASE ClaimWithdrawn
  <2>1. wrote[h] = 0
    BY <1>1, <1>4, Queued DEF ClaimWithdrawn
  <2>2. ledger' = [ledger EXCEPT ![h] = UnlessSettled(@, "withdrawn")]
    BY <1>4 DEF ClaimWithdrawn, finalize_withdrawn
  <2> QED BY <1>2, <2>1, <2>2
<1>5. CASE ClaimFenced
  <2>1. wrote[h] = 0
    BY <1>5 DEF ClaimFenced, DeliveryInv, ClaimIsHead
  <2>2. ledger' = claim(h) /\ ClaimRefused(h)
    BY <1>5 DEF ClaimFenced
  <2> QED BY <1>0, <2>1, <2>2, ClaimEffect
<1>6. CASE SettleOk
  <2>1. wrote[h] = 1
    BY <1>6 DEF SettleOk, LedgerInv, RowInv, WriteIsMarked, Delivered
  <2>2. ledger' = ledger \/ ledger' = [ledger EXCEPT ![h] = UnlessSettled(@, "completed")]
    BY <1>6 DEF SettleOk, SettleDelivered
  <2> QED BY <1>2, <2>1, <2>2
<1>7. CASE SettleErr
  <2>1. ledger' = ledger \/ ledger' = [ledger EXCEPT ![h] = UnlessSettled(@, "uncertain")]
    BY <1>7 DEF SettleErr, SettleDelivered
  <2> QED BY <1>2, <2>1
<1> QED BY <1>3, <1>4, <1>5, <1>6, <1>7

LEMMA LedgerDeliver ==
    ASSUME DeliveryInv, LedgerInv, Deliver PROVE \A d \in Cmd : RowStep(d)
<1>0. TypeOK /\ ledger \in [Cmd -> LedgerRow] /\ wrote \in [Cmd -> Nat]
  BY DEF DeliveryInv, TypeOK
<1>1. /\ pending # <<>> /\ UNCHANGED <<rpc, chan, ctl>>
      /\ pc \in {"resolve", "probe", "claimed", "executing", "written", "erred"}
      /\ pc' \in {"select", "probe", "claimed", "executing", "written", "erred"}
  BY <1>0 DEF TypeOK, Deliver, ResolveOk, ResolveFail, ProbeUnavailable, ProbeErr, ClaimWithdrawn,
     ClaimDeliver, ClaimFenced, ClaimDispatch, ExecuteOk, ExecuteUnavailable, ExecuteErr, SettleOk,
     SettleErr, PopHead, queueVars, workerVars, historyVars
<1>2. PICK h \in Prompts : h = Head(pending) /\ h \in ToSet(pending)
  BY <1>0, <1>1, QueueTypes, SetOfTail
<1>3. /\ h \in Cmd /\ rpc[h] = "answered" /\ h \notin ToSet(chan) /\ h \notin Controls /\ RowInv(h)
  BY <1>2, Queued DEF LedgerInv
<1>4. ASSUME ResolveFail \/ ClaimWithdrawn \/ ClaimFenced \/ SettleOk \/ SettleErr
      PROVE  \A d \in Cmd : RowStep(d)
  <2>1. /\ held' = [held EXCEPT ![h] = NotHeld] /\ pending' = Tail(pending)
        /\ wrote' = wrote /\ pc' = "select"
    BY <1>2, <1>4 DEF ResolveFail, ClaimWithdrawn, ClaimFenced, SettleOk, SettleErr, PopHead
  <2>2. h \notin ToSet(pending') /\ ToSet(pending) = ToSet(pending') \cup {h}
    BY <1>1, <1>2, <2>1, PoppedHead
  <2>3. \A d \in Cmd : ~Claimed(d)' /\ ~Delivered(d)'
    BY <2>1 DEF Claimed, Delivered
  <2>4. ASSUME NEW d \in Cmd, d # h PROVE RowStep(d)
    <3>1. ledger'[d] = ledger[d]
      BY <1>1, <1>2, <1>3, <1>4, <2>4, PoppedRow
    <3>2. Unmoved(d)
      BY <1>1, <2>1, <2>2, <2>3, <3>1 DEF Unmoved, InHand
    <3> QED BY <1>0, <3>2, UnmovedStep DEF LedgerInv
  <2>5. ~InHand(h)'
    BY <1>1, <1>3, <2>1, <2>2 DEF InHand
  <2>6. RowStep(h)
    <3>1. \/ ledger'[h] = ledger[h]
          \/ \E o \in {"rejected", "fenced", "withdrawn", "completed", "uncertain"} :
                /\ ledger'[h] = settle_command(ledger[h], o) /\ ledger[h].state # "settled"
                /\ o = "fenced" => Initiator[h] > 0
                /\ o \in {"rejected", "fenced", "withdrawn"} => wrote[h] = 0
                /\ o = "completed" => wrote[h] = 1
      BY <1>1, <1>2, <1>3, <1>4, PoppedRow
    <3> QED BY <1>0, <1>1, <1>3, <2>1, <2>2, <2>3, <2>5, <3>1, DroppedStep DEF Outcomes
  <2> QED BY <2>4, <2>6
<1>5. ASSUME ResolveOk \/ ProbeUnavailable \/ ProbeErr \/ ClaimDeliver \/ ExecuteUnavailable
      PROVE  \A d \in Cmd : RowStep(d)
  <2> TAKE d \in Cmd
  <2>1. UNCHANGED <<ledger, pending, wrote>> /\ pc' \in {"probe", "select", "erred", "claimed"}
    BY <1>5 DEF ResolveOk, ProbeUnavailable, ProbeErr, ClaimDeliver, ExecuteUnavailable, storeVars,
       queueVars, historyVars
  <2>2. Unmoved(d)
    BY <1>1, <2>1 DEF Unmoved, InHand, Claimed, Delivered
  <2> QED BY <1>0, <2>2, UnmovedStep DEF LedgerInv
<1>6. ASSUME ClaimDispatch PROVE \A d \in Cmd : RowStep(d)
  <2>1. /\ pc = "claimed" /\ pc' = "executing" /\ UNCHANGED <<pending, wrote>>
        /\ ledger' = claim(h) /\ ~ClaimRefused(h)
    BY <1>2, <1>6 DEF ClaimDispatch, queueVars, historyVars
  <2>2. ASSUME NEW d \in Cmd, d # h PROVE RowStep(d)
    <3>1. ledger'[d] = ledger[d]
      BY <1>0, <1>3, <2>1, <2>2, ClaimEffect
    <3>2. Unmoved(d)
      BY <1>1, <1>2, <2>1, <2>2, <3>1 DEF Unmoved, InHand, Claimed, Delivered
    <3> QED BY <1>0, <3>2, UnmovedStep DEF LedgerInv
  <2>3. wrote[h] = 0
    BY <1>2, <2>1 DEF DeliveryInv, ClaimIsHead
  <2>4. ~Delivered(h)'
    BY <2>1 DEF Delivered
  <2>5. CASE h \notin Creates
    <3>1. InHand(h) /\ InHand(h)'
      BY <1>2, <2>1, <2>5 DEF InHand
    <3>2. RowStep(h)
      BY <1>0, <1>1, <1>3, <2>1, <2>3, <2>4, <2>5, <3>1, ClaimedStep
    <3> QED BY <2>2, <3>2
  <2>6. CASE h \in Creates
    <3>1. ledger[h].state = "settled" /\ ledger[h].outcome = "completed"
      BY <1>2, <1>3, <2>6 DEF RowInv, StageIsKept
    <3>2. ledger'[h] = ledger[h]
      BY <1>0, <1>3, <2>1, <3>1, ClaimEffect
    <3>3. StageIsKept(h)'
      BY <1>1, <1>3, <2>1, <2>6, <3>1, <3>2 DEF StageIsKept, Unsubmitted, InHand
    <3>4. WriteIsMarked(h)' /\ RowIsTrue(h)'
      BY <2>1, <2>3, <2>4, <2>6, <3>1, <3>2 DEF WriteIsMarked, RowIsTrue
    <3>5. SettledStays(h) /\ ClaimIsFree(h) /\ WriteIsClaimed(h)
      BY <2>1, <2>6, <3>2 DEF SettledStays, ClaimIsFree, WriteIsClaimed
    <3>6. RowStep(h)
      BY <3>3, <3>4, <3>5 DEF RowStep, RowInv
    <3> QED BY <2>2, <3>6
  <2> QED BY <2>5, <2>6
<1>7. ASSUME ExecuteOk \/ \E written \in BOOLEAN : ExecuteErr(written)
      PROVE  \A d \in Cmd : RowStep(d)
  <2>1. /\ pc = "executing" /\ UNCHANGED <<ledger, pending>> /\ pc' \in {"written", "erred"}
        /\ \/ wrote' = [wrote EXCEPT ![h] = @ + 1]
           \/ wrote' = wrote /\ pc' = "erred"
    BY <1>2, <1>7 DEF ExecuteOk, ExecuteErr, DriverWrites, queueVars, storeVars
  <2>2. wrote[h] = 0
    BY <1>2, <2>1 DEF DeliveryInv, ClaimIsHead
  <2>3. ASSUME NEW d \in Cmd, wrote'[d] = wrote[d], d # h \/ pc' = "erred" PROVE RowStep(d)
    <3>1. Unmoved(d)
      BY <1>1, <1>2, <2>1, <2>3 DEF Unmoved, InHand, Claimed, Delivered
    <3> QED BY <1>0, <3>1, UnmovedStep DEF LedgerInv
  <2>4. CASE wrote' = wrote /\ pc' = "erred"
    BY <2>3, <2>4
  <2>5. CASE wrote' = [wrote EXCEPT ![h] = @ + 1]
    <3>1. \A d \in Cmd : d # h => wrote'[d] = wrote[d]
      BY <1>0, <2>5
    <3>2. wrote'[h] = 1
      BY <1>0, <1>3, <2>2, <2>5
    <3>3. RowStep(h)
      BY <1>0, <1>1, <1>2, <1>3, <2>1, <3>2, WrittenStep
    <3> QED BY <2>3, <3>1, <3>3
  <2> QED BY <2>1, <2>4, <2>5
<1> QED BY <1>4, <1>5, <1>6, <1>7 DEF Deliver

(* The Hub's withdrawals and edits, the harness and the clock leave the    *)
(* rows alone but for the mark of an exit.                                 *)
LEMMA LedgerHarness ==
    ASSUME DeliveryInv, LedgerInv, HeldInput \/ Harness \/ UNCHANGED vars
    PROVE  \A d \in Cmd : RowStep(d)
<1>0. TypeOK /\ ledger \in [Cmd -> LedgerRow]
  BY DEF DeliveryInv, TypeOK
<1> TAKE d \in Cmd
<1>1. UNCHANGED <<rpc, chan, pending, pc, ctl, wrote>>
  BY DEF HeldInput, withdraw, edit, Harness, SignalActivity, DialogOpens, DialogAnswered,
     BudgetPasses, record_native_exit, vars, queueVars, workerVars, historyVars
<1>2. ledger' = ledger \/ ledger' = mark_unsettled_unknown(ledger)
  BY DEF HeldInput, withdraw, edit, Harness, SignalActivity, DialogOpens, DialogAnswered,
     BudgetPasses, record_native_exit, vars, storeVars
<1>3. \/ ledger'[d] = ledger[d]
      \/ ledger[d].state # "settled" /\ ledger'[d] = [ledger[d] EXCEPT !.unknown = TRUE]
  BY <1>0, <1>2, MarkEffect
<1>4. Unmoved(d)
  BY <1>1, <1>3 DEF Unmoved, InHand, Claimed, Delivered
<1> QED BY <1>0, <1>4, UnmovedStep DEF LedgerInv

LEMMA LedgerFence ==
    ASSUME DeliveryInv, LedgerInv, Fence PROVE \A d \in Cmd : RowStep(d)
<1>0. TypeOK /\ ledger \in [Cmd -> LedgerRow]
  BY DEF DeliveryInv, TypeOK
<1> TAKE d \in Cmd
<1>1. UNCHANGED <<chan, pending, pc, ctl, wrote>>
  BY DEF Fence, persist_fence_frame, apply_lineage_fence, FenceClose, queueVars, workerVars,
     historyVars
<1>2. rpc'[d] = rpc[d] \/ (rpc[d] = "idle" /\ rpc'[d] = "admitted")
  BY <1>0 DEF Fence, persist_fence_frame, apply_lineage_fence, FenceClose, TypeOK
<1>3. CASE ledger'[d] = ledger[d]
  <2>1. Unmoved(d)
    BY <1>1, <1>2, <1>3 DEF Unmoved, InHand, Claimed, Delivered, Unsubmitted
  <2> QED BY <1>0, <2>1, UnmovedStep DEF LedgerInv
<1>4. CASE ledger'[d] # ledger[d]
  <2>1. PICK g \in 1..MaxGen : apply_lineage_fence(g)
    BY <1>4 DEF Fence, persist_fence_frame, FenceClose, storeVars
  <2>2. /\ Initiator[d] > 0 /\ ledger[d].state \in {"queued", "accepted"}
        /\ ledger[d].dispatch # "written" /\ ledger'[d] = settle_command(ledger[d], "fenced")
        /\ rpc' = rpc
    BY <1>0, <1>4, <2>1 DEF apply_lineage_fence, Below
  <2> QED BY <1>0, <1>1, <2>2, FencedStep DEF LedgerInv
<1> QED BY <1>3, <1>4

LEMMA LedgerRestart ==
    ASSUME DeliveryInv, LedgerInv, NEW survives \in BOOLEAN, Restart(survives)
    PROVE  \A d \in Cmd : RowStep(d)
<1>0. TypeOK /\ ledger \in [Cmd -> LedgerRow] /\ rpc \in [Cmd -> {"idle", "checked", "admitted",
         "inserted", "answered", "refused"}]
  BY DEF DeliveryInv, TypeOK
<1> TAKE d \in Cmd
<1>1. chan' = <<>> /\ pending' = <<>> /\ pc' \in {"select", "ended"} /\ wrote' = wrote
  BY DEF Restart
<1>2. /\ rpc'[d] \in Unsubmitted => rpc[d] \in Unsubmitted
      /\ rpc'[d] # "inserted"
  BY <1>0 DEF Restart, Unsubmitted
<1>3. ledger' = ledger \/ ledger' = mark_unsettled_unknown(ledger)
  BY DEF Restart
<1>4. \/ ledger'[d] = ledger[d]
      \/ ledger[d].state # "settled" /\ ledger'[d] = [ledger[d] EXCEPT !.unknown = TRUE]
  BY <1>0, <1>3, MarkEffect
<1>5. ToSet(chan') = {} /\ ToSet(pending') = {}
  BY <1>0, <1>1, QueueTypes
<1>6. Unmoved(d)
  BY <1>1, <1>2, <1>4, <1>5 DEF Unmoved, InHand, Claimed, Delivered
<1> QED BY <1>0, <1>6, UnmovedStep DEF LedgerInv

LEMMA LedgerStep ==
    ASSUME DeliveryInv, LedgerInv, [Next]_vars PROVE \A d \in Cmd : RowStep(d)
BY LedgerSubmit, LedgerCreate, LedgerStart, LedgerRecv, LedgerControl, LedgerGate, LedgerDeliver,
   LedgerHarness, LedgerFence, LedgerRestart DEF Next

LEMMA LedgerInit == Init => LedgerInv
<1> SUFFICES ASSUME Init, NEW c \in Cmd PROVE RowInv(c)
  BY DEF LedgerInv
<1>1. /\ ledger[c] = NoRow /\ rpc[c] = "idle" /\ wrote[c] = 0
      /\ chan = <<>> /\ pending = <<>> /\ pc \in {"select", "absent"}
  BY DEF Init, InitAdopted, InitNew
<1>2. NoRow.state = "absent" /\ NoRow.outcome = "none"
  BY DEF NoRow
<1>3. ToSet(<<>>) = {}
  BY DEF ToSet
<1>4. ~InHand(c) /\ ~Claimed(c) /\ ~Delivered(c) /\ c \notin ToSet(pending)
  BY <1>1, <1>3 DEF InHand, Claimed, Delivered
<1>5. StageIsKept(c)
  BY <1>1, <1>2, <1>4 DEF StageIsKept
<1>6. WriteIsMarked(c) /\ RowIsTrue(c)
  BY <1>1, <1>2, <1>4 DEF WriteIsMarked, RowIsTrue
<1> QED BY <1>5, <1>6 DEF RowInv

(* store.rs, pty_queue.rs, fence.rs: what a command's row may read, by     *)
(* where the command is, whatever is submitted, fenced or lost in a crash. *)
THEOREM LedgerInvariant == Spec => []LedgerInv
<1>1. DeliveryInv /\ LedgerInv /\ [Next]_vars => LedgerInv'
  BY LedgerStep DEF LedgerInv, RowStep
<1> QED BY <1>1, LedgerInit, DeliveryCorrect, PTL DEF Spec

(* A row settled as rejected, fenced or withdrawn was not written, and one *)
(* settled as completed was written once: the settlement a Hub reads is    *)
(* what happened, for every set of commands, with fences and crashes.      *)
THEOREM SettlementsAreTruthful == Spec => []SettlementIsTruthful
<1>1. LedgerInv => SettlementIsTruthful
  BY DEF LedgerInv, RowInv, RowIsTrue, SettlementIsTruthful
<1> QED BY <1>1, LedgerInvariant, PTL

(* A settled row is rewritten only when a fence had settled it.            *)
SettledIsKept == \A c \in Cmd : SettledStays(c)

(* Once a row is settled by anything but a fence no step, no crash and no  *)
(* late answer of the driver rewrites it.                                  *)
THEOREM SettlementsAreKept == Spec => [][SettledIsKept]_vars
<1>1. DeliveryInv /\ LedgerInv /\ [Next]_vars => [SettledIsKept]_vars
  BY LedgerStep DEF SettledIsKept, RowStep
<1> QED BY <1>1, LedgerInvariant, DeliveryCorrect, PTL DEF Spec

(* A row no agent initiated is final once it is settled, whatever fences   *)
(* are applied: with no initiators, SettledIsFinal holds as it stands.     *)
THEOREM SettledIsFinalUninitiated ==
    ASSUME \A c \in Cmd : Initiator[c] = 0
    PROVE  Spec => SettledIsFinal
<1>1. ASSUME DeliveryInv, LedgerInv, [Next]_vars
      PROVE  [\A c \in Cmd : ledger[c].state = "settled" => ledger'[c] = ledger[c]]_vars
  <2>1. ASSUME NEW c \in Cmd, ledger[c].state = "settled" PROVE ledger'[c] = ledger[c]
    <3>1. ledger[c].outcome # "fenced"
      BY <1>1 DEF LedgerInv, RowInv, RowIsTrue
    <3> QED BY <1>1, <2>1, <3>1, LedgerStep DEF RowStep, SettledStays
  <2> QED BY <2>1
<1> QED BY <1>1, LedgerInvariant, DeliveryCorrect, PTL DEF Spec, SettledIsFinal

-----------------------------------------------------------------------------
(* What a fence acknowledges (fence.rs).  A create, and a close of an      *)
(* instance whose worker has ended, go on without a dispatch claim after a *)
(* fence settled their rows, so the acknowledgement is about the others.   *)

Fenceable == Cmd \ (Creates \cup Closes)

(* The table is ahead of every fence it was asked for.                     *)
FencesAreLive == applied <= live /\ \A g \in fencing : g <= live

ReportedIsFenced(c) == reported[c] # {} => is_fenced(c)

(* `cancelled` is true, and stays so.                                      *)
CancelIsTrue(c) == "cancelled" \in reported[c] => wrote[c] = 0 /\ ~Claimed(c)

(* A write that happened or may be under way was reported.                 *)
WriteIsReported(c) ==
    Below(c, applied) /\ (wrote[c] > 0 \/ Claimed(c)) =>
        \/ reported[c] \cap {"ran", "unknown"} # {}
        \/ ledger[c].outcome = "uncertain"

ReportInv ==
    /\ FencesAreLive
    /\ \A c \in Cmd : ReportedIsFenced(c)
    /\ \A c \in Fenceable : CancelIsTrue(c) /\ WriteIsReported(c)

(* What the acknowledgement says of a row it finds.                        *)
LEMMA OutcomeFacts ==
    ASSUME TypeOK, NEW c \in Fenceable, RowInv(c), Initiator[c] > 0
    PROVE  /\ "cancelled" \in fence_outcome(c) => wrote[c] = 0 /\ ~Claimed(c)
           /\ wrote[c] > 0 \/ Claimed(c) =>
                 \/ fence_outcome(c) \cap {"ran", "unknown"} # {}
                 \/ ledger[c].outcome = "uncertain" /\ ledger[c].state = "settled"
<1>0. c \in Cmd /\ c \notin Creates
  BY DEF Fenceable
<1>1. ledger[c] \in LedgerRow /\ wrote[c] \in Nat
  BY <1>0 DEF TypeOK
<1>2. Claimed(c) => ledger[c].state = "accepted" /\ ledger[c].dispatch = "written"
  BY <1>0 DEF RowInv, WriteIsMarked
<1>3. wrote[c] > 0 => /\ ledger[c].state # "absent"
                      /\ ledger[c].state # "settled" => ledger[c].dispatch = "written"
                      /\ ledger[c].state = "settled" => ledger[c].outcome \in {"completed", "uncertain"}
  BY <1>1 DEF RowInv, WriteIsMarked, RowIsTrue, LedgerRow
<1>4. ledger[c].state = "absent" => fence_outcome(c) = {}
  BY DEF fence_outcome
<1>5. ledger[c].state = "settled" =>
         fence_outcome(c) = IF ledger[c].outcome = "completed" THEN {"ran"}
                            ELSE IF ledger[c].outcome = "fenced" THEN {"cancelled"} ELSE {}
  BY DEF fence_outcome, settled_fenced
<1>6. ledger[c].state \in {"queued", "accepted"} =>
         fence_outcome(c) = IF ledger[c].dispatch = "written" THEN {"unknown"} ELSE {"cancelled"}
  BY DEF fence_outcome
<1>7. ledger[c].state \in {"absent", "queued", "accepted", "settled"}
  BY <1>1 DEF LedgerRow
<1>8. ledger[c].state = "settled" /\ ledger[c].outcome = "fenced" => wrote[c] = 0
  BY DEF RowInv, RowIsTrue
<1>9. "cancelled" \in fence_outcome(c) => wrote[c] = 0 /\ ~Claimed(c)
  BY <1>1, <1>2, <1>3, <1>4, <1>5, <1>6, <1>7, <1>8
<1>10. wrote[c] > 0 \/ Claimed(c) =>
                 \/ fence_outcome(c) \cap {"ran", "unknown"} # {}
                 \/ ledger[c].outcome = "uncertain" /\ ledger[c].state = "settled"
  BY <1>2, <1>3, <1>4, <1>5, <1>6, <1>7
<1> QED BY <1>9, <1>10

LEMMA ReportNext ==
    ASSUME DeliveryInv, DeliveryInv', LedgerInv, ReportInv, [Next]_vars PROVE ReportInv'
<1>0. /\ TypeOK /\ TypeOK' /\ \A c \in Cmd : RowStep(c) /\ RowInv(c)
      /\ Fenceable \subseteq Cmd
  BY LedgerStep DEF DeliveryInv, LedgerInv, Fenceable
<1>1. /\ live \in Nat /\ live' \in Nat /\ applied \in Nat /\ applied' \in Nat
      /\ \A c \in Cmd : Initiator[c] \in Nat /\ wrote[c] \in Nat /\ wrote'[c] \in Nat
      /\ \A g \in fencing : g \in Nat
  BY <1>0, GenerationAssumption DEF TypeOK
<1>2. ASSUME NEW c \in Fenceable PROVE c \in Cmd /\ c \notin Creates /\ c \notin Closes
  BY DEF Fenceable
<1>3. CASE \E g \in 1..MaxGen : apply_lineage_fence(g)
  <2> PICK g \in 1..MaxGen : apply_lineage_fence(g)
    BY <1>3
  <2>1. /\ g \in fencing /\ g \in Nat /\ g <= live /\ live' = live
        /\ fencing' = fencing \ {g}
        /\ applied' = (IF g > applied THEN g ELSE applied)
        /\ UNCHANGED <<wrote, pc, ctl, pending>>
    BY <1>1 DEF apply_lineage_fence, workerVars, queueVars, historyVars, ReportInv, FencesAreLive
  <2>2. \A c \in Cmd : reported'[c] = IF Below(c, g) THEN reported[c] \cup fence_outcome(c)
                                      ELSE reported[c]
    BY DEF apply_lineage_fence
  <2>3. FencesAreLive'
    BY <2>1 DEF ReportInv, FencesAreLive
  <2>4. ASSUME NEW c \in Cmd PROVE ReportedIsFenced(c)'
    BY <1>1, <2>1, <2>2 DEF ReportInv, ReportedIsFenced, is_fenced, Below
  <2>5. ASSUME NEW c \in Fenceable PROVE CancelIsTrue(c)' /\ WriteIsReported(c)'
    <3>1. c \in Cmd /\ c \notin Creates /\ (Claimed(c)' <=> Claimed(c)) /\ wrote'[c] = wrote[c]
      BY <1>2, <2>1, <2>5 DEF Claimed
    <3>2. CASE ~Below(c, g)
      <4>1. reported'[c] = reported[c] /\ (Below(c, applied') => Below(c, applied))
        BY <1>1, <2>1, <2>2, <3>1, <3>2 DEF Below
      <4>2. ledger[c].outcome = "uncertain" => ledger'[c] = ledger[c]
        BY <1>0, <3>1 DEF RowStep, SettledStays, RowInv, RowIsTrue
      <4> QED BY <2>5, <3>1, <4>1, <4>2 DEF ReportInv, CancelIsTrue, WriteIsReported
    <3>3. CASE Below(c, g)
      <4>1. reported'[c] = reported[c] \cup fence_outcome(c) /\ Initiator[c] > 0
        BY <2>2, <3>1, <3>3 DEF Below
      <4>2. /\ "cancelled" \in fence_outcome(c) => wrote[c] = 0 /\ ~Claimed(c)
            /\ wrote[c] > 0 \/ Claimed(c) =>
                 \/ fence_outcome(c) \cap {"ran", "unknown"} # {}
                 \/ ledger[c].outcome = "uncertain" /\ ledger[c].state = "settled"
        BY <1>0, <2>5, <3>1, <4>1, OutcomeFacts
      <4>3. ledger[c].outcome = "uncertain" /\ ledger[c].state = "settled" => ledger'[c] = ledger[c]
        BY <1>0, <3>1 DEF RowStep, SettledStays
      <4>4. CancelIsTrue(c)'
        BY <2>5, <3>1, <4>1, <4>2 DEF ReportInv, CancelIsTrue
      <4>5. WriteIsReported(c)'
        BY <3>1, <4>1, <4>2, <4>3 DEF WriteIsReported
      <4> QED BY <4>4, <4>5
    <3> QED BY <3>2, <3>3
  <2> QED BY <2>3, <2>4, <2>5 DEF ReportInv
<1>4. CASE ~\E g \in 1..MaxGen : apply_lineage_fence(g)
  <2>1. /\ UNCHANGED <<reported, applied>>
        /\ \/ UNCHANGED <<live, fencing>>
           \/ live' = live /\ fencing' = {}
           \/ \E g \in 1..MaxGen : persist_fence_frame(g)
    <3>1. CASE Submit \/ Create \/ Start \/ Recv \/ Control \/ UNCHANGED vars
      BY <3>1 DEF vars, fenceVars, Submit, Admit, insert_command, enqueue_existing, EnqueueRejected,
         CloseEnded, Create, CreateCheck, record_lineage, CreateInsert, CreateAccept, Start, StartOk,
         StartFail, BuildFail, BuildFailReturn, Recv, RecvFull, RecvPrompt, RecvSteer, RecvControl,
         Control, ControlClaim, ControlOk, ControlErr, ControlReturn
    <3>2. CASE Gate \/ HeldInput \/ Harness
      BY <3>2 DEF fenceVars, Gate, Tick, apply_held_changes, TickDrained, TickNotReady, TickGated,
         TickDeliver, HeldInput, withdraw, edit, Harness, SignalActivity, DialogOpens,
         DialogAnswered, BudgetPasses, record_native_exit
    <3>3. CASE Deliver
      BY <3>3 DEF fenceVars, Deliver, ResolveOk, ResolveFail, ProbeUnavailable, ProbeErr,
         ClaimWithdrawn, ClaimDeliver, ClaimFenced, ClaimDispatch, ExecuteOk, ExecuteUnavailable,
         ExecuteErr, SettleOk, SettleErr
    <3>4. CASE Fence
      BY <1>4, <3>4 DEF Fence, persist_fence_frame, FenceClose
    <3>5. CASE \E survives \in BOOLEAN : Restart(survives)
      BY <3>5 DEF Restart
    <3> QED BY <3>1, <3>2, <3>3, <3>4, <3>5 DEF Next
  <2>2. live <= live' /\ FencesAreLive'
    <3>1. CASE UNCHANGED <<live, fencing>>
      BY <1>1, <2>1, <3>1 DEF ReportInv, FencesAreLive
    <3>2. CASE live' = live /\ fencing' = {}
      BY <1>1, <2>1, <3>2 DEF ReportInv, FencesAreLive
    <3>3. CASE \E g \in 1..MaxGen : persist_fence_frame(g)
      <4> PICK g \in 1..MaxGen : persist_fence_frame(g)
        BY <3>3
      <4>1. live' = (IF g > live THEN g ELSE live) /\ fencing' = fencing \cup {g}
        BY DEF persist_fence_frame
      <4>2. live \in Nat /\ applied \in Nat /\ \A h \in fencing : h \in Nat
        BY GenerationAssumption DEF DeliveryInv, TypeOK
      <4>3. live <= live' /\ g <= live'
        BY <4>1, <4>2
      <4>4. applied <= live' /\ \A h \in fencing : h <= live'
        BY <1>1, <4>1, <4>2, <4>3 DEF ReportInv, FencesAreLive
      <4> QED BY <2>1, <4>1, <4>3, <4>4 DEF FencesAreLive
    <3> QED BY <2>1, <3>1, <3>2, <3>3
  <2>3. ASSUME NEW c \in Cmd PROVE ReportedIsFenced(c)'
    BY <1>1, <2>1, <2>2 DEF ReportInv, ReportedIsFenced, is_fenced
  <2>4. ASSUME NEW c \in Fenceable PROVE CancelIsTrue(c)' /\ WriteIsReported(c)'
    <3>1. c \in Cmd /\ c \notin Creates /\ c \notin Closes /\ RowStep(c) /\ RowInv(c)
      BY <1>0, <1>2, <2>4
    <3>2. is_fenced(c) \/ Below(c, applied) => c \notin FenceCloses /\ is_fenced(c)
      BY <1>1, <3>1, GenerationAssumption DEF is_fenced, Below, ReportInv, FencesAreLive
    <3>3. is_fenced(c) => /\ wrote'[c] = wrote[c] \/ Claimed(c)
                          /\ Claimed(c)' => Claimed(c)
      BY <3>1, <3>2 DEF RowStep, WriteIsClaimed, ClaimIsFree
    <3>4. ledger[c].outcome = "uncertain" => ledger'[c] = ledger[c]
      BY <3>1 DEF RowStep, SettledStays, RowInv, RowIsTrue
    <3>5. CancelIsTrue(c)'
      BY <2>1, <2>4, <3>1, <3>3 DEF ReportInv, CancelIsTrue, ReportedIsFenced
    <3>6. WriteIsReported(c)'
      <4>1. CASE ~Below(c, applied)
        BY <2>1, <4>1 DEF WriteIsReported, Below
      <4>2. CASE Below(c, applied)
        BY <1>1, <2>1, <2>4, <3>1, <3>2, <3>3, <3>4, <4>2 DEF ReportInv, WriteIsReported
      <4> QED BY <4>1, <4>2
    <3> QED BY <3>5, <3>6
  <2> QED BY <2>2, <2>3, <2>4 DEF ReportInv
<1> QED BY <1>3, <1>4

LEMMA ReportInit == Init => ReportInv
<1> SUFFICES ASSUME Init PROVE ReportInv
  OBVIOUS
<1>1. live = 0 /\ applied = 0 /\ fencing = {} /\ \A c \in Cmd : reported[c] = {}
  BY DEF Init
<1>2. \A c \in Cmd : ~Below(c, applied)
  BY <1>1, GenerationAssumption DEF Below
<1> QED BY <1>1, <1>2 DEF ReportInv, FencesAreLive, ReportedIsFenced, CancelIsTrue, WriteIsReported,
        Fenceable

(* fence.rs: for every command but a create and a close, what a fence's    *)
(* acknowledgement reported is true of what the harness got, then and      *)
(* later, with any number of fences in flight and across crashes.          *)
THEOREM FenceReportsHold == Spec => []ReportInv
<1>1. DeliveryInv /\ DeliveryInv' /\ LedgerInv /\ ReportInv /\ [Next]_vars => ReportInv'
  BY ReportNext
<1> QED BY <1>1, ReportInit, LedgerInvariant, DeliveryCorrect, PTL DEF Spec

(* A command reported cancelled is never written, where creates and closes *)
(* come from people (they go on after the fence settled their rows).       *)
THEOREM CancelledStaysUnwritten ==
    ASSUME \A c \in Creates \cup Closes : Initiator[c] = 0
    PROVE  Spec => []CancelledNeverWritten
<1>1. ReportInv => CancelledNeverWritten
  <2> SUFFICES ASSUME ReportInv, NEW c \in Cmd, "cancelled" \in reported[c] PROVE wrote[c] = 0
    BY DEF CancelledNeverWritten
  <2>1. Initiator[c] > 0
    BY DEF ReportInv, ReportedIsFenced, is_fenced
  <2>2. c \in Fenceable
    BY <2>1 DEF Fenceable
  <2> QED BY <2>2 DEF ReportInv, CancelIsTrue
<1> QED BY <1>1, FenceReportsHold, PTL

(* A write of a fenced generation is in the acknowledgement or in a row    *)
(* that reads uncertain, under the same assumption.                        *)
THEOREM AckCountsWrites ==
    ASSUME \A c \in Creates \cup Closes : Initiator[c] = 0
    PROVE  Spec => []AckAccountsForWrites
<1>1. ReportInv => AckAccountsForWrites
  <2> SUFFICES ASSUME ReportInv, NEW c \in Cmd, Below(c, applied), wrote[c] > 0
               PROVE  \/ reported[c] \cap {"ran", "unknown"} # {}
                      \/ ledger[c].outcome = "uncertain"
    BY DEF AckAccountsForWrites
  <2>1. c \in Fenceable
    BY DEF Fenceable, Below
  <2> QED BY <2>1 DEF ReportInv, WriteIsReported
<1> QED BY <1>1, FenceReportsHold, PTL

-----------------------------------------------------------------------------
(* The transcript (store.rs, pty_queue.rs): a row reads `queued` only while*)
(* its prompt is queued, until a crash.                                    *)

RowsFollow == crashes = 0 => QueuedRowIsQueued

LEMMA RowsNext ==
    ASSUME DeliveryInv, RowsFollow, [Next]_vars PROVE RowsFollow'
<1>0. TypeOK /\ row \in [Cmd -> {"none", "queued", "complete", "interrupted"}] /\ crashes \in Nat
  BY BoundsAssumption DEF DeliveryInv, TypeOK
<1> SUFFICES ASSUME crashes' = 0, NEW d \in Prompts, row'[d] = "queued" PROVE d \in ToSet(pending')
  BY DEF RowsFollow, QueuedRowIsQueued
<1>1. crashes = 0 /\ ~\E survives \in BOOLEAN : Restart(survives)
  <2>1. ASSUME NEW survives \in BOOLEAN, Restart(survives) PROVE FALSE
    BY <1>0, <2>1 DEF Restart
  <2>2. crashes' = crashes
    <3>1. CASE Submit \/ Create \/ Start \/ Recv \/ Control \/ UNCHANGED vars
      BY <3>1 DEF vars, Submit, Admit, insert_command, enqueue_existing, EnqueueRejected,
         CloseEnded, Create, CreateCheck, record_lineage, CreateInsert, CreateAccept, Start, StartOk,
         StartFail, BuildFail, BuildFailReturn, Recv, RecvFull, RecvPrompt, RecvSteer, RecvControl,
         Control, ControlClaim, ControlOk, ControlErr, ControlReturn
    <3>2. CASE Gate \/ HeldInput \/ Harness \/ Fence
      BY <3>2 DEF Gate, Tick, apply_held_changes, TickDrained, TickNotReady, TickGated,
         TickDeliver, HeldInput, withdraw, edit, Harness, SignalActivity, DialogOpens,
         DialogAnswered, BudgetPasses, record_native_exit, Fence, persist_fence_frame,
         apply_lineage_fence, FenceClose
    <3>3. CASE Deliver
      BY <3>3 DEF Deliver, ResolveOk, ResolveFail, ProbeUnavailable, ProbeErr,
         ClaimWithdrawn, ClaimDeliver, ClaimFenced, ClaimDispatch, ExecuteOk, ExecuteUnavailable,
         ExecuteErr, SettleOk, SettleErr
    <3> QED BY <2>1, <3>1, <3>2, <3>3 DEF Next
  <2> QED BY <2>1, <2>2
<1>2. d \in Cmd /\ (row[d] = "queued" => d \in ToSet(pending))
  BY <1>1, KindFacts DEF RowsFollow, QueuedRowIsQueued
<1>3. ASSUME NEW h \in Cmd, NEW x \in {"complete", "interrupted"},
             row' = [row EXCEPT ![h] = x], ToSet(pending) = ToSet(pending') \cup {h}
      PROVE  d \in ToSet(pending')
  BY <1>0, <1>2, <1>3
<1>4. ASSUME interrupt_pending PROVE FALSE
  <2>1. row'[d] = IF d \in ToSet(pending) THEN "interrupted" ELSE row[d]
    BY <1>2, <1>4 DEF interrupt_pending
  <2> QED BY <1>2, <2>1
<1>5. CASE UNCHANGED <<row, pending>>
  BY <1>2, <1>5
<1>6. CASE Submit \/ Create \/ Control \/ HeldInput \/ Harness \/ Fence \/ UNCHANGED vars
  BY <1>5, <1>6 DEF vars, storeVars, queueVars, Submit, Admit, insert_command, enqueue_existing,
     EnqueueRejected, CloseEnded, Create, CreateCheck, record_lineage, CreateInsert, CreateAccept,
     Control, ControlClaim, ControlOk, ControlErr, ControlReturn, HeldInput, withdraw, edit,
     Harness, SignalActivity, DialogOpens, DialogAnswered, BudgetPasses, record_native_exit, Fence,
     persist_fence_frame, apply_lineage_fence, FenceClose
<1>7. CASE Start
  <2>1. CASE \E c \in Creates, hasPrompt \in BOOLEAN : StartOk(c, hasPrompt)
    <3> PICK c \in Creates, hasPrompt \in BOOLEAN : StartOk(c, hasPrompt)
      BY <2>1
    <3>1. pending = <<>> /\ ToSet(<<>>) = {}
      BY <1>0, QueueTypes DEF StartOk, DeliveryInv, StartingIsFresh
    <3>2. row[d] # "queued"
      BY <1>2, <3>1
    <3>3. c = d /\ pending' = <<c>>
      BY <1>0, <1>2, <3>2 DEF StartOk
    <3> QED BY <3>3 DEF ToSet
  <2>2. CASE UNCHANGED <<row, pending>>
    BY <1>5, <2>2
  <2> QED BY <1>7, <2>1, <2>2 DEF Start, StartFail, BuildFail, BuildFailReturn, storeVars, queueVars
<1>8. CASE Recv
  <2> PICK c \in Cmd : RecvFull(c) \/ RecvPrompt(c) \/ RecvSteer(c) \/ RecvControl(c)
    BY <1>8 DEF Recv
  <2>1. CASE RecvPrompt(c) \/ RecvSteer(c)
    <3>1. ToSet(pending') = ToSet(pending) \cup {c}
      BY <2>1, Received
    <3>2. row' = [row EXCEPT ![c] = "queued"]
      BY <2>1 DEF RecvPrompt, RecvSteer
    <3> QED BY <1>0, <1>2, <3>1, <3>2
  <2>2. CASE UNCHANGED <<row, pending>>
    BY <1>5, <2>2
  <2> QED BY <1>4, <2>1, <2>2 DEF RecvFull, RecvControl
<1>9. CASE Gate
  <2>1. CASE UNCHANGED <<row, pending>>
    BY <1>5, <2>1
  <2>2. CASE apply_held_changes
    <3>1. PICK c : c = pending[scan] /\ scan \in 1..Len(pending)
      BY <2>2 DEF apply_held_changes
    <3>2. c \in Cmd /\ c \in ToSet(pending)
      BY <1>0, <3>1, QueueTypes, SetOfSeq
    <3>3. CASE pending' = RemoveAt(pending, scan) /\ row' = [row EXCEPT ![c] = "interrupted"]
      <4>1. ToSet(pending) = ToSet(pending') \cup {c}
        BY <1>0, <3>1, <3>3, QueueTypes, SetOfRemove
      <4> QED BY <1>3, <3>2, <3>3, <4>1
    <3>4. CASE pending' = pending /\ row' = [row EXCEPT ![c] = "queued"]
      BY <1>0, <1>2, <3>2, <3>4
    <3> QED BY <1>5, <2>2, <3>1, <3>3, <3>4 DEF apply_held_changes, finalize_withdrawn, apply_edit
  <2> QED BY <1>4, <1>9, <2>1, <2>2 DEF Gate, Tick, TickDrained, TickNotReady, TickGated, TickDeliver,
          storeVars, queueVars
<1>10. CASE Deliver
  <2>1. pending # <<>>
    BY <1>0, <1>10 DEF TypeOK, Deliver, ResolveOk, ResolveFail, ProbeUnavailable, ProbeErr,
       ClaimWithdrawn, ClaimDeliver, ClaimFenced, ClaimDispatch, ExecuteOk, ExecuteUnavailable,
       ExecuteErr, SettleOk, SettleErr
  <2>2. PICK h \in Prompts : h = Head(pending) /\ h \in ToSet(pending) /\ h \in Cmd
    BY <1>0, <2>1, QueueTypes, SetOfTail
  <2>3. CASE ResolveFail \/ ClaimWithdrawn \/ ClaimFenced \/ SettleOk \/ SettleErr
    <3>1. /\ held' = [held EXCEPT ![h] = NotHeld] /\ pending' = Tail(pending)
          /\ \E x \in {"complete", "interrupted"} : row' = [row EXCEPT ![h] = x]
      BY <2>2, <2>3 DEF ResolveFail, ClaimWithdrawn, finalize_withdrawn, ClaimFenced, SettleOk,
         SettleErr, PopHead
    <3>2. ToSet(pending) = ToSet(pending') \cup {h}
      BY <2>1, <2>2, <3>1, PoppedHead
    <3> QED BY <1>3, <2>2, <3>1, <3>2
  <2>4. CASE ClaimDeliver
    <3>1. pending' = pending /\ (row' = row \/ row' = [row EXCEPT ![h] = "queued"])
      BY <2>2, <2>4 DEF ClaimDeliver, apply_edit
    <3> QED BY <1>0, <1>2, <2>2, <3>1
  <2>5. CASE UNCHANGED <<row, pending>>
    BY <1>5, <2>5
  <2> QED BY <1>10, <2>3, <2>4, <2>5 DEF Deliver, ResolveOk, ProbeUnavailable, ProbeErr, ClaimDispatch,
          ExecuteOk, ExecuteUnavailable, ExecuteErr, storeVars, queueVars
<1> QED BY <1>1, <1>6, <1>7, <1>8, <1>9, <1>10 DEF Next

(* Until the Node crashes no transcript row is left reading `queued` for a *)
(* prompt that was delivered, dropped, withdrawn or fenced.                *)
THEOREM QueuedRowsAreQueued == Spec => [](crashes = 0 => QueuedRowIsQueued)
<1>1. Init => RowsFollow
  BY KindFacts DEF Init, RowsFollow, QueuedRowIsQueued
<1>2. DeliveryInv /\ RowsFollow /\ [Next]_vars => RowsFollow'
  BY RowsNext
<1> QED BY <1>1, <1>2, DeliveryCorrect, PTL DEF Spec, RowsFollow

-----------------------------------------------------------------------------
(* No accepted command is lost (runtime.rs, pty_queue.rs).  While a worker *)
(* runs, and until a crash, a row that reads accepted with nothing in doubt*)
(* is in the worker's hands.  A worker whose driver could not be built     *)
(* drops its channel; an adopted instance has no such worker.              *)

WorkerServes == Creates = {} \/ pc \notin {"failing", "ended"}

Owned(c) == ledger[c].state = "accepted" /\ ~ledger[c].unknown => InHand(c)

OwnedInv ==
    /\ Creates = {} => pc \notin {"absent", "starting", "failing"}
    /\ crashes = 0 /\ WorkerServes => \A c \in Cmd : Owned(c)

LEMMA UnlessSettledEffect ==
    ASSUME NEW r \in LedgerRow, NEW o \in Outcomes
    PROVE  UnlessSettled(r, o).state = "settled"
BY SettleEffect DEF UnlessSettled

LEMMA MarkedRow ==
    ASSUME NEW rows \in [Cmd -> LedgerRow], NEW c \in Cmd,
           mark_unsettled_unknown(rows)[c].state = "accepted"
    PROVE  mark_unsettled_unknown(rows)[c].unknown
<1>1. CASE rows[c].state \in {"queued", "accepted"}
  <2>1. mark_unsettled_unknown(rows)[c] = [rows[c] EXCEPT !.unknown = TRUE]
    BY <1>1 DEF mark_unsettled_unknown
  <2>2. rows[c] \in LedgerRow
    OBVIOUS
  <2> QED BY <2>1, <2>2 DEF LedgerRow
<1>2. CASE rows[c].state \notin {"queued", "accepted"}
  BY <1>2 DEF mark_unsettled_unknown
<1> QED BY <1>1, <1>2

(* A refused claim leaves a settled row.                                   *)
LEMMA RefusedIsSettled ==
    ASSUME TypeOK, NEW c \in Cmd, ledger' = claim(c), ClaimRefused(c)
    PROVE  ledger'[c].state = "settled"
<1>1. ledger[c] \in LedgerRow /\ ledger \in [Cmd -> LedgerRow]
  BY DEF TypeOK
<1>2. CASE ledger[c].state = "settled"
  BY <1>1, <1>2 DEF claim
<1>3. CASE ledger[c].state # "settled"
  <2>1. Initiator[c] > 0 /\ is_fenced(c)
    BY <1>3 DEF ClaimRefused
  <2>2. ledger'[c] = settle_command(ledger[c], "fenced")
    BY <1>1, <1>3, <2>1 DEF claim
  <2> QED BY <1>1, <2>2, SettleEffect DEF Outcomes
<1> QED BY <1>2, <1>3

LEMMA OwnedWorker ==
    ASSUME DeliveryInv, LedgerInv, NEW c \in Cmd, Owned(c),
           ledger'[c].state = "accepted", ~ledger'[c].unknown,
           Recv \/ Control \/ Gate \/ Deliver
    PROVE  InHand(c)'
<1>0. TypeOK /\ ledger \in [Cmd -> LedgerRow] /\ ledger[c] \in LedgerRow
  BY DEF DeliveryInv, TypeOK
<1>1. ASSUME ledger'[c] = ledger[c], InHand(c) => InHand(c)' PROVE InHand(c)'
  BY <1>1 DEF Owned
<1>2. ASSUME NEW o \in Outcomes, ledger'[c] = settle_command(ledger[c], o) PROVE FALSE
  BY <1>0, <1>2, SettleEffect
<1>3. ASSUME NEW o \in Outcomes, ledger'[c] = UnlessSettled(ledger[c], o) PROVE FALSE
  BY <1>0, <1>3, UnlessSettledEffect
<1>4. CASE Recv
  <2> PICK e \in Cmd : RecvFull(e) \/ RecvPrompt(e) \/ RecvSteer(e) \/ RecvControl(e)
    BY <1>4 DEF Recv
  <2>1. /\ pc = "select" /\ chan # <<>> /\ e = Head(chan) /\ chan' = Tail(chan)
    BY DEF RecvFull, RecvPrompt, RecvSteer, RecvControl
  <2>2. ToSet(chan) = ToSet(chan') \cup {e} /\ e \in ToSet(chan)
    BY <1>0, <2>1, QueueTypes, SetOfTail
  <2>3. e \notin Creates
    BY <2>2, Channelled
  <2>4. CASE RecvFull(e)
    <3>1. ledger' = [ledger EXCEPT ![e] = settle_command(@, "rejected")] /\ UNCHANGED <<pending, pc>>
      BY <2>4 DEF RecvFull, workerVars
    <3>2. c # e
      BY <1>0, <1>2, <3>1 DEF Outcomes
    <3>3. ledger'[c] = ledger[c]
      BY <1>0, <3>1, <3>2
    <3> QED BY <1>1, <2>1, <2>2, <3>1, <3>2, <3>3 DEF InHand
  <2>5. CASE RecvPrompt(e) \/ RecvSteer(e)
    <3>1. ToSet(pending') = ToSet(pending) \cup {e} /\ ledger' = ledger
      BY <2>5, Received DEF RecvPrompt, RecvSteer
    <3> QED BY <1>1, <2>1, <2>2, <2>3, <3>1 DEF InHand
  <2>6. CASE RecvControl(e)
    <3>1. /\ pc' = "control" /\ ctl' = e
          /\ UNCHANGED <<ledger, pending>> \/ interrupt_pending
      BY <2>6 DEF RecvControl
    <3>2. CASE UNCHANGED <<ledger, pending>>
      BY <1>1, <2>1, <2>2, <3>1, <3>2 DEF InHand
    <3>3. CASE interrupt_pending
      <4>1. ledger'[c] = IF c \in ToSet(pending) THEN UnlessSettled(ledger[c], "rejected")
                         ELSE ledger[c]
        BY <3>3 DEF interrupt_pending
      <4>2. c \notin ToSet(pending)
        BY <1>3, <4>1 DEF Outcomes
      <4> QED BY <1>1, <2>1, <2>2, <3>1, <4>1, <4>2 DEF InHand
    <3> QED BY <3>1, <3>2, <3>3
  <2> QED BY <2>4, <2>5, <2>6
<1>5. CASE Control
  <2>1. /\ pc \in {"control", "controlClaimed", "controlDone"} /\ UNCHANGED pending
        /\ ctl \in Cmd
    BY <1>0, <1>5, KindFacts DEF Control, ControlClaim, ControlOk, ControlErr, ControlReturn,
       queueVars, TypeOK
  <2>2. CASE ControlClaim
    <3>1. /\ pc = "control" /\ ledger' = claim(ctl) /\ UNCHANGED <<chan, ctl>>
          /\ pc' = IF ClaimRefused(ctl) THEN "controlDone" ELSE "controlClaimed"
      BY <2>2 DEF ControlClaim, queueVars
    <3>2. CASE c = ctl
      <4>1. ~ClaimRefused(ctl)
        BY <1>0, <3>1, <3>2, RefusedIsSettled
      <4> QED BY <3>1, <3>2, <4>1 DEF InHand
    <3>3. CASE c # ctl
      <4>1. ledger'[c] = ledger[c]
        BY <1>0, <2>1, <3>1, <3>3, ClaimEffect
      <4> QED BY <1>1, <2>1, <3>1, <3>3, <4>1 DEF InHand
    <3> QED BY <3>2, <3>3
  <2>3. CASE ControlOk \/ \E written \in BOOLEAN : ControlErr(written)
    <3>1. /\ pc = "controlClaimed" /\ UNCHANGED <<chan, ctl>>
          /\ \E o \in {"completed", "uncertain"} :
                ledger' = [ledger EXCEPT ![ctl] = settle_command(@, o)]
      BY <2>3 DEF ControlOk, ControlErr, queueVars
    <3>2. PICK o \in {"completed", "uncertain"} :
             ledger' = [ledger EXCEPT ![ctl] = settle_command(@, o)]
      BY <3>1
    <3>3. c # ctl
      BY <1>0, <1>2, <3>2 DEF Outcomes
    <3>4. ledger'[c] = ledger[c]
      BY <1>0, <3>2, <3>3
    <3> QED BY <1>1, <2>1, <3>1, <3>3, <3>4 DEF InHand
  <2>4. CASE ControlReturn
    <3>1. pc = "controlDone"
      BY <2>4 DEF ControlReturn
    <3>2. CASE UNCHANGED <<ledger, chan>>
      BY <1>1, <2>1, <3>1, <3>2 DEF InHand
    <3>3. CASE ledger' = [d \in Cmd |-> IF d \in ToSet(chan)
                                        THEN settle_command(ledger[d], "rejected") ELSE ledger[d]]
      <4>1. c \notin ToSet(chan) /\ ledger'[c] = ledger[c]
        BY <1>2, <3>3 DEF Outcomes
      <4> QED BY <1>1, <2>1, <3>1, <4>1 DEF InHand
    <3> QED BY <2>4, <3>2, <3>3 DEF ControlReturn
  <2> QED BY <1>5, <2>2, <2>3, <2>4 DEF Control
<1>6. CASE Gate
  <2>1. /\ pc \in {"select", "scan"} /\ UNCHANGED <<chan, ctl>>
    BY <1>6 DEF queueVars, Gate, Tick, apply_held_changes, TickDrained, TickNotReady, TickGated,
       TickDeliver, Scanned
  <2>2. CASE UNCHANGED <<ledger, pending>>
    BY <1>1, <2>1, <2>2 DEF InHand
  <2>3. CASE interrupt_pending
    <3>1. ledger'[c] = IF c \in ToSet(pending) THEN UnlessSettled(ledger[c], "rejected")
                       ELSE ledger[c]
      BY <2>3 DEF interrupt_pending
    <3>2. c \notin ToSet(pending)
      BY <1>3, <3>1 DEF Outcomes
    <3> QED BY <1>1, <2>1, <3>1, <3>2 DEF InHand
  <2>4. ASSUME NEW e, e = pending[scan], scan \in 1..Len(pending),
               pending' = RemoveAt(pending, scan),
               ledger' = [ledger EXCEPT ![e] = UnlessSettled(@, "withdrawn")]
        PROVE  InHand(c)'
    <3>1. c # e
      BY <1>0, <1>3, <2>4 DEF Outcomes
    <3>2. ledger'[c] = ledger[c]
      BY <1>0, <2>4, <3>1
    <3>3. ToSet(pending) = ToSet(pending') \cup {e}
      BY <1>0, <2>4, QueueTypes, SetOfRemove
    <3> QED BY <1>1, <2>1, <3>1, <3>2, <3>3 DEF InHand
  <2> QED BY <1>6, <2>2, <2>3, <2>4 DEF Gate, Tick, apply_held_changes, finalize_withdrawn, TickDrained,
          TickNotReady, TickGated, TickDeliver, storeVars, queueVars
<1>7. CASE Deliver
  <2>1. /\ pending # <<>> /\ UNCHANGED <<chan, ctl>>
        /\ pc \in {"resolve", "probe", "claimed", "executing", "written", "erred"}
    BY <1>0, <1>7 DEF TypeOK, Deliver, ResolveOk, ResolveFail, ProbeUnavailable, ProbeErr,
       ClaimWithdrawn, ClaimDeliver, ClaimFenced, ClaimDispatch, ExecuteOk, ExecuteUnavailable,
       ExecuteErr, SettleOk, SettleErr, queueVars
  <2>2. PICK h \in Prompts : h = Head(pending) /\ h \in ToSet(pending) /\ h \in Cmd
    BY <1>0, <2>1, QueueTypes, SetOfTail
  <2>3. CASE UNCHANGED <<ledger, pending>>
    BY <1>1, <2>1, <2>3 DEF InHand
  <2>4. h \in Creates => ledger[h].state = "settled" /\ ledger[h].outcome # "fenced"
    BY <2>2 DEF LedgerInv, RowInv, StageIsKept
  <2>5. CASE ClaimDispatch
    <3>1. pending' = pending /\ ledger' = claim(h) /\ ~ClaimRefused(h)
      BY <2>2, <2>5 DEF ClaimDispatch, queueVars
    <3>2. CASE c = h
      <4>1. h \notin Creates
        BY <1>0, <2>2, <2>4, <3>1, <3>2, ClaimEffect
      <4> QED BY <2>2, <3>1, <3>2, <4>1 DEF InHand
    <3>3. CASE c # h
      <4>1. ledger'[c] = ledger[c]
        BY <1>0, <2>2, <3>1, <3>3, ClaimEffect
      <4> QED BY <1>1, <2>1, <3>1, <4>1 DEF InHand
    <3> QED BY <3>2, <3>3
  <2>6. CASE ResolveFail \/ ClaimWithdrawn \/ ClaimFenced \/ SettleOk \/ SettleErr
    <3>1. held' = [held EXCEPT ![h] = NotHeld] /\ pending' = Tail(pending)
      BY <2>2, <2>6 DEF ResolveFail, ClaimWithdrawn, ClaimFenced, SettleOk, SettleErr, PopHead
    <3>2. ToSet(pending) = ToSet(pending') \cup {h}
      BY <2>1, <2>2, <3>1, PoppedHead
    <3>3. c # h
      <4>1. ledger'[h].state = "settled"
        <5>1. ASSUME NEW o \in Outcomes, ledger' = [ledger EXCEPT ![h] = UnlessSettled(@, o)]
              PROVE  ledger'[h].state = "settled"
          BY <1>0, <2>2, <5>1, UnlessSettledEffect
        <5>2. CASE ResolveFail \/ ClaimWithdrawn
          BY <2>2, <5>1, <5>2 DEF ResolveFail, ClaimWithdrawn, finalize_withdrawn, Outcomes
        <5>3. CASE ClaimFenced
          BY <1>0, <2>2, <5>3, RefusedIsSettled DEF ClaimFenced
        <5>4. CASE SettleOk \/ SettleErr
          BY <2>2, <2>4, <5>1, <5>4 DEF SettleOk, SettleErr, SettleDelivered, Outcomes
        <5> QED BY <2>6, <5>2, <5>3, <5>4
      <4> QED BY <4>1
    <3>4. ledger'[c] = ledger[c]
      BY <2>1, <2>2, <2>6, <3>3, PoppedRow
    <3> QED BY <1>1, <2>1, <3>2, <3>3, <3>4 DEF InHand
  <2> QED BY <1>7, <2>3, <2>5, <2>6 DEF Deliver, ResolveOk, ProbeUnavailable, ProbeErr, ClaimDeliver,
          ExecuteOk, ExecuteUnavailable, ExecuteErr, storeVars, queueVars
<1> QED BY <1>4, <1>5, <1>6, <1>7

LEMMA OwnedTasks ==
    ASSUME DeliveryInv, LedgerInv, NEW c \in Cmd, Owned(c),
           ledger'[c].state = "accepted", ~ledger'[c].unknown,
           \/ Submit \/ Create \/ HeldInput \/ Harness \/ Fence \/ UNCHANGED vars
           \/ \E e \in Creates, p \in BOOLEAN : StartOk(e, p)
    PROVE  InHand(c)'
<1>0. TypeOK /\ ledger \in [Cmd -> LedgerRow] /\ ledger[c] \in LedgerRow
  BY DEF DeliveryInv, TypeOK
<1>1. ASSUME ledger'[c] = ledger[c], InHand(c) => InHand(c)' PROVE InHand(c)'
  BY <1>1 DEF Owned
<1>2. ASSUME NEW r \in LedgerRow, NEW o \in Outcomes, ledger'[c] = settle_command(r, o) PROVE FALSE
  BY <1>2, SettleEffect
<1>3. ASSUME ledger'[c] = mark_unsettled_unknown(ledger)[c] PROVE FALSE
  BY <1>0, <1>3, MarkedRow
<1>4. CASE Submit
  <2> PICK e \in Cmd : \/ Admit(e) \/ insert_command(e) \/ enqueue_existing(e)
                       \/ EnqueueRejected(e) \/ CloseEnded(e)
    BY <1>4 DEF Submit
  <2>1. UNCHANGED <<pending, pc, ctl>>
    BY DEF Admit, insert_command, enqueue_existing, EnqueueRejected, CloseEnded, queueVars, workerVars
  <2>2. CASE enqueue_existing(e)
    <3>1. /\ ledger' = [ledger EXCEPT ![e] = accept_command(@)] /\ chan' = Append(chan, e)
      BY <2>2 DEF enqueue_existing
    <3>2. ToSet(Append(chan, e)) = ToSet(chan) \cup {e}
      BY <1>0, QueueTypes, SetOfAppend
    <3>3. CASE c = e
      BY <3>1, <3>2, <3>3 DEF InHand
    <3>4. CASE c # e
      <4>1. ledger'[c] = ledger[c]
        BY <1>0, <3>1, <3>4
      <4> QED BY <1>1, <2>1, <3>1, <3>2, <4>1 DEF InHand
    <3> QED BY <3>3, <3>4
  <2>3. CASE ~enqueue_existing(e)
    <3>1. chan' = chan
      BY <2>3 DEF Admit, insert_command, EnqueueRejected, CloseEnded, queueVars
    <3>2. ledger'[c] = ledger[c]
      <4>1. CASE Admit(e)
        BY <4>1 DEF Admit, storeVars
      <4>2. CASE insert_command(e)
        <5>1. ledger' = [ledger EXCEPT ![e] = NewRow]
          BY <4>2 DEF insert_command
        <5> QED BY <1>0, <5>1, NewRowFacts
      <4>3. CASE EnqueueRejected(e)
        <5>1. ledger' = [ledger EXCEPT ![e] = settle_command(NewRow, "rejected")]
          BY <4>3 DEF EnqueueRejected
        <5> QED BY <1>0, <1>2, <5>1, NewRowFacts DEF Outcomes
      <4>4. CASE CloseEnded(e)
        <5>1. CASE ledger' = ledger
          BY <5>1
        <5>2. CASE ledger' = [UnknownIfRunning EXCEPT
                                 ![e] = settle_command(accept_command(NewRow), "completed")]
          <6>1. UnknownIfRunning \in [Cmd -> LedgerRow]
            BY <1>0, MarkType DEF UnknownIfRunning
          <6>2. c # e
            BY <1>2, <5>2, <6>1, NewRowFacts DEF Outcomes
          <6>3. ledger'[c] = UnknownIfRunning[c]
            BY <5>2, <6>1, <6>2
          <6> QED BY <1>3, <6>3 DEF UnknownIfRunning
        <5> QED BY <4>4, <5>1, <5>2 DEF CloseEnded
      <4> QED BY <2>3, <4>1, <4>2, <4>3, <4>4
    <3> QED BY <1>1, <2>1, <3>1, <3>2 DEF InHand
  <2> QED BY <2>2, <2>3
<1>5. CASE Create
  <2> PICK e \in Creates : \/ CreateCheck(e) \/ record_lineage(e) \/ CreateInsert(e) \/ CreateAccept(e)
    BY <1>5 DEF Create
  <2>1. UNCHANGED <<chan, pending, ctl>>
    BY DEF CreateCheck, record_lineage, CreateInsert, CreateAccept, queueVars, workerVars
  <2>2. CASE CreateCheck(e) \/ record_lineage(e)
    <3>1. pc' = pc /\ ledger' = ledger
      BY <2>2 DEF CreateCheck, record_lineage, storeVars, workerVars
    <3> QED BY <1>1, <2>1, <3>1 DEF InHand
  <2>3. CASE CreateInsert(e)
    <3>1. pc' = pc /\ ledger' = [ledger EXCEPT ![e] = NewRow]
      BY <2>3 DEF CreateInsert, workerVars
    <3>2. ledger'[c] = ledger[c]
      BY <1>0, <3>1, NewRowFacts
    <3> QED BY <1>1, <2>1, <3>1, <3>2 DEF InHand
  <2>4. CASE CreateAccept(e)
    <3>1. pc = "absent" /\ pc' = "starting" /\ ledger' = [ledger EXCEPT ![e] = accept_command(NewRow)]
      BY <2>4 DEF CreateAccept
    <3>2. CASE c = e
      BY <3>1, <3>2 DEF InHand
    <3>3. CASE c # e
      <4>1. ledger'[c] = ledger[c]
        BY <1>0, <3>1, <3>3
      <4> QED BY <1>1, <2>1, <3>1, <4>1 DEF InHand
    <3> QED BY <3>2, <3>3
  <2> QED BY <2>2, <2>3, <2>4
<1>6. CASE HeldInput \/ Harness \/ UNCHANGED vars
  <2>1. UNCHANGED <<chan, pending, pc, ctl>>
    BY <1>6 DEF HeldInput, withdraw, edit, Harness, SignalActivity, DialogOpens, DialogAnswered,
       BudgetPasses, record_native_exit, vars, queueVars, workerVars
  <2>2. ledger' = ledger \/ ledger' = mark_unsettled_unknown(ledger)
    BY <1>6 DEF HeldInput, withdraw, edit, Harness, SignalActivity, DialogOpens, DialogAnswered,
       BudgetPasses, record_native_exit, vars, storeVars
  <2> QED BY <1>1, <1>3, <2>1, <2>2 DEF InHand
<1>7. CASE Fence
  <2>1. UNCHANGED <<chan, pending, pc, ctl>>
    BY <1>7 DEF Fence, persist_fence_frame, apply_lineage_fence, FenceClose, queueVars, workerVars
  <2>2. ledger'[c] = ledger[c]
    <3>1. ledger' = ledger \/ \E g \in 1..MaxGen : apply_lineage_fence(g)
      BY <1>7 DEF Fence, persist_fence_frame, FenceClose, storeVars
    <3>2. ledger'[c] = ledger[c] \/ ledger'[c] = settle_command(ledger[c], "fenced")
      BY <3>1 DEF apply_lineage_fence
    <3> QED BY <1>0, <1>2, <3>2 DEF Outcomes
  <2> QED BY <1>1, <2>1, <2>2 DEF InHand
<1>8. ASSUME NEW e \in Creates, NEW p \in BOOLEAN, StartOk(e, p) PROVE InHand(c)'
  <2>1. /\ pc = "starting" /\ chan' = chan /\ \A d \in Creates : d = e
        /\ ledger' = [ledger EXCEPT ![e] = settle_command(accept_command(NewRow), "completed")]
    BY <1>8, CreateAssumption DEF StartOk
  <2>2. pending = <<>> /\ ToSet(pending) = {}
    BY <1>0, <2>1, QueueTypes DEF DeliveryInv, StartingIsFresh
  <2>3. c # e
    BY <1>0, <1>2, <2>1, NewRowFacts DEF Outcomes
  <2>4. ledger'[c] = ledger[c]
    BY <1>0, <2>1, <2>3
  <2> QED BY <1>1, <2>1, <2>2, <2>3, <2>4 DEF InHand
<1> QED BY <1>4, <1>5, <1>6, <1>7, <1>8

LEMMA OwnedNext ==
    ASSUME DeliveryInv, LedgerInv, OwnedInv, [Next]_vars PROVE OwnedInv'
<1>0. TypeOK /\ crashes \in Nat
  BY BoundsAssumption DEF DeliveryInv, TypeOK
<1>1. /\ pc' = pc \/ pc \notin {"absent", "starting", "failing", "ended"} \/ crashes' # 0
         \/ Start \/ Create
      /\ pc' \in {"absent", "starting", "failing"} => pc' = pc \/ Creates # {} \/ BuildFail
      /\ crashes' = crashes \/ crashes' # 0
  <2>1. CASE Submit \/ Create \/ Fence \/ UNCHANGED vars
    BY <2>1 DEF vars, workerVars, Submit, Admit, insert_command, enqueue_existing, EnqueueRejected,
       CloseEnded, Create, CreateCheck, record_lineage, CreateInsert, CreateAccept, Fence,
       persist_fence_frame, apply_lineage_fence, FenceClose
  <2>2. CASE Start
    BY <2>2 DEF Start, StartOk, StartFail, BuildFail, BuildFailReturn
  <2>3. CASE Recv \/ Control
    BY <2>3 DEF workerVars, Recv, RecvFull, RecvPrompt, RecvSteer, RecvControl, Control,
       ControlClaim, ControlOk, ControlErr, ControlReturn
  <2>4. CASE Gate \/ HeldInput \/ Harness
    BY <2>4 DEF workerVars, Gate, Tick, apply_held_changes, Scanned, TickDrained, TickNotReady,
       TickGated, TickDeliver, HeldInput, withdraw, edit, Harness, SignalActivity, DialogOpens,
       DialogAnswered, BudgetPasses, record_native_exit
  <2>5. CASE Deliver
    BY <2>5 DEF Deliver, ResolveOk, ResolveFail, ProbeUnavailable, ProbeErr, ClaimWithdrawn,
       ClaimDeliver, ClaimFenced, ClaimDispatch, ExecuteOk, ExecuteUnavailable, ExecuteErr, SettleOk,
       SettleErr, PopHead
  <2>6. CASE \E survives \in BOOLEAN : Restart(survives)
    <3>1. crashes' = crashes + 1 /\ pc' \in {"select", "ended"}
      BY <2>6 DEF Restart
    <3> QED BY <1>0, <3>1
  <2> QED BY <2>1, <2>2, <2>3, <2>4, <2>5, <2>6 DEF Next
<1>2. Creates = {} => pc' \notin {"absent", "starting", "failing"}
  BY <1>1 DEF OwnedInv, BuildFail
<1>3. ASSUME crashes' = 0, WorkerServes', NEW c \in Cmd PROVE Owned(c)'
  <2>1. crashes = 0 /\ WorkerServes
    <3>1. crashes = 0
      BY <1>1, <1>3
    <3>2. Start /\ Creates # {} => pc \in {"starting", "failing"} /\ (pc = "failing" => pc' = "ended")
      BY DEF Start, StartOk, StartFail, BuildFail, BuildFailReturn
    <3>3. Create => pc' = pc \/ pc = "absent"
      BY DEF Create, CreateCheck, record_lineage, CreateInsert, CreateAccept, workerVars
    <3>4. WorkerServes
      BY <1>1, <1>3, <3>2, <3>3 DEF WorkerServes
    <3> QED BY <3>1, <3>4
  <2>2. Owned(c)
    BY <2>1 DEF OwnedInv
  <2>3. ~\E survives \in BOOLEAN : Restart(survives)
    <3>1. ASSUME NEW survives \in BOOLEAN, Restart(survives) PROVE FALSE
      <4>1. crashes' = crashes + 1
        BY <3>1 DEF Restart
      <4> QED BY <1>0, <1>3, <4>1
    <3> QED BY <3>1
  <2>4. Start => \E e \in Creates, p \in BOOLEAN : StartOk(e, p)
    BY <1>2, <1>3 DEF Start, StartFail, BuildFail, BuildFailReturn, WorkerServes, OwnedInv
  <2>5. ASSUME ledger'[c].state = "accepted", ~ledger'[c].unknown PROVE InHand(c)'
    <3>1. CASE Recv \/ Control \/ Gate \/ Deliver
      BY <2>2, <2>5, <3>1, OwnedWorker
    <3>2. CASE \/ Submit \/ Create \/ HeldInput \/ Harness \/ Fence \/ UNCHANGED vars
               \/ \E e \in Creates, p \in BOOLEAN : StartOk(e, p)
      BY <2>2, <2>5, <3>2, OwnedTasks
    <3> QED BY <2>3, <2>4, <3>1, <3>2 DEF Next
  <2> QED BY <2>5 DEF Owned
<1> QED BY <1>2, <1>3 DEF OwnedInv

LEMMA OwnedInit == Init => OwnedInv
<1> SUFFICES ASSUME Init PROVE OwnedInv
  OBVIOUS
<1>1. Creates = {} => pc = "select"
  BY DEF Init, InitAdopted
<1>2. ASSUME NEW c \in Cmd PROVE ledger[c].state = "absent"
  BY <1>2 DEF Init, NoRow
<1> QED BY <1>1, <1>2 DEF OwnedInv, Owned

(* Until the Node crashes, no accepted command falls between the task that *)
(* took it, the channel, the queue and the worker, as long as the worker   *)
(* has not ended; an adopted instance's worker loses none even then.       *)
THEOREM AcceptedAreOwned ==
    Spec => [](crashes = 0 /\ WorkerServes => AcceptedIsOwned)
<1>1. OwnedInv => (crashes = 0 /\ WorkerServes => AcceptedIsOwned)
  <2> SUFFICES ASSUME OwnedInv, crashes = 0, WorkerServes, NEW c \in Cmd,
                      ledger[c].state = "accepted", ~ledger[c].unknown
               PROVE  \/ c \in ToSet(chan) \cup ToSet(pending) \cup {ctl}
                      \/ c \in Creates /\ pc = "starting"
    BY DEF AcceptedIsOwned
  <2>1. InHand(c)
    BY DEF OwnedInv, Owned
  <2> QED BY <2>1 DEF InHand
<1>2. DeliveryInv /\ LedgerInv /\ OwnedInv /\ [Next]_vars => OwnedInv'
  BY OwnedNext
<1> QED BY <1>1, <1>2, OwnedInit, LedgerInvariant, DeliveryCorrect, PTL DEF Spec

-----------------------------------------------------------------------------
(* What FencedChapterEnds rests on (fence.rs, apply_lineage_fence).  For   *)
(* an adopted instance, until a crash: a fence that passed its chapter has *)
(* a close that is still to be submitted, on its way to the worker, in its *)
(* hands, or settled as refused or failed.  Each row of such a close only  *)
(* moves forward while the instance is open (CloseRow).                    *)

StillOpen == lifecycle \in {"starting", "ready"}

CloseRow(c) ==
    /\ rpc[c] \in {"idle", "admitted", "inserted", "answered"}
    /\ rpc[c] = "answered" => ledger[c].state \in {"accepted", "settled"}
    /\ ledger[c].state = "settled" => ledger[c].outcome \in {"rejected", "uncertain"}
    /\ ~ledger[c].unknown

Passed == Chapter > 0 /\ Chapter < applied

ChaseInv ==
    crashes = 0 =>
       /\ Chapter # 0 => recorded
       /\ pc = "ended" => ~StillOpen
       /\ StillOpen => \A c \in FenceCloses : CloseRow(c)
       /\ Passed /\ StillOpen => closing # {} \/ \E c \in FenceCloses : rpc[c] # "idle"

(* What a step does with a close the fence submits, while the instance is  *)
(* open.                                                                   *)
CloseKept(c) == rpc'[c] = rpc[c] /\ ledger'[c] = ledger[c]
CloseRises(c) ==
    \/ rpc[c] = "idle" /\ rpc'[c] = "admitted" /\ ledger'[c] = ledger[c]
    \/ rpc[c] = "admitted" /\ rpc'[c] = "inserted" /\ ledger'[c] = NewRow
    \/ rpc[c] = "inserted" /\ rpc'[c] = "answered" /\ ledger'[c] = accept_command(ledger[c])
CloseFails(c) ==
    /\ rpc'[c] \in {rpc[c], "answered"}
    /\ \E o \in {"rejected", "uncertain"}, r \in {ledger[c], NewRow} : ledger'[c] = settle_command(r, o)

CloseMoves(c) == ~StillOpen' \/ CloseKept(c) \/ CloseRises(c) \/ CloseFails(c)

LEMMA CloseFacts ==
    ASSUME TypeOK, NEW c \in FenceCloses
    PROVE  /\ c \in Cmd /\ c \notin Prompts /\ c \notin ToSet(pending)
           /\ Initiator[c] = 0 /\ ledger \in [Cmd -> LedgerRow]
           /\ c \notin Creates
BY KindFacts, QueueTypes, GenerationAssumption DEF TypeOK

LEMMA CloseSubmit ==
    ASSUME DeliveryInv, NEW c \in FenceCloses, Submit, SenderOpen \/ ~StillOpen
    PROVE  CloseMoves(c)
<1>0. TypeOK /\ c \in Cmd /\ c \notin Creates /\ ledger \in [Cmd -> LedgerRow]
  BY CloseFacts DEF DeliveryInv
<1>1. rpc \in [Cmd -> {"idle", "checked", "admitted", "refused", "inserted", "answered"}]
  BY <1>0 DEF TypeOK
<1> PICK e \in Cmd : \/ Admit(e) \/ insert_command(e) \/ enqueue_existing(e)
                     \/ EnqueueRejected(e) \/ CloseEnded(e)
  BY DEF Submit
<1>2. CASE Admit(e)
  <2>1. c # e /\ ledger' = ledger
    BY <1>2 DEF Admit, storeVars
  <2>2. rpc'[c] = rpc[c]
    BY <1>0, <1>1, <1>2, <2>1 DEF Admit
  <2> QED BY <2>1, <2>2 DEF CloseMoves, CloseKept
<1>3. CASE insert_command(e)
  <2>1. rpc[e] = "admitted" /\ rpc' = [rpc EXCEPT ![e] = "inserted"] /\ ledger' = [ledger EXCEPT ![e] = NewRow]
    BY <1>3 DEF insert_command
  <2> QED BY <1>0, <1>1, <2>1 DEF CloseMoves, CloseKept, CloseRises
<1>4. CASE enqueue_existing(e)
  <2>1. /\ rpc[e] = "inserted" /\ rpc' = [rpc EXCEPT ![e] = "answered"]
        /\ ledger' = [ledger EXCEPT ![e] = accept_command(@)]
    BY <1>4 DEF enqueue_existing, AnswerSubmit
  <2> QED BY <1>0, <1>1, <2>1 DEF CloseMoves, CloseKept, CloseRises
<1>5. CASE EnqueueRejected(e)
  <2>1. /\ rpc' = [rpc EXCEPT ![e] = "answered"]
        /\ ledger' = [ledger EXCEPT ![e] = settle_command(NewRow, "rejected")]
    BY <1>5 DEF EnqueueRejected, AnswerSubmit
  <2>2. CASE c = e
    <3>1. rpc'[c] = "answered" /\ ledger'[c] = settle_command(NewRow, "rejected")
      BY <1>0, <1>1, <2>1, <2>2
    <3> QED BY <3>1 DEF CloseMoves, CloseFails
  <2>3. CASE c # e
    BY <1>0, <1>1, <2>1, <2>3 DEF CloseMoves, CloseKept
  <2> QED BY <2>2, <2>3
<1>6. CASE CloseEnded(e)
  <2>1. ~SenderOpen /\ (lifecycle' = "exited" \/ lifecycle' = lifecycle)
    BY <1>6 DEF CloseEnded, MarkExited
  <2> QED BY <2>1 DEF CloseMoves, StillOpen
<1> QED BY <1>2, <1>3, <1>4, <1>5, <1>6

LEMMA CloseControl ==
    ASSUME DeliveryInv, NEW c \in FenceCloses, Control
    PROVE  CloseMoves(c)
<1>0. /\ TypeOK /\ c \in Cmd /\ ledger \in [Cmd -> LedgerRow] /\ Initiator[c] = 0
  BY CloseFacts DEF DeliveryInv
<1>1. rpc' = rpc /\ ctl \in Cmd
  BY <1>0, KindFacts DEF Control, ControlClaim, ControlOk, ControlErr, ControlReturn, TypeOK
<1>2. CASE ControlClaim
  <2>1. ledger' = claim(ctl)
    BY <1>2 DEF ControlClaim
  <2>2. c # ctl => ledger'[c] = ledger[c]
    BY <1>0, <1>1, <2>1, ClaimEffect
  <2>3. c = ctl => ledger'[c] = ledger[c]
    BY <1>0, <2>1 DEF claim
  <2> QED BY <1>1, <2>2, <2>3 DEF CloseMoves, CloseKept
<1>3. CASE ControlOk
  <2>1. CASE c = ctl
    BY <1>3, <2>1 DEF ControlOk, CloseMoves, StillOpen
  <2>2. CASE c # ctl
    BY <1>0, <1>1, <1>3, <2>2 DEF ControlOk, CloseMoves, CloseKept
  <2> QED BY <2>1, <2>2
<1>4. ASSUME NEW w \in BOOLEAN, ControlErr(w) PROVE CloseMoves(c)
  <2>1. ledger' = [ledger EXCEPT ![ctl] = settle_command(@, "uncertain")]
    BY <1>4 DEF ControlErr
  <2>2. CASE c = ctl
    <3>1. ledger'[c] = settle_command(ledger[c], "uncertain")
      BY <1>0, <2>1, <2>2
    <3> QED BY <1>1, <3>1 DEF CloseMoves, CloseFails
  <2>3. CASE c # ctl
    BY <1>0, <1>1, <2>1, <2>3 DEF CloseMoves, CloseKept
  <2> QED BY <2>2, <2>3
<1>5. CASE ControlReturn
  BY <1>1, <1>5 DEF ControlReturn, CloseMoves, CloseKept, StillOpen
<1> QED BY <1>2, <1>3, <1>4, <1>5 DEF Control

LEMMA CloseQueue ==
    ASSUME DeliveryInv, LedgerInv, NEW c \in FenceCloses, Recv \/ Gate \/ Deliver
    PROVE  CloseKept(c)
<1>0. /\ TypeOK /\ c \in Cmd /\ c \notin Prompts /\ c \notin ToSet(pending)
      /\ ledger \in [Cmd -> LedgerRow]
  BY CloseFacts DEF DeliveryInv
<1>1. rpc' = rpc
  BY DEF Recv, RecvFull, RecvPrompt, RecvSteer, RecvControl, Gate, Tick, apply_held_changes,
     TickDrained, TickNotReady, TickGated, TickDeliver, Deliver, ResolveOk, ResolveFail,
     ProbeUnavailable, ProbeErr, ClaimWithdrawn, ClaimDeliver, ClaimFenced, ClaimDispatch, ExecuteOk,
     ExecuteUnavailable, ExecuteErr, SettleOk, SettleErr
<1>2. ASSUME interrupt_pending PROVE ledger'[c] = ledger[c]
  BY <1>0, <1>2 DEF interrupt_pending
<1>3. CASE Recv
  <2> PICK e \in Cmd : RecvFull(e) \/ RecvPrompt(e) \/ RecvSteer(e) \/ RecvControl(e)
    BY <1>3 DEF Recv
  <2>1. CASE RecvFull(e)
    BY <1>0, <1>1, <2>1 DEF RecvFull, CloseKept
  <2>2. CASE RecvPrompt(e) \/ RecvSteer(e) \/ RecvControl(e)
    BY <1>1, <1>2, <2>2 DEF RecvPrompt, RecvSteer, RecvControl, CloseKept
  <2> QED BY <2>1, <2>2
<1>4. CASE Gate
  <2>1. CASE apply_held_changes
    <3>1. scan \in 1..Len(pending) /\ pending[scan] \in Prompts
      BY <1>0, <2>1, QueueTypes DEF apply_held_changes
    <3>2. c # pending[scan]
      BY <1>0, <3>1
    <3>3. ledger' = ledger \/ ledger' = [ledger EXCEPT ![pending[scan]] = UnlessSettled(@, "withdrawn")]
      BY <2>1 DEF apply_held_changes, finalize_withdrawn
    <3> QED BY <1>0, <1>1, <3>2, <3>3 DEF CloseKept
  <2>2. CASE TickNotReady
    BY <1>1, <1>2, <2>2 DEF TickNotReady, CloseKept
  <2>3. CASE Tick \/ TickDrained \/ TickGated \/ TickDeliver
    BY <1>1, <2>3 DEF Tick, TickDrained, TickGated, TickDeliver, storeVars, CloseKept
  <2> QED BY <1>4, <2>1, <2>2, <2>3 DEF Gate
<1>5. CASE Deliver
  <2>1. pending # <<>>
    BY <1>0, <1>5 DEF TypeOK, Deliver, ResolveOk, ResolveFail, ProbeUnavailable, ProbeErr,
       ClaimWithdrawn, ClaimDeliver, ClaimFenced, ClaimDispatch, ExecuteOk, ExecuteUnavailable,
       ExecuteErr, SettleOk, SettleErr
  <2>2. PICK h \in Cmd : h = Head(pending) /\ h # c
    BY <1>0, <2>1, QueueTypes, SetOfTail
  <2>3. CASE ClaimDispatch
    BY <1>0, <1>1, <2>2, <2>3, ClaimEffect DEF ClaimDispatch, CloseKept
  <2>4. CASE ResolveFail \/ ClaimWithdrawn \/ ClaimFenced \/ SettleOk \/ SettleErr
    BY <1>0, <1>1, <2>1, <2>2, <2>4, PoppedRow DEF CloseKept
  <2>5. CASE UNCHANGED ledger
    BY <1>1, <2>5 DEF CloseKept
  <2> QED BY <1>5, <2>3, <2>4, <2>5 DEF Deliver, ResolveOk, ProbeUnavailable, ProbeErr, ClaimDeliver,
          ExecuteOk, ExecuteUnavailable, ExecuteErr, storeVars
<1> QED BY <1>3, <1>4, <1>5

LEMMA CloseOthers ==
    ASSUME DeliveryInv, NEW c \in FenceCloses, HeldInput \/ Fence \/ Harness
    PROVE  CloseMoves(c)
<1>0. TypeOK /\ c \in Cmd /\ ledger \in [Cmd -> LedgerRow] /\ Initiator[c] = 0
  BY CloseFacts DEF DeliveryInv
<1>1. CASE HeldInput \/ Harness
  BY <1>1 DEF HeldInput, withdraw, edit, Harness, SignalActivity, DialogOpens, DialogAnswered,
     BudgetPasses, record_native_exit, storeVars, CloseMoves, CloseKept, StillOpen
<1>2. ASSUME NEW g \in 1..MaxGen, persist_fence_frame(g) PROVE CloseMoves(c)
  BY <1>2 DEF persist_fence_frame, storeVars, CloseMoves, CloseKept
<1>3. ASSUME NEW g \in 1..MaxGen, apply_lineage_fence(g) PROVE CloseMoves(c)
  <2>1. ~Below(c, g)
    BY <1>0 DEF Below
  <2>2. ledger'[c] = ledger[c] /\ rpc' = rpc
    BY <1>0, <1>3, <2>1 DEF apply_lineage_fence
  <2> QED BY <2>2 DEF CloseMoves, CloseKept
<1>4. ASSUME NEW g \in 1..MaxGen, NEW d \in FenceCloses, FenceClose(g, d) PROVE CloseMoves(c)
  <2>1. /\ rpc[d] = "idle" /\ ledger' = ledger
        /\ rpc' = rpc \/ rpc' = [rpc EXCEPT ![d] = "admitted"]
    BY <1>4 DEF FenceClose, storeVars
  <2>2. c = d => rpc'[c] \in {rpc[c], "admitted"}
    BY <1>0, <2>1 DEF TypeOK
  <2>3. c # d => rpc'[c] = rpc[c]
    BY <1>0, <2>1 DEF TypeOK
  <2> QED BY <2>1, <2>2, <2>3 DEF CloseMoves, CloseKept, CloseRises
<1> QED BY <1>1, <1>2, <1>3, <1>4 DEF Fence

LEMMA CloseRowKept ==
    ASSUME TypeOK, NEW c \in FenceCloses, CloseRow(c), CloseMoves(c), StillOpen'
    PROVE  CloseRow(c)'
<1>0. c \in Cmd /\ ledger[c] \in LedgerRow /\ NewRow \in LedgerRow
  BY CloseFacts, NewRowFacts
<1>1. CASE CloseKept(c)
  BY <1>1 DEF CloseKept, CloseRow
<1>2. CASE CloseRises(c)
  <2>1. NewRow.state = "queued" /\ ~NewRow.unknown
    BY DEF NewRow, NoRow
  <2>2. /\ accept_command(ledger[c]).state = "accepted"
        /\ accept_command(ledger[c]).unknown = ledger[c].unknown
    BY <1>0 DEF accept_command, LedgerRow
  <2> QED BY <1>2, <2>1, <2>2 DEF CloseRises, CloseRow
<1>3. CASE CloseFails(c)
  <2>1. PICK o \in {"rejected", "uncertain"}, r \in {ledger[c], NewRow} : ledger'[c] = settle_command(r, o)
    BY <1>3 DEF CloseFails
  <2>2. ledger'[c].state = "settled" /\ ledger'[c].outcome = o /\ ~ledger'[c].unknown
    BY <1>0, <2>1 DEF settle_command, LedgerRow
  <2>3. rpc'[c] \in {"idle", "admitted", "inserted", "answered"}
    BY <1>3 DEF CloseFails, CloseRow
  <2> QED BY <2>2, <2>3 DEF CloseRow
<1> QED BY <1>1, <1>2, <1>3 DEF CloseMoves

(* The step of a fence keeps the chase up.                                 *)
LEMMA ChaseFence ==
    ASSUME TypeOK, Chapter # 0 => recorded, Fence, StillOpen,
           Passed => closing # {} \/ \E c \in FenceCloses : rpc[c] # "idle"
    PROVE  Passed' => closing' # {} \/ \E c \in FenceCloses : rpc'[c] # "idle"
<1>0. Chapter \in Nat /\ applied \in Nat /\ FenceCloses \subseteq Cmd
  BY GenerationAssumption, KindFacts DEF TypeOK
<1>1. ASSUME NEW g \in 1..MaxGen, persist_fence_frame(g), Passed'
      PROVE  closing' # {} \/ \E c \in FenceCloses : rpc'[c] # "idle"
  BY <1>1 DEF persist_fence_frame, Passed
<1>2. ASSUME NEW g \in 1..MaxGen, apply_lineage_fence(g), Passed'
      PROVE  closing' # {} \/ \E c \in FenceCloses : rpc'[c] # "idle"
  <2>1. CASE Passed
    BY <1>2, <2>1 DEF apply_lineage_fence
  <2>2. CASE ~Passed
    <3>1. applied' = g /\ Chapter < g /\ Chapter # 0
      BY <1>0, <1>2, <2>2 DEF apply_lineage_fence, Passed
    <3> QED BY <1>2, <3>1 DEF apply_lineage_fence
  <2> QED BY <2>1, <2>2
<1>3. ASSUME NEW g \in 1..MaxGen, NEW d \in FenceCloses, FenceClose(g, d)
      PROVE  \E c \in FenceCloses : rpc'[c] # "idle"
  <2>1. rpc'[d] = "admitted"
    BY <1>0, <1>3 DEF FenceClose, StillOpen, TypeOK
  <2> QED BY <2>1
<1> QED BY <1>1, <1>2, <1>3 DEF Fence

LEMMA ChaseNext ==
    ASSUME Creates = {}, DeliveryInv, LedgerInv, OwnedInv, ChaseInv, [Next]_vars
    PROVE  ChaseInv'
<1>0. TypeOK /\ crashes \in Nat /\ pc \notin {"absent", "starting", "failing"}
  BY BoundsAssumption DEF DeliveryInv, TypeOK, OwnedInv
<1>1. ~Create /\ ~Start
  BY <1>0 DEF Create, Start, BuildFail, BuildFailReturn
<1>2. ASSUME NEW s \in BOOLEAN, Restart(s) PROVE ChaseInv'
  <2>1. crashes' # 0
    BY <1>0, <1>2 DEF Restart
  <2> QED BY <2>1 DEF ChaseInv
<1>3. CASE UNCHANGED vars
  BY <1>3 DEF vars, storeVars, queueVars, workerVars, fenceVars, ChaseInv, StillOpen, CloseRow, Passed
<1>4. ASSUME Submit \/ Recv \/ Control \/ Gate \/ Deliver \/ HeldInput \/ Fence \/ Harness
      PROVE  ChaseInv'
  <2>1. /\ crashes' = crashes /\ recorded' = recorded
        /\ StillOpen' => StillOpen
        /\ pc' = "ended" => pc = "ended" \/ ~StillOpen'
    <3>1. CASE Submit
      BY <3>1 DEF Submit, Admit, insert_command, enqueue_existing, EnqueueRejected, CloseEnded,
         MarkExited, storeVars, workerVars, fenceVars, StillOpen
    <3>2. CASE Recv \/ Gate \/ HeldInput
      BY <3>2 DEF Recv, RecvFull, RecvPrompt, RecvSteer, RecvControl, Gate, Tick,
         apply_held_changes, TickDrained, TickNotReady, TickGated, TickDeliver, HeldInput, withdraw,
         edit, storeVars, workerVars, fenceVars, StillOpen
    <3>3. CASE Control
      BY <3>3 DEF Control, ControlClaim, ControlOk, ControlErr, ControlReturn, fenceVars, StillOpen
    <3>4. CASE Deliver
      BY <3>4 DEF Deliver, ResolveOk, ResolveFail, ProbeUnavailable, ProbeErr, ClaimWithdrawn,
         ClaimDeliver, ClaimFenced, ClaimDispatch, ExecuteOk, ExecuteUnavailable, ExecuteErr,
         SettleOk, SettleErr, PopHead, storeVars, fenceVars, StillOpen
    <3>5. CASE Fence \/ Harness
      BY <3>5 DEF Fence, persist_fence_frame, apply_lineage_fence, FenceClose, Harness,
         SignalActivity, DialogOpens, DialogAnswered, BudgetPasses, record_native_exit, storeVars,
         workerVars, fenceVars, StillOpen
    <3> QED BY <1>4, <3>1, <3>2, <3>3, <3>4, <3>5
  <2> SUFFICES ASSUME crashes = 0, StillOpen'
               PROVE  /\ \A c \in FenceCloses : CloseRow(c)'
                      /\ Passed' => closing' # {} \/ \E c \in FenceCloses : rpc'[c] # "idle"
    BY <2>1 DEF ChaseInv
  <2>2. /\ StillOpen /\ SenderOpen /\ (Chapter # 0 => recorded)
        /\ \A c \in FenceCloses : CloseRow(c)
        /\ Passed => closing # {} \/ \E c \in FenceCloses : rpc[c] # "idle"
    BY <1>0, <2>1 DEF ChaseInv, SenderOpen
  <2>3. \A c \in FenceCloses : CloseMoves(c)
    BY <1>4, <2>2, CloseSubmit, CloseControl, CloseQueue, CloseOthers DEF CloseMoves
  <2>4. \A c \in FenceCloses : CloseRow(c)'
    BY <1>0, <2>2, <2>3, CloseRowKept
  <2>5. CASE Fence
    BY <1>0, <2>2, <2>4, <2>5, ChaseFence
  <2>6. CASE ~Fence
    <3>1. applied' = applied /\ closing' = closing
      BY <1>4, <2>6 DEF Submit, Admit, insert_command, enqueue_existing, EnqueueRejected, CloseEnded,
         Recv, RecvFull, RecvPrompt, RecvSteer, RecvControl, Gate, Tick, apply_held_changes,
         TickDrained, TickNotReady, TickGated, TickDeliver, HeldInput, withdraw, edit, Control,
         ControlClaim, ControlOk, ControlErr, ControlReturn, Deliver, ResolveOk, ResolveFail,
         ProbeUnavailable, ProbeErr, ClaimWithdrawn, ClaimDeliver, ClaimFenced, ClaimDispatch,
         ExecuteOk, ExecuteUnavailable, ExecuteErr, SettleOk, SettleErr, Harness, SignalActivity,
         DialogOpens, DialogAnswered, BudgetPasses, record_native_exit, fenceVars
    <3>2. \A c \in FenceCloses : rpc[c] # "idle" => rpc'[c] # "idle"
      BY <2>3 DEF CloseMoves, CloseKept, CloseRises, CloseFails
    <3> QED BY <2>2, <2>4, <3>1, <3>2 DEF Passed
  <2> QED BY <2>5, <2>6
<1> QED BY <1>1, <1>2, <1>3, <1>4 DEF Next

(* The close of a fenced chapter, wherever it is.                          *)
CloseUnderWay(c) ==
    \/ rpc[c] \in {"admitted", "inserted"}
    \/ ledger[c].state = "accepted" /\ InHand(c)
    \/ ledger[c].state = "settled" /\ ledger[c].outcome \in {"rejected", "uncertain"}

FenceIsCarriedOut ==
    crashes = 0 /\ Passed /\ StillOpen => closing # {} \/ \E c \in FenceCloses : CloseUnderWay(c)

(* A fence that passed the chapter of an adopted instance never forgets to *)
(* close it: until a crash, and while the instance is open, its close is   *)
(* still to be submitted, on its way, in the worker's hands, or was refused*)
(* or failed (fence.rs, apply_lineage_fence; runtime.rs, submit_command;   *)
(* pty_queue.rs).  FencedChapterEnds adds that these steps are taken, and  *)
(* that a channel with room refuses nothing; viol_fence_close has one that *)
(* is full.                                                                *)
THEOREM FencesAreCarriedOut == Creates = {} /\ Spec => []FenceIsCarriedOut
<1>1. Creates = {} /\ Init => ChaseInv
  <2> SUFFICES ASSUME Creates = {}, Init PROVE ChaseInv
    OBVIOUS
  <2>1. /\ pc = "select" /\ recorded = (Chapter # 0) /\ applied = 0
        /\ \A c \in Cmd : rpc[c] = "idle" /\ ledger[c] = NoRow
    BY DEF Init, InitAdopted
  <2>2. NoRow.state = "absent" /\ ~NoRow.unknown
    BY DEF NoRow
  <2>3. \A c \in FenceCloses : CloseRow(c)
    BY <2>1, <2>2, KindFacts DEF CloseRow
  <2>4. ~Passed
    BY <2>1, GenerationAssumption DEF Passed
  <2> QED BY <2>1, <2>3, <2>4 DEF ChaseInv
<1>2. Creates = {} /\ DeliveryInv /\ LedgerInv /\ OwnedInv /\ ChaseInv /\ [Next]_vars => ChaseInv'
  BY ChaseNext
<1>3. Creates = {} /\ DeliveryInv /\ OwnedInv /\ ChaseInv => FenceIsCarriedOut
  <2> SUFFICES ASSUME Creates = {}, DeliveryInv, OwnedInv, ChaseInv, crashes = 0, Passed, StillOpen, closing = {}
               PROVE  \E c \in FenceCloses : CloseUnderWay(c)
    BY DEF FenceIsCarriedOut
  <2>1. PICK c \in FenceCloses : rpc[c] # "idle" /\ CloseRow(c)
    BY DEF ChaseInv
  <2>2. c \in Cmd
    BY KindFacts
  <2>3. ledger[c].state = "accepted" => InHand(c)
    BY <2>1, <2>2 DEF OwnedInv, WorkerServes, Owned, CloseRow
  <2>4. CloseUnderWay(c)
    BY <2>1, <2>3 DEF CloseRow, CloseUnderWay
  <2> QED BY <2>4
<1>4. DeliveryInv /\ LedgerInv /\ OwnedInv /\ [Next]_vars => OwnedInv'
  BY OwnedNext
<1>5. (Creates = {}) => (Creates = {})'
  OBVIOUS
<1> QED BY <1>1, <1>2, <1>3, <1>4, <1>5, OwnedInit, LedgerInvariant, DeliveryCorrect, PTL DEF Spec

=============================================================================
