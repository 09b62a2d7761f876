--------------------------- MODULE HubFence_proofs ---------------------------
(* Proofs about HubFence, for every set of operations and every bound: work  *)
(* of a fenced chapter never begins at a host that has acknowledged the      *)
(* fence or taken the successor's create, and the outcome of a fenced        *)
(* operation, once definite, stays.                                          *)
EXTENDS HubFence, TLAPS

\* The variables the argument reads, and their types.
Typed ==
    /\ gen \in Nat /\ nlive \in Nat /\ paused \in BOOLEAN
    /\ og \in [Op -> Nat]
    /\ deliv \in [Fence -> {"none", "pending", "acked"}]
    /\ row \in [Command \cup Direct -> RowState]
    /\ at \in [Command -> AtStage]
    /\ ncmd \in [Command -> {"none", "accepted", "written", "done", "fenced"}]
    /\ log \in [Direct -> LogState] /\ disk \in [Direct -> LogState]
    /\ stray \subseteq Fence

\* The delivery task is a record, and works on a fence it was given.
DeliveryTyped ==
    /\ dl = [pc |-> dl.pc, by |-> dl.by, list |-> dl.list, fence |-> dl.fence,
             outs |-> dl.outs, todo |-> dl.todo, cur |-> dl.cur]
    /\ dl.list \subseteq Fence
    /\ dl.pc \in {"wire", "ack"} => dl.fence \in Fence

\* A fence has a delivery exactly when it has been committed.
CommittedIsDelivered ==
    /\ gen >= 1
    /\ \A g \in Fence : deliv[g] = "none" <=> g > gen
    /\ \A g \in dl.list : g <= gen
    /\ dl.pc \in {"wire", "ack"} => dl.fence <= gen
    /\ paused => gen \in Fence

\* A create is queued only by a committed fence.
CreateIsCommitted ==
    \A g \in Fence : row[<<"create", g>>] # "none" => g <= gen

\* What the host acknowledged, or is about to, it has persisted.
AckIsRaised ==
    /\ \A g \in Fence : deliv[g] = "acked" => nlive >= g
    /\ dl.pc = "ack" => nlive >= dl.fence

Sent == {"marked", "wire", "passed", "accepted", "refused"}

\* A create leaves the Hub after the acknowledgement of its fence.
CreateFollowsAck ==
    \A g \in Fence :
       at[<<"create", g>>] \in Sent \/ ncmd[<<"create", g>>] # "none" => deliv[g] = "acked"

\* An entry of the operation log that is on disk is in memory.
LogIsOnDisk == \A d \in Direct : log[d] = "none" => disk[d] = "none"

FenceInv ==
    /\ Typed /\ DeliveryTyped /\ CommittedIsDelivered /\ CreateIsCommitted
    /\ AckIsRaised /\ CreateFollowsAck /\ LogIsOnDisk

LEMMA ConstantsTyped ==
    /\ \A g \in Fence : g \in Nat /\ g >= 2 /\ g <= MaxGen
    /\ \A g \in Fence : <<"create", g>> \in Follow /\ <<"close", g>> \in Follow
    /\ \A g \in Fence : <<"create", g>> \in Command /\ <<"create", g>> \notin Op
    /\ \A g, h \in Fence : <<"create", g>> = <<"create", h>> => g = h
    /\ \A g, h \in Fence : <<"create", g>> # <<"close", h>>
    /\ Cmd \subseteq Command /\ Cmd \subseteq Op /\ Direct \subseteq Op /\ MaxGen \in Nat
    /\ \A g \in Nat : g >= 2 /\ g <= MaxGen => g \in Fence
BY OpsAreApart, Bounds DEF Fence, Follow, Command, Op

\* The invariant reads these variables only.
LEMMA FrameKeeps ==
    ASSUME FenceInv,
           UNCHANGED <<gen, nlive, paused, og, deliv, row, at, ncmd, log, disk, stray, dl>>
    PROVE  FenceInv'
BY DEF FenceInv, Typed, DeliveryTyped, CommittedIsDelivered, CreateIsCommitted, AckIsRaised,
       CreateFollowsAck, LogIsOnDisk

\* Steps 1 and 9 of F: the new generation gets its delivery.
LEMMA FenceCommits ==
    ASSUME FenceInv, gen < MaxGen, gen' = gen + 1, dl' = dl,
           deliv' = [deliv EXCEPT ![gen + 1] = "pending"]
    PROVE  CommittedIsDelivered'
<1>. USE DEF FenceInv, Typed, DeliveryTyped, CommittedIsDelivered
<1>1. gen' \in Fence /\ gen' >= 1
  BY ConstantsTyped
<1>2. \A g \in Fence : deliv'[g] = "none" <=> g > gen'
  BY ConstantsTyped
<1>3. \A g \in dl'.list : g <= gen'
  BY ConstantsTyped
<1>4. dl'.pc \in {"wire", "ack"} => dl'.fence <= gen'
  BY ConstantsTyped
<1>. QED
  BY <1>1, <1>2, <1>3, <1>4

LEMMA InitFence == Init => FenceInv
<1>. SUFFICES ASSUME Init PROVE FenceInv
  OBVIOUS
<1>1. Typed
  BY ConstantsTyped DEF Init, Typed, RowState, AtStage, LogState
<1>2. DeliveryTyped
  BY DEF Init, DeliveryTyped, Idle, Mute, OfLink
<1>3. CommittedIsDelivered
  BY ConstantsTyped DEF Init, CommittedIsDelivered, Idle, Mute, OfLink
<1>4. CreateIsCommitted
  BY ConstantsTyped DEF Init, CreateIsCommitted
<1>5. AckIsRaised
  BY DEF Init, AckIsRaised, Idle
<1>6. CreateFollowsAck /\ LogIsOnDisk
  BY ConstantsTyped DEF Init, CreateFollowsAck, LogIsOnDisk, Sent
<1>. QED
  BY <1>1, <1>2, <1>3, <1>4, <1>5, <1>6 DEF FenceInv

LEMMA CallerArrivesKeeps ==
    ASSUME FenceInv, NEW o \in Op, CallerArrives(o)
    PROVE  FenceInv'
<1>1. Typed'
  BY ConstantsTyped DEF CallerArrives, hubVars, memVars, nodeVars, linkVars, FenceInv, Typed,
     CommittedIsDelivered, CreateIsCommitted, AckIsRaised, CreateFollowsAck, LogIsOnDisk
<1>2. DeliveryTyped' /\ CommittedIsDelivered' /\ CreateIsCommitted' /\ AckIsRaised' /\ CreateFollowsAck' /\ LogIsOnDisk'
  BY DEF CallerArrives, hubVars, memVars, nodeVars, linkVars, FenceInv, DeliveryTyped,
     CommittedIsDelivered, CreateIsCommitted, AckIsRaised, CreateFollowsAck, LogIsOnDisk
<1>. QED
  BY <1>1, <1>2 DEF FenceInv

LEMMA AdmitNodeOpKeeps ==
    ASSUME FenceInv, NEW d \in Direct, NEW i \in Try, AdmitNodeOp(d, i)
    PROVE  FenceInv'
<1>1. Typed'
  BY ConstantsTyped DEF AdmitNodeOp, Authority, Gated, CallTo, Becomes, hubVars, memVars,
     nodeVars, linkVars, FenceInv, Typed, CommittedIsDelivered, CreateIsCommitted, AckIsRaised,
     CreateFollowsAck, LogIsOnDisk, RowState
<1>2. CreateIsCommitted'
  BY ConstantsTyped DEF AdmitNodeOp, Authority, Gated, CallTo, Becomes, hubVars, memVars,
     nodeVars, linkVars, FenceInv, Typed, CommittedIsDelivered, CreateIsCommitted
<1>3. DeliveryTyped' /\ CommittedIsDelivered' /\ AckIsRaised' /\ CreateFollowsAck' /\ LogIsOnDisk'
  BY DEF AdmitNodeOp, Authority, Gated, CallTo, Becomes, hubVars, memVars, nodeVars, linkVars,
     FenceInv, DeliveryTyped, CommittedIsDelivered, AckIsRaised, CreateFollowsAck, LogIsOnDisk
<1>. QED
  BY <1>1, <1>2, <1>3 DEF FenceInv

LEMMA MarkNodeOpSentKeeps ==
    ASSUME FenceInv, NEW d \in Direct, NEW i \in Try, MarkNodeOpSent(d, i)
    PROVE  FenceInv'
<1>1. Typed'
  BY ConstantsTyped DEF MarkNodeOpSent, Authority, CallTo, Becomes, hubVars, memVars, nodeVars,
     linkVars, FenceInv, Typed, CommittedIsDelivered, CreateIsCommitted, AckIsRaised,
     CreateFollowsAck, LogIsOnDisk, RowState
<1>2. CreateIsCommitted'
  BY ConstantsTyped DEF MarkNodeOpSent, Authority, CallTo, Becomes, hubVars, memVars, nodeVars,
     linkVars, FenceInv, Typed, CommittedIsDelivered, CreateIsCommitted
<1>3. DeliveryTyped' /\ CommittedIsDelivered' /\ AckIsRaised' /\ CreateFollowsAck' /\ LogIsOnDisk'
  BY DEF MarkNodeOpSent, Authority, CallTo, Becomes, hubVars, memVars, nodeVars, linkVars,
     FenceInv, DeliveryTyped, CommittedIsDelivered, AckIsRaised, CreateFollowsAck, LogIsOnDisk
<1>. QED
  BY <1>1, <1>2, <1>3 DEF FenceInv

LEMMA NodeOpSendKeeps ==
    ASSUME FenceInv, NEW d \in Direct, NEW i \in Try, NodeOpSend(d, i)
    PROVE  FenceInv'
<1>1. Typed'
  BY ConstantsTyped DEF NodeOpSend, GateFences, Resolve, CallTo, Becomes, hubVars, memVars,
     nodeVars, linkVars, FenceInv, Typed, CommittedIsDelivered, CreateIsCommitted, AckIsRaised,
     CreateFollowsAck, LogIsOnDisk, RowState
<1>2. CreateIsCommitted'
  BY ConstantsTyped DEF NodeOpSend, GateFences, Resolve, CallTo, Becomes, hubVars, memVars,
     nodeVars, linkVars, FenceInv, Typed, CommittedIsDelivered, CreateIsCommitted
<1>3. DeliveryTyped' /\ CommittedIsDelivered' /\ AckIsRaised' /\ CreateFollowsAck' /\ LogIsOnDisk'
  BY DEF NodeOpSend, GateFences, Resolve, CallTo, Becomes, hubVars, memVars, nodeVars, linkVars,
     FenceInv, DeliveryTyped, CommittedIsDelivered, AckIsRaised, CreateFollowsAck, LogIsOnDisk
<1>. QED
  BY <1>1, <1>2, <1>3 DEF FenceInv

LEMMA DirectEntryKeeps ==
    ASSUME FenceInv, NEW d \in Direct, NEW i \in Try, DirectEntry(d, i)
    PROVE  FenceInv'
<1>1. Typed'
  BY ConstantsTyped DEF DirectEntry, CallTo, ReplyOf, hubVars, memVars, opVars, linkVars,
     FenceInv, Typed, CommittedIsDelivered, CreateIsCommitted, AckIsRaised, CreateFollowsAck,
     LogIsOnDisk, LogState
<1>2. LogIsOnDisk'
  BY ConstantsTyped DEF DirectEntry, CallTo, ReplyOf, hubVars, memVars, opVars, linkVars,
     FenceInv, Typed, LogIsOnDisk
<1>3. DeliveryTyped' /\ CommittedIsDelivered' /\ CreateIsCommitted' /\ AckIsRaised' /\ CreateFollowsAck'
  BY DEF DirectEntry, CallTo, ReplyOf, hubVars, memVars, opVars, linkVars, FenceInv,
     DeliveryTyped, CommittedIsDelivered, CreateIsCommitted, AckIsRaised, CreateFollowsAck
<1>. QED
  BY <1>1, <1>2, <1>3 DEF FenceInv

LEMMA DirectRunKeeps ==
    ASSUME FenceInv, NEW d \in Direct, NEW i \in Try, DirectRun(d, i)
    PROVE  FenceInv'
<1>1. Typed'
  BY ConstantsTyped DEF DirectRun, ReplyOf, CallTo, hubVars, memVars, opVars, linkVars,
     FenceInv, Typed, CommittedIsDelivered, CreateIsCommitted, AckIsRaised, CreateFollowsAck,
     LogIsOnDisk, LogState
<1>2. LogIsOnDisk'
  BY ConstantsTyped DEF DirectRun, ReplyOf, CallTo, hubVars, memVars, opVars, linkVars,
     FenceInv, Typed, LogIsOnDisk
<1>3. DeliveryTyped' /\ CommittedIsDelivered' /\ CreateIsCommitted' /\ AckIsRaised' /\ CreateFollowsAck'
  BY DEF DirectRun, ReplyOf, CallTo, hubVars, memVars, opVars, linkVars, FenceInv,
     DeliveryTyped, CommittedIsDelivered, CreateIsCommitted, AckIsRaised, CreateFollowsAck
<1>. QED
  BY <1>1, <1>2, <1>3 DEF FenceInv

LEMMA SettleNodeOpKeeps ==
    ASSUME FenceInv, NEW d \in Direct, NEW i \in Try, SettleNodeOp(d, i)
    PROVE  FenceInv'
<1>1. Typed'
  BY ConstantsTyped DEF SettleNodeOp, Resolve, CallTo, Becomes, hubVars, memVars, nodeVars,
     linkVars, FenceInv, Typed, CommittedIsDelivered, CreateIsCommitted, AckIsRaised,
     CreateFollowsAck, LogIsOnDisk, RowState
<1>2. CreateIsCommitted'
  BY ConstantsTyped DEF SettleNodeOp, Resolve, CallTo, Becomes, hubVars, memVars, nodeVars,
     linkVars, FenceInv, Typed, CommittedIsDelivered, CreateIsCommitted
<1>3. DeliveryTyped' /\ CommittedIsDelivered' /\ AckIsRaised' /\ CreateFollowsAck' /\ LogIsOnDisk'
  BY DEF SettleNodeOp, Resolve, CallTo, Becomes, hubVars, memVars, nodeVars, linkVars, FenceInv,
     DeliveryTyped, CommittedIsDelivered, AckIsRaised, CreateFollowsAck, LogIsOnDisk
<1>. QED
  BY <1>1, <1>2, <1>3 DEF FenceInv

LEMMA QueueCommandKeeps ==
    ASSUME FenceInv, NEW c \in Cmd, QueueCommand(c)
    PROVE  FenceInv'
<1>1. Typed'
  BY ConstantsTyped DEF QueueCommand, Authority, GoTo, Becomes, hubVars, memVars, nodeVars,
     linkVars, FenceInv, Typed, CommittedIsDelivered, CreateIsCommitted, AckIsRaised,
     CreateFollowsAck, LogIsOnDisk, RowState, AtStage
<1>2. CreateIsCommitted'
  BY ConstantsTyped DEF QueueCommand, Authority, GoTo, Becomes, hubVars, memVars, nodeVars,
     linkVars, FenceInv, Typed, CommittedIsDelivered, CreateIsCommitted
<1>3. CreateFollowsAck'
  BY ConstantsTyped DEF QueueCommand, Authority, GoTo, Becomes, hubVars, memVars, nodeVars,
     linkVars, FenceInv, Typed, CommittedIsDelivered, AckIsRaised, CreateFollowsAck, Sent
<1>4. DeliveryTyped' /\ CommittedIsDelivered' /\ AckIsRaised' /\ LogIsOnDisk'
  BY DEF QueueCommand, Authority, GoTo, Becomes, hubVars, memVars, nodeVars, linkVars, FenceInv,
     DeliveryTyped, CommittedIsDelivered, AckIsRaised, LogIsOnDisk
<1>. QED
  BY <1>1, <1>2, <1>3, <1>4 DEF FenceInv

LEMMA RepostKeeps ==
    ASSUME FenceInv, NEW c \in Cmd, Repost(c)
    PROVE  FenceInv'
<1>1. Typed'
  BY ConstantsTyped DEF Repost, GoTo, hubVars, memVars, opVars, nodeVars, linkVars, FenceInv,
     Typed, CommittedIsDelivered, CreateIsCommitted, AckIsRaised, CreateFollowsAck, LogIsOnDisk,
     AtStage
<1>2. CreateFollowsAck'
  BY ConstantsTyped DEF Repost, GoTo, hubVars, memVars, opVars, nodeVars, linkVars, FenceInv,
     Typed, CommittedIsDelivered, AckIsRaised, CreateFollowsAck, Sent
<1>3. DeliveryTyped' /\ CommittedIsDelivered' /\ CreateIsCommitted' /\ AckIsRaised' /\ LogIsOnDisk'
  BY DEF Repost, GoTo, hubVars, memVars, opVars, nodeVars, linkVars, FenceInv, DeliveryTyped,
     CommittedIsDelivered, CreateIsCommitted, AckIsRaised, LogIsOnDisk
<1>. QED
  BY <1>1, <1>2, <1>3 DEF FenceInv

LEMMA NodeClaimKeeps ==
    ASSUME FenceInv, NEW c \in Cmd, NodeClaim(c)
    PROVE  FenceInv'
<1>1. Typed'
  BY ConstantsTyped DEF NodeClaim, hubVars, memVars, opVars, linkVars, FenceInv, Typed,
     CommittedIsDelivered, CreateIsCommitted, AckIsRaised, CreateFollowsAck, LogIsOnDisk
<1>2. CreateFollowsAck'
  BY ConstantsTyped DEF NodeClaim, hubVars, memVars, opVars, linkVars, FenceInv, Typed,
     CommittedIsDelivered, AckIsRaised, CreateFollowsAck, Sent
<1>3. DeliveryTyped' /\ CommittedIsDelivered' /\ CreateIsCommitted' /\ AckIsRaised' /\ LogIsOnDisk'
  BY DEF NodeClaim, hubVars, memVars, opVars, linkVars, FenceInv, DeliveryTyped,
     CommittedIsDelivered, CreateIsCommitted, AckIsRaised, LogIsOnDisk
<1>. QED
  BY <1>1, <1>2, <1>3 DEF FenceInv

LEMMA NodeSettleKeeps ==
    ASSUME FenceInv, NEW c \in Cmd, NodeSettle(c)
    PROVE  FenceInv'
<1>1. Typed'
  BY ConstantsTyped DEF NodeSettle, hubVars, memVars, opVars, linkVars, FenceInv, Typed,
     CommittedIsDelivered, CreateIsCommitted, AckIsRaised, CreateFollowsAck, LogIsOnDisk
<1>2. CreateFollowsAck'
  BY ConstantsTyped DEF NodeSettle, hubVars, memVars, opVars, linkVars, FenceInv, Typed,
     CommittedIsDelivered, AckIsRaised, CreateFollowsAck, Sent
<1>3. DeliveryTyped' /\ CommittedIsDelivered' /\ CreateIsCommitted' /\ AckIsRaised' /\ LogIsOnDisk'
  BY DEF NodeSettle, hubVars, memVars, opVars, linkVars, FenceInv, DeliveryTyped,
     CommittedIsDelivered, CreateIsCommitted, AckIsRaised, LogIsOnDisk
<1>. QED
  BY <1>1, <1>2, <1>3 DEF FenceInv

LEMMA JournalCommandKeeps ==
    ASSUME FenceInv, NEW c \in Cmd, JournalCommand(c)
    PROVE  FenceInv'
<1>1. Typed'
  BY ConstantsTyped DEF JournalCommand, Becomes, hubVars, memVars, nodeVars, linkVars, FenceInv,
     Typed, CommittedIsDelivered, CreateIsCommitted, AckIsRaised, CreateFollowsAck, LogIsOnDisk,
     RowState
<1>2. CreateIsCommitted'
  BY ConstantsTyped DEF JournalCommand, Becomes, hubVars, memVars, nodeVars, linkVars, FenceInv,
     Typed, CommittedIsDelivered, CreateIsCommitted
<1>3. DeliveryTyped' /\ CommittedIsDelivered' /\ AckIsRaised' /\ CreateFollowsAck' /\ LogIsOnDisk'
  BY DEF JournalCommand, Becomes, hubVars, memVars, nodeVars, linkVars, FenceInv, DeliveryTyped,
     CommittedIsDelivered, AckIsRaised, CreateFollowsAck, LogIsOnDisk
<1>. QED
  BY <1>1, <1>2, <1>3 DEF FenceInv

LEMMA MarkForwardIntentKeeps ==
    ASSUME FenceInv, NEW c \in Command, MarkForwardIntent(c)
    PROVE  FenceInv'
<1>1. Typed'
  BY ConstantsTyped DEF MarkForwardIntent, Authority, Gated, GoTo, Becomes, hubVars, memVars,
     nodeVars, linkVars, FenceInv, Typed, CommittedIsDelivered, CreateIsCommitted, AckIsRaised,
     CreateFollowsAck, LogIsOnDisk, RowState, AtStage
<1>2. CreateIsCommitted'
  BY ConstantsTyped DEF MarkForwardIntent, Authority, Gated, GoTo, Becomes, hubVars, memVars,
     nodeVars, linkVars, FenceInv, Typed, CommittedIsDelivered, CreateIsCommitted
<1>3. CreateFollowsAck'
  BY ConstantsTyped DEF MarkForwardIntent, Authority, Gated, GoTo, Becomes, hubVars, memVars,
     nodeVars, linkVars, FenceInv, Typed, CommittedIsDelivered, AckIsRaised, CreateFollowsAck,
     CreateIsCommitted, Sent
<1>4. DeliveryTyped' /\ CommittedIsDelivered' /\ AckIsRaised' /\ LogIsOnDisk'
  BY DEF MarkForwardIntent, Authority, Gated, GoTo, Becomes, hubVars, memVars, nodeVars,
     linkVars, FenceInv, DeliveryTyped, CommittedIsDelivered, AckIsRaised, LogIsOnDisk
<1>. QED
  BY <1>1, <1>2, <1>3, <1>4 DEF FenceInv

LEMMA NoteHeldKeeps ==
    ASSUME FenceInv, NEW c \in Command, NoteHeld(c)
    PROVE  FenceInv'
<1>1. Typed'
  BY ConstantsTyped DEF NoteHeld, GoTo, hubVars, opVars, nodeVars, linkVars, FenceInv, Typed,
     CommittedIsDelivered, CreateIsCommitted, AckIsRaised, CreateFollowsAck, LogIsOnDisk,
     AtStage
<1>2. CreateFollowsAck'
  BY ConstantsTyped DEF NoteHeld, GoTo, hubVars, opVars, nodeVars, linkVars, FenceInv, Typed,
     CommittedIsDelivered, AckIsRaised, CreateFollowsAck, Sent
<1>3. DeliveryTyped' /\ CommittedIsDelivered' /\ CreateIsCommitted' /\ AckIsRaised' /\ LogIsOnDisk'
  BY DEF NoteHeld, GoTo, hubVars, opVars, nodeVars, linkVars, FenceInv, DeliveryTyped,
     CommittedIsDelivered, CreateIsCommitted, AckIsRaised, LogIsOnDisk
<1>. QED
  BY <1>1, <1>2, <1>3 DEF FenceInv

LEMMA SendCommandKeeps ==
    ASSUME FenceInv, NEW c \in Command, SendCommand(c)
    PROVE  FenceInv'
<1>1. Typed'
  BY ConstantsTyped DEF SendCommand, Authority, GateFences, Resolve, GoTo, Becomes, hubVars,
     memVars, nodeVars, linkVars, FenceInv, Typed, CommittedIsDelivered, CreateIsCommitted,
     AckIsRaised, CreateFollowsAck, LogIsOnDisk, RowState, AtStage
<1>2. CreateIsCommitted'
  BY ConstantsTyped DEF SendCommand, Authority, GateFences, Resolve, GoTo, Becomes, hubVars,
     memVars, nodeVars, linkVars, FenceInv, Typed, CommittedIsDelivered, CreateIsCommitted,
     CreateFollowsAck, Sent
<1>3. CreateFollowsAck'
  BY ConstantsTyped DEF SendCommand, Authority, GateFences, Resolve, GoTo, Becomes, hubVars,
     memVars, nodeVars, linkVars, FenceInv, Typed, CommittedIsDelivered, AckIsRaised,
     CreateFollowsAck, Sent
<1>4. DeliveryTyped' /\ CommittedIsDelivered' /\ AckIsRaised' /\ LogIsOnDisk'
  BY DEF SendCommand, Authority, GateFences, Resolve, GoTo, Becomes, hubVars, memVars, nodeVars,
     linkVars, FenceInv, DeliveryTyped, CommittedIsDelivered, AckIsRaised, LogIsOnDisk
<1>. QED
  BY <1>1, <1>2, <1>3, <1>4 DEF FenceInv

LEMMA NodeCheckKeeps ==
    ASSUME FenceInv, NEW c \in Command, NodeCheck(c)
    PROVE  FenceInv'
<1>1. Typed'
  BY ConstantsTyped DEF NodeCheck, GoTo, hubVars, memVars, opVars, nodeVars, linkVars, FenceInv,
     Typed, CommittedIsDelivered, CreateIsCommitted, AckIsRaised, CreateFollowsAck, LogIsOnDisk,
     AtStage
<1>2. CreateFollowsAck'
  BY ConstantsTyped DEF NodeCheck, GoTo, hubVars, memVars, opVars, nodeVars, linkVars, FenceInv,
     Typed, CommittedIsDelivered, AckIsRaised, CreateFollowsAck, Sent
<1>3. DeliveryTyped' /\ CommittedIsDelivered' /\ CreateIsCommitted' /\ AckIsRaised' /\ LogIsOnDisk'
  BY DEF NodeCheck, GoTo, hubVars, memVars, opVars, nodeVars, linkVars, FenceInv, DeliveryTyped,
     CommittedIsDelivered, CreateIsCommitted, AckIsRaised, LogIsOnDisk
<1>. QED
  BY <1>1, <1>2, <1>3 DEF FenceInv

LEMMA NodeAcceptKeeps ==
    ASSUME FenceInv, NEW c \in Command, NodeAccept(c)
    PROVE  FenceInv'
<1>1. Typed'
  BY ConstantsTyped DEF NodeAccept, GoTo, hubVars, memVars, opVars, linkVars, FenceInv, Typed,
     CommittedIsDelivered, CreateIsCommitted, AckIsRaised, CreateFollowsAck, LogIsOnDisk,
     AtStage
<1>2. CreateFollowsAck'
  BY ConstantsTyped DEF NodeAccept, GoTo, hubVars, memVars, opVars, linkVars, FenceInv, Typed,
     CommittedIsDelivered, AckIsRaised, CreateFollowsAck, Sent
<1>3. DeliveryTyped' /\ CommittedIsDelivered' /\ CreateIsCommitted' /\ AckIsRaised' /\ LogIsOnDisk'
  BY DEF NodeAccept, GoTo, hubVars, memVars, opVars, linkVars, FenceInv, DeliveryTyped,
     CommittedIsDelivered, CreateIsCommitted, AckIsRaised, LogIsOnDisk
<1>. QED
  BY <1>1, <1>2, <1>3 DEF FenceInv

LEMMA CommandReplyKeeps ==
    ASSUME FenceInv, NEW c \in Command, CommandReply(c)
    PROVE  FenceInv'
<1>1. Typed'
  BY ConstantsTyped DEF CommandReply, Resolve, GoTo, Becomes, hubVars, memVars, nodeVars,
     linkVars, FenceInv, Typed, CommittedIsDelivered, CreateIsCommitted, AckIsRaised,
     CreateFollowsAck, LogIsOnDisk, RowState, AtStage
<1>2. CreateIsCommitted'
  BY ConstantsTyped DEF CommandReply, Resolve, GoTo, Becomes, hubVars, memVars, nodeVars,
     linkVars, FenceInv, Typed, CommittedIsDelivered, CreateIsCommitted, CreateFollowsAck, Sent
<1>3. CreateFollowsAck'
  BY ConstantsTyped DEF CommandReply, Resolve, GoTo, Becomes, hubVars, memVars, nodeVars,
     linkVars, FenceInv, Typed, CommittedIsDelivered, AckIsRaised, CreateFollowsAck, Sent
<1>4. DeliveryTyped' /\ CommittedIsDelivered' /\ AckIsRaised' /\ LogIsOnDisk'
  BY DEF CommandReply, Resolve, GoTo, Becomes, hubVars, memVars, nodeVars, linkVars, FenceInv,
     DeliveryTyped, CommittedIsDelivered, AckIsRaised, LogIsOnDisk
<1>. QED
  BY <1>1, <1>2, <1>3, <1>4 DEF FenceInv

LEMMA HubGivesUpKeeps ==
    ASSUME FenceInv, HubGivesUp
    PROVE  FenceInv'
BY FrameKeeps DEF HubGivesUp, GiveUp, hubVars, memVars, opVars, nodeVars

LEMMA FencePauseKeeps ==
    ASSUME FenceInv, FencePause
    PROVE  FenceInv'
<1>1. Typed'
  BY ConstantsTyped DEF FencePause, FenceCore, HeldAtHub, InFlight, nodeVars, linkVars,
     FenceInv, Typed, CommittedIsDelivered, CreateIsCommitted, AckIsRaised, CreateFollowsAck,
     LogIsOnDisk, RowState
<1>2. CommittedIsDelivered'
  BY FenceCommits DEF FencePause, FenceCore
<1>3. CreateIsCommitted'
  BY ConstantsTyped DEF FencePause, FenceCore, HeldAtHub, InFlight, nodeVars, linkVars,
     FenceInv, Typed, CommittedIsDelivered, CreateIsCommitted
<1>4. AckIsRaised'
  BY ConstantsTyped DEF FencePause, FenceCore, HeldAtHub, InFlight, nodeVars, linkVars,
     FenceInv, Typed, DeliveryTyped, CommittedIsDelivered, AckIsRaised, CreateFollowsAck
<1>5. CreateFollowsAck'
  BY ConstantsTyped DEF FencePause, FenceCore, HeldAtHub, InFlight, nodeVars, linkVars,
     FenceInv, Typed, CommittedIsDelivered, AckIsRaised, CreateFollowsAck, Sent
<1>6. DeliveryTyped' /\ LogIsOnDisk'
  BY DEF FencePause, FenceCore, HeldAtHub, InFlight, nodeVars, linkVars, FenceInv,
     DeliveryTyped, LogIsOnDisk
<1>. QED
  BY <1>1, <1>2, <1>3, <1>4, <1>5, <1>6 DEF FenceInv

LEMMA FenceSuccessorKeeps ==
    ASSUME FenceInv, FenceSuccessor
    PROVE  FenceInv'
<1>1. Typed'
  BY ConstantsTyped DEF FenceSuccessor, FenceCore, HeldAtHub, InFlight, nodeVars, linkVars,
     FenceInv, Typed, CommittedIsDelivered, CreateIsCommitted, AckIsRaised, CreateFollowsAck,
     LogIsOnDisk, RowState
<1>2. CommittedIsDelivered'
  BY FenceCommits DEF FenceSuccessor, FenceCore
<1>3. CreateIsCommitted'
  BY ConstantsTyped DEF FenceSuccessor, FenceCore, HeldAtHub, InFlight, nodeVars, linkVars,
     FenceInv, Typed, CommittedIsDelivered, CreateIsCommitted
<1>4. AckIsRaised'
  BY ConstantsTyped DEF FenceSuccessor, FenceCore, HeldAtHub, InFlight, nodeVars, linkVars,
     FenceInv, Typed, DeliveryTyped, CommittedIsDelivered, AckIsRaised, CreateFollowsAck
<1>5. CreateFollowsAck'
  BY ConstantsTyped DEF FenceSuccessor, FenceCore, HeldAtHub, InFlight, nodeVars, linkVars,
     FenceInv, Typed, CommittedIsDelivered, AckIsRaised, CreateFollowsAck, Sent
<1>6. DeliveryTyped' /\ LogIsOnDisk'
  BY DEF FenceSuccessor, FenceCore, HeldAtHub, InFlight, nodeVars, linkVars, FenceInv,
     DeliveryTyped, LogIsOnDisk
<1>. QED
  BY <1>1, <1>2, <1>3, <1>4, <1>5, <1>6 DEF FenceInv

LEMMA ResumePausedKeeps ==
    ASSUME FenceInv, ResumePaused
    PROVE  FenceInv'
<1>1. Typed'
  BY ConstantsTyped DEF ResumePaused, Becomes, nodeVars, linkVars, FenceInv, Typed,
     CommittedIsDelivered, CreateIsCommitted, AckIsRaised, CreateFollowsAck, LogIsOnDisk,
     RowState
<1>2. CommittedIsDelivered'
  BY ConstantsTyped DEF ResumePaused, Becomes, nodeVars, linkVars, FenceInv, Typed,
     DeliveryTyped, CommittedIsDelivered, CreateIsCommitted, AckIsRaised, CreateFollowsAck
<1>3. CreateIsCommitted'
  BY ConstantsTyped DEF ResumePaused, Becomes, nodeVars, linkVars, FenceInv, Typed,
     CommittedIsDelivered, CreateIsCommitted
<1>4. DeliveryTyped' /\ AckIsRaised' /\ CreateFollowsAck' /\ LogIsOnDisk'
  BY DEF ResumePaused, Becomes, nodeVars, linkVars, FenceInv, DeliveryTyped, AckIsRaised,
     CreateFollowsAck, LogIsOnDisk
<1>. QED
  BY <1>1, <1>2, <1>3, <1>4 DEF FenceInv

LEMMA AfterCommitKeeps ==
    ASSUME FenceInv, NEW g \in Fence, AfterCommit(g)
    PROVE  FenceInv'
BY FrameKeeps DEF AfterCommit, hubVars, opVars, nodeVars, linkVars

LEMMA ContinuationForwardKeeps ==
    ASSUME FenceInv, NEW g \in Fence, ContinuationForward(g)
    PROVE  FenceInv'
<1>1. Typed'
  BY ConstantsTyped DEF ContinuationForward, GoTo, memVars, opVars, nodeVars, linkVars,
     FenceInv, Typed, CommittedIsDelivered, CreateIsCommitted, AckIsRaised, CreateFollowsAck,
     LogIsOnDisk, AtStage
<1>2. CreateFollowsAck'
  BY ConstantsTyped DEF ContinuationForward, GoTo, memVars, opVars, nodeVars, linkVars,
     FenceInv, Typed, CommittedIsDelivered, AckIsRaised, CreateFollowsAck, Sent
<1>3. DeliveryTyped' /\ CommittedIsDelivered' /\ CreateIsCommitted' /\ AckIsRaised' /\ LogIsOnDisk'
  BY DEF ContinuationForward, GoTo, memVars, opVars, nodeVars, linkVars, FenceInv,
     DeliveryTyped, CommittedIsDelivered, CreateIsCommitted, AckIsRaised, LogIsOnDisk
<1>. QED
  BY <1>1, <1>2, <1>3 DEF FenceInv

LEMMA ApplyStrayKeeps ==
    ASSUME FenceInv, NEW g \in Fence, ApplyStray(g)
    PROVE  FenceInv'
<1>1. Typed'
  BY ConstantsTyped DEF ApplyStray, Raises, Cancelled, hubVars, memVars, opVars, linkVars,
     FenceInv, Typed, CommittedIsDelivered, CreateIsCommitted, AckIsRaised, CreateFollowsAck,
     LogIsOnDisk
<1>2. AckIsRaised'
  BY ConstantsTyped DEF ApplyStray, Raises, Cancelled, hubVars, memVars, opVars, linkVars,
     FenceInv, Typed, DeliveryTyped, CommittedIsDelivered, AckIsRaised, CreateFollowsAck
<1>3. CreateFollowsAck'
  BY ConstantsTyped DEF ApplyStray, Raises, Cancelled, hubVars, memVars, opVars, linkVars,
     FenceInv, Typed, CommittedIsDelivered, AckIsRaised, CreateFollowsAck, Sent
<1>4. DeliveryTyped' /\ CommittedIsDelivered' /\ CreateIsCommitted' /\ LogIsOnDisk'
  BY DEF ApplyStray, Raises, Cancelled, hubVars, memVars, opVars, linkVars, FenceInv,
     DeliveryTyped, CommittedIsDelivered, CreateIsCommitted, LogIsOnDisk
<1>. QED
  BY <1>1, <1>2, <1>3, <1>4 DEF FenceInv

LEMMA DeliverStartKeeps ==
    ASSUME FenceInv, DeliverStart
    PROVE  FenceInv'
<1>1. DeliveryTyped'
  <2>1. PICK t : dl' = [Idle EXCEPT !.pc = "next", !.by = t, !.list = Pending]
    BY DEF DeliverStart
  <2>. QED
    BY <2>1 DEF DeliveryTyped, Idle, Pending
<1>2. CommittedIsDelivered'
  BY ConstantsTyped DEF DeliverStart, Gated, Pending, Idle, hubVars, opVars, nodeVars, linkVars,
     FenceInv, Typed, DeliveryTyped, CommittedIsDelivered, CreateIsCommitted, AckIsRaised,
     CreateFollowsAck
<1>3. AckIsRaised'
  BY ConstantsTyped DEF DeliverStart, Gated, Pending, Idle, hubVars, opVars, nodeVars, linkVars,
     FenceInv, Typed, DeliveryTyped, CommittedIsDelivered, AckIsRaised, CreateFollowsAck
<1>4. Typed' /\ CreateIsCommitted' /\ CreateFollowsAck' /\ LogIsOnDisk'
  BY DEF DeliverStart, Gated, Pending, Idle, hubVars, opVars, nodeVars, linkVars, FenceInv,
     Typed, CreateIsCommitted, CreateFollowsAck, LogIsOnDisk
<1>. QED
  BY <1>1, <1>2, <1>3, <1>4 DEF FenceInv

LEMMA DeliverCallKeeps ==
    ASSUME FenceInv, DeliverCall
    PROVE  FenceInv'
<1>1. DeliveryTyped'
  <2>1. PICK g \in dl.list : dl' = IF link THEN [dl EXCEPT !.pc = "wire", !.fence = g] ELSE Idle
    BY DEF DeliverCall
  <2>2. CASE link
    BY <2>1, <2>2 DEF FenceInv, DeliveryTyped
  <2>3. CASE ~link
    BY <2>1, <2>3 DEF DeliveryTyped, Idle
  <2>. QED
    BY <2>2, <2>3
<1>2. CommittedIsDelivered'
  BY ConstantsTyped DEF DeliverCall, Idle, hubVars, opVars, nodeVars, linkVars, FenceInv, Typed,
     DeliveryTyped, CommittedIsDelivered, CreateIsCommitted, AckIsRaised, CreateFollowsAck
<1>3. AckIsRaised'
  BY ConstantsTyped DEF DeliverCall, Idle, hubVars, opVars, nodeVars, linkVars, FenceInv, Typed,
     DeliveryTyped, CommittedIsDelivered, AckIsRaised, CreateFollowsAck
<1>4. Typed' /\ CreateIsCommitted' /\ CreateFollowsAck' /\ LogIsOnDisk'
  BY DEF DeliverCall, Idle, hubVars, opVars, nodeVars, linkVars, FenceInv, Typed,
     CreateIsCommitted, CreateFollowsAck, LogIsOnDisk
<1>. QED
  BY <1>1, <1>2, <1>3, <1>4 DEF FenceInv

LEMMA ApplyLineageFenceKeeps ==
    ASSUME FenceInv, ApplyLineageFence
    PROVE  FenceInv'
<1>1. Typed'
  BY ConstantsTyped DEF ApplyLineageFence, Raises, Cancelled, hubVars, opVars, linkVars,
     FenceInv, Typed, CommittedIsDelivered, CreateIsCommitted, AckIsRaised, CreateFollowsAck,
     LogIsOnDisk, DeliveryTyped
<1>2. DeliveryTyped'
  BY ConstantsTyped DEF ApplyLineageFence, Raises, Cancelled, hubVars, opVars, linkVars,
     FenceInv, Typed, DeliveryTyped, CommittedIsDelivered, AckIsRaised
<1>3. CommittedIsDelivered'
  BY ConstantsTyped DEF ApplyLineageFence, Raises, Cancelled, hubVars, opVars, linkVars,
     FenceInv, Typed, DeliveryTyped, CommittedIsDelivered, CreateIsCommitted, AckIsRaised,
     CreateFollowsAck
<1>4. AckIsRaised'
  BY ConstantsTyped DEF ApplyLineageFence, Raises, Cancelled, hubVars, opVars, linkVars,
     FenceInv, Typed, DeliveryTyped, CommittedIsDelivered, AckIsRaised, CreateFollowsAck
<1>5. CreateFollowsAck'
  BY ConstantsTyped DEF ApplyLineageFence, Raises, Cancelled, hubVars, opVars, linkVars,
     FenceInv, Typed, CommittedIsDelivered, AckIsRaised, CreateFollowsAck, Sent
<1>6. CreateIsCommitted' /\ LogIsOnDisk'
  BY DEF ApplyLineageFence, Raises, Cancelled, hubVars, opVars, linkVars, FenceInv,
     CreateIsCommitted, LogIsOnDisk
<1>. QED
  BY <1>1, <1>2, <1>3, <1>4, <1>5, <1>6 DEF FenceInv

LEMMA AckFenceKeeps ==
    ASSUME FenceInv, AckFence
    PROVE  FenceInv'
<1>1. Typed'
  BY ConstantsTyped DEF AckFence, nodeVars, linkVars, FenceInv, Typed, CommittedIsDelivered,
     CreateIsCommitted, AckIsRaised, CreateFollowsAck, LogIsOnDisk
<1>2. DeliveryTyped'
  BY ConstantsTyped DEF AckFence, nodeVars, linkVars, FenceInv, Typed, DeliveryTyped,
     CommittedIsDelivered, AckIsRaised
<1>3. CommittedIsDelivered'
  BY ConstantsTyped DEF AckFence, nodeVars, linkVars, FenceInv, Typed, DeliveryTyped,
     CommittedIsDelivered, CreateIsCommitted, AckIsRaised, CreateFollowsAck
<1>4. AckIsRaised'
  BY ConstantsTyped DEF AckFence, nodeVars, linkVars, FenceInv, Typed, DeliveryTyped,
     CommittedIsDelivered, AckIsRaised, CreateFollowsAck
<1>5. CreateFollowsAck'
  BY ConstantsTyped DEF AckFence, nodeVars, linkVars, FenceInv, Typed, CommittedIsDelivered,
     AckIsRaised, CreateFollowsAck, Sent
<1>6. CreateIsCommitted' /\ LogIsOnDisk'
  BY DEF AckFence, nodeVars, linkVars, FenceInv, CreateIsCommitted, LogIsOnDisk
<1>. QED
  BY <1>1, <1>2, <1>3, <1>4, <1>5, <1>6 DEF FenceInv

LEMMA DeliverTakeHeldKeeps ==
    ASSUME FenceInv, DeliverTakeHeld
    PROVE  FenceInv'
<1>1. DeliveryTyped'
  BY ConstantsTyped DEF DeliverTakeHeld, Idle, hubVars, opVars, nodeVars, linkVars, FenceInv,
     Typed, DeliveryTyped, CommittedIsDelivered, AckIsRaised
<1>2. CommittedIsDelivered'
  BY ConstantsTyped DEF DeliverTakeHeld, Idle, hubVars, opVars, nodeVars, linkVars, FenceInv,
     Typed, DeliveryTyped, CommittedIsDelivered, CreateIsCommitted, AckIsRaised,
     CreateFollowsAck
<1>3. AckIsRaised'
  BY ConstantsTyped DEF DeliverTakeHeld, Idle, hubVars, opVars, nodeVars, linkVars, FenceInv,
     Typed, DeliveryTyped, CommittedIsDelivered, AckIsRaised, CreateFollowsAck
<1>4. Typed' /\ CreateIsCommitted' /\ CreateFollowsAck' /\ LogIsOnDisk'
  BY DEF DeliverTakeHeld, Idle, hubVars, opVars, nodeVars, linkVars, FenceInv, Typed,
     CreateIsCommitted, CreateFollowsAck, LogIsOnDisk
<1>. QED
  BY <1>1, <1>2, <1>3, <1>4 DEF FenceInv

LEMMA DeliverForwardKeeps ==
    ASSUME FenceInv, NEW c \in Command, DeliverForward(c)
    PROVE  FenceInv'
<1>1. Typed'
  BY ConstantsTyped DEF DeliverForward, GoTo, hubVars, opVars, nodeVars, linkVars, FenceInv,
     Typed, CommittedIsDelivered, CreateIsCommitted, AckIsRaised, CreateFollowsAck, LogIsOnDisk,
     AtStage
<1>2. DeliveryTyped'
  BY ConstantsTyped DEF DeliverForward, GoTo, hubVars, opVars, nodeVars, linkVars, FenceInv,
     Typed, DeliveryTyped, CommittedIsDelivered, AckIsRaised
<1>3. CommittedIsDelivered'
  BY ConstantsTyped DEF DeliverForward, GoTo, hubVars, opVars, nodeVars, linkVars, FenceInv,
     Typed, DeliveryTyped, CommittedIsDelivered, CreateIsCommitted, AckIsRaised,
     CreateFollowsAck
<1>4. AckIsRaised'
  BY ConstantsTyped DEF DeliverForward, GoTo, hubVars, opVars, nodeVars, linkVars, FenceInv,
     Typed, DeliveryTyped, CommittedIsDelivered, AckIsRaised, CreateFollowsAck
<1>5. CreateFollowsAck'
  BY ConstantsTyped DEF DeliverForward, GoTo, hubVars, opVars, nodeVars, linkVars, FenceInv,
     Typed, CommittedIsDelivered, AckIsRaised, CreateFollowsAck, Sent
<1>6. CreateIsCommitted' /\ LogIsOnDisk'
  BY DEF DeliverForward, GoTo, hubVars, opVars, nodeVars, linkVars, FenceInv, CreateIsCommitted,
     LogIsOnDisk
<1>. QED
  BY <1>1, <1>2, <1>3, <1>4, <1>5, <1>6 DEF FenceInv

LEMMA DeliverEndsKeeps ==
    ASSUME FenceInv, DeliverEnds
    PROVE  FenceInv'
<1>1. DeliveryTyped'
  BY ConstantsTyped DEF DeliverEnds, Idle, hubVars, opVars, nodeVars, linkVars, FenceInv, Typed,
     DeliveryTyped, CommittedIsDelivered, AckIsRaised
<1>2. CommittedIsDelivered'
  BY ConstantsTyped DEF DeliverEnds, Idle, hubVars, opVars, nodeVars, linkVars, FenceInv, Typed,
     DeliveryTyped, CommittedIsDelivered, CreateIsCommitted, AckIsRaised, CreateFollowsAck
<1>3. AckIsRaised'
  BY ConstantsTyped DEF DeliverEnds, Idle, hubVars, opVars, nodeVars, linkVars, FenceInv, Typed,
     DeliveryTyped, CommittedIsDelivered, AckIsRaised, CreateFollowsAck
<1>4. Typed' /\ CreateIsCommitted' /\ CreateFollowsAck' /\ LogIsOnDisk'
  BY DEF DeliverEnds, Idle, hubVars, opVars, nodeVars, linkVars, FenceInv, Typed,
     CreateIsCommitted, CreateFollowsAck, LogIsOnDisk
<1>. QED
  BY <1>1, <1>2, <1>3, <1>4 DEF FenceInv

LEMMA DeliverTimeoutKeeps ==
    ASSUME FenceInv, DeliverTimeout
    PROVE  FenceInv'
<1>1. Typed'
  BY ConstantsTyped DEF DeliverTimeout, Idle, hubVars, opVars, FenceInv, Typed,
     CommittedIsDelivered, CreateIsCommitted, AckIsRaised, CreateFollowsAck, LogIsOnDisk,
     DeliveryTyped
<1>2. DeliveryTyped'
  BY ConstantsTyped DEF DeliverTimeout, Idle, hubVars, opVars, FenceInv, Typed, DeliveryTyped,
     CommittedIsDelivered, AckIsRaised
<1>3. CommittedIsDelivered'
  BY ConstantsTyped DEF DeliverTimeout, Idle, hubVars, opVars, FenceInv, Typed, DeliveryTyped,
     CommittedIsDelivered, CreateIsCommitted, AckIsRaised, CreateFollowsAck
<1>4. AckIsRaised'
  BY ConstantsTyped DEF DeliverTimeout, Idle, hubVars, opVars, FenceInv, Typed, DeliveryTyped,
     CommittedIsDelivered, AckIsRaised, CreateFollowsAck
<1>5. CreateIsCommitted' /\ CreateFollowsAck' /\ LogIsOnDisk'
  BY DEF DeliverTimeout, Idle, hubVars, opVars, FenceInv, CreateIsCommitted, CreateFollowsAck,
     LogIsOnDisk
<1>. QED
  BY <1>1, <1>2, <1>3, <1>4, <1>5 DEF FenceInv

LEMMA LinkDropsKeeps ==
    ASSUME FenceInv, LinkDrops
    PROVE  FenceInv'
<1>1. Typed'
  BY ConstantsTyped DEF LinkDrops, Cut, FenceOnWire, DeliveryCut, Idle, hubVars, opVars,
     FenceInv, Typed, CommittedIsDelivered, CreateIsCommitted, AckIsRaised, CreateFollowsAck,
     LogIsOnDisk, DeliveryTyped, AtStage
<1>2. DeliveryTyped'
  BY ConstantsTyped DEF LinkDrops, Cut, FenceOnWire, DeliveryCut, Idle, hubVars, opVars,
     FenceInv, Typed, DeliveryTyped, CommittedIsDelivered, AckIsRaised
<1>3. CommittedIsDelivered'
  BY ConstantsTyped DEF LinkDrops, Cut, FenceOnWire, DeliveryCut, Idle, hubVars, opVars,
     FenceInv, Typed, DeliveryTyped, CommittedIsDelivered, CreateIsCommitted, AckIsRaised,
     CreateFollowsAck
<1>4. AckIsRaised'
  BY ConstantsTyped DEF LinkDrops, Cut, FenceOnWire, DeliveryCut, Idle, hubVars, opVars,
     FenceInv, Typed, DeliveryTyped, CommittedIsDelivered, AckIsRaised, CreateFollowsAck
<1>5. CreateFollowsAck'
  BY ConstantsTyped DEF LinkDrops, Cut, FenceOnWire, DeliveryCut, Idle, hubVars, opVars,
     FenceInv, Typed, CommittedIsDelivered, AckIsRaised, CreateFollowsAck, Sent
<1>6. CreateIsCommitted' /\ LogIsOnDisk'
  BY DEF LinkDrops, Cut, FenceOnWire, DeliveryCut, Idle, hubVars, opVars, FenceInv,
     CreateIsCommitted, LogIsOnDisk
<1>. QED
  BY <1>1, <1>2, <1>3, <1>4, <1>5, <1>6 DEF FenceInv

LEMMA HelloKeeps ==
    ASSUME FenceInv, Hello
    PROVE  FenceInv'
BY FrameKeeps DEF Hello, hubVars, opVars, nodeVars

LEMMA HubCrashKeeps ==
    ASSUME FenceInv, HubCrash
    PROVE  FenceInv'
<1>1. Typed'
  BY ConstantsTyped DEF HubCrash, Cut, FenceOnWire, Idle, opVars, FenceInv, Typed,
     CommittedIsDelivered, CreateIsCommitted, AckIsRaised, CreateFollowsAck, LogIsOnDisk,
     DeliveryTyped, AtStage
<1>2. DeliveryTyped'
  BY ConstantsTyped DEF HubCrash, Cut, FenceOnWire, Idle, opVars, FenceInv, Typed,
     DeliveryTyped, CommittedIsDelivered, AckIsRaised
<1>3. CommittedIsDelivered'
  BY ConstantsTyped DEF HubCrash, Cut, FenceOnWire, Idle, opVars, FenceInv, Typed,
     DeliveryTyped, CommittedIsDelivered, CreateIsCommitted, AckIsRaised, CreateFollowsAck
<1>4. AckIsRaised'
  BY ConstantsTyped DEF HubCrash, Cut, FenceOnWire, Idle, opVars, FenceInv, Typed,
     DeliveryTyped, CommittedIsDelivered, AckIsRaised, CreateFollowsAck
<1>5. CreateFollowsAck'
  BY ConstantsTyped DEF HubCrash, Cut, FenceOnWire, Idle, opVars, FenceInv, Typed,
     CommittedIsDelivered, AckIsRaised, CreateFollowsAck, Sent
<1>6. CreateIsCommitted' /\ LogIsOnDisk'
  BY DEF HubCrash, Cut, FenceOnWire, Idle, opVars, FenceInv, CreateIsCommitted, LogIsOnDisk
<1>. QED
  BY <1>1, <1>2, <1>3, <1>4, <1>5, <1>6 DEF FenceInv

LEMMA NodeCrashKeeps ==
    ASSUME FenceInv, NodeCrash
    PROVE  FenceInv'
<1>1. Typed'
  BY ConstantsTyped DEF NodeCrash, DeliveryCut, Idle, hubVars, opVars, FenceInv, Typed,
     CommittedIsDelivered, CreateIsCommitted, AckIsRaised, CreateFollowsAck, LogIsOnDisk,
     AtStage, LogState
<1>2. DeliveryTyped'
  BY ConstantsTyped DEF NodeCrash, DeliveryCut, Idle, hubVars, opVars, FenceInv, Typed,
     DeliveryTyped, CommittedIsDelivered, AckIsRaised
<1>3. CommittedIsDelivered'
  BY ConstantsTyped DEF NodeCrash, DeliveryCut, Idle, hubVars, opVars, FenceInv, Typed,
     DeliveryTyped, CommittedIsDelivered, CreateIsCommitted, AckIsRaised, CreateFollowsAck
<1>4. AckIsRaised'
  BY ConstantsTyped DEF NodeCrash, DeliveryCut, Idle, hubVars, opVars, FenceInv, Typed,
     DeliveryTyped, CommittedIsDelivered, AckIsRaised, CreateFollowsAck
<1>5. CreateFollowsAck'
  BY ConstantsTyped DEF NodeCrash, DeliveryCut, Idle, hubVars, opVars, FenceInv, Typed,
     CommittedIsDelivered, AckIsRaised, CreateFollowsAck, Sent
<1>6. LogIsOnDisk'
  BY ConstantsTyped DEF NodeCrash, DeliveryCut, Idle, hubVars, opVars, FenceInv, Typed,
     LogIsOnDisk
<1>7. CreateIsCommitted'
  BY DEF NodeCrash, DeliveryCut, Idle, hubVars, opVars, FenceInv, CreateIsCommitted
<1>. QED
  BY <1>1, <1>2, <1>3, <1>4, <1>5, <1>6, <1>7 DEF FenceInv

(* The delivery, the Node's persisted generation and the creates agree: the  *)
(* inductive invariant behind NoOldWork (fence_core, deliver_host,           *)
(* apply_lineage_fence, mark_forward_intent_gated).                          *)
THEOREM FenceInvariant == Spec => []FenceInv
<1>1. FenceInv /\ [Next]_vars => FenceInv'
  <2>. SUFFICES ASSUME FenceInv, [Next]_vars PROVE FenceInv'
    OBVIOUS
  <2>1. CASE UNCHANGED vars
    BY <2>1, FrameKeeps DEF vars, hubVars, memVars, opVars, nodeVars, linkVars
  <2>2. ASSUME NEW o \in Op, CallerArrives(o) PROVE FenceInv'
    BY <2>2, CallerArrivesKeeps
  <2>3. ASSUME NEW d \in Direct, NEW i \in Try, AdmitNodeOp(d, i) \/ NodeOpStep(d, i)
        PROVE  FenceInv'
    BY <2>3, AdmitNodeOpKeeps, MarkNodeOpSentKeeps, NodeOpSendKeeps, DirectEntryKeeps,
       DirectRunKeeps, SettleNodeOpKeeps DEF NodeOpStep
  <2>4. ASSUME NEW c \in Cmd,
               \/ QueueCommand(c) \/ Repost(c) \/ NodeClaim(c) \/ NodeSettle(c)
               \/ JournalCommand(c)
        PROVE  FenceInv'
    BY <2>4, QueueCommandKeeps, RepostKeeps, NodeClaimKeeps, NodeSettleKeeps, JournalCommandKeeps
  <2>5. ASSUME NEW c \in Command, ForwardStep(c) PROVE FenceInv'
    BY <2>5, MarkForwardIntentKeeps, NoteHeldKeeps, SendCommandKeeps, NodeCheckKeeps,
       NodeAcceptKeeps, CommandReplyKeeps DEF ForwardStep
  <2>6. CASE HubGivesUp \/ FencePause \/ FenceSuccessor \/ ResumePaused
    BY <2>6, HubGivesUpKeeps, FencePauseKeeps, FenceSuccessorKeeps, ResumePausedKeeps
  <2>7. ASSUME NEW g \in Fence, AfterCommit(g) \/ ContinuationForward(g) \/ ApplyStray(g)
        PROVE  FenceInv'
    BY <2>7, AfterCommitKeeps, ContinuationForwardKeeps, ApplyStrayKeeps
  <2>8. CASE DeliverStep \/ DeliverTimeout
    BY <2>8, DeliverStartKeeps, DeliverCallKeeps, ApplyLineageFenceKeeps, AckFenceKeeps,
       DeliverTakeHeldKeeps, DeliverForwardKeeps, DeliverEndsKeeps, DeliverTimeoutKeeps
       DEF DeliverStep
  <2>9. CASE LinkDrops \/ Hello \/ HubCrash \/ NodeCrash
    BY <2>9, LinkDropsKeeps, HelloKeeps, HubCrashKeeps, NodeCrashKeeps
  <2>. QED
    BY <2>1, <2>2, <2>3, <2>4, <2>5, <2>6, <2>7, <2>8, <2>9 DEF Next
<1>. QED
  BY InitFence, <1>1, PTL DEF Spec

-----------------------------------------------------------------------------
(* OldWorkStops.                                                             *)

\* Work begins at direct_entry and at the dispatch claim, and both read the
\* live generation under the fence lock; no restart brings an entry back.
LEMMA StartReadsFence ==
    ASSUME FenceInv, [Next]_vars, NEW o \in Op, Starts(o)
    PROVE  og[o] >= nlive
<1>. DEFINE Quiet == UNCHANGED <<log, ncmd>>
<1>0. ~Quiet
  BY DEF Starts
<1>1. CASE UNCHANGED vars
  BY <1>0, <1>1 DEF vars, nodeVars
<1>2. ASSUME NEW p \in Op, CallerArrives(p) PROVE Quiet
  BY <1>2 DEF CallerArrives, nodeVars
<1>3. ASSUME NEW d \in Direct, NEW i \in Try, AdmitNodeOp(d, i) \/ NodeOpStep(d, i)
      PROVE  og[o] >= nlive
  <2>1. CASE DirectEntry(d, i)
    <3>1. log' # log /\ ncmd' = ncmd
      BY <1>0, <2>1 DEF DirectEntry
    <3>2. o \in Direct /\ log[o] = "none" /\ log'[o] = "entered"
      BY <3>1 DEF Starts
    <3>3. CASE nlive > og[d]
      BY <2>1, <3>2, <3>3 DEF DirectEntry, FenceInv, Typed
    <3>4. CASE ~(nlive > og[d])
      <4>1. o = d
        BY <2>1, <3>2, <3>4 DEF DirectEntry, FenceInv, Typed
      <4>. QED
        BY <3>4, <4>1, ConstantsTyped DEF FenceInv, Typed
    <3>. QED
      BY <3>3, <3>4
  <2>2. CASE DirectRun(d, i)
    BY <2>2 DEF DirectRun, Starts, FenceInv, Typed
  <2>3. CASE \/ AdmitNodeOp(d, i) \/ MarkNodeOpSent(d, i) \/ NodeOpSend(d, i)
             \/ SettleNodeOp(d, i)
    BY <1>0, <2>3 DEF AdmitNodeOp, MarkNodeOpSent, NodeOpSend, SettleNodeOp, nodeVars
  <2>. QED
    BY <1>3, <2>1, <2>2, <2>3 DEF NodeOpStep
<1>4. ASSUME NEW c \in Cmd,
             \/ QueueCommand(c) \/ Repost(c) \/ NodeClaim(c) \/ NodeSettle(c)
             \/ JournalCommand(c)
      PROVE  og[o] >= nlive
  <2>1. CASE NodeClaim(c)
    <3>1. o \notin Direct /\ ncmd[o] = "accepted" /\ ncmd'[o] = "written"
      BY <2>1 DEF NodeClaim, Starts
    <3>2. o = c /\ ~(nlive > og[c])
      BY <2>1, <3>1, ConstantsTyped DEF NodeClaim, FenceInv, Typed, Op
    <3>. QED
      BY <3>2, ConstantsTyped DEF FenceInv, Typed
  <2>2. CASE NodeSettle(c)
    BY <2>2, ConstantsTyped DEF NodeSettle, Starts, FenceInv, Typed, Op
  <2>3. CASE QueueCommand(c) \/ Repost(c) \/ JournalCommand(c)
    BY <1>0, <2>3 DEF QueueCommand, Repost, JournalCommand, nodeVars
  <2>. QED
    BY <1>4, <2>1, <2>2, <2>3
<1>5. ASSUME NEW c \in Command, ForwardStep(c) PROVE og[o] >= nlive
  <2>1. CASE NodeAccept(c)
    BY <2>1, ConstantsTyped DEF NodeAccept, Starts, FenceInv, Typed, Op
  <2>2. CASE \/ MarkForwardIntent(c) \/ NoteHeld(c) \/ SendCommand(c) \/ NodeCheck(c)
             \/ CommandReply(c)
    BY <1>0, <2>2 DEF MarkForwardIntent, NoteHeld, SendCommand, NodeCheck, CommandReply, nodeVars
  <2>. QED
    BY <1>5, <2>1, <2>2 DEF ForwardStep
<1>6. ASSUME HubGivesUp \/ FencePause \/ FenceSuccessor \/ ResumePaused PROVE Quiet
  BY <1>6 DEF HubGivesUp, FencePause, FenceSuccessor, ResumePaused, nodeVars
<1>7. ASSUME NEW g \in Fence, AfterCommit(g) \/ ContinuationForward(g) PROVE Quiet
  BY <1>7 DEF AfterCommit, ContinuationForward, nodeVars
<1>8. ASSUME NEW g, log' = log, ncmd' = Cancelled(g) PROVE FALSE
  BY <1>8, ConstantsTyped DEF Cancelled, Starts, Op
<1>9. CASE DeliverStep \/ DeliverTimeout
  <2>1. CASE ApplyLineageFence
    BY <1>8, <2>1 DEF ApplyLineageFence
  <2>2. CASE DeliverStart \/ DeliverCall \/ AckFence \/ DeliverTakeHeld
    BY <1>0, <2>2 DEF DeliverStart, DeliverCall, AckFence, DeliverTakeHeld, nodeVars
  <2>3. CASE DeliverEnds \/ DeliverTimeout \/ \E c \in Command : DeliverForward(c)
    BY <1>0, <2>3 DEF DeliverEnds, DeliverTimeout, DeliverForward, nodeVars
  <2>. QED
    BY <1>9, <2>1, <2>2, <2>3 DEF DeliverStep
<1>10. ASSUME LinkDrops \/ Hello \/ HubCrash PROVE Quiet
  BY <1>10 DEF LinkDrops, Hello, HubCrash, nodeVars
<1>11. CASE NodeCrash
  BY <1>11 DEF NodeCrash, Starts, FenceInv, LogIsOnDisk
<1>12. ASSUME NEW g \in Fence, ApplyStray(g) PROVE FALSE
  BY <1>8, <1>12 DEF ApplyStray
<1>. QED
  BY <1>0, <1>1, <1>2, <1>3, <1>4, <1>5, <1>6, <1>7, <1>9, <1>10, <1>11, <1>12 DEF Next

(* Once the host has acknowledged a fence, or has taken the successor's      *)
(* create, no work of a chapter below that fence begins there, whatever      *)
(* links, timeouts and restarts do (deliver_host, mark_forward_intent_gated, *)
(* direct_entry and claim).                                                  *)
THEOREM NoOldWork == Spec => OldWorkStops
<1>1. FenceInv /\ [Next]_vars
      => [\A o \in Op, g \in Fence :
            Starts(o) /\ (deliv[g] = "acked" \/ ncmd[<<"create", g>>] # "none")
            => og[o] >= g]_vars
  <2>. SUFFICES ASSUME FenceInv, [Next]_vars, NEW o \in Op, NEW g \in Fence, Starts(o),
                       deliv[g] = "acked" \/ ncmd[<<"create", g>>] # "none"
                PROVE  og[o] >= g
    OBVIOUS
  <2>1. og[o] >= nlive
    BY StartReadsFence
  <2>2. nlive >= g
    BY DEF FenceInv, AckIsRaised, CreateFollowsAck
  <2>. QED
    BY <2>1, <2>2, ConstantsTyped DEF FenceInv, Typed
<1>. QED
  BY FenceInvariant, <1>1, PTL DEF Spec, OldWorkStops

-----------------------------------------------------------------------------
(* OutcomeIsFinal.                                                           *)

RecIsFunction == rec = [o \in Op |-> rec[o]]

Definite(o) == rec[o].outcome \notin {"none", "unknown"}

\* Only an unknown outcome moves, whoever learns better.
LEMMA ResolveIsFinal ==
    ASSUME RecIsFunction, NEW x, NEW outcome, Resolve(x, outcome)
    PROVE  RecIsFunction' /\ \A o \in Op : Definite(o) => rec'[o] = rec[o]
BY DEF RecIsFunction, Definite, Resolve

\* F records an operation once.
LEMMA CoreIsFinal ==
    ASSUME RecIsFunction, NEW mine, FenceCore(mine)
    PROVE  RecIsFunction' /\ \A o \in Op : Definite(o) => rec'[o] = rec[o]
BY DEF RecIsFunction, Definite, FenceCore, HeldAtHub, InFlight, NoRec

LEMMA RecordIsFinal ==
    ASSUME RecIsFunction, [Next]_vars
    PROVE  RecIsFunction' /\ \A o \in Op : Definite(o) => rec'[o] = rec[o]
<1>. DEFINE Final == RecIsFunction' /\ \A o \in Op : Definite(o) => rec'[o] = rec[o]
<1>0. ASSUME rec' = rec PROVE Final
  BY <1>0 DEF RecIsFunction
<1>1. CASE UNCHANGED vars
  BY <1>0, <1>1 DEF vars, opVars
<1>2. ASSUME NEW o \in Op, CallerArrives(o) PROVE Final
  BY <1>0, <1>2 DEF CallerArrives
<1>3. ASSUME NEW d \in Direct, NEW i \in Try, AdmitNodeOp(d, i) \/ NodeOpStep(d, i)
      PROVE  Final
  <2>1. CASE NodeOpSend(d, i) \/ SettleNodeOp(d, i)
    BY <1>0, <2>1, ResolveIsFinal DEF NodeOpSend, SettleNodeOp
  <2>2. CASE \/ AdmitNodeOp(d, i) \/ MarkNodeOpSent(d, i) \/ DirectEntry(d, i)
             \/ DirectRun(d, i)
    BY <1>0, <2>2 DEF AdmitNodeOp, MarkNodeOpSent, DirectEntry, DirectRun, opVars
  <2>. QED
    BY <1>3, <2>1, <2>2 DEF NodeOpStep
<1>4. ASSUME NEW c \in Cmd,
             \/ QueueCommand(c) \/ Repost(c) \/ NodeClaim(c) \/ NodeSettle(c)
             \/ JournalCommand(c)
      PROVE  Final
  BY <1>0, <1>4 DEF QueueCommand, Repost, NodeClaim, NodeSettle, JournalCommand, opVars
<1>5. ASSUME NEW c \in Command, ForwardStep(c) PROVE Final
  <2>1. CASE SendCommand(c) \/ CommandReply(c)
    BY <1>0, <2>1, ResolveIsFinal DEF SendCommand, CommandReply
  <2>2. CASE MarkForwardIntent(c) \/ NoteHeld(c) \/ NodeCheck(c) \/ NodeAccept(c)
    BY <1>0, <2>2 DEF MarkForwardIntent, NoteHeld, NodeCheck, NodeAccept, opVars
  <2>. QED
    BY <1>5, <2>1, <2>2 DEF ForwardStep
<1>6. CASE FencePause \/ FenceSuccessor
  BY <1>6, CoreIsFinal DEF FencePause, FenceSuccessor
<1>7. CASE HubGivesUp \/ ResumePaused
  BY <1>0, <1>7 DEF HubGivesUp, ResumePaused, opVars
<1>8. ASSUME NEW g \in Fence, AfterCommit(g) \/ ContinuationForward(g) \/ ApplyStray(g)
      PROVE  Final
  BY <1>0, <1>8 DEF AfterCommit, ContinuationForward, ApplyStray, opVars
<1>9. CASE AckFence
  BY <1>9 DEF AckFence, RecIsFunction, Definite
<1>10. CASE DeliverStart \/ DeliverCall \/ ApplyLineageFence \/ DeliverTakeHeld
  BY <1>0, <1>10 DEF DeliverStart, DeliverCall, ApplyLineageFence, DeliverTakeHeld, opVars
<1>11. CASE DeliverEnds \/ DeliverTimeout \/ \E c \in Command : DeliverForward(c)
  BY <1>0, <1>11 DEF DeliverEnds, DeliverTimeout, DeliverForward, opVars
<1>12. CASE LinkDrops \/ Hello \/ HubCrash \/ NodeCrash
  BY <1>0, <1>12 DEF LinkDrops, Hello, HubCrash, NodeCrash, opVars
<1>. QED
  BY <1>1, <1>2, <1>3, <1>4, <1>5, <1>6, <1>7, <1>8, <1>9, <1>10, <1>11, <1>12
     DEF Next, DeliverStep

(* The outcome a fence record gives of an operation, once definite, is never *)
(* taken back: not by a later fence, a late acknowledgement, the reply or    *)
(* the gates (record_op, resolve_op_outcome, ack_fence, settle_node_op).     *)
THEOREM FinalOutcomes == Spec => OutcomeIsFinal
<1>1. Init => RecIsFunction
  BY DEF Init, RecIsFunction
<1>2. RecIsFunction /\ [Next]_vars => RecIsFunction'
  BY RecordIsFinal
<1>3. RecIsFunction /\ [Next]_vars
      => [\A o \in Op : rec[o].outcome \notin {"none", "unknown"} => rec'[o] = rec[o]]_vars
  BY RecordIsFinal DEF Definite
<1>. QED
  BY <1>1, <1>2, <1>3, PTL DEF Spec, OutcomeIsFinal

=============================================================================
