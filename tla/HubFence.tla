------------------------------ MODULE HubFence ------------------------------
(* A lineage fence F: the Hub takes authority from one chapter of a lineage  *)
(* and gives it to the next while that chapter's work is on its way to a     *)
(* Node.                                                                     *)
(*   - remuda-hub/src/fence.rs: the fence transaction, the fence map, the    *)
(*     delivery to the host, its acknowledgement and the held work after it; *)
(*   - remuda-hub/src/node_ops.rs: direct operations (admit, send intent,    *)
(*     send gate, not sent, settle);                                         *)
(*   - remuda-hub/src/http.rs and store.rs: the gated forward of a command;  *)
(*   - remuda-node/src/fence.rs: the entry checks, the direct-operation log, *)
(*     the dispatch claim and the application of the fence.                  *)
(* One lineage and one fence-capable host.  A chapter is its generation: the *)
(* fence that ends chapter g - 1 is fence g.  The writer jobs of the Hub's   *)
(* store are the atomic steps; tasks interleave between them.                *)
EXTENDS Naturals, FiniteSets

CONSTANTS
    Direct,       \* direct operations (a worker.provision, an answer), by op id
    Cmd,          \* commands the chapters queue; no creates (see NodeClaim)
    MaxTry,       \* bound: calls that carry one op id
    MaxGen,       \* bound: generations
    MaxOp,        \* bound: operations the chapters start
    MaxFault      \* bound: lost links, timeouts, Hub and Node restarts

ASSUME Bounds == MaxTry \in Nat /\ MaxGen \in Nat \ {0} /\ MaxOp \in Nat /\ MaxFault \in Nat

Fence   == 2..MaxGen
Follow  == {"close", "create"} \X Fence   \* the Hub's own commands of a fence
Command == Cmd \cup Follow
Op      == Cmd \cup Direct                \* work a chapter initiates
Try     == 1..MaxTry

ASSUME OpsAreApart == Direct \cap Cmd = {} /\ Op \cap Follow = {}

VARIABLES
    gen, paused,  \* lineages: the live generation, and whether it is paused
    map,          \* FenceState.live, the send gate's copy of gen
    deliv,        \* fence_deliveries of this host: none, pending, acked
    row,          \* state of the node_ops or commands row
    og,           \* the generation of the op's initiator; 0 before the call
    rec,          \* the op's fence_ops row
    call,         \* per direct op and try: where the call is
    at,           \* per command: where its forward attempt is
    lost,         \* calls and attempts whose reply the Hub no longer awaits
    held,         \* FenceState.held
    raising,      \* committed fences whose after_commit has not run
    contin,       \* fences whose successor finish_continuation has to forward
    kicks,        \* deliver_host tasks waiting for the host's lock: a fence's, a hello's
    dl,           \* the deliver_host task that holds it
    nlive,        \* the Node's persisted live generation
    log, disk,    \* the Node's direct_ops entry, in memory and on disk
    ncmd,         \* the Node's command ledger
    ran,          \* history: ops whose side effect happened
    stray,        \* fence frames at the Node that no delivery awaits
    link, faults

hubVars  == <<gen, paused, deliv, contin>>
memVars  == <<map, held, raising, kicks, dl>>
opVars   == <<row, og, rec>>
nodeVars == <<nlive, log, disk, ncmd, ran, stray>>
linkVars == <<link, faults>>
vars == <<hubVars, memVars, opVars, call, at, lost, nodeVars, linkVars>>

NoRec  == [fence |-> 0, outcome |-> "none"]
Mute   == [o \in Op |-> "unknown"]   \* an acknowledgement with no outcome
OfLink == 0                        \* a delivery no fence's own task makes
Idle   == [pc |-> "idle", by |-> OfLink, list |-> {}, fence |-> 0,
           outs |-> Mute, todo |-> {}, cur |-> {}]
AtNode == {"wire", "entered", "passed"}   \* stages the Node works on
Reply  == {"replied", "refused", "accepted"}     \* stages of a reply on its way

Init ==
    /\ gen = 1 /\ paused = FALSE /\ map = 1
    /\ deliv = [g \in Fence |-> "none"]
    /\ row = [o \in Command \cup Direct |-> "none"]
    /\ og = [o \in Op |-> 0]
    /\ rec = [o \in Op |-> NoRec]
    /\ call = [d \in Direct |-> [i \in Try |-> "idle"]]
    /\ at = [c \in Command |-> "idle"]
    /\ lost = {} /\ held = {} /\ raising = {} /\ contin = {}
    /\ kicks = {} /\ dl = Idle
    /\ nlive = 1
    /\ log = [d \in Direct |-> "none"] /\ disk = [d \in Direct |-> "none"]
    /\ ncmd = [c \in Command |-> "none"]
    /\ ran = {} /\ stray = {}
    /\ link = TRUE /\ faults = 0

\* check_initiator: the initiator's chapter is the live one and not paused.
Authority(o) == o \in Op => og[o] = gen /\ ~paused

\* FenceState::is_fenced.
GateFences(o) == o \in Op /\ map > og[o]

\* host_gated, for a host that advertises lineageFence.
Gated == \E g \in Fence : deliv[g] = "pending"

\* resolve_op_outcome and its copies: only an unknown row moves.
Resolve(o, outcome) ==
    rec' = IF o \in Op /\ rec[o].outcome = "unknown"
           THEN [rec EXCEPT ![o].outcome = outcome] ELSE rec

CallTo(d, i, stage) == call' = [call EXCEPT ![d][i] = stage]
GoTo(c, stage)      == at' = [at EXCEPT ![c] = stage]
Becomes(o, state)   == row' = [row EXCEPT ![o] = state]

\* A caller is authenticated as the live chapter's; its work comes later.
CallerArrives(o) ==
    /\ og[o] = 0 /\ ~paused
    /\ Cardinality({p \in Op : og[p] # 0}) < MaxOp
    /\ og' = [og EXCEPT ![o] = gen]
    /\ UNCHANGED <<hubVars, memVars, row, rec, call, at, lost, nodeVars, linkVars>>

-----------------------------------------------------------------------------
(* Direct operations: call_admitted_frame, and direct_op at the Node.        *)

\* Mutant: admission trusts the caller's earlier authentication.
Mut_AdmitNodeOp(d, i) ==
    /\ call[d][i] = "idle" /\ og[d] # 0
    /\ \A j \in 1..(i - 1) : call[d][j] = "done" \/ <<d, j>> \in lost
    /\ ~Gated
    /\ IF row[d] = "none" THEN Becomes(d, "admitted") ELSE row' = row
    /\ CallTo(d, i, "admitted")
    /\ UNCHANGED <<hubVars, memVars, og, rec, at, lost, nodeVars, linkVars>>

\* fence_host_refusal and admit_node_op; a refusal writes nothing.  A replay
\* carries the same op id and finds the row there; its caller has given up on
\* the call before it, whose frame may still be at work.
AdmitNodeOp(d, i) ==
    /\ call[d][i] = "idle" /\ og[d] # 0
    /\ \A j \in 1..(i - 1) : call[d][j] = "done" \/ <<d, j>> \in lost
    /\ ~Gated /\ Authority(d)
    /\ IF row[d] = "none" THEN Becomes(d, "admitted") ELSE row' = row
    /\ CallTo(d, i, "admitted")
    /\ UNCHANGED <<hubVars, memVars, og, rec, at, lost, nodeVars, linkVars>>

\* Mutant: the send intent is a plain update.
Mut_MarkNodeOpSent(d, i) ==
    /\ call[d][i] = "admitted"
    /\ Becomes(d, "sent") /\ CallTo(d, i, "intent")
    /\ UNCHANGED <<hubVars, memVars, og, rec, at, lost, nodeVars, linkVars>>

\* The send intent, a compare-and-set against F.
MarkNodeOpSent(d, i) ==
    /\ call[d][i] = "admitted"
    /\ IF Authority(d) /\ row[d] \notin {"canceled", "withheld"}
       THEN Becomes(d, "sent") /\ CallTo(d, i, "intent")
       ELSE row' = row /\ CallTo(d, i, "done")
    /\ UNCHANGED <<hubVars, memVars, og, rec, at, lost, nodeVars, linkVars>>

\* The send gate and withhold_node_op, then nodes.call: the frame goes out, or
\* there is no link (mark_node_op_not_sent).  A fence that the gate is too
\* early to see is one that commits while the frame is on its way.
NodeOpSend(d, i) ==
    /\ call[d][i] = "intent"
    /\ IF GateFences(d)
       THEN /\ IF row[d] = "sent" THEN Becomes(d, "withheld") ELSE row' = row
            /\ Resolve(d, "withheld") /\ CallTo(d, i, "done")
       ELSE /\ rec' = rec
            /\ IF link THEN row' = row /\ CallTo(d, i, "wire")
               ELSE Becomes(d, "admitted") /\ CallTo(d, i, "done")
    /\ UNCHANGED <<hubVars, memVars, og, at, lost, nodeVars, linkVars>>

\* A reply nobody awaits is dropped.
ReplyOf(d, i, reply) == CallTo(d, i, IF <<d, i>> \in lost THEN "done" ELSE reply)

\* direct_entry under the fence lock: recorded before any side effect, or
\* refused.  A refusal of an op id with an open entry closes the entry on disk
\* and not the one in memory.
DirectEntry(d, i) ==
    /\ call[d][i] = "wire"
    /\ IF nlive > og[d]
       THEN /\ log' = [log EXCEPT ![d] = IF @ = "none" THEN "refused" ELSE @]
            /\ disk' = [disk EXCEPT ![d] = IF @ \in {"none", "entered"} THEN "refused" ELSE @]
            /\ ReplyOf(d, i, "refused")
       ELSE /\ log' = [log EXCEPT ![d] = IF @ = "none" THEN "entered" ELSE @]
            /\ disk' = [disk EXCEPT ![d] = IF @ = "none" THEN "entered" ELSE @]
            /\ CallTo(d, i, "entered")
    /\ UNCHANGED <<hubVars, memVars, opVars, at, lost, nlive, ncmd, ran, stray, linkVars>>

\* The operation runs; direct_outcome logs a result that is not an error.
DirectRun(d, i) ==
    /\ call[d][i] = "entered"
    /\ ran' = ran \cup {d}
    /\ \/ /\ log' = [log EXCEPT ![d] = IF @ = "entered" THEN "ran" ELSE @]
          /\ disk' = [disk EXCEPT ![d] = IF @ = "entered" THEN "ran" ELSE @]
       \/ UNCHANGED <<log, disk>>
    /\ ReplyOf(d, i, "replied")
    /\ UNCHANGED <<hubVars, memVars, opVars, at, lost, nlive, ncmd, stray, linkVars>>

\* settle_node_op.
SettleNodeOp(d, i) ==
    /\ call[d][i] \in {"replied", "refused"} /\ link
    /\ Becomes(d, "settled")
    /\ Resolve(d, IF call[d][i] = "refused" THEN "refused-by-node" ELSE "ran")
    /\ CallTo(d, i, "done")
    /\ UNCHANGED <<hubVars, memVars, og, at, lost, nodeVars, linkVars>>

-----------------------------------------------------------------------------
(* Commands: forward_if_online for a chapter's command and for the Hub's own *)
(* follow-on of a fence, which carries no initiator.                         *)

\* POST of a command: queued behind check_initiator, forwarded when the host
\* is online.
QueueCommand(c) ==
    /\ row[c] = "none" /\ og[c] # 0 /\ Authority(c)
    /\ Becomes(c, "queued")
    /\ GoTo(c, IF link THEN "mark" ELSE "idle")
    /\ UNCHANGED <<hubVars, memVars, og, rec, call, lost, nodeVars, linkVars>>

\* A client's retry of the same command id, after the attempt before it.
Repost(c) ==
    /\ row[c] = "queued" /\ at[c] = "idle" /\ c \notin dl.cur /\ link
    /\ GoTo(c, "mark")
    /\ UNCHANGED <<hubVars, memVars, opVars, call, lost, nodeVars, linkVars>>

\* Mutant: a host with a pending fence is sent to.
Mut_MarkForwardIntent(c) ==
    /\ at[c] = "mark"
    /\ IF ~Authority(c) \/ row[c] # "queued" THEN row' = row /\ GoTo(c, "idle")
       ELSE Becomes(c, "forwarded") /\ GoTo(c, "marked")
    /\ UNCHANGED <<hubVars, memVars, og, rec, call, lost, nodeVars, linkVars>>

\* mark_forward_intent_gated.
MarkForwardIntent(c) ==
    /\ at[c] = "mark"
    /\ IF ~Authority(c) \/ row[c] # "queued" THEN row' = row /\ GoTo(c, "idle")
       ELSE IF Gated THEN row' = row /\ GoTo(c, "hold")
       ELSE Becomes(c, "forwarded") /\ GoTo(c, "marked")
    /\ UNCHANGED <<hubVars, memVars, og, rec, call, lost, nodeVars, linkVars>>

\* HeldForFence: remembered in memory, after the writer job that found it held.
NoteHeld(c) ==
    /\ at[c] = "hold"
    /\ held' = held \cup {c}
    /\ GoTo(c, "idle")
    /\ UNCHANGED <<hubVars, map, raising, kicks, dl, opVars, call, lost, nodeVars, linkVars>>

\* Mutant: a command gets the state of a direct operation back.
Mut_SendCommand(c) ==
    /\ at[c] = "marked"
    /\ IF GateFences(c) THEN Becomes(c, "withheld") /\ Resolve(c, "withheld") /\ GoTo(c, "idle")
       ELSE IF link THEN UNCHANGED <<row, rec>> /\ GoTo(c, "wire")
       ELSE /\ GoTo(c, "idle")
            /\ IF Authority(c) THEN Becomes(c, "admitted") /\ rec' = rec
               ELSE Becomes(c, "canceled") /\ Resolve(c, "cancelled-at-hub")
    /\ UNCHANGED <<hubVars, memVars, og, call, lost, nodeVars, linkVars>>

\* The send gate and withhold_command, then nodes.call, and release_intent when
\* there is no link.
SendCommand(c) ==
    /\ at[c] = "marked"
    /\ IF GateFences(c) THEN Becomes(c, "withheld") /\ Resolve(c, "withheld") /\ GoTo(c, "idle")
       ELSE IF link THEN UNCHANGED <<row, rec>> /\ GoTo(c, "wire")
       ELSE /\ GoTo(c, "idle")
            /\ IF Authority(c) THEN Becomes(c, "queued") /\ rec' = rec
               ELSE Becomes(c, "canceled") /\ Resolve(c, "cancelled-at-hub")
    /\ UNCHANGED <<hubVars, memVars, og, call, lost, nodeVars, linkVars>>

\* The Node's entry check (refuse_fenced, admit_create), before it records
\* anything.  The reply to a follow-on changes nothing that is read here.
NodeCheck(c) ==
    /\ at[c] = "wire"
    /\ LET fenced == \/ c \in Cmd /\ nlive > og[c]
                     \/ c \in Follow /\ c[1] = "create" /\ nlive > c[2]
       IN  GoTo(c, IF ~fenced THEN "passed" ELSE IF c \in lost \cup Follow THEN "idle" ELSE "refused")
    /\ UNCHANGED <<hubVars, memVars, opVars, call, lost, nodeVars, linkVars>>

NodeAccept(c) ==
    /\ at[c] = "passed"
    /\ ncmd' = [ncmd EXCEPT ![c] = "accepted"]
    /\ GoTo(c, IF c \in lost \cup Follow THEN "idle" ELSE "accepted")
    /\ UNCHANGED <<hubVars, memVars, opVars, call, lost, nlive, log, disk, ran, stray, linkVars>>

\* The reply: mark_accepted, or note_command_refused_by_node and the rejection,
\* which are two writer jobs and one step here.
CommandReply(c) ==
    /\ at[c] \in {"accepted", "refused"} /\ link
    /\ IF at[c] = "accepted"
       THEN rec' = rec /\ IF row[c] = "forwarded" THEN Becomes(c, "accepted") ELSE row' = row
       ELSE Resolve(c, "refused-by-node") /\ Becomes(c, "refused")
    /\ GoTo(c, "idle")
    /\ UNCHANGED <<hubVars, memVars, og, call, lost, nodeVars, linkVars>>

\* The dispatch claim under the fence lock, then the executor's settlement.  The
\* claim guards every command but a create, which the worker settles from its own
\* copy: Cmd has no creates, and PtyQueue shows what becomes of a fenced one.
NodeClaim(c) ==
    /\ ncmd[c] = "accepted"
    /\ IF nlive > og[c] THEN ncmd' = [ncmd EXCEPT ![c] = "fenced"] /\ ran' = ran
       ELSE ncmd' = [ncmd EXCEPT ![c] = "written"] /\ ran' = ran \cup {c}
    /\ UNCHANGED <<hubVars, memVars, opVars, call, at, lost, nlive, log, disk, stray, linkVars>>

NodeSettle(c) ==
    /\ ncmd[c] = "written"
    /\ ncmd' = [ncmd EXCEPT ![c] = "done"]
    /\ UNCHANGED <<hubVars, memVars, opVars, call, at, lost, nlive, log, disk, ran, stray, linkVars>>

\* The mirrored journal: what the Node settled, or that it holds the command.
JournalCommand(c) ==
    /\ link /\ row[c] \in {"forwarded", "accepted"}
    /\ \/ ncmd[c] = "done" /\ Becomes(c, "completed")
       \/ ncmd[c] = "fenced" /\ Becomes(c, "rejected")
       \/ ncmd[c] \in {"accepted", "written"} /\ row[c] = "forwarded" /\ Becomes(c, "accepted")
    /\ UNCHANGED <<hubVars, memVars, og, rec, call, at, lost, nodeVars, linkVars>>

\* The Hub stops waiting (timeout); the frame may still be at work at the Node.
GiveUp(x, stage) ==
    /\ stage \in AtNode
    /\ lost' = lost \cup {x}

HubGivesUp ==
    /\ \/ \E d \in Direct, i \in Try : <<d, i>> \notin lost /\ GiveUp(<<d, i>>, call[d][i])
       \/ \E c \in Command : c \notin lost /\ GiveUp(c, at[c])
    /\ faults < MaxFault /\ faults' = faults + 1
    /\ UNCHANGED <<hubVars, memVars, opVars, call, at, nodeVars, link>>

-----------------------------------------------------------------------------
(* F, one writer transaction.                                                *)

\* Steps 4 to 7: what was not sent is cancelled, what was is unknown.
HeldAtHub(o) == row[o] \in {"queued", "admitted"} /\ rec[o] = NoRec
InFlight(o)  == row[o] \in {"forwarded", "accepted", "sent"} /\ rec[o] = NoRec

\* Steps 1 to 9 over the rows; mine are the fence's own commands.
FenceCore(mine) ==
    /\ gen < MaxGen /\ ~paused
    /\ gen' = gen + 1
    /\ row' = [o \in DOMAIN row |->
                  IF o \in Op /\ HeldAtHub(o) THEN "canceled"
                  ELSE IF o \in mine THEN "queued" ELSE row[o]]
    /\ rec' = [o \in Op |->
                  IF HeldAtHub(o) THEN [fence |-> gen + 1, outcome |-> "cancelled-at-hub"]
                  ELSE IF InFlight(o) THEN [fence |-> gen + 1, outcome |-> "unknown"]
                  ELSE rec[o]]
    /\ deliv' = [deliv EXCEPT ![gen + 1] = "pending"]
    /\ raising' = raising \cup {gen + 1}

\* A pause, with the close of the predecessor (a close) or without it (the
\* restart cap, a process exit).
FencePause ==
    /\ \E mine \in {{}, {<<"close", gen + 1>>}} : FenceCore(mine)
    /\ paused' = TRUE
    /\ UNCHANGED <<contin, map, held, kicks, dl, og, call, at, lost, nodeVars, linkVars>>

\* A continuation: the successor's create is queued in the same transaction.
FenceSuccessor ==
    /\ FenceCore({<<"create", gen + 1>>})
    /\ contin' = contin \cup {gen + 1}
    /\ UNCHANGED <<paused, map, held, kicks, dl, og, call, at, lost, nodeVars, linkVars>>

\* resume_paused: nothing new is fenced; the pause's fence gets the create.
ResumePaused ==
    /\ paused
    /\ paused' = FALSE
    /\ Becomes(<<"create", gen>>, "queued")
    /\ contin' = contin \cup {gen}
    /\ raising' = raising \cup {gen}
    /\ UNCHANGED <<gen, deliv, map, held, kicks, dl, og, rec, call, at, lost, nodeVars, linkVars>>

\* after_commit: the fence map, then a delivery to an online host, which the
\* caller waits for.
AfterCommit(g) ==
    /\ g \in raising
    /\ raising' = raising \ {g}
    /\ map' = IF g > map THEN g ELSE map
    /\ kicks' = IF link THEN kicks \cup {g} ELSE kicks
    /\ UNCHANGED <<hubVars, held, dl, opVars, call, at, lost, nodeVars, linkVars>>

\* finish_continuation, when the delivery it waits for has ended: it forwards
\* the create itself, and the gated mark holds a create whose fence is pending.
ContinuationForward(g) ==
    /\ g \in contin \ (raising \cup kicks \cup {dl.by})
    /\ contin' = contin \ {g}
    /\ LET c == <<"create", g>>
       IN  IF link /\ row[c] = "queued" /\ at[c] = "idle" THEN GoTo(c, "mark") ELSE at' = at
    /\ UNCHANGED <<gen, paused, deliv, memVars, opVars, call, lost, nodeVars, linkVars>>

-----------------------------------------------------------------------------
(* deliver_host, serialized by the host's lock, and the Node's side of it.   *)

Pending == {g \in Fence : deliv[g] = "pending"}

\* Mutant: no sweep of the deliveries.
Mut_DeliverStart ==
    /\ dl.pc = "idle"
    /\ \E t \in kicks : /\ kicks' = kicks \ {t}
                        /\ dl' = [Idle EXCEPT !.pc = "next", !.by = t, !.list = Pending]
    /\ UNCHANGED <<hubVars, map, held, raising, opVars, call, at, lost, nodeVars, linkVars>>

\* A waiting task takes the lock (after_commit, a hello), or the scheduler's
\* sweep finds it free; then the pending fences are read, once.
DeliverStart ==
    /\ dl.pc = "idle"
    /\ \E t \in kicks \cup {OfLink} :
          /\ t \notin kicks => Gated /\ link
          /\ kicks' = kicks \ {t}
          /\ dl' = [Idle EXCEPT !.pc = "next", !.by = t, !.list = Pending]
    /\ UNCHANGED <<hubVars, map, held, raising, opVars, call, at, lost, nodeVars, linkVars>>

\* The next fence goes out, in creation order.  Without a link the task
\* returns, and the follow-ons it has collected go with it.
DeliverCall ==
    /\ dl.pc = "next"
    /\ \E g \in dl.list :
          /\ \A h \in dl.list : g <= h
          /\ dl' = IF link THEN [dl EXCEPT !.pc = "wire", !.fence = g] ELSE Idle
    /\ UNCHANGED <<hubVars, map, held, raising, kicks, opVars, call, at, lost, nodeVars, linkVars>>

\* The Node raises its live generation, persisted; never backwards.
Raises(g) == nlive' = IF g > nlive THEN g ELSE nlive

\* apply_lineage_fence: undelivered commands are cancelled and every operation
\* the Node has a record of is reported.
Cancelled(g) ==
    [c \in Command |-> IF c \in Cmd /\ og[c] < g /\ ncmd[c] = "accepted" THEN "fenced" ELSE ncmd[c]]

Outcomes(g) ==
    [o \in Op |->
        IF og[o] >= g THEN "unknown"
        ELSE IF o \in Cmd
        THEN CASE ncmd[o] = "done" -> "ran"
               [] ncmd[o] \in {"accepted", "fenced"} -> "cancelled-by-node"
               [] OTHER -> "unknown"
        ELSE CASE log[o] = "ran" -> "ran"
               [] log[o] = "refused" -> "refused-by-node"
               [] OTHER -> "unknown"]

ApplyLineageFence ==
    /\ dl.pc = "wire"
    /\ Raises(dl.fence)
    /\ ncmd' = Cancelled(dl.fence)
    /\ dl' = [dl EXCEPT !.pc = "ack", !.outs = Outcomes(dl.fence)]
    /\ UNCHANGED <<hubVars, map, held, raising, kicks, opVars, call, at, lost,
                   log, disk, ran, stray, linkVars>>

\* A frame whose delivery was given up is applied all the same.
ApplyStray(g) ==
    /\ g \in stray
    /\ stray' = stray \ {g}
    /\ Raises(g) /\ ncmd' = Cancelled(g)
    /\ UNCHANGED <<hubVars, memVars, opVars, call, at, lost, log, disk, ran, linkVars>>

\* Mutant: the acknowledgement overwrites what the Hub already knows.
Mut_AckFence ==
    /\ dl.pc = "ack"
    /\ LET g == dl.fence
       IN  /\ deliv' = [deliv EXCEPT ![g] = "acked"]
           /\ rec' = [o \in Op |->
                         IF rec[o].fence = g
                         THEN [rec[o] EXCEPT !.outcome = dl.outs[o]] ELSE rec[o]]
           /\ dl' = [dl EXCEPT !.pc = "next", !.list = @ \ {g}, !.fence = 0, !.outs = Mute,
                     !.todo = @ \cup {c \in Follow : c[2] = g /\ row[c] = "queued"}]
    /\ UNCHANGED <<gen, paused, contin, map, held, raising, kicks, row, og, call, at, lost,
                   nodeVars, linkVars>>

\* ack_fence: the outcomes settle this fence's unknown rows; its follow-ons
\* that are still held are the task's to forward.
AckFence ==
    /\ dl.pc = "ack"
    /\ LET g == dl.fence
       IN  /\ deliv' = [deliv EXCEPT ![g] = "acked"]
           /\ rec' = [o \in Op |->
                         IF rec[o].fence = g /\ rec[o].outcome = "unknown"
                         THEN [rec[o] EXCEPT !.outcome = dl.outs[o]] ELSE rec[o]]
           /\ dl' = [dl EXCEPT !.pc = "next", !.list = @ \ {g}, !.fence = 0, !.outs = Mute,
                     !.todo = @ \cup {c \in Follow : c[2] = g /\ row[c] = "queued"}]
    /\ UNCHANGED <<gen, paused, contin, map, held, raising, kicks, row, og, call, at, lost,
                   nodeVars, linkVars>>

\* FENCE_RPC_TIMEOUT: the delivery stays pending.
DeliverTimeout ==
    /\ dl.pc \in {"wire", "ack"}
    /\ stray' = IF dl.pc = "ack" THEN stray ELSE stray \cup {dl.fence}
    /\ dl' = Idle
    /\ faults < MaxFault /\ faults' = faults + 1
    /\ UNCHANGED <<hubVars, map, held, raising, kicks, opVars, call, at, lost,
                   nlive, log, disk, ncmd, ran, link>>

\* All acknowledged: take_held, and whether the host is live, once.
DeliverTakeHeld ==
    /\ dl.pc = "next" /\ dl.list = {}
    /\ held' = {}
    /\ dl' = IF link THEN [dl EXCEPT !.pc = "forward", !.todo = @ \cup held] ELSE Idle
    /\ UNCHANGED <<hubVars, map, raising, kicks, opVars, call, at, lost, nodeVars, linkVars>>

\* One command after the other, each attempt to its end.
Waits == \E x \in dl.cur : at[x] # "idle" /\ x \notin lost

DeliverForward(c) ==
    /\ dl.pc = "forward" /\ c \in dl.todo /\ ~Waits
    /\ LET go == row[c] = "queued" /\ at[c] = "idle"
       IN  /\ IF go THEN GoTo(c, "mark") ELSE at' = at
           /\ dl' = [dl EXCEPT !.todo = @ \ {c}, !.cur = IF go THEN {c} ELSE {}]
    /\ UNCHANGED <<hubVars, map, held, raising, kicks, opVars, call, lost, nodeVars, linkVars>>

DeliverEnds ==
    /\ dl.pc = "forward" /\ dl.todo = {} /\ ~Waits
    /\ dl' = Idle
    /\ UNCHANGED <<hubVars, map, held, raising, kicks, opVars, call, at, lost, nodeVars, linkVars>>

-----------------------------------------------------------------------------
(* Links and restarts.                                                       *)

\* The link goes: nobody awaits the replies, and a call to the Node ends.
Cut(hubStages) ==
    /\ link' = FALSE
    /\ lost' = lost \cup {x \in Direct \X Try : call[x[1]][x[2]] \in AtNode}
                    \cup {c \in Command : at[c] \in AtNode}
    /\ call' = [d \in Direct |-> [i \in Try |->
                   IF call[d][i] \in Reply \cup hubStages THEN "done" ELSE call[d][i]]]
    /\ at' = [c \in Command |-> IF at[c] \in Reply \cup hubStages THEN "idle" ELSE at[c]]

FenceOnWire == IF dl.pc = "wire" THEN {dl.fence} ELSE {}
DeliveryCut == IF dl.pc \in {"wire", "ack"} THEN Idle ELSE dl

LinkDrops ==
    /\ link /\ faults < MaxFault /\ faults' = faults + 1
    /\ Cut({})
    /\ stray' = stray \cup FenceOnWire
    /\ dl' = DeliveryCut
    /\ UNCHANGED <<hubVars, map, held, raising, kicks, opVars, nlive, log, disk, ncmd, ran>>

\* A hello: deliver_host is spawned.
Hello ==
    /\ ~link
    /\ link' = TRUE
    /\ kicks' = kicks \cup {OfLink}
    /\ UNCHANGED <<hubVars, map, held, raising, dl, opVars, call, at, lost, nodeVars, faults>>

\* A Hub restart: the tables survive, load_map rebuilds the fence map, and the
\* held set and the tasks are gone.
HubCrash ==
    /\ faults < MaxFault /\ faults' = faults + 1
    /\ Cut({"admitted", "intent", "mark", "hold", "marked"})
    /\ stray' = stray \cup FenceOnWire
    /\ map' = gen /\ held' = {} /\ raising' = {} /\ contin' = {} /\ kicks' = {} /\ dl' = Idle
    /\ UNCHANGED <<gen, paused, deliv, opVars, nlive, log, disk, ncmd, ran>>

\* A Node restart: fences, the operation log and the ledger are loaded from
\* disk; what it was working on is gone.
NodeCrash ==
    /\ faults < MaxFault /\ faults' = faults + 1
    /\ link' = FALSE /\ lost' = lost
    /\ call' = [d \in Direct |-> [i \in Try |->
                   IF call[d][i] \in AtNode \cup Reply THEN "done" ELSE call[d][i]]]
    /\ at' = [c \in Command |-> IF at[c] \in AtNode \cup Reply THEN "idle" ELSE at[c]]
    /\ log' = disk /\ stray' = {} /\ dl' = DeliveryCut
    /\ UNCHANGED <<hubVars, map, held, raising, kicks, opVars, nlive, disk, ncmd, ran>>

-----------------------------------------------------------------------------
NodeOpStep(d, i) ==
    \/ MarkNodeOpSent(d, i) \/ NodeOpSend(d, i)
    \/ DirectEntry(d, i) \/ DirectRun(d, i) \/ SettleNodeOp(d, i)

ForwardStep(c) ==
    \/ MarkForwardIntent(c) \/ NoteHeld(c) \/ SendCommand(c)
    \/ NodeCheck(c) \/ NodeAccept(c) \/ CommandReply(c)

DeliverStep ==
    \/ DeliverStart \/ DeliverCall \/ ApplyLineageFence \/ AckFence
    \/ DeliverTakeHeld \/ (\E c \in Command : DeliverForward(c)) \/ DeliverEnds

Next ==
    \/ \E o \in Op : CallerArrives(o)
    \/ \E d \in Direct, i \in Try : AdmitNodeOp(d, i) \/ NodeOpStep(d, i)
    \/ \E c \in Cmd : QueueCommand(c) \/ Repost(c) \/ NodeClaim(c) \/ NodeSettle(c) \/ JournalCommand(c)
    \/ \E c \in Command : ForwardStep(c)
    \/ HubGivesUp
    \/ FencePause \/ FenceSuccessor \/ ResumePaused
    \/ \E g \in Fence : AfterCommit(g) \/ ContinuationForward(g) \/ ApplyStray(g)
    \/ DeliverStep \/ DeliverTimeout
    \/ LinkDrops \/ Hello \/ HubCrash \/ NodeCrash

(* Tasks run, the scheduler ticks, the Node works and a Node that lost its   *)
(* link says hello again.  Timeouts, faults and crashes need not happen; that *)
(* a delivery is not timed out for ever is the bound on them.                *)
Fairness ==
    /\ WF_vars(DeliverStep) /\ WF_vars(Hello)
    /\ \A g \in Fence : WF_vars(AfterCommit(g)) /\ WF_vars(ContinuationForward(g))
    /\ \A c \in Command : WF_vars(ForwardStep(c))
    /\ \A d \in Direct, i \in Try : WF_vars(NodeOpStep(d, i))

Spec == Init /\ [][Next]_vars /\ Fairness

-----------------------------------------------------------------------------
RowState  == {"none", "admitted", "sent", "settled", "queued", "forwarded", "accepted",
              "completed", "rejected", "canceled", "withheld", "refused"}
RecState  == {"none", "unknown", "ran", "cancelled-at-hub", "withheld",
              "cancelled-by-node", "refused-by-node"}
CallStage == {"idle", "admitted", "intent", "wire", "entered", "replied", "refused", "done"}
AtStage   == {"idle", "mark", "hold", "marked", "wire", "passed", "accepted", "refused"}
LogState  == {"none", "entered", "ran", "refused"}

\* Every variable has its type, and no row has a state of the other table.
TypeOK ==
    /\ gen \in 1..MaxGen /\ map \in 1..MaxGen /\ nlive \in 1..MaxGen
    /\ paused \in BOOLEAN /\ link \in BOOLEAN
    /\ deliv \in [Fence -> {"none", "pending", "acked"}]
    /\ row \in [Command \cup Direct -> RowState]
    /\ \A d \in Direct : row[d] \in {"none", "admitted", "sent", "settled", "canceled", "withheld"}
    /\ \A c \in Command : row[c] \notin {"admitted", "sent", "settled"}
    /\ og \in [Op -> 0..MaxGen]
    /\ rec \in [Op -> [fence : 0..MaxGen, outcome : RecState]]
    /\ call \in [Direct -> [Try -> CallStage]]
    /\ at \in [Command -> AtStage]
    /\ held \subseteq Command /\ raising \subseteq Fence /\ contin \subseteq Fence
    /\ kicks \subseteq Fence \cup {OfLink} /\ stray \subseteq Fence
    /\ dl \in [pc : {"idle", "next", "wire", "ack", "forward"}, by : Fence \cup {OfLink},
              list : SUBSET Fence, fence : 0..MaxGen, outs : [Op -> RecState],
              todo : SUBSET Command, cur : SUBSET Command]
    /\ log \in [Direct -> LogState] /\ disk \in [Direct -> LogState]
    /\ ncmd \in [Command -> {"none", "accepted", "written", "done", "fenced"}]
    /\ ran \subseteq Op

\* command_outcome and the stored outcome of a direct op: what
\* GET /v1/lineages/{id} shows.
Outcome(o) ==
    IF o \in Cmd /\ rec[o].outcome = "unknown"
    THEN CASE row[o] = "completed" -> "ran"
           [] row[o] = "withheld" -> "withheld"
           [] row[o] \in {"rejected", "canceled", "refused"} -> "cancelled-by-node"
           [] OTHER -> "unknown"
    ELSE rec[o].outcome

\* A replay of an op id moves its row whatever the first call came to, so the
\* record of a replayed operation can be wrong (README, section 6).
CalledOnce(o) == o \in Direct => \A i \in Try : i > 1 => call[o][i] = "idle"

NeverRan == {"cancelled-at-hub", "withheld", "cancelled-by-node", "refused-by-node"}

(* What a fence record says of an operation sent once is true, then and from *)
(* then on: one it says was cancelled, withheld or refused never has its     *)
(* side effect, one it says ran has had it (fence_core steps 4 to 7, the     *)
(* send gates, ack_fence and the Node's log).                                *)
OutcomeIsTrue ==
    \A o \in Op : CalledOnce(o) =>
       /\ Outcome(o) \in NeverRan => o \notin ran
       /\ Outcome(o) = "ran" => o \in ran

Unfinished == {"queued", "admitted", "forwarded", "accepted", "sent"}

(* Nothing unfinished of a chapter that lost its authority is forgotten: the *)
(* fence that ended the chapter has recorded it, and no later admission or   *)
(* release brings back a row the fence has not seen (fence_core against      *)
(* admit_node_op, mark_node_op_sent, mark_forward_intent and release_intent; *)
(* for an operation sent once).                                              *)
UnfinishedIsRecorded ==
    \A o \in Op : CalledOnce(o) /\ og[o] # 0 /\ og[o] < gen /\ row[o] \in Unfinished
                   => rec[o].fence = og[o] + 1

Starts(o) == IF o \in Direct THEN log[o] = "none" /\ log'[o] = "entered"
             ELSE ncmd[o] = "accepted" /\ ncmd'[o] = "written"

(* Once the host has acknowledged a fence, or has taken the successor's      *)
(* create, no work of a chapter below that fence begins there (the send      *)
(* gates and held creates of the Hub, direct_entry and claim at the Node).   *)
OldWorkStops ==
    [][\A o \in Op, g \in Fence :
          Starts(o) /\ (deliv[g] = "acked" \/ ncmd[<<"create", g>>] # "none") => og[o] >= g]_vars

(* A definite outcome of a fenced operation is never taken back or replaced  *)
(* (resolve_op_outcome, ack_fence, settle_node_op, the gates).               *)
OutcomeIsFinal ==
    [][\A o \in Op : rec[o].outcome \notin {"none", "unknown"} => rec'[o] = rec[o]]_vars

(* Every fence is acknowledged once links and restarts leave the host alone  *)
(* (after_commit, the delivery after a hello and sweep_deliveries).          *)
FenceIsAcked == \A g \in Fence : deliv[g] = "pending" ~> deliv[g] = "acked"

=============================================================================
