---------------------------- MODULE Interactions ----------------------------
(* One interaction (an approval, a question, a plan review) from the driver  *)
(* that asks it to the answer that reaches the driver, and the Hub's card:   *)
(*   - the Node's InteractionRuntime (remuda-node/src/interactions.rs): the  *)
(*     glue maps behind one lock, the durable row, the pump that ingests     *)
(*     driver observations and the pump that commits the broker's;           *)
(*   - the InteractionBroker (remuda-driver/src/interaction.rs): the ticket, *)
(*     its deadline, the first-answer-wins compare-and-set and the sweeper;  *)
(*   - the Hub (remuda-hub/src/interactions.rs and store.rs): POST answer,   *)
(*     the projection of the journal and the mirror of the owner's reply;    *)
(*   - a lineage fence that supersedes the card and cancels at the Node.     *)
(* Every map of the code is keyed by the interaction's id and no operation   *)
(* on one id reads another's entry, so one id is the whole system.  A call   *)
(* is one POST; two calls may carry the same command id (a client's retry).  *)
EXTENDS Naturals, Sequences

CONSTANTS
    MaxCall,    \* bound: calls of POST /v1/interactions/{id}/answer
    Command,    \* command ids those calls carry
    None,       \* no command
    MaxCrash    \* bound: Node crashes

ASSUME NoneIsNoCommand == None \notin Command
ASSUME BoundsAreNat == MaxCall \in Nat /\ MaxCrash \in Nat

VARIABLES
    native,     \* the harness's own request: quiet, asking, answered, over
    emitted,    \* driver observations the Node's pump has not taken yet
    pump,       \* the driver pump: where ingest is, and the row it has to write
    mapped,     \* Glue.native_to_broker and broker_to_native know the ticket
    pend,       \* Glue.pending: none, live, or frozen (answerable = false)
    durable,    \* state of the row put_pending_interaction last wrote
    ticket,     \* the broker's pending entry: none, open, or due
    winner,     \* the broker's answered entry
    obs,        \* broker observations not committed yet
    cmd,        \* per call: the command id it carries
    at,         \* per call: where its handling at the Node is
    res,        \* per call: the success the Node is about to reply
    told,       \* per call: what the caller was told
    handed,     \* history: the commands whose answer driver.execute was given
    applied,    \* history: the commands driver.execute returned Ok for
    uplink,     \* journal events the Hub has not applied yet, in seq order
    card,       \* the Hub's interactions.state
    ended,      \* the Hub has the asking instance as ended
    fence,      \* none, raised (committed at the Hub), cancel, done
    retired,    \* history: the ticket was retired, expired, or found expired
    crashes

driverVars == <<native, emitted>>
glueVars   == <<mapped, pend, durable>>
brokerVars == <<ticket, winner, obs>>
callVars   == <<cmd, at, res, told>>
histVars   == <<handed, applied, retired>>
hubVars    == <<card, ended>>
vars == <<driverVars, pump, glueVars, brokerVars, callVars, histVars, uplink, hubVars, fence, crashes>>

Call    == 1..MaxCall    \* in the order they are made
Entity  == {"resolved", "invalidated", "answer-committed"}
Event   == Entity \cup {"requested", "answered", "expired"}
AtNode  == {"sent", "ticketed", "won", "persisted", "drop", "replied"}
Success == {"accepted", "idempotent"}
Idle    == [at |-> "idle", row |-> "none"]

Init ==
    /\ native = "quiet" /\ emitted = <<>> /\ pump = Idle
    /\ mapped = FALSE /\ pend = "none" /\ durable = "none"
    /\ ticket = "none" /\ winner = None /\ obs = <<>>
    /\ cmd = [k \in Call |-> None]
    /\ at = [k \in Call |-> "idle"]
    /\ res = [k \in Call |-> "none"]
    /\ told = [k \in Call |-> "none"]
    /\ handed = <<>> /\ applied = {} /\ retired = FALSE
    /\ uplink = <<>> /\ card = "none" /\ ended = FALSE
    /\ fence = "none" /\ crashes = 0

-----------------------------------------------------------------------------
(* The driver.  It mints a fresh id for every request and emits it once, so  *)
(* Glue.seen_native never meets an id again and is left out.                 *)

DriverAsk ==
    /\ native = "quiet"
    /\ native' = "asking"
    /\ emitted' = <<"requested">>
    /\ UNCHANGED <<pump, glueVars, brokerVars, callVars, histVars, uplink, hubVars, fence, crashes>>

\* The harness stops waiting: the prompt left the screen or the generation
\* ended, and the driver emits the entity in its new state.
DriverClear(e) ==
    /\ native \in {"asking", "answered"}
    /\ native' = "over"
    /\ emitted' = Append(emitted, e)
    /\ UNCHANGED <<pump, glueVars, brokerVars, callVars, histVars, uplink, hubVars, fence, crashes>>

-----------------------------------------------------------------------------
(* The Node's driver pump: journal the observation, then ingest it.  Calls,  *)
(* the broker's pump, the sweeper and a fence interleave between the         *)
(* critical sections of ingest.  The append is one step with the first of    *)
(* them: what others do in between, they do as well before the append.       *)

PumpTakes(e) ==
    /\ pump = Idle
    /\ emitted # <<>> /\ Head(emitted) = e
    /\ emitted' = Tail(emitted)
    /\ uplink' = Append(uplink, e)

\* The broker's insert (register_driver sets the asking policy, so the ticket
\* stays pending) and the glue's maps and list are two critical sections and
\* one step: nobody can name the ticket before the maps do.
IngestRequested ==
    /\ PumpTakes("requested")
    /\ ticket' = "open" /\ mapped' = TRUE /\ pend' = "live"
    /\ pump' = [at |-> "put", row |-> "pending"]
    /\ UNCHANGED <<native, durable, winner, obs, callVars, histVars, hubVars, fence, crashes>>

\* An entity that is no longer pending: the waiter is dropped under the lock,
\* its ticket retired next and the row written last.
IngestEntity(e) ==
    /\ PumpTakes(e)
    /\ pend' = "none"
    /\ pump' = [at |-> "retire", row |-> e]
    /\ UNCHANGED <<native, mapped, durable, brokerVars, callVars, histVars, hubVars, fence, crashes>>

\* Mutant: the cleared request keeps its ticket.
Mut_IngestRetire ==
    /\ pump.at = "retire"
    /\ ticket' = ticket
    /\ IF mapped THEN retired' = TRUE ELSE retired' = retired
    /\ pump' = [pump EXCEPT !.at = "put"]
    /\ UNCHANGED <<driverVars, glueVars, winner, obs, callVars, handed, applied, uplink, hubVars, fence, crashes>>

IngestRetire ==
    /\ pump.at = "retire"
    /\ IF mapped THEN ticket' = "none" /\ retired' = TRUE ELSE UNCHANGED <<ticket, retired>>
    /\ pump' = [pump EXCEPT !.at = "put"]
    /\ UNCHANGED <<driverVars, glueVars, winner, obs, callVars, handed, applied, uplink, hubVars, fence, crashes>>

\* Both arms write the row outside the glue lock, from a copy.
IngestPut ==
    /\ pump.at = "put"
    /\ durable' = pump.row
    /\ pump' = Idle
    /\ UNCHANGED <<driverVars, mapped, pend, brokerVars, callVars, histVars, uplink, hubVars, fence, crashes>>

-----------------------------------------------------------------------------
(* A call.  The Hub's handler, then the Node's, step by step.                *)

\* The call is over and the caller told.  No step reads what a caller was told
\* and a refusal changes nothing at the Hub, so it is told at once; refusals no
\* property tells apart are all "error".
Tell(k, outcome) ==
    /\ at' = [at EXCEPT ![k] = "done"]
    /\ told' = [told EXCEPT ![k] = outcome]
    /\ res' = [res EXCEPT ![k] = "none"]
    /\ cmd' = IF outcome = "error" THEN [cmd EXCEPT ![k] = None] ELSE cmd

Goes(k, stage) == at' = [at EXCEPT ![k] = stage] /\ UNCHANGED <<cmd, res, told>>

\* answer_interaction up to the Node call: a card that can never be answered
\* again is refused here; any other one, committed and resolved cards included,
\* is left to the Node's own arbitration.
HubPost(k, c) ==
    /\ at[k] = "idle" /\ native # "quiet"
    /\ \A j \in 1..(k - 1) : at[j] # "idle"
    /\ \/ card \in {"expired", "invalidated", "superseded"} /\ Tell(k, "error")
       \/ /\ card \notin {"expired", "invalidated", "superseded"}
          /\ cmd' = [cmd EXCEPT ![k] = c]
          /\ at' = [at EXCEPT ![k] = "sent"]
          /\ UNCHANGED <<res, told>>
    /\ UNCHANGED <<driverVars, pump, glueVars, brokerVars, histVars, uplink, hubVars, fence, crashes>>

\* The frame is lost with the link, or the Hub has stopped waiting for the
\* reply (NODE_RPC_TIMEOUT): the caller cannot tell whether the Node acted.
HubGivesUp(k) ==
    /\ at[k] \in {"sent", "replied"}
    /\ Tell(k, "error")
    /\ UNCHANGED <<driverVars, pump, glueVars, brokerVars, histVars, uplink, hubVars, fence, crashes>>

\* InteractionRuntime::answer under the glue lock.
NodeLookup(k) ==
    /\ at[k] = "sent"
    /\ IF pend = "frozen" \/ ~mapped THEN Tell(k, "error") ELSE Goes(k, "ticketed")
    /\ UNCHANGED <<driverVars, pump, glueVars, brokerVars, histVars, uplink, hubVars, fence, crashes>>

\* InteractionBroker::answer_for under the broker lock.
BrokerLost(k) ==
    /\ at[k] = "ticketed"
    /\ \/ /\ winner = cmd[k]
          /\ at' = [at EXCEPT ![k] = "drop"] /\ res' = [res EXCEPT ![k] = "idempotent"]
          /\ UNCHANGED <<cmd, told, retired>>
       \/ winner \notin {cmd[k], None} /\ Tell(k, "superseded") /\ retired' = retired
       \/ winner = None /\ ticket = "none" /\ Tell(k, "error") /\ retired' = retired
       \/ winner = None /\ ticket = "due" /\ Tell(k, "expired") /\ retired' = TRUE
    /\ UNCHANGED <<driverVars, pump, glueVars, brokerVars, handed, applied, uplink, hubVars, fence, crashes>>

\* Mutant: the compare and the set are not one critical section.
Mut_WinKeepsTicket(k) ==
    /\ at[k] = "ticketed"
    /\ winner = None /\ ticket = "open"
    /\ ticket' = ticket
    /\ winner' = winner
    /\ Goes(k, "won")
    /\ UNCHANGED <<driverVars, pump, glueVars, obs, histVars, uplink, hubVars, fence, crashes>>

\* Mutant: the deadline is left to the sweeper.
Mut_WinPastDeadline(k) ==
    /\ at[k] = "ticketed"
    /\ winner = None /\ ticket # "none"
    /\ ticket' = "none"
    /\ winner' = cmd[k]
    /\ Goes(k, "won")
    /\ UNCHANGED <<driverVars, pump, glueVars, obs, histVars, uplink, hubVars, fence, crashes>>

BrokerWin(k) ==
    /\ at[k] = "ticketed"
    /\ winner = None /\ ticket = "open"
    /\ ticket' = "none"
    /\ winner' = cmd[k]
    /\ Goes(k, "won")
    /\ UNCHANGED <<driverVars, pump, glueVars, obs, histVars, uplink, hubVars, fence, crashes>>

\* DriverOwner::apply_answer up to the driver call: the row is marked consumed
\* when the waiter is still listed; a failed write fails the answer.
OwnerPersist(k) ==
    /\ at[k] = "won"
    /\ \/ /\ durable' = IF pend = "none" THEN durable ELSE "answer-committed"
          /\ Goes(k, "persisted")
       \/ pend # "none" /\ Tell(k, "error") /\ durable' = durable
    /\ UNCHANGED <<driverVars, pump, mapped, pend, brokerVars, histVars, uplink, hubVars, fence, crashes>>

\* driver.execute(RespondInteraction): a waiting harness takes the answer, then
\* the broker sends its observation.  The write may fail after it was attempted;
\* a prompt that is gone refuses it; either way the ticket stays consumed and
\* the broker sends nothing.  A terminal driver emits the committed entity after
\* every attempted write, a failed one too.
DriverExecute(k) ==
    /\ at[k] = "persisted"
    /\ handed' = Append(handed, cmd[k])
    /\ \/ emitted' = emitted
       \/ native = "asking" /\ emitted' = Append(emitted, "answer-committed")
    /\ \/ /\ native = "asking" /\ native' = "answered"
          /\ applied' = applied \cup {cmd[k]}
          /\ obs' = Append(obs, "answered")
          /\ at' = [at EXCEPT ![k] = "drop"] /\ res' = [res EXCEPT ![k] = "accepted"]
          /\ UNCHANGED <<cmd, told>>
       \/ /\ native' = native /\ applied' = applied /\ obs' = obs
          /\ Tell(k, "error")
    /\ UNCHANGED <<pump, glueVars, ticket, winner, retired, uplink, hubVars, fence, crashes>>

\* The tail of InteractionRuntime::answer, for both successful outcomes.
NodeDrop(k) ==
    /\ at[k] = "drop"
    /\ pend' = "none"
    /\ Goes(k, "replied")
    /\ UNCHANGED <<driverVars, pump, mapped, durable, brokerVars, histVars, uplink, hubVars, fence, crashes>>

\* The Hub takes the reply: a success is mirrored on the card at once, so a
\* delayed journal cannot show it pending again.
HubReply(k) ==
    /\ at[k] = "replied"
    /\ Tell(k, res[k])
    /\ card' = IF card = "pending" THEN "answer-committed" ELSE card
    /\ UNCHANGED <<driverVars, pump, glueVars, brokerVars, histVars, uplink, ended, fence, crashes>>

-----------------------------------------------------------------------------
(* The broker's clock, and the pump that commits its observations.           *)

\* The TTL is 15 minutes: ingest has long finished when it runs out.
DeadlinePasses ==
    /\ ticket = "open" /\ pump.at # "put"
    /\ ticket' = "due"
    /\ UNCHANGED <<driverVars, pump, glueVars, winner, obs, callVars, histVars, uplink, hubVars, fence, crashes>>

\* Mutant: the sweeper announces the expiry and keeps the ticket.
Mut_SweepExpired ==
    /\ ticket = "due"
    /\ ticket' = "open"
    /\ obs' = Append(obs, "expired")
    /\ retired' = TRUE
    /\ UNCHANGED <<driverVars, pump, glueVars, winner, callVars, handed, applied, uplink, hubVars, fence, crashes>>

SweepExpired ==
    /\ ticket = "due"
    /\ ticket' = "none"
    /\ obs' = Append(obs, "expired")
    /\ retired' = TRUE
    /\ UNCHANGED <<driverVars, pump, glueVars, winner, callVars, handed, applied, uplink, hubVars, fence, crashes>>

\* Mutant: the broker's observation settles the row and is not journaled.
Mut_CommitUnjournaled ==
    /\ obs # <<>>
    /\ obs' = Tail(obs)
    /\ pend' = "none"
    /\ durable' = IF pend = "none" THEN durable
                  ELSE IF Head(obs) = "expired" THEN "expired" ELSE "answer-committed"
    /\ uplink' = uplink
    /\ UNCHANGED <<driverVars, pump, mapped, ticket, winner, callVars, histVars, hubVars, fence, crashes>>

\* Mutant: the row is given the event's name, not the state it leads to.
Mut_CommitEventName ==
    /\ obs # <<>>
    /\ obs' = Tail(obs)
    /\ pend' = "none"
    /\ durable' = IF pend = "none" THEN durable
                  ELSE Head(obs)
    /\ uplink' = Append(uplink, Head(obs))
    /\ UNCHANGED <<driverVars, pump, mapped, ticket, winner, callVars, histVars, hubVars, fence, crashes>>

CommitBrokerObservation ==
    /\ obs # <<>>
    /\ obs' = Tail(obs)
    /\ pend' = "none"
    /\ durable' = IF pend = "none" THEN durable
                  ELSE IF Head(obs) = "expired" THEN "expired" ELSE "answer-committed"
    /\ uplink' = Append(uplink, Head(obs))
    /\ UNCHANGED <<driverVars, pump, mapped, ticket, winner, callVars, histVars, hubVars, fence, crashes>>

-----------------------------------------------------------------------------
(* The Hub's card.                                                           *)

\* apply_interaction_event, one journal event at a time and in order.
CardAfter(e) ==
    CASE e \in Entity ->
            IF card \in {"none", "invalidated"} THEN card ELSE e
      [] e = "requested" ->
            IF ended THEN IF card \in {"none", "pending"} THEN "invalidated" ELSE card
            ELSE IF card = "none" THEN "pending" ELSE card
      [] e = "answered" -> IF card = "pending" THEN "answer-committed" ELSE card
      [] e = "expired"  -> IF card = "pending" THEN "expired" ELSE card

HubApply ==
    /\ uplink # <<>>
    /\ uplink' = Tail(uplink)
    /\ card' = CardAfter(Head(uplink))
    /\ UNCHANGED <<driverVars, pump, glueVars, brokerVars, callVars, histVars, ended, fence, crashes>>

\* The instance is seen to have ended (a hello's reconciliation can be ahead
\* of the journal): settle_instance_interactions.
HubInstanceEnds ==
    /\ native = "over" /\ ~ended
    /\ ended' = TRUE
    /\ card' = IF card = "pending" THEN "invalidated" ELSE card
    /\ UNCHANGED <<driverVars, pump, glueVars, brokerVars, callVars, histVars, uplink, fence, crashes>>

-----------------------------------------------------------------------------
(* A fence of the asking chapter: superseded at the Hub in the fence's       *)
(* transaction, cancelled at the Node when the fence is delivered.           *)

HubFence ==
    /\ fence = "none" /\ native # "quiet"
    /\ fence' = "raised"
    /\ card' = IF card = "pending" THEN "superseded" ELSE card
    /\ UNCHANGED <<driverVars, pump, glueVars, brokerVars, callVars, histVars, uplink, ended, crashes>>

\* cancel_for_instance under the glue lock; a waiter it does not find keeps its
\* ticket.
CancelForInstance ==
    /\ fence = "raised"
    /\ fence' = IF pend = "none" THEN "done" ELSE "cancel"
    /\ pend' = "none"
    /\ durable' = IF pend = "none" THEN durable ELSE "expired"
    /\ UNCHANGED <<driverVars, pump, mapped, brokerVars, callVars, histVars, uplink, hubVars, crashes>>

CancelRetire ==
    /\ fence = "cancel"
    /\ fence' = "done"
    /\ IF mapped THEN ticket' = "none" /\ retired' = TRUE ELSE UNCHANGED <<ticket, retired>>
    /\ UNCHANGED <<driverVars, pump, glueVars, winner, obs, callVars, handed, applied, uplink, hubVars, crashes>>

-----------------------------------------------------------------------------
(* A Node crash and InteractionRuntime::spawn of the next one.  The journal  *)
(* and the row survive; a pending row comes back not answerable.  Calls end  *)
(* with the link; an unacknowledged fence is delivered again.                *)

NodeCrash ==
    /\ crashes < MaxCrash /\ native # "quiet"
    /\ crashes' = crashes + 1
    /\ native' \in {native, "over"}
    /\ emitted' = <<>> /\ pump' = Idle
    /\ mapped' = FALSE
    /\ pend' = IF durable = "pending" THEN "frozen" ELSE "none"
    /\ ticket' = "none" /\ winner' = None /\ obs' = <<>>
    /\ at' = [k \in Call |-> IF at[k] \in AtNode THEN "done" ELSE at[k]]
    /\ told' = [k \in Call |-> IF at[k] \in AtNode THEN "error" ELSE told[k]]
    /\ cmd' = [k \in Call |-> IF at[k] \in AtNode THEN None ELSE cmd[k]]
    /\ res' = [k \in Call |-> "none"]
    /\ fence' = IF fence = "cancel" THEN "raised" ELSE fence
    /\ UNCHANGED <<durable, histVars, uplink, hubVars>>

-----------------------------------------------------------------------------
CallStep(k) ==
    \/ NodeLookup(k) \/ BrokerLost(k) \/ BrokerWin(k) \/ OwnerPersist(k)
    \/ DriverExecute(k) \/ NodeDrop(k) \/ HubReply(k)

PumpStep ==
    \/ IngestRequested \/ \E e \in Entity : IngestEntity(e)
    \/ IngestRetire \/ IngestPut

Next ==
    \/ DriverAsk
    \/ \E e \in {"resolved", "invalidated"} : DriverClear(e)
    \/ PumpStep
    \/ \E k \in Call, c \in Command : HubPost(k, c)
    \/ \E k \in Call : HubGivesUp(k) \/ CallStep(k)
    \/ DeadlinePasses \/ SweepExpired \/ CommitBrokerObservation
    \/ HubApply \/ HubInstanceEnds
    \/ HubFence \/ CancelForInstance \/ CancelRetire
    \/ NodeCrash

(* The Node's tasks run until the Node stops, time passes, and the journal   *)
(* is replayed until the Hub has it; a call at the Node runs to its end.     *)
(* Nothing is assumed of the driver, of callers, of fences or of crashes.    *)
Fairness ==
    /\ WF_vars(PumpStep)
    /\ WF_vars(DeadlinePasses \/ SweepExpired)
    /\ WF_vars(CommitBrokerObservation)
    /\ WF_vars(HubApply)
    /\ \A k \in Call : WF_vars(CallStep(k))

Spec == Init /\ [][Next]_vars /\ Fairness

-----------------------------------------------------------------------------
(* Types, and the states each row, ticket and call can be in: the durable row *)
(* holds states, never the names of the events that lead to them.            *)
TypeOK ==
    /\ native \in {"quiet", "asking", "answered", "over"}
    /\ crashes \in Nat
    /\ emitted \in Seq(Entity \cup {"requested"}) /\ uplink \in Seq(Event)
    /\ obs \in Seq({"answered", "expired"})
    /\ pump \in [at : {"idle", "retire", "put"}, row : {"none", "pending"} \cup Entity]
    /\ mapped \in BOOLEAN /\ ended \in BOOLEAN /\ retired \in BOOLEAN
    /\ pend \in {"none", "live", "frozen"}
    /\ durable \in {"none", "pending", "expired"} \cup Entity
    /\ ticket \in {"none", "open", "due"}
    /\ winner \in Command \cup {None}
    /\ cmd \in [Call -> Command \cup {None}]
    /\ at \in [Call -> AtNode \cup {"idle", "done"}]
    /\ res \in [Call -> Success \cup {"none"}]
    /\ told \in [Call -> Success \cup {"none", "superseded", "expired", "error"}]
    /\ handed \in Seq(Command) /\ applied \in SUBSET Command
    /\ card \in {"none", "pending", "expired", "superseded"} \cup Entity
    /\ fence \in {"none", "raised", "cancel", "done"}

(* The harness is given at most one answer, whatever calls race, whichever   *)
(* are retried, and whether or not the Node is restarted in between          *)
(* (answer_for's compare-and-set, apply_answer behind it).                   *)
OneAnswerHanded == Len(handed) <= 1

(* A caller told "accepted" sent the answer the driver took; a caller told   *)
(* "superseded" sent an answer the driver never gets; when any caller was    *)
(* told "expired" by the Node nobody's answer was or will be given           *)
(* (InteractionRuntime::answer's replies against DriverOwner::apply_answer). *)
RepliesAreTrue ==
    \A k \in Call :
       /\ told[k] = "accepted" => cmd[k] \in applied
       /\ told[k] = "superseded" => \A i \in 1..Len(handed) : handed[i] # cmd[k]
       /\ told[k] = "expired" => handed = <<>>

(* Once the ticket was retired by the native request's end or by a fence,    *)
(* expired by the sweeper or found expired by a caller, no answer wins it:   *)
(* not the call that looked its ticket up before, not one after a restart    *)
(* (retire, expire_one and the deadline check of answer_for).                *)
NoWinAfterRetirement == [][retired => winner' \in {winner, None}]_vars

(* A card the Hub shows as expired, and refuses answers to with 410, is one  *)
(* whose harness was given no answer and never will be (sweep_expired, the   *)
(* journal's interaction.expired and apply_interaction_event).               *)
ExpiredCardUnanswered == card = "expired" => handed = <<>>

\* The code's own gaps: a crash leaves the waiter behind, a failed forward
\* consumes the ticket without an observation, and a fence that finds no card
\* yet leaves the request to the instance's end.
WaiterIsLost ==
    \/ crashes > 0 \/ fence # "none"
    \/ winner # None /\ winner \notin applied /\ \A k \in Call : at[k] \notin {"won", "persisted"}

(* A pending card is eventually settled: answered, cleared by the harness,   *)
(* or expired by the sweeper and carried to the Hub by the journal           *)
(* (spawn_sweeper, commit_broker_observation, apply_interaction_event).      *)
CardSettles == card = "pending" ~> (card # "pending" \/ WaiterIsLost)
=============================================================================
