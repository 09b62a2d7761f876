---------------------------- MODULE JournalFlush ----------------------------
(***************************************************************************)
(* How a Node mirrors the journal of one Instance to the Hub over the      *)
(* outbound WebSocket carrier.                                             *)
(*                                                                         *)
(* Five actors share the state.  The RUNTIME appends observations to the   *)
(* Node journal and, after it has released the store lock, broadcasts      *)
(* them.  The PUMP (pump_live, with flush_journal inside it) reads the     *)
(* broadcast ring or pages of the journal and submits appends into a       *)
(* window.  The SESSION loop takes submitted appends from a channel, sends *)
(* them, reads the replies and reconnects.  The RESUME task, spawned by    *)
(* every hello, re-derives the read cursor.  The HUB appends frames to its *)
(* copy, one socket's frames in order, and also journals rows of its own.  *)
(*                                                                         *)
(* An event is its sequence number.  Instances do not share any of this    *)
(* state but the connection and the channel, so one of them is modelled;   *)
(* the channel is taken to have room for two windows.                      *)
(***************************************************************************)
EXTENDS Integers, Sequences, FiniteSets

CONSTANTS MaxEvents,    \* events the Node journals
          Window,       \* UPLINK_WINDOW
          Page,         \* REPLAY_PAGE
          Ring,         \* capacity of the broadcast ring
          Faults,       \* the kinds of fault that happen
          MaxFaults     \* how many faults happen in all

ASSUME JournalAssumption ==
    /\ MaxEvents \in Nat /\ MaxFaults \in Nat
    /\ Window \in Nat \ {0} /\ Page \in Nat \ {0} /\ Ring \in Nat \ {0}
    /\ Faults \subseteq {"disconnect", "node-restart", "store-error", "hub-restore", "hub-row"}

VARIABLES
    tail,       \* durable sequence of the Node journal
    unsent,     \* events appended but not yet broadcast
    ring,       \* events the pump's broadcast receiver has not taken
    lagged,     \* the receiver has lost events it had not taken
    pump,       \* "none", "flush" (inside flush_journal) or "live"
    needs,      \* needs_replay
    flight,     \* submitted appends, in submission order
    mark,       \* the Hub-acknowledged watermark, 0 when unknown
    cursor,     \* FlushCursor: the read position, 0 when unknown
    resume,     \* a resume task is spawned and has not run
    conn,       \* "up" or "down"
    ghost,      \* frames of a dead socket the Hub can still read
    hub,        \* the Hub's rows, by author: row i is "node" or "hub"
    faults,     \* faults so far
    restored    \* the Hub has come back with an older database

nodeVars  == <<tail, unsent, ring, lagged>>
pumpVars  == <<pump, needs>>
markVars  == <<mark, cursor>>
faultVars == <<faults, restored>>
vars == <<nodeVars, pumpVars, flight, markVars, resume, conn, ghost, hub, faultVars>>

(***************************************************************************)
(* A submitted append.  `own` says whose window still waits for it:        *)
(* pump_live's, flush_journal's, or nobody's because the window was        *)
(* dropped.  `acked` is the durable sequence a success reply carries, 0    *)
(* for a failure; `gap` the sequence a gap error expected, 0 for others.   *)
(***************************************************************************)
MaxSeq == MaxEvents + MaxFaults

Flight == [seq : 1..MaxEvents, own : {"live", "flush", "orphan"},
           st : {"queued", "wire", "reply", "done"}, acked : 0..MaxSeq, gap : 0..(MaxSeq + 1)]

\* The types of the variables: no behaviour of its own, the base of the other invariants.
TypeOK ==
    /\ tail \in 0..MaxEvents /\ unsent \subseteq 1..MaxEvents
    /\ ring \in Seq(1..MaxEvents) /\ lagged \in BOOLEAN
    /\ pump \in {"none", "flush", "live"} /\ needs \in BOOLEAN
    /\ flight \in Seq(Flight)
    /\ mark \in 0..MaxSeq /\ cursor \in 0..MaxSeq
    /\ resume \in BOOLEAN /\ conn \in {"up", "down"}
    /\ ghost \in Seq(1..MaxEvents)
    /\ hub \in Seq({"node", "hub"})
    /\ faults \in 0..MaxFaults /\ restored \in BOOLEAN

Init ==
    /\ tail = 0 /\ unsent = {} /\ ring = <<>> /\ lagged = FALSE
    /\ pump = "none" /\ needs = FALSE /\ flight = <<>>
    /\ mark = 0 /\ cursor = 0 /\ resume = FALSE /\ conn = "down"
    /\ ghost = <<>> /\ hub = <<>>
    /\ faults = 0 /\ restored = FALSE

\* One more fault of kind k.
Strike(k) == k \in Faults /\ faults < MaxFaults /\ faults' = faults + 1

----------------------------------------------------------------------------
\* Submitted appends.

Larger(a, b) == IF a > b THEN a ELSE b
Smaller(a, b) == IF a < b THEN a ELSE b

New(s, w) == [seq |-> s, own |-> w, st |-> "queued", acked |-> 0, gap |-> 0]
Gone(e) == e.own = "orphan" /\ e.st = "done"

\* i is the first append of f that somebody still waits for or that is on its way.
FirstKept(f, i) == i \in DOMAIN f /\ ~Gone(f[i]) /\ \A j \in 1..(i - 1) : Gone(f[j])

\* f without the finished appends at its front.
Trim(f) == IF \E i \in DOMAIN f : FirstKept(f, i)
             THEN SubSeq(f, CHOOSE i \in DOMAIN f : FirstKept(f, i), Len(f))
             ELSE <<>>

\* The oldest append of window w: results are taken in submission order.
IsHead(w, i) == /\ i \in DOMAIN flight /\ flight[i].own = w
                /\ \A j \in 1..(i - 1) : flight[j].own # w

InWindow(w) == {i \in DOMAIN flight : flight[i].own = w}
HasCapacity(w) == Cardinality(InWindow(w)) < Window

\* Dropping a window forgets its futures; what is in the channel is sent all the same.
Abandon(w) ==
    Trim([i \in DOMAIN flight |->
            IF flight[i].own = w THEN [flight[i] EXCEPT !.own = "orphan"] ELSE flight[i]])

Resolve(i, acked) ==
    Trim([flight EXCEPT ![i] = [@ EXCEPT !.st = "done", !.acked = acked, !.gap = 0]])

\* FlushCursor::record and record_watermark never move backwards.
RecordWatermark(seq) == mark' = Larger(mark, seq)
RecordCursor(seq) == cursor' = Larger(cursor, seq)

\* submit_forward pushes an event only above the watermark.
Submit(s) == IF s <= mark THEN flight ELSE Append(flight, New(s, "live"))

----------------------------------------------------------------------------
\* The runtime: append_observation.

AppendObservation ==
    /\ tail < MaxEvents
    /\ tail' = tail + 1
    /\ unsent' = unsent \cup {tail + 1}
    /\ UNCHANGED <<ring, lagged, pumpVars, flight, markVars, resume, conn, ghost, hub, faultVars>>

\* The broadcast happens after the store lock is released, so two appends may swap.
Broadcast(s) ==
    /\ s \in unsent
    /\ unsent' = unsent \ {s}
    /\ IF pump = "none"
         THEN UNCHANGED <<ring, lagged>>
         ELSE /\ ring' = Append(IF Len(ring) = Ring THEN Tail(ring) ELSE ring, s)
              /\ lagged' = (lagged \/ Len(ring) = Ring)
    /\ UNCHANGED <<tail, pumpVars, flight, markVars, resume, conn, ghost, hub, faultVars>>

----------------------------------------------------------------------------
\* The pump.

\* ensure_pump subscribes, then replays once, then pumps; a running pump is left alone.
EnsurePump ==
    IF pump = "none"
      THEN pump' = "flush" /\ ring' = <<>> /\ lagged' = FALSE /\ UNCHANGED needs
      ELSE UNCHANGED <<pumpVars, ring, lagged>>

\* A dispatched Hub request (create, send, interaction answer) makes sure of the pump.
Dispatch ==
    /\ conn = "up" /\ pump = "none"
    /\ EnsurePump
    /\ UNCHANGED <<tail, unsent, flight, markVars, resume, conn, ghost, hub, faultVars>>

\* flush_plan and read_page: the events of one page that are above the watermark.
FlushFirst == Larger(cursor, mark) + 1

\* Mutation: the window is filled without looking at the end of the journal.
Mut_FlushLast == FlushFirst + Window - 1

FlushLast == Smaller(Smaller(tail, cursor + Page), FlushFirst + Window - 1)

FlushCaughtUp ==
    /\ pump = "flush" /\ InWindow("flush") = {}
    /\ cursor >= tail
    /\ pump' = "live" /\ needs' = FALSE
    /\ UNCHANGED <<nodeVars, flight, markVars, resume, conn, ghost, hub, faultVars>>

\* A page with nothing above the watermark submits nothing: the loop plans again at
\* once, which is a stuttering step here and a busy loop there.
FlushRead ==
    /\ pump = "flush" /\ InWindow("flush") = {}
    /\ cursor < tail /\ FlushFirst <= FlushLast
    /\ flight' = flight \o [k \in 1..(FlushLast - FlushFirst + 1) |-> New(FlushFirst + k - 1, "flush")]
    /\ UNCHANGED <<nodeVars, pumpVars, markVars, resume, conn, ghost, hub, faultVars>>

\* acknowledge: a success moves the watermark and the cursor to what the Hub holds.
Acknowledge(i) ==
    LET seq == Larger(flight[i].acked, flight[i].seq)
    IN  /\ RecordWatermark(seq) /\ RecordCursor(seq)
        /\ flight' = Trim([flight EXCEPT ![i].own = "orphan"])

FlushAck(i) ==
    /\ pump = "flush" /\ IsHead("flush", i) /\ flight[i].st = "done"
    /\ IF flight[i].acked > 0
         THEN Acknowledge(i) /\ UNCHANGED pumpVars
         ELSE /\ flight' = Abandon("flush")
              /\ pump' = "live" /\ needs' = TRUE
              /\ UNCHANGED markVars
    /\ UNCHANGED <<nodeVars, resume, conn, ghost, hub, faultVars>>

LiveAck(i) ==
    /\ pump = "live" /\ IsHead("live", i) /\ flight[i].st = "done"
    /\ IF flight[i].acked > 0
         THEN Acknowledge(i) /\ UNCHANGED needs
         ELSE /\ flight' = Abandon("live")
              /\ needs' = TRUE
              /\ UNCHANGED markVars
    /\ UNCHANGED <<nodeVars, pump, resume, conn, ghost, hub, faultVars>>

\* The select of pump_live is biased: a result that is ready goes first.
AckIsReady == \E i \in DOMAIN flight : IsHead("live", i) /\ flight[i].st = "done"

LiveRecv ==
    /\ pump = "live" /\ ~AckIsReady /\ ~needs /\ HasCapacity("live")
    /\ ring # <<>> /\ ~lagged
    /\ ring' = Tail(ring)
    /\ flight' = Submit(Head(ring))
    /\ UNCHANGED <<tail, unsent, lagged, pumpVars, markVars, resume, conn, ghost, hub, faultVars>>

\* Mutation: the lag is skipped over.
Mut_LiveLagged ==
    /\ pump = "live" /\ ~AckIsReady /\ ~needs /\ HasCapacity("live")
    /\ lagged
    /\ lagged' = FALSE
    /\ UNCHANGED <<tail, unsent, ring, pumpVars, flight, markVars, resume, conn, ghost, hub, faultVars>>

LiveLagged ==
    /\ pump = "live" /\ ~AckIsReady /\ ~needs /\ HasCapacity("live")
    /\ lagged
    /\ lagged' = FALSE /\ needs' = TRUE
    /\ UNCHANGED <<tail, unsent, ring, pump, flight, markVars, resume, conn, ghost, hub, faultVars>>

\* A due retry enters flush_journal; the live window is not polled meanwhile.
Retry ==
    /\ pump = "live" /\ ~AckIsReady /\ needs
    /\ pump' = "flush"
    /\ UNCHANGED <<nodeVars, needs, flight, markVars, resume, conn, ghost, hub, faultVars>>

----------------------------------------------------------------------------
\* The session loop and its connection.

\* The next job of the channel: a job the watermark covers is answered without a frame.
SendJob(i) ==
    /\ conn = "up"
    /\ i \in DOMAIN flight /\ flight[i].st = "queued"
    /\ \A j \in 1..(i - 1) : flight[j].st # "queued"
    /\ flight' = IF flight[i].seq <= mark THEN Resolve(i, mark)
                                          ELSE [flight EXCEPT ![i].st = "wire"]
    /\ UNCHANGED <<nodeVars, pumpVars, markVars, resume, conn, ghost, hub, faultVars>>

\* Mutation: any gap error counts as held.
Mut_AlreadyDurable(e) == e.gap # 0

\* A gap error below what the Hub expects means the row is there; above it, it is not.
AlreadyDurable(e) == e.gap # 0 /\ e.seq < e.gap

\* handle_incoming: the session records the watermark itself, whoever waits or not.
HandleIncoming(i) ==
    /\ conn = "up"
    /\ i \in DOMAIN flight /\ flight[i].st = "reply"
    /\ \A j \in 1..(i - 1) : flight[j].st # "reply"
    /\ LET e == flight[i]
           acked == IF AlreadyDurable(e) THEN e.seq ELSE e.acked
       IN  /\ RecordWatermark(acked)
           /\ flight' = Resolve(i, acked)
    /\ UNCHANGED <<nodeVars, pumpVars, cursor, resume, conn, ghost, hub, faultVars>>

\* The socket dies: every append waiting for a reply fails, the channel keeps the rest.
FailPending ==
    Trim([i \in DOMAIN flight |->
            IF flight[i].st \in {"wire", "reply"}
              THEN [flight[i] EXCEPT !.st = "done", !.acked = 0, !.gap = 0] ELSE flight[i]])

\* The frames of a dead socket, in the order they were sent: those of earlier sockets,
\* then the k-th append on the wire for k = 1, 2, ...
OnWire == {i \in DOMAIN flight : flight[i].st = "wire"}
WireAt(k) == CHOOSE i \in OnWire : Cardinality({j \in OnWire : j <= i}) = k
Unread == ghost \o [k \in 1..Cardinality(OnWire) |-> flight[WireAt(k)].seq]

Disconnect ==
    /\ conn = "up"
    /\ Strike("disconnect") /\ UNCHANGED restored
    /\ conn' = "down" /\ flight' = FailPending /\ ghost' = Unread
    /\ UNCHANGED <<nodeVars, pumpVars, markVars, resume, hub>>

\* hello: the Hub names its durable sequence, the Node forgets what it derived from
\* the last session and spawns the resume task.
Reconnect ==
    /\ conn = "down"
    /\ conn' = "up"
    /\ mark' = Len(hub) /\ cursor' = 0 /\ resume' = TRUE
    /\ UNCHANGED <<nodeVars, pumpVars, flight, ghost, hub, faultVars>>

\* Mutation: the resume task starts no pump.
Mut_ResumeJournals ==
    /\ resume
    /\ resume' = FALSE
    /\ cursor' = IF mark > 0 THEN mark ELSE cursor
    /\ UNCHANGED <<nodeVars, pumpVars, flight, mark, conn, ghost, hub, faultVars>>

\* The resume task sets the cursor to the watermark, whichever way that moves it.
ResumeJournals ==
    /\ resume
    /\ resume' = FALSE
    /\ cursor' = IF mark > 0 THEN mark ELSE cursor
    /\ EnsurePump
    /\ UNCHANGED <<tail, unsent, flight, mark, conn, ghost, hub, faultVars>>

\* A new Node process keeps the journal and nothing else.
NodeRestart ==
    /\ Strike("node-restart") /\ UNCHANGED restored
    /\ unsent' = {} /\ ring' = <<>> /\ lagged' = FALSE
    /\ pump' = "none" /\ needs' = FALSE /\ flight' = <<>>
    /\ mark' = 0 /\ cursor' = 0 /\ resume' = FALSE /\ conn' = "down" /\ ghost' = Unread
    /\ UNCHANGED <<tail, hub>>

----------------------------------------------------------------------------
\* The Hub.

\* append_loaded_event: a row that exists is a replay, the next one is inserted, any
\* other is a gap.
AppendLoadedEvent(seq) == IF seq = Len(hub) + 1 THEN Append(hub, "node") ELSE hub

HubAppend(i) ==
    /\ conn = "up"
    /\ i \in DOMAIN flight /\ flight[i].st = "wire"
    /\ \A j \in 1..(i - 1) : flight[j].st # "wire"
    /\ LET seq == flight[i].seq
           rows == AppendLoadedEvent(seq)
           known == seq <= Len(rows)
       IN  /\ hub' = rows
           /\ flight' = [flight EXCEPT ![i] =
                           [@ EXCEPT !.st = "reply",
                                     !.acked = IF known THEN Len(rows) ELSE 0,
                                     !.gap = IF known THEN 0 ELSE Len(hub) + 1]]
    /\ UNCHANGED <<nodeVars, pumpVars, markVars, resume, conn, ghost, faultVars>>

\* The store fails for a reason of its own: the transaction rolls back.
HubError(i) ==
    /\ conn = "up"
    /\ Strike("store-error") /\ UNCHANGED restored
    /\ i \in DOMAIN flight /\ flight[i].st = "wire"
    /\ \A j \in 1..(i - 1) : flight[j].st # "wire"
    /\ flight' = [flight EXCEPT ![i].st = "reply"]
    /\ UNCHANGED <<nodeVars, pumpVars, markVars, resume, conn, ghost, hub>>

\* A frame of the dead socket, read by the Hub after the Node gave it up, or lost.
HubAppendLate ==
    /\ ghost # <<>>
    /\ ghost' = Tail(ghost)
    /\ hub' = AppendLoadedEvent(Head(ghost))
    /\ UNCHANGED <<nodeVars, pumpVars, flight, markVars, resume, conn, faultVars>>

LoseFrames ==
    /\ ghost # <<>>
    /\ ghost' = <<>>
    /\ UNCHANGED <<nodeVars, pumpVars, flight, markVars, resume, conn, hub, faultVars>>

\* append_journal with no sequence, append_hub_event, append_hub_diagnostic: the Hub
\* takes the next sequence for a row of its own.
AppendHubEvent ==
    /\ Strike("hub-row") /\ UNCHANGED restored
    /\ hub' = Append(hub, "hub")
    /\ UNCHANGED <<nodeVars, pumpVars, flight, markVars, resume, conn, ghost>>

\* The Hub is back with an older database.
HubRestore(n) ==
    /\ conn = "down"
    /\ Strike("hub-restore") /\ restored' = TRUE
    /\ n < Len(hub)
    /\ hub' = SubSeq(hub, 1, n) /\ ghost' = <<>>
    /\ UNCHANGED <<nodeVars, pumpVars, flight, markVars, resume, conn>>

----------------------------------------------------------------------------
PumpStep ==
    \/ FlushCaughtUp \/ FlushRead \/ LiveRecv \/ LiveLagged \/ Retry
    \/ \E i \in DOMAIN flight : FlushAck(i) \/ LiveAck(i)

SessionStep == \E i \in DOMAIN flight : SendJob(i) \/ HandleIncoming(i)
HubStep == \E i \in DOMAIN flight : HubAppend(i)
BroadcastStep == \E s \in unsent : Broadcast(s)

Fault ==
    \/ Disconnect \/ NodeRestart \/ AppendHubEvent
    \/ \E i \in DOMAIN flight : HubError(i)
    \/ \E n \in 0..MaxSeq : HubRestore(n)

Next ==
    \/ AppendObservation \/ BroadcastStep \/ Dispatch
    \/ PumpStep \/ SessionStep \/ Reconnect \/ ResumeJournals
    \/ HubStep \/ HubAppendLate \/ LoseFrames
    \/ Fault

\* Every task is scheduled, the carrier redials for ever and the Hub reads its sockets.
Fairness ==
    /\ WF_vars(BroadcastStep) /\ WF_vars(PumpStep) /\ WF_vars(SessionStep)
    /\ WF_vars(Reconnect) /\ WF_vars(ResumeJournals)
    /\ WF_vars(HubStep) /\ WF_vars(HubAppendLate \/ LoseFrames)

Spec == Init /\ [][Next]_vars /\ Fairness

----------------------------------------------------------------------------
\* The watermark and the read cursor never run ahead of what the Hub holds, through
\* lost replies, late frames, reconnects and replays: nothing below them is skipped.
\* (A Hub restored from a backup is behind both until, and sometimes after, the hello.)
WatermarkIsHeld == ~restored => mark <= Len(hub) /\ cursor <= Len(hub)

\* A pump that believes it is caught up has not lost an event between the journal, the
\* broadcast ring and its window: what the Hub has no row for is still on one of the
\* three.  (Whose row it is, is the question of NodeRowsMirrored.)
NothingStranded ==
    (pump = "live" /\ ~needs /\ ~lagged /\ ~restored) =>
        \A s \in 1..tail : \/ s <= Len(hub)
                           \/ s \in unsent
                           \/ \E k \in DOMAIN ring : ring[k] = s
                           \/ \E i \in InWindow("live") : flight[i].seq = s

\* Row n of the Hub's copy is the Node's event n; or the Hub has taken n for a row of
\* its own, and the event is lost.
Holds(n) == n \in DOMAIN hub /\ hub[n] = "node"
HubTook(n) == n \in DOMAIN hub /\ hub[n] = "hub"

\* Every event the Node journals reaches the Hub as the Node's row, whatever finite
\* number of connections, processes and appends fail on the way.  Two things keep it
\* from there: a row of the Hub's own at the same sequence, which viol_hub_row shows to
\* lose the event, and a Hub that came back with an older database.
Mirrored == \A n \in 1..MaxEvents : (tail >= n) ~> (Holds(n) \/ HubTook(n) \/ restored)

\* protocol.md section 5.1: the Node is the only assigner of a sequence, the Hub
\* mirrors it.  What the Node takes as mirrored is the Node's own event.
NodeRowsMirrored == \A s \in 1..Smaller(Smaller(mark, tail), Len(hub)) : hub[s] = "node"
=============================================================================
