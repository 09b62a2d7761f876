------------------------- MODULE JournalFlush_proofs -------------------------
(***************************************************************************)
(* WatermarkIsHeld is an invariant of JournalFlush for every number of     *)
(* events and faults and every size of window, page and ring.              *)
(*                                                                         *)
(* The watermark and the cursor move on what a reply says, and a reply is  *)
(* read long after it was written: by the session loop, then by the pump,  *)
(* perhaps on another connection.  The strengthening therefore speaks of   *)
(* every submitted append: the durable sequence its reply carries is in    *)
(* the Hub, and a gap error never expected more than the next row.  Both   *)
(* hold because the Hub's copy only grows while its database is kept.      *)
(***************************************************************************)
EXTENDS JournalFlush, FiniteSetTheorems, WellFoundedInduction, TLAPS

Append_ == [seq : Nat, own : {"live", "flush", "orphan"},
            st : {"queued", "wire", "reply", "done"}, acked : Nat, gap : Nat]

Typed ==
    /\ flight \in Seq(Append_) /\ hub \in Seq({"node", "hub"})
    /\ mark \in Nat /\ cursor \in Nat /\ tail \in Nat

\* What a reply says of the Hub is true of rows of length n.
True(e, n) == e.acked <= n /\ (e.acked > 0 => e.seq <= n) /\ e.gap <= n + 1

AllTrue(f, n) == \A i \in DOMAIN f : True(f[i], n)

RepliesAreTrue == ~restored => AllTrue(flight, Len(hub))

HeldInv == Typed /\ WatermarkIsHeld /\ RepliesAreTrue

USE JournalAssumption

----------------------------------------------------------------------------
\* The helpers of the model.

\* A function on the positions of a sequence of appends is one when its values are.
LEMMA MappedAppends ==
    ASSUME NEW f \in Seq(Append_), NEW g, g = [i \in DOMAIN f |-> g[i]],
           \A i \in DOMAIN f : g[i] \in Append_
    PROVE  g \in Seq(Append_) /\ DOMAIN g = DOMAIN f
<1>1. DOMAIN f = 1..Len(f) /\ Len(f) \in Nat
  OBVIOUS
<1>2. g \in [1..Len(f) -> Append_]
  BY <1>1
<1> QED
  BY <1>1, <1>2

\* Trimming finished appends leaves a sequence of appends of the same sequence.
LEMMA TrimFacts ==
    ASSUME NEW f \in Seq(Append_)
    PROVE  /\ Trim(f) \in Seq(Append_)
           /\ \A i \in DOMAIN Trim(f) : \E j \in DOMAIN f : Trim(f)[i] = f[j]
<1>1. CASE \E i \in DOMAIN f : FirstKept(f, i)
  <2> DEFINE k == CHOOSE i \in DOMAIN f : FirstKept(f, i)
  <2>1. k \in 1..Len(f)
    BY <1>1
  <2>2. Trim(f) = SubSeq(f, k, Len(f))
    BY <1>1 DEF Trim
  <2> HIDE DEF k
  <2> QED
    BY <2>1, <2>2
<1>2. CASE ~ \E i \in DOMAIN f : FirstKept(f, i)
  BY <1>2 DEF Trim
<1> QED
  BY <1>1, <1>2

\* Trimming keeps true replies true.
LEMMA TrimTrue ==
    ASSUME NEW f \in Seq(Append_), NEW n \in Nat, AllTrue(f, n)
    PROVE  AllTrue(Trim(f), n)
BY TrimFacts DEF AllTrue

\* Rows added to the Hub keep true replies true.
LEMMA GrowTrue ==
    ASSUME NEW f \in Seq(Append_), NEW n \in Nat, NEW m \in Nat, n <= m, AllTrue(f, n)
    PROVE  AllTrue(f, m)
<1> SUFFICES ASSUME NEW i \in DOMAIN f
             PROVE  True(f[i], m)
  BY DEF AllTrue
<1>1. f[i] \in Append_ /\ True(f[i], n)
  BY DEF AllTrue
<1> QED
  BY <1>1 DEF True, Append_

\* Changing one append to one whose reply is true keeps the sequence typed and true.
LEMMA ChangeOne ==
    ASSUME NEW f \in Seq(Append_), NEW i \in DOMAIN f, NEW e \in Append_
    PROVE  /\ [f EXCEPT ![i] = e] \in Seq(Append_)
           /\ \A n \in Nat : AllTrue(f, n) /\ True(e, n) => AllTrue([f EXCEPT ![i] = e], n)
BY DEF AllTrue

\* Handing the appends of a window to nobody changes no reply.
LEMMA AbandonTrue ==
    ASSUME flight \in Seq(Append_), NEW w
    PROVE  /\ Abandon(w) \in Seq(Append_)
           /\ \A n \in Nat : AllTrue(flight, n) => AllTrue(Abandon(w), n)
<1> DEFINE g == [i \in DOMAIN flight |->
                   IF flight[i].own = w THEN [flight[i] EXCEPT !.own = "orphan"] ELSE flight[i]]
<1>0. \A i \in DOMAIN flight : g[i] \in Append_
  <2> SUFFICES ASSUME NEW i \in DOMAIN flight
               PROVE  g[i] \in Append_
    OBVIOUS
  <2>1. flight[i] \in Append_
    OBVIOUS
  <2> QED
    BY <2>1 DEF Append_
<1>1. g \in Seq(Append_) /\ DOMAIN g = DOMAIN flight
  BY <1>0, MappedAppends
<1>2. ASSUME NEW n \in Nat, AllTrue(flight, n)
      PROVE  AllTrue(g, n)
  BY <1>2 DEF AllTrue, True, Append_
<1>3. Abandon(w) = Trim(g)
  BY DEF Abandon
<1> HIDE DEF g
<1> QED
  BY <1>1, <1>2, <1>3, TrimFacts, TrimTrue

\* Failing the appends of a dead socket makes no reply false.
LEMMA FailPendingTrue ==
    ASSUME flight \in Seq(Append_)
    PROVE  /\ FailPending \in Seq(Append_)
           /\ \A n \in Nat : AllTrue(flight, n) => AllTrue(FailPending, n)
<1> DEFINE g == [i \in DOMAIN flight |->
                   IF flight[i].st \in {"wire", "reply"}
                     THEN [flight[i] EXCEPT !.st = "done", !.acked = 0, !.gap = 0] ELSE flight[i]]
<1>0. \A i \in DOMAIN flight : g[i] \in Append_
  <2> SUFFICES ASSUME NEW i \in DOMAIN flight
               PROVE  g[i] \in Append_
    OBVIOUS
  <2>1. flight[i] \in Append_
    OBVIOUS
  <2> QED
    BY <2>1 DEF Append_
<1>1. g \in Seq(Append_) /\ DOMAIN g = DOMAIN flight
  BY <1>0, MappedAppends
<1>2. ASSUME NEW n \in Nat, AllTrue(flight, n)
      PROVE  AllTrue(g, n)
  <2> SUFFICES ASSUME NEW i \in DOMAIN flight
               PROVE  True(g[i], n)
    BY <1>1 DEF AllTrue
  <2>1. flight[i] \in Append_
    OBVIOUS
  <2>2. True(flight[i], n)
    BY <1>2 DEF AllTrue
  <2>3. CASE flight[i].st \in {"wire", "reply"}
    BY <2>1, <2>2, <2>3 DEF True, Append_
  <2>4. CASE flight[i].st \notin {"wire", "reply"}
    BY <2>2, <2>4
  <2> QED
    BY <2>3, <2>4
<1>3. FailPending = Trim(g)
  BY DEF FailPending
<1> HIDE DEF g
<1> QED
  BY <1>1, <1>2, <1>3, TrimFacts, TrimTrue

\* Resolving an append with a durable sequence the Hub holds.
LEMMA ResolveTrue ==
    ASSUME flight \in Seq(Append_), NEW i \in DOMAIN flight, NEW a \in Nat
    PROVE  /\ Resolve(i, a) \in Seq(Append_)
           /\ \A n \in Nat : /\ AllTrue(flight, n)
                             /\ a <= n /\ (a > 0 => flight[i].seq <= n)
                             => AllTrue(Resolve(i, a), n)
<1> DEFINE e == [flight[i] EXCEPT !.st = "done", !.acked = a, !.gap = 0]
           g == [flight EXCEPT ![i] = e]
<1>0. flight[i] \in Append_
  OBVIOUS
<1>1. e \in Append_ /\ e.seq = flight[i].seq /\ e.acked = a /\ e.gap = 0
  BY <1>0 DEF Append_
<1>2. Resolve(i, a) = Trim(g)
  BY DEF Resolve
<1>3. \A n \in Nat : a <= n /\ (a > 0 => flight[i].seq <= n) => True(e, n)
  BY <1>1 DEF True
<1> HIDE DEF e
<1>4. g \in Seq(Append_) /\ \A n \in Nat : AllTrue(flight, n) /\ True(e, n) => AllTrue(g, n)
  BY <1>1, ChangeOne
<1> HIDE DEF g
<1> QED
  BY <1>2, <1>3, <1>4, TrimFacts, TrimTrue

----------------------------------------------------------------------------
\* A step that changes neither the Hub nor the marks and keeps replies true.
LEMMA FlightStep ==
    ASSUME HeldInv, UNCHANGED <<markVars, hub, restored>>, tail' \in Nat,
           flight' \in Seq(Append_), AllTrue(flight, Len(hub)) => AllTrue(flight', Len(hub))
    PROVE  HeldInv'
BY DEF HeldInv, Typed, WatermarkIsHeld, RepliesAreTrue, markVars

\* A step of the Hub's copy: it only grows, and the appends carry true replies.
LEMMA HubStepHeld ==
    ASSUME HeldInv, UNCHANGED <<markVars, restored, tail>>,
           hub' \in Seq({"node", "hub"}), Len(hub) <= Len(hub'),
           flight' \in Seq(Append_), AllTrue(flight, Len(hub)) => AllTrue(flight', Len(hub'))
    PROVE  HeldInv'
BY DEF HeldInv, Typed, WatermarkIsHeld, RepliesAreTrue, markVars

\* Appending a row, or none.
LEMMA RowsGrow ==
    ASSUME hub \in Seq({"node", "hub"}), NEW s
    PROVE  /\ AppendLoadedEvent(s) \in Seq({"node", "hub"})
           /\ Len(hub) <= Len(AppendLoadedEvent(s))
           /\ Len(AppendLoadedEvent(s)) <= Len(hub) + 1
BY DEF AppendLoadedEvent

\* An acknowledged append moves the marks to rows the Hub holds.
LEMMA AcknowledgeHeld ==
    ASSUME HeldInv, NEW i \in DOMAIN flight, flight[i].acked > 0, Acknowledge(i),
           UNCHANGED <<hub, restored, tail>>
    PROVE  HeldInv'
<1> DEFINE e == [flight[i] EXCEPT !.own = "orphan"]
           g == [flight EXCEPT ![i] = e]
           s == Larger(flight[i].acked, flight[i].seq)
<1>1. flight \in Seq(Append_) /\ flight[i] \in Append_ /\ mark \in Nat /\ cursor \in Nat
      /\ Len(hub) \in Nat
  BY DEF HeldInv, Typed
<1>2. e \in Append_ /\ e.seq = flight[i].seq /\ e.acked = flight[i].acked /\ e.gap = flight[i].gap
  BY <1>1 DEF Append_
<1>3. flight' = Trim(g)
  BY DEF Acknowledge
<1>4. s \in Nat /\ (~restored => s <= Len(hub))
  BY <1>1 DEF HeldInv, RepliesAreTrue, AllTrue, True, Larger, Append_
<1>5. mark' = Larger(mark, s) /\ cursor' = Larger(cursor, s)
  BY DEF Acknowledge, RecordWatermark, RecordCursor
<1>6. AllTrue(flight, Len(hub)) => True(e, Len(hub))
  BY <1>1, <1>2 DEF AllTrue, True
<1> HIDE DEF e, s
<1>7. g \in Seq(Append_) /\ (AllTrue(flight, Len(hub)) => AllTrue(g, Len(hub)))
  BY <1>1, <1>2, <1>6, ChangeOne
<1> HIDE DEF g
<1>8. flight' \in Seq(Append_) /\ (AllTrue(flight, Len(hub)) => AllTrue(flight', Len(hub)))
  BY <1>1, <1>3, <1>7, TrimFacts, TrimTrue
<1>9. mark' \in Nat /\ cursor' \in Nat /\ (~restored => mark' <= Len(hub) /\ cursor' <= Len(hub))
  BY <1>1, <1>4, <1>5 DEF Larger, HeldInv, WatermarkIsHeld
<1> QED
  BY <1>8, <1>9 DEF HeldInv, Typed, WatermarkIsHeld, RepliesAreTrue

----------------------------------------------------------------------------
\* What is broadcast is a sequence number.
RingTyped == tail \in Nat /\ unsent \subseteq Nat /\ ring \in Seq(Nat)

LEMMA RingTypedNext == RingTyped /\ [Next]_vars => RingTyped'
<1> SUFFICES ASSUME RingTyped, [Next]_vars
             PROVE  RingTyped'
  OBVIOUS
<1> USE DEF RingTyped
<1>1. CASE AppendObservation
  BY <1>1 DEF AppendObservation
<1>2. ASSUME NEW s \in unsent, Broadcast(s)
      PROVE  RingTyped'
  <2>1. s \in Nat /\ tail' = tail /\ unsent' \subseteq Nat
    BY <1>2 DEF Broadcast
  <2>2. CASE pump = "none"
    BY <1>2, <2>1, <2>2 DEF Broadcast
  <2>3. CASE pump # "none"
    <3> DEFINE r == IF Len(ring) = Ring THEN Tail(ring) ELSE ring
    <3>1. r \in Seq(Nat)
      <4>1. CASE Len(ring) = Ring
        BY <4>1 DEF JournalAssumption
      <4>2. CASE Len(ring) # Ring
        BY <4>2
      <4> QED
        BY <4>1, <4>2
    <3>2. ring' = Append(r, s)
      BY <1>2, <2>3 DEF Broadcast
    <3> HIDE DEF r
    <3>3. ring' \in Seq(Nat)
      BY <2>1, <3>1, <3>2
    <3> QED
      BY <2>1, <3>3
  <2> QED
    BY <2>2, <2>3
<1>3. CASE Dispatch \/ ResumeJournals
  <2>1. UNCHANGED <<tail, unsent>> /\ (ring' = <<>> \/ ring' = ring)
    BY <1>3 DEF Dispatch, ResumeJournals, EnsurePump
  <2>2. <<>> \in Seq(Nat)
    OBVIOUS
  <2>3. ring' \in Seq(Nat)
    BY <2>1, <2>2, Zenon
  <2>4. tail' \in Nat /\ unsent' \subseteq Nat
    BY <2>1
  <2> QED
    BY <2>3, <2>4
<1>4. CASE LiveRecv \/ LiveLagged \/ NodeRestart
  <2>1. CASE LiveRecv
    <3>1. UNCHANGED <<tail, unsent>> /\ ring # <<>> /\ ring' = Tail(ring)
      BY <2>1 DEF LiveRecv
    <3> QED
      BY <3>1
  <2>2. CASE LiveLagged
    BY <2>2 DEF LiveLagged
  <2>3. CASE NodeRestart
    <3>1. UNCHANGED tail /\ unsent' = {} /\ ring' = <<>>
      BY <2>3 DEF NodeRestart
    <3> QED
      BY <3>1
  <2> QED
    BY <1>4, <2>1, <2>2, <2>3
<1>5. CASE UNCHANGED nodeVars
  BY <1>5 DEF nodeVars
<1> QED
  BY <1>1, <1>2, <1>3, <1>4, <1>5
     DEF Next, BroadcastStep, PumpStep, SessionStep, HubStep, Fault, FlushCaughtUp, FlushRead,
         FlushAck, LiveAck, Retry, SendJob, HandleIncoming, HubAppend, HubError, Disconnect,
         Reconnect, HubAppendLate, LoseFrames, AppendHubEvent, HubRestore, vars

\* The strengthening is inductive: one step per action.
LEMMA HeldInvNext == RingTyped /\ HeldInv /\ [Next]_vars => HeldInv'
<1> SUFFICES ASSUME RingTyped, HeldInv, [Next]_vars
             PROVE  HeldInv'
  OBVIOUS
<1>0. /\ flight \in Seq(Append_) /\ hub \in Seq({"node", "hub"}) /\ Len(hub) \in Nat
      /\ mark \in Nat /\ cursor \in Nat /\ tail \in Nat
      /\ (~restored => mark <= Len(hub) /\ cursor <= Len(hub) /\ AllTrue(flight, Len(hub)))
  BY DEF HeldInv, Typed, WatermarkIsHeld, RepliesAreTrue
<1>1. CASE AppendObservation
  BY <1>0, <1>1, FlightStep DEF AppendObservation, faultVars
<1>2. CASE BroadcastStep
  BY <1>0, <1>2, FlightStep DEF BroadcastStep, Broadcast, faultVars
<1>3. CASE Dispatch
  BY <1>0, <1>3, FlightStep DEF Dispatch, faultVars
<1>4. CASE FlushCaughtUp
  BY <1>0, <1>4, FlightStep DEF FlushCaughtUp, faultVars, nodeVars
<1>5. CASE FlushRead
  <2> DEFINE k == FlushLast - FlushFirst + 1
             more == [j \in 1..k |-> New(FlushFirst + j - 1, "flush")]
  <2>1. FlushFirst \in Nat /\ FlushLast \in Int /\ k \in Nat
    BY <1>0, <1>5 DEF FlushRead, FlushFirst, FlushLast, Larger, Smaller
  <2>2. more \in Seq(Append_) /\ Len(more) = k /\ \A j \in 1..k : more[j].acked = 0 /\ more[j].gap = 0
    <3>1. \A j \in 1..k : New(FlushFirst + j - 1, "flush") \in Append_
      BY <2>1 DEF New, Append_
    <3>2. more \in [1..k -> Append_]
      BY <3>1
    <3>3. \A j \in 1..k : more[j].acked = 0 /\ more[j].gap = 0
      BY DEF New
    <3> HIDE DEF more
    <3> QED
      BY <2>1, <3>2, <3>3
  <2>3. flight' = flight \o more
    BY <1>5 DEF FlushRead
  <2> HIDE DEF more, k
  <2>4. flight' \in Seq(Append_)
    BY <1>0, <2>2, <2>3
  <2>5. AllTrue(flight, Len(hub)) => AllTrue(flight', Len(hub))
    <3> SUFFICES ASSUME AllTrue(flight, Len(hub)), NEW i \in DOMAIN flight'
                 PROVE  True(flight'[i], Len(hub))
      BY DEF AllTrue
    <3>1. CASE i \in DOMAIN flight
      BY <1>0, <2>2, <2>3, <3>1 DEF AllTrue
    <3>2. CASE i \notin DOMAIN flight
      <4>1. i - Len(flight) \in 1..k /\ flight'[i] = more[i - Len(flight)]
        BY <1>0, <2>1, <2>2, <2>3, <3>2
      <4> QED
        BY <1>0, <2>2, <4>1 DEF True
    <3> QED
      BY <3>1, <3>2
  <2> QED
    BY <1>0, <1>5, <2>4, <2>5, FlightStep DEF FlushRead, faultVars, nodeVars
<1>6. CASE LiveRecv
  <2>1. CASE Head(ring) <= mark
    BY <1>0, <1>6, <2>1, FlightStep DEF LiveRecv, Submit, faultVars
  <2>2. CASE ~(Head(ring) <= mark)
    <3> DEFINE e == New(Head(ring), "live")
    <3>1. e \in Append_ /\ e.acked = 0 /\ e.gap = 0
      BY <1>6 DEF LiveRecv, RingTyped, New, Append_
    <3>2. flight' = Append(flight, e)
      BY <1>6, <2>2 DEF LiveRecv, Submit
    <3> HIDE DEF e
    <3>3. flight' \in Seq(Append_)
      BY <1>0, <3>1, <3>2
    <3>4. AllTrue(flight, Len(hub)) => AllTrue(flight', Len(hub))
      BY <1>0, <3>1, <3>2 DEF AllTrue, True
    <3> QED
      BY <1>0, <1>6, <3>3, <3>4, FlightStep DEF LiveRecv, faultVars
  <2> QED
    BY <2>1, <2>2
<1>7. CASE LiveLagged
  BY <1>0, <1>7, FlightStep DEF LiveLagged, faultVars
<1>8. CASE Retry
  BY <1>0, <1>8, FlightStep DEF Retry, faultVars, nodeVars
<1>9. ASSUME NEW i \in DOMAIN flight, FlushAck(i)
      PROVE  HeldInv'
  <2>1. CASE flight[i].acked > 0
    BY <1>9, <2>1, AcknowledgeHeld DEF FlushAck, faultVars, nodeVars
  <2>2. CASE ~(flight[i].acked > 0)
    <3>1. flight' = Abandon("flush") /\ UNCHANGED <<markVars, hub, restored>> /\ tail' = tail
      BY <1>9, <2>2 DEF FlushAck, faultVars, nodeVars
    <3> QED
      BY <1>0, <3>1, AbandonTrue, FlightStep
  <2> QED
    BY <2>1, <2>2
<1>10. ASSUME NEW i \in DOMAIN flight, LiveAck(i)
       PROVE  HeldInv'
  <2>1. CASE flight[i].acked > 0
    BY <1>10, <2>1, AcknowledgeHeld DEF LiveAck, faultVars, nodeVars
  <2>2. CASE ~(flight[i].acked > 0)
    <3>1. flight' = Abandon("live") /\ UNCHANGED <<markVars, hub, restored>> /\ tail' = tail
      BY <1>10, <2>2 DEF LiveAck, faultVars, nodeVars
    <3> QED
      BY <1>0, <3>1, AbandonTrue, FlightStep
  <2> QED
    BY <2>1, <2>2
<1>11. ASSUME NEW i \in DOMAIN flight, SendJob(i)
       PROVE  HeldInv'
  <2>0. UNCHANGED <<markVars, hub, restored>> /\ tail' = tail
    BY <1>11 DEF SendJob, faultVars, nodeVars
  <2>1. CASE flight[i].seq <= mark
    <3>1. flight' = Resolve(i, mark)
      BY <1>11, <2>1 DEF SendJob
    <3>2. flight' \in Seq(Append_)
      BY <1>0, <3>1, ResolveTrue
    <3>3. ~restored => AllTrue(flight', Len(hub))
      <4> SUFFICES ASSUME ~restored
                   PROVE  AllTrue(flight', Len(hub))
        OBVIOUS
      <4>1. flight[i] \in Append_
        BY <1>0
      <4>2. mark <= Len(hub) /\ flight[i].seq <= Len(hub)
        BY <1>0, <2>1, <4>1 DEF Append_
      <4> QED
        BY <1>0, <3>1, <4>2, ResolveTrue
    <3> QED
      BY <1>0, <2>0, <3>2, <3>3 DEF HeldInv, Typed, WatermarkIsHeld, RepliesAreTrue, markVars
  <2>2. CASE ~(flight[i].seq <= mark)
    <3> DEFINE e == [flight[i] EXCEPT !.st = "wire"]
    <3>0. flight[i] \in Append_
      BY <1>0
    <3>1. e \in Append_ /\ e.seq = flight[i].seq /\ e.acked = flight[i].acked /\ e.gap = flight[i].gap
      BY <3>0 DEF Append_
    <3>2. flight' = [flight EXCEPT ![i] = e]
      BY <1>11, <2>2 DEF SendJob
    <3>3. AllTrue(flight, Len(hub)) => True(e, Len(hub))
      BY <3>1 DEF AllTrue, True
    <3> HIDE DEF e
    <3> QED
      BY <1>0, <2>0, <3>1, <3>2, <3>3, ChangeOne, FlightStep
  <2> QED
    BY <2>1, <2>2
<1>12. ASSUME NEW i \in DOMAIN flight, HandleIncoming(i)
       PROVE  HeldInv'
  <2> DEFINE a == IF AlreadyDurable(flight[i]) THEN flight[i].seq ELSE flight[i].acked
  <2>0. UNCHANGED <<cursor, hub, restored>> /\ tail' = tail
    BY <1>12 DEF HandleIncoming, faultVars, nodeVars
  <2>1. flight[i] \in Append_
    BY <1>0
  <2>2. a \in Nat
    BY <2>1 DEF Append_
  <2>3. ~restored => a <= Len(hub) /\ (a > 0 => flight[i].seq <= Len(hub))
    BY <1>0, <2>1 DEF AllTrue, True, AlreadyDurable, Append_
  <2>4. mark' = Larger(mark, a) /\ flight' = Resolve(i, a)
    BY <1>12 DEF HandleIncoming, RecordWatermark
  <2> HIDE DEF a
  <2>5. flight' \in Seq(Append_) /\ (~restored => AllTrue(flight', Len(hub)))
    BY <1>0, <2>2, <2>3, <2>4, ResolveTrue
  <2>6. mark' \in Nat /\ (~restored => mark' <= Len(hub))
    BY <1>0, <2>2, <2>3, <2>4 DEF Larger
  <2> QED
    BY <1>0, <2>0, <2>5, <2>6 DEF HeldInv, Typed, WatermarkIsHeld, RepliesAreTrue
<1>13. CASE Disconnect
  <2>1. flight' = FailPending /\ UNCHANGED <<markVars, hub, restored>> /\ tail' = tail
    BY <1>13 DEF Disconnect, nodeVars
  <2> QED
    BY <1>0, <2>1, FailPendingTrue, FlightStep
<1>14. CASE Reconnect
  BY <1>0, <1>14 DEF Reconnect, HeldInv, Typed, WatermarkIsHeld, RepliesAreTrue, faultVars, nodeVars
<1>15. CASE ResumeJournals
  BY <1>0, <1>15 DEF ResumeJournals, HeldInv, Typed, WatermarkIsHeld, RepliesAreTrue, faultVars
<1>16. CASE NodeRestart
  BY <1>0, <1>16 DEF NodeRestart, HeldInv, Typed, WatermarkIsHeld, RepliesAreTrue, AllTrue
<1>17. ASSUME NEW i \in DOMAIN flight, HubAppend(i)
       PROVE  HeldInv'
  <2> DEFINE rows == AppendLoadedEvent(flight[i].seq)
             e == [flight[i] EXCEPT !.st = "reply",
                     !.acked = IF flight[i].seq <= Len(rows) THEN Len(rows) ELSE 0,
                     !.gap = IF flight[i].seq <= Len(rows) THEN 0 ELSE Len(hub) + 1]
  <2>0. UNCHANGED <<markVars, restored, tail>>
    BY <1>17 DEF HubAppend, faultVars, nodeVars
  <2>1. hub' = rows /\ flight' = [flight EXCEPT ![i] = e]
    BY <1>17 DEF HubAppend
  <2>2. flight[i] \in Append_
    BY <1>0
  <2>3. /\ rows \in Seq({"node", "hub"}) /\ Len(hub) <= Len(rows)
        /\ Len(rows) \in Nat
    BY <1>0, RowsGrow
  <2> HIDE DEF rows
  <2>4. e \in Append_ /\ True(e, Len(rows))
    <3> DEFINE known == flight[i].seq <= Len(rows)
               a == IF known THEN Len(rows) ELSE 0
               g == IF known THEN 0 ELSE Len(hub) + 1
    <3>1. a \in Nat /\ g \in Nat /\ flight[i].seq \in Nat
      BY <1>0, <2>2, <2>3 DEF Append_
    <3>2. a <= Len(rows) /\ (a > 0 => flight[i].seq <= Len(rows)) /\ g <= Len(rows) + 1
      BY <1>0, <2>3
    <3> HIDE DEF a, g
    <3>3. e.seq = flight[i].seq /\ e.acked = a /\ e.gap = g
      BY <2>2 DEF Append_, a, g
    <3>4. e = [flight[i] EXCEPT !.st = "reply", !.acked = a, !.gap = g]
      BY DEF a, g
    <3> HIDE DEF e
    <3>5. e \in Append_
      BY <2>2, <3>1, <3>4 DEF Append_
    <3> QED
      BY <3>2, <3>3, <3>5 DEF True
  <2> HIDE DEF e
  <2>5. flight' \in Seq(Append_) /\ (AllTrue(flight, Len(hub)) => AllTrue(flight', Len(rows)))
    BY <1>0, <2>1, <2>3, <2>4, ChangeOne, GrowTrue
  <2> QED
    BY <2>0, <2>1, <2>3, <2>5, HubStepHeld
<1>18. ASSUME NEW i \in DOMAIN flight, HubError(i)
       PROVE  HeldInv'
  <2> DEFINE e == [flight[i] EXCEPT !.st = "reply"]
  <2>0. UNCHANGED <<markVars, hub, restored>> /\ tail' = tail /\ flight' = [flight EXCEPT ![i] = e]
    BY <1>18 DEF HubError, nodeVars
  <2>1. flight[i] \in Append_
    BY <1>0
  <2>2. e \in Append_ /\ e.seq = flight[i].seq /\ e.acked = flight[i].acked /\ e.gap = flight[i].gap
    BY <2>1 DEF Append_
  <2>3. AllTrue(flight, Len(hub)) => True(e, Len(hub))
    BY <2>2 DEF AllTrue, True
  <2> HIDE DEF e
  <2> QED
    BY <1>0, <2>0, <2>2, <2>3, ChangeOne, FlightStep
<1>19. CASE HubAppendLate
  <2>0. UNCHANGED <<markVars, restored, tail, flight>> /\ hub' = AppendLoadedEvent(Head(ghost))
    BY <1>19 DEF HubAppendLate, faultVars, nodeVars
  <2>1. hub' \in Seq({"node", "hub"}) /\ Len(hub) <= Len(hub') /\ Len(hub') \in Nat
    BY <1>0, <2>0, RowsGrow
  <2>2. AllTrue(flight, Len(hub)) => AllTrue(flight', Len(hub'))
    BY <1>0, <2>0, <2>1, GrowTrue
  <2> QED
    BY <1>0, <2>0, <2>1, <2>2, HubStepHeld
<1>20. CASE LoseFrames
  BY <1>0, <1>20, FlightStep DEF LoseFrames, faultVars, nodeVars
<1>21. CASE AppendHubEvent
  <2>0. UNCHANGED <<markVars, restored, tail, flight>> /\ hub' = Append(hub, "hub")
    BY <1>21 DEF AppendHubEvent, nodeVars
  <2>1. hub' \in Seq({"node", "hub"}) /\ Len(hub') = Len(hub) + 1
    BY <1>0, <2>0
  <2>2. AllTrue(flight, Len(hub)) => AllTrue(flight', Len(hub'))
    BY <1>0, <2>0, <2>1, GrowTrue
  <2> QED
    BY <1>0, <2>0, <2>1, <2>2, HubStepHeld
<1>22. ASSUME NEW n \in 0..MaxSeq, HubRestore(n)
       PROVE  HeldInv'
  <2>1. hub' = SubSeq(hub, 1, n) /\ n \in Nat /\ n < Len(hub)
    BY <1>0, <1>22 DEF HubRestore, MaxSeq
  <2>2. hub' \in Seq({"node", "hub"})
    BY <1>0, <2>1
  <2> QED
    BY <1>0, <1>22, <2>2 DEF HubRestore, HeldInv, Typed, WatermarkIsHeld, RepliesAreTrue, nodeVars, markVars
<1>23. CASE UNCHANGED vars
  BY <1>0, <1>23, FlightStep DEF vars, nodeVars, faultVars
<1> QED
  BY <1>1, <1>2, <1>3, <1>4, <1>5, <1>6, <1>7, <1>8, <1>9, <1>10, <1>11, <1>12, <1>13, <1>14,
     <1>15, <1>16, <1>17, <1>18, <1>19, <1>20, <1>21, <1>22, <1>23
     DEF Next, PumpStep, SessionStep, HubStep, Fault

LEMMA HeldFromStart == Init => RingTyped /\ HeldInv
<1>1. Init => RingTyped
  BY DEF Init, RingTyped
<1>2. Init => HeldInv
  <2> SUFFICES ASSUME Init
               PROVE  HeldInv
    OBVIOUS
  <2>1. /\ flight = <<>> /\ hub = <<>> /\ Len(hub) = 0
        /\ mark = 0 /\ cursor = 0 /\ tail = 0 /\ restored = FALSE
    BY DEF Init
  <2>2. flight \in Seq(Append_) /\ hub \in Seq({"node", "hub"})
    BY <2>1
  <2>3. AllTrue(flight, Len(hub))
    BY <2>1 DEF AllTrue
  <2>4. Typed
    BY <2>1, <2>2 DEF Typed
  <2>5. WatermarkIsHeld
    BY <2>1 DEF WatermarkIsHeld
  <2> QED
    BY <2>3, <2>4, <2>5 DEF HeldInv, RepliesAreTrue
<1> QED
  BY <1>1, <1>2

\* The watermark and the read cursor of a carrier session are never ahead of the rows
\* the Hub holds, whatever connections, processes and appends fail (acknowledge,
\* handle_incoming, apply_resume_watermarks), as long as the Hub keeps its database.
THEOREM WatermarkHolds == Spec => []WatermarkIsHeld
<1>1. HeldInv => WatermarkIsHeld
  BY DEF HeldInv
<1> QED
  BY <1>1, HeldFromStart, RingTypedNext, HeldInvNext, PTL DEF Spec

----------------------------------------------------------------------------
\* NothingStranded.

\* Every set of numbers that is not empty has a least one.
LEMMA LeastNumber ==
    ASSUME NEW S \in SUBSET Nat, S # {}
    PROVE  \E m \in S : \A k \in S : m <= k
<1> DEFINE R == OpToRel(<, Nat)
<1>1. IsWellFoundedOn(R, Nat)
  BY NatLessThanWellFounded
<1>2. \A x, y \in Nat : <<y, x>> \in R <=> y < x
  BY DEF OpToRel
<1> HIDE DEF R
<1>3. PICK x \in S : \A y \in S : ~ (<<y, x>> \in R)
  BY <1>1, WFMin
<1>4. \A y \in S : ~ (y < x)
  BY <1>2, <1>3
<1> QED
  BY <1>4

\* The live window of f waits for event s.
Awaits(f, s) == \E i \in DOMAIN f : f[i].own = "live" /\ f[i].seq = s

\* Trimming drops appends nobody waits for, and only those.
LEMMA TrimAwaits ==
    ASSUME NEW f \in Seq(Append_), NEW s, Awaits(f, s)
    PROVE  Awaits(Trim(f), s)
<1>1. PICK i \in DOMAIN f : f[i].own = "live" /\ f[i].seq = s
  BY DEF Awaits
<1> DEFINE Kept == {j \in DOMAIN f : ~Gone(f[j])}
<1>2. DOMAIN f = 1..Len(f) /\ Len(f) \in Nat
  OBVIOUS
<1>3. i \in Kept /\ Kept \in SUBSET Nat
  BY <1>1, <1>2 DEF Gone
<1>4. PICK m \in Kept : \A j \in Kept : m <= j
  BY <1>3, LeastNumber
<1>5. FirstKept(f, m) /\ m \in DOMAIN f
  BY <1>2, <1>4 DEF FirstKept
<1> DEFINE k == CHOOSE j \in DOMAIN f : FirstKept(f, j)
<1>6. k \in DOMAIN f /\ FirstKept(f, k)
  BY <1>5
<1>7. Trim(f) = SubSeq(f, k, Len(f))
  BY <1>5 DEF Trim
<1> HIDE DEF k
<1>8. k <= i
  BY <1>1, <1>2, <1>6 DEF FirstKept, Gone
<1>9. i - k + 1 \in DOMAIN Trim(f) /\ Trim(f)[i - k + 1] = f[i]
  BY <1>2, <1>6, <1>7, <1>8
<1> QED
  BY <1>1, <1>9 DEF Awaits

\* Changing an append but not its event nor its window.
LEMMA ChangeAwaits ==
    ASSUME NEW f \in Seq(Append_), NEW i \in DOMAIN f, NEW e, NEW s, Awaits(f, s),
           f[i].seq = s => e.own = f[i].own /\ e.seq = f[i].seq
    PROVE  Awaits([f EXCEPT ![i] = e], s)
<1>1. PICK j \in DOMAIN f : f[j].own = "live" /\ f[j].seq = s
  BY DEF Awaits
<1> DEFINE g == [f EXCEPT ![i] = e]
<1>2. j \in DOMAIN g /\ g[j] = IF j = i THEN e ELSE f[j]
  OBVIOUS
<1>3. g[j].own = "live" /\ g[j].seq = s
  BY <1>1, <1>2
<1> QED
  BY <1>2, <1>3 DEF Awaits

LEMMA ResolveAwaits ==
    ASSUME flight \in Seq(Append_), NEW i \in DOMAIN flight, NEW a \in Nat, NEW s, Awaits(flight, s)
    PROVE  Awaits(Resolve(i, a), s)
<1> DEFINE e == [flight[i] EXCEPT !.st = "done", !.acked = a, !.gap = 0]
           g == [flight EXCEPT ![i] = e]
<1>0. flight[i] \in Append_
  OBVIOUS
<1>1. e \in Append_ /\ e.own = flight[i].own /\ e.seq = flight[i].seq
  BY <1>0 DEF Append_
<1>2. Resolve(i, a) = Trim(g)
  BY DEF Resolve
<1> HIDE DEF e
<1>3. g \in Seq(Append_) /\ Awaits(g, s)
  BY <1>1, ChangeOne, ChangeAwaits
<1> HIDE DEF g
<1> QED
  BY <1>2, <1>3, TrimAwaits

LEMMA FailPendingAwaits ==
    ASSUME flight \in Seq(Append_), NEW s, Awaits(flight, s)
    PROVE  Awaits(FailPending, s)
<1> DEFINE g == [i \in DOMAIN flight |->
                   IF flight[i].st \in {"wire", "reply"}
                     THEN [flight[i] EXCEPT !.st = "done", !.acked = 0, !.gap = 0] ELSE flight[i]]
<1>0. \A i \in DOMAIN flight : flight[i] \in Append_
  OBVIOUS
<1>1. \A i \in DOMAIN flight : g[i] \in Append_ /\ g[i].own = flight[i].own /\ g[i].seq = flight[i].seq
  <2> TAKE i \in DOMAIN flight
  <2>1. CASE flight[i].st \in {"wire", "reply"}
    BY <1>0, <2>1 DEF Append_
  <2>2. CASE flight[i].st \notin {"wire", "reply"}
    BY <1>0, <2>2
  <2> QED
    BY <2>1, <2>2
<1>2. FailPending = Trim(g)
  BY DEF FailPending
<1>3. DOMAIN g = DOMAIN flight /\ g = [i \in DOMAIN flight |-> g[i]]
  OBVIOUS
<1> HIDE DEF g
<1>4. g \in Seq(Append_)
  BY <1>1, <1>3, MappedAppends
<1>5. Awaits(g, s)
  BY <1>1, <1>3 DEF Awaits
<1> QED
  BY <1>2, <1>4, <1>5, TrimAwaits

\* Where event s is on its way, or has arrived.
OnItsWay(s) ==
    \/ s <= Len(hub) \/ s \in unsent
    \/ \E k \in DOMAIN ring : ring[k] = s
    \/ Awaits(flight, s)

CaughtUp == pump = "live" /\ ~needs /\ ~lagged /\ ~restored

\* NothingStranded in these terms, before and after a step.
LEMMA Stranded ==
    /\ NothingStranded <=> (CaughtUp => \A s \in 1..tail : OnItsWay(s))
    /\ NothingStranded' <=> (CaughtUp' => \A s \in 1..tail' : OnItsWay(s)')
BY DEF NothingStranded, CaughtUp, OnItsWay, Awaits, InWindow

\* A step after which the pump is not caught up.
LEMMA NotCaughtUp == ~CaughtUp' => NothingStranded'
BY Stranded

\* A step that leaves the ring alone and loses no append of the live window.
LEMMA WindowStep ==
    ASSUME NothingStranded, CaughtUp' => CaughtUp, UNCHANGED <<tail, unsent, ring>>,
           Len(hub) \in Nat, Len(hub') \in Nat, tail \in Nat, ~restored' => Len(hub) <= Len(hub'),
           \A s \in Nat : Awaits(flight, s) /\ ~(s <= Len(hub')) => Awaits(flight', s)
    PROVE  NothingStranded'
<1> SUFFICES ASSUME CaughtUp', NEW s \in 1..tail
             PROVE  OnItsWay(s)'
  BY Stranded
<1>1. OnItsWay(s) /\ s \in Nat /\ ~restored'
  BY Stranded DEF CaughtUp
<1>2. CASE s <= Len(hub)
  BY <1>1, <1>2 DEF OnItsWay
<1>3. CASE s \in unsent \/ \E k \in DOMAIN ring : ring[k] = s
  BY <1>3 DEF OnItsWay
<1>4. CASE Awaits(flight, s)
  BY <1>1, <1>4 DEF OnItsWay
<1> QED
  BY <1>1, <1>2, <1>3, <1>4 DEF OnItsWay

\* One step per action: an event leaves one of its places only for another.
LEMMA StrandedNext == RingTyped /\ HeldInv /\ NothingStranded /\ [Next]_vars => NothingStranded'
<1> SUFFICES ASSUME RingTyped, HeldInv, NothingStranded, [Next]_vars
             PROVE  NothingStranded'
  OBVIOUS
<1>0. /\ flight \in Seq(Append_) /\ hub \in Seq({"node", "hub"}) /\ Len(hub) \in Nat
      /\ mark \in Nat /\ cursor \in Nat /\ tail \in Nat /\ ring \in Seq(Nat)
      /\ (~restored => mark <= Len(hub) /\ cursor <= Len(hub) /\ AllTrue(flight, Len(hub)))
  BY DEF HeldInv, Typed, WatermarkIsHeld, RepliesAreTrue, RingTyped
<1>1. CASE AppendObservation
  <2> SUFFICES ASSUME CaughtUp', NEW s \in 1..tail'
               PROVE  OnItsWay(s)'
    BY Stranded
  <2>1. CaughtUp /\ tail' = tail + 1 /\ unsent' = unsent \cup {tail + 1} /\ UNCHANGED <<hub, ring, flight>>
    BY <1>1 DEF AppendObservation, CaughtUp, pumpVars, faultVars
  <2>2. CASE s \in 1..tail
    BY <2>1, <2>2, Stranded DEF OnItsWay
  <2>3. CASE s = tail + 1
    BY <2>1, <2>3 DEF OnItsWay
  <2> QED
    BY <1>0, <2>1, <2>2, <2>3
<1>2. ASSUME NEW b \in unsent, Broadcast(b)
      PROVE  NothingStranded'
  <2> SUFFICES ASSUME CaughtUp', NEW s \in 1..tail'
               PROVE  OnItsWay(s)'
    BY Stranded
  <2>1. pump # "none" /\ UNCHANGED <<pump, needs, restored, tail, hub, flight>> /\ unsent' = unsent \ {b}
    BY <1>2 DEF Broadcast, CaughtUp, pumpVars, faultVars
  <2>2. lagged' = (lagged \/ Len(ring) = Ring) /\ ~lagged'
    BY <1>2, <2>1 DEF Broadcast, CaughtUp
  <2>3. Len(ring) # Ring /\ ~lagged
    BY <2>2
  <2>4. ring' = Append(ring, b)
    BY <1>2, <2>1, <2>3 DEF Broadcast
  <2>5. OnItsWay(s)
    BY <2>1, <2>3, Stranded DEF CaughtUp
  <2>6. b \in Nat /\ ring'[Len(ring) + 1] = b /\ Len(ring) + 1 \in DOMAIN ring'
        /\ \A k \in DOMAIN ring : k \in DOMAIN ring' /\ ring'[k] = ring[k]
    BY <1>0, <2>4 DEF RingTyped
  <2>7. CASE s = b
    BY <2>6, <2>7 DEF OnItsWay
  <2>8. CASE s # b
    BY <2>1, <2>5, <2>6, <2>8 DEF OnItsWay
  <2> QED
    BY <2>7, <2>8
<1>3. CASE Dispatch \/ ResumeJournals
  <2>1. CASE pump = "none"
    BY <1>3, <2>1, NotCaughtUp DEF Dispatch, ResumeJournals, EnsurePump, CaughtUp
  <2>2. CASE pump # "none"
    BY <1>0, <1>3, <2>2, WindowStep
       DEF Dispatch, ResumeJournals, EnsurePump, CaughtUp, pumpVars, faultVars
  <2> QED
    BY <2>1, <2>2
<1>4. CASE FlushCaughtUp
  <2> SUFFICES ASSUME CaughtUp', NEW s \in 1..tail'
               PROVE  OnItsWay(s)'
    BY Stranded
  <2>1. cursor >= tail /\ UNCHANGED <<tail, hub, restored>> /\ ~restored
    BY <1>4 DEF FlushCaughtUp, CaughtUp, nodeVars, faultVars
  <2>2. s <= Len(hub')
    BY <1>0, <2>1
  <2> QED
    BY <2>2 DEF OnItsWay
<1>5. CASE FlushRead \/ Retry \/ LiveLagged \/ NodeRestart
  BY <1>5, NotCaughtUp DEF FlushRead, Retry, LiveLagged, NodeRestart, CaughtUp, pumpVars
<1>6. CASE LiveRecv
  <2> SUFFICES ASSUME CaughtUp', NEW s \in 1..tail'
               PROVE  OnItsWay(s)'
    BY Stranded
  <2>1. CaughtUp /\ UNCHANGED <<tail, unsent, hub, mark>> /\ ring # <<>> /\ ring' = Tail(ring)
        /\ flight' = Submit(Head(ring))
    BY <1>6 DEF LiveRecv, CaughtUp, pumpVars, faultVars, markVars
  <2>2. OnItsWay(s) /\ ~restored
    BY <2>1, Stranded DEF CaughtUp
  <2>3. Awaits(flight, s) => Awaits(flight', s)
    <3>1. CASE Head(ring) <= mark
      BY <2>1, <3>1 DEF Submit
    <3>2. CASE ~(Head(ring) <= mark)
      <4>1. flight' = Append(flight, New(Head(ring), "live"))
        BY <2>1, <3>2 DEF Submit
      <4>2. \A i \in DOMAIN flight : i \in DOMAIN flight' /\ flight'[i] = flight[i]
        BY <1>0, <4>1
      <4> QED
        BY <4>2 DEF Awaits
    <3> QED
      BY <3>1, <3>2
  <2>4. CASE \E k \in DOMAIN ring : ring[k] = s
    <3>1. PICK k \in DOMAIN ring : ring[k] = s
      BY <2>4
    <3>2. CASE k = 1
      <4>1. s = Head(ring)
        BY <1>0, <2>1, <3>1, <3>2
      <4>2. CASE s <= mark
        BY <1>0, <2>1, <2>2, <4>2 DEF OnItsWay
      <4>3. CASE ~(s <= mark)
        <5> DEFINE e == New(s, "live")
        <5>1. flight' = Append(flight, e)
          BY <2>1, <4>1, <4>3 DEF Submit
        <5>2. e.own = "live" /\ e.seq = s
          BY DEF New
        <5> HIDE DEF e
        <5>3. Len(flight) + 1 \in DOMAIN flight' /\ flight'[Len(flight) + 1] = e
          BY <1>0, <5>1
        <5> QED
          BY <5>2, <5>3 DEF OnItsWay, Awaits
      <4> QED
        BY <4>2, <4>3
    <3>3. CASE k # 1
      <4>1. k - 1 \in DOMAIN ring' /\ ring'[k - 1] = s
        BY <1>0, <2>1, <3>1, <3>3
      <4> QED
        BY <4>1 DEF OnItsWay
    <3> QED
      BY <3>2, <3>3
  <2> QED
    BY <2>1, <2>2, <2>3, <2>4 DEF OnItsWay
<1>7. ASSUME NEW i \in DOMAIN flight, FlushAck(i)
      PROVE  NothingStranded'
  BY <1>7, NotCaughtUp DEF FlushAck, CaughtUp, pumpVars
<1>8. ASSUME NEW i \in DOMAIN flight, LiveAck(i)
      PROVE  NothingStranded'
  <2>1. CASE flight[i].acked > 0
    <3> DEFINE e == [flight[i] EXCEPT !.own = "orphan"]
               g == [flight EXCEPT ![i] = e]
    <3>0. flight[i] \in Append_
      BY <1>0
    <3>1. e \in Append_ /\ flight' = Trim(g)
      BY <1>8, <2>1, <3>0 DEF LiveAck, Acknowledge, Append_
    <3> HIDE DEF e
    <3>2. UNCHANGED <<tail, unsent, ring, hub, restored, pump, needs, lagged>>
      BY <1>8, <2>1 DEF LiveAck, nodeVars, faultVars
    <3> SUFFICES ASSUME ~restored
                 PROVE  NothingStranded'
      BY <3>2, NotCaughtUp DEF CaughtUp
    <3>3. flight[i].seq <= Len(hub)
      BY <1>0, <2>1 DEF AllTrue, True
    <3>4. ASSUME NEW s \in Nat, Awaits(flight, s), ~(s <= Len(hub)) PROVE Awaits(flight', s)
      <4>1. flight[i].seq # s
        BY <3>3, <3>4
      <4>2. g \in Seq(Append_) /\ Awaits(g, s)
        BY <1>0, <3>1, <3>4, <4>1, ChangeOne, ChangeAwaits
      <4> HIDE DEF g
      <4> QED
        BY <3>1, <4>2, TrimAwaits
    <3> HIDE DEF g
    <3>5. CaughtUp' => CaughtUp
      BY <3>2 DEF CaughtUp
    <3> QED
      BY <1>0, <3>2, <3>4, <3>5, WindowStep
  <2>2. CASE ~(flight[i].acked > 0)
    BY <1>8, <2>2, NotCaughtUp DEF LiveAck, CaughtUp
  <2> QED
    BY <2>1, <2>2
<1>9. ASSUME NEW i \in DOMAIN flight, SendJob(i)
      PROVE  NothingStranded'
  <2>0. /\ UNCHANGED <<tail, unsent, ring, hub>> /\ (CaughtUp' => CaughtUp)
    BY <1>9 DEF SendJob, CaughtUp, nodeVars, pumpVars, faultVars
  <2>1. ASSUME NEW s \in Nat, Awaits(flight, s) PROVE Awaits(flight', s)
    <3>1. CASE flight[i].seq <= mark
      BY <1>0, <1>9, <2>1, <3>1, ResolveAwaits DEF SendJob
    <3>2. CASE ~(flight[i].seq <= mark)
      <4> DEFINE e == [flight[i] EXCEPT !.st = "wire"]
      <4>1. flight[i] \in Append_
        BY <1>0
      <4>2. e.own = flight[i].own /\ e.seq = flight[i].seq /\ flight' = [flight EXCEPT ![i] = e]
        BY <1>9, <3>2, <4>1 DEF SendJob, Append_
      <4> HIDE DEF e
      <4> QED
        BY <1>0, <2>1, <4>2, ChangeAwaits
    <3> QED
      BY <3>1, <3>2
  <2> QED
    BY <1>0, <2>0, <2>1, WindowStep
<1>10. ASSUME NEW i \in DOMAIN flight, HandleIncoming(i)
       PROVE  NothingStranded'
  <2> DEFINE a == IF AlreadyDurable(flight[i]) THEN flight[i].seq ELSE flight[i].acked
  <2>0. /\ UNCHANGED <<tail, unsent, ring, hub>> /\ (CaughtUp' => CaughtUp)
    BY <1>10 DEF HandleIncoming, CaughtUp, nodeVars, pumpVars, faultVars
  <2>1. flight[i] \in Append_
    BY <1>0
  <2>2. a \in Nat /\ flight' = Resolve(i, a)
    BY <1>10, <2>1 DEF HandleIncoming, Append_
  <2> HIDE DEF a
  <2> QED
    BY <1>0, <2>0, <2>2, ResolveAwaits, WindowStep
<1>11. CASE Disconnect
  <2>0. /\ UNCHANGED <<tail, unsent, ring, hub>> /\ (CaughtUp' => CaughtUp) /\ flight' = FailPending
    BY <1>11 DEF Disconnect, CaughtUp, nodeVars, pumpVars
  <2> QED
    BY <1>0, <2>0, FailPendingAwaits, WindowStep
<1>12. CASE Reconnect \/ LoseFrames \/ UNCHANGED vars
  <2>0. /\ UNCHANGED <<tail, unsent, ring, hub, flight>> /\ (CaughtUp' => CaughtUp)
    BY <1>12 DEF Reconnect, LoseFrames, CaughtUp, nodeVars, pumpVars, faultVars, vars
  <2> QED
    BY <1>0, <2>0, WindowStep
<1>13. ASSUME NEW i \in DOMAIN flight, HubAppend(i) \/ HubError(i)
       PROVE  NothingStranded'
  <2>0. /\ UNCHANGED <<tail, unsent, ring>> /\ (CaughtUp' => CaughtUp)
        /\ hub' = hub \/ hub' = AppendLoadedEvent(flight[i].seq)
    BY <1>13 DEF HubAppend, HubError, CaughtUp, nodeVars, pumpVars, faultVars
  <2>1. Len(hub') \in Nat /\ Len(hub) <= Len(hub')
    BY <1>0, <2>0, RowsGrow
  <2>2. flight[i] \in Append_
    BY <1>0
  <2>3. \E e : e.own = flight[i].own /\ e.seq = flight[i].seq /\ flight' = [flight EXCEPT ![i] = e]
    <3>1. CASE HubAppend(i)
      <4> DEFINE rows == AppendLoadedEvent(flight[i].seq)
                 e == [flight[i] EXCEPT !.st = "reply",
                         !.acked = IF flight[i].seq <= Len(rows) THEN Len(rows) ELSE 0,
                         !.gap = IF flight[i].seq <= Len(rows) THEN 0 ELSE Len(hub) + 1]
      <4>1. flight' = [flight EXCEPT ![i] = e]
        BY <3>1 DEF HubAppend
      <4> HIDE DEF rows
      <4>2. e.own = flight[i].own /\ e.seq = flight[i].seq
        BY <2>2 DEF Append_
      <4> HIDE DEF e
      <4> QED
        BY <4>1, <4>2
    <3>2. CASE HubError(i)
      <4> DEFINE e == [flight[i] EXCEPT !.st = "reply"]
      <4>1. flight' = [flight EXCEPT ![i] = e]
        BY <3>2 DEF HubError
      <4>2. e.own = flight[i].own /\ e.seq = flight[i].seq
        BY <2>2 DEF Append_
      <4> HIDE DEF e
      <4> QED
        BY <4>1, <4>2
    <3> QED
      BY <1>13, <3>1, <3>2
  <2>4. \A s \in Nat : Awaits(flight, s) => Awaits(flight', s)
    BY <1>0, <2>3, ChangeAwaits
  <2> QED
    BY <1>0, <2>0, <2>1, <2>4, WindowStep
<1>14. CASE HubAppendLate \/ AppendHubEvent
  <2>0. /\ UNCHANGED <<tail, unsent, ring, flight>> /\ (CaughtUp' => CaughtUp)
        /\ hub' = Append(hub, "hub") \/ hub' = AppendLoadedEvent(Head(ghost))
    BY <1>14 DEF HubAppendLate, AppendHubEvent, CaughtUp, nodeVars, pumpVars, faultVars
  <2>1. Len(hub') \in Nat /\ Len(hub) <= Len(hub')
    BY <1>0, <2>0, RowsGrow
  <2> QED
    BY <1>0, <2>0, <2>1, WindowStep
<1>15. ASSUME NEW n \in 0..MaxSeq, HubRestore(n)
       PROVE  NothingStranded'
  BY <1>15, NotCaughtUp DEF HubRestore, CaughtUp
<1> QED
  BY <1>1, <1>2, <1>3, <1>4, <1>5, <1>6, <1>7, <1>8, <1>9, <1>10, <1>11, <1>12, <1>13, <1>14,
     <1>15 DEF Next, BroadcastStep, PumpStep, SessionStep, HubStep, Fault

\* A pump that believes it is caught up has lost no event between the journal, the
\* broadcast ring and its window, in whatever order broadcasts, replies, timeouts and
\* reconnects come (pump_live, flush_journal, submit_forward, ensure_pump).
THEOREM PumpStrandsNothing == Spec => []NothingStranded
<1>1. Init => NothingStranded
  BY DEF Init, NothingStranded
<1> QED
  BY <1>1, HeldFromStart, RingTypedNext, HeldInvNext, StrandedNext, PTL DEF Spec

----------------------------------------------------------------------------
\* TypeOK, and what the Hub holds when it journals no rows of its own.
\*
\* The types bound every sequence number by what was journalled: an event on its way,
\* in the channel, on the wire or in the buffer of a dead socket is one of the journal,
\* so a row of the Node never lies beyond it, and only a row of the Hub's own does.

Sized(e, n) == e.seq \in 1..n /\ e.acked <= MaxSeq /\ e.gap <= MaxSeq + 1

AllSized(f, n) == \A i \in DOMAIN f : Sized(f[i], n)

RingSized == tail <= MaxEvents /\ unsent \subseteq 1..tail /\ \A k \in DOMAIN ring : ring[k] \in 1..tail
FlightSized == AllSized(flight, tail) /\ mark <= MaxSeq /\ cursor <= MaxSeq
GhostSized == ghost \in Seq(Nat) /\ \A k \in DOMAIN ghost : ghost[k] \in 1..tail
HubSized == faults \in 0..MaxFaults /\ Len(hub) <= MaxEvents + faults
StatesTyped ==
    /\ lagged \in BOOLEAN /\ pump \in {"none", "flush", "live"} /\ needs \in BOOLEAN
    /\ resume \in BOOLEAN /\ conn \in {"up", "down"} /\ restored \in BOOLEAN

SizeInv ==
    /\ RingTyped /\ HeldInv
    /\ StatesTyped /\ RingSized /\ FlightSized /\ GhostSized /\ HubSized

\* A sequence with all its values in a set is a sequence over that set.
LEMMA SeqOver ==
    ASSUME NEW S, NEW T, NEW f \in Seq(S), \A i \in DOMAIN f : f[i] \in T
    PROVE  f \in Seq(T)
<1>1. f \in [1..Len(f) -> T] /\ Len(f) \in Nat
  OBVIOUS
<1> QED
  BY <1>1

\* The invariant implies the types.
LEMMA SizeIsType == SizeInv => TypeOK
<1> SUFFICES ASSUME SizeInv
             PROVE  TypeOK
  OBVIOUS
<1>0. /\ tail \in Nat /\ tail <= MaxEvents /\ MaxEvents \in Nat /\ MaxSeq \in Nat
      /\ ring \in Seq(Nat) /\ ghost \in Seq(Nat) /\ flight \in Seq(Append_)
  BY DEF SizeInv, RingTyped, RingSized, GhostSized, HeldInv, Typed, MaxSeq
<1>1. ring \in Seq(1..MaxEvents)
  <2>1. \A i \in DOMAIN ring : ring[i] \in 1..MaxEvents
    BY <1>0 DEF SizeInv, RingSized
  <2> QED
    BY <1>0, <2>1, SeqOver
<1>2. ghost \in Seq(1..MaxEvents)
  <2>1. \A i \in DOMAIN ghost : ghost[i] \in 1..MaxEvents
    BY <1>0 DEF SizeInv, GhostSized
  <2> QED
    BY <1>0, <2>1, SeqOver
<1>3. flight \in Seq(Flight)
  <2>1. ASSUME NEW i \in DOMAIN flight PROVE flight[i] \in Flight
    <3>1. flight[i] \in Append_
      BY <1>0
    <3>2. Sized(flight[i], tail)
      BY DEF SizeInv, FlightSized, AllSized
    <3> QED
      BY <1>0, <3>1, <3>2 DEF Append_, Flight, Sized
  <2> QED
    BY <1>0, <2>1, SeqOver
<1>4. mark \in 0..MaxSeq /\ cursor \in 0..MaxSeq /\ hub \in Seq({"node", "hub"})
  BY <1>0 DEF SizeInv, FlightSized, HeldInv, Typed
<1>5. tail \in 0..MaxEvents /\ unsent \subseteq 1..MaxEvents
  BY <1>0 DEF SizeInv, RingSized
<1> QED
  BY <1>1, <1>2, <1>3, <1>4, <1>5 DEF TypeOK, SizeInv, StatesTyped, HubSized

LEMMA SizeFromStart == Init => SizeInv
<1> SUFFICES ASSUME Init
             PROVE  SizeInv
  OBVIOUS
<1>1. /\ tail = 0 /\ unsent = {} /\ ring = <<>> /\ flight = <<>> /\ ghost = <<>> /\ hub = <<>>
      /\ mark = 0 /\ cursor = 0 /\ faults = 0 /\ Len(hub) = 0
  BY DEF Init
<1>2. RingSized /\ FlightSized
  BY <1>1 DEF RingSized, FlightSized, AllSized, MaxSeq
<1>3. GhostSized /\ HubSized
  BY <1>1 DEF GhostSized, HubSized
<1>4. StatesTyped
  BY DEF Init, StatesTyped
<1> QED
  BY <1>2, <1>3, <1>4, HeldFromStart DEF SizeInv

\* The states of the actors.
LEMMA StatesNext == StatesTyped /\ [Next]_vars => StatesTyped'
<1> SUFFICES ASSUME StatesTyped, [Next]_vars
             PROVE  StatesTyped'
  OBVIOUS
<1>1. CASE AppendObservation \/ BroadcastStep \/ Dispatch \/ ResumeJournals
  <2>1. UNCHANGED <<conn, restored>> /\ (needs' = needs)
    BY <1>1 DEF AppendObservation, BroadcastStep, Broadcast, Dispatch, ResumeJournals, EnsurePump,
       pumpVars, faultVars
  <2>2. pump' = pump \/ pump' = "flush"
    BY <1>1 DEF AppendObservation, BroadcastStep, Broadcast, Dispatch, ResumeJournals, EnsurePump,
       pumpVars
  <2>3. resume' = resume \/ resume' = FALSE
    BY <1>1 DEF AppendObservation, BroadcastStep, Broadcast, Dispatch, ResumeJournals
  <2>4. lagged' \in BOOLEAN
    BY <1>1 DEF AppendObservation, BroadcastStep, Broadcast, Dispatch, ResumeJournals, EnsurePump,
       StatesTyped
  <2> QED
    BY <2>1, <2>2, <2>3, <2>4 DEF StatesTyped
<1>2. CASE PumpStep
  <2>1. UNCHANGED <<resume, conn, restored>> /\ (lagged' = lagged \/ lagged' = FALSE)
    BY <1>2 DEF PumpStep, FlushCaughtUp, FlushRead, LiveRecv, LiveLagged, Retry, FlushAck, LiveAck,
       nodeVars, faultVars
  <2>2. /\ needs' = needs \/ needs' = FALSE \/ needs' = TRUE
        /\ pump' = pump \/ pump' = "live" \/ pump' = "flush"
    BY <1>2 DEF PumpStep, FlushCaughtUp, FlushRead, LiveRecv, LiveLagged, Retry, FlushAck, LiveAck,
       pumpVars
  <2> QED
    BY <2>1, <2>2 DEF StatesTyped
<1>3. CASE SessionStep \/ HubStep \/ HubAppendLate \/ LoseFrames \/ UNCHANGED vars
  <2>1. UNCHANGED <<lagged, pump, needs, resume, conn, restored>>
    BY <1>3 DEF SessionStep, SendJob, HandleIncoming, HubStep, HubAppend, HubAppendLate, LoseFrames,
       vars, nodeVars, pumpVars, faultVars
  <2> QED
    BY <2>1 DEF StatesTyped
<1>4. CASE Reconnect
  BY <1>4 DEF Reconnect, StatesTyped, nodeVars, pumpVars, faultVars
<1>5. CASE Fault
  <2>1. CASE NodeRestart
    BY <2>1 DEF NodeRestart, StatesTyped
  <2>2. CASE ~NodeRestart
    <3>1. /\ UNCHANGED <<lagged, pump, needs, resume>>
          /\ conn' = conn \/ conn' = "down"
          /\ restored' = restored \/ restored' = TRUE
      BY <1>5, <2>2 DEF Fault, Disconnect, AppendHubEvent, HubError, HubRestore, nodeVars, pumpVars
    <3> QED
      BY <3>1 DEF StatesTyped
  <2> QED
    BY <2>1, <2>2
<1> QED
  BY <1>1, <1>2, <1>3, <1>4, <1>5 DEF Next

\* What is broadcast was journalled.
LEMMA RingSizedNext == RingTyped /\ RingSized /\ [Next]_vars => RingSized' /\ tail <= tail' /\ tail' \in Nat
<1> SUFFICES ASSUME RingTyped, RingSized, [Next]_vars
             PROVE  RingSized' /\ tail <= tail' /\ tail' \in Nat
  OBVIOUS
<1> USE DEF RingTyped, RingSized
<1>1. CASE AppendObservation
  BY <1>1 DEF AppendObservation
<1>2. ASSUME NEW s \in unsent, Broadcast(s)
      PROVE  RingSized' /\ tail <= tail' /\ tail' \in Nat
  <2>1. s \in 1..tail /\ tail' = tail /\ unsent' \subseteq 1..tail
    BY <1>2 DEF Broadcast
  <2>2. CASE pump = "none"
    BY <1>2, <2>1, <2>2 DEF Broadcast
  <2>3. CASE pump # "none"
    <3> DEFINE r == IF Len(ring) = Ring THEN Tail(ring) ELSE ring
    <3>1. r \in Seq(Nat) /\ \A k \in DOMAIN r : r[k] \in 1..tail
      <4>1. CASE Len(ring) = Ring
        BY <4>1 DEF JournalAssumption
      <4>2. CASE Len(ring) # Ring
        BY <4>2
      <4> QED
        BY <4>1, <4>2
    <3>2. ring' = Append(r, s)
      BY <1>2, <2>3 DEF Broadcast
    <3> HIDE DEF r
    <3>3. \A k \in DOMAIN ring' : ring'[k] \in 1..tail
      BY <2>1, <3>1, <3>2
    <3> QED
      BY <2>1, <3>3
  <2> QED
    BY <2>2, <2>3
<1>3. CASE Dispatch \/ ResumeJournals
  <2>1. UNCHANGED <<tail, unsent>> /\ (ring' = <<>> \/ ring' = ring)
    BY <1>3 DEF Dispatch, ResumeJournals, EnsurePump
  <2>2. \A k \in DOMAIN ring' : ring'[k] \in 1..tail
    <3>1. CASE ring' = <<>>
      BY <3>1
    <3>2. CASE ring' = ring
      BY <3>2
    <3> QED
      BY <2>1, <3>1, <3>2
  <2> QED
    BY <2>1, <2>2
<1>4. CASE LiveRecv
  <2>1. UNCHANGED <<tail, unsent>> /\ ring # <<>> /\ ring' = Tail(ring)
    BY <1>4 DEF LiveRecv
  <2> QED
    BY <2>1
<1>5. CASE NodeRestart
  <2>1. UNCHANGED tail /\ unsent' = {} /\ ring' = <<>>
    BY <1>5 DEF NodeRestart
  <2> QED
    BY <2>1
<1>6. CASE UNCHANGED <<tail, unsent, ring>>
  BY <1>6
<1> HIDE DEF RingTyped, RingSized
<1> QED
  BY <1>1, <1>2, <1>3, <1>4, <1>5, <1>6
     DEF Next, BroadcastStep, PumpStep, SessionStep, HubStep, Fault, FlushCaughtUp, FlushRead,
         FlushAck, LiveAck, LiveLagged, Retry, SendJob, HandleIncoming, HubAppend, HubError,
         Disconnect, Reconnect, HubAppendLate, LoseFrames, AppendHubEvent, HubRestore, vars, nodeVars

\* Trimming, and changing one append to a sized one, keep appends sized.
LEMMA TrimSized ==
    ASSUME NEW f \in Seq(Append_), NEW n \in Nat, AllSized(f, n)
    PROVE  AllSized(Trim(f), n)
BY TrimFacts DEF AllSized

LEMMA ChangeSized ==
    ASSUME NEW f \in Seq(Append_), NEW i \in DOMAIN f, NEW e \in Append_, NEW n \in Nat,
           AllSized(f, n), Sized(e, n)
    PROVE  [f EXCEPT ![i] = e] \in Seq(Append_) /\ AllSized([f EXCEPT ![i] = e], n)
BY DEF AllSized

\* A longer journal keeps appends sized.
LEMMA GrowSized ==
    ASSUME NEW f \in Seq(Append_), NEW n \in Nat, NEW m \in Nat, n <= m, AllSized(f, n)
    PROVE  AllSized(f, m)
BY DEF AllSized, Sized

LEMMA AbandonSized ==
    ASSUME flight \in Seq(Append_), NEW w, NEW n \in Nat, AllSized(flight, n)
    PROVE  AllSized(Abandon(w), n)
<1> DEFINE g == [i \in DOMAIN flight |->
                   IF flight[i].own = w THEN [flight[i] EXCEPT !.own = "orphan"] ELSE flight[i]]
<1>1. \A i \in DOMAIN flight : g[i] \in Append_ /\ Sized(g[i], n)
  <2> SUFFICES ASSUME NEW i \in DOMAIN flight
               PROVE  g[i] \in Append_ /\ Sized(g[i], n)
    OBVIOUS
  <2>1. flight[i] \in Append_ /\ Sized(flight[i], n)
    BY DEF AllSized
  <2> QED
    BY <2>1 DEF Append_, Sized
<1>2. DOMAIN g = DOMAIN flight /\ g = [i \in DOMAIN flight |-> g[i]] /\ Abandon(w) = Trim(g)
  BY DEF Abandon
<1> HIDE DEF g
<1>3. g \in Seq(Append_) /\ AllSized(g, n)
  BY <1>1, <1>2, MappedAppends DEF AllSized
<1> QED
  BY <1>2, <1>3, TrimSized

LEMMA FailPendingSized ==
    ASSUME flight \in Seq(Append_), NEW n \in Nat, AllSized(flight, n)
    PROVE  AllSized(FailPending, n)
<1> DEFINE g == [i \in DOMAIN flight |->
                   IF flight[i].st \in {"wire", "reply"}
                     THEN [flight[i] EXCEPT !.st = "done", !.acked = 0, !.gap = 0] ELSE flight[i]]
<1>0. MaxSeq \in Nat
  BY DEF MaxSeq
<1>1. \A i \in DOMAIN flight : g[i] \in Append_ /\ Sized(g[i], n)
  <2> SUFFICES ASSUME NEW i \in DOMAIN flight
               PROVE  g[i] \in Append_ /\ Sized(g[i], n)
    OBVIOUS
  <2>1. flight[i] \in Append_ /\ Sized(flight[i], n)
    BY DEF AllSized
  <2>2. CASE flight[i].st \in {"wire", "reply"}
    <3> DEFINE e == [flight[i] EXCEPT !.st = "done", !.acked = 0, !.gap = 0]
    <3>1. e \in Append_ /\ e.seq = flight[i].seq /\ e.acked = 0 /\ e.gap = 0 /\ g[i] = e
      BY <2>1, <2>2 DEF Append_
    <3> HIDE DEF e, g
    <3> QED
      BY <1>0, <2>1, <3>1 DEF Sized
  <2>3. CASE flight[i].st \notin {"wire", "reply"}
    BY <2>1, <2>3
  <2> QED
    BY <2>2, <2>3
<1>2. DOMAIN g = DOMAIN flight /\ g = [i \in DOMAIN flight |-> g[i]] /\ FailPending = Trim(g)
  BY DEF FailPending
<1> HIDE DEF g
<1>3. g \in Seq(Append_) /\ AllSized(g, n)
  BY <1>1, <1>2, MappedAppends DEF AllSized
<1> QED
  BY <1>2, <1>3, TrimSized

LEMMA ResolveSized ==
    ASSUME flight \in Seq(Append_), NEW i \in DOMAIN flight, NEW a \in Nat, a <= MaxSeq,
           NEW n \in Nat, AllSized(flight, n)
    PROVE  AllSized(Resolve(i, a), n)
<1> DEFINE e == [flight[i] EXCEPT !.st = "done", !.acked = a, !.gap = 0]
           g == [flight EXCEPT ![i] = e]
<1>0. MaxSeq \in Nat /\ flight[i] \in Append_ /\ Sized(flight[i], n)
  BY DEF MaxSeq, AllSized
<1>1. e \in Append_ /\ e.seq = flight[i].seq /\ e.acked = a /\ e.gap = 0
  BY <1>0 DEF Append_
<1>2. Resolve(i, a) = Trim(g)
  BY DEF Resolve
<1> HIDE DEF e
<1>3. Sized(e, n)
  BY <1>0, <1>1 DEF Sized
<1>4. g \in Seq(Append_) /\ AllSized(g, n)
  BY <1>1, <1>3, ChangeSized
<1> HIDE DEF g
<1> QED
  BY <1>2, <1>4, TrimSized

\* Events that are submitted were journalled, and nobody is told of rows beyond MaxSeq.
LEMMA FlightSizedNext == SizeInv /\ [Next]_vars => FlightSized'
<1> SUFFICES ASSUME SizeInv, [Next]_vars
             PROVE  FlightSized'
  OBVIOUS
<1>0. /\ flight \in Seq(Append_) /\ Len(hub) \in Nat /\ Len(hub) <= MaxSeq /\ MaxSeq \in Nat
      /\ mark \in Nat /\ cursor \in Nat /\ tail \in Nat /\ tail <= MaxSeq
      /\ AllSized(flight, tail) /\ mark <= MaxSeq /\ cursor <= MaxSeq
      /\ tail' \in Nat /\ tail <= tail'
  <2>1. tail \in Nat /\ tail <= MaxEvents /\ faults \in 0..MaxFaults /\ Len(hub) <= MaxEvents + faults
        /\ Len(hub) \in Nat
    BY DEF SizeInv, RingTyped, RingSized, HubSized, HeldInv, Typed
  <2>2. tail' \in Nat /\ tail <= tail'
    BY RingSizedNext DEF SizeInv
  <2> QED
    BY <2>1, <2>2 DEF SizeInv, FlightSized, HeldInv, Typed, MaxSeq
<1>1. ASSUME AllSized(flight', tail'), mark' <= MaxSeq, cursor' <= MaxSeq
      PROVE  FlightSized'
  BY <1>1 DEF FlightSized
<1>2. CASE UNCHANGED <<flight, mark, cursor>>
  BY <1>0, <1>1, <1>2, GrowSized
<1>3. CASE FlushRead
  <2> DEFINE k == FlushLast - FlushFirst + 1
             more == [j \in 1..k |-> New(FlushFirst + j - 1, "flush")]
  <2>1. FlushFirst \in Nat /\ FlushFirst >= 1 /\ FlushLast \in Int /\ FlushLast <= tail /\ k \in Nat
    BY <1>0, <1>3 DEF FlushRead, FlushFirst, FlushLast, Larger, Smaller
  <2>2. \A j \in 1..k : more[j] \in Append_ /\ Sized(more[j], tail)
    BY <1>0, <2>1 DEF New, Append_, Sized
  <2>3. flight' = flight \o more /\ UNCHANGED <<tail, mark, cursor>>
    BY <1>3 DEF FlushRead, markVars, nodeVars
  <2>4. more = [j \in 1..k |-> more[j]]
    OBVIOUS
  <2> HIDE DEF more, k
  <2>5. more \in Seq(Append_) /\ Len(more) = k
    BY <2>1, <2>2, <2>4
  <2>6. AllSized(flight', tail)
    <3> SUFFICES ASSUME NEW i \in DOMAIN flight'
                 PROVE  Sized(flight'[i], tail)
      BY DEF AllSized
    <3>1. CASE i \in DOMAIN flight
      BY <1>0, <2>3, <2>5, <3>1 DEF AllSized
    <3>2. CASE i \notin DOMAIN flight
      <4>1. i - Len(flight) \in 1..k /\ flight'[i] = more[i - Len(flight)]
        BY <1>0, <2>1, <2>3, <2>5, <3>2
      <4> QED
        BY <2>2, <4>1
    <3> QED
      BY <3>1, <3>2
  <2> QED
    BY <1>0, <1>1, <2>3, <2>6
<1>4. CASE LiveRecv
  <2>0. UNCHANGED <<tail, mark, cursor>> /\ flight' = Submit(Head(ring))
    BY <1>4 DEF LiveRecv, markVars
  <2>1. CASE Head(ring) <= mark
    BY <1>0, <1>1, <2>0, <2>1 DEF Submit
  <2>2. CASE ~(Head(ring) <= mark)
    <3> DEFINE e == New(Head(ring), "live")
    <3>1. Head(ring) \in 1..tail
      BY <1>4 DEF LiveRecv, SizeInv, RingTyped, RingSized
    <3>2. e \in Append_ /\ Sized(e, tail)
      BY <1>0, <3>1 DEF New, Append_, Sized
    <3>3. flight' = Append(flight, e)
      BY <2>0, <2>2 DEF Submit
    <3> HIDE DEF e
    <3>4. AllSized(flight', tail)
      BY <1>0, <3>2, <3>3 DEF AllSized
    <3> QED
      BY <1>0, <1>1, <2>0, <3>4
  <2> QED
    BY <2>1, <2>2
<1>5. ASSUME NEW i \in DOMAIN flight, FlushAck(i) \/ LiveAck(i)
      PROVE  FlightSized'
  <2>0. tail' = tail /\ flight[i] \in Append_ /\ Sized(flight[i], tail)
    BY <1>0, <1>5 DEF FlushAck, LiveAck, nodeVars, AllSized
  <2>1. CASE flight[i].acked > 0
    <3> DEFINE e == [flight[i] EXCEPT !.own = "orphan"]
               g == [flight EXCEPT ![i] = e]
               s == Larger(flight[i].acked, flight[i].seq)
    <3>1. Acknowledge(i)
      BY <1>5, <2>1 DEF FlushAck, LiveAck
    <3>2. flight' = Trim(g) /\ mark' = Larger(mark, s) /\ cursor' = Larger(cursor, s)
      BY <3>1 DEF Acknowledge, RecordWatermark, RecordCursor
    <3>3. s <= MaxSeq /\ s \in Nat
      BY <1>0, <2>0 DEF Larger, Append_, Sized
    <3>4. e \in Append_ /\ Sized(e, tail)
      BY <2>0 DEF Append_, Sized
    <3> HIDE DEF e, s
    <3>5. mark' <= MaxSeq /\ cursor' <= MaxSeq
      BY <1>0, <3>2, <3>3 DEF Larger
    <3>6. g \in Seq(Append_) /\ AllSized(g, tail)
      BY <1>0, <3>4, ChangeSized
    <3> HIDE DEF g
    <3> QED
      BY <1>0, <1>1, <2>0, <3>2, <3>5, <3>6, TrimSized
  <2>2. CASE ~(flight[i].acked > 0)
    <3>1. UNCHANGED <<mark, cursor>> /\ (flight' = Abandon("flush") \/ flight' = Abandon("live"))
      BY <1>5, <2>2 DEF FlushAck, LiveAck, markVars
    <3> QED
      BY <1>0, <1>1, <2>0, <3>1, AbandonSized
  <2> QED
    BY <2>1, <2>2
<1>6. ASSUME NEW i \in DOMAIN flight, SendJob(i)
      PROVE  FlightSized'
  <2>0. UNCHANGED <<tail, mark, cursor>> /\ flight[i] \in Append_ /\ Sized(flight[i], tail)
    BY <1>0, <1>6 DEF SendJob, nodeVars, markVars, AllSized
  <2>1. CASE flight[i].seq <= mark
    BY <1>0, <1>1, <1>6, <2>0, <2>1, ResolveSized DEF SendJob
  <2>2. CASE ~(flight[i].seq <= mark)
    <3> DEFINE e == [flight[i] EXCEPT !.st = "wire"]
    <3>1. e \in Append_ /\ Sized(e, tail) /\ flight' = [flight EXCEPT ![i] = e]
      BY <1>6, <2>0, <2>2 DEF SendJob, Append_, Sized
    <3> HIDE DEF e
    <3> QED
      BY <1>0, <1>1, <2>0, <3>1, ChangeSized
  <2> QED
    BY <2>1, <2>2
<1>7. ASSUME NEW i \in DOMAIN flight, HandleIncoming(i)
      PROVE  FlightSized'
  <2> DEFINE a == IF AlreadyDurable(flight[i]) THEN flight[i].seq ELSE flight[i].acked
  <2>0. UNCHANGED <<tail, cursor>> /\ flight[i] \in Append_ /\ Sized(flight[i], tail)
    BY <1>0, <1>7 DEF HandleIncoming, nodeVars, AllSized
  <2>1. a \in Nat /\ a <= MaxSeq
    BY <1>0, <2>0 DEF Append_, Sized
  <2>2. mark' = Larger(mark, a) /\ flight' = Resolve(i, a)
    BY <1>7 DEF HandleIncoming, RecordWatermark
  <2> HIDE DEF a
  <2> QED
    BY <1>0, <1>1, <2>0, <2>1, <2>2, ResolveSized DEF Larger
<1>8. CASE Disconnect
  <2>1. flight' = FailPending /\ UNCHANGED <<tail, mark, cursor>>
    BY <1>8 DEF Disconnect, nodeVars, markVars
  <2> QED
    BY <1>0, <1>1, <2>1, FailPendingSized
<1>9. CASE Reconnect \/ ResumeJournals
  <2>1. UNCHANGED <<tail, flight>> /\ mark' <= MaxSeq /\ cursor' <= MaxSeq
    BY <1>0, <1>9 DEF Reconnect, ResumeJournals, nodeVars
  <2> QED
    BY <1>0, <1>1, <2>1
<1>10. CASE NodeRestart
  <2>1. flight' = <<>> /\ mark' = 0 /\ cursor' = 0
    BY <1>10 DEF NodeRestart
  <2>2. AllSized(flight', tail')
    BY <2>1 DEF AllSized
  <2> QED
    BY <1>0, <1>1, <2>1, <2>2
<1>11. ASSUME NEW i \in DOMAIN flight, HubAppend(i)
       PROVE  FlightSized'
  <2> DEFINE rows == AppendLoadedEvent(flight[i].seq)
             a == IF flight[i].seq <= Len(rows) THEN Len(rows) ELSE 0
             h == IF flight[i].seq <= Len(rows) THEN 0 ELSE Len(hub) + 1
             e == [flight[i] EXCEPT !.st = "reply", !.acked = a, !.gap = h]
  <2>0. UNCHANGED <<tail, mark, cursor>> /\ flight[i] \in Append_ /\ Sized(flight[i], tail)
    BY <1>0, <1>11 DEF HubAppend, nodeVars, markVars, AllSized
  <2>1. flight' = [flight EXCEPT ![i] = e]
    BY <1>11 DEF HubAppend
  <2>2. Len(rows) \in Nat /\ Len(rows) <= MaxSeq
    <3>1. hub \in Seq({"node", "hub"})
      BY DEF SizeInv, HeldInv, Typed
    <3>2. CASE flight[i].seq = Len(hub) + 1
      <4>1. Len(rows) = flight[i].seq
        BY <3>1, <3>2 DEF AppendLoadedEvent
      <4> QED
        BY <1>0, <2>0, <4>1 DEF Sized
    <3>3. CASE flight[i].seq # Len(hub) + 1
      BY <1>0, <3>3 DEF AppendLoadedEvent
    <3> QED
      BY <3>2, <3>3
  <2> HIDE DEF rows
  <2>3. a \in Nat /\ h \in Nat /\ a <= MaxSeq /\ h <= MaxSeq + 1
    BY <1>0, <2>2
  <2> HIDE DEF a, h
  <2>4. e \in Append_ /\ Sized(e, tail)
    BY <2>0, <2>3 DEF Append_, Sized
  <2> HIDE DEF e
  <2> QED
    BY <1>0, <1>1, <2>0, <2>1, <2>4, ChangeSized
<1>12. ASSUME NEW i \in DOMAIN flight, HubError(i)
       PROVE  FlightSized'
  <2> DEFINE e == [flight[i] EXCEPT !.st = "reply"]
  <2>0. UNCHANGED <<tail, mark, cursor>> /\ flight[i] \in Append_ /\ Sized(flight[i], tail)
    BY <1>0, <1>12 DEF HubError, nodeVars, markVars, AllSized
  <2>1. e \in Append_ /\ Sized(e, tail) /\ flight' = [flight EXCEPT ![i] = e]
    BY <1>12, <2>0 DEF HubError, Append_, Sized
  <2> HIDE DEF e
  <2> QED
    BY <1>0, <1>1, <2>0, <2>1, ChangeSized
<1> QED
  BY <1>2, <1>3, <1>4, <1>5, <1>6, <1>7, <1>8, <1>9, <1>10, <1>11, <1>12
     DEF Next, BroadcastStep, PumpStep, SessionStep, HubStep, Fault, AppendObservation, Broadcast,
         Dispatch, FlushCaughtUp, LiveLagged, Retry, HubAppendLate, LoseFrames, AppendHubEvent,
         HubRestore, vars, markVars

\* The positions on the wire up to i.
WireUpto(i) == {j \in OnWire : j <= i}

\* The k-th append on the wire is one.
LEMMA WireAtFacts ==
    ASSUME flight \in Seq(Append_)
    PROVE  Cardinality(OnWire) \in Nat /\ \A k \in 1..Cardinality(OnWire) : WireAt(k) \in DOMAIN flight
<1>1. PICK n \in Nat : n = Len(flight) /\ DOMAIN flight = 1..n
  OBVIOUS
<1>2. OnWire \subseteq 1..n
  BY <1>1 DEF OnWire
<1> DEFINE c == Cardinality(OnWire)
           R(i) == Cardinality(WireUpto(i))
<1>3. IsFiniteSet(OnWire) /\ c \in Nat
  <2>1. IsFiniteSet(1..n)
    BY FS_Interval
  <2> QED
    BY <1>2, <2>1, FS_Subset, FS_CardinalityType
<1>4. \A i \in 0..n : IsFiniteSet(WireUpto(i)) /\ R(i) \in Nat
  <2> TAKE i \in 0..n
  <2>1. WireUpto(i) \in SUBSET OnWire
    BY DEF WireUpto
  <2>2. IsFiniteSet(WireUpto(i))
    BY <1>3, <2>1, FS_Subset
  <2> QED
    BY <2>2, FS_CardinalityType
<1>5. R(n) = c /\ R(0) = 0
  <2>1. \A j \in OnWire : j \in 1..n
    BY <1>2
  <2>2. \A j : (j \in WireUpto(n) <=> j \in OnWire) /\ j \notin WireUpto(0)
    BY <2>1 DEF WireUpto
  <2>3. WireUpto(n) = OnWire /\ WireUpto(0) = {}
    BY <2>2
  <2> QED
    BY <2>3, FS_EmptySet
<1>6. \A i \in 1..n : /\ i \notin OnWire => R(i) = R(i - 1)
                      /\ i \in OnWire => R(i) = R(i - 1) + 1
  <2> TAKE i \in 1..n
  <2>0. i - 1 \in 0..n /\ \A j \in OnWire : j \in 1..n
    BY <1>2
  <2>1. ASSUME i \notin OnWire PROVE R(i) = R(i - 1)
    <3>1. \A j : j \in WireUpto(i) <=> j \in WireUpto(i - 1)
      BY <2>0, <2>1 DEF WireUpto
    <3>2. WireUpto(i) = WireUpto(i - 1)
      BY <3>1
    <3> QED
      BY <3>2
  <2>2. ASSUME i \in OnWire PROVE R(i) = R(i - 1) + 1
    <3>1. \A j \in 1..n : j <= i <=> (j <= i - 1 \/ j = i)
      OBVIOUS
    <3>2. WireUpto(i) = WireUpto(i - 1) \cup {i}
      BY <2>0, <2>2, <3>1, Zenon DEF WireUpto
    <3>3. i \notin WireUpto(i - 1)
      BY DEF WireUpto
    <3>4. IsFiniteSet(WireUpto(i - 1))
      BY <1>4, <2>0
    <3> QED
      BY <3>2, <3>3, <3>4, FS_AddElement
  <2> QED
    BY <2>1, <2>2
<1>7. \A k : \A i \in OnWire : R(i) = k => WireAt(k) \in OnWire
  BY DEF WireAt, WireUpto
<1> HIDE DEF c, R
<1>8. ASSUME NEW k \in 1..c PROVE \E i \in OnWire : R(i) = k
  <2> DEFINE S == {i \in 0..n : R(i) >= k}
  <2>1. n \in S /\ S \in SUBSET Nat
    BY <1>3, <1>5
  <2>2. PICK m \in S : \A i \in S : m <= i
    BY <2>1, LeastNumber
  <2>3. m \in 0..n /\ R(m) >= k
    BY <2>2
  <2>4. m # 0
    BY <1>3, <1>5, <2>3
  <2>5. m \in 1..n /\ m - 1 \in 0..n
    BY <2>3, <2>4
  <2>6. ~(m - 1 \in S)
    BY <2>2, <2>5
  <2>7. ~(R(m - 1) >= k)
    BY <2>5, <2>6
  <2>8. R(m) \in Nat /\ R(m - 1) \in Nat /\ k \in Nat
    BY <1>3, <1>4, <2>3, <2>5
  <2>9. m \in OnWire
    BY <1>6, <2>3, <2>5, <2>7
  <2>10. R(m) = R(m - 1) + 1
    BY <1>6, <2>5, <2>9
  <2>11. R(m) = k
    BY <2>3, <2>7, <2>8, <2>10
  <2> QED
    BY <2>9, <2>11
<1>9. \A k \in 1..c : WireAt(k) \in DOMAIN flight
  BY <1>1, <1>2, <1>7, <1>8
<1> QED
  BY <1>3, <1>9 DEF c

\* What a dead socket leaves in its buffer was journalled.
LEMMA UnreadSized ==
    ASSUME flight \in Seq(Append_), AllSized(flight, tail), GhostSized
    PROVE  Unread \in Seq(Nat) /\ \A k \in DOMAIN Unread : Unread[k] \in 1..tail
<1> DEFINE c == Cardinality(OnWire)
           more == [k \in 1..c |-> flight[WireAt(k)].seq]
<1>1. c \in Nat /\ \A k \in 1..c : WireAt(k) \in DOMAIN flight
  BY WireAtFacts
<1>2. \A k \in 1..c : more[k] \in Nat /\ more[k] \in 1..tail
  <2> TAKE k \in 1..c
  <2>1. flight[WireAt(k)] \in Append_ /\ Sized(flight[WireAt(k)], tail)
    BY <1>1 DEF AllSized
  <2> QED
    BY <2>1 DEF Append_, Sized
<1>3. Unread = ghost \o more /\ more = [k \in 1..c |-> more[k]]
  BY DEF Unread
<1>4. ghost \in Seq(Nat) /\ \A k \in DOMAIN ghost : ghost[k] \in 1..tail
  BY DEF GhostSized
<1> HIDE DEF more, c
<1>5. more \in Seq(Nat) /\ Len(more) = c
  <2>1. more \in [1..c -> Nat]
    BY <1>2, <1>3
  <2> QED
    BY <1>1, <2>1
<1>6. Unread \in Seq(Nat)
  BY <1>3, <1>4, <1>5
<1>7. ASSUME NEW k \in DOMAIN Unread PROVE Unread[k] \in 1..tail
  <2>1. CASE k \in DOMAIN ghost
    BY <1>3, <1>4, <1>5, <2>1
  <2>2. CASE k \notin DOMAIN ghost
    <3>1. k - Len(ghost) \in 1..c /\ Unread[k] = more[k - Len(ghost)]
      BY <1>1, <1>3, <1>4, <1>5, <2>2, SMTT(30)
    <3> QED
      BY <1>2, <3>1
  <2> QED
    BY <2>1, <2>2
<1> QED
  BY <1>6, <1>7

LEMMA GhostSizedNext == SizeInv /\ [Next]_vars => GhostSized'
<1> SUFFICES ASSUME SizeInv, [Next]_vars
             PROVE  GhostSized'
  OBVIOUS
<1>0. /\ flight \in Seq(Append_) /\ AllSized(flight, tail) /\ GhostSized /\ tail \in Nat
      /\ tail' \in Nat /\ tail <= tail'
  BY RingSizedNext DEF SizeInv, RingTyped, HeldInv, Typed, FlightSized
<1>1. ASSUME NEW g \in Seq(Nat), ghost' = g, \A k \in DOMAIN g : g[k] \in 1..tail
      PROVE  GhostSized'
  BY <1>0, <1>1 DEF GhostSized
<1>2. CASE Disconnect \/ NodeRestart
  BY <1>0, <1>1, <1>2, UnreadSized DEF Disconnect, NodeRestart
<1>3. CASE HubAppendLate
  <2>1. ghost # <<>> /\ ghost' = Tail(ghost)
    BY <1>3 DEF HubAppendLate
  <2> QED
    BY <1>0, <1>1, <2>1 DEF GhostSized
<1>4. CASE LoseFrames \/ \E n \in 0..MaxSeq : HubRestore(n)
  <2>1. ghost' = <<>>
    BY <1>4 DEF LoseFrames, HubRestore
  <2> QED
    BY <2>1 DEF GhostSized
<1>5. CASE UNCHANGED ghost
  BY <1>0, <1>1, <1>5 DEF GhostSized
<1> QED
  BY <1>2, <1>3, <1>4, <1>5
     DEF Next, BroadcastStep, PumpStep, SessionStep, HubStep, Fault, AppendObservation, Broadcast,
         Dispatch, FlushCaughtUp, FlushRead, FlushAck, LiveAck, LiveRecv, LiveLagged, Retry, SendJob,
         HandleIncoming, Reconnect, ResumeJournals, HubAppend, HubError, AppendHubEvent, vars

\* The Hub gains a row of the Node, for an event of the journal, or one of its own.
LEMMA HubRowStep ==
    ASSUME SizeInv, [Next]_vars
    PROVE  /\ faults' \in 0..MaxFaults /\ faults <= faults'
           /\ \/ hub' = hub
              \/ hub' = Append(hub, "node") /\ Len(hub) + 1 \in 1..tail
              \/ hub' = Append(hub, "hub") /\ "hub-row" \in Faults /\ faults' = faults + 1
              \/ \E n \in Nat : n < Len(hub) /\ hub' = SubSeq(hub, 1, n)
<1>0. /\ flight \in Seq(Append_) /\ AllSized(flight, tail) /\ GhostSized /\ tail \in Nat
      /\ faults \in 0..MaxFaults /\ Len(hub) \in Nat
  BY DEF SizeInv, RingTyped, HeldInv, Typed, FlightSized, HubSized
<1>1. ASSUME NEW s \in 1..tail, hub' = AppendLoadedEvent(s)
      PROVE  hub' = hub \/ (hub' = Append(hub, "node") /\ Len(hub) + 1 \in 1..tail)
  <2>1. CASE s = Len(hub) + 1
    BY <1>0, <1>1, <2>1 DEF AppendLoadedEvent
  <2>2. CASE s # Len(hub) + 1
    BY <1>0, <1>1, <2>2 DEF AppendLoadedEvent
  <2> QED
    BY <2>1, <2>2
<1>2. ASSUME NEW i \in DOMAIN flight, HubAppend(i)
      PROVE  /\ faults' = faults
             /\ hub' = hub \/ (hub' = Append(hub, "node") /\ Len(hub) + 1 \in 1..tail)
  <2>1. flight[i].seq \in 1..tail
    BY <1>0 DEF AllSized, Sized
  <2>2. hub' = AppendLoadedEvent(flight[i].seq) /\ faults' = faults
    BY <1>2 DEF HubAppend, faultVars
  <2> QED
    BY <1>1, <2>1, <2>2
<1>3. ASSUME HubAppendLate
      PROVE  /\ faults' = faults
             /\ hub' = hub \/ (hub' = Append(hub, "node") /\ Len(hub) + 1 \in 1..tail)
  <2>1. Head(ghost) \in 1..tail
    BY <1>0, <1>3 DEF HubAppendLate, GhostSized
  <2>2. hub' = AppendLoadedEvent(Head(ghost)) /\ faults' = faults
    BY <1>3 DEF HubAppendLate, faultVars
  <2> QED
    BY <1>1, <2>1, <2>2
<1>4. ASSUME Disconnect \/ NodeRestart \/ \E i \in DOMAIN flight : HubError(i)
      PROVE  faults' = faults + 1 /\ faults < MaxFaults /\ hub' = hub
  BY <1>4 DEF Disconnect, NodeRestart, HubError, Strike
<1>5. ASSUME AppendHubEvent
      PROVE  hub' = Append(hub, "hub") /\ "hub-row" \in Faults /\ faults' = faults + 1 /\ faults < MaxFaults
  BY <1>5 DEF AppendHubEvent, Strike
<1>6. ASSUME NEW n \in 0..MaxSeq, HubRestore(n)
      PROVE  /\ n \in Nat /\ n < Len(hub) /\ hub' = SubSeq(hub, 1, n)
             /\ faults' = faults + 1 /\ faults < MaxFaults
  BY <1>6 DEF HubRestore, Strike, MaxSeq
<1>7. ASSUME \/ AppendObservation \/ BroadcastStep \/ Dispatch \/ PumpStep \/ SessionStep
             \/ Reconnect \/ ResumeJournals \/ LoseFrames \/ UNCHANGED vars
      PROVE  faults' = faults /\ hub' = hub
  BY <1>7 DEF BroadcastStep, PumpStep, SessionStep, AppendObservation, Broadcast, Dispatch,
     FlushCaughtUp, FlushRead, FlushAck, LiveAck, LiveRecv, LiveLagged, Retry, SendJob,
     HandleIncoming, Reconnect, ResumeJournals, LoseFrames, vars, faultVars
<1>8. CASE Fault
  BY <1>0, <1>4, <1>5, <1>6, <1>8 DEF Fault
<1>9. CASE HubStep \/ HubAppendLate
  BY <1>0, <1>2, <1>3, <1>9 DEF HubStep
<1> QED
  BY <1>0, <1>7, <1>8, <1>9 DEF Next

LEMMA HubSizedNext == SizeInv /\ [Next]_vars => HubSized'
<1> SUFFICES ASSUME SizeInv, [Next]_vars
             PROVE  HubSized'
  OBVIOUS
<1>0. /\ hub \in Seq({"node", "hub"}) /\ Len(hub) \in Nat /\ tail \in Nat /\ tail <= MaxEvents
      /\ faults \in 0..MaxFaults /\ Len(hub) <= MaxEvents + faults
  BY DEF SizeInv, RingTyped, RingSized, HeldInv, Typed, HubSized
<1>1. faults' \in 0..MaxFaults /\ faults <= faults'
  BY HubRowStep
<1>2. Len(hub') <= MaxEvents + faults'
  <2>1. CASE hub' = hub
    BY <1>0, <1>1, <2>1
  <2>2. CASE hub' = Append(hub, "node") /\ Len(hub) + 1 \in 1..tail
    BY <1>0, <1>1, <2>2
  <2>3. CASE hub' = Append(hub, "hub") /\ faults' = faults + 1
    BY <1>0, <1>1, <2>3
  <2>4. ASSUME NEW n \in Nat, n < Len(hub), hub' = SubSeq(hub, 1, n)
        PROVE  Len(hub') <= MaxEvents + faults'
    <3>1. Len(hub') = n
      BY <1>0, <2>4
    <3>2. \A a, b, f, g \in Nat : a <= b /\ b <= MaxEvents + f /\ f <= g => a <= MaxEvents + g
      OBVIOUS
    <3>3. n <= Len(hub) /\ faults \in Nat /\ faults' \in Nat
      BY <1>0, <1>1, <2>4
    <3> QED
      BY <1>0, <1>1, <3>1, <3>2, <3>3
  <2> QED
    BY <2>1, <2>2, <2>3, <2>4, HubRowStep
<1> QED
  BY <1>1, <1>2 DEF HubSized

LEMMA SizeInvNext == SizeInv /\ [Next]_vars => SizeInv'
BY RingTypedNext, HeldInvNext, StatesNext, RingSizedNext, FlightSizedNext, GhostSizedNext, HubSizedNext
   DEF SizeInv

\* Every variable of the mirroring keeps its type, for every number of events and
\* faults and every size of window, page and ring.
THEOREM JournalTypes == Spec => []TypeOK
<1> QED
  BY SizeFromStart, SizeInvNext, SizeIsType, PTL DEF Spec

NoHubRows == "hub-row" \notin Faults

\* A Hub that writes no rows of its own mirrors the Node's journal and never more of it,
\* through late frames, replays, reconnects, restarts and restored databases: every row
\* is the Node's and none lies beyond the journal (append_loaded_event).
HubIsPrefix == Len(hub) <= tail /\ \A s \in DOMAIN hub : hub[s] = "node"

LEMMA HubIsPrefixNext ==
    ASSUME NoHubRows, SizeInv, HubIsPrefix, [Next]_vars
    PROVE  HubIsPrefix'
<1>0. hub \in Seq({"node", "hub"}) /\ Len(hub) \in Nat /\ tail \in Nat /\ tail' \in Nat /\ tail <= tail'
  BY RingSizedNext DEF SizeInv, RingTyped, HeldInv, Typed
<1>1. CASE hub' = hub
  BY <1>0, <1>1 DEF HubIsPrefix
<1>2. CASE hub' = Append(hub, "node") /\ Len(hub) + 1 \in 1..tail
  BY <1>0, <1>2 DEF HubIsPrefix
<1>3. ASSUME NEW n \in Nat, n < Len(hub), hub' = SubSeq(hub, 1, n)
      PROVE  HubIsPrefix'
  <2>1. Len(hub') = n /\ \A s \in DOMAIN hub' : s \in DOMAIN hub /\ hub'[s] = hub[s]
    BY <1>0, <1>3
  <2> QED
    BY <1>0, <1>3, <2>1 DEF HubIsPrefix
<1> QED
  BY <1>1, <1>2, <1>3, HubRowStep DEF NoHubRows

\* Without rows of the Hub's own the Node is the only assigner of a sequence, as
\* protocol.md section 5.1 says: such rows are all that stands against it.
THEOREM NodeAssignsSequences == NoHubRows /\ Spec => [](HubIsPrefix /\ NodeRowsMirrored)
<1>1. Init => HubIsPrefix
  BY DEF Init, HubIsPrefix
<1>2. NoHubRows /\ SizeInv /\ HubIsPrefix /\ [Next]_vars => HubIsPrefix'
  BY HubIsPrefixNext
<1>3. SizeInv /\ HubIsPrefix => NodeRowsMirrored
  <2> SUFFICES ASSUME SizeInv, HubIsPrefix, NEW s \in 1..Smaller(Smaller(mark, tail), Len(hub))
               PROVE  hub[s] = "node"
    BY DEF NodeRowsMirrored
  <2>1. mark \in Nat /\ tail \in Nat /\ hub \in Seq({"node", "hub"})
    BY DEF SizeInv, HeldInv, Typed
  <2>2. s \in DOMAIN hub
    BY <2>1 DEF Smaller
  <2> QED
    BY <2>2 DEF HubIsPrefix
<1>4. NoHubRows => NoHubRows'
  BY DEF NoHubRows
<1> QED
  BY <1>1, <1>2, <1>3, <1>4, SizeFromStart, SizeInvNext, PTL DEF Spec

=============================================================================
