------------------------ MODULE PtyQueue_refinement ------------------------
(***************************************************************************)
(* The queue of an instance keeps the promise of PromptDelivery, and keeps *)
(* the order in which the Node accepted the prompts of a class: proofs for *)
(* every set of commands, with crashes, fences and edits.                  *)
(***************************************************************************)
EXTENDS PtyQueue_proofs, WellFoundedInduction

-----------------------------------------------------------------------------
(* What is in a queue, as a set.                                           *)

LEMMA SetOfSeq ==
    ASSUME NEW S, NEW s \in Seq(S)
    PROVE  /\ ToSet(s) \subseteq S
           /\ \A x : x \in ToSet(s) <=> \E i \in 1..Len(s) : s[i] = x
           /\ ToSet(<<>>) = {}
<1>1. DOMAIN s = 1..Len(s) /\ \A i \in 1..Len(s) : s[i] \in S
  OBVIOUS
<1>2. ToSet(<<>>) = {}
  BY DEF ToSet
<1> QED BY <1>1, <1>2 DEF ToSet

LEMMA SetOfAppend ==
    ASSUME NEW S, NEW s \in Seq(S), NEW e \in S
    PROVE  ToSet(Append(s, e)) = ToSet(s) \cup {e}
<1> DEFINE r == Append(s, e)
<1>1. /\ r \in Seq(S) /\ Len(r) = Len(s) + 1 /\ Len(s) \in Nat
      /\ \A i \in 1..Len(s) : r[i] = s[i]
      /\ r[Len(s) + 1] = e
  BY AppendProperties
<1> HIDE DEF r
<1>2. \A x : x \in ToSet(r) <=> \E i \in 1..Len(s) + 1 : r[i] = x
  BY <1>1, SetOfSeq
<1>3. \A x : x \in ToSet(s) <=> \E i \in 1..Len(s) : s[i] = x
  BY SetOfSeq
<1>4. 1..Len(s) + 1 = 1..Len(s) \cup {Len(s) + 1}
  BY <1>1
<1>5. ToSet(r) = ToSet(s) \cup {e}
  BY <1>1, <1>2, <1>3, <1>4
<1> QED BY <1>5 DEF r

LEMMA SetOfTail ==
    ASSUME NEW S, NEW s \in Seq(S), s # <<>>
    PROVE  /\ Head(s) \in ToSet(s) /\ ToSet(s) = ToSet(Tail(s)) \cup {Head(s)}
           /\ (\A i, j \in 1..Len(s) : s[i] = s[j] => i = j) => Head(s) \notin ToSet(Tail(s))
<1> DEFINE r == Tail(s)
<1>1. /\ r \in Seq(S) /\ Len(r) = Len(s) - 1 /\ Len(s) \in Nat /\ Len(s) # 0
      /\ \A i \in 1..Len(r) : r[i] = s[i + 1]
      /\ Head(s) = s[1]
  BY HeadTailProperties, EmptySeq
<1> HIDE DEF r
<1>2. \A x : x \in ToSet(r) <=> \E i \in 1..Len(r) : r[i] = x
  BY <1>1, SetOfSeq
<1>3. \A x : x \in ToSet(s) <=> \E i \in 1..Len(s) : s[i] = x
  BY SetOfSeq
<1>4. \A i \in 1..Len(r) : i + 1 \in 1..Len(s) /\ i + 1 # 1
  BY <1>1
<1>5. 1 \in 1..Len(s) /\ \A i \in 1..Len(s) : i = 1 \/ (i - 1 \in 1..Len(r) /\ i = (i - 1) + 1)
  BY <1>1
<1>6. ToSet(r) \subseteq ToSet(s) /\ Head(s) \in ToSet(s)
  BY <1>1, <1>2, <1>3, <1>4, <1>5
<1>7. \A x \in ToSet(s) : x = Head(s) \/ x \in ToSet(r)
  <2> SUFFICES ASSUME NEW x \in ToSet(s) PROVE x = Head(s) \/ x \in ToSet(r)
    OBVIOUS
  <2> PICK i \in 1..Len(s) : s[i] = x
    BY <1>3
  <2>1. CASE i = 1
    BY <1>1, <2>1
  <2>2. CASE i # 1
    <3>1. i - 1 \in 1..Len(r) /\ r[i - 1] = s[i]
      BY <1>1, <1>5, <2>2
    <3> QED BY <1>2, <3>1
  <2> QED BY <2>1, <2>2
<1>8. ASSUME \A i, j \in 1..Len(s) : s[i] = s[j] => i = j PROVE Head(s) \notin ToSet(r)
  BY <1>1, <1>2, <1>4, <1>5, <1>8
<1> QED BY <1>6, <1>7, <1>8 DEF r

(* The same facts for a queue that takes a prompt at a given slot. *)
LEMMA InsertPrompt ==
    ASSUME NEW q \in Seq(Prompts), NEW k \in 1..Len(q) + 1, NEW c \in Prompts, NEW r,
           r = InsertAt(q, k, c)
    PROVE  /\ Len(r) = Len(q) + 1
           /\ \A i \in 1..Len(q) + 1 :
                 r[i] = IF i < k THEN q[i] ELSE IF i = k THEN c ELSE q[i - 1]
<1>1. /\ Len(InsertAt(q, k, c)) = Len(q) + 1
      /\ \A i \in 1..Len(q) + 1 :
            InsertAt(q, k, c)[i] = IF i < k THEN q[i] ELSE IF i = k THEN c ELSE q[i - 1]
  BY InsertAtFacts
<1> QED BY <1>1

LEMMA SetOfInsert ==
    ASSUME NEW S, NEW s \in Seq(S), NEW k \in 1..Len(s) + 1, NEW e \in S
    PROVE  ToSet(InsertAt(s, k, e)) = ToSet(s) \cup {e}
<1> DEFINE r == InsertAt(s, k, e)
<1>1. /\ r \in Seq(S) /\ Len(r) = Len(s) + 1
      /\ \A i \in 1..Len(s) + 1 : r[i] = IF i < k THEN s[i] ELSE IF i = k THEN e ELSE s[i - 1]
  BY InsertAtFacts
<1> HIDE DEF r
<1>0. Len(s) \in Nat
  OBVIOUS
<1>2. \A x : x \in ToSet(r) <=> \E i \in 1..Len(s) + 1 : r[i] = x
  BY <1>1, SetOfSeq
<1>3. \A x : x \in ToSet(s) <=> \E i \in 1..Len(s) : s[i] = x
  BY SetOfSeq
<1>4. ASSUME NEW x \in ToSet(r) PROVE x \in ToSet(s) \cup {e}
  <2> PICK i \in 1..Len(s) + 1 : r[i] = x
    BY <1>2
  <2>1. i < k \/ i = k \/ (i > k /\ i - 1 \in 1..Len(s))
    BY <1>0
  <2>2. i < k => i \in 1..Len(s)
    BY <1>0
  <2> QED BY <1>1, <1>3, <2>1, <2>2
<1>5. e \in ToSet(r)
  BY <1>1, <1>2
<1>6. ASSUME NEW x \in ToSet(s) PROVE x \in ToSet(r)
  <2> PICK i \in 1..Len(s) : s[i] = x
    BY <1>3
  <2>1. CASE i < k
    BY <1>0, <1>1, <1>2, <2>1
  <2>2. CASE i >= k
    <3>1. i + 1 \in 1..Len(s) + 1 /\ i + 1 > k /\ i + 1 - 1 = i
      BY <1>0, <2>2
    <3>2. r[i + 1] = s[i]
      BY <1>1, <3>1
    <3> QED BY <1>2, <3>1, <3>2
  <2> QED BY <1>0, <2>1, <2>2
<1>7. ToSet(r) = ToSet(s) \cup {e}
  BY <1>4, <1>5, <1>6
<1> QED BY <1>7 DEF r

LEMMA SetOfRemove ==
    ASSUME NEW S, NEW s \in Seq(S), NEW k \in 1..Len(s)
    PROVE  /\ s[k] \in ToSet(s) /\ ToSet(s) = ToSet(RemoveAt(s, k)) \cup {s[k]}
           /\ (\A i, j \in 1..Len(s) : s[i] = s[j] => i = j) => s[k] \notin ToSet(RemoveAt(s, k))
<1> DEFINE r == RemoveAt(s, k)
<1>0. Len(s) \in Nat
  OBVIOUS
<1>1. /\ r \in Seq(S) /\ Len(r) = Len(s) - 1
      /\ \A i \in 1..Len(s) - 1 : r[i] = IF i < k THEN s[i] ELSE s[i + 1]
  BY RemoveAtFacts
<1> HIDE DEF r
<1>2. \A x : x \in ToSet(r) <=> \E i \in 1..Len(s) - 1 : r[i] = x
  BY <1>1, SetOfSeq
<1>3. \A x : x \in ToSet(s) <=> \E i \in 1..Len(s) : s[i] = x
  BY SetOfSeq
<1>4. ASSUME NEW x \in ToSet(r) PROVE \E i \in 1..Len(s) : i # k /\ s[i] = x
  <2> PICK i \in 1..Len(s) - 1 : r[i] = x
    BY <1>2
  <2>1. i \in 1..Len(s) /\ i + 1 \in 1..Len(s) /\ (i < k => i # k) /\ (~(i < k) => i + 1 # k)
    BY <1>0
  <2> QED BY <1>1, <2>1
<1>5. ASSUME NEW x \in ToSet(s) PROVE x = s[k] \/ x \in ToSet(r)
  <2> PICK i \in 1..Len(s) : s[i] = x
    BY <1>3
  <2>1. CASE i < k
    <3>1. i \in 1..Len(s) - 1
      BY <1>0, <2>1
    <3> QED BY <1>1, <1>2, <2>1, <3>1
  <2>2. CASE i > k
    <3>1. i - 1 \in 1..Len(s) - 1 /\ ~(i - 1 < k) /\ i - 1 + 1 = i
      BY <1>0, <2>2
    <3>2. r[i - 1] = s[i]
      BY <1>1, <3>1
    <3> QED BY <1>2, <3>1, <3>2
  <2> QED BY <1>0, <2>1, <2>2
<1>6. ToSet(s) = ToSet(r) \cup {s[k]} /\ s[k] \in ToSet(s)
  BY <1>3, <1>4, <1>5
<1>7. ASSUME \A i, j \in 1..Len(s) : s[i] = s[j] => i = j PROVE s[k] \notin ToSet(r)
  BY <1>4, <1>7
<1> QED BY <1>6, <1>7 DEF r

-----------------------------------------------------------------------------
(* A held prompt is in the worker's queue, so its withdrawal or its edit   *)
(* still decides something.                                                *)

HeldIsQueued == \A c \in Cmd : held[c].st # "none" => c \in ToSet(pending)

(* The variables the queue is made of, as sets and functions.              *)
LEMMA QueueTypes ==
    ASSUME TypeOK
    PROVE  /\ pending \in Seq(Prompts) /\ chan \in Seq(Cmd) /\ Prompts \subseteq Cmd
           /\ ToSet(pending) \subseteq Prompts /\ ToSet(chan) \subseteq Cmd
           /\ held \in [Cmd -> HeldEntry]
           /\ ToSet(<<>>) = {}
BY SetOfSeq, KindFacts DEF TypeOK

(* The head leaves the queue and the registry.                             *)
LEMMA PoppedHead ==
    ASSUME DeliveryInv, pending # <<>>, NEW h, h = Head(pending),
           held' = [held EXCEPT ![h] = NotHeld], pending' = Tail(pending)
    PROVE  /\ h \in Prompts /\ h \in Cmd /\ rpc[h] = "answered"
           /\ h \notin ToSet(chan) /\ h \notin ToSet(pending')
           /\ ToSet(pending) = ToSet(pending') \cup {h}
           /\ held'[h].st = "none"
           /\ \A c \in Cmd : c # h => held'[c] = held[c]
<1>1. TypeOK
  BY DEF DeliveryInv
<1>2. h \in Prompts /\ h \in Cmd /\ rpc[h] = "answered" /\ \A i \in 1..Len(chan) : chan[i] # h
  BY <1>1, PendingElement, QueueHead
<1>3. h \notin ToSet(chan)
  BY <1>1, <1>2, QueueTypes, SetOfSeq
<1>4. ToSet(pending) = ToSet(pending') \cup {h} /\ h \notin ToSet(pending')
  BY <1>1, QueueTypes, SetOfTail DEF DeliveryInv, PendingIsHeld
<1>5. held'[h].st = "none" /\ \A c \in Cmd : c # h => held'[c] = held[c]
  BY <1>1, <1>2, QueueTypes DEF NotHeld
<1> QED BY <1>2, <1>3, <1>4, <1>5

(* The worker receives a command and may queue it.                         *)
LEMMA Received ==
    ASSUME DeliveryInv, NEW c, RecvPrompt(c) \/ RecvSteer(c)
    PROVE  /\ c \in Prompts /\ c \in Cmd /\ c \in ToSet(chan) /\ c \notin ToSet(chan')
           /\ ToSet(chan) = ToSet(chan') \cup {c}
           /\ c \notin ToSet(pending) /\ ToSet(pending') = ToSet(pending) \cup {c}
           /\ held'[c].st = "waiting"
           /\ \A d \in Cmd : d # c => held'[d] = held[d]
<1>1. TypeOK
  BY DEF DeliveryInv
<1>2. /\ pc = "select" /\ chan # <<>> /\ c = Head(chan) /\ chan' = Tail(chan) /\ c \in Prompts
      /\ held' = [held EXCEPT ![c] = hold]
  BY DEF RecvPrompt, RecvSteer, Prompts
<1>3. /\ c \in Cmd /\ held[c].st = "none"
  BY <1>1, <1>2, QueueTypes, ChannelTail DEF Fresh, NotHeld
<1>4. c \in ToSet(chan) /\ ToSet(chan) = ToSet(chan') \cup {c}
  BY <1>1, <1>2, QueueTypes, SetOfTail
<1>5. c \notin ToSet(chan')
  BY <1>1, <1>2, QueueTypes, SetOfTail DEF DeliveryInv, ChannelIsFresh
<1>6. c \notin ToSet(pending)
  BY <1>1, <1>3, QueueTypes, SetOfSeq DEF DeliveryInv, PendingIsHeld
<1>7. ToSet(pending') = ToSet(pending) \cup {c}
  <2>1. CASE RecvPrompt(c)
    BY <1>1, <1>2, <2>1, QueueTypes, SetOfAppend DEF RecvPrompt
  <2>2. CASE RecvSteer(c)
    <3>1. steer_slot(pending) \in 1..Len(pending) + 1
      BY <1>1, QueueTypes, SteerSlotType
    <3>2. pending' = InsertAt(pending, steer_slot(pending), c)
      BY <2>2 DEF RecvSteer
    <3> QED BY <1>1, <1>2, <3>1, <3>2, QueueTypes, SetOfInsert
  <2> QED BY <2>1, <2>2
<1>8. held'[c].st = "waiting" /\ \A d \in Cmd : d # c => held'[d] = held[d]
  BY <1>1, <1>2, <1>3, QueueTypes DEF hold, NotHeld
<1> QED BY <1>2, <1>3, <1>4, <1>5, <1>6, <1>7, <1>8

(* The scan drops a withdrawn prompt, applies an edit or goes on.          *)
LEMMA ScannedOne ==
    ASSUME DeliveryInv, apply_held_changes
    PROVE  \/ \E c \in Cmd :
                 /\ c \in ToSet(pending) /\ c \notin ToSet(pending')
                 /\ ToSet(pending) = ToSet(pending') \cup {c}
                 /\ held'[c].st = "none" /\ \A d \in Cmd : d # c => held'[d] = held[d]
           \/ /\ pending' = pending
              /\ \A d \in Cmd : held'[d].st = held[d].st
<1> DEFINE c == pending[scan]
<1>1. TypeOK
  BY DEF DeliveryInv
<1>2. /\ scan \in 1..Len(pending) /\ c \in Cmd
  BY <1>1, QueueTypes, ElementOfSeq DEF apply_held_changes
<1>3. CASE held' = [held EXCEPT ![c] = NotHeld] /\ pending' = RemoveAt(pending, scan)
  <2>1. ToSet(pending) = ToSet(pending') \cup {c} /\ c \in ToSet(pending)
    BY <1>1, <1>2, <1>3, QueueTypes, SetOfRemove
  <2>2. c \notin ToSet(pending')
    BY <1>1, <1>2, <1>3, QueueTypes, SetOfRemove DEF DeliveryInv, PendingIsHeld
  <2>3. held'[c].st = "none" /\ \A d \in Cmd : d # c => held'[d] = held[d]
    BY <1>1, <1>2, <1>3, QueueTypes DEF NotHeld
  <2> QED BY <1>2, <2>1, <2>2, <2>3
<1>4. CASE held' = [held EXCEPT ![c].text = NoText] /\ pending' = pending
  BY <1>1, <1>2, <1>4, QueueTypes DEF HeldEntry
<1>5. CASE UNCHANGED <<held, pending>>
  BY <1>5
<1> QED BY <1>3, <1>4, <1>5 DEF apply_held_changes

(* The head changes its place in the registry, or the Hub does it.         *)
LEMMA HeldMoves ==
    ASSUME TypeOK, NEW c \in Cmd, NEW y, NEW z,
           \/ held' = [held EXCEPT ![c].st = z]
           \/ held' = [held EXCEPT ![c].st = z, ![c].text = y]
    PROVE  held'[c].st = z /\ \A d \in Cmd : d # c => held'[d] = held[d]
BY QueueTypes DEF HeldEntry

(* Every queued prompt is dropped, from the queue and from the registry.   *)
LEMMA Interrupted ==
    ASSUME TypeOK, interrupt_pending
    PROVE  /\ ToSet(pending') = {}
           /\ \A c \in Cmd : held'[c] = IF c \in ToSet(pending) THEN NotHeld ELSE held[c]
BY QueueTypes DEF interrupt_pending

LEMMA HeldNext ==
    ASSUME DeliveryInv, HeldIsQueued, [Next]_vars PROVE HeldIsQueued'
<1>0. TypeOK
  BY DEF DeliveryInv
<1>1. ASSUME UNCHANGED <<held, pending>> PROVE HeldIsQueued'
  BY <1>1 DEF HeldIsQueued
<1>2. CASE UNCHANGED vars \/ Submit \/ Create \/ Control \/ Fence \/ Harness
  <2>1. UNCHANGED <<held, pending>>
    BY <1>2 DEF vars, queueVars, Submit, Admit, insert_command, enqueue_existing, EnqueueRejected,
       CloseEnded, Create, CreateCheck, record_lineage, CreateInsert, CreateAccept, Control,
       ControlClaim, ControlOk, ControlErr, ControlReturn, Fence, persist_fence_frame,
       apply_lineage_fence, FenceClose, Harness, SignalActivity, DialogOpens, DialogAnswered,
       BudgetPasses, record_native_exit
  <2> QED BY <1>1, <2>1
<1>3. CASE Start
  <2>1. CASE \E c \in Creates, hasPrompt \in BOOLEAN : StartOk(c, hasPrompt)
    <3> PICK c \in Creates, hasPrompt \in BOOLEAN : StartOk(c, hasPrompt)
      BY <2>1
    <3>1. /\ pc = "starting" /\ c \in Cmd /\ pending = <<>>
      BY KindFacts DEF StartOk, DeliveryInv, StartingIsFresh
    <3>2. \A d \in Cmd : held[d].st = "none"
      BY <1>0, <3>1, QueueTypes DEF HeldIsQueued
    <3>3. CASE hasPrompt
      <4>1. pending' = <<c>> /\ held' = [held EXCEPT ![c] = hold]
        BY <3>3 DEF StartOk
      <4>2. c \in ToSet(pending')
        BY <4>1 DEF ToSet
      <4> QED BY <1>0, <3>2, <4>1, <4>2, QueueTypes DEF HeldIsQueued
    <3>4. CASE ~hasPrompt
      <4>1. held' = held
        BY <3>4 DEF StartOk
      <4> QED BY <3>2, <4>1 DEF HeldIsQueued
    <3> QED BY <3>3, <3>4
  <2>2. CASE (\E c \in Creates : StartFail(c)) \/ BuildFail \/ BuildFailReturn
    BY <1>1, <2>2 DEF StartFail, BuildFail, BuildFailReturn, queueVars
  <2> QED BY <1>3, <2>1, <2>2 DEF Start
<1>4. CASE Recv
  <2> PICK c \in Cmd : RecvFull(c) \/ RecvPrompt(c) \/ RecvSteer(c) \/ RecvControl(c)
    BY <1>4 DEF Recv
  <2>1. CASE RecvFull(c)
    BY <1>1, <2>1 DEF RecvFull
  <2>2. CASE RecvPrompt(c) \/ RecvSteer(c)
    BY <2>2, Received DEF HeldIsQueued
  <2>3. CASE RecvControl(c) /\ c \in Keys
    BY <1>1, <2>3 DEF RecvControl
  <2>4. CASE RecvControl(c) /\ c \notin Keys
    <3>1. interrupt_pending
      BY <2>4 DEF RecvControl
    <3> QED BY <1>0, <3>1, Interrupted DEF HeldIsQueued, NotHeld
  <2> QED BY <2>1, <2>2, <2>3, <2>4
<1>5. CASE Gate
  <2>1. CASE Tick \/ TickDrained \/ TickGated \/ TickDeliver
    BY <1>1, <2>1 DEF Tick, TickDrained, TickGated, TickDeliver, queueVars
  <2>2. CASE TickNotReady
    BY <1>0, <2>2, Interrupted DEF TickNotReady, HeldIsQueued, NotHeld
  <2>3. CASE apply_held_changes
    BY <2>3, ScannedOne DEF HeldIsQueued
  <2> QED BY <1>5, <2>1, <2>2, <2>3 DEF Gate
<1>6. CASE Deliver
  <2> DEFINE h == Head(pending)
  <2>0. pending # <<>> /\ h \in Cmd
    <3>1. pending # <<>>
      BY <1>6 DEF DeliveryInv, TypeOK, Deliver, ResolveOk, ResolveFail, ProbeUnavailable, ProbeErr,
         ClaimWithdrawn, ClaimDeliver, ClaimFenced, ClaimDispatch, ExecuteOk, ExecuteUnavailable,
         ExecuteErr, SettleOk, SettleErr
    <3> QED BY <3>1, PendingElement
  <2>1. CASE ResolveFail \/ ClaimWithdrawn \/ ClaimFenced \/ SettleOk \/ SettleErr
    <3>1. held' = [held EXCEPT ![h] = NotHeld] /\ pending' = Tail(pending)
      BY <2>1 DEF ResolveFail, ClaimWithdrawn, ClaimFenced, SettleOk, SettleErr, PopHead
    <3> HIDE DEF h
    <3>2. /\ held'[h].st = "none" /\ ToSet(pending) = ToSet(pending') \cup {h}
          /\ \A c \in Cmd : c # h => held'[c] = held[c]
      BY <2>0, <3>1, PoppedHead DEF h
    <3> QED BY <3>2 DEF HeldIsQueued
  <2>2. CASE ClaimDeliver \/ ExecuteUnavailable
    <3>1. /\ pending' = pending
          /\ \/ held' = held
             \/ held' = [held EXCEPT ![h].st = "delivering", ![h].text = NoText]
             \/ held' = [held EXCEPT ![h].st = "waiting"]
      BY <2>2 DEF ClaimDeliver, ExecuteUnavailable
    <3> HIDE DEF h
    <3>2. \A c \in Cmd : c # h => held'[c] = held[c]
      BY <1>0, <2>0, <3>1, HeldMoves
    <3>3. h \in ToSet(pending)
      BY <1>0, <2>0, QueueTypes, SetOfTail DEF h
    <3> QED BY <3>1, <3>2, <3>3 DEF HeldIsQueued
  <2>3. CASE \/ ResolveOk \/ ProbeUnavailable \/ ProbeErr \/ ClaimDispatch \/ ExecuteOk
             \/ \E written \in BOOLEAN : ExecuteErr(written)
    BY <1>1, <2>3 DEF ResolveOk, ProbeUnavailable, ProbeErr, ClaimDispatch, ExecuteOk, ExecuteErr,
       queueVars
  <2> QED BY <1>6, <2>1, <2>2, <2>3 DEF Deliver
<1>7. CASE HeldInput
  <2> PICK c \in Prompts : withdraw(c) \/ \E e \in 0..MaxRevision, t \in Texts : edit(c, e, t)
    BY <1>7 DEF HeldInput
  <2>1. /\ c \in Cmd /\ held[c].st # "none" /\ pending' = pending
        /\ \A d \in Cmd : d # c => held'[d] = held[d]
    BY <1>0, QueueTypes DEF withdraw, edit, HeldEntry
  <2> QED BY <2>1 DEF HeldIsQueued
<1>8. CASE \E survives \in BOOLEAN : Restart(survives)
  BY <1>8 DEF Restart, HeldIsQueued, NotHeld
<1> QED BY <1>2, <1>3, <1>4, <1>5, <1>6, <1>7, <1>8 DEF Next

(* A withdrawal and an edit the Hub is told took effect were of a prompt   *)
(* that was still queued (HeldInputs::withdraw, HeldInputs::edit).         *)
THEOREM HeldPromptsAreQueued == Spec => []HeldIsQueued
<1>1. Init => HeldIsQueued
  BY DEF Init, HeldIsQueued, NotHeld
<1>2. DeliveryInv /\ HeldIsQueued /\ [Next]_vars => HeldIsQueued'
  BY HeldNext
<1>3. Spec => []DeliveryInv
  BY DeliveryCorrect
<1> QED BY <1>1, <1>2, <1>3, PTL DEF Spec

-----------------------------------------------------------------------------
(* The refinement.  Most steps leave the fate of every prompt alone or     *)
(* give prompts up; five of them are steps of PromptDelivery of their own. *)

Open == {"idle", "checked", "admitted", "inserted"}

LEMMA FateIs ==
    ASSUME TypeOK
    PROVE  \A c \in Prompts :
              Fate(c) = IF wrote[c] > 0 THEN "written"
                        ELSE IF c \in told THEN "withdrawn"
                        ELSE IF held[c].st = "delivering" THEN "claimed"
                        ELSE IF StillQueued(c) THEN "open" ELSE "dropped"
<1> SUFFICES ASSUME NEW c \in Prompts
             PROVE  Fate(c) = IF wrote[c] > 0 THEN "written"
                              ELSE IF c \in told THEN "withdrawn"
                              ELSE IF held[c].st = "delivering" THEN "claimed"
                              ELSE IF StillQueued(c) THEN "open" ELSE "dropped"
  OBVIOUS
<1>1. wrote[c] \in Nat
  BY KindFacts DEF TypeOK
<1> QED BY <1>1 DEF Fate

LEMMA FateIsNext ==
    ASSUME TypeOK'
    PROVE  \A c \in Prompts :
              Fate(c)' = IF wrote'[c] > 0 THEN "written"
                         ELSE IF c \in told' THEN "withdrawn"
                         ELSE IF held'[c].st = "delivering" THEN "claimed"
                         ELSE IF StillQueued(c)' THEN "open" ELSE "dropped"
<1> SUFFICES ASSUME NEW c \in Prompts
             PROVE  Fate(c)' = IF wrote'[c] > 0 THEN "written"
                               ELSE IF c \in told' THEN "withdrawn"
                               ELSE IF held'[c].st = "delivering" THEN "claimed"
                               ELSE IF StillQueued(c)' THEN "open" ELSE "dropped"
  OBVIOUS
<1>1. wrote'[c] \in Nat
  BY KindFacts DEF TypeOK
<1> QED BY <1>1 DEF Fate

(* A step decides nothing about a prompt but, at most, to give it up.      *)
Quiet(c) ==
    /\ wrote'[c] = wrote[c]
    /\ held'[c].st = "delivering" => held[c].st = "delivering"
    /\ StillQueued(c)' => StillQueued(c)
    /\ held[c].st = "delivering" /\ held'[c].st # "delivering" => ~StillQueued(c)'

LEMMA QuietStep ==
    ASSUME TypeOK, TypeOK', UNCHANGED <<sent, edited, told>>, \A c \in Prompts : Quiet(c)
    PROVE  Delivery!Next
<1> DEFINE S == {c \in Prompts : Fate(c)' # Fate(c)}
<1>1. \A c \in S : Fate(c) \in {"open", "claimed"} /\ Fate(c)' = "dropped"
  BY FateIs, FateIsNext DEF Quiet
<1>2. S \in SUBSET Prompts
  OBVIOUS
<1>3. Delivery!Drop(S)
  BY <1>1 DEF Delivery!Drop
<1> QED BY <1>2, <1>3 DEF Delivery!Next

(* A step that decides the fate of one prompt.                             *)
LEMMA OthersKeepFate ==
    ASSUME TypeOK, TypeOK', NEW c \in Prompts, UNCHANGED <<rpc, chan, pending>>,
           pc # "starting", pc' # "starting",
           \A d \in Prompts : d # c => /\ wrote'[d] = wrote[d] /\ held'[d].st = held[d].st
                                       /\ d \in told' <=> d \in told
    PROVE  \A d \in Prompts : d # c => Fate(d)' = Fate(d)
<1>1. \A d \in Prompts : StillQueued(d)' = StillQueued(d)
  BY DEF StillQueued
<1> QED BY <1>1, FateIs, FateIsNext

LEMMA RefineSubmit ==
    ASSUME DeliveryInv, DeliveryInv', Submit \/ Create
    PROVE  Delivery!Next
<1>0. TypeOK /\ TypeOK'
  BY DEF DeliveryInv
<1>1. UNCHANGED <<pending, held, sent, edited, told>>
  BY DEF queueVars, historyVars, Submit, Admit, insert_command, enqueue_existing, EnqueueRejected,
     CloseEnded, Create, CreateCheck, record_lineage, CreateInsert, CreateAccept
<1>2. \A d \in Prompts : wrote'[d] = wrote[d]
  <2>1. \/ wrote' = wrote
        \/ \E c \in Closes \cup FenceCloses : wrote' = [wrote EXCEPT ![c] = @ + 1]
    BY DEF historyVars, Submit, Admit, insert_command, enqueue_existing, EnqueueRejected,
       CloseEnded, Create, CreateCheck, record_lineage, CreateInsert, CreateAccept
  <2> QED BY <1>0, <2>1, KindsAssumption DEF TypeOK, Controls, Cmd
<1>3. ASSUME NEW d \in Prompts, StillQueued(d)' PROVE StillQueued(d)
  <2>1. d \in Cmd
    BY KindFacts
  <2>2. CASE Submit
    <3> PICK c \in Cmd : \/ Admit(c) \/ insert_command(c) \/ enqueue_existing(c)
                         \/ EnqueueRejected(c) \/ CloseEnded(c)
      BY <2>2 DEF Submit
    <3>1. rpc[c] \in Open /\ (d # c => rpc'[d] = rpc[d]) /\ pc' = pc
      BY <1>0, <2>1 DEF Admit, insert_command, enqueue_existing, EnqueueRejected, CloseEnded,
         AnswerSubmit, workerVars, TypeOK, Open
    <3>2. ToSet(chan') \subseteq ToSet(chan) \cup {c}
      <4>1. chan' = chan \/ chan' = Append(chan, c)
        BY DEF Admit, insert_command, enqueue_existing, EnqueueRejected, CloseEnded, queueVars
      <4>2. chan \in Seq(Cmd)
        BY <1>0, QueueTypes
      <4>3. ToSet(Append(chan, c)) = ToSet(chan) \cup {c}
        BY <4>2, SetOfAppend
      <4> QED BY <4>1, <4>3
    <3> QED BY <1>1, <1>3, <3>1, <3>2 DEF StillQueued, Open
  <2>3. CASE Create
    <3> PICK c \in Creates : \/ CreateCheck(c) \/ record_lineage(c)
                             \/ CreateInsert(c) \/ CreateAccept(c)
      BY <2>3 DEF Create
    <3>1. rpc[c] \in Open /\ (d # c => rpc'[d] = rpc[d]) /\ chan' = chan
      BY <1>0, <2>1 DEF CreateCheck, record_lineage, CreateInsert, CreateAccept, queueVars,
         TypeOK, Open
    <3>2. d # c => d \notin Creates
      BY CreateAssumption
    <3> QED BY <1>1, <1>3, <3>1, <3>2 DEF StillQueued, Open
  <2> QED BY <2>2, <2>3
<1>4. \A d \in Prompts : Quiet(d)
  BY <1>1, <1>2, <1>3 DEF Quiet
<1> QED BY <1>0, <1>1, <1>4, QuietStep

LEMMA RefineStart ==
    ASSUME DeliveryInv, DeliveryInv', Start
    PROVE  Delivery!Next
<1>0. TypeOK /\ TypeOK' /\ Prompts \subseteq Cmd
  BY KindFacts DEF DeliveryInv
<1>1. /\ pc \in {"starting", "failing"} /\ pc' \in {"select", "ended", "failing"}
      /\ UNCHANGED <<rpc, wrote, sent, edited, told>>
      /\ chan' = chan \/ chan' = <<>>
  BY DEF queueVars, historyVars, Start, StartOk, StartFail, BuildFail, BuildFailReturn
<1>2. \A d \in Cmd : held[d].st # "delivering"
  BY <1>1 DEF DeliveryInv, ClaimIsHead
<1>3. \A d \in Prompts : held'[d].st # "delivering"
  BY <1>0, <1>1 DEF DeliveryInv, ClaimIsHead
<1>4. ToSet(chan') \subseteq ToSet(chan)
  BY <1>0, <1>1, QueueTypes
<1>5. ASSUME NEW d \in ToSet(pending') PROVE StillQueued(d)
  <2>1. CASE pending' = pending
    BY <1>5, <2>1 DEF StillQueued
  <2>2. CASE pending' # pending
    <3> PICK c \in Creates, p \in BOOLEAN : StartOk(c, p)
      BY <2>2 DEF Start, StartFail, BuildFail, BuildFailReturn, queueVars
    <3>1. pending' = <<>> \/ pending' = <<c>>
      BY DEF StartOk
    <3>2. ToSet(pending') \subseteq {c}
      BY <3>1 DEF ToSet
    <3>3. pc = "starting"
      BY DEF StartOk
    <3> QED BY <1>5, <3>2, <3>3 DEF StillQueued
  <2> QED BY <2>1, <2>2
<1>6. \A d \in Prompts : StillQueued(d)' => StillQueued(d)
  BY <1>1, <1>4, <1>5 DEF StillQueued
<1>7. \A d \in Prompts : Quiet(d)
  BY <1>0, <1>1, <1>2, <1>3, <1>6 DEF Quiet
<1> QED BY <1>0, <1>1, <1>7, QuietStep

LEMMA RefineRecv ==
    ASSUME DeliveryInv, DeliveryInv', Recv
    PROVE  Delivery!Next
<1>0. TypeOK /\ TypeOK' /\ Prompts \subseteq Cmd
  BY KindFacts DEF DeliveryInv
<1> PICK c \in Cmd : RecvFull(c) \/ RecvPrompt(c) \/ RecvSteer(c) \/ RecvControl(c)
  BY DEF Recv
<1>1. /\ pc = "select" /\ pc' \in {"select", "control"} /\ chan # <<>>
      /\ c = Head(chan) /\ chan' = Tail(chan)
      /\ UNCHANGED <<rpc, wrote, sent, edited, told>>
  BY DEF RecvFull, RecvPrompt, RecvSteer, RecvControl, historyVars, workerVars
<1>2. \A d \in Prompts : held[d].st # "delivering" /\ held'[d].st # "delivering"
  BY <1>0, <1>1 DEF DeliveryInv, ClaimIsHead
<1>3. ToSet(chan) = ToSet(chan') \cup {c}
  BY <1>0, <1>1, QueueTypes, SetOfTail
<1>4. ToSet(pending') \subseteq ToSet(pending) \cup {c}
  <2>1. CASE RecvPrompt(c) \/ RecvSteer(c)
    BY <2>1, Received
  <2>2. CASE pending' = pending
    BY <2>2
  <2>3. CASE interrupt_pending
    BY <1>0, <2>3, Interrupted
  <2> QED BY <2>1, <2>2, <2>3 DEF RecvFull, RecvControl
<1>5. \A d \in Prompts : StillQueued(d)' => StillQueued(d)
  BY <1>1, <1>3, <1>4 DEF StillQueued
<1>6. \A d \in Prompts : Quiet(d)
  BY <1>1, <1>2, <1>5 DEF Quiet
<1> QED BY <1>0, <1>1, <1>6, QuietStep

LEMMA RefineControl ==
    ASSUME DeliveryInv, DeliveryInv', Control \/ Fence \/ Harness
    PROVE  Delivery!Next
<1>0. TypeOK /\ TypeOK' /\ Prompts \subseteq Cmd
  BY KindFacts DEF DeliveryInv
<1>1. /\ UNCHANGED <<pending, held, sent, edited, told>>
      /\ chan' = chan \/ chan' = <<>>
      /\ pc' = pc \/ pc' # "starting"
  BY DEF queueVars, historyVars, workerVars, Control, ControlClaim, ControlOk, ControlErr,
     ControlReturn, Fence, persist_fence_frame, apply_lineage_fence, FenceClose, Harness,
     SignalActivity, DialogOpens, DialogAnswered, BudgetPasses, record_native_exit
<1>2. \A d \in Prompts : wrote'[d] = wrote[d]
  <2>1. \/ wrote' = wrote
        \/ ctl \in Controls /\ wrote' = [wrote EXCEPT ![ctl] = @ + 1]
    BY <1>0 DEF historyVars, Control, ControlClaim, ControlOk, ControlErr, ControlReturn, Fence,
       persist_fence_frame, apply_lineage_fence, FenceClose, Harness, SignalActivity, DialogOpens,
       DialogAnswered, BudgetPasses, record_native_exit, TypeOK
  <2> QED BY <1>0, <2>1, KindsAssumption DEF TypeOK, Cmd
<1>3. \A d \in Prompts : rpc'[d] = rpc[d]
  <2>1. \/ rpc' = rpc
        \/ \E c \in FenceCloses, x \in {"admitted"} : rpc' = [rpc EXCEPT ![c] = x]
    BY DEF Control, ControlClaim, ControlOk, ControlErr, ControlReturn, Fence,
       persist_fence_frame, apply_lineage_fence, FenceClose, Harness, SignalActivity, DialogOpens,
       DialogAnswered, BudgetPasses, record_native_exit
  <2> QED BY <1>0, <2>1, KindsAssumption DEF TypeOK, Controls, Cmd
<1>4. ToSet(chan') \subseteq ToSet(chan)
  BY <1>0, <1>1, QueueTypes
<1>5. \A d \in Prompts : Quiet(d)
  BY <1>1, <1>2, <1>3, <1>4 DEF Quiet, StillQueued
<1> QED BY <1>0, <1>1, <1>5, QuietStep

LEMMA RefineGate ==
    ASSUME DeliveryInv, DeliveryInv', Gate
    PROVE  Delivery!Next
<1>0. TypeOK /\ TypeOK' /\ Prompts \subseteq Cmd
  BY KindFacts DEF DeliveryInv
<1>1. /\ pc \in {"select", "scan"} /\ pc' \in {"select", "scan", "resolve"}
      /\ UNCHANGED <<rpc, chan, wrote, sent, edited, told>>
  BY DEF queueVars, historyVars, Gate, Tick, apply_held_changes, TickDrained, TickNotReady,
     TickGated, TickDeliver, Scanned
<1>2. \A d \in Prompts : held[d].st # "delivering" /\ held'[d].st # "delivering"
  BY <1>0, <1>1 DEF DeliveryInv, ClaimIsHead
<1>3. ToSet(pending') \subseteq ToSet(pending)
  <2>1. CASE apply_held_changes
    BY <2>1, ScannedOne
  <2>2. CASE TickNotReady
    BY <1>0, <2>2, Interrupted DEF TickNotReady
  <2>3. CASE pending' = pending
    BY <2>3
  <2> QED BY <2>1, <2>2, <2>3 DEF Gate, Tick, TickDrained, TickGated, TickDeliver, queueVars
<1>4. \A d \in Prompts : Quiet(d)
  BY <1>1, <1>2, <1>3 DEF Quiet, StillQueued
<1> QED BY <1>0, <1>1, <1>4, QuietStep

(* A crash gives up what was claimed, queued or being submitted.           *)
LEMMA RefineRestart ==
    ASSUME DeliveryInv, DeliveryInv', NEW survives \in BOOLEAN, Restart(survives)
    PROVE  Delivery!Next
<1>0. TypeOK /\ TypeOK' /\ Prompts \subseteq Cmd
  BY KindFacts DEF DeliveryInv
<1>1. /\ chan' = <<>> /\ pending' = <<>> /\ pc' \in {"select", "ended"}
      /\ UNCHANGED <<wrote, sent, edited, told>>
      /\ held' = [c \in Cmd |-> NotHeld]
  BY DEF Restart
<1>2. \A d \in Prompts : held'[d].st = "none"
  BY <1>0, <1>1 DEF NotHeld
<1>3. \A d \in Prompts : StillQueued(d)' => rpc'[d] \in Open
  BY <1>0, <1>1, QueueTypes DEF StillQueued, Open
<1>4. \A d \in Prompts : rpc'[d] \in Open => rpc[d] \in Open
  BY <1>0 DEF Restart, TypeOK, Open
<1>5. \A d \in Prompts : held[d].st = "delivering" => rpc[d] = "answered"
  BY <1>0 DEF DeliveryInv, UnsubmittedIsFresh, Fresh, NotHeld
<1>6. \A d \in Prompts : Quiet(d)
  BY <1>1, <1>2, <1>3, <1>4, <1>5 DEF Quiet, StillQueued, Open
<1> QED BY <1>0, <1>1, <1>6, QuietStep

LEMMA RefineDeliver ==
    ASSUME DeliveryInv, DeliveryInv', Deliver
    PROVE  Delivery!Next
<1>0. TypeOK /\ TypeOK' /\ Prompts \subseteq Cmd
  BY KindFacts DEF DeliveryInv
<1>1. /\ pending # <<>> /\ pc # "starting" /\ pc' # "starting"
      /\ UNCHANGED <<rpc, chan, edited, told>>
  BY <1>0 DEF TypeOK, Deliver, ResolveOk, ResolveFail, ProbeUnavailable, ProbeErr, ClaimWithdrawn,
     ClaimDeliver, ClaimFenced, ClaimDispatch, ExecuteOk, ExecuteUnavailable, ExecuteErr, SettleOk,
     SettleErr, PopHead, queueVars, historyVars
<1>2. PICK h \in Prompts : h = Head(pending) /\ h \in ToSet(pending)
  BY <1>0, <1>1, QueueTypes, SetOfTail
<1>3. CASE ResolveFail \/ ClaimWithdrawn \/ ClaimFenced \/ SettleOk \/ SettleErr
  <2>1. /\ held' = [held EXCEPT ![h] = NotHeld] /\ pending' = Tail(pending)
        /\ UNCHANGED <<wrote, sent>>
    BY <1>2, <1>3 DEF ResolveFail, ClaimWithdrawn, ClaimFenced, SettleOk, SettleErr, PopHead
  <2>2. /\ rpc[h] = "answered" /\ h \notin ToSet(chan) /\ h \notin ToSet(pending')
        /\ ToSet(pending) = ToSet(pending') \cup {h}
        /\ held'[h].st = "none"
        /\ \A c \in Cmd : c # h => held'[c] = held[c]
    BY <1>1, <1>2, <2>1, PoppedHead
  <2>3. \A d \in Prompts : Quiet(d)
    BY <1>0, <1>1, <2>1, <2>2 DEF Quiet, StillQueued
  <2> QED BY <1>0, <1>1, <2>1, <2>3, QuietStep
<1>4. CASE ResolveOk \/ ProbeUnavailable \/ ProbeErr \/ ClaimDispatch
  <2>1. UNCHANGED <<held, pending, wrote, sent>>
    BY <1>4 DEF ResolveOk, ProbeUnavailable, ProbeErr, ClaimDispatch, queueVars, historyVars
  <2>2. \A d \in Prompts : Quiet(d)
    BY <1>1, <2>1 DEF Quiet, StillQueued
  <2> QED BY <1>0, <1>1, <2>1, <2>2, QuietStep
<1>5. CASE ClaimDeliver
  <2>1. /\ held[h].st \notin {"none", "withdrawn"} /\ pc = "probe"
        /\ held' = [held EXCEPT ![h].st = "delivering", ![h].text = NoText]
        /\ UNCHANGED <<pending, wrote, sent>>
    BY <1>1, <1>2, <1>5, PendingElement DEF ClaimDeliver, historyVars
  <2>2. held'[h].st = "delivering" /\ \A d \in Cmd : d # h => held'[d] = held[d]
    <3>1. h \in Cmd
      BY <1>0, <1>2
    <3> QED BY <1>0, <2>1, <3>1, QueueTypes DEF HeldEntry
  <2>3. held[h].st = "waiting"
    BY <1>0, <1>2, <2>1 DEF DeliveryInv, TypeOK, HeldEntry, ClaimIsHead
  <2>4. wrote[h] = 0 /\ h \notin told
    BY <1>0, <1>2, <2>3 DEF DeliveryInv, WaitingIsUnwritten
  <2>5. Fate(h) = "open" /\ Fate(h)' = "claimed"
    <3>1. StillQueued(h)
      BY <1>2 DEF StillQueued
    <3>2. wrote'[h] = 0 /\ h \notin told'
      BY <1>1, <2>1, <2>4
    <3>3. Fate(h) = "open"
      BY <1>0, <1>2, <2>3, <2>4, <3>1, FateIs
    <3>4. Fate(h)' = "claimed"
      BY <1>0, <1>2, <2>2, <3>2, FateIsNext
    <3> QED BY <3>3, <3>4
  <2>6. \A d \in Prompts : d # h => Fate(d)' = Fate(d)
    BY <1>0, <1>1, <1>2, <2>1, <2>2, OthersKeepFate
  <2>7. Delivery!Claim(h)
    BY <1>1, <1>2, <2>1, <2>5, <2>6 DEF Delivery!Claim
  <2> QED BY <1>2, <2>7 DEF Delivery!Next
<1>6. CASE ExecuteUnavailable
  <2>1. /\ held[h].st = "delivering" /\ wrote[h] = 0
        /\ held' = [held EXCEPT ![h].st = "waiting"]
        /\ UNCHANGED <<pending, wrote, sent>>
    BY <1>2, <1>6 DEF ExecuteUnavailable, historyVars, DeliveryInv, ClaimIsHead
  <2>2. held'[h].st = "waiting" /\ \A d \in Cmd : d # h => held'[d] = held[d]
    BY <1>0, <1>2, <2>1, HeldMoves
  <2>3. h \notin told
    BY <1>0, <1>2, <2>1 DEF DeliveryInv, WaitingIsUnwritten
  <2>4. Fate(h) = "claimed" /\ Fate(h)' = "open"
    BY <1>0, <1>1, <1>2, <2>1, <2>2, <2>3, FateIs, FateIsNext DEF StillQueued
  <2>5. \A d \in Prompts : d # h => Fate(d)' = Fate(d)
    BY <1>0, <1>1, <1>2, <2>1, <2>2, OthersKeepFate
  <2>6. Delivery!Unclaim(h)
    BY <1>1, <1>2, <2>1, <2>4, <2>5 DEF Delivery!Unclaim
  <2> QED BY <1>2, <2>6 DEF Delivery!Next
<1>7. CASE ExecuteOk \/ \E written \in BOOLEAN : ExecuteErr(written)
  <2>1. /\ pc = "executing" /\ UNCHANGED <<held, pending>>
        /\ DriverWrites(h) \/ UNCHANGED <<wrote, sent>>
    BY <1>2, <1>7 DEF ExecuteOk, ExecuteErr, queueVars
  <2>2. CASE UNCHANGED <<wrote, sent>>
    <3>1. \A d \in Prompts : Quiet(d)
      BY <1>1, <2>1, <2>2 DEF Quiet, StillQueued
    <3> QED BY <1>0, <1>1, <2>2, <3>1, QuietStep
  <2>3. CASE DriverWrites(h)
    <3>1. held[h].st = "delivering" /\ wrote[h] = 0
      BY <1>2, <2>1 DEF DeliveryInv, ClaimIsHead
    <3>2. h \notin told /\ edited[h] = prompt[h]
      BY <1>0, <1>2, <3>1 DEF DeliveryInv, WaitingIsUnwritten, TextIsEdited
    <3>3. /\ wrote'[h] = 1 /\ sent'[h] = edited[h]
          /\ \A d \in Prompts : d # h => wrote'[d] = wrote[d] /\ sent'[d] = sent[d]
      BY <1>0, <1>2, <2>3, <3>1, <3>2 DEF DriverWrites, TypeOK
    <3>4. Fate(h) = "claimed" /\ Fate(h)' = "written"
      BY <1>0, <1>2, <3>1, <3>2, <3>3, FateIs, FateIsNext
    <3>5. \A d \in Prompts : d # h => Fate(d)' = Fate(d)
      BY <1>0, <1>1, <1>2, <2>1, <3>3, OthersKeepFate
    <3>6. Delivery!Write(h)
      BY <1>1, <1>2, <3>3, <3>4, <3>5 DEF Delivery!Write
    <3> QED BY <1>2, <3>6 DEF Delivery!Next
  <2> QED BY <2>1, <2>2, <2>3
<1> QED BY <1>3, <1>4, <1>5, <1>6, <1>7 DEF Deliver

(* A withdrawal or an edit that is acknowledged finds the prompt open.     *)
LEMMA RefineHeldInput ==
    ASSUME DeliveryInv, DeliveryInv', HeldIsQueued, HeldInput
    PROVE  Delivery!Next
<1>0. TypeOK /\ TypeOK' /\ Prompts \subseteq Cmd
  BY KindFacts DEF DeliveryInv
<1> PICK c \in Prompts : withdraw(c) \/ \E e \in 0..MaxRevision, t \in Texts : edit(c, e, t)
  BY DEF HeldInput
<1>1. /\ UNCHANGED <<rpc, chan, pending, pc, wrote, sent>>
      /\ held[c].st \in {"waiting", "withdrawn"} /\ c \in Cmd
  BY <1>0 DEF withdraw, edit, workerVars
<1>2. wrote[c] = 0 /\ c \in ToSet(pending)
  BY <1>1 DEF DeliveryInv, WaitingIsUnwritten, HeldIsQueued
<1>3. pc # "starting"
  <2>1. ToSet(<<>>) = {}
    BY <1>0, QueueTypes
  <2> QED BY <1>2, <2>1 DEF DeliveryInv, StartingIsFresh
<1>4. held'[c].st # "delivering" /\ \A d \in Cmd : d # c => held'[d] = held[d]
  <2>1. CASE withdraw(c)
    BY <1>0, <1>1, <2>1, QueueTypes DEF withdraw, HeldEntry
  <2>2. ASSUME NEW e \in 0..MaxRevision, NEW t \in Texts, edit(c, e, t)
        PROVE  held'[c].st # "delivering" /\ \A d \in Cmd : d # c => held'[d] = held[d]
    <3>1. held' = [held EXCEPT ![c].rev = e + 1, ![c].text = t] /\ held[c].st = "waiting"
      BY <2>2 DEF edit
    <3>2. held'[c].st = held[c].st
      BY <1>0, <1>1, <3>1, QueueTypes DEF HeldEntry
    <3> QED BY <1>0, <1>1, <3>1, <3>2, QueueTypes
  <2> QED BY <2>1, <2>2
<1>5. CASE withdraw(c)
  <2>1. told' = told \cup {c} /\ edited' = edited
    BY <1>5 DEF withdraw
  <2>2. \A d \in Prompts : d # c => Fate(d)' = Fate(d)
    BY <1>0, <1>1, <1>3, <1>4, <2>1, OthersKeepFate
  <2>3. Fate(c)' = "withdrawn" /\ Fate(c) = IF c \in told THEN "withdrawn" ELSE "open"
    BY <1>0, <1>1, <1>2, <2>1, FateIs, FateIsNext DEF StillQueued
  <2>4. CASE c \notin told
    <3>1. Delivery!Withdraw(c)
      BY <1>1, <2>1, <2>2, <2>3, <2>4 DEF Delivery!Withdraw
    <3> QED BY <3>1 DEF Delivery!Next
  <2>5. CASE c \in told
    <3>1. Delivery!Drop({})
      BY <1>1, <2>1, <2>2, <2>3, <2>5 DEF Delivery!Drop
    <3> QED BY <3>1 DEF Delivery!Next
  <2> QED BY <2>4, <2>5
<1>6. ASSUME NEW e \in 0..MaxRevision, NEW t \in Texts, edit(c, e, t) PROVE Delivery!Next
  <2>1. told' = told /\ edited' = [edited EXCEPT ![c] = t] /\ held[c].st = "waiting"
    BY <1>6 DEF edit
  <2>2. c \notin told
    BY <1>1, <2>1 DEF DeliveryInv, WaitingIsUnwritten
  <2>3. \A d \in Prompts : d # c => Fate(d)' = Fate(d)
    BY <1>0, <1>1, <1>3, <1>4, <2>1, OthersKeepFate
  <2>4. Fate(c)' = "open" /\ Fate(c) = "open"
    BY <1>0, <1>1, <1>2, <1>4, <2>1, <2>2, FateIs, FateIsNext DEF StillQueued
  <2>5. \A d \in Prompts : edited'[d] = IF d = c THEN t ELSE edited[d]
    BY <1>0, <2>1 DEF TypeOK
  <2>6. Delivery!Edit(c, t)
    BY <1>1, <2>3, <2>4, <2>5 DEF Delivery!Edit
  <2> QED BY <2>6 DEF Delivery!Next
<1> QED BY <1>5, <1>6

LEMMA RefineStep ==
    ASSUME DeliveryInv, DeliveryInv', HeldIsQueued, [Next]_vars
    PROVE  [Delivery!Next]_Delivery!vars
<1>1. CASE Next
  BY <1>1, RefineSubmit, RefineStart, RefineRecv, RefineControl, RefineGate, RefineDeliver,
     RefineHeldInput, RefineRestart DEF Next
<1>2. CASE UNCHANGED vars
  <2>1. UNCHANGED <<rpc, chan, pending, held, pc, wrote, sent, told, edited>>
    BY <1>2 DEF vars, queueVars, workerVars, historyVars
  <2>2. \A d \in Prompts : Fate(d)' = Fate(d)
    BY <2>1 DEF Fate, StillQueued
  <2>3. UNCHANGED Delivery!vars
    BY <2>1, <2>2 DEF Delivery!vars
  <2> QED BY <2>3
<1> QED BY <1>1, <1>2

LEMMA RefineInit == Init => Delivery!Init
<1> SUFFICES ASSUME Init PROVE Delivery!Init
  OBVIOUS
<1>1. Prompts \subseteq Cmd /\ TypeOK
  BY KindFacts, TypeInit
<1>2. ASSUME NEW c \in Prompts
      PROVE  /\ Fate(c) = "open" /\ edited[c] = Original /\ sent[c] = NoText
  <2>1. /\ wrote[c] = 0 /\ c \notin told /\ held[c].st = "none" /\ rpc[c] = "idle"
        /\ edited[c] = Original /\ sent[c] = NoText
    BY <1>1 DEF Init, NotHeld
  <2> QED BY <1>1, <2>1, FateIs DEF StillQueued
<1> QED BY <1>2 DEF Delivery!Init

(* The queue, the registry, the fence and a restart together keep the      *)
(* promise made to the Hub: exactly one of a withdrawal and a delivery     *)
(* wins, a prompt is written once with its acknowledged text, and what was *)
(* given up is never written (held_input.rs, runtime/pty_queue.rs).        *)
THEOREM QueueKeepsPromise == Spec => RefinesDelivery
<1>1. Init => Delivery!Init
  BY RefineInit
<1>2. DeliveryInv /\ DeliveryInv' /\ HeldIsQueued /\ [Next]_vars
         => [Delivery!Next]_Delivery!vars
  BY RefineStep
<1>3. Spec => []DeliveryInv
  BY DeliveryCorrect
<1>4. Spec => []HeldIsQueued
  BY HeldPromptsAreQueued
<1> QED BY <1>1, <1>2, <1>3, <1>4, PTL DEF Spec, RefinesDelivery, Delivery!Spec

-----------------------------------------------------------------------------
(* FifoWithinClass.  A prompt is accepted once; channel and queue hold the *)
(* prompts in the order of their acceptance, the queue within each class   *)
(* with the steers in front; and what is in the queue was accepted before  *)
(* what is still in the channel.                                           *)

InOrder(x, y) == \A i, j \in 1..Len(order) : order[i] = x /\ order[j] = y => i < j

SameClass(x, y) == x \in Steers <=> y \in Steers

AcceptedOnce ==
    \A i \in 1..Len(order) :
        /\ rpc[order[i]] = "answered" /\ order[i] \notin Creates
        /\ \A j \in 1..Len(order) : order[i] = order[j] => i = j

ChannelInOrder == \A i, j \in 1..Len(chan) : i < j => InOrder(chan[i], chan[j])

QueueBeforeChannel ==
    \A x \in ToSet(pending), y \in ToSet(chan) : InOrder(x, y)

QueueInOrder ==
    \A i, j \in 1..Len(pending) :
        i < j /\ SameClass(pending[i], pending[j]) => InOrder(pending[i], pending[j])

SteersFirst ==
    \A i, j \in 1..Len(pending) : i < j /\ pending[j] \in Steers => pending[i] \in Steers

OrderInv ==
    /\ AcceptedOnce /\ ChannelInOrder /\ QueueBeforeChannel /\ QueueInOrder /\ SteersFirst
    /\ FifoWithinClass

(* Every set of numbers that is not empty has a least one.                 *)
LEMMA LeastIndex ==
    ASSUME NEW S \in SUBSET Nat, S # {}
    PROVE  \E m \in S : \A k \in S : m <= k
<1> DEFINE R == OpToRel(<, Nat)
<1>1. IsWellFoundedOn(R, Nat)
  BY NatLessThanWellFounded
<1>2. \A x, y \in Nat : <<y, x>> \in R <=> y < x
  BY DEF OpToRel
<1> HIDE DEF R
<1>3. PICK x \in S : \A y \in S : ~(<<y, x>> \in R)
  BY <1>1, WFMin
<1>4. \A y \in S : ~(y < x)
  BY <1>2, <1>3
<1> QED BY <1>4

(* The slot of a steer is behind the steers that head the queue.           *)
LEMMA SteerSlotFacts ==
    ASSUME NEW S, NEW s \in Seq(S)
    PROVE  /\ \A i \in 1..Len(s) : i < steer_slot(s) => s[i] \in Steers
           /\ steer_slot(s) <= Len(s) => s[steer_slot(s)] \notin Steers
<1> DEFINE steered == {i \in 1..Len(s) : \A j \in 1..i : s[j] \in Steers}
           others == {i \in 1..Len(s) : s[i] \notin Steers}
<1>0. Len(s) \in Nat
  OBVIOUS
<1>1. steer_slot(s) = Cardinality(steered) + 1
  BY DEF steer_slot
<1>2. CASE others = {}
  <2>1. \A j \in 1..Len(s) : s[j] \in Steers
    BY <1>2
  <2>2. steered = 1..Len(s)
    BY <1>0, <2>1
  <2>3. Cardinality(1..Len(s)) = Len(s)
    BY <1>0, FS_Interval, SMTT(30)
  <2>4. Cardinality(steered) = Len(s)
    BY <2>2, <2>3
  <2> HIDE DEF steered
  <2> QED BY <1>0, <1>1, <2>1, <2>4
<1>3. CASE others # {}
  <2>0. others \in SUBSET Nat
    BY <1>0
  <2>1. PICK m \in others : \A k \in others : m <= k
    BY <1>3, <2>0, LeastIndex
  <2>2. m \in 1..Len(s) /\ s[m] \notin Steers
    BY <2>1
  <2>3. \A j \in 1..m - 1 : s[j] \in Steers
    <3> SUFFICES ASSUME NEW j \in 1..m - 1, s[j] \notin Steers PROVE FALSE
      OBVIOUS
    <3>1. j \in others
      BY <1>0, <2>2
    <3> QED BY <2>1, <2>2, <3>1
  <2>4. steered = 1..m - 1
    <3>1. ASSUME NEW i \in steered PROVE i \in 1..m - 1
      BY <1>0, <2>2
    <3>2. ASSUME NEW i \in 1..m - 1 PROVE i \in steered
      BY <1>0, <2>2, <2>3
    <3> QED BY <3>1, <3>2
  <2>5. Cardinality(steered) = m - 1
    <3>1. m - 1 \in Nat
      BY <1>0, <2>2
    <3>2. Cardinality(1..m - 1) = IF 1 > m - 1 THEN 0 ELSE (m - 1) - 1 + 1
      BY <3>1, FS_Interval
    <3>3. Cardinality(1..m - 1) = m - 1
      BY <3>1, <3>2
    <3> QED BY <2>4, <3>3
  <2> HIDE DEF steered
  <2>6. steer_slot(s) = m
    BY <1>1, <2>2, <2>5
  <2> QED BY <1>0, <2>2, <2>3, <2>6
<1> QED BY <1>2, <1>3

(* r holds elements of s, in the order they have in s.                     *)
Thins(r, s) ==
    \A i, j \in 1..Len(r) :
        \E k, l \in 1..Len(s) : r[i] = s[k] /\ r[j] = s[l] /\ (i < j => k < l)

LEMMA ThinsEmpty == ASSUME NEW s PROVE Thins(<<>>, s)
BY DEF Thins

LEMMA ThinsSame == ASSUME NEW s PROVE Thins(s, s)
BY DEF Thins

LEMMA ThinsTail ==
    ASSUME NEW S, NEW s \in Seq(S), s # <<>> PROVE Thins(Tail(s), s)
<1> DEFINE r == Tail(s)
<1>1. /\ Len(r) = Len(s) - 1 /\ Len(s) \in Nat
      /\ \A i \in 1..Len(r) : r[i] = s[i + 1]
  BY HeadTailProperties
<1> HIDE DEF r
<1>2. ASSUME NEW i \in 1..Len(r), NEW j \in 1..Len(r)
      PROVE  \E k, l \in 1..Len(s) : r[i] = s[k] /\ r[j] = s[l] /\ (i < j => k < l)
  <2>1. i + 1 \in 1..Len(s) /\ j + 1 \in 1..Len(s) /\ (i < j => i + 1 < j + 1)
    BY <1>1
  <2>2. r[i] = s[i + 1] /\ r[j] = s[j + 1]
    BY <1>1
  <2> QED BY <2>1, <2>2
<1>3. Thins(r, s)
  BY <1>2 DEF Thins
<1> QED BY <1>3 DEF r

LEMMA ThinsRemove ==
    ASSUME NEW S, NEW s \in Seq(S), NEW k \in 1..Len(s) PROVE Thins(RemoveAt(s, k), s)
<1> DEFINE r == RemoveAt(s, k)
           o(x) == IF x < k THEN x ELSE x + 1
<1>0. Len(s) \in Nat
  OBVIOUS
<1>1. /\ Len(r) = Len(s) - 1
      /\ \A i \in 1..Len(s) - 1 : r[i] = IF i < k THEN s[i] ELSE s[i + 1]
  BY RemoveAtFacts
<1> HIDE DEF r
<1>2. ASSUME NEW i \in 1..Len(r), NEW j \in 1..Len(r)
      PROVE  \E m, l \in 1..Len(s) : r[i] = s[m] /\ r[j] = s[l] /\ (i < j => m < l)
  <2>1. o(i) \in 1..Len(s) /\ o(j) \in 1..Len(s) /\ (i < j => o(i) < o(j))
    BY <1>0, <1>1
  <2>2. r[i] = s[o(i)] /\ r[j] = s[o(j)]
    BY <1>1
  <2> HIDE DEF o
  <2> QED BY <2>1, <2>2
<1>3. Thins(r, s)
  BY <1>2 DEF Thins
<1> QED BY <1>3 DEF r

(* A step that accepts and writes nothing and takes nothing into the       *)
(* queue.                                                                  *)
LEMMA OrderThins ==
    ASSUME OrderInv, TypeOK, TypeOK', order' = order,
           \A c \in Cmd : rpc[c] = "answered" => rpc'[c] = "answered",
           \A c \in Prompts : wrote'[c] = wrote[c],
           Thins(chan', chan), Thins(pending', pending)
    PROVE  OrderInv'
<1>0. /\ order \in Seq(Prompts) /\ Prompts \subseteq Cmd
      /\ \A i \in 1..Len(order) : order[i] \in Prompts
  BY ElementOfSeq, KindFacts DEF TypeOK
<1>1. \A x, y : InOrder(x, y) => InOrder(x, y)'
  BY DEF InOrder
<1>2. ToSet(chan') \subseteq ToSet(chan) /\ ToSet(pending') \subseteq ToSet(pending)
  <2>1. /\ \A x : x \in ToSet(chan') <=> \E i \in 1..Len(chan') : chan'[i] = x
        /\ \A x : x \in ToSet(chan) <=> \E i \in 1..Len(chan) : chan[i] = x
        /\ \A x : x \in ToSet(pending') <=> \E i \in 1..Len(pending') : pending'[i] = x
        /\ \A x : x \in ToSet(pending) <=> \E i \in 1..Len(pending) : pending[i] = x
    BY SetOfSeq, SMTT(30) DEF TypeOK
  <2>2. \A i \in 1..Len(chan') : \E k \in 1..Len(chan) : chan'[i] = chan[k]
    BY DEF Thins
  <2>3. \A i \in 1..Len(pending') : \E k \in 1..Len(pending) : pending'[i] = pending[k]
    BY DEF Thins
  <2> QED BY <2>1, <2>2, <2>3
<1>3. AcceptedOnce'
  BY <1>0 DEF OrderInv, AcceptedOnce
<1>4. ChannelInOrder'
  BY <1>1 DEF OrderInv, ChannelInOrder, Thins
<1>5. QueueBeforeChannel'
  BY <1>1, <1>2 DEF OrderInv, QueueBeforeChannel
<1>6. QueueInOrder'
  <2> SUFFICES ASSUME NEW i \in 1..Len(pending'), NEW j \in 1..Len(pending'), i < j,
                      SameClass(pending[i], pending[j])'
               PROVE  InOrder(pending[i], pending[j])'
    BY DEF QueueInOrder
  <2>1. PICK k, l \in 1..Len(pending) :
           pending'[i] = pending[k] /\ pending'[j] = pending[l] /\ k < l
    BY DEF Thins
  <2>2. InOrder(pending[k], pending[l])
    BY <2>1 DEF OrderInv, QueueInOrder, SameClass
  <2> QED BY <1>1, <2>1, <2>2
<1>7. SteersFirst'
  BY ZenonT(30) DEF OrderInv, SteersFirst, Thins
<1>8. FifoWithinClass'
  BY <1>0, <1>2 DEF OrderInv, FifoWithinClass
<1> QED BY <1>3, <1>4, <1>5, <1>6, <1>7, <1>8 DEF OrderInv

(* The Node accepts a command: it is the last of the channel, and of the   *)
(* accepted prompts if it is one.                                          *)
LEMMA OrderAccepts ==
    ASSUME OrderInv, DeliveryInv, DeliveryInv', NEW c \in Cmd, enqueue_existing(c)
    PROVE  OrderInv'
<1>0. /\ order \in Seq(Prompts) /\ Prompts \subseteq Cmd /\ TypeOK /\ Len(order) \in Nat
      /\ \A i \in 1..Len(order) : order[i] \in Prompts
      /\ chan \in Seq(Cmd) /\ Len(chan) \in Nat
  BY ElementOfSeq, KindFacts, LenProperties DEF DeliveryInv, TypeOK
<1>1. /\ rpc[c] = "inserted" /\ c \notin Creates /\ rpc' = [rpc EXCEPT ![c] = "answered"]
      /\ chan' = Append(chan, c) /\ UNCHANGED <<pending, wrote>>
      /\ order' = IF c \in Prompts THEN Append(order, c) ELSE order
  BY DEF enqueue_existing, AnswerSubmit
<1>2. Fresh(c) /\ wrote[c] = 0
  BY <1>1 DEF DeliveryInv, UnsubmittedIsFresh, Fresh
<1>3. c \notin ToSet(chan) /\ c \notin ToSet(pending)
  <2>1. \A i \in 1..Len(chan) : chan[i] # c
    BY <1>1 DEF DeliveryInv, ChannelIsFresh
  <2>2. \A i \in 1..Len(pending) : pending[i] # c
    BY <1>2 DEF DeliveryInv, PendingIsHeld, Fresh, NotHeld
  <2> QED BY <1>0, <2>1, <2>2, QueueTypes, SetOfSeq, SMTT(30)
<1>4. \A i \in 1..Len(order) : order[i] # c
  BY <1>1 DEF OrderInv, AcceptedOnce
<1>5. /\ Len(order') = (IF c \in Prompts THEN Len(order) + 1 ELSE Len(order))
      /\ \A i \in 1..Len(order) : order'[i] = order[i]
      /\ c \in Prompts => order'[Len(order) + 1] = c
  BY <1>0, <1>1, AppendProperties
<1>6. \A i \in 1..Len(order') : i \in 1..Len(order) \/ (i = Len(order) + 1 /\ c \in Prompts)
  BY <1>0, <1>5
<1>7. ASSUME NEW x, NEW y, x # c, y # c, InOrder(x, y) PROVE InOrder(x, y)'
  BY <1>5, <1>6, <1>7 DEF InOrder
<1>8. ASSUME NEW x, x # c PROVE InOrder(x, c)'
  BY <1>0, <1>4, <1>5, <1>6, <1>8 DEF InOrder
<1>9. ToSet(chan') = ToSet(chan) \cup {c}
  BY <1>0, <1>1, SetOfAppend
<1>10. AcceptedOnce'
  <2> SUFFICES ASSUME NEW i \in 1..Len(order')
               PROVE  /\ rpc'[order'[i]] = "answered" /\ order'[i] \notin Creates
                      /\ \A j \in 1..Len(order') : order'[i] = order'[j] => i = j
    BY DEF AcceptedOnce
  <2>0. rpc'[c] = "answered" /\ \A d \in Cmd : rpc[d] = "answered" => rpc'[d] = "answered"
    BY <1>0, <1>1 DEF TypeOK
  <2>1. rpc'[order'[i]] = "answered" /\ order'[i] \notin Creates
    <3>1. CASE i \in 1..Len(order)
      BY <1>0, <1>5, <2>0, <3>1 DEF OrderInv, AcceptedOnce
    <3>2. CASE i \notin 1..Len(order)
      BY <1>1, <1>5, <1>6, <2>0, <3>2
    <3> QED BY <3>1, <3>2
  <2>2. \A j \in 1..Len(order') : order'[i] = order'[j] => i = j
    BY <1>4, <1>5, <1>6 DEF OrderInv, AcceptedOnce
  <2> QED BY <2>1, <2>2
<1>11. ChannelInOrder'
  <2>1. /\ Len(chan') = Len(chan) + 1 /\ chan'[Len(chan) + 1] = c
        /\ \A i \in 1..Len(chan) : chan'[i] = chan[i]
    BY <1>0, <1>1, AppendProperties
  <2>2. \A i \in 1..Len(chan) : chan[i] # c
    BY <1>0, <1>3, SetOfSeq
  <2> SUFFICES ASSUME NEW i \in 1..Len(chan'), NEW j \in 1..Len(chan'), i < j
               PROVE  InOrder(chan[i], chan[j])'
    BY DEF ChannelInOrder
  <2>3. PICK x, y : x = chan'[i] /\ y = chan'[j]
    OBVIOUS
  <2>4. i \in 1..Len(chan) /\ x # c /\ x = chan[i]
    BY <1>0, <2>1, <2>2, <2>3
  <2>5. CASE j = Len(chan) + 1
    BY <1>8, <2>1, <2>3, <2>4, <2>5
  <2>6. CASE j # Len(chan) + 1
    <3>1. j \in 1..Len(chan) /\ y # c /\ y = chan[j]
      BY <1>0, <2>1, <2>2, <2>3, <2>6
    <3>2. InOrder(x, y)
      BY <2>4, <3>1 DEF OrderInv, ChannelInOrder
    <3>3. InOrder(x, y)'
      BY <1>7, <2>4, <3>1, <3>2
    <3> QED BY <2>3, <3>3
  <2> QED BY <2>5, <2>6
<1>12. QueueBeforeChannel'
  BY <1>1, <1>3, <1>7, <1>8, <1>9 DEF OrderInv, QueueBeforeChannel
<1>13. QueueInOrder'
  <2>1. \A i \in 1..Len(pending) : pending[i] # c
    BY <1>0, <1>3, QueueTypes, SetOfSeq
  <2> QED BY <1>1, <1>7, <2>1 DEF OrderInv, QueueInOrder, SameClass
<1>14. SteersFirst'
  BY <1>1 DEF OrderInv, SteersFirst
<1>15. FifoWithinClass'
  <2> SUFFICES ASSUME NEW i \in 1..Len(order'), NEW j \in 1..Len(order'), i < j,
                      order'[i] \in Steers <=> order'[j] \in Steers, wrote'[order'[j]] > 0
               PROVE  order'[i] \notin ToSet(chan') \cup ToSet(pending')
    BY DEF FifoWithinClass
  <2>1. j \in 1..Len(order)
    BY <1>1, <1>2, <1>5, <1>6
  <2>2. i \in 1..Len(order) /\ order[i] # c
    BY <1>0, <1>4, <2>1
  <2>3. order[i] \notin ToSet(chan) \cup ToSet(pending)
    BY <1>1, <1>5, <2>1, <2>2 DEF OrderInv, FifoWithinClass
  <2> QED BY <1>1, <1>5, <1>9, <2>2, <2>3
<1> QED BY <1>10, <1>11, <1>12, <1>13, <1>14, <1>15 DEF OrderInv

(* The worker takes a prompt from the channel into its queue: behind all   *)
(* of them, or behind the steers if it is one.                             *)
LEMMA OrderReceives ==
    ASSUME OrderInv, DeliveryInv, DeliveryInv', NEW c, RecvPrompt(c) \/ RecvSteer(c)
    PROVE  OrderInv'
<1>0. /\ TypeOK /\ TypeOK' /\ pending \in Seq(Prompts) /\ Len(pending) \in Nat
      /\ chan \in Seq(Cmd) /\ \A i \in 1..Len(pending) : pending[i] \in ToSet(pending)
  BY QueueTypes, SetOfSeq, LenProperties DEF DeliveryInv
<1>1. /\ chan # <<>> /\ c = Head(chan) /\ chan' = Tail(chan) /\ UNCHANGED <<order, rpc, wrote>>
  BY DEF RecvPrompt, RecvSteer, historyVars
<1>2. /\ c \in ToSet(chan) /\ c \in Prompts
      /\ ToSet(chan) = ToSet(chan') \cup {c} /\ ToSet(pending') = ToSet(pending) \cup {c}
  BY Received
<1>3. \A x, y : InOrder(x, y) => InOrder(x, y)'
  BY <1>1 DEF InOrder
<1>4. Thins(chan', chan)
  BY <1>0, <1>1, ThinsTail
<1>5. AcceptedOnce'
  BY <1>1 DEF OrderInv, AcceptedOnce
<1>6. ChannelInOrder'
  BY <1>3, <1>4 DEF OrderInv, ChannelInOrder, Thins
<1>7. QueueBeforeChannel'
  <2>1. ASSUME NEW y \in ToSet(chan') PROVE InOrder(c, y)
    <3>1. /\ Len(chan') = Len(chan) - 1 /\ Len(chan) \in Nat /\ c = chan[1]
          /\ \A i \in 1..Len(chan') : chan'[i] = chan[i + 1]
      BY <1>0, <1>1, HeadTailProperties, LenProperties
    <3>0. chan' \in Seq(Cmd)
      BY <1>0 DEF TypeOK
    <3>2. PICK i \in 1..Len(chan') : y = chan'[i]
      BY <2>1, <3>0, SetOfSeq
    <3>3. 1 \in 1..Len(chan) /\ i + 1 \in 1..Len(chan) /\ 1 < i + 1 /\ y = chan[i + 1]
      BY <3>1, <3>2
    <3> QED BY <3>1, <3>3 DEF OrderInv, ChannelInOrder
  <2> QED BY <1>2, <1>3, <2>1 DEF OrderInv, QueueBeforeChannel
<1>8. FifoWithinClass'
  BY <1>1, <1>2 DEF OrderInv, FifoWithinClass
<1>9. \A x \in ToSet(pending) : InOrder(x, c)
  BY <1>2 DEF OrderInv, QueueBeforeChannel
<1>10. QueueInOrder' /\ SteersFirst'
  <2>1. CASE RecvPrompt(c)
    <3>1. c \notin Steers
      BY <2>1, KindsAssumption DEF RecvPrompt
    <3>2. pending' = Append(pending, c)
      BY <2>1 DEF RecvPrompt
    <3>3. /\ Len(pending') = Len(pending) + 1 /\ pending'[Len(pending) + 1] = c
          /\ \A i \in 1..Len(pending) : pending'[i] = pending[i]
      BY <1>0, <1>2, <3>2, AppendProperties
    <3>4. ASSUME NEW i \in 1..Len(pending'), NEW j \in 1..Len(pending'), i < j
          PROVE  /\ SameClass(pending[i], pending[j])' => InOrder(pending[i], pending[j])'
                 /\ pending'[j] \in Steers => pending'[i] \in Steers
      <4>1. i \in 1..Len(pending) /\ pending'[i] = pending[i]
        BY <1>0, <3>3, <3>4
      <4>2. CASE j = Len(pending) + 1
        <5>1. InOrder(pending[i], c)
          BY <1>0, <1>9, <4>1
        <5> QED BY <1>3, <3>1, <3>3, <4>1, <4>2, <5>1
      <4>3. CASE j # Len(pending) + 1
        <5>1. j \in 1..Len(pending) /\ pending'[j] = pending[j]
          BY <1>0, <3>3, <4>3
        <5>2. SameClass(pending[i], pending[j]) => InOrder(pending[i], pending[j])
          BY <3>4, <4>1, <5>1 DEF OrderInv, QueueInOrder
        <5>3. pending[j] \in Steers => pending[i] \in Steers
          BY <3>4, <4>1, <5>1 DEF OrderInv, SteersFirst
        <5> QED BY <1>3, <4>1, <5>1, <5>2, <5>3 DEF SameClass
      <4> QED BY <4>2, <4>3
    <3> QED BY <3>4 DEF QueueInOrder, SteersFirst
  <2>2. CASE RecvSteer(c)
    <3>1. PICK k \in 1..Len(pending) + 1 : k = steer_slot(pending)
      BY <1>0, SteerSlotType
    <3>2. c \in Steers /\ pending' = InsertAt(pending, k, c)
      BY <2>2, <3>1 DEF RecvSteer
    <3>3. /\ Len(pending') = Len(pending) + 1
          /\ \A i \in 1..Len(pending) + 1 :
                pending'[i] = IF i < k THEN pending[i] ELSE IF i = k THEN c ELSE pending[i - 1]
      BY <1>0, <1>2, <3>1, <3>2, InsertPrompt
    <3>4. /\ \A i \in 1..Len(pending) : i < k => pending[i] \in Steers
          /\ \A i \in 1..Len(pending) : k <= i => pending[i] \notin Steers
      <4>1. /\ \A i \in 1..Len(pending) : i < k => pending[i] \in Steers
            /\ k <= Len(pending) => pending[k] \notin Steers
        BY <1>0, <3>1, SteerSlotFacts
      <4>2. ASSUME NEW i \in 1..Len(pending), k <= i PROVE pending[i] \notin Steers
        <5>1. k \in 1..Len(pending) /\ pending[k] \notin Steers
          BY <1>0, <4>1, <4>2
        <5>2. CASE k < i
          BY <5>1, <5>2 DEF OrderInv, SteersFirst
        <5> QED BY <4>2, <5>1, <5>2
      <4> QED BY <4>1, <4>2
    <3>5. ASSUME NEW i \in 1..Len(pending'), NEW j \in 1..Len(pending'), i < j
          PROVE  /\ SameClass(pending[i], pending[j])' => InOrder(pending[i], pending[j])'
                 /\ pending'[j] \in Steers => pending'[i] \in Steers
      <4>1. CASE j < k
        <5>1. /\ i \in 1..Len(pending) /\ j \in 1..Len(pending)
              /\ pending'[i] = pending[i] /\ pending'[j] = pending[j]
          BY <1>0, <3>3, <3>5, <4>1
        <5>2. SameClass(pending[i], pending[j]) => InOrder(pending[i], pending[j])
          BY <3>5, <5>1 DEF OrderInv, QueueInOrder
        <5>3. pending[i] \in Steers
          BY <1>0, <3>4, <3>5, <4>1, <5>1
        <5> QED BY <1>3, <5>1, <5>2, <5>3 DEF SameClass
      <4>2. CASE j = k
        <5>1. i \in 1..Len(pending) /\ pending'[i] = pending[i] /\ pending'[j] = c
          BY <1>0, <3>3, <3>5, <4>2
        <5>2. pending[i] \in Steers
          BY <3>4, <3>5, <4>2, <5>1
        <5>3. InOrder(pending[i], c)
          BY <1>0, <1>9, <5>1
        <5> QED BY <1>3, <5>1, <5>2, <5>3
      <4>3. CASE k < j /\ i < k
        <5>0. /\ i \in 1..Len(pending) /\ j - 1 \in 1..Len(pending) /\ k <= j - 1 /\ i < j - 1
              /\ i \in 1..Len(pending) + 1 /\ j \in 1..Len(pending) + 1
          BY <1>0, <3>1, <3>3, <3>5, <4>3
        <5>1. /\ i \in 1..Len(pending) /\ j - 1 \in 1..Len(pending) /\ k <= j - 1 /\ i < j - 1
              /\ pending'[i] = pending[i] /\ pending'[j] = pending[j - 1]
          BY <3>3, <4>3, <5>0
        <5>2. SameClass(pending[i], pending[j - 1]) => InOrder(pending[i], pending[j - 1])
          BY <5>1 DEF OrderInv, QueueInOrder
        <5>3. pending[i] \in Steers
          BY <3>4, <4>3, <5>1
        <5> QED BY <1>3, <5>1, <5>2, <5>3 DEF SameClass
      <4>4. CASE k < j /\ i = k
        <5>1. /\ j - 1 \in 1..Len(pending) /\ k <= j - 1
              /\ pending'[i] = c /\ pending'[j] = pending[j - 1]
          BY <1>0, <3>3, <3>5, <4>4
        <5>2. pending'[j] \notin Steers
          BY <3>4, <5>1
        <5> QED BY <3>2, <5>1, <5>2 DEF SameClass
      <4>5. CASE k < j /\ k < i
        <5>1. /\ i - 1 \in 1..Len(pending) /\ j - 1 \in 1..Len(pending) /\ i - 1 < j - 1
              /\ k <= j - 1
              /\ pending'[i] = pending[i - 1] /\ pending'[j] = pending[j - 1]
          BY <1>0, <3>3, <3>5, <4>5
        <5>2. SameClass(pending[i - 1], pending[j - 1]) => InOrder(pending[i - 1], pending[j - 1])
          BY <5>1 DEF OrderInv, QueueInOrder
        <5>3. pending[j - 1] \notin Steers
          BY <3>4, <5>1
        <5> QED BY <1>3, <5>1, <5>2, <5>3 DEF SameClass
      <4> QED BY <1>0, <3>1, <3>3, <4>1, <4>2, <4>3, <4>4, <4>5
    <3> QED BY <3>5 DEF QueueInOrder, SteersFirst
  <2> QED BY <2>1, <2>2
<1> QED BY <1>5, <1>6, <1>7, <1>8, <1>10 DEF OrderInv

(* The create's prompt is the first of the queue.                          *)
LEMMA OrderStarts ==
    ASSUME OrderInv, DeliveryInv, DeliveryInv', NEW c \in Creates, NEW p \in BOOLEAN, StartOk(c, p)
    PROVE  OrderInv'
<1>0. TypeOK /\ TypeOK' /\ chan \in Seq(Cmd)
  BY QueueTypes DEF DeliveryInv
<1>1. /\ UNCHANGED <<order, rpc, wrote, chan>>
      /\ pending' = <<>> \/ pending' = <<c>>
  BY DEF StartOk, historyVars
<1>2. Len(pending') <= 1 /\ ToSet(pending') \subseteq {c}
  <2>1. CASE pending' = <<>>
    BY <1>0, <2>1, QueueTypes
  <2>2. CASE pending' = <<c>>
    BY <2>2 DEF ToSet
  <2> QED BY <1>1, <2>1, <2>2
<1>3. \A i \in 1..Len(order) : order[i] # c
  BY DEF OrderInv, AcceptedOnce
<1>4. \A x, y : InOrder(x, y) => InOrder(x, y)'
  BY <1>1 DEF InOrder
<1>5. \A y : InOrder(c, y)'
  BY <1>1, <1>3 DEF InOrder
<1>6. AcceptedOnce' /\ ChannelInOrder'
  BY <1>1, <1>4 DEF OrderInv, AcceptedOnce, ChannelInOrder
<1>7. QueueBeforeChannel'
  BY <1>2, <1>5 DEF QueueBeforeChannel
<1>8. QueueInOrder' /\ SteersFirst'
  <2>1. Len(pending') \in Nat
    BY <1>0, LenProperties DEF TypeOK
  <2>2. \A i, j \in 1..Len(pending') : ~(i < j)
    BY <1>2, <2>1
  <2> QED BY <2>2 DEF QueueInOrder, SteersFirst
<1>9. FifoWithinClass'
  BY <1>1, <1>2, <1>3 DEF OrderInv, FifoWithinClass
<1> QED BY <1>6, <1>7, <1>8, <1>9 DEF OrderInv

(* What is written is the head: first of its class in the queue, and       *)
(* accepted before everything in the channel.                              *)
LEMMA OrderWrites ==
    ASSUME OrderInv, DeliveryInv, pending # <<>>, DriverWrites(Head(pending)),
           UNCHANGED <<order, rpc, chan, pending>>
    PROVE  OrderInv'
<1>0. /\ TypeOK /\ pending \in Seq(Prompts) /\ Len(pending) \in Nat
      /\ \A i \in 1..Len(order) : order[i] \in Cmd
  BY QueueTypes, ElementOfSeq, LenProperties DEF DeliveryInv, TypeOK
<1>1. PICK h : h = Head(pending)
  OBVIOUS
<1>2. h = pending[1] /\ 1 \in 1..Len(pending) /\ h \in Cmd
  BY <1>1, PendingElement
<1>3. \A d \in Cmd : d # h => wrote'[d] = wrote[d]
  BY <1>0, <1>1, <1>2 DEF DriverWrites, TypeOK
<1>4. \A x, y : InOrder(x, y) => InOrder(x, y)'
  BY DEF InOrder
<1>5. AcceptedOnce' /\ ChannelInOrder' /\ QueueBeforeChannel'
  BY <1>4 DEF OrderInv, AcceptedOnce, ChannelInOrder, QueueBeforeChannel
<1>6. QueueInOrder' /\ SteersFirst'
  BY <1>4 DEF OrderInv, QueueInOrder, SteersFirst, SameClass
<1>7. FifoWithinClass'
  <2> SUFFICES ASSUME NEW i \in 1..Len(order), NEW j \in 1..Len(order), i < j,
                      order[i] \in Steers <=> order[j] \in Steers, wrote'[order[j]] > 0,
                      order[i] \in ToSet(chan) \cup ToSet(pending)
               PROVE  FALSE
    BY DEF FifoWithinClass
  <2>1. order[j] = h
    BY <1>0, <1>3 DEF OrderInv, FifoWithinClass
  <2>2. h \in ToSet(pending)
    BY <1>0, <1>2, SetOfSeq
  <2>3. order[i] # h
    BY <2>1 DEF OrderInv, AcceptedOnce
  <2>4. ~InOrder(h, order[i])
    BY <2>1 DEF InOrder
  <2>5. order[i] \notin ToSet(chan)
    BY <2>2, <2>4 DEF OrderInv, QueueBeforeChannel
  <2>6. PICK k \in 1..Len(pending) : pending[k] = order[i]
    BY <1>0, <2>5, SetOfSeq
  <2>7. 1 < k
    BY <1>0, <1>2, <2>3, <2>6
  <2>8. SameClass(pending[1], pending[k])
    BY <1>2, <2>1, <2>6 DEF SameClass
  <2>9. InOrder(pending[1], pending[k])
    BY <1>2, <2>6, <2>7, <2>8 DEF OrderInv, QueueInOrder
  <2> QED BY <1>2, <2>4, <2>6, <2>9
<1> QED BY <1>5, <1>6, <1>7 DEF OrderInv

(* An answered command stays answered.                                     *)
LEMMA AnsweredStays ==
    ASSUME TypeOK, [Next]_vars
    PROVE  \A c \in Cmd : rpc[c] = "answered" => rpc'[c] = "answered"
<1> USE DEF TypeOK
<1>1. CASE rpc' = rpc
  BY <1>1
<1>2. CASE Submit
  BY <1>2 DEF Submit, Admit, insert_command, enqueue_existing, EnqueueRejected, CloseEnded,
     AnswerSubmit
<1>3. CASE Create
  BY <1>3, KindFacts DEF Create, CreateCheck, record_lineage, CreateInsert, CreateAccept
<1>4. CASE Fence
  BY <1>4 DEF Fence, persist_fence_frame, apply_lineage_fence, FenceClose
<1>5. CASE \E survives \in BOOLEAN : Restart(survives)
  BY <1>5 DEF Restart
<1>6. CASE Start \/ Recv \/ Control \/ UNCHANGED vars
  BY <1>1, <1>6 DEF vars, Start, StartOk, StartFail, BuildFail, BuildFailReturn, Recv, RecvFull,
     RecvPrompt, RecvSteer, RecvControl, Control, ControlClaim, ControlOk, ControlErr,
     ControlReturn
<1>7. CASE Gate \/ HeldInput \/ Harness
  BY <1>1, <1>7 DEF Gate, Tick, apply_held_changes, TickDrained, TickNotReady, TickGated,
     TickDeliver, HeldInput, withdraw, edit, Harness, SignalActivity, DialogOpens, DialogAnswered,
     BudgetPasses, record_native_exit
<1>8. CASE Deliver
  BY <1>1, <1>8 DEF Deliver, ResolveOk, ResolveFail, ProbeUnavailable, ProbeErr, ClaimWithdrawn,
     ClaimDeliver, ClaimFenced, ClaimDispatch, ExecuteOk, ExecuteUnavailable, ExecuteErr, SettleOk,
     SettleErr
<1> QED BY <1>2, <1>3, <1>4, <1>5, <1>6, <1>7, <1>8 DEF Next

LEMMA OrderNext ==
    ASSUME OrderInv, DeliveryInv, DeliveryInv', [Next]_vars PROVE OrderInv'
<1>0. TypeOK /\ TypeOK' /\ Prompts \subseteq Cmd
  BY KindFacts DEF DeliveryInv
<1>1. \A c \in Cmd : rpc[c] = "answered" => rpc'[c] = "answered"
  BY <1>0, AnsweredStays
<1>2. ASSUME UNCHANGED <<order, chan, pending>>, \A c \in Prompts : wrote'[c] = wrote[c]
      PROVE  OrderInv'
  BY <1>0, <1>1, <1>2, OrderThins, ThinsSame
<1>3. CASE UNCHANGED vars \/ Create \/ Fence \/ Harness \/ HeldInput
  <2>1. UNCHANGED <<order, chan, pending, wrote>>
    BY <1>3 DEF vars, queueVars, historyVars, Create, CreateCheck, record_lineage, CreateInsert,
       CreateAccept, Fence, persist_fence_frame, apply_lineage_fence, FenceClose, Harness,
       SignalActivity, DialogOpens, DialogAnswered, BudgetPasses, record_native_exit, HeldInput,
       withdraw, edit
  <2> QED BY <1>2, <2>1
<1>4. CASE Submit
  <2> PICK c \in Cmd : \/ Admit(c) \/ insert_command(c) \/ enqueue_existing(c)
                       \/ EnqueueRejected(c) \/ CloseEnded(c)
    BY <1>4 DEF Submit
  <2>1. CASE enqueue_existing(c)
    BY <2>1, OrderAccepts
  <2>2. CASE Admit(c) \/ insert_command(c) \/ EnqueueRejected(c) \/ CloseEnded(c)
    <3>1. /\ UNCHANGED <<order, chan, pending>>
          /\ \/ wrote' = wrote
             \/ c \in Closes \cup FenceCloses /\ wrote' = [wrote EXCEPT ![c] = @ + 1]
      BY <2>2 DEF Admit, insert_command, EnqueueRejected, CloseEnded, queueVars, historyVars
    <3>2. \A d \in Prompts : wrote'[d] = wrote[d]
      BY <1>0, <3>1, KindsAssumption DEF TypeOK, Controls, Cmd
    <3> QED BY <1>2, <3>1, <3>2
  <2> QED BY <2>1, <2>2
<1>5. CASE Start
  <2>1. CASE \E c \in Creates, p \in BOOLEAN : StartOk(c, p)
    BY <2>1, OrderStarts
  <2>2. CASE (\E c \in Creates : StartFail(c)) \/ BuildFail \/ BuildFailReturn
    <3>1. UNCHANGED <<order, pending, wrote>> /\ (chan' = chan \/ chan' = <<>>)
      BY <2>2 DEF StartFail, BuildFail, BuildFailReturn, queueVars, historyVars
    <3> QED BY <1>0, <1>1, <3>1, OrderThins, ThinsSame, ThinsEmpty
  <2> QED BY <1>5, <2>1, <2>2 DEF Start
<1>6. CASE Recv
  <2> PICK c \in Cmd : RecvFull(c) \/ RecvPrompt(c) \/ RecvSteer(c) \/ RecvControl(c)
    BY <1>6 DEF Recv
  <2>1. CASE RecvPrompt(c) \/ RecvSteer(c)
    BY <2>1, OrderReceives
  <2>2. CASE RecvFull(c) \/ RecvControl(c)
    <3>1. /\ UNCHANGED <<order, wrote>> /\ chan # <<>> /\ chan' = Tail(chan)
          /\ pending' = pending \/ pending' = <<>>
      BY <2>2 DEF RecvFull, RecvControl, interrupt_pending, historyVars
    <3>2. Thins(chan', chan)
      BY <1>0, <3>1, QueueTypes, ThinsTail
    <3>3. Thins(pending', pending)
      BY <3>1, ThinsSame, ThinsEmpty
    <3> QED BY <1>0, <1>1, <3>1, <3>2, <3>3, OrderThins
  <2> QED BY <2>1, <2>2
<1>7. CASE Control
  <2>1. /\ UNCHANGED <<order, pending>> /\ (chan' = chan \/ chan' = <<>>)
        /\ \/ wrote' = wrote
           \/ ctl \in Controls /\ wrote' = [wrote EXCEPT ![ctl] = @ + 1]
    BY <1>0, <1>7 DEF Control, ControlClaim, ControlOk, ControlErr, ControlReturn, queueVars,
       historyVars, TypeOK
  <2>2. \A d \in Prompts : wrote'[d] = wrote[d]
    BY <1>0, <2>1, KindsAssumption DEF TypeOK, Cmd
  <2>3. Thins(chan', chan) /\ Thins(pending', pending)
    BY <2>1, ThinsSame, ThinsEmpty
  <2> QED BY <1>0, <1>1, <2>1, <2>2, <2>3, OrderThins
<1>8. CASE Gate
  <2>1. /\ UNCHANGED <<order, chan, wrote>>
        /\ \/ pending' = pending \/ pending' = <<>>
           \/ scan \in 1..Len(pending) /\ pending' = RemoveAt(pending, scan)
    BY <1>8 DEF Gate, Tick, apply_held_changes, TickDrained, TickNotReady, TickGated, TickDeliver,
       interrupt_pending, queueVars, historyVars
  <2>2. Thins(pending', pending)
    BY <1>0, <2>1, QueueTypes, ThinsSame, ThinsEmpty, ThinsRemove
  <2>3. Thins(chan', chan)
    BY <2>1, ThinsSame
  <2> QED BY <1>0, <1>1, <2>1, <2>2, <2>3, OrderThins
<1>9. CASE Deliver
  <2>1. /\ pending # <<>> /\ UNCHANGED <<order, chan, rpc>>
        /\ \/ UNCHANGED <<pending, wrote>>
           \/ pending' = Tail(pending) /\ wrote' = wrote
           \/ pending' = pending /\ DriverWrites(Head(pending))
    BY <1>0, <1>9 DEF TypeOK, Deliver, ResolveOk, ResolveFail, ProbeUnavailable, ProbeErr,
       ClaimWithdrawn, ClaimDeliver, ClaimFenced, ClaimDispatch, ExecuteOk, ExecuteUnavailable,
       ExecuteErr, SettleOk, SettleErr, PopHead, queueVars, historyVars
  <2>2. CASE UNCHANGED <<pending, wrote>>
    BY <1>2, <2>1, <2>2
  <2>3. CASE pending' = Tail(pending) /\ wrote' = wrote
    <3>1. Thins(pending', pending) /\ Thins(chan', chan)
      BY <1>0, <2>1, <2>3, QueueTypes, ThinsTail, ThinsSame
    <3> QED BY <1>0, <1>1, <2>1, <2>3, <3>1, OrderThins
  <2>4. CASE pending' = pending /\ DriverWrites(Head(pending))
    BY <2>1, <2>4, OrderWrites
  <2> QED BY <2>1, <2>2, <2>3, <2>4
<1>10. CASE \E survives \in BOOLEAN : Restart(survives)
  <2>1. UNCHANGED <<order, wrote>> /\ chan' = <<>> /\ pending' = <<>>
    BY <1>10 DEF Restart
  <2> QED BY <1>0, <1>1, <2>1, OrderThins, ThinsEmpty
<1> QED BY <1>3, <1>4, <1>5, <1>6, <1>7, <1>8, <1>9, <1>10 DEF Next

LEMMA OrderInit == Init => OrderInv
<1> SUFFICES ASSUME Init PROVE OrderInv
  OBVIOUS
<1>1. chan = <<>> /\ pending = <<>> /\ order = <<>>
  BY DEF Init
<1>2. Len(chan) = 0 /\ Len(pending) = 0 /\ Len(order) = 0
  BY <1>1
<1>3. \A x, y : InOrder(x, y)
  BY <1>2 DEF InOrder
<1>4. AcceptedOnce /\ FifoWithinClass
  BY <1>2 DEF AcceptedOnce, FifoWithinClass
<1>5. ChannelInOrder /\ QueueBeforeChannel
  BY <1>3 DEF ChannelInOrder, QueueBeforeChannel
<1>6. QueueInOrder /\ SteersFirst
  BY <1>2, <1>3 DEF QueueInOrder, SteersFirst
<1> QED BY <1>4, <1>5, <1>6 DEF OrderInv

(* Within steers, and within all other prompts, the harness is given the   *)
(* prompts in the order the Node accepted them: the worker's queue never   *)
(* lets one overtake, whatever is withdrawn, dropped or tried again        *)
(* (runtime/pty_queue.rs, enqueue and deliver).                            *)
THEOREM FifoCorrect == Spec => []FifoWithinClass
<1>1. Init => OrderInv
  BY OrderInit
<1>2. OrderInv /\ DeliveryInv /\ DeliveryInv' /\ [Next]_vars => OrderInv'
  BY OrderNext
<1>3. Spec => []DeliveryInv
  BY DeliveryCorrect
<1>4. OrderInv => FifoWithinClass
  BY DEF OrderInv
<1> QED BY <1>1, <1>2, <1>3, <1>4, PTL DEF Spec

-----------------------------------------------------------------------------
(* The Esc in front of a steer (pty_queue.rs, arm_steer_interrupt).  The   *)
(* deadline belongs to the steer at the head, which has had its Esc; that  *)
(* is so as long as no steer leaves the queue but from its head: a steer   *)
(* that is withdrawn, and the steers a cancel or a failed close drops,     *)
(* leave the deadline behind.                                              *)

SteersLeaveByHead == Withdrawable \cap Steers = {} /\ Cancels \cup Closes \cup FenceCloses = {}

WithdrawnIsOffered == \A c \in Cmd : held[c].st = "withdrawn" => c \in Withdrawable

(* A turn that is over owes no Esc, and the deadline has its steer.        *)
TurnOwesEsc == activity # "working" => unescaped = {}
DeadlineHasSteer == deadline # "none" => pending # <<>> /\ Head(pending) \in Steers \ unescaped

EscInv ==
    /\ pc \in {"absent", "starting"} => deadline = "none" /\ unescaped = {}
    /\ lifecycle = "ready" => TurnOwesEsc /\ DeadlineHasSteer

(* A step that leaves the queue, the deadline and the running turn alone.  *)
LEMMA EscFrame ==
    ASSUME EscInv, UNCHANGED <<pending, deadline, unescaped>>,
           pc' \in {"absent", "starting"} => pc \in {"absent", "starting"},
           lifecycle' = "ready" => lifecycle = "ready" /\ (activity = "working" => activity' = "working")
    PROVE  EscInv'
BY DEF EscInv, TurnOwesEsc, DeadlineHasSteer

(* The head leaves the queue; a steer behind it gets its Esc, or the       *)
(* deadline is cleared.                                                    *)
LEMMA EscPopHead ==
    ASSUME EscInv, DeliveryInv, pending # <<>>, lifecycle' = lifecycle, PopHead(activity')
    PROVE  EscInv'
<1>1. /\ pending \in Seq(Prompts) /\ pending' = Tail(pending) /\ pc' = "select"
      /\ pending' \in Seq(Prompts)
  BY QueueTypes, PopHeadType DEF DeliveryInv
<1> SUFFICES ASSUME lifecycle = "ready" PROVE TurnOwesEsc' /\ DeadlineHasSteer'
  BY <1>1 DEF EscInv
<1>2. DeadlineHasSteer
  BY DEF EscInv
<1>3. CASE pending' # <<>> /\ Head(pending') \in Steers /\ activity' = "working"
  <2>1. unescaped' = unescaped \ ToSet(pending')
    BY <1>1, <1>3 DEF PopHead, arm_steer_interrupt
  <2>2. Head(pending') \in ToSet(pending')
    BY <1>1, <1>3, SetOfTail
  <2> QED BY <1>3, <2>1, <2>2 DEF TurnOwesEsc, DeadlineHasSteer
<1>4. CASE ~(pending' # <<>> /\ Head(pending') \in Steers /\ activity' = "working")
  <2>1. /\ deadline' = IF Head(pending) \in Steers THEN "none" ELSE deadline
        /\ unescaped' = UnescapedIn(activity')
    BY <1>1, <1>4 DEF PopHead
  <2> QED BY <1>2, <2>1 DEF UnescapedIn, TurnOwesEsc, DeadlineHasSteer
<1> QED BY <1>3, <1>4

(* A prompt or a steer is received: the head of the queue stays what it is,*)
(* unless a steer arrives where none waits.                                *)
LEMMA EscReceives ==
    ASSUME EscInv, DeliveryInv, DeliveryInv', NEW c, RecvPrompt(c) \/ RecvSteer(c)
    PROVE  EscInv'
<1>0. /\ pending \in Seq(Prompts) /\ Len(pending) \in Nat
      /\ pc = "select" /\ pc' = "select" /\ UNCHANGED lifecycle
      /\ activity = "working" => activity' = "working"
  BY QueueTypes, LenProperties DEF DeliveryInv, RecvPrompt, RecvSteer, workerVars, remark_after_enqueue
<1>1. /\ c \in Prompts /\ c \notin ToSet(pending)
  BY Received
<1> SUFFICES ASSUME lifecycle = "ready" PROVE TurnOwesEsc' /\ DeadlineHasSteer'
  BY <1>0 DEF EscInv
<1>2. TurnOwesEsc /\ DeadlineHasSteer
  BY DEF EscInv
<1>3. CASE RecvPrompt(c)
  <2>1. pending' = Append(pending, c) /\ UNCHANGED <<deadline, unescaped>>
    BY <1>3 DEF RecvPrompt, workerVars, historyVars
  <2>2. pending # <<>> => pending' # <<>> /\ Head(pending') = Head(pending)
    BY <1>0, <1>1, <2>1
  <2> QED BY <1>0, <1>2, <2>1, <2>2 DEF TurnOwesEsc, DeadlineHasSteer
<1>4. CASE RecvSteer(c)
  <2>1. PICK k \in 1..Len(pending) + 1 : k = steer_slot(pending)
    BY <1>0, SteerSlotType
  <2>2. c \in Steers /\ pending' = InsertAt(pending, k, c)
    BY <1>4, <2>1 DEF RecvSteer
  <2>3. /\ Len(pending') = Len(pending) + 1
        /\ \A i \in 1..Len(pending) + 1 :
              pending'[i] = IF i < k THEN pending[i] ELSE IF i = k THEN c ELSE pending[i - 1]
    <3>1. pending \in Seq(Prompts) /\ c \in Prompts /\ k \in 1..Len(pending) + 1
      BY <1>0, <1>1, <2>1
    <3>2. pending' = InsertAt(pending, k, c)
      BY <2>2
    <3> QED BY ONLY <3>1, <3>2, InsertPrompt
  <2>0. pending' \in Seq(Prompts) /\ pending' # <<>>
    BY <1>0, <2>3 DEF DeliveryInv, TypeOK
  <2>4. pending' # <<>> /\ Head(pending') = pending'[1] /\ Head(pending') \in ToSet(pending')
    BY <2>0, SetOfTail
  <2>5. Head(pending') = c \/ (pending # <<>> /\ Head(pending') = Head(pending) /\ Head(pending) \in Steers)
    <3>1. CASE k = 1
      BY <1>0, <2>3, <2>4, <3>1
    <3>2. CASE k # 1
      <4>1. 1 \in 1..Len(pending) /\ 1 < k
        BY <1>0, <2>1, <3>2
      <4>2. pending[1] \in Steers
        BY <1>0, <2>1, <4>1, SteerSlotFacts
      <4>3. pending # <<>> /\ Head(pending) = pending[1]
        BY <1>0, <4>1
      <4> QED BY <1>0, <2>3, <2>4, <4>1, <4>2, <4>3
    <3> QED BY <3>1, <3>2
  <2>6. Head(pending') \in Steers
    BY <2>2, <2>5
  <2>7. CASE activity = "working" /\ deadline = "none"
    <3>1. unescaped' = unescaped \ ToSet(pending')
      BY <1>4, <2>7 DEF RecvSteer, arm_steer_interrupt
    <3> QED BY <1>0, <2>4, <2>6, <2>7, <3>1 DEF TurnOwesEsc, DeadlineHasSteer
  <2>8. CASE activity # "working" /\ deadline = "none"
    <3>1. unescaped' = {}
      BY <1>2, <1>4, <2>8 DEF RecvSteer, TurnOwesEsc
    <3> QED BY <2>4, <2>6, <3>1 DEF TurnOwesEsc, DeadlineHasSteer
  <2>9. CASE deadline # "none"
    <3>1. /\ pending # <<>> /\ Head(pending) \in Steers \ unescaped
          /\ Head(pending) \in ToSet(pending)
      BY <1>0, <1>2, <2>9, SetOfTail DEF DeadlineHasSteer
    <3>2. Head(pending') = Head(pending)
      <4>1. k # 1
        <5>1. 1 \in 1..Len(pending) /\ Head(pending) = pending[1]
          BY <1>0, <3>1
        <5>2. k <= Len(pending) => pending[k] \notin Steers
          BY <1>0, <2>1, SteerSlotFacts
        <5> QED BY <1>0, <3>1, <5>1, <5>2
      <4>2. 1 \in 1..Len(pending) /\ 1 < k
        BY <1>0, <2>1, <4>1
      <4> QED BY <1>0, <2>3, <2>4, <4>2
    <3>3. unescaped' = IF activity = "working" THEN unescaped \cup {c} ELSE unescaped
      BY <1>4, <2>9 DEF RecvSteer
    <3>4. c # Head(pending)
      BY <1>1, <3>1
    <3> QED BY <1>0, <1>2, <2>4, <3>1, <3>2, <3>3, <3>4 DEF TurnOwesEsc, DeadlineHasSteer
  <2> QED BY <2>7, <2>8, <2>9
<1> QED BY <1>3, <1>4

(* What the registry marks withdrawn, the Hub asked to withdraw.           *)
LEMMA OfferedNext ==
    ASSUME DeliveryInv, WithdrawnIsOffered, [Next]_vars PROVE WithdrawnIsOffered'
<1>0. TypeOK
  BY DEF DeliveryInv
<1>1. ASSUME \A c \in Cmd : held'[c].st = "withdrawn" => held[c].st = "withdrawn" \/ c \in Withdrawable
      PROVE  WithdrawnIsOffered'
  BY <1>1 DEF WithdrawnIsOffered
<1>2. CASE held' = held
  BY <1>1, <1>2
<1>3. CASE Start
  <2>1. held' = held \/ \E c \in Creates : held' = [held EXCEPT ![c] = hold]
    BY <1>3 DEF Start, StartOk, StartFail, BuildFail, BuildFailReturn, queueVars
  <2> QED BY <1>0, <1>1, <2>1, QueueTypes DEF hold, NotHeld
<1>4. CASE Recv
  <2> PICK c \in Cmd : RecvFull(c) \/ RecvPrompt(c) \/ RecvSteer(c) \/ RecvControl(c)
    BY <1>4 DEF Recv
  <2>1. CASE RecvFull(c) \/ RecvPrompt(c) \/ RecvSteer(c)
    <3>1. held' = held \/ held' = [held EXCEPT ![c] = hold]
      BY <2>1 DEF RecvFull, RecvPrompt, RecvSteer
    <3> QED BY <1>0, <1>1, <3>1, QueueTypes DEF hold, NotHeld
  <2>2. CASE RecvControl(c)
    <3>1. held' = held \/ interrupt_pending
      BY <2>2 DEF RecvControl
    <3> QED BY <1>0, <1>1, <3>1, Interrupted DEF NotHeld
  <2> QED BY <2>1, <2>2
<1>5. CASE Gate
  <2>1. CASE apply_held_changes
    <3>1. scan \in 1..Len(pending) /\ pending[scan] \in Cmd
      BY <1>0, <2>1, QueueTypes, SetOfSeq DEF apply_held_changes
    <3>2. \/ held' = held \/ held' = [held EXCEPT ![pending[scan]] = NotHeld]
          \/ held' = [held EXCEPT ![pending[scan]].text = NoText]
      BY <2>1 DEF apply_held_changes
    <3>3. CASE held' = [held EXCEPT ![pending[scan]] = NotHeld]
      BY <1>0, <1>1, <3>1, <3>3, QueueTypes DEF NotHeld
    <3>4. CASE held' = [held EXCEPT ![pending[scan]].text = NoText]
      <4> PICK c \in Cmd : c = pending[scan]
        BY <3>1
      <4>1. held' = [held EXCEPT ![c].text = NoText] /\ held \in [Cmd -> HeldEntry]
        BY <1>0, <3>4 DEF TypeOK
      <4>2. \A d \in Cmd : held'[d].st = held[d].st
        BY <4>1 DEF HeldEntry
      <4> QED BY <1>1, <4>2
    <3> QED BY <1>2, <3>2, <3>3, <3>4
  <2>2. CASE TickNotReady
    <3>1. interrupt_pending
      BY <2>2 DEF TickNotReady
    <3> QED BY <1>0, <1>1, <3>1, Interrupted DEF NotHeld
  <2>3. CASE ~apply_held_changes /\ ~TickNotReady
    BY <1>2, <1>5, <2>3 DEF Gate, Tick, TickDrained, TickGated, TickDeliver, queueVars
  <2> QED BY <2>1, <2>2, <2>3
<1>6. CASE Deliver
  <2> DEFINE h == Head(pending)
  <2>1. pending # <<>>
    BY <1>0, <1>6 DEF TypeOK, Deliver, ResolveOk, ResolveFail, ProbeUnavailable, ProbeErr,
       ClaimWithdrawn, ClaimDeliver, ClaimFenced, ClaimDispatch, ExecuteOk, ExecuteUnavailable,
       ExecuteErr, SettleOk, SettleErr
  <2>2. h \in Cmd
    BY <1>0, <2>1, QueueHead
  <2>3. \/ held' = held \/ held' = [held EXCEPT ![h] = NotHeld]
        \/ held' = [held EXCEPT ![h].st = "delivering", ![h].text = NoText]
        \/ held' = [held EXCEPT ![h].st = "waiting"]
    BY <1>6 DEF Deliver, ResolveOk, ResolveFail, ProbeUnavailable, ProbeErr, ClaimWithdrawn,
       ClaimDeliver, ClaimFenced, ClaimDispatch, ExecuteOk, ExecuteUnavailable, ExecuteErr,
       SettleOk, SettleErr, queueVars
  <2> HIDE DEF h
  <2>4. held \in [Cmd -> HeldEntry]
    BY <1>0 DEF TypeOK
  <2>5. CASE held' = [held EXCEPT ![h] = NotHeld]
    BY <1>1, <2>2, <2>4, <2>5 DEF NotHeld
  <2>6. CASE held' = [held EXCEPT ![h].st = "delivering", ![h].text = NoText]
    <3>1. held'[h].st = "delivering" /\ \A d \in Cmd \ {h} : held'[d] = held[d]
      BY <2>2, <2>4, <2>6 DEF HeldEntry
    <3> QED BY <1>1, <2>2, <3>1
  <2>7. CASE held' = [held EXCEPT ![h].st = "waiting"]
    <3>1. held'[h].st = "waiting" /\ \A d \in Cmd \ {h} : held'[d] = held[d]
      BY <2>2, <2>4, <2>7 DEF HeldEntry
    <3> QED BY <1>1, <2>2, <3>1
  <2> QED BY <1>2, <2>3, <2>5, <2>6, <2>7
<1>7. CASE HeldInput
  <2>1. CASE \E c \in Prompts : withdraw(c)
    <3>1. PICK c \in Prompts : withdraw(c)
      BY <2>1
    <3>2. c \in Withdrawable /\ c \in Cmd /\ held' = [held EXCEPT ![c].st = "withdrawn"]
      BY <1>0, <3>1, QueueTypes DEF withdraw
    <3> QED BY <1>0, <1>1, <3>2, HeldMoves
  <2>2. CASE \E c \in Prompts, e \in 0..MaxRevision, t \in Texts : edit(c, e, t)
    <3>1. PICK c \in Prompts, e \in 0..MaxRevision, t \in Texts : edit(c, e, t)
      BY <2>2
    <3>2. c \in Cmd /\ held' = [held EXCEPT ![c].rev = e + 1, ![c].text = t]
      BY <1>0, <3>1, QueueTypes DEF edit
    <3>3. \A d \in Cmd : held'[d].st = held[d].st
      BY <1>0, <3>2, QueueTypes DEF HeldEntry
    <3> QED BY <1>1, <3>3
  <2> QED BY <1>7, <2>1, <2>2 DEF HeldInput
<1>8. CASE \E survives \in BOOLEAN : Restart(survives)
  BY <1>1, <1>8 DEF Restart, NotHeld
<1>9. CASE UNCHANGED vars \/ Submit \/ Create \/ Control \/ Fence \/ Harness
  <2>1. held' = held
    BY <1>9 DEF vars, queueVars, Submit, Admit, insert_command, enqueue_existing, EnqueueRejected,
       CloseEnded, Create, CreateCheck, record_lineage, CreateInsert, CreateAccept, Control,
       ControlClaim, ControlOk, ControlErr, ControlReturn, Fence, persist_fence_frame,
       apply_lineage_fence, FenceClose, Harness, SignalActivity, DialogOpens, DialogAnswered,
       BudgetPasses, record_native_exit
  <2> QED BY <1>2, <2>1
<1> QED BY <1>3, <1>4, <1>5, <1>6, <1>7, <1>8, <1>9 DEF Next

(* Every step keeps the deadline with the steer at the head.               *)
LEMMA EscNext ==
    ASSUME SteersLeaveByHead, DeliveryInv, DeliveryInv', WithdrawnIsOffered, EscInv, [Next]_vars
    PROVE  EscInv'
<1>0. TypeOK /\ pending \in Seq(Prompts) /\ Cancels = {} /\ Closes = {} /\ FenceCloses = {}
  BY QueueTypes DEF DeliveryInv, SteersLeaveByHead
<1>1. CASE UNCHANGED vars
  BY <1>1, EscFrame DEF vars, storeVars, queueVars, workerVars, historyVars
<1>2. CASE Submit
  <2>1. UNCHANGED <<pending, deadline, unescaped, pc, lifecycle, activity>>
    BY <1>0, <1>2 DEF Submit, Admit, insert_command, enqueue_existing, EnqueueRejected, CloseEnded,
       storeVars, queueVars, workerVars, historyVars
  <2> QED BY <2>1, EscFrame
<1>3. CASE Create
  <2>1. /\ UNCHANGED <<pending, deadline, unescaped, activity>>
        /\ pc' = pc \/ pc = "absent"
        /\ lifecycle' = lifecycle \/ lifecycle' = "starting"
    BY <1>3 DEF Create, CreateCheck, record_lineage, CreateInsert, CreateAccept, storeVars,
       queueVars, workerVars, historyVars
  <2> QED BY <2>1, EscFrame
<1>4. CASE Start
  <2>1. CASE \E c \in Creates, hasPrompt \in BOOLEAN : StartOk(c, hasPrompt)
    <3>1. pc = "starting" /\ pc' = "select" /\ UNCHANGED <<deadline, unescaped>>
      BY <2>1 DEF StartOk, historyVars
    <3> QED BY <3>1 DEF EscInv, TurnOwesEsc, DeadlineHasSteer
  <2>2. CASE ~\E c \in Creates, hasPrompt \in BOOLEAN : StartOk(c, hasPrompt)
    <3>1. /\ UNCHANGED <<pending, deadline, unescaped>>
          /\ pc' \in {"ended", "failing"}
          /\ (lifecycle' = lifecycle /\ activity' = activity) \/ lifecycle' = "failed"
      BY <1>4, <2>2 DEF Start, StartFail, BuildFail, BuildFailReturn, record_task_exit, storeVars,
         queueVars, historyVars
    <3> QED BY <3>1, EscFrame
  <2> QED BY <2>1, <2>2
<1>5. CASE Recv
  <2> PICK c \in Cmd : RecvFull(c) \/ RecvPrompt(c) \/ RecvSteer(c) \/ RecvControl(c)
    BY <1>5 DEF Recv
  <2>1. CASE RecvPrompt(c) \/ RecvSteer(c)
    BY <2>1, EscReceives
  <2>2. CASE RecvFull(c)
    <3>1. /\ UNCHANGED <<pending, deadline, unescaped, pc, lifecycle>>
          /\ activity = "working" => activity' = "working"
      BY <2>2 DEF RecvFull, workerVars, historyVars, remark_after_queue_change, remark_after_enqueue
    <3> QED BY <3>1, EscFrame
  <2>3. CASE RecvControl(c)
    <3>1. UNCHANGED <<pending, deadline, unescaped, lifecycle, activity>> /\ pc' = "control"
      BY <1>0, <2>3 DEF RecvControl, historyVars, Controls
    <3> QED BY <3>1, EscFrame
  <2> QED BY <2>1, <2>2, <2>3
<1>6. CASE Control
  <2>1. CASE ControlOk
    <3>1. /\ UNCHANGED <<pending, deadline, lifecycle>> /\ unescaped' = {}
          /\ pc' = "controlDone"
      BY <1>0, <2>1 DEF ControlOk, queueVars, UnescapedIn
    <3> QED BY <3>1 DEF EscInv, TurnOwesEsc, DeadlineHasSteer
  <2>2. CASE ~ControlOk
    <3>1. /\ UNCHANGED <<pending, deadline, unescaped, lifecycle>>
          /\ pc' \notin {"absent", "starting"}
          /\ activity = "working" => activity' = "working"
      BY <1>0, <1>6, <2>2 DEF Control, ControlClaim, ControlErr, ControlReturn, queueVars,
         historyVars, remark_after_queue_change, remark_after_enqueue
    <3> QED BY <3>1, EscFrame
  <2> QED BY <2>1, <2>2
<1>7. CASE Gate
  <2>1. CASE apply_held_changes
    <3>1. /\ UNCHANGED <<deadline, unescaped, pc, lifecycle, activity>>
          /\ scan \in 1..Len(pending)
          /\ \/ pending' = pending
             \/ held[pending[scan]].st = "withdrawn" /\ pending' = RemoveAt(pending, scan)
      BY <2>1 DEF apply_held_changes, historyVars
    <3>2. CASE pending' = pending
      BY <3>1, <3>2, EscFrame
    <3>3. CASE held[pending[scan]].st = "withdrawn" /\ pending' = RemoveAt(pending, scan)
      <4>1. pending[scan] \in Prompts /\ pending[scan] \in Cmd
        BY <1>0, <3>1 DEF Cmd
      <4>2. pending[scan] \notin Steers
        BY <3>3, <4>1 DEF WithdrawnIsOffered, SteersLeaveByHead
      <4>3. /\ Len(pending') = Len(pending) - 1
            /\ \A i \in 1..Len(pending) - 1 :
                  pending'[i] = IF i < scan THEN pending[i] ELSE pending[i + 1]
        BY <1>0, <3>1, <3>3, RemoveAtFacts
      <4>4. pending # <<>> /\ Head(pending) \in Steers => pending' # <<>> /\ Head(pending') = Head(pending)
        <5> SUFFICES ASSUME pending # <<>>, Head(pending) \in Steers
                     PROVE  pending' # <<>> /\ Head(pending') = Head(pending)
          OBVIOUS
        <5>1. Head(pending) = pending[1] /\ Len(pending) \in Nat
          BY <1>0
        <5>2. scan # 1
          BY <4>2, <5>1
        <5>3. 1 < scan /\ 1 \in 1..Len(pending) - 1
          BY <3>1, <5>1, <5>2
        <5>4. pending'[1] = pending[1] /\ Len(pending') > 0
          BY <4>3, <5>1, <5>3
        <5>5. pending' \in Seq(Prompts)
          BY QueueTypes DEF DeliveryInv, TypeOK
        <5> QED BY <5>1, <5>4, <5>5
      <4> QED BY <3>1, <4>4 DEF EscInv, TurnOwesEsc, DeadlineHasSteer
    <3> QED BY <3>1, <3>2, <3>3
  <2>2. CASE TickNotReady
    <3>1. lifecycle' # "ready" /\ pc' = "select"
      BY <2>2 DEF TickNotReady
    <3> QED BY <3>1 DEF EscInv
  <2>3. CASE ~apply_held_changes /\ ~TickNotReady
    <3>1. /\ UNCHANGED <<pending, deadline, unescaped, lifecycle>>
          /\ pc' \in {"scan", "select", "resolve"}
          /\ activity = "working" => activity' = "working"
      BY <1>7, <2>3 DEF Gate, Tick, TickDrained, TickGated, TickDeliver, storeVars, queueVars,
         historyVars
    <3> QED BY <3>1, EscFrame
  <2> QED BY <2>1, <2>2, <2>3
<1>8. CASE Deliver
  <2>1. CASE ResolveFail \/ ClaimWithdrawn \/ ClaimFenced \/ SettleOk \/ SettleErr
    <3>1. pending # <<>> /\ lifecycle' = lifecycle /\ PopHead(activity')
      BY <1>0, <2>1 DEF TypeOK, ResolveFail, ClaimWithdrawn, ClaimFenced, SettleOk, SettleErr
    <3> QED BY <3>1, EscPopHead
  <2>2. CASE ClaimDispatch
    <3>1. /\ pending # <<>> /\ UNCHANGED <<pending, deadline, lifecycle>> /\ pc' = "executing"
          /\ activity' = "working" /\ unescaped' = unescaped \cup (ToSet(Tail(pending)) \cap Steers)
      BY <1>0, <2>2 DEF TypeOK, ClaimDispatch, queueVars
    <3>2. Head(pending) \notin ToSet(Tail(pending))
      BY <1>0, <3>1, SetOfTail DEF DeliveryInv, PendingIsHeld
    <3> QED BY <3>1, <3>2 DEF EscInv, TurnOwesEsc, DeadlineHasSteer
  <2>3. CASE \/ ResolveOk \/ ProbeUnavailable \/ ProbeErr \/ ClaimDeliver
             \/ ExecuteOk \/ ExecuteUnavailable \/ \E written \in BOOLEAN : ExecuteErr(written)
    <3>1. /\ UNCHANGED <<pending, deadline, unescaped, lifecycle>>
          /\ pc' \notin {"absent", "starting"}
          /\ activity = "working" => activity' = "working"
      BY <2>3 DEF ResolveOk, ProbeUnavailable, ProbeErr, ClaimDeliver, ExecuteOk,
         ExecuteUnavailable, ExecuteErr, storeVars, queueVars, historyVars, remark_after_enqueue
    <3> QED BY <3>1, EscFrame
  <2> QED BY <1>8, <2>1, <2>2, <2>3 DEF Deliver
<1>9. CASE HeldInput \/ Fence
  <2>1. UNCHANGED <<pending, deadline, unescaped, pc, lifecycle, activity>>
    BY <1>9 DEF HeldInput, withdraw, edit, Fence, persist_fence_frame, apply_lineage_fence,
       FenceClose, storeVars, queueVars, workerVars, historyVars
  <2> QED BY <2>1, EscFrame
<1>10. CASE Harness
  <2>1. CASE (\E a \in {"working", "idle"} : SignalActivity(a)) \/ DialogOpens
    <3>1. /\ UNCHANGED <<pending, deadline, pc, lifecycle>>
          /\ unescaped' = UnescapedIn(activity')
      BY <2>1 DEF SignalActivity, DialogOpens, queueVars, workerVars
    <3> QED BY <3>1 DEF UnescapedIn, EscInv, TurnOwesEsc, DeadlineHasSteer
  <2>2. CASE BudgetPasses
    <3>1. /\ deadline = "running" /\ UNCHANGED <<pending, unescaped, pc, lifecycle, activity>>
      BY <2>2 DEF BudgetPasses, storeVars, queueVars, historyVars
    <3> QED BY <3>1 DEF EscInv, TurnOwesEsc, DeadlineHasSteer
  <2>3. CASE DialogAnswered \/ \E end \in {"exited", "failed"} : record_native_exit(end)
    <3>1. /\ UNCHANGED <<pending, deadline, unescaped, pc>>
          /\ (lifecycle' = lifecycle /\ activity' = activity) \/ lifecycle' # "ready"
      BY <2>3 DEF DialogAnswered, record_native_exit, storeVars, queueVars, workerVars, historyVars
    <3> QED BY <3>1, EscFrame
  <2> QED BY <1>10, <2>1, <2>2, <2>3 DEF Harness
<1>11. CASE \E survives \in BOOLEAN : Restart(survives)
  <2>1. deadline' = "none" /\ unescaped' = {} 
    BY <1>11 DEF Restart
  <2> QED BY <2>1 DEF EscInv, TurnOwesEsc, DeadlineHasSteer
<1> QED BY <1>1, <1>2, <1>3, <1>4, <1>5, <1>6, <1>7, <1>8, <1>9, <1>10, <1>11 DEF Next

(* The tick is the only step that releases the head, and it releases a     *)
(* steer into a running turn only when that steer's deadline has passed.   *)
LEMMA EscRelease ==
    ASSUME TypeOK, EscInv, [Next]_vars, pc = "scan", pc' = "resolve", activity = "working"
    PROVE  Head(pending) \notin unescaped
<1>1. TickDeliver
  BY DEF Next, vars, storeVars, queueVars, workerVars, fenceVars, historyVars, Submit, Admit,
     insert_command, enqueue_existing, EnqueueRejected, CloseEnded, Create, CreateCheck,
     record_lineage, CreateInsert, CreateAccept, Start, StartOk, StartFail, BuildFail,
     BuildFailReturn, Recv, RecvFull, RecvPrompt, RecvSteer, RecvControl, Control, ControlClaim,
     ControlOk, ControlErr, ControlReturn, Gate, Tick, apply_held_changes, TickDrained,
     TickNotReady, TickGated, Deliver, ResolveOk, ResolveFail, ProbeUnavailable, ProbeErr,
     ClaimWithdrawn, ClaimDeliver, ClaimFenced, ClaimDispatch, ExecuteOk, ExecuteUnavailable,
     ExecuteErr, SettleOk, SettleErr, HeldInput, withdraw, edit, Fence, persist_fence_frame,
     apply_lineage_fence, FenceClose, Harness, SignalActivity, DialogOpens, DialogAnswered,
     BudgetPasses, record_native_exit, Restart
<1>2. lifecycle = "ready" /\ ~steer_gated
  BY <1>1 DEF TickDeliver
<1>3. CASE Head(pending) \in Steers
  BY <1>2, <1>3 DEF steer_gated, EscInv, DeadlineHasSteer
<1>4. CASE Head(pending) \notin Steers
  BY <1>4 DEF TypeOK
<1> QED BY <1>3, <1>4

(* A steer that waits behind a running turn is released into that turn only*)
(* after an Esc was sent for it, for any number of steers, prompts, keys,  *)
(* dialogs, crashes and fences, as long as the steers leave the queue by   *)
(* its head (runtime/pty_queue.rs, arm_steer_interrupt and deliver).       *)
THEOREM SteersAreEscaped == SteersLeaveByHead /\ Spec => EscBeforeSteer
<1>1. Init => EscInv /\ WithdrawnIsOffered
  BY DEF Init, EscInv, TurnOwesEsc, DeadlineHasSteer, WithdrawnIsOffered, NotHeld
<1>2. DeliveryInv /\ WithdrawnIsOffered /\ [Next]_vars => WithdrawnIsOffered'
  BY OfferedNext
<1>3. SteersLeaveByHead /\ DeliveryInv /\ DeliveryInv' /\ WithdrawnIsOffered /\ EscInv /\ [Next]_vars
      => EscInv'
  BY EscNext
<1>4. DeliveryInv /\ EscInv /\ [Next]_vars =>
        [pc = "scan" /\ pc' = "resolve" /\ activity = "working" => Head(pending) \notin unescaped]_vars
  BY EscRelease DEF DeliveryInv
<1>5. Spec => []DeliveryInv
  BY DeliveryCorrect
<1>6. SteersLeaveByHead => SteersLeaveByHead'
  BY DEF SteersLeaveByHead
<1> QED BY <1>1, <1>2, <1>3, <1>4, <1>5, <1>6, PTL DEF Spec, EscBeforeSteer

=============================================================================
