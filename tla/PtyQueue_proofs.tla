--------------------------- MODULE PtyQueue_proofs ---------------------------
(***************************************************************************)
(* Proofs about PtyQueue, for every set of commands, every capacity and    *)
(* every assignment of initiators.                                         *)
(***************************************************************************)
EXTENDS PtyQueue, SequenceTheorems, FiniteSetTheorems, TLAPS

-----------------------------------------------------------------------------
(* Sequences: what inserting into and removing from a queue does.          *)

(* RemoveAt (apply_held_changes drops a withdrawn prompt) keeps the other  *)
(* elements in their order.                                                *)
LEMMA RemoveAtFacts ==
    ASSUME NEW S, NEW s \in Seq(S), NEW k \in 1..Len(s)
    PROVE  /\ RemoveAt(s, k) \in Seq(S)
           /\ Len(RemoveAt(s, k)) = Len(s) - 1
           /\ \A i \in 1..Len(s) - 1 :
                 RemoveAt(s, k)[i] = IF i < k THEN s[i] ELSE s[i + 1]
<1> DEFINE a == SubSeq(s, 1, k - 1)
           b == SubSeq(s, k + 1, Len(s))
<1>0. Len(s) \in Nat /\ \A i \in 1..Len(s) : s[i] \in S
  OBVIOUS
<1>1. /\ a \in Seq(S) /\ Len(a) = k - 1
      /\ \A i \in 1..k - 1 : a[i] = s[i]
  <2>1. \A i \in 1..k - 1 : s[i] \in S
    BY <1>0
  <2> QED BY <1>0, <2>1, SubSeqProperties, SMT
<1>2. /\ b \in Seq(S) /\ Len(b) = Len(s) - k
      /\ \A i \in 1..Len(s) - k : b[i] = s[k + i]
  <2>1. \A i \in k + 1..Len(s) : s[i] \in S
    BY <1>0
  <2> QED BY <1>0, <2>1, SubSeqProperties, SMT
<1>3. /\ a \o b \in Seq(S) /\ Len(a \o b) = Len(a) + Len(b)
      /\ \A i \in 1..Len(a) + Len(b) :
            (a \o b)[i] = IF i <= Len(a) THEN a[i] ELSE b[i - Len(a)]
  BY <1>1, <1>2, ConcatProperties
<1>4. RemoveAt(s, k) = a \o b
  BY DEF RemoveAt
<1> DEFINE r == a \o b
<1> HIDE DEF a, b
<1>5. r \in Seq(S) /\ Len(r) = Len(s) - 1
  BY <1>0, <1>1, <1>2, <1>3
<1>6. ASSUME NEW i \in 1..Len(s) - 1
      PROVE  r[i] = IF i < k THEN s[i] ELSE s[i + 1]
  <2>1. i \in 1..Len(a) + Len(b)
    BY <1>0, <1>1, <1>2
  <2>2. r[i] = IF i <= Len(a) THEN a[i] ELSE b[i - Len(a)]
    BY <2>1, <1>3
  <2> HIDE DEF r
  <2>3. CASE i < k
    BY <2>2, <2>3, <1>0, <1>1
  <2>4. CASE ~(i < k)
    BY <2>2, <2>4, <1>0, <1>1, <1>2
  <2> QED BY <2>3, <2>4
<1> QED BY <1>4, <1>5, <1>6

(* InsertAt (the slot of a steer) keeps the other elements in their order. *)
LEMMA InsertAtFacts ==
    ASSUME NEW S, NEW s \in Seq(S), NEW k \in 1..Len(s) + 1, NEW e \in S
    PROVE  /\ InsertAt(s, k, e) \in Seq(S)
           /\ Len(InsertAt(s, k, e)) = Len(s) + 1
           /\ \A i \in 1..Len(s) + 1 :
                 InsertAt(s, k, e)[i] = IF i < k THEN s[i]
                                        ELSE IF i = k THEN e ELSE s[i - 1]
<1> DEFINE a == SubSeq(s, 1, k - 1)
           b == SubSeq(s, k, Len(s))
           m == <<e>>
<1>0. Len(s) \in Nat /\ \A i \in 1..Len(s) : s[i] \in S
  OBVIOUS
<1>1. /\ a \in Seq(S) /\ Len(a) = k - 1
      /\ \A i \in 1..k - 1 : a[i] = s[i]
  <2>1. \A i \in 1..k - 1 : s[i] \in S
    BY <1>0
  <2> QED BY <1>0, <2>1, SubSeqProperties, SMT
<1>2. /\ b \in Seq(S) /\ Len(b) = Len(s) - k + 1
      /\ \A i \in 1..Len(s) - k + 1 : b[i] = s[k + i - 1]
  <2>1. \A i \in k..Len(s) : s[i] \in S
    BY <1>0
  <2> QED BY <1>0, <2>1, SubSeqProperties, SMT
<1>3. m \in Seq(S) /\ Len(m) = 1 /\ m[1] = e
  OBVIOUS
<1>4. /\ a \o m \in Seq(S) /\ Len(a \o m) = Len(a) + Len(m)
      /\ \A i \in 1..Len(a) + Len(m) :
            (a \o m)[i] = IF i <= Len(a) THEN a[i] ELSE m[i - Len(a)]
  BY <1>1, <1>3, ConcatProperties
<1> DEFINE f == a \o m
           r == f \o b
<1>5. InsertAt(s, k, e) = r
  BY DEF InsertAt
<1>6. /\ f \in Seq(S) /\ Len(f) = k
      /\ \A i \in 1..k : f[i] = IF i < k THEN s[i] ELSE e
  <2>1. f \in Seq(S) /\ Len(f) = k
    BY <1>0, <1>1, <1>3, <1>4
  <2>2. ASSUME NEW i \in 1..k PROVE f[i] = IF i < k THEN s[i] ELSE e
    <3>1. f[i] = IF i <= Len(a) THEN a[i] ELSE m[i - Len(a)]
      BY <1>0, <1>1, <1>3, <1>4
    <3> HIDE DEF f, a, m
    <3> QED BY <3>1, <1>0, <1>1, <1>3
  <2> QED BY <2>1, <2>2
<1> HIDE DEF f
<1>7. /\ r \in Seq(S) /\ Len(r) = Len(f) + Len(b)
      /\ \A i \in 1..Len(f) + Len(b) :
            r[i] = IF i <= Len(f) THEN f[i] ELSE b[i - Len(f)]
  BY <1>2, <1>6, ConcatProperties
<1>8. Len(r) = Len(s) + 1
  BY <1>0, <1>2, <1>6, <1>7
<1>9. ASSUME NEW i \in 1..Len(s) + 1
      PROVE  r[i] = IF i < k THEN s[i] ELSE IF i = k THEN e ELSE s[i - 1]
  <2>1. r[i] = IF i <= Len(f) THEN f[i] ELSE b[i - Len(f)]
    BY <1>0, <1>2, <1>6, <1>7
  <2> HIDE DEF r, b
  <2>2. CASE i <= k
    BY <2>1, <2>2, <1>0, <1>6
  <2>3. CASE ~(i <= k)
    BY <2>1, <2>3, <1>0, <1>2, <1>6
  <2> QED BY <2>2, <2>3
<1> QED BY <1>5, <1>7, <1>8, <1>9

(* The slot of a steer is a position of the queue or the one after its end.*)
LEMMA SteerSlotType ==
    ASSUME NEW S, NEW s \in Seq(S)
    PROVE  steer_slot(s) \in 1..Len(s) + 1
<1> DEFINE steered == {i \in 1..Len(s) : \A j \in 1..i : s[j] \in Steers}
<1>0. Len(s) \in Nat
  OBVIOUS
<1>1. IsFiniteSet(1..Len(s)) /\ Cardinality(1..Len(s)) = Len(s)
  BY <1>0, FS_Interval
<1>2. IsFiniteSet(steered) /\ Cardinality(steered) <= Len(s)
  BY <1>1, FS_Subset
<1>3. Cardinality(steered) \in Nat
  BY <1>2, FS_CardinalityType
<1>4. steer_slot(s) = Cardinality(steered) + 1
  BY DEF steer_slot
<1> HIDE DEF steered
<1> QED BY <1>0, <1>2, <1>3, <1>4

-----------------------------------------------------------------------------
(* The helpers of the ledger and of the registry stay within their types.  *)

Outcomes == {"completed", "rejected", "fenced", "withdrawn", "uncertain"}

(* Every way the code rewrites a ledger row yields a ledger row.           *)
LEMMA RowType ==
    /\ NoRow \in LedgerRow /\ NewRow \in LedgerRow
    /\ \A r \in LedgerRow : accept_command(r) \in LedgerRow
    /\ \A r \in LedgerRow, o \in Outcomes :
          settle_command(r, o) \in LedgerRow /\ UnlessSettled(r, o) \in LedgerRow
BY DEF NoRow, NewRow, LedgerRow, accept_command, settle_command, UnlessSettled,
       Outcomes

(* Marking the unsettled rows unknown keeps the ledger a ledger.           *)
LEMMA MarkType ==
    ASSUME NEW rows \in [Cmd -> LedgerRow]
    PROVE  mark_unsettled_unknown(rows) \in [Cmd -> LedgerRow]
<1>1. ASSUME NEW c \in Cmd
      PROVE  [rows[c] EXCEPT !.unknown = TRUE] \in LedgerRow
  BY DEF LedgerRow
<1> QED BY <1>1 DEF mark_unsettled_unknown

(* The dispatch claim rewrites one row and keeps the ledger a ledger.      *)
LEMMA ClaimType ==
    ASSUME TypeOK, NEW c \in Cmd
    PROVE  claim(c) \in [Cmd -> LedgerRow]
<1>1. \A r \in LedgerRow : [r EXCEPT !.dispatch = "written"] \in LedgerRow
  BY DEF LedgerRow
<1> QED BY <1>1, RowType DEF TypeOK, claim, Outcomes

(* The entries the registry is given are entries.                          *)
LEMMA HeldType ==
    /\ NotHeld \in HeldEntry /\ hold \in HeldEntry
    /\ \A h \in HeldEntry : \A x \in {"none", "waiting", "withdrawn", "delivering"} :
          [h EXCEPT !.st = x] \in HeldEntry
    /\ \A h \in HeldEntry : [h EXCEPT !.text = NoText] \in HeldEntry
BY BoundsAssumption DEF NotHeld, hold, HeldEntry

(* The worker queues nothing but prompts, the kinds partition the commands.*)
LEMMA KindFacts ==
    /\ Prompts \subseteq Cmd /\ Controls \subseteq Cmd
    /\ Creates \subseteq Prompts /\ Sends \subseteq Prompts /\ Steers \subseteq Prompts
    /\ Closes \subseteq Controls /\ FenceCloses \subseteq Controls
    /\ Prompts \cap Controls = {} /\ NoCmd \notin Cmd
BY KindsAssumption, NullAssumption DEF Cmd, Prompts, Controls

-----------------------------------------------------------------------------
(* The initial states have their types.                                    *)
LEMMA TypeInit == Init => TypeOK
<1> SUFFICES ASSUME Init PROVE TypeOK
  OBVIOUS
<1>1. InitAdopted \/ InitNew
  BY DEF Init
<1>2. recorded \in BOOLEAN
  BY <1>1, Zenon DEF InitAdopted, InitNew
<1>3. /\ lifecycle \in {"none", "ready"} /\ activity \in Activities
      /\ pc \in WorkerStates /\ pc \in {"absent", "select"}
  BY <1>1 DEF InitAdopted, InitNew, Activities, WorkerStates
<1>4. /\ ledger \in [Cmd -> LedgerRow] /\ held \in [Cmd -> HeldEntry]
      /\ prompt \in [Cmd -> Texts] /\ edited \in [Cmd -> Texts]
  BY RowType, HeldType, TextAssumption DEF Init
<1>5. live \in 0..MaxGen /\ applied \in 0..MaxGen /\ crashes \in 0..MaxCrashes
  BY GenerationAssumption, BoundsAssumption DEF Init
<1>6. dialog \in BOOLEAN
  BY DEF Init
<1>7. reported \in [Cmd -> SUBSET {"ran", "cancelled", "unknown"}]
  BY DEF Init
<1> QED BY <1>2, <1>3, <1>4, <1>5, <1>6, <1>7 DEF Init, TypeOK

USE DEF storeVars, queueVars, workerVars, fenceVars, historyVars

(* Submitting a command preserves the types.                               *)
LEMMA TypeSubmit ==
    ASSUME TypeOK, Submit PROVE TypeOK'
<1> PICK c \in Cmd : \/ Admit(c) \/ insert_command(c) \/ enqueue_existing(c)
                     \/ EnqueueRejected(c) \/ CloseEnded(c)
  BY DEF Submit
<1>1. CASE Admit(c)
  BY <1>1 DEF TypeOK, Admit
<1>2. CASE insert_command(c)
  BY <1>2, RowType DEF TypeOK, insert_command
<1>3. CASE enqueue_existing(c)
  BY <1>3, RowType DEF TypeOK, enqueue_existing, AnswerSubmit
<1>4. CASE EnqueueRejected(c)
  BY <1>4, RowType DEF TypeOK, EnqueueRejected, AnswerSubmit, Outcomes
<1>5. CASE CloseEnded(c)
  <2>1. UnknownIfRunning \in [Cmd -> LedgerRow]
    BY MarkType DEF TypeOK, UnknownIfRunning
  <2>2. settle_command(accept_command(NewRow), "completed") \in LedgerRow
    BY RowType DEF Outcomes
  <2>3. ledger' \in [Cmd -> LedgerRow]
    BY <1>5, <2>1, <2>2 DEF CloseEnded, TypeOK
  <2>4. /\ lifecycle' \in {"none", "starting", "ready", "exited", "failed"}
        /\ activity' \in Activities
    BY <1>5 DEF CloseEnded, MarkExited, TypeOK, Activities
  <2>5. dialog' \in BOOLEAN
    BY <1>5, Zenon DEF CloseEnded, AnswerSubmit, TypeOK
  <2>6. rpc' = [rpc EXCEPT ![c] = "answered"] /\ wrote' \in [Cmd -> Nat]
    BY <1>5 DEF CloseEnded, AnswerSubmit, TypeOK
  <2> QED BY <1>5, <2>3, <2>4, <2>5, <2>6 DEF CloseEnded, TypeOK
<1> QED BY <1>1, <1>2, <1>3, <1>4, <1>5

(* Creating the instance preserves the types.                              *)
LEMMA TypeCreate ==
    ASSUME TypeOK, Create PROVE TypeOK'
<1> PICK c \in Creates : \/ CreateCheck(c) \/ record_lineage(c)
                         \/ CreateInsert(c) \/ CreateAccept(c)
  BY DEF Create
<1>0. c \in Cmd
  BY KindFacts
<1>1. CASE CreateCheck(c)
  BY <1>0, <1>1 DEF TypeOK, CreateCheck
<1>2. CASE record_lineage(c)
  <2>1. recorded' \in BOOLEAN
    BY <1>2, Zenon DEF record_lineage
  <2> QED BY <1>0, <1>2, <2>1 DEF TypeOK, record_lineage
<1>3. CASE CreateInsert(c)
  BY <1>0, <1>3, RowType DEF TypeOK, CreateInsert
<1>4. CASE CreateAccept(c)
  BY <1>0, <1>4, RowType DEF TypeOK, CreateAccept, WorkerStates
<1> QED BY <1>1, <1>2, <1>3, <1>4

(* What record_task_exit leaves behind has its type.                       *)
LEMMA TaskExitType ==
    ASSUME TypeOK, NEW rows \in [Cmd -> LedgerRow], record_task_exit(rows)
    PROVE  /\ ledger' \in [Cmd -> LedgerRow]
           /\ lifecycle' \in {"none", "starting", "ready", "exited", "failed"}
           /\ activity' \in Activities
BY MarkType DEF TypeOK, record_task_exit, Activities

(* Materializing the instance preserves the types.                         *)
LEMMA TypeStart ==
    ASSUME TypeOK, Start PROVE TypeOK'
<1>1. ASSUME NEW c \in Creates, NEW hasPrompt \in BOOLEAN, StartOk(c, hasPrompt)
      PROVE  TypeOK'
  <2>0. c \in Prompts /\ c \in Cmd
    BY KindFacts
  <2>1. pending' \in Seq(Prompts)
    BY <1>1, <2>0 DEF StartOk
  <2>2. activity' \in Activities
    BY <1>1 DEF StartOk, TypeOK, Activities, remark_after_queue_change,
                remark_after_enqueue
  <2>3. ledger' \in [Cmd -> LedgerRow]
    BY <1>1, <2>0, RowType DEF StartOk, TypeOK, Outcomes
  <2>4. held' \in [Cmd -> HeldEntry]
    BY <1>1, <2>0, HeldType DEF StartOk, TypeOK
  <2>5. row' \in [Cmd -> {"none", "queued", "complete", "interrupted"}]
    BY <1>1, <2>0 DEF StartOk, TypeOK
  <2> QED BY <1>1, <2>1, <2>2, <2>3, <2>4, <2>5 DEF StartOk, TypeOK, WorkerStates
<1>2. ASSUME NEW c \in Creates, StartFail(c)
      PROVE  TypeOK'
  <2> DEFINE rows == [d \in Cmd |->
           IF d = c THEN settle_command(accept_command(NewRow), "rejected")
           ELSE IF d \in ToSet(chan) THEN settle_command(ledger[d], "rejected")
           ELSE ledger[d]]
  <2>1. rows \in [Cmd -> LedgerRow]
    BY RowType DEF TypeOK, Outcomes
  <2>2. record_task_exit(rows)
    BY <1>2 DEF StartFail
  <2> HIDE DEF rows
  <2> QED BY <1>2, <2>1, <2>2, TaskExitType DEF StartFail, TypeOK, WorkerStates
<1>3. CASE BuildFail
  <2>1. record_task_exit(ledger) /\ ledger \in [Cmd -> LedgerRow]
    BY <1>3 DEF BuildFail, TypeOK
  <2> QED BY <1>3, <2>1, TaskExitType DEF BuildFail, TypeOK, WorkerStates
<1>4. CASE BuildFailReturn
  BY <1>4 DEF BuildFailReturn, TypeOK, WorkerStates
<1> QED BY <1>1, <1>2, <1>3, <1>4 DEF Start

(* Dropping the queue leaves every row and entry well typed.               *)
LEMMA InterruptType ==
    ASSUME TypeOK, interrupt_pending
    PROVE  /\ ledger' \in [Cmd -> LedgerRow] /\ held' \in [Cmd -> HeldEntry]
           /\ row' \in [Cmd -> {"none", "queued", "complete", "interrupted"}]
           /\ pending' = <<>>
BY RowType, HeldType DEF TypeOK, interrupt_pending, Outcomes

(* The head of the channel is a command and its tail is a channel.         *)
LEMMA ChannelHead ==
    ASSUME TypeOK, chan # <<>>
    PROVE  Head(chan) \in Cmd /\ Tail(chan) \in Seq(Cmd)
BY HeadTailProperties DEF TypeOK

(* The head of the queue is a prompt and its tail is a queue.              *)
LEMMA QueueHead ==
    ASSUME TypeOK, pending # <<>>
    PROVE  /\ Head(pending) \in Prompts /\ Head(pending) \in Cmd
           /\ Tail(pending) \in Seq(Prompts)
BY HeadTailProperties, KindFacts DEF TypeOK

(* The worker's receive preserves the types.                               *)
LEMMA TypeRecv ==
    ASSUME TypeOK, Recv PROVE TypeOK'
<1> PICK c \in Cmd : RecvFull(c) \/ RecvPrompt(c) \/ RecvSteer(c) \/ RecvControl(c)
  BY DEF Recv
<1>1. CASE RecvFull(c)
  <2>1. activity' \in Activities
    BY <1>1 DEF RecvFull, TypeOK, Activities, remark_after_queue_change,
                remark_after_enqueue
  <2>2. ledger' \in [Cmd -> LedgerRow]
    BY <1>1, RowType DEF RecvFull, TypeOK, Outcomes
  <2> QED BY <1>1, <2>1, <2>2, ChannelHead DEF RecvFull, TypeOK
<1>2. CASE RecvPrompt(c)
  <2>1. activity' \in Activities
    BY <1>2 DEF RecvPrompt, TypeOK, Activities, remark_after_enqueue
  <2>2. pending' \in Seq(Prompts)
    BY <1>2, KindFacts, AppendProperties DEF RecvPrompt, TypeOK
  <2>3. held' \in [Cmd -> HeldEntry]
    BY <1>2, HeldType DEF RecvPrompt, TypeOK
  <2>4. row' \in [Cmd -> {"none", "queued", "complete", "interrupted"}]
    BY <1>2 DEF RecvPrompt, TypeOK
  <2> QED BY <1>2, <2>1, <2>2, <2>3, <2>4, ChannelHead DEF RecvPrompt, TypeOK
<1>3. CASE RecvSteer(c)
  <2>1. activity' \in Activities
    BY <1>3 DEF RecvSteer, TypeOK, Activities, remark_after_enqueue
  <2>2. pending' \in Seq(Prompts)
    <3>1. pending \in Seq(Prompts) /\ c \in Prompts
      BY <1>3, KindFacts DEF RecvSteer, TypeOK
    <3>2. steer_slot(pending) \in 1..Len(pending) + 1
      BY <3>1, SteerSlotType
    <3>3. InsertAt(pending, steer_slot(pending), c) \in Seq(Prompts)
      BY <3>1, <3>2, InsertAtFacts
    <3> QED BY <1>3, <3>3 DEF RecvSteer
  <2>3. held' \in [Cmd -> HeldEntry]
    BY <1>3, HeldType DEF RecvSteer, TypeOK
  <2>4. deadline' \in {"none", "running", "passed"} /\ unescaped' \subseteq Steers
    BY <1>3 DEF RecvSteer, TypeOK, arm_steer_interrupt
  <2> QED BY <1>3, <2>1, <2>2, <2>3, <2>4, ChannelHead DEF RecvSteer, TypeOK
<1>4. CASE RecvControl(c)
  <2>1. /\ ledger' \in [Cmd -> LedgerRow] /\ held' \in [Cmd -> HeldEntry]
        /\ row' \in [Cmd -> {"none", "queued", "complete", "interrupted"}]
        /\ pending' \in Seq(Prompts)
    <3>1. CASE c \in Keys
      BY <1>4, <3>1 DEF RecvControl, TypeOK
    <3>2. CASE c \notin Keys
      <4>1. interrupt_pending
        BY <1>4, <3>2 DEF RecvControl
      <4> QED BY <4>1, InterruptType
    <3> QED BY <3>1, <3>2
  <2> QED BY <1>4, <2>1, ChannelHead, KindFacts DEF RecvControl, TypeOK, WorkerStates
<1> QED BY <1>1, <1>2, <1>3, <1>4

(* Executing a control preserves the types.                                *)
LEMMA TypeControl ==
    ASSUME TypeOK, Control PROVE TypeOK'
<1>0. /\ pc \in {"control", "controlClaimed", "controlDone"}
      /\ ctl \in Cmd /\ ctl \in Controls
  BY KindFacts DEF Control, ControlClaim, ControlOk, ControlErr, ControlReturn, TypeOK
<1>1. CASE ControlClaim
  BY <1>0, <1>1, ClaimType DEF ControlClaim, TypeOK, WorkerStates
<1>2. CASE ControlOk
  <2>1. ledger' \in [Cmd -> LedgerRow]
    BY <1>0, <1>2, RowType DEF ControlOk, TypeOK, Outcomes
  <2> QED BY <1>0, <1>2, <2>1 DEF ControlOk, UnescapedIn, TypeOK, WorkerStates, Activities
<1>3. ASSUME NEW written \in BOOLEAN, ControlErr(written) PROVE TypeOK'
  <2>1. ledger' \in [Cmd -> LedgerRow]
    BY <1>0, <1>3, RowType DEF ControlErr, TypeOK, Outcomes
  <2> QED BY <1>0, <1>3, <2>1 DEF ControlErr, TypeOK, WorkerStates
<1>4. CASE ControlReturn
  <2>1. ledger' \in [Cmd -> LedgerRow] /\ chan' \in Seq(Cmd)
    <3>1. CASE ctl \in Closes \cup FenceCloses /\ lifecycle = "exited"
      <4>1. \A d \in Cmd : settle_command(ledger[d], "rejected") \in LedgerRow
        BY RowType DEF TypeOK, Outcomes
      <4>2. chan' = <<>> /\ ledger' = [d \in Cmd |-> IF d \in ToSet(chan)
                                        THEN settle_command(ledger[d], "rejected")
                                        ELSE ledger[d]]
        BY <1>4, <3>1 DEF ControlReturn
      <4>3. ledger' \in [Cmd -> LedgerRow]
        BY <4>1, <4>2 DEF TypeOK
      <4> QED BY <4>2, <4>3
    <3>2. CASE ~(ctl \in Closes \cup FenceCloses /\ lifecycle = "exited")
      BY <1>4, <3>2 DEF ControlReturn, TypeOK
    <3> QED BY <3>1, <3>2
  <2>2. activity' \in Activities /\ pc' \in {"select", "ended"}
    BY <1>4 DEF ControlReturn, TypeOK, Activities, remark_after_queue_change,
                remark_after_enqueue
  <2> QED BY <1>4, <2>1, <2>2 DEF ControlReturn, TypeOK, WorkerStates
<1> QED BY <1>1, <1>2, <1>3, <1>4 DEF Control

(* The scan of the queue and the gate preserve the types.                  *)
LEMMA TypeGate ==
    ASSUME TypeOK, Gate PROVE TypeOK'
<1>1. CASE Tick
  BY <1>1 DEF Tick, TypeOK, WorkerStates
<1>2. CASE apply_held_changes
  <2> DEFINE c == pending[scan]
  <2>0. c \in Prompts /\ c \in Cmd /\ scan \in 1..Len(pending)
    BY <1>2, KindFacts, ElementOfSeq DEF apply_held_changes, TypeOK
  <2>1. pending' \in Seq(Prompts)
    BY <1>2, <2>0, RemoveAtFacts DEF apply_held_changes, TypeOK
  <2>2. ledger' \in [Cmd -> LedgerRow]
    <3>1. UnlessSettled(ledger[c], "withdrawn") \in LedgerRow
      BY <2>0, RowType DEF TypeOK, Outcomes
    <3>2. ledger \in [Cmd -> LedgerRow]
      BY DEF TypeOK
    <3>3. \/ ledger' = ledger
          \/ ledger' = [ledger EXCEPT ![c] = UnlessSettled(ledger[c], "withdrawn")]
      BY <1>2 DEF apply_held_changes, finalize_withdrawn
    <3> QED BY <2>0, <3>1, <3>2, <3>3
  <2>3. held' \in [Cmd -> HeldEntry]
    <3>1. NotHeld \in HeldEntry /\ [held[c] EXCEPT !.text = NoText] \in HeldEntry
      BY <2>0, HeldType DEF TypeOK
    <3> QED BY <1>2, <2>0, <3>1 DEF apply_held_changes, TypeOK
  <2>4. row' \in [Cmd -> {"none", "queued", "complete", "interrupted"}]
    BY <1>2, <2>0
       DEF apply_held_changes, finalize_withdrawn, apply_edit, TypeOK
  <2>5. prompt' \in [Cmd -> Texts]
    <3>1. held[c].text # NoText => held[c].text \in Texts
      BY <2>0 DEF TypeOK, HeldEntry
    <3> QED BY <1>2, <2>0, <3>1 DEF apply_held_changes, apply_edit, TypeOK
  <2>6. scan' \in Nat
    BY <1>2 DEF apply_held_changes, TypeOK
  <2>7. pc = "scan" /\ pc' = "scan"
    BY <1>2 DEF apply_held_changes
  <2> QED BY <1>2, <2>1, <2>2, <2>3, <2>4, <2>5, <2>6, <2>7
          DEF apply_held_changes, TypeOK
<1>3. CASE TickDrained
  BY <1>3 DEF TickDrained, TypeOK, WorkerStates, Activities
<1>4. CASE TickNotReady
  <2>1. interrupt_pending
    BY <1>4 DEF TickNotReady
  <2>2. /\ ledger' \in [Cmd -> LedgerRow] /\ held' \in [Cmd -> HeldEntry]
        /\ row' \in [Cmd -> {"none", "queued", "complete", "interrupted"}]
        /\ pending' \in Seq(Prompts)
    BY <2>1, InterruptType
  <2> QED BY <1>4, <2>2 DEF TickNotReady, TypeOK, WorkerStates
<1>5. CASE TickGated
  BY <1>5 DEF TickGated, TypeOK, WorkerStates
<1>6. CASE TickDeliver
  BY <1>6 DEF TickDeliver, TypeOK, WorkerStates
<1> QED BY <1>1, <1>2, <1>3, <1>4, <1>5, <1>6 DEF Gate

(* Popping the head leaves the worker's own state well typed.              *)
LEMMA PopHeadType ==
    ASSUME TypeOK, pending # <<>>, NEW a, PopHead(a)
    PROVE  /\ pending' \in Seq(Prompts) /\ pending' = Tail(pending)
           /\ pc' = "select" /\ pc' \in WorkerStates
           /\ deadline' \in {"none", "running", "passed"}
           /\ unescaped' \subseteq Steers
BY QueueHead DEF TypeOK, PopHead, UnescapedIn, arm_steer_interrupt, WorkerStates

(* Delivering the head preserves the types.                                *)
LEMMA TypeDeliver ==
    ASSUME TypeOK, Deliver PROVE TypeOK'
<1> DEFINE c == Head(pending)
<1>0. pending # <<>> /\ c \in Prompts /\ c \in Cmd
  <2>1. pc \in {"resolve", "probe", "claimed", "executing", "written", "erred"}
    BY DEF Deliver, ResolveOk, ResolveFail, ProbeUnavailable, ProbeErr,
           ClaimWithdrawn, ClaimDeliver, ClaimFenced, ClaimDispatch, ExecuteOk,
           ExecuteUnavailable, ExecuteErr, SettleOk, SettleErr
  <2>2. pending # <<>>
    BY <2>1 DEF TypeOK
  <2> QED BY <2>2, QueueHead
<1>1. CASE ResolveOk \/ ProbeUnavailable \/ ProbeErr
  <2>1. CASE ResolveOk
    BY <1>0, <2>1 DEF ResolveOk, TypeOK, WorkerStates
  <2>2. CASE ProbeUnavailable
    BY <1>0, <2>2 DEF ProbeUnavailable, TypeOK, WorkerStates
  <2>3. CASE ProbeErr
    BY <1>0, <2>3 DEF ProbeErr, TypeOK, WorkerStates
  <2> QED BY <1>1, <2>1, <2>2, <2>3
<1>2. CASE ResolveFail
  <2>1. ledger' \in [Cmd -> LedgerRow] /\ held' \in [Cmd -> HeldEntry]
    BY <1>0, <1>2, RowType, HeldType DEF ResolveFail, TypeOK, Outcomes
  <2>2. PopHead(activity)
    BY <1>2 DEF ResolveFail
  <2> QED BY <1>0, <1>2, <2>1, <2>2, PopHeadType DEF ResolveFail, TypeOK
<1>3. CASE ClaimWithdrawn
  <2>1. ledger' \in [Cmd -> LedgerRow] /\ held' \in [Cmd -> HeldEntry]
    BY <1>0, <1>3, RowType, HeldType
       DEF ClaimWithdrawn, finalize_withdrawn, TypeOK, Outcomes
  <2>2. PopHead(activity)
    BY <1>3 DEF ClaimWithdrawn
  <2> QED BY <1>0, <1>3, <2>1, <2>2, PopHeadType
          DEF ClaimWithdrawn, finalize_withdrawn, TypeOK
<1>4. CASE ClaimDeliver
  <2>1. held' \in [Cmd -> HeldEntry]
    BY <1>0, <1>4, HeldType DEF ClaimDeliver, TypeOK
  <2>2. prompt' \in [Cmd -> Texts]
    <3>1. held[c].text # NoText => held[c].text \in Texts
      BY <1>0 DEF TypeOK, HeldEntry
    <3> QED BY <1>0, <1>4, <3>1 DEF ClaimDeliver, apply_edit, TypeOK
  <2>3. row' \in [Cmd -> {"none", "queued", "complete", "interrupted"}]
    BY <1>0, <1>4 DEF ClaimDeliver, apply_edit, TypeOK
  <2> QED BY <1>0, <1>4, <2>1, <2>2, <2>3 DEF ClaimDeliver, TypeOK, WorkerStates
<1>5. CASE ClaimFenced
  <2>1. ledger' \in [Cmd -> LedgerRow] /\ held' \in [Cmd -> HeldEntry]
    BY <1>0, <1>5, ClaimType, HeldType DEF ClaimFenced, TypeOK
  <2>2. PopHead(activity)
    BY <1>5 DEF ClaimFenced
  <2> QED BY <1>0, <1>5, <2>1, <2>2, PopHeadType DEF ClaimFenced, TypeOK
<1>6. CASE ClaimDispatch
  BY <1>0, <1>6, ClaimType DEF ClaimDispatch, TypeOK, WorkerStates, Activities
<1>7. CASE ExecuteOk
  BY <1>0, <1>7 DEF ExecuteOk, DriverWrites, TypeOK, WorkerStates
<1>8. CASE ExecuteUnavailable
  <2>1. held' \in [Cmd -> HeldEntry]
    BY <1>0, <1>8, HeldType DEF ExecuteUnavailable, TypeOK
  <2>2. activity' \in Activities
    BY <1>8 DEF ExecuteUnavailable, remark_after_enqueue, TypeOK, Activities
  <2> QED BY <1>8, <2>1, <2>2 DEF ExecuteUnavailable, TypeOK, WorkerStates
<1>9. ASSUME NEW written \in BOOLEAN, ExecuteErr(written) PROVE TypeOK'
  <2>1. wrote' \in [Cmd -> Nat] /\ sent' \in [Cmd -> Texts \cup {NoText}]
    <3>1. CASE written
      <4>1. DriverWrites(c)
        BY <1>9, <3>1 DEF ExecuteErr
      <4> QED BY <1>0, <4>1 DEF DriverWrites, TypeOK
    <3>2. CASE ~written
      BY <1>9, <3>2 DEF ExecuteErr, TypeOK
    <3> QED BY <3>1, <3>2
  <2> QED BY <1>0, <1>9, <2>1 DEF ExecuteErr, TypeOK, WorkerStates
<1>10. CASE SettleOk
  <2>1. ledger' \in [Cmd -> LedgerRow] /\ held' \in [Cmd -> HeldEntry]
    BY <1>0, <1>10, RowType, HeldType DEF SettleOk, SettleDelivered, TypeOK, Outcomes
  <2>2. PopHead(activity)
    BY <1>10 DEF SettleOk
  <2> QED BY <1>0, <1>10, <2>1, <2>2, PopHeadType DEF SettleOk, TypeOK
<1>11. CASE SettleErr
  <2>1. ledger' \in [Cmd -> LedgerRow] /\ held' \in [Cmd -> HeldEntry]
    BY <1>0, <1>11, RowType, HeldType DEF SettleErr, SettleDelivered, TypeOK, Outcomes
  <2>2. PopHead("unknown")
    BY <1>11 DEF SettleErr
  <2> QED BY <1>0, <1>11, <2>1, <2>2, PopHeadType DEF SettleErr, TypeOK, Activities
<1> QED BY <1>1, <1>2, <1>3, <1>4, <1>5, <1>6, <1>7, <1>8, <1>9, <1>10, <1>11
        DEF Deliver

(* A withdrawal and an edit preserve the types.                            *)
LEMMA TypeHeldInput ==
    ASSUME TypeOK, HeldInput PROVE TypeOK'
<1>1. ASSUME NEW c \in Prompts, withdraw(c) PROVE TypeOK'
  <2>1. held' \in [Cmd -> HeldEntry]
    BY <1>1, HeldType, KindFacts DEF withdraw, TypeOK
  <2> QED BY <1>1, <2>1 DEF withdraw, TypeOK
<1>2. ASSUME NEW c \in Prompts, NEW expected \in 0..MaxRevision, NEW text \in Texts,
             edit(c, expected, text)
      PROVE  TypeOK'
  <2>1. expected + 1 \in -1..MaxRevision
    BY <1>2, BoundsAssumption DEF edit
  <2>2. ASSUME NEW h \in HeldEntry
        PROVE  [h EXCEPT !.rev = expected + 1, !.text = text] \in HeldEntry
    BY <2>1 DEF HeldEntry
  <2>3. held' \in [Cmd -> HeldEntry]
    BY <1>2, <2>2, KindFacts DEF edit, TypeOK
  <2> QED BY <1>2, <2>3, KindFacts DEF edit, TypeOK
<1> QED BY <1>1, <1>2 DEF HeldInput

(* The lineage fence preserves the types.                                  *)
LEMMA TypeFence ==
    ASSUME TypeOK, Fence PROVE TypeOK'
<1> PICK g \in 1..MaxGen : \/ persist_fence_frame(g) \/ apply_lineage_fence(g)
                           \/ \E c \in FenceCloses : FenceClose(g, c)
  BY DEF Fence
<1>0. g \in 0..MaxGen
  BY GenerationAssumption
<1>1. CASE persist_fence_frame(g)
  BY <1>0, <1>1 DEF persist_fence_frame, TypeOK
<1>2. CASE apply_lineage_fence(g)
  <2>1. ledger' \in [Cmd -> LedgerRow]
    BY <1>2, RowType DEF apply_lineage_fence, TypeOK, Outcomes
  <2>2. \A c \in Cmd : fence_outcome(c) \subseteq {"ran", "cancelled", "unknown"}
    BY DEF fence_outcome, TypeOK, LedgerRow
  <2>3. reported' \in [Cmd -> SUBSET {"ran", "cancelled", "unknown"}]
    BY <1>2, <2>2 DEF apply_lineage_fence, TypeOK
  <2> QED BY <1>0, <1>2, <2>1, <2>3 DEF apply_lineage_fence, TypeOK
<1>3. ASSUME NEW c \in FenceCloses, FenceClose(g, c) PROVE TypeOK'
  BY <1>3, KindFacts DEF FenceClose, TypeOK
<1> QED BY <1>1, <1>2, <1>3

(* What the harness and the clock do preserves the types.                  *)
LEMMA TypeHarness ==
    ASSUME TypeOK, Harness PROVE TypeOK'
<1>1. ASSUME NEW a \in {"working", "idle"}, SignalActivity(a) PROVE TypeOK'
  BY <1>1 DEF SignalActivity, UnescapedIn, TypeOK, Activities
<1>2. CASE DialogOpens \/ DialogAnswered \/ BudgetPasses
  <2>1. CASE DialogOpens
    BY <2>1 DEF DialogOpens, UnescapedIn, TypeOK, Activities
  <2>2. CASE DialogAnswered
    BY <2>2 DEF DialogAnswered, TypeOK
  <2>3. CASE BudgetPasses
    BY <2>3 DEF BudgetPasses, TypeOK
  <2> QED BY <1>2, <2>1, <2>2, <2>3
<1>3. ASSUME NEW end \in {"exited", "failed"}, record_native_exit(end) PROVE TypeOK'
  <2>1. ledger' \in [Cmd -> LedgerRow]
    BY <1>3, MarkType DEF record_native_exit, TypeOK
  <2> QED BY <1>3, <2>1 DEF record_native_exit, TypeOK, Activities
<1> QED BY <1>1, <1>2, <1>3 DEF Harness

(* A crash and the restart after it preserve the types.                    *)
LEMMA TypeRestart ==
    ASSUME TypeOK, NEW survives \in BOOLEAN, Restart(survives) PROVE TypeOK'
<1>1. ledger' \in [Cmd -> LedgerRow]
  BY MarkType DEF Restart, TypeOK
<1>2. held' \in [Cmd -> HeldEntry] /\ prompt' \in [Cmd -> Texts]
  BY HeldType, TextAssumption DEF Restart
<1>3. rpc' \in [Cmd -> {"idle", "checked", "admitted", "inserted", "answered",
                        "refused"}]
  BY DEF Restart, TypeOK
<1>4. /\ pc' \in {"select", "ended"} /\ activity' \in Activities
      /\ lifecycle' \in {"none", "starting", "ready", "exited", "failed"}
  BY DEF Restart, TypeOK, Activities
<1>5. crashes' \in 0..MaxCrashes
  BY BoundsAssumption DEF Restart, TypeOK
<1>6. dialog' \in BOOLEAN
  BY DEF Restart
<1>7. /\ chan' = <<>> /\ pending' = <<>> /\ scan' = 0 /\ ctl' = NoCmd
      /\ deadline' = "none" /\ fencing' = {} /\ closing' = {} /\ unescaped' = {}
      /\ UNCHANGED <<row, live, recorded, reported, applied, wrote, sent, told,
                     edited, order>>
  BY DEF Restart
<1> QED BY <1>1, <1>2, <1>3, <1>4, <1>5, <1>6, <1>7 DEF TypeOK, WorkerStates

(* Every step of the instance preserves the types.                         *)
LEMMA TypeNext ==
    ASSUME TypeOK, [Next]_vars PROVE TypeOK'
<1>1. CASE UNCHANGED vars
  BY <1>1 DEF vars, TypeOK
<1> QED BY <1>1, TypeSubmit, TypeCreate, TypeStart, TypeRecv, TypeControl, TypeGate,
           TypeDeliver, TypeHeldInput, TypeFence, TypeHarness, TypeRestart
        DEF Next

(* The type invariant of one PTY instance, worker phases included: while a *)
(* prompt is being delivered the queue is not empty.                       *)
THEOREM TypeCorrect == Spec => []TypeOK
BY TypeInit, TypeNext, PTL DEF Spec

-----------------------------------------------------------------------------
(* The delivery invariant: what a write, a withdrawal and an edit rest on. *)

(* The channel holds commands.                                             *)
LEMMA ChannelElement ==
    ASSUME DeliveryInv
    PROVE  \A i \in 1..Len(chan) : chan[i] \in Cmd
<1>1. chan \in Seq(Cmd)
  BY DEF DeliveryInv, TypeOK
<1> QED BY <1>1, ElementOfSeq

(* A queue element has an index and is in the registry.                    *)
LEMMA PendingElement ==
    ASSUME DeliveryInv, pending # <<>>
    PROVE  /\ 1 \in 1..Len(pending) /\ Head(pending) = pending[1]
           /\ held[Head(pending)].st # "none" /\ Head(pending) \in Cmd
           /\ rpc[Head(pending)] = "answered"
           /\ \A i \in 1..Len(chan) : chan[i] # Head(pending)
<1>1. /\ pending \in Seq(Prompts) /\ Len(pending) \in Nat /\ Len(pending) # 0
      /\ Head(pending) = pending[1]
  BY EmptySeq DEF DeliveryInv, TypeOK
<1>2. 1 \in 1..Len(pending)
  BY <1>1
<1>3. held[Head(pending)].st # "none" /\ Head(pending) \in Cmd
  BY <1>1, <1>2, QueueHead DEF DeliveryInv, PendingIsHeld
<1>4. ASSUME NEW c, Fresh(c) PROVE c # Head(pending)
  BY <1>3, <1>4 DEF Fresh, NotHeld
<1> QED BY <1>1, <1>2, <1>3, <1>4 DEF DeliveryInv, UnsubmittedIsFresh, ChannelIsFresh

(* A step that leaves prompts, registry, channel, queue and history alone. *)
LEMMA DeliveryFrame ==
    ASSUME DeliveryInv, TypeOK',
           UNCHANGED <<rpc, chan, pending, prompt, held, pc, ctl, wrote, sent, told,
                       edited>>
    PROVE  DeliveryInv'
BY DEF DeliveryInv, UnsubmittedIsFresh, ChannelIsFresh, StartingIsFresh,
       ControlIsFresh, PendingIsHeld, ClaimIsHead, WaitingIsUnwritten, TextIsEdited,
       Fresh

(* A step that only moves the worker, to a place where it claims nothing.  *)
LEMMA DeliveryMove ==
    ASSUME DeliveryInv, TypeOK',
           UNCHANGED <<rpc, pending, prompt, held, wrote, sent, told, edited>>,
           chan' = chan \/ chan' = <<>>,
           pc' \in {"ended", "failing", "select", "controlDone", "scan", "resolve",
                    "probe", "written", "erred"},
           pc \in {"claimed", "executing", "written", "erred"} =>
               pc' \in {"written", "erred"}
    PROVE  DeliveryInv'
<1>1. UnsubmittedIsFresh' /\ WaitingIsUnwritten' /\ TextIsEdited' /\ PendingIsHeld'
  BY DEF DeliveryInv, UnsubmittedIsFresh, WaitingIsUnwritten, TextIsEdited,
         PendingIsHeld, Fresh
<1>2. ChannelIsFresh'
  BY DEF DeliveryInv, ChannelIsFresh, Fresh
<1>3. StartingIsFresh' /\ ControlIsFresh'
  BY DEF StartingIsFresh, ControlIsFresh
<1>4. ClaimIsHead'
  BY DEF DeliveryInv, ClaimIsHead
<1> QED BY <1>1, <1>2, <1>3, <1>4 DEF DeliveryInv

(* A step that takes the head off the queue and releases it.               *)
LEMMA DeliveryDropHead ==
    ASSUME DeliveryInv, TypeOK', pending # <<>>,
           UNCHANGED <<rpc, chan, prompt, wrote, sent, told, edited>>,
           held' = [held EXCEPT ![Head(pending)] = NotHeld],
           pending' = Tail(pending), pc' = "select"
    PROVE  DeliveryInv'
<1> DEFINE h == Head(pending)
<1>0. /\ 1 \in 1..Len(pending) /\ h = pending[1] /\ h \in Cmd
      /\ rpc[h] = "answered" /\ \A i \in 1..Len(chan) : chan[i] # h
  BY PendingElement
<1>1. /\ held' \in [Cmd -> HeldEntry] /\ held'[h] = NotHeld
      /\ \A c \in Cmd : c # h => held'[c] = held[c]
  BY <1>0 DEF DeliveryInv, TypeOK
<1>2. /\ Len(pending') = Len(pending) - 1
      /\ \A i \in 1..Len(pending') : pending'[i] = pending[i + 1]
      /\ \A i \in 1..Len(pending') : pending'[i] \in Cmd
  <2>1. pending \in Seq(Prompts) /\ pending' \in Seq(Prompts)
    BY DEF DeliveryInv, TypeOK
  <2>2. /\ Len(pending') = Len(pending) - 1
        /\ \A i \in 1..Len(pending') : pending'[i] = pending[i + 1]
    BY <2>1, HeadTailProperties
  <2>3. \A i \in 1..Len(pending') : pending'[i] \in Prompts
    BY <2>1, ElementOfSeq
  <2> QED BY <2>2, <2>3, KindFacts
<1>3. UnsubmittedIsFresh'
  BY <1>0, <1>1 DEF DeliveryInv, UnsubmittedIsFresh, Fresh
<1>4. ChannelIsFresh'
  <2>1. \A i \in 1..Len(chan) : chan[i] \in Cmd /\ held'[chan[i]] = held[chan[i]]
    BY <1>0, <1>1, ChannelElement
  <2> QED BY <2>1 DEF DeliveryInv, ChannelIsFresh, Fresh
<1>5. StartingIsFresh' /\ ControlIsFresh'
  BY DEF StartingIsFresh, ControlIsFresh
<1>6. PendingIsHeld'
  <2> SUFFICES ASSUME NEW i \in 1..Len(pending')
               PROVE  /\ held'[pending'[i]].st # "none"
                      /\ \A j \in 1..Len(pending') : pending'[i] = pending'[j] => i = j
    BY DEF PendingIsHeld
  <2>1. i + 1 \in 1..Len(pending) /\ i + 1 # 1
    BY <1>2 DEF DeliveryInv, TypeOK
  <2>2. pending'[i] # h /\ held[pending'[i]].st # "none"
    BY <1>0, <1>2, <2>1 DEF DeliveryInv, PendingIsHeld
  <2>3. ASSUME NEW j \in 1..Len(pending'), pending'[i] = pending'[j] PROVE i = j
    <3>1. j + 1 \in 1..Len(pending)
      BY <1>2 DEF DeliveryInv, TypeOK
    <3> QED BY <1>2, <2>1, <2>3, <3>1 DEF DeliveryInv, PendingIsHeld
  <2> QED BY <1>1, <1>2, <2>2, <2>3
<1>7. ClaimIsHead'
  BY <1>0, <1>1 DEF DeliveryInv, ClaimIsHead, NotHeld
<1>8. WaitingIsUnwritten'
  BY <1>0, <1>1 DEF DeliveryInv, WaitingIsUnwritten, NotHeld
<1>9. TextIsEdited'
  BY <1>0, <1>1 DEF DeliveryInv, TextIsEdited, NotHeld
<1> QED BY <1>3, <1>4, <1>5, <1>6, <1>7, <1>8, <1>9 DEF DeliveryInv

(* A step of an RPC task that has not touched the queue yet.               *)
LEMMA DeliveryRpc ==
    ASSUME DeliveryInv, TypeOK', NEW c \in Cmd, NEW x, x # "answered",
           rpc[c] # "answered", rpc' = [rpc EXCEPT ![c] = x],
           UNCHANGED <<chan, pending, prompt, held, pc, ctl, wrote, sent, told, edited>>
    PROVE  DeliveryInv'
<1>1. rpc \in [Cmd -> {"idle", "checked", "admitted", "inserted", "answered",
                       "refused"}]
  BY DEF DeliveryInv, TypeOK
<1>2. \A d \in Cmd : rpc'[d] = "answered" <=> rpc[d] = "answered"
  BY <1>1
<1>3. UnsubmittedIsFresh'
  BY <1>2 DEF DeliveryInv, UnsubmittedIsFresh, Fresh
<1>4. ChannelIsFresh'
  BY <1>2, ChannelElement DEF DeliveryInv, ChannelIsFresh, Fresh
<1>5. StartingIsFresh'
  BY <1>2, KindFacts DEF DeliveryInv, StartingIsFresh, Fresh
<1>6. ControlIsFresh'
  <2>1. pc \in {"control", "controlClaimed"} => ctl \in Cmd
    BY KindFacts DEF DeliveryInv, TypeOK
  <2> QED BY <1>2, <2>1 DEF DeliveryInv, ControlIsFresh, Fresh
<1>7. PendingIsHeld' /\ ClaimIsHead' /\ WaitingIsUnwritten' /\ TextIsEdited'
  BY DEF DeliveryInv, PendingIsHeld, ClaimIsHead, WaitingIsUnwritten, TextIsEdited
<1> QED BY <1>3, <1>4, <1>5, <1>6, <1>7 DEF DeliveryInv

(* Initially nothing is queued, held or written.                           *)
LEMMA DeliveryInit == Init => DeliveryInv
<1> SUFFICES ASSUME Init PROVE DeliveryInv
  OBVIOUS
<1>1. TypeOK
  BY TypeInit
<1>2. pc \in {"select", "absent"}
  BY DEF Init, InitAdopted, InitNew
<1>3. /\ chan = <<>> /\ pending = <<>> /\ Len(chan) = 0 /\ Len(pending) = 0
      /\ \A c \in Cmd : /\ Fresh(c) /\ held[c].st = "none" /\ wrote[c] = 0
                        /\ c \notin told
  BY DEF Init, Fresh, NotHeld
<1>4. UnsubmittedIsFresh /\ ChannelIsFresh /\ PendingIsHeld
  BY <1>3 DEF UnsubmittedIsFresh, ChannelIsFresh, PendingIsHeld
<1>5. StartingIsFresh /\ ControlIsFresh /\ ClaimIsHead
  BY <1>2, <1>3 DEF StartingIsFresh, ControlIsFresh, ClaimIsHead
<1>6. WaitingIsUnwritten /\ TextIsEdited
  BY <1>3 DEF WaitingIsUnwritten, TextIsEdited
<1> QED BY <1>1, <1>4, <1>5, <1>6 DEF DeliveryInv

(* An RPC task answers a command that it did not hand to the worker; a     *)
(* close of an ended instance may have run.                                *)
LEMMA DeliveryAnswer ==
    ASSUME DeliveryInv, TypeOK', NEW c \in Cmd, rpc[c] = "inserted",
           rpc' = [rpc EXCEPT ![c] = "answered"], c \notin Creates,
           \/ wrote' = wrote
           \/ c \in Controls /\ wrote' = [wrote EXCEPT ![c] = @ + 1],
           UNCHANGED <<chan, pending, prompt, held, pc, ctl, sent, told, edited>>
    PROVE  DeliveryInv'
<1>0. /\ Fresh(c) /\ held[c].st = "none" /\ wrote[c] = 0 /\ c \notin told
  BY DEF DeliveryInv, UnsubmittedIsFresh, Fresh, NotHeld
<1>1. /\ \A d \in Cmd : rpc'[d] = IF d = c THEN "answered" ELSE rpc[d]
      /\ \A d \in Cmd : d # c => wrote'[d] = wrote[d]
      /\ wrote'[c] \in {0, 1} /\ (c \in Prompts => wrote'[c] = 0)
  BY <1>0, KindFacts DEF DeliveryInv, TypeOK
<1>2. UnsubmittedIsFresh'
  BY <1>1 DEF DeliveryInv, UnsubmittedIsFresh, Fresh
<1>3. ChannelIsFresh'
  <2>1. \A i \in 1..Len(chan) : chan[i] \in Cmd /\ chan[i] # c
    BY ChannelElement DEF DeliveryInv, ChannelIsFresh
  <2> QED BY <1>1, <2>1 DEF DeliveryInv, ChannelIsFresh, Fresh
<1>4. StartingIsFresh'
  BY <1>1, KindFacts DEF DeliveryInv, StartingIsFresh, Fresh
<1>5. ControlIsFresh'
  <2>1. pc \in {"control", "controlClaimed"} => ctl \in Cmd /\ ctl # c
    BY KindFacts DEF DeliveryInv, TypeOK, ControlIsFresh
  <2> QED BY <1>1, <2>1 DEF DeliveryInv, ControlIsFresh, Fresh
<1>6. PendingIsHeld'
  BY DEF DeliveryInv, PendingIsHeld
<1>7. ClaimIsHead'
  <2>1. pc \in {"claimed", "executing"} =>
            pending # <<>> /\ Head(pending) \in Cmd /\ Head(pending) # c
    BY <1>0, PendingElement DEF DeliveryInv, TypeOK
  <2> QED BY <1>1, <2>1 DEF DeliveryInv, ClaimIsHead
<1>8. WaitingIsUnwritten' /\ TextIsEdited'
  BY <1>0, <1>1 DEF DeliveryInv, WaitingIsUnwritten, TextIsEdited
<1> QED BY <1>2, <1>3, <1>4, <1>5, <1>6, <1>7, <1>8 DEF DeliveryInv

(* Submitting a command preserves the invariant.                           *)
LEMMA DeliverySubmit ==
    ASSUME DeliveryInv, Submit PROVE DeliveryInv'
<1> PICK c \in Cmd : \/ Admit(c) \/ insert_command(c) \/ enqueue_existing(c)
                     \/ EnqueueRejected(c) \/ CloseEnded(c)
  BY DEF Submit
<1>0. TypeOK'
  BY TypeSubmit DEF DeliveryInv
<1>1. CASE Admit(c)
  BY <1>0, <1>1, DeliveryRpc DEF Admit
<1>2. CASE insert_command(c)
  BY <1>0, <1>2, DeliveryRpc DEF insert_command
<1>3. CASE enqueue_existing(c)
  <2>1. /\ Fresh(c) /\ held[c].st = "none" /\ c \notin Creates
        /\ rpc[c] = "inserted" /\ rpc' = [rpc EXCEPT ![c] = "answered"]
        /\ chan' = Append(chan, c)
        /\ UNCHANGED <<pending, prompt, held, pc, ctl, wrote, sent, told, edited>>
    BY <1>3 DEF enqueue_existing, AnswerSubmit, DeliveryInv, UnsubmittedIsFresh, Fresh,
                NotHeld
  <2>2. \A d \in Cmd : rpc'[d] = IF d = c THEN "answered" ELSE rpc[d]
    BY <2>1 DEF DeliveryInv, TypeOK
  <2>3. /\ Len(chan') = Len(chan) + 1 /\ Len(chan) \in Nat
        /\ \A i \in 1..Len(chan) : chan'[i] = chan[i] /\ chan[i] \in Cmd
        /\ chan'[Len(chan) + 1] = c
    BY <2>1, AppendProperties DEF DeliveryInv, TypeOK
  <2>4. \A i \in 1..Len(chan) : chan[i] # c
    BY <2>1 DEF DeliveryInv, ChannelIsFresh
  <2>5. UnsubmittedIsFresh'
    BY <2>1, <2>2 DEF DeliveryInv, UnsubmittedIsFresh, Fresh
  <2>6. ChannelIsFresh'
    <3> SUFFICES ASSUME NEW i \in 1..Len(chan')
                 PROVE  /\ rpc'[chan'[i]] = "answered" /\ Fresh(chan[i])'
                        /\ chan'[i] \notin Creates
                        /\ \A j \in 1..Len(chan') : chan'[i] = chan'[j] => i = j
      BY DEF ChannelIsFresh
    <3>1. CASE i = Len(chan) + 1
      BY <2>1, <2>2, <2>3, <2>4, <3>1 DEF Fresh
    <3>2. CASE i \in 1..Len(chan)
      <4>1. rpc[chan[i]] = "answered" /\ Fresh(chan[i]) /\ chan[i] \notin Creates
        BY <3>2 DEF DeliveryInv, ChannelIsFresh
      <4>2. ASSUME NEW j \in 1..Len(chan'), chan'[i] = chan'[j] PROVE i = j
        BY <2>3, <2>4, <3>2, <4>2 DEF DeliveryInv, ChannelIsFresh
      <4> QED BY <2>1, <2>2, <2>3, <3>2, <4>1, <4>2 DEF Fresh
    <3> QED BY <2>3, <3>1, <3>2
  <2>7. StartingIsFresh'
    BY <2>1, <2>2, KindFacts DEF DeliveryInv, StartingIsFresh, Fresh
  <2>8. ControlIsFresh'
    <3>1. pc \in {"control", "controlClaimed"} => ctl \in Cmd /\ ctl # c
      BY <2>1, KindFacts DEF DeliveryInv, TypeOK, ControlIsFresh
    <3> QED BY <2>1, <2>2, <2>3, <3>1 DEF DeliveryInv, ControlIsFresh, Fresh
  <2>9. PendingIsHeld' /\ ClaimIsHead' /\ WaitingIsUnwritten' /\ TextIsEdited'
    BY <2>1 DEF DeliveryInv, PendingIsHeld, ClaimIsHead, WaitingIsUnwritten,
                TextIsEdited
  <2> QED BY <1>0, <2>5, <2>6, <2>7, <2>8, <2>9 DEF DeliveryInv
<1>4. CASE EnqueueRejected(c)
  BY <1>0, <1>4, DeliveryAnswer DEF EnqueueRejected, AnswerSubmit
<1>5. CASE CloseEnded(c)
  <2>1. c \in Controls /\ c \notin Creates
    BY <1>5, KindFacts DEF CloseEnded
  <2> QED BY <1>0, <1>5, <2>1, DeliveryAnswer DEF CloseEnded, AnswerSubmit
<1> QED BY <1>1, <1>2, <1>3, <1>4, <1>5

(* Creating the instance preserves the invariant.                          *)
LEMMA DeliveryCreate ==
    ASSUME DeliveryInv, Create PROVE DeliveryInv'
<1> PICK c \in Creates : \/ CreateCheck(c) \/ record_lineage(c)
                         \/ CreateInsert(c) \/ CreateAccept(c)
  BY DEF Create
<1>0. TypeOK' /\ c \in Cmd
  BY TypeCreate, KindFacts DEF DeliveryInv
<1>1. CASE CreateCheck(c)
  BY <1>0, <1>1, DeliveryRpc DEF CreateCheck
<1>2. CASE record_lineage(c)
  BY <1>0, <1>2, DeliveryRpc DEF record_lineage
<1>3. CASE CreateInsert(c)
  BY <1>0, <1>3, DeliveryRpc DEF CreateInsert
<1>4. CASE CreateAccept(c)
  <2>1. /\ Fresh(c) /\ pc = "absent" /\ pc' = "starting" /\ pending = <<>>
        /\ rpc[c] = "inserted" /\ rpc' = [rpc EXCEPT ![c] = "answered"]
        /\ UNCHANGED <<chan, pending, prompt, held, ctl, wrote, sent, told, edited>>
    BY <1>0, <1>4 DEF CreateAccept, DeliveryInv, UnsubmittedIsFresh, StartingIsFresh
  <2>2. \A d \in Cmd : rpc'[d] = IF d = c THEN "answered" ELSE rpc[d]
    BY <1>0, <2>1 DEF DeliveryInv, TypeOK
  <2>3. UnsubmittedIsFresh'
    BY <2>1, <2>2 DEF DeliveryInv, UnsubmittedIsFresh, Fresh
  <2>4. ChannelIsFresh'
    BY <2>1, <2>2, ChannelElement DEF DeliveryInv, ChannelIsFresh, Fresh
  <2>5. StartingIsFresh'
    BY <1>0, <2>1, <2>2, CreateAssumption DEF StartingIsFresh, Fresh
  <2>6. ControlIsFresh' /\ ClaimIsHead' /\ PendingIsHeld'
    BY <2>1 DEF DeliveryInv, ControlIsFresh, ClaimIsHead, PendingIsHeld
  <2>7. WaitingIsUnwritten' /\ TextIsEdited'
    BY <2>1 DEF DeliveryInv, WaitingIsUnwritten, TextIsEdited
  <2> QED BY <1>0, <2>3, <2>4, <2>5, <2>6, <2>7 DEF DeliveryInv
<1> QED BY <1>1, <1>2, <1>3, <1>4

(* A fresh, answered prompt that is nowhere in the channel or the queue is *)
(* held and put at position k of the queue.                                *)
LEMMA DeliveryQueue ==
    ASSUME DeliveryInv, TypeOK', NEW c \in Prompts, Fresh(c), rpc[c] = "answered",
           NEW k \in 1..Len(pending) + 1,
           Len(pending') = Len(pending) + 1,
           \A i \in 1..Len(pending') :
               pending'[i] = IF i < k THEN pending[i]
                             ELSE IF i = k THEN c ELSE pending[i - 1],
           ChannelIsFresh, \A i \in 1..Len(chan') : chan'[i] # c,
           \A i \in 1..Len(chan') : \E j \in 1..Len(chan) : chan'[i] = chan[j],
           \A i, j \in 1..Len(chan') : chan'[i] = chan'[j] => i = j,
           held' = [held EXCEPT ![c] = hold], pc \in {"starting", "select"},
           pc' = "select", UNCHANGED <<rpc, prompt, ctl, wrote, sent, told, edited>>
    PROVE  DeliveryInv'
<1>0. /\ c \in Cmd /\ held[c].st = "none" /\ wrote[c] = 0 /\ c \notin told
      /\ edited[c] = Original /\ prompt[c] = Original
      /\ hold.st = "waiting" /\ hold.text = NoText
  BY KindFacts DEF Fresh, NotHeld, hold
<1>1. \A d \in Cmd : held'[d] = IF d = c THEN hold ELSE held[d]
  BY <1>0 DEF DeliveryInv, TypeOK
<1>2. UnsubmittedIsFresh'
  BY <1>1 DEF DeliveryInv, UnsubmittedIsFresh, Fresh
<1>3. ChannelIsFresh'
  <2>1. \A i \in 1..Len(chan) : chan[i] \in Cmd
    BY ChannelElement
  <2> QED BY <1>1, <2>1 DEF ChannelIsFresh, Fresh
<1>4. StartingIsFresh' /\ ControlIsFresh'
  BY DEF StartingIsFresh, ControlIsFresh
<1>5. PendingIsHeld'
  <2>0. Len(pending) \in Nat /\ \A i \in 1..Len(pending) : pending[i] \in Cmd
    <3>1. pending \in Seq(Prompts)
      BY DEF DeliveryInv, TypeOK
    <3> QED BY <3>1, ElementOfSeq, LenProperties, KindFacts
  <2>1. \A i \in 1..Len(pending) : pending[i] # c /\ held[pending[i]].st # "none"
    BY <1>0 DEF DeliveryInv, PendingIsHeld
  <2>2. \A i, j \in 1..Len(pending) : pending[i] = pending[j] => i = j
    BY DEF DeliveryInv, PendingIsHeld
  <2>3. ASSUME NEW i \in 1..Len(pending')
        PROVE  held'[pending'[i]].st # "none"
    <3>1. CASE i = k
      BY <1>0, <1>1, <3>1
    <3>2. CASE i < k
      BY <1>0, <1>1, <2>0, <2>1, <3>2
    <3>3. CASE i > k
      BY <1>0, <1>1, <2>0, <2>1, <3>3
    <3> QED BY <2>0, <3>1, <3>2, <3>3
  <2>4. ASSUME NEW i \in 1..Len(pending'), NEW j \in 1..Len(pending'),
               pending'[i] = pending'[j]
        PROVE  i = j
    <3> DEFINE o(x) == IF x < k THEN x ELSE x - 1
    <3>1. CASE i = k /\ j # k
      <4>1. o(j) \in 1..Len(pending) /\ pending'[j] = pending[o(j)]
        BY <2>0, <3>1
      <4> QED BY <2>1, <2>4, <3>1, <4>1
    <3>2. CASE j = k /\ i # k
      <4>1. o(i) \in 1..Len(pending) /\ pending'[i] = pending[o(i)]
        BY <2>0, <3>2
      <4> QED BY <2>1, <2>4, <3>2, <4>1
    <3>3. CASE i # k /\ j # k
      <4>1. o(i) \in 1..Len(pending) /\ pending'[i] = pending[o(i)]
        BY <2>0, <3>3
      <4>2. o(j) \in 1..Len(pending) /\ pending'[j] = pending[o(j)]
        BY <2>0, <3>3
      <4>3. o(i) = o(j)
        BY <2>2, <2>4, <4>1, <4>2
      <4> QED BY <2>0, <3>3, <4>3
    <3> QED BY <3>1, <3>2, <3>3
  <2> QED BY <2>3, <2>4 DEF PendingIsHeld
<1>6. ClaimIsHead'
  BY <1>0, <1>1 DEF DeliveryInv, ClaimIsHead
<1>7. WaitingIsUnwritten' /\ TextIsEdited'
  BY <1>0, <1>1 DEF DeliveryInv, WaitingIsUnwritten, TextIsEdited
<1> QED BY <1>2, <1>3, <1>4, <1>5, <1>6, <1>7 DEF DeliveryInv

(* Materializing the instance preserves the invariant.                     *)
LEMMA DeliveryStart ==
    ASSUME DeliveryInv, Start PROVE DeliveryInv'
<1>0. TypeOK'
  BY TypeStart DEF DeliveryInv
<1>1. ASSUME NEW c \in Creates, NEW hasPrompt \in BOOLEAN, StartOk(c, hasPrompt)
      PROVE  DeliveryInv'
  <2>1. /\ pc = "starting" /\ pc' = "select" /\ pending = <<>>
        /\ rpc[c] = "answered" /\ Fresh(c) /\ c \in Prompts
        /\ UNCHANGED <<rpc, chan, prompt, ctl, wrote, sent, told, edited>>
    BY <1>1, KindFacts DEF StartOk, DeliveryInv, StartingIsFresh
  <2>2. CASE hasPrompt
    <3>1. pending' = <<c>> /\ held' = [held EXCEPT ![c] = hold]
      BY <1>1, <2>2 DEF StartOk
    <3>2. /\ ChannelIsFresh /\ \A i \in 1..Len(chan) : chan[i] # c
          /\ \A i, j \in 1..Len(chan) : chan[i] = chan[j] => i = j
      BY DEF DeliveryInv, ChannelIsFresh
    <3>3. /\ 1 \in 1..Len(pending) + 1 /\ Len(pending') = Len(pending) + 1
          /\ \A i \in 1..Len(pending') :
               pending'[i] = IF i < 1 THEN pending[i]
                             ELSE IF i = 1 THEN c ELSE pending[i - 1]
      BY <2>1, <3>1
    <3>4. /\ \A i \in 1..Len(chan') : chan'[i] # c
          /\ \A i \in 1..Len(chan') : \E j \in 1..Len(chan) : chan'[i] = chan[j]
          /\ \A i, j \in 1..Len(chan') : chan'[i] = chan'[j] => i = j
      BY <2>1, <3>2
    <3> QED BY <1>0, <2>1, <3>1, <3>2, <3>3, <3>4, DeliveryQueue
  <2>3. CASE ~hasPrompt
    <3>1. pending' = pending /\ held' = held
      BY <1>1, <2>1, <2>3 DEF StartOk
    <3> QED BY <1>0, <2>1, <3>1, DeliveryMove
  <2> QED BY <2>2, <2>3
<1>2. ASSUME NEW c \in Creates, StartFail(c) PROVE DeliveryInv'
  BY <1>0, <1>2, DeliveryMove DEF StartFail
<1>3. CASE BuildFail
  BY <1>0, <1>3, DeliveryMove DEF BuildFail
<1>4. CASE BuildFailReturn
  BY <1>0, <1>4, DeliveryMove DEF BuildFailReturn
<1> QED BY <1>1, <1>2, <1>3, <1>4 DEF Start

(* Taking the head off the channel leaves a channel of other commands.     *)
LEMMA ChannelTail ==
    ASSUME DeliveryInv, chan # <<>>, chan' = Tail(chan)
    PROVE  /\ Head(chan) \in Cmd /\ Fresh(Head(chan))
           /\ rpc[Head(chan)] = "answered" /\ ChannelIsFresh
           /\ \A i \in 1..Len(chan') : chan'[i] # Head(chan)
           /\ \A i \in 1..Len(chan') : \E j \in 1..Len(chan) : chan'[i] = chan[j]
           /\ \A i, j \in 1..Len(chan') : chan'[i] = chan'[j] => i = j
<1>0. /\ chan \in Seq(Cmd) /\ Len(chan) \in Nat /\ Len(chan) # 0
      /\ Head(chan) = chan[1] /\ Head(chan) \in Cmd /\ ChannelIsFresh
  BY EmptySeq, ChannelHead DEF DeliveryInv, TypeOK
<1>1. /\ Len(chan') = Len(chan) - 1
      /\ \A i \in 1..Len(chan') : chan'[i] = chan[i + 1]
  BY <1>0, HeadTailProperties
<1>2. \A i \in 1..Len(chan') : i + 1 \in 1..Len(chan) /\ i + 1 # 1
  BY <1>0, <1>1
<1>3. 1 \in 1..Len(chan)
  BY <1>0
<1>4. Fresh(Head(chan)) /\ rpc[Head(chan)] = "answered"
  BY <1>0, <1>3 DEF ChannelIsFresh
<1>5. \A i \in 1..Len(chan') : chan'[i] # Head(chan)
  BY <1>0, <1>1, <1>2, <1>3 DEF ChannelIsFresh
<1>6. \A i \in 1..Len(chan') : \E j \in 1..Len(chan) : chan'[i] = chan[j]
  BY <1>1, <1>2
<1>7. \A i, j \in 1..Len(chan') : chan'[i] = chan'[j] => i = j
  <2> SUFFICES ASSUME NEW i \in 1..Len(chan'), NEW j \in 1..Len(chan'),
                      chan'[i] = chan'[j]
               PROVE  i = j
    OBVIOUS
  <2>1. chan[i + 1] = chan[j + 1]
    BY <1>1
  <2>2. i + 1 = j + 1
    BY <1>0, <1>2, <2>1 DEF ChannelIsFresh
  <2> QED BY <1>0, <1>1, <2>2
<1> QED BY <1>0, <1>4, <1>5, <1>6, <1>7

(* The worker's receive preserves the invariant.                           *)
LEMMA DeliveryRecv ==
    ASSUME DeliveryInv, Recv PROVE DeliveryInv'
<1> PICK c \in Cmd : RecvFull(c) \/ RecvPrompt(c) \/ RecvSteer(c) \/ RecvControl(c)
  BY DEF Recv
<1>0. TypeOK'
  BY TypeRecv DEF DeliveryInv
<1>1. /\ pc = "select" /\ chan # <<>> /\ c = Head(chan) /\ chan' = Tail(chan)
  BY DEF RecvFull, RecvPrompt, RecvSteer, RecvControl
<1>2. /\ Fresh(c) /\ rpc[c] = "answered" /\ ChannelIsFresh
      /\ \A i \in 1..Len(chan') : chan'[i] # c
      /\ \A i \in 1..Len(chan') : \E j \in 1..Len(chan) : chan'[i] = chan[j]
      /\ \A i, j \in 1..Len(chan') : chan'[i] = chan'[j] => i = j
  BY <1>1, ChannelTail
<1>3. \A i \in 1..Len(chan) : chan[i] \in Cmd
  BY DEF DeliveryInv, TypeOK
<1>4. CASE RecvFull(c)
  <2>1. UNCHANGED <<rpc, pending, prompt, held, pc, ctl, wrote, sent, told, edited>>
    BY <1>4 DEF RecvFull
  <2>2. ChannelIsFresh'
    BY <1>2, <2>1 DEF ChannelIsFresh, Fresh
  <2>3. UnsubmittedIsFresh' /\ StartingIsFresh' /\ ControlIsFresh'
    BY <1>1, <2>1 DEF DeliveryInv, UnsubmittedIsFresh, StartingIsFresh,
                      ControlIsFresh, Fresh
  <2>4. PendingIsHeld' /\ ClaimIsHead' /\ WaitingIsUnwritten' /\ TextIsEdited'
    BY <2>1 DEF DeliveryInv, PendingIsHeld, ClaimIsHead, WaitingIsUnwritten,
                TextIsEdited
  <2> QED BY <1>0, <2>2, <2>3, <2>4 DEF DeliveryInv
<1>5. CASE RecvPrompt(c)
  <2>0. /\ c \in Prompts /\ pending \in Seq(Prompts) /\ Len(pending) \in Nat
        /\ pending' = Append(pending, c)
    BY <1>5, KindFacts DEF RecvPrompt, DeliveryInv, TypeOK
  <2>1. /\ Len(pending) + 1 \in 1..Len(pending) + 1
        /\ Len(pending') = Len(pending) + 1
        /\ \A i \in 1..Len(pending') :
              pending'[i] = IF i < Len(pending) + 1 THEN pending[i]
                            ELSE IF i = Len(pending) + 1 THEN c ELSE pending[i - 1]
    BY <2>0, AppendProperties
  <2>2. /\ held' = [held EXCEPT ![c] = hold] /\ pc' = "select"
        /\ UNCHANGED <<rpc, prompt, ctl, wrote, sent, told, edited>>
    BY <1>1, <1>5 DEF RecvPrompt
  <2> QED BY <1>0, <1>1, <1>2, <2>0, <2>1, <2>2, DeliveryQueue
<1>6. CASE RecvSteer(c)
  <2>0. /\ c \in Prompts /\ pending \in Seq(Prompts)
        /\ pending' = InsertAt(pending, steer_slot(pending), c)
    BY <1>6, KindFacts DEF RecvSteer, DeliveryInv, TypeOK
  <2> DEFINE k == steer_slot(pending)
  <2>1. k \in 1..Len(pending) + 1
    BY <2>0, SteerSlotType
  <2> HIDE DEF k
  <2>2. /\ Len(pending') = Len(pending) + 1
        /\ \A i \in 1..Len(pending') :
              pending'[i] = IF i < k THEN pending[i]
                            ELSE IF i = k THEN c ELSE pending[i - 1]
    BY <2>0, <2>1, InsertAtFacts DEF k
  <2>3. /\ held' = [held EXCEPT ![c] = hold] /\ pc' = "select"
        /\ UNCHANGED <<rpc, prompt, ctl, wrote, sent, told, edited>>
    BY <1>1, <1>6 DEF RecvSteer
  <2> QED BY <1>0, <1>1, <1>2, <2>0, <2>1, <2>2, <2>3, DeliveryQueue
<1>7. CASE RecvControl(c)
  <2>1. /\ pc' = "control" /\ ctl' = c
        /\ UNCHANGED <<rpc, prompt, wrote, sent, told, edited>>
    BY <1>7 DEF RecvControl
  <2>2. /\ \A d \in Cmd : held'[d] = held[d] \/ held'[d] = NotHeld
        /\ pending' = <<>> \/ (pending' = pending /\ held' = held)
    BY <1>7 DEF RecvControl, interrupt_pending
  <2>3. UnsubmittedIsFresh'
    BY <2>1, <2>2 DEF DeliveryInv, UnsubmittedIsFresh, Fresh
  <2>4. ChannelIsFresh'
    <3>2. ASSUME NEW i \in 1..Len(chan')
          PROVE  rpc[chan'[i]] = "answered" /\ Fresh(chan[i])' /\ chan'[i] \notin Creates
      <4>1. PICK j \in 1..Len(chan) : chan'[i] = chan[j]
        BY <1>2
      <4>2. rpc[chan[j]] = "answered" /\ Fresh(chan[j]) /\ chan[j] \notin Creates
        BY <1>2 DEF ChannelIsFresh
      <4>3. held'[chan[j]] = NotHeld
        BY <1>3, <2>2, <4>2 DEF Fresh
      <4> QED BY <2>1, <4>1, <4>2, <4>3 DEF Fresh
    <3> QED BY <1>2, <2>1, <3>2 DEF ChannelIsFresh
  <2>5. StartingIsFresh' /\ ControlIsFresh'
    BY <1>2, <2>1, <2>2 DEF StartingIsFresh, ControlIsFresh, Fresh
  <2>6. PendingIsHeld'
    <3>1. CASE pending' = <<>>
      BY <3>1 DEF PendingIsHeld
    <3>2. CASE pending' = pending /\ held' = held
      BY <3>2 DEF DeliveryInv, PendingIsHeld
    <3> QED BY <2>2, <3>1, <3>2
  <2>7. ClaimIsHead'
    BY <1>1, <2>1, <2>2 DEF DeliveryInv, ClaimIsHead, NotHeld
  <2>8. WaitingIsUnwritten' /\ TextIsEdited'
    BY <2>1, <2>2 DEF DeliveryInv, WaitingIsUnwritten, TextIsEdited, NotHeld
  <2> QED BY <1>0, <2>3, <2>4, <2>5, <2>6, <2>7, <2>8 DEF DeliveryInv
<1> QED BY <1>4, <1>5, <1>6, <1>7

(* Executing a control preserves the invariant.                            *)
LEMMA DeliveryControl ==
    ASSUME DeliveryInv, Control PROVE DeliveryInv'
<1>0. TypeOK'
  BY TypeControl DEF DeliveryInv
<1>1. CASE ControlClaim
  <2>1. /\ pc = "control" /\ pc' \in {"controlDone", "controlClaimed"}
        /\ UNCHANGED <<rpc, chan, pending, prompt, held, ctl, wrote, sent, told, edited>>
    BY <1>1 DEF ControlClaim
  <2>2. ControlIsFresh'
    BY <2>1 DEF DeliveryInv, ControlIsFresh, Fresh
  <2>3. UnsubmittedIsFresh' /\ ChannelIsFresh' /\ StartingIsFresh' /\ PendingIsHeld'
    BY <2>1 DEF DeliveryInv, UnsubmittedIsFresh, ChannelIsFresh, StartingIsFresh,
                PendingIsHeld, Fresh
  <2>4. ClaimIsHead' /\ WaitingIsUnwritten' /\ TextIsEdited'
    BY <2>1 DEF DeliveryInv, ClaimIsHead, WaitingIsUnwritten, TextIsEdited
  <2> QED BY <1>0, <2>2, <2>3, <2>4 DEF DeliveryInv
<1>2. CASE ControlOk \/ \E written \in BOOLEAN : ControlErr(written)
  <2>1. /\ pc = "controlClaimed" /\ pc' = "controlDone"
        /\ wrote' = wrote \/ wrote' = [wrote EXCEPT ![ctl] = @ + 1]
        /\ UNCHANGED <<rpc, chan, pending, prompt, held, ctl, sent, told, edited>>
    BY <1>2 DEF ControlOk, ControlErr
  <2>2. /\ ctl \in Cmd /\ ctl \notin Prompts /\ rpc[ctl] = "answered"
        /\ wrote[ctl] = 0 /\ held[ctl].st = "none" /\ ctl \notin told
        /\ \A i \in 1..Len(chan) : chan[i] \in Cmd /\ chan[i] # ctl
    BY <2>1, KindFacts DEF DeliveryInv, TypeOK, ControlIsFresh, Fresh, NotHeld
  <2>3. /\ \A d \in Cmd : d # ctl => wrote'[d] = wrote[d]
        /\ wrote'[ctl] \in {0, 1}
    BY <2>1, <2>2 DEF DeliveryInv, TypeOK
  <2>4. UnsubmittedIsFresh'
    BY <2>1, <2>2, <2>3 DEF DeliveryInv, UnsubmittedIsFresh, Fresh
  <2>5. ChannelIsFresh'
    BY <2>1, <2>2, <2>3 DEF DeliveryInv, ChannelIsFresh, Fresh
  <2>6. StartingIsFresh' /\ ControlIsFresh' /\ PendingIsHeld' /\ ClaimIsHead'
    BY <2>1 DEF DeliveryInv, StartingIsFresh, ControlIsFresh, PendingIsHeld,
                ClaimIsHead
  <2>7. WaitingIsUnwritten' /\ TextIsEdited'
    BY <2>1, <2>2, <2>3 DEF DeliveryInv, WaitingIsUnwritten, TextIsEdited
  <2> QED BY <1>0, <2>4, <2>5, <2>6, <2>7 DEF DeliveryInv
<1>3. CASE ControlReturn
  <2>1. /\ chan' = chan \/ chan' = <<>>
        /\ pc = "controlDone" /\ pc' \in {"ended", "select"}
        /\ UNCHANGED <<rpc, pending, prompt, held, wrote, sent, told, edited>>
    BY <1>3 DEF ControlReturn
  <2> QED BY <1>0, <2>1, DeliveryMove
<1> QED BY <1>1, <1>2, <1>3 DEF Control

(* A step that drops the whole queue and releases its prompts.             *)
LEMMA DeliveryInterrupt ==
    ASSUME DeliveryInv, TypeOK', interrupt_pending, pc = "scan", pc' = "select",
           UNCHANGED <<rpc, chan, prompt, ctl, wrote, sent, told, edited>>
    PROVE  DeliveryInv'
<1>1. /\ \A d \in Cmd : held'[d] = held[d] \/ held'[d] = NotHeld
      /\ pending' = <<>>
  BY DEF interrupt_pending
<1>2. UnsubmittedIsFresh'
  BY <1>1 DEF DeliveryInv, UnsubmittedIsFresh, Fresh
<1>3. ChannelIsFresh'
  <2>1. \A i \in 1..Len(chan) : chan[i] \in Cmd
    BY ChannelElement
  <2> QED BY <1>1, <2>1 DEF DeliveryInv, ChannelIsFresh, Fresh
<1>4. StartingIsFresh' /\ ControlIsFresh'
  BY DEF StartingIsFresh, ControlIsFresh
<1>5. PendingIsHeld'
  BY <1>1 DEF PendingIsHeld
<1>6. ClaimIsHead'
  BY <1>1 DEF DeliveryInv, ClaimIsHead, NotHeld
<1>7. WaitingIsUnwritten' /\ TextIsEdited'
  BY <1>1 DEF DeliveryInv, WaitingIsUnwritten, TextIsEdited, NotHeld
<1> QED BY <1>2, <1>3, <1>4, <1>5, <1>6, <1>7 DEF DeliveryInv

(* The scan of the queue and the gate preserve the invariant.              *)
LEMMA DeliveryGate ==
    ASSUME DeliveryInv, Gate PROVE DeliveryInv'
<1>0. TypeOK'
  BY TypeGate DEF DeliveryInv
<1>1. CASE Tick \/ TickDrained \/ TickGated \/ TickDeliver
  <2>1. /\ pc \in {"select", "scan"} /\ pc' \in {"select", "scan", "resolve"}
        /\ UNCHANGED <<rpc, chan, pending, prompt, held, wrote, sent, told, edited>>
    BY <1>1 DEF Tick, TickDrained, TickGated, TickDeliver, Scanned
  <2> QED BY <1>0, <2>1, DeliveryMove
<1>2. CASE TickNotReady
  BY <1>0, <1>2, DeliveryInterrupt DEF TickNotReady, Scanned
<1>3. CASE apply_held_changes
  <2> DEFINE c == pending[scan]
  <2>0. /\ scan \in 1..Len(pending) /\ c \in Cmd /\ pc = "scan" /\ pc' = "scan"
        /\ held[c].st # "none" /\ rpc[c] = "answered"
        /\ \A i \in 1..Len(chan) : chan[i] \in Cmd /\ chan[i] # c
        /\ UNCHANGED <<rpc, chan, ctl, wrote, sent, told, edited>>
    <3>1. /\ scan \in 1..Len(pending) /\ c \in Cmd /\ held[c].st # "none"
      BY <1>3, KindFacts, ElementOfSeq
         DEF apply_held_changes, DeliveryInv, TypeOK, PendingIsHeld
    <3>2. ~Fresh(c)
      BY <3>1 DEF Fresh, NotHeld
    <3> QED BY <1>3, <3>1, <3>2 DEF apply_held_changes, DeliveryInv, TypeOK,
                                    UnsubmittedIsFresh, ChannelIsFresh
  <2> HIDE DEF c
  <2>1. CASE /\ held[c].st = "withdrawn"
             /\ held' = [held EXCEPT ![c] = NotHeld]
             /\ pending' = RemoveAt(pending, scan) /\ prompt' = prompt
    <3>1. \A d \in Cmd : held'[d] = IF d = c THEN NotHeld ELSE held[d]
      BY <2>0, <2>1 DEF DeliveryInv, TypeOK
    <3>2. /\ Len(pending) \in Nat /\ Len(pending') = Len(pending) - 1
          /\ \A i \in 1..Len(pending') :
                pending'[i] = IF i < scan THEN pending[i] ELSE pending[i + 1]
          /\ \A i \in 1..Len(pending) : pending[i] \in Cmd
      <4>1. pending \in Seq(Prompts)
        BY DEF DeliveryInv, TypeOK
      <4>2. /\ Len(pending) \in Nat
            /\ \A i \in 1..Len(pending) : pending[i] \in Cmd
        BY <4>1, ElementOfSeq, LenProperties, KindFacts
      <4>3. /\ Len(RemoveAt(pending, scan)) = Len(pending) - 1
            /\ \A i \in 1..Len(pending) - 1 :
                  RemoveAt(pending, scan)[i] = IF i < scan THEN pending[i]
                                               ELSE pending[i + 1]
        BY <2>0, <4>1, RemoveAtFacts
      <4> QED BY <2>1, <4>2, <4>3
    <3>3. PendingIsHeld'
      <4> DEFINE o(x) == IF x < scan THEN x ELSE x + 1
      <4>1. \A i, j \in 1..Len(pending) : pending[i] = pending[j] => i = j
        BY DEF DeliveryInv, PendingIsHeld
      <4>2. ASSUME NEW i \in 1..Len(pending')
            PROVE  /\ o(i) \in 1..Len(pending) /\ o(i) # scan
                   /\ pending'[i] = pending[o(i)]
        BY <2>0, <3>2
      <4>3. ASSUME NEW i \in 1..Len(pending') PROVE held'[pending'[i]].st # "none"
        <5>1. pending[o(i)] # c /\ pending[o(i)] \in Cmd
          BY <2>0, <3>2, <4>1, <4>2 DEF c
        <5>2. held[pending[o(i)]].st # "none"
          BY <4>2 DEF DeliveryInv, PendingIsHeld
        <5> QED BY <3>1, <4>2, <5>1, <5>2
      <4>4. ASSUME NEW i \in 1..Len(pending'), NEW j \in 1..Len(pending'),
                   pending'[i] = pending'[j]
            PROVE  i = j
        <5>1. o(i) = o(j)
          BY <4>1, <4>2, <4>4
        <5> QED BY <2>0, <3>2, <5>1
      <4> QED BY <4>3, <4>4 DEF PendingIsHeld
    <3>4. UnsubmittedIsFresh' /\ StartingIsFresh' /\ ControlIsFresh'
      BY <2>0, <2>1, <3>1 DEF DeliveryInv, UnsubmittedIsFresh, StartingIsFresh,
                              ControlIsFresh, Fresh
    <3>5. ChannelIsFresh'
      BY <2>0, <2>1, <3>1 DEF DeliveryInv, ChannelIsFresh, Fresh
    <3>6. ClaimIsHead' /\ WaitingIsUnwritten' /\ TextIsEdited'
      BY <2>0, <2>1, <3>1 DEF DeliveryInv, ClaimIsHead, WaitingIsUnwritten,
                              TextIsEdited, NotHeld
    <3> QED BY <1>0, <3>3, <3>4, <3>5, <3>6 DEF DeliveryInv
  <2>2. CASE /\ held[c].st = "waiting" /\ held[c].text # NoText
             /\ held' = [held EXCEPT ![c].text = NoText]
             /\ prompt' = [prompt EXCEPT ![c] = held[c].text]
             /\ pending' = pending
    <3>1. /\ \A d \in Cmd : d # c => held'[d] = held[d] /\ prompt'[d] = prompt[d]
          /\ held'[c].st = "waiting" /\ held'[c].text = NoText
          /\ prompt'[c] = held[c].text
      BY <2>0, <2>2 DEF DeliveryInv, TypeOK, HeldEntry
    <3>2. UnsubmittedIsFresh' /\ StartingIsFresh' /\ ControlIsFresh'
      BY <2>0, <2>2, <3>1 DEF DeliveryInv, UnsubmittedIsFresh, StartingIsFresh,
                              ControlIsFresh, Fresh
    <3>3. ChannelIsFresh'
      BY <2>0, <2>2, <3>1 DEF DeliveryInv, ChannelIsFresh, Fresh
    <3>4. PendingIsHeld'
      <4>1. \A i \in 1..Len(pending) : pending[i] \in Cmd
        BY KindFacts DEF DeliveryInv, TypeOK
      <4> QED BY <2>2, <3>1, <4>1 DEF DeliveryInv, PendingIsHeld
    <3>5. ClaimIsHead' /\ WaitingIsUnwritten'
      BY <2>0, <2>2, <3>1 DEF DeliveryInv, ClaimIsHead, WaitingIsUnwritten
    <3>6. TextIsEdited'
      BY <2>0, <2>2, <3>1 DEF DeliveryInv, TextIsEdited
    <3> QED BY <1>0, <3>2, <3>3, <3>4, <3>5, <3>6 DEF DeliveryInv
  <2>3. CASE UNCHANGED <<held, prompt, pending>>
    BY <1>0, <2>0, <2>3, DeliveryMove
  <2> QED BY <1>3, <2>1, <2>2, <2>3 DEF apply_held_changes, apply_edit, c
<1> QED BY <1>1, <1>2, <1>3 DEF Gate

(* Delivering the head preserves the invariant.                            *)
LEMMA DeliveryDeliver ==
    ASSUME DeliveryInv, Deliver PROVE DeliveryInv'
<1> DEFINE c == Head(pending)
<1>0. TypeOK' /\ pending # <<>>
  BY TypeDeliver
     DEF DeliveryInv, Deliver, ResolveOk, ResolveFail, ProbeUnavailable, ProbeErr,
         ClaimWithdrawn, ClaimDeliver, ClaimFenced, ClaimDispatch, ExecuteOk,
         ExecuteUnavailable, ExecuteErr, SettleOk, SettleErr, TypeOK
<1>00. /\ 1 \in 1..Len(pending) /\ c = pending[1] /\ held[c].st # "none"
       /\ c \in Cmd /\ c \in Prompts /\ rpc[c] = "answered"
       /\ \A i \in 1..Len(chan) : chan[i] \in Cmd /\ chan[i] # c
  <2>1. TypeOK /\ \A i \in 1..Len(chan) : chan[i] \in Cmd
    BY DEF DeliveryInv, TypeOK
  <2> QED BY <1>0, <2>1, PendingElement, QueueHead
<1> HIDE DEF c
<1>1. CASE ResolveOk \/ ProbeUnavailable \/ ProbeErr
  <2>1. /\ pc \in {"resolve", "probe"} /\ pc' \in {"probe", "select", "erred"}
        /\ UNCHANGED <<rpc, chan, pending, prompt, held, wrote, sent, told, edited>>
    BY <1>1 DEF ResolveOk, ProbeUnavailable, ProbeErr
  <2> QED BY <1>0, <2>1, DeliveryMove
<1>2. CASE ResolveFail \/ ClaimWithdrawn \/ ClaimFenced \/ SettleOk \/ SettleErr
  <2>1. /\ held' = [held EXCEPT ![Head(pending)] = NotHeld]
        /\ pending' = Tail(pending) /\ pc' = "select"
        /\ UNCHANGED <<rpc, chan, prompt, wrote, sent, told, edited>>
    BY <1>2 DEF ResolveFail, ClaimWithdrawn, ClaimFenced, SettleOk, SettleErr, PopHead
  <2> QED BY <1>0, <2>1, DeliveryDropHead
<1>3. CASE ClaimDeliver
  <2>1. /\ pc = "probe" /\ pc' = "claimed" /\ held[c].st # "withdrawn"
        /\ held' = [held EXCEPT ![c].st = "delivering", ![c].text = NoText]
        /\ \/ held[c].text = NoText /\ prompt' = prompt
           \/ held[c].text # NoText /\ prompt' = [prompt EXCEPT ![c] = held[c].text]
        /\ UNCHANGED <<rpc, chan, pending, ctl, wrote, sent, told, edited>>
    BY <1>3, <1>00 DEF ClaimDeliver, apply_edit, c
  <2>2. held[c].st = "waiting"
    BY <1>00, <2>1 DEF DeliveryInv, TypeOK, HeldEntry, ClaimIsHead
  <2>3. /\ \A d \in Cmd : d # c => held'[d] = held[d] /\ prompt'[d] = prompt[d]
        /\ held'[c].st = "delivering" /\ held'[c].text = NoText
        /\ prompt'[c] = IF held[c].text = NoText THEN prompt[c] ELSE held[c].text
    BY <1>00, <2>1 DEF DeliveryInv, TypeOK, HeldEntry
  <2>4. wrote[c] = 0 /\ c \notin told /\ edited[c] = prompt'[c]
    BY <1>00, <2>2, <2>3 DEF DeliveryInv, WaitingIsUnwritten, TextIsEdited
  <2>10. /\ pc' = "claimed"
         /\ UNCHANGED <<rpc, chan, pending, ctl, wrote, sent, told, edited>>
    BY <2>1
  <2>5. UnsubmittedIsFresh' /\ StartingIsFresh' /\ ControlIsFresh'
    BY <1>00, <2>10, <2>3 DEF DeliveryInv, UnsubmittedIsFresh, StartingIsFresh,
                             ControlIsFresh, Fresh
  <2>6. ChannelIsFresh'
    BY <1>00, <2>10, <2>3 DEF DeliveryInv, ChannelIsFresh, Fresh
  <2>7. PendingIsHeld'
    <3>1. \A i \in 1..Len(pending) : pending[i] \in Cmd
      BY KindFacts DEF DeliveryInv, TypeOK
    <3> QED BY <2>10, <2>3, <3>1 DEF DeliveryInv, PendingIsHeld
  <2>8. ClaimIsHead'
    BY <1>0, <1>00, <2>1, <2>3, <2>4 DEF DeliveryInv, ClaimIsHead, c
  <2>9. WaitingIsUnwritten' /\ TextIsEdited'
    BY <1>00, <2>10, <2>3, <2>4 DEF DeliveryInv, WaitingIsUnwritten, TextIsEdited
  <2> QED BY <1>0, <2>5, <2>6, <2>7, <2>8, <2>9 DEF DeliveryInv
<1>4. CASE ClaimDispatch
  <2>1. /\ pc = "claimed" /\ pc' = "executing"
        /\ UNCHANGED <<rpc, chan, pending, prompt, held, ctl, wrote, sent, told, edited>>
    BY <1>4 DEF ClaimDispatch
  <2>2. UnsubmittedIsFresh' /\ ChannelIsFresh' /\ StartingIsFresh' /\ ControlIsFresh'
    BY <2>1 DEF DeliveryInv, UnsubmittedIsFresh, ChannelIsFresh, StartingIsFresh,
                ControlIsFresh, Fresh
  <2>3. PendingIsHeld' /\ ClaimIsHead' /\ WaitingIsUnwritten' /\ TextIsEdited'
    BY <2>1 DEF DeliveryInv, PendingIsHeld, ClaimIsHead, WaitingIsUnwritten,
                TextIsEdited
  <2> QED BY <1>0, <2>2, <2>3 DEF DeliveryInv
<1>5. CASE ExecuteUnavailable
  <2>1. /\ pc = "executing" /\ pc' = "select"
        /\ held' = IF held[c].st = "delivering"
                   THEN [held EXCEPT ![c].st = "waiting"] ELSE held
        /\ UNCHANGED <<rpc, chan, pending, prompt, wrote, sent, told, edited>>
    BY <1>5 DEF ExecuteUnavailable, c
  <2>2. held[c].st = "delivering" /\ wrote[c] = 0
    BY <2>1 DEF DeliveryInv, ClaimIsHead, c
  <2>3. /\ \A d \in Cmd : d # c => held'[d] = held[d]
        /\ held'[c].st = "waiting" /\ held'[c].text = held[c].text
    BY <1>00, <2>1, <2>2 DEF DeliveryInv, TypeOK, HeldEntry
  <2>4. UnsubmittedIsFresh' /\ StartingIsFresh' /\ ControlIsFresh'
    BY <1>00, <2>1, <2>3 DEF DeliveryInv, UnsubmittedIsFresh, StartingIsFresh,
                             ControlIsFresh, Fresh
  <2>5. ChannelIsFresh'
    BY <1>00, <2>1, <2>3 DEF DeliveryInv, ChannelIsFresh, Fresh
  <2>6. PendingIsHeld'
    <3>1. \A i \in 1..Len(pending) : pending[i] \in Cmd
      BY KindFacts DEF DeliveryInv, TypeOK
    <3> QED BY <2>1, <2>3, <3>1 DEF DeliveryInv, PendingIsHeld
  <2>7. ClaimIsHead'
    BY <1>00, <2>1, <2>3 DEF DeliveryInv, ClaimIsHead, c
  <2>8. WaitingIsUnwritten'
    BY <1>00, <2>1, <2>2, <2>3 DEF DeliveryInv, WaitingIsUnwritten
  <2>9. TextIsEdited'
    BY <1>00, <2>1, <2>2, <2>3 DEF DeliveryInv, TextIsEdited
  <2> QED BY <1>0, <2>4, <2>5, <2>6, <2>7, <2>8, <2>9 DEF DeliveryInv
<1>6. CASE ExecuteOk \/ \E written \in BOOLEAN : ExecuteErr(written)
  <2>1. /\ pc = "executing" /\ pc' \in {"written", "erred"}
        /\ UNCHANGED <<rpc, chan, pending, prompt, held, told, edited>>
        /\ DriverWrites(c) \/ UNCHANGED <<wrote, sent>>
    BY <1>6 DEF ExecuteOk, ExecuteErr, c
  <2>2. CASE UNCHANGED <<wrote, sent>>
    BY <1>0, <2>1, <2>2, DeliveryMove
  <2>3. CASE DriverWrites(c)
    <3>1. /\ held[c].st = "delivering" /\ wrote[c] = 0 /\ edited[c] = prompt[c]
          /\ c \notin told
      BY <1>00, <2>1 DEF DeliveryInv, ClaimIsHead, TextIsEdited, WaitingIsUnwritten, c
    <3>2. /\ \A d \in Cmd : d # c => wrote'[d] = wrote[d] /\ sent'[d] = sent[d]
          /\ wrote'[c] = 1 /\ sent'[c] = prompt[c]
      BY <1>00, <2>3, <3>1 DEF DriverWrites, DeliveryInv, TypeOK
    <3>3. UnsubmittedIsFresh' /\ StartingIsFresh' /\ ControlIsFresh'
      BY <1>00, <2>1, <3>2 DEF DeliveryInv, UnsubmittedIsFresh, StartingIsFresh,
                               ControlIsFresh, Fresh
    <3>4. ChannelIsFresh'
      BY <1>00, <2>1, <3>2 DEF DeliveryInv, ChannelIsFresh, Fresh
    <3>5. PendingIsHeld' /\ ClaimIsHead'
      BY <2>1 DEF DeliveryInv, PendingIsHeld, ClaimIsHead
    <3>6. WaitingIsUnwritten' /\ TextIsEdited'
      BY <1>00, <2>1, <3>1, <3>2 DEF DeliveryInv, WaitingIsUnwritten, TextIsEdited
    <3> QED BY <1>0, <3>3, <3>4, <3>5, <3>6 DEF DeliveryInv
  <2> QED BY <2>1, <2>2, <2>3
<1> QED BY <1>1, <1>2, <1>3, <1>4, <1>5, <1>6 DEF Deliver

(* A withdrawal and an edit preserve the invariant.                        *)
LEMMA DeliveryHeldInput ==
    ASSUME DeliveryInv, HeldInput PROVE DeliveryInv'
<1>0. TypeOK'
  BY TypeHeldInput DEF DeliveryInv
<1>1. ASSUME NEW c \in Prompts, NEW h \in HeldEntry,
             held[c].st \in {"waiting", "withdrawn"},
             h.st \in {"waiting", "withdrawn"}, held' = [held EXCEPT ![c] = h],
             told' = told \/ (told' = told \cup {c} /\ h.st = "withdrawn"),
             h.st = "waiting" => c \notin told,
             \A d \in Cmd : d # c => edited'[d] = edited[d],
             h.st = "waiting" =>
                 edited'[c] = IF h.text = NoText THEN prompt[c] ELSE h.text,
             UNCHANGED <<rpc, chan, pending, prompt, pc, ctl, wrote, sent>>
      PROVE  DeliveryInv'
  <2>0. c \in Cmd /\ ~Fresh(c) /\ rpc[c] = "answered" /\ wrote[c] = 0
    <3>1. c \in Cmd /\ ~Fresh(c)
      BY <1>1, KindFacts DEF Fresh, NotHeld
    <3> QED BY <1>1, <3>1 DEF DeliveryInv, UnsubmittedIsFresh, WaitingIsUnwritten
  <2>1. \A d \in Cmd : held'[d] = IF d = c THEN h ELSE held[d]
    BY <1>1, <2>0 DEF DeliveryInv, TypeOK
  <2>2. /\ UNCHANGED <<rpc, chan, pending, prompt, pc, ctl, wrote, sent>>
        /\ \A d \in Cmd : d # c => (d \in told' <=> d \in told)
        /\ \A d \in Cmd : d # c => edited'[d] = edited[d]
        /\ c \in told' => h.st = "withdrawn"
    BY <1>1
  <2>3. \A d \in Cmd : Fresh(d) => Fresh(d)'
    BY <2>0, <2>1, <2>2 DEF Fresh
  <2>4. UnsubmittedIsFresh'
    BY <2>0, <2>2, <2>3 DEF DeliveryInv, UnsubmittedIsFresh
  <2>5. ChannelIsFresh'
    <3> SUFFICES ASSUME NEW i \in 1..Len(chan)
                 PROVE  /\ rpc[chan[i]] = "answered" /\ Fresh(chan[i])'
                        /\ chan[i] \notin Creates
                        /\ \A j \in 1..Len(chan) : chan[i] = chan[j] => i = j
      BY <2>2 DEF ChannelIsFresh
    <3>1. chan[i] \in Cmd /\ Fresh(chan[i]) /\ chan[i] # c
      BY <2>0 DEF DeliveryInv, TypeOK, ChannelIsFresh
    <3>2. Fresh(chan[i])'
      BY <2>1, <2>2, <3>1 DEF Fresh
    <3> QED BY <3>2 DEF DeliveryInv, ChannelIsFresh
  <2>6. StartingIsFresh'
    BY <2>2, <2>3, KindFacts DEF DeliveryInv, StartingIsFresh
  <2>7. ControlIsFresh'
    <3>1. pc \in {"control", "controlClaimed"} => ctl \in Cmd /\ Fresh(ctl)
      BY KindFacts DEF DeliveryInv, TypeOK, ControlIsFresh
    <3>2. pc \in {"control", "controlClaimed"} => Fresh(ctl)'
      BY <2>0, <2>1, <2>2, <3>1 DEF Fresh
    <3> QED BY <2>2, <3>2 DEF DeliveryInv, ControlIsFresh
  <2>8. PendingIsHeld'
    <3>1. \A i \in 1..Len(pending) : pending[i] \in Cmd
      BY KindFacts DEF DeliveryInv, TypeOK
    <3> QED BY <1>1, <2>1, <2>2, <3>1 DEF DeliveryInv, PendingIsHeld
  <2>9. ClaimIsHead'
    <3>1. /\ \A d \in Cmd : held'[d].st = "delivering" => held[d].st = "delivering"
          /\ \A d \in Cmd : held[d].st = "delivering" => held'[d] = held[d]
      BY <1>1, <2>1
    <3>2. pc \in {"claimed", "executing"} => Head(pending) \in Cmd
      BY QueueHead DEF DeliveryInv, TypeOK
    <3> QED BY <2>2, <3>1, <3>2 DEF DeliveryInv, ClaimIsHead
  <2>10. WaitingIsUnwritten'
    BY <1>1, <2>0, <2>1, <2>2 DEF DeliveryInv, WaitingIsUnwritten
  <2>11. TextIsEdited'
    BY <1>1, <2>0, <2>1, <2>2 DEF DeliveryInv, TextIsEdited
  <2> QED BY <1>0, <2>4, <2>5, <2>6, <2>7, <2>8, <2>9, <2>10, <2>11 DEF DeliveryInv
<1>2. ASSUME NEW c \in Prompts, withdraw(c) PROVE DeliveryInv'
  <2> DEFINE h == [held[c] EXCEPT !.st = "withdrawn"]
  <2>0. held[c] \in HeldEntry
    BY KindFacts DEF DeliveryInv, TypeOK
  <2>1. h \in HeldEntry /\ h.st = "withdrawn"
    BY <2>0 DEF HeldEntry
  <2>2. /\ held' = [held EXCEPT ![c] = h] /\ told' = told \cup {c}
        /\ held[c].st \in {"waiting", "withdrawn"}
        /\ UNCHANGED <<rpc, chan, pending, prompt, pc, ctl, wrote, sent, edited>>
    BY <1>2 DEF withdraw
  <2> HIDE DEF h
  <2> QED BY <1>1, <2>1, <2>2
<1>3. ASSUME NEW c \in Prompts, NEW expected \in 0..MaxRevision, NEW text \in Texts,
             edit(c, expected, text)
      PROVE  DeliveryInv'
  <2> DEFINE h == [held[c] EXCEPT !.rev = expected + 1, !.text = text]
  <2>0. c \in Cmd /\ held[c] \in HeldEntry /\ held[c].st = "waiting"
    BY <1>3, KindFacts DEF edit, DeliveryInv, TypeOK
  <2>1. expected + 1 \in -1..MaxRevision
    BY <1>3, BoundsAssumption DEF edit
  <2>2. h \in HeldEntry /\ h.st = "waiting" /\ h.text = text
    BY <2>0, <2>1 DEF HeldEntry
  <2>3. /\ held' = [held EXCEPT ![c] = h] /\ edited' = [edited EXCEPT ![c] = text]
        /\ UNCHANGED <<rpc, chan, pending, prompt, pc, ctl, wrote, sent, told>>
    BY <1>3 DEF edit
  <2>4. /\ edited'[c] = text /\ \A d \in Cmd : d # c => edited'[d] = edited[d]
        /\ c \notin told /\ text # NoText
    BY <2>0, <2>3, NullAssumption DEF DeliveryInv, TypeOK, WaitingIsUnwritten
  <2> HIDE DEF h
  <2> QED BY <1>1, <2>0, <2>2, <2>3, <2>4
<1> QED BY <1>2, <1>3 DEF HeldInput

(* The lineage fence preserves the invariant.                              *)
LEMMA DeliveryFence ==
    ASSUME DeliveryInv, Fence PROVE DeliveryInv'
<1> PICK g \in 1..MaxGen : \/ persist_fence_frame(g) \/ apply_lineage_fence(g)
                           \/ \E c \in FenceCloses : FenceClose(g, c)
  BY DEF Fence
<1>0. TypeOK'
  BY TypeFence DEF DeliveryInv
<1>1. CASE persist_fence_frame(g)
  BY <1>0, <1>1, DeliveryFrame DEF persist_fence_frame
<1>2. CASE apply_lineage_fence(g)
  BY <1>0, <1>2, DeliveryFrame DEF apply_lineage_fence
<1>3. ASSUME NEW c \in FenceCloses, FenceClose(g, c) PROVE DeliveryInv'
  <2>0. c \in Cmd /\ rpc[c] = "idle"
    BY <1>3, KindFacts DEF FenceClose
  <2>1. UNCHANGED <<chan, pending, prompt, held, pc, ctl, wrote, sent, told, edited>>
    BY <1>3 DEF FenceClose
  <2>2. CASE rpc' = rpc
    BY <1>0, <2>1, <2>2, DeliveryFrame
  <2>3. CASE rpc' = [rpc EXCEPT ![c] = "admitted"]
    BY <1>0, <2>0, <2>1, <2>3, DeliveryRpc
  <2> QED BY <1>3, <2>2, <2>3 DEF FenceClose
<1> QED BY <1>1, <1>2, <1>3

(* What the harness and the clock do preserves the invariant.              *)
LEMMA DeliveryHarness ==
    ASSUME DeliveryInv, Harness PROVE DeliveryInv'
<1>0. TypeOK'
  BY TypeHarness DEF DeliveryInv
<1>1. UNCHANGED <<rpc, chan, pending, prompt, held, pc, ctl, wrote, sent, told, edited>>
  BY DEF Harness, SignalActivity, DialogOpens, DialogAnswered, BudgetPasses,
         record_native_exit
<1> QED BY <1>0, <1>1, DeliveryFrame

(* A crash and the restart after it preserve the invariant.                *)
LEMMA DeliveryRestart ==
    ASSUME DeliveryInv, NEW survives \in BOOLEAN, Restart(survives)
    PROVE  DeliveryInv'
<1>0. TypeOK'
  BY TypeRestart DEF DeliveryInv
<1>1. /\ chan' = <<>> /\ pending' = <<>> /\ pc' \in {"select", "ended"}
      /\ \A c \in Cmd : prompt'[c] = Original /\ held'[c] = NotHeld
      /\ \A c \in Cmd : rpc'[c] # "answered" => rpc[c] # "answered"
      /\ UNCHANGED <<wrote, sent, told, edited>>
  BY DEF Restart
<1>2. UnsubmittedIsFresh'
  BY <1>1 DEF DeliveryInv, UnsubmittedIsFresh, Fresh
<1>3. ChannelIsFresh' /\ PendingIsHeld'
  BY <1>1 DEF ChannelIsFresh, PendingIsHeld
<1>4. StartingIsFresh' /\ ControlIsFresh'
  BY <1>1 DEF StartingIsFresh, ControlIsFresh
<1>5. ClaimIsHead' /\ WaitingIsUnwritten' /\ TextIsEdited'
  BY <1>1 DEF DeliveryInv, ClaimIsHead, WaitingIsUnwritten, TextIsEdited, NotHeld
<1> QED BY <1>0, <1>2, <1>3, <1>4, <1>5 DEF DeliveryInv

(* Every step of the instance preserves the invariant.                     *)
LEMMA DeliveryNext ==
    ASSUME DeliveryInv, [Next]_vars PROVE DeliveryInv'
<1>1. CASE UNCHANGED vars
  <2>1. TypeOK'
    BY <1>1, TypeNext DEF DeliveryInv
  <2> QED BY <1>1, <2>1, DeliveryFrame DEF vars
<1> QED BY <1>1, DeliverySubmit, DeliveryCreate, DeliveryStart, DeliveryRecv,
           DeliveryControl, DeliveryGate, DeliveryDeliver, DeliveryHeldInput,
           DeliveryFence, DeliveryHarness, DeliveryRestart
        DEF Next

(* The delivery invariant holds in every reachable state.                  *)
THEOREM DeliveryCorrect == Spec => []DeliveryInv
BY DeliveryInit, DeliveryNext, PTL DEF Spec

(* held_input.rs, first-wins: a prompt whose withdrawal the Hub was told   *)
(* succeeded is never typed into the harness.                              *)
THEOREM WithdrawnCorrect == Spec => []WithdrawnNeverWritten
<1>1. DeliveryInv => WithdrawnNeverWritten
  BY KindFacts DEF DeliveryInv, TypeOK, WaitingIsUnwritten, WithdrawnNeverWritten
<1> QED BY <1>1, DeliveryCorrect, PTL

(* pty_queue.rs: no unclaim, retry, failed write or restart makes the      *)
(* driver write a command twice.                                           *)
THEOREM AtMostOneWriteCorrect == Spec => []AtMostOneWrite
<1>1. DeliveryInv => AtMostOneWrite
  BY DEF DeliveryInv, WaitingIsUnwritten, AtMostOneWrite
<1> QED BY <1>1, DeliveryCorrect, PTL

(* held_input.rs: the text typed is the text of the last acknowledged edit.*)
THEOREM EditedTextCorrect == Spec => []EditedTextWritten
<1>1. DeliveryInv => EditedTextWritten
  BY KindFacts DEF DeliveryInv, TextIsEdited, EditedTextWritten
<1> QED BY <1>1, DeliveryCorrect, PTL
=============================================================================
