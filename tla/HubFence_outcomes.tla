-------------------------- MODULE HubFence_outcomes --------------------------
(* Proofs about what the records of a fence say, for every set of operations *)
(* and every bound: the outcome of an operation that was sent once is true,  *)
(* and nothing unfinished of a fenced chapter is without a record.           *)
EXTENDS HubFence_proofs

(* The types, in groups of the variables that change together.               *)
NumbersTyped ==
    /\ gen \in 1..MaxGen /\ map \in 1..MaxGen /\ nlive \in 1..MaxGen
    /\ paused \in BOOLEAN /\ link \in BOOLEAN

TablesTyped ==
    /\ deliv \in [Fence -> {"none", "pending", "acked"}]
    /\ row \in [Command \cup Direct -> RowState]
    /\ \A d \in Direct : row[d] \in {"none", "admitted", "sent", "settled", "canceled", "withheld"}
    /\ \A c \in Command : row[c] \notin {"admitted", "sent", "settled"}

RecordsTyped ==
    /\ og \in [Op -> 0..MaxGen]
    /\ rec \in [Op -> [fence : 0..MaxGen, outcome : RecState]]

CallsTyped ==
    /\ call \in [Direct -> [Try -> CallStage]]
    /\ at \in [Command -> AtStage]

SetsTyped ==
    /\ held \subseteq Command /\ raising \subseteq Fence /\ contin \subseteq Fence
    /\ kicks \subseteq Fence \cup {OfLink} /\ stray \subseteq Fence

Task == [pc : {"idle", "next", "wire", "ack", "forward"}, by : Fence \cup {OfLink},
         list : SUBSET Fence, fence : 0..MaxGen, outs : [Op -> RecState],
         todo : SUBSET Command, cur : SUBSET Command]

TaskTyped == dl \in Task

NodeTyped ==
    /\ log \in [Direct -> LogState] /\ disk \in [Direct -> LogState]
    /\ ncmd \in [Command -> {"none", "accepted", "written", "done", "fenced"}]
    /\ ran \subseteq Op

(* An operation is its caller's: it has no row and no call before the caller *)
(* is known, and no record while the caller's chapter is live.               *)
OwnerIsKnown ==
    \A o \in Op :
       /\ og[o] <= gen
       /\ og[o] = 0 => row[o] = "none"
       /\ og[o] \in {0, gen} => rec[o] = NoRec
       /\ o \in Direct /\ og[o] = 0 => \A i \in Try : call[o][i] = "idle"

\* The calls of a direct operation are all at one of the stages S.
CallsIn(d, S) == \A i \in Try : call[d][i] \in S

(* A direct operation that was sent once: the Hub's row, the call, the       *)
(* Node's log and the record agree on whether it ran and still may.          *)
DirectOnce(d) ==
    /\ \A i \in Try :
          /\ call[d][i] = "intent" => row[d] = "sent"
          /\ call[d][i] \in {"entered", "refused"} => d \notin ran
          /\ call[d][i] = "replied" => d \in ran
    /\ CallsIn(d, {"idle", "admitted", "intent", "wire"}) =>
          d \notin ran /\ log[d] = "none" /\ disk[d] = "none"
    /\ row[d] \in {"none", "admitted", "canceled", "withheld"} =>
          d \notin ran /\ CallsIn(d, {"idle", "admitted", "done"})
    /\ rec[d].outcome \in {"cancelled-at-hub", "withheld"} => row[d] \in {"canceled", "withheld"}
    /\ "refused" \in {log[d], disk[d]} \/ rec[d].outcome = "refused-by-node" =>
          d \notin ran /\ CallsIn(d, {"idle", "refused", "done"})
    /\ "ran" \in {log[d], disk[d], rec[d].outcome} => d \in ran
    /\ rec[d].outcome # "cancelled-by-node"

Unsent == {"withheld", "canceled", "refused"}

(* A command: only the attempt that took the row from queued to forwarded    *)
(* reaches the Node, and what the Hub closed the Node has not claimed.       *)
CommandOnce(c) ==
    /\ c \in ran <=> ncmd[c] \in {"written", "done"}
    /\ at[c] \in {"marked", "wire", "passed"} => row[c] = "forwarded" /\ ncmd[c] = "none"
    /\ at[c] = "refused" => ncmd[c] = "none"
    /\ row[c] \in {"none", "queued"} => ncmd[c] = "none" /\ at[c] \in {"idle", "mark", "hold"}
    /\ row[c] \in Unsent \cup {"rejected"} => ncmd[c] \in {"none", "fenced"}
    /\ row[c] = "completed" => ncmd[c] = "done"
    /\ rec[c].outcome \in NeverRan => ncmd[c] = "fenced" \/ row[c] \in Unsent
    /\ rec[c].outcome = "ran" => ncmd[c] = "done"

(* The outcomes an acknowledgement carries are still true when it arrives.   *)
AckIsTrue ==
    dl.pc = "ack" =>
       /\ \A d \in Direct : /\ dl.outs[d] \in {"unknown", "ran", "refused-by-node"}
                            /\ dl.outs[d] = "ran" => log[d] = "ran"
                            /\ dl.outs[d] = "refused-by-node" => log[d] = "refused"
       /\ \A c \in Cmd : /\ dl.outs[c] \in {"unknown", "ran", "cancelled-by-node"}
                         /\ dl.outs[c] = "ran" => ncmd[c] = "done"
                         /\ dl.outs[c] = "cancelled-by-node" => ncmd[c] = "fenced"

OutcomeInv ==
    /\ NumbersTyped /\ TablesTyped /\ RecordsTyped /\ CallsTyped /\ SetsTyped /\ TaskTyped
    /\ NodeTyped /\ OwnerIsKnown /\ UnfinishedIsRecorded /\ AckIsTrue
    /\ \A d \in Direct : CalledOnce(d) => DirectOnce(d)
    /\ \A c \in Cmd : CommandOnce(c)

-----------------------------------------------------------------------------
LEMMA OpsApart ==
    /\ \A d \in Direct : d \in Op /\ d \notin Cmd /\ d \notin Command /\ d \in Command \cup Direct
    /\ \A c \in Cmd : c \in Op /\ c \notin Direct /\ c \in Command /\ c \in Command \cup Direct
    /\ \A c \in Command : c \notin Direct /\ c \in Command \cup Direct
    /\ \A f \in Follow : f \in Command /\ f \notin Op /\ f \notin Cmd
    /\ \A o \in Op : o \in Cmd \/ o \in Direct
    /\ \A c \in Command : c \in Op => c \in Cmd
    /\ MaxGen >= 1 /\ Try \subseteq Nat
BY OpsAreApart, Bounds DEF Op, Command, Try

\* A call moves to a later stage: an operation that is then still called once
\* has made no other call.
LEMMA OneCall ==
    ASSUME CallsTyped, NEW d \in Direct, NEW i \in Try, NEW s \in CallStage \ {"idle"},
           CallTo(d, i, s), NEW x \in Direct, CalledOnce(x)'
    PROVE  /\ CalledOnce(x)
           /\ x # d => call'[x] = call[x]
           /\ x = d => /\ call'[d][i] = s
                       /\ \A j \in Try : j # i => call[d][j] = "idle" /\ call'[d][j] = "idle"
<1>1. call' = [call EXCEPT ![d] = [call[d] EXCEPT ![i] = s]]
  BY DEF CallTo, CallsTyped
<1>2. CASE x # d
  BY <1>1, <1>2, OpsApart DEF CallsTyped, CalledOnce
<1>3. CASE x = d
  <2>1. \A j \in Try : call'[d][j] = IF j = i THEN s ELSE call[d][j]
    BY <1>1 DEF CallsTyped
  <2>2. i = 1
    BY <1>3, <2>1 DEF CalledOnce, Try
  <2>3. \A j \in Try : j # i => call'[d][j] = "idle"
    BY <1>3, <2>2 DEF CalledOnce, Try
  <2>. QED
    BY <1>3, <2>1, <2>2, <2>3 DEF CalledOnce, Try
<1>. QED
  BY <1>2, <1>3

\* What an operation's invariant reads.
LEMMA DirectFrame ==
    ASSUME NEW x \in Direct, DirectOnce(x), call'[x] = call[x], row'[x] = row[x],
           rec'[x] = rec[x], log'[x] = log[x], disk'[x] = disk[x], x \in ran' <=> x \in ran
    PROVE  DirectOnce(x)'
BY DEF DirectOnce, CallsIn

LEMMA Resolved ==
    ASSUME RecordsTyped, NEW o, NEW out \in RecState, Resolve(o, out)
    PROVE  /\ rec' \in [Op -> [fence : 0..MaxGen, outcome : RecState]]
           /\ \A x \in Op : /\ rec'[x].fence = rec[x].fence
                            /\ x # o \/ rec[x].outcome # "unknown" => rec'[x] = rec[x]
                            /\ rec'[x].outcome \in {rec[x].outcome, out}
BY DEF Resolve, RecordsTyped

\* The transaction of a fence, operation by operation.
LEMMA CoreRows ==
    ASSUME FenceInv, OutcomeInv, NEW mine \in SUBSET Follow, FenceCore(mine)
    PROVE  /\ gen' = gen + 1 /\ gen' \in Fence
           /\ row' \in [Command \cup Direct -> RowState]
           /\ rec' \in [Op -> [fence : 0..MaxGen, outcome : RecState]]
           /\ \A x \in Op :
                 \/ /\ HeldAtHub(x) /\ row'[x] = "canceled"
                    /\ rec'[x] = [fence |-> gen + 1, outcome |-> "cancelled-at-hub"]
                 \/ /\ InFlight(x) /\ ~HeldAtHub(x) /\ row'[x] = row[x]
                    /\ rec'[x] = [fence |-> gen + 1, outcome |-> "unknown"]
                 \/ ~InFlight(x) /\ ~HeldAtHub(x) /\ row'[x] = row[x] /\ rec'[x] = rec[x]
           /\ \A c \in Command : c \notin Op => row'[c] \in {row[c], "queued"}
           /\ raising' \subseteq Fence
<1>. USE DEF OutcomeInv, NumbersTyped, TablesTyped, RecordsTyped
<1>1. gen' = gen + 1 /\ gen' \in Fence
  BY Bounds DEF FenceCore, Fence
<1>2. DOMAIN row = Command \cup Direct
  OBVIOUS
<1>3. row' = [o \in Command \cup Direct |->
                  IF o \in Op /\ HeldAtHub(o) THEN "canceled"
                  ELSE IF o \in mine THEN "queued" ELSE row[o]]
  BY <1>2 DEF FenceCore
<1>4. row' \in [Command \cup Direct -> RowState]
  BY <1>3 DEF RowState
<1>5. rec' \in [Op -> [fence : 0..MaxGen, outcome : RecState]]
  BY <1>1, ConstantsTyped DEF FenceCore, RecState
<1>6. \A c \in Command : c \notin Op => row'[c] \in {row[c], "queued"}
  BY <1>3
<1>7. raising' \subseteq Fence
  BY <1>1 DEF FenceCore, SetsTyped
<1>8. ASSUME NEW x \in Op
      PROVE  /\ row'[x] = IF HeldAtHub(x) THEN "canceled" ELSE row[x]
             /\ rec'[x] = IF HeldAtHub(x)
                          THEN [fence |-> gen + 1, outcome |-> "cancelled-at-hub"]
                          ELSE IF InFlight(x) THEN [fence |-> gen + 1, outcome |-> "unknown"]
                          ELSE rec[x]
  <2>1. x \in Command \cup Direct /\ x \notin mine
    BY <1>8, OpsApart
  <2>. QED
    BY <1>3, <2>1 DEF FenceCore
<1>. QED
  BY <1>1, <1>4, <1>5, <1>6, <1>7, <1>8

LEMMA IdleTask == Idle \in Task /\ Idle.pc = "idle"
BY ConstantsTyped, OpsApart DEF Idle, Task, Mute, OfLink, RecState

LEMMA CommandFrame ==
    ASSUME NEW c \in Cmd, CommandOnce(c), row'[c] = row[c], rec'[c] = rec[c], at'[c] = at[c],
           ncmd'[c] = ncmd[c], c \in ran' <=> c \in ran
    PROVE  CommandOnce(c)'
BY DEF CommandOnce

\* The rows and the records after a fence: what was not sent is cancelled and
\* has not run, what was sent is unknown, and both are recorded.
LEMMA CoreRecords ==
    ASSUME FenceInv, OutcomeInv, NEW mine \in SUBSET Follow, FenceCore(mine),
           UNCHANGED <<og, call, at, ncmd, ran, log, disk>>
    PROVE  /\ TablesTyped' /\ RecordsTyped' /\ OwnerIsKnown' /\ UnfinishedIsRecorded'
           /\ \A x \in Direct : CalledOnce(x)' => DirectOnce(x)'
           /\ \A x \in Cmd : CommandOnce(x)'
<1>. DEFINE Step(x) ==
         \/ /\ HeldAtHub(x) /\ row'[x] = "canceled"
            /\ rec'[x] = [fence |-> gen + 1, outcome |-> "cancelled-at-hub"]
         \/ /\ InFlight(x) /\ ~HeldAtHub(x) /\ row'[x] = row[x]
            /\ rec'[x] = [fence |-> gen + 1, outcome |-> "unknown"]
         \/ ~InFlight(x) /\ ~HeldAtHub(x) /\ row'[x] = row[x] /\ rec'[x] = rec[x]
<1>0. gen \in Nat
  BY DEF OutcomeInv, NumbersTyped
<1>1. /\ gen' = gen + 1 /\ gen \in Nat /\ gen' \in Fence
      /\ row' \in [Command \cup Direct -> RowState]
      /\ rec' \in [Op -> [fence : 0..MaxGen, outcome : RecState]]
      /\ \A x \in Op : Step(x)
      /\ \A c \in Command : c \notin Op => row'[c] \in {row[c], "queued"}
  BY <1>0, CoreRows, Zenon
<1>. HIDE DEF Step
<1>. USE DEF OutcomeInv
<1>2. RecordsTyped'
  BY <1>1 DEF RecordsTyped
<1>3. TablesTyped'
  <2>1. deliv' \in [Fence -> {"none", "pending", "acked"}]
    BY DEF FenceCore, TablesTyped
  <2>2. \A x \in Op : row'[x] \in {row[x], "canceled"}
    BY <1>1 DEF Step
  <2>3. \A d \in Direct :
           row'[d] \in {"none", "admitted", "sent", "settled", "canceled", "withheld"}
    BY <2>2, OpsApart DEF TablesTyped
  <2>4. \A c \in Command : row'[c] \notin {"admitted", "sent", "settled"}
    BY <1>1, <2>2 DEF TablesTyped
  <2>. QED
    BY <1>1, <2>1, <2>3, <2>4 DEF TablesTyped
<1>4. OwnerIsKnown'
  <2>. SUFFICES ASSUME NEW o \in Op
                PROVE  /\ og[o] <= gen'
                       /\ og[o] = 0 => row'[o] = "none"
                       /\ og[o] \in {0, gen'} => rec'[o] = NoRec
                       /\ o \in Direct /\ og[o] = 0 => \A i \in Try : call[o][i] = "idle"
    BY DEF OwnerIsKnown
  <2>1. Step(o) /\ og[o] \in Nat /\ og[o] <= gen
    BY <1>1, ConstantsTyped DEF OwnerIsKnown, RecordsTyped
  <2>2. og[o] = 0 => row[o] = "none" /\ rec[o] = NoRec
    BY DEF OwnerIsKnown
  <2>3. og[o] = 0 => row'[o] = "none" /\ rec'[o] = NoRec
    BY <2>1, <2>2 DEF Step, HeldAtHub, InFlight
  <2>4. o \in Direct /\ og[o] = 0 => \A i \in Try : call[o][i] = "idle"
    BY DEF OwnerIsKnown
  <2>. QED
    BY <1>1, <2>1, <2>3, <2>4
<1>5. UnfinishedIsRecorded'
  <2>. SUFFICES ASSUME NEW o \in Op, CalledOnce(o), og[o] # 0, og[o] < gen', row'[o] \in Unfinished
                PROVE  rec'[o].fence = og[o] + 1
    BY DEF UnfinishedIsRecorded, CalledOnce
  <2>1. Step(o) /\ og[o] \in Nat /\ og[o] <= gen
    BY <1>1, ConstantsTyped DEF OwnerIsKnown, RecordsTyped
  <2>2. og[o] = gen => rec[o] = NoRec
    BY DEF OwnerIsKnown
  <2>3. row[o] \in Unfinished /\ og[o] < gen => rec[o].fence = og[o] + 1
    BY DEF UnfinishedIsRecorded
  <2>4. row'[o] = row[o]
    BY <2>1 DEF Step, Unfinished
  <2>5. CASE InFlight(o)
    <3>1. rec'[o].fence = gen + 1 /\ rec[o].fence = 0
      BY <2>1, <2>4, <2>5 DEF Step, InFlight, HeldAtHub, NoRec
    <3>. QED
      BY <1>1, <2>1, <2>3, <2>4, <3>1
  <2>6. CASE ~InFlight(o)
    <3>1. rec'[o] = rec[o] /\ rec[o] # NoRec
      BY <2>1, <2>4, <2>6 DEF Step, InFlight, HeldAtHub, Unfinished
    <3>. QED
      BY <1>1, <2>1, <2>2, <2>3, <2>4, <3>1
  <2>. QED
    BY <2>5, <2>6
<1>6. ASSUME NEW x \in Direct, CalledOnce(x)' PROVE DirectOnce(x)'
  <2>1. DirectOnce(x) /\ Step(x)
    BY <1>1, <1>6, OpsApart DEF CalledOnce
  <2>2. CASE HeldAtHub(x)
    <3>1. /\ row'[x] = "canceled" /\ rec'[x].outcome = "cancelled-at-hub"
          /\ row[x] \in {"queued", "admitted"}
      BY <2>1, <2>2 DEF Step, InFlight, HeldAtHub
    <3>2. row[x] = "admitted" /\ rec[x].outcome = "none"
      BY <2>2, <3>1 DEF TablesTyped, HeldAtHub, NoRec
    <3>. QED
      BY <2>1, <3>1, <3>2 DEF DirectOnce, CallsIn
  <2>3. CASE ~HeldAtHub(x) /\ InFlight(x)
    <3>1. row'[x] = row[x] /\ rec'[x].outcome = "unknown"
      BY <2>1, <2>3 DEF Step
    <3>. QED
      BY <2>1, <3>1 DEF DirectOnce, CallsIn
  <2>4. CASE ~HeldAtHub(x) /\ ~InFlight(x)
    <3>1. row'[x] = row[x] /\ rec'[x] = rec[x]
      BY <2>1, <2>4 DEF Step
    <3>. QED
      BY <2>1, <3>1, DirectFrame
  <2>. QED
    BY <2>2, <2>3, <2>4
<1>7. ASSUME NEW x \in Cmd PROVE CommandOnce(x)'
  <2>1. CommandOnce(x) /\ Step(x)
    BY <1>1, OpsApart
  <2>2. CASE HeldAtHub(x)
    <3>1. /\ row'[x] = "canceled" /\ rec'[x].outcome = "cancelled-at-hub"
          /\ row[x] \in {"queued", "admitted"}
      BY <2>1, <2>2 DEF Step, InFlight, HeldAtHub
    <3>2. row[x] = "queued"
      BY <3>1, OpsApart DEF TablesTyped
    <3>. QED
      BY <2>1, <3>1, <3>2 DEF CommandOnce, Unsent, NeverRan
  <2>3. CASE ~HeldAtHub(x) /\ InFlight(x)
    <3>1. row'[x] = row[x] /\ rec'[x].outcome = "unknown"
      BY <2>1, <2>3 DEF Step
    <3>. QED
      BY <2>1, <3>1 DEF CommandOnce, Unsent, NeverRan
  <2>4. CASE ~HeldAtHub(x) /\ ~InFlight(x)
    <3>1. row'[x] = row[x] /\ rec'[x] = rec[x]
      BY <2>1, <2>4 DEF Step
    <3>. QED
      BY <2>1, <3>1, CommandFrame
  <2>. QED
    BY <2>2, <2>3, <2>4
<1>. QED
  BY <1>2, <1>3, <1>4, <1>5, <1>6, <1>7

-----------------------------------------------------------------------------
(* One lemma per action.                                                     *)

LEMMA CallerArrivesRecords ==
    ASSUME FenceInv, OutcomeInv, NEW o \in Op, CallerArrives(o)
    PROVE  OutcomeInv'
<1>1. RecordsTyped'
  BY ConstantsTyped, OpsApart DEF CallerArrives, hubVars, memVars, nodeVars, linkVars,
     OutcomeInv, RecordsTyped, RecState, NumbersTyped
<1>2. OwnerIsKnown'
  BY ConstantsTyped, OpsApart DEF CallerArrives, hubVars, memVars, nodeVars, linkVars,
     OutcomeInv, OwnerIsKnown, NoRec, NumbersTyped, TablesTyped, RowState, RecordsTyped,
     RecState, CallsTyped, CallStage, AtStage
<1>3. UnfinishedIsRecorded'
  BY ConstantsTyped, OpsApart DEF CallerArrives, hubVars, memVars, nodeVars, linkVars,
     OutcomeInv, UnfinishedIsRecorded, Unfinished, CalledOnce, NumbersTyped, TablesTyped,
     RowState, RecordsTyped, RecState, CallsTyped, CallStage, AtStage, OwnerIsKnown, NoRec,
     DirectOnce, CallsIn
<1>4. /\ NumbersTyped' /\ TablesTyped' /\ CallsTyped' /\ SetsTyped' /\ TaskTyped'
      /\ NodeTyped' /\ AckIsTrue' /\ (\A x \in Direct : CalledOnce(x)' => DirectOnce(x)')
      /\ (\A x \in Cmd : CommandOnce(x)')
  BY DEF CallerArrives, hubVars, memVars, nodeVars, linkVars, OutcomeInv, NumbersTyped,
     TablesTyped, CallsTyped, SetsTyped, TaskTyped, NodeTyped, AckIsTrue, CalledOnce,
     CommandOnce, CallsIn, DirectOnce
<1>. QED
  BY <1>1, <1>2, <1>3, <1>4 DEF OutcomeInv

LEMMA AdmitNodeOpRecords ==
    ASSUME FenceInv, OutcomeInv, NEW d \in Direct, NEW i \in Try, AdmitNodeOp(d, i)
    PROVE  OutcomeInv'
<1>1. TablesTyped'
  BY ConstantsTyped, OpsApart DEF AdmitNodeOp, Authority, Gated, CallTo, Becomes, hubVars,
     memVars, nodeVars, linkVars, OutcomeInv, TablesTyped, RowState
<1>2. CallsTyped'
  BY ConstantsTyped, OpsApart DEF AdmitNodeOp, Authority, Gated, CallTo, Becomes, hubVars,
     memVars, nodeVars, linkVars, OutcomeInv, CallsTyped, CallStage, AtStage
<1>3. OwnerIsKnown'
  BY ConstantsTyped, OpsApart DEF AdmitNodeOp, Authority, Gated, CallTo, Becomes, hubVars,
     memVars, nodeVars, linkVars, OutcomeInv, OwnerIsKnown, NoRec, NumbersTyped, TablesTyped,
     RowState, RecordsTyped, RecState, CallsTyped, CallStage, AtStage
<1>4. UnfinishedIsRecorded'
  BY ConstantsTyped, OpsApart DEF AdmitNodeOp, Authority, Gated, CallTo, Becomes, hubVars,
     memVars, nodeVars, linkVars, OutcomeInv, UnfinishedIsRecorded, Unfinished, CalledOnce,
     NumbersTyped, TablesTyped, RowState, RecordsTyped, RecState, CallsTyped, CallStage,
     AtStage, OwnerIsKnown, NoRec, DirectOnce, CallsIn
<1>5. \A x \in Direct : CalledOnce(x)' => DirectOnce(x)'
  <2>. SUFFICES ASSUME NEW x \in Direct, CalledOnce(x)' PROVE DirectOnce(x)'
    OBVIOUS
  <2>. USE DEF OutcomeInv
  <2>1. CASE TRUE
    <3>1. CallTo(d, i, "admitted") /\ "admitted" \in CallStage \ {"idle"}
      BY <2>1 DEF AdmitNodeOp, Authority, CallStage
    <3>2. /\ CalledOnce(x)
          /\ x # d => call'[x] = call[x]
          /\ x = d => /\ call'[d][i] = "admitted"
                      /\ \A j \in Try : j # i => call[d][j] = "idle" /\ call'[d][j] = "idle"
      BY <3>1, OneCall
    <3>3. DirectOnce(x)
      BY <3>2
    <3>4. CASE x # d
      <4>1. /\ row'[x] = row[x] /\ log'[x] = log[x] /\ disk'[x] = disk[x]
            /\ rec'[x] = rec[x] /\ (x \in ran' <=> x \in ran)
        BY <2>1, <3>4, OpsApart DEF AdmitNodeOp, Authority, Becomes, Resolve, TablesTyped,
           RecordsTyped, NodeTyped, nodeVars, opVars
      <4>. QED
        BY <3>2, <3>3, <3>4, <4>1, DirectFrame
    <3>5. CASE x = d
      <4>1. DirectOnce(d) /\ call'[d][i] = "admitted"
            /\ \A j \in Try : j # i => call[d][j] = "idle" /\ call'[d][j] = "idle"
        BY <3>2, <3>3, <3>5
      <4>2. /\ call[d][i] = "idle"
            /\ row'[d] = IF row[d] = "none" THEN "admitted" ELSE row[d]
            /\ log'[d] = log[d] /\ disk'[d] = disk[d]
            /\ d \in ran' <=> d \in ran
            /\ rec'[d].outcome = rec[d].outcome
            /\ rec[d].outcome = "none"
        BY <2>1, OpsApart DEF AdmitNodeOp, Authority, Becomes, Resolve, TablesTyped,
           RecordsTyped, NodeTyped, CallsTyped, OwnerIsKnown, NoRec, nodeVars, opVars
      <4>3. row[d] \in {"none", "admitted", "sent", "settled", "canceled", "withheld"}
        BY DEF TablesTyped
      <4>4. DirectOnce(d)'
        BY <4>1, <4>2, <4>3 DEF DirectOnce, CallsIn
      <4>. QED
        BY <3>5, <4>4
    <3>. QED
      BY <3>4, <3>5
  <2>. QED
    BY <2>1
<1>6. \A x \in Cmd : CommandOnce(x)'
  BY ConstantsTyped, OpsApart DEF AdmitNodeOp, Authority, Gated, CallTo, Becomes, hubVars,
     memVars, nodeVars, linkVars, OutcomeInv, CommandOnce, Unsent, NeverRan, TablesTyped,
     RowState, RecordsTyped, RecState, CallsTyped, CallStage, AtStage, NodeTyped, LogState,
     OwnerIsKnown, NoRec
<1>7. /\ NumbersTyped' /\ RecordsTyped' /\ SetsTyped' /\ TaskTyped' /\ NodeTyped'
      /\ AckIsTrue'
  BY DEF AdmitNodeOp, hubVars, memVars, nodeVars, linkVars, OutcomeInv, NumbersTyped,
     RecordsTyped, SetsTyped, TaskTyped, NodeTyped, AckIsTrue
<1>. QED
  BY <1>1, <1>2, <1>3, <1>4, <1>5, <1>6, <1>7 DEF OutcomeInv

LEMMA MarkNodeOpSentRecords ==
    ASSUME FenceInv, OutcomeInv, NEW d \in Direct, NEW i \in Try, MarkNodeOpSent(d, i)
    PROVE  OutcomeInv'
<1>1. TablesTyped'
  BY ConstantsTyped, OpsApart DEF MarkNodeOpSent, Authority, CallTo, Becomes, hubVars, memVars,
     nodeVars, linkVars, OutcomeInv, TablesTyped, RowState
<1>2. CallsTyped'
  BY ConstantsTyped, OpsApart DEF MarkNodeOpSent, Authority, CallTo, Becomes, hubVars, memVars,
     nodeVars, linkVars, OutcomeInv, CallsTyped, CallStage, AtStage
<1>3. OwnerIsKnown'
  BY ConstantsTyped, OpsApart DEF MarkNodeOpSent, Authority, CallTo, Becomes, hubVars, memVars,
     nodeVars, linkVars, OutcomeInv, OwnerIsKnown, NoRec, NumbersTyped, TablesTyped, RowState,
     RecordsTyped, RecState, CallsTyped, CallStage, AtStage
<1>4. UnfinishedIsRecorded'
  BY ConstantsTyped, OpsApart DEF MarkNodeOpSent, Authority, CallTo, Becomes, hubVars, memVars,
     nodeVars, linkVars, OutcomeInv, UnfinishedIsRecorded, Unfinished, CalledOnce, NumbersTyped,
     TablesTyped, RowState, RecordsTyped, RecState, CallsTyped, CallStage, AtStage,
     OwnerIsKnown, NoRec, DirectOnce, CallsIn
<1>5. \A x \in Direct : CalledOnce(x)' => DirectOnce(x)'
  <2>. SUFFICES ASSUME NEW x \in Direct, CalledOnce(x)' PROVE DirectOnce(x)'
    OBVIOUS
  <2>. USE DEF OutcomeInv
  <2>1. CASE Authority(d) /\ row[d] \notin {"canceled", "withheld"}
    <3>1. CallTo(d, i, "intent") /\ "intent" \in CallStage \ {"idle"}
      BY <2>1 DEF MarkNodeOpSent, CallStage
    <3>2. /\ CalledOnce(x)
          /\ x # d => call'[x] = call[x]
          /\ x = d => /\ call'[d][i] = "intent"
                      /\ \A j \in Try : j # i => call[d][j] = "idle" /\ call'[d][j] = "idle"
      BY <3>1, OneCall
    <3>3. DirectOnce(x)
      BY <3>2
    <3>4. CASE x # d
      <4>1. /\ row'[x] = row[x] /\ log'[x] = log[x] /\ disk'[x] = disk[x]
            /\ rec'[x] = rec[x] /\ (x \in ran' <=> x \in ran)
        BY <2>1, <3>4, OpsApart DEF MarkNodeOpSent, Becomes, Resolve, TablesTyped, RecordsTyped,
           NodeTyped, nodeVars, opVars
      <4>. QED
        BY <3>2, <3>3, <3>4, <4>1, DirectFrame
    <3>5. CASE x = d
      <4>1. DirectOnce(d) /\ call'[d][i] = "intent"
            /\ \A j \in Try : j # i => call[d][j] = "idle" /\ call'[d][j] = "idle"
        BY <3>2, <3>3, <3>5
      <4>2. /\ call[d][i] = "admitted"
            /\ row'[d] = "sent" /\ row[d] \notin {"canceled", "withheld"}
            /\ log'[d] = log[d] /\ disk'[d] = disk[d]
            /\ d \in ran' <=> d \in ran
            /\ rec'[d].outcome = rec[d].outcome
        BY <2>1, OpsApart DEF MarkNodeOpSent, Becomes, Resolve, TablesTyped, RecordsTyped,
           NodeTyped, CallsTyped, OwnerIsKnown, NoRec, nodeVars, opVars
      <4>3. row[d] \in {"none", "admitted", "sent", "settled", "canceled", "withheld"}
        BY DEF TablesTyped
      <4>4. DirectOnce(d)'
        BY <4>1, <4>2, <4>3 DEF DirectOnce, CallsIn
      <4>. QED
        BY <3>5, <4>4
    <3>. QED
      BY <3>4, <3>5
  <2>2. CASE ~(Authority(d) /\ row[d] \notin {"canceled", "withheld"})
    <3>1. CallTo(d, i, "done") /\ "done" \in CallStage \ {"idle"}
      BY <2>2 DEF MarkNodeOpSent, CallStage
    <3>2. /\ CalledOnce(x)
          /\ x # d => call'[x] = call[x]
          /\ x = d => /\ call'[d][i] = "done"
                      /\ \A j \in Try : j # i => call[d][j] = "idle" /\ call'[d][j] = "idle"
      BY <3>1, OneCall
    <3>3. DirectOnce(x)
      BY <3>2
    <3>4. CASE x # d
      <4>1. /\ row'[x] = row[x] /\ log'[x] = log[x] /\ disk'[x] = disk[x]
            /\ rec'[x] = rec[x] /\ (x \in ran' <=> x \in ran)
        BY <2>2, <3>4, OpsApart DEF MarkNodeOpSent, Becomes, Resolve, TablesTyped, RecordsTyped,
           NodeTyped, nodeVars, opVars
      <4>. QED
        BY <3>2, <3>3, <3>4, <4>1, DirectFrame
    <3>5. CASE x = d
      <4>1. DirectOnce(d) /\ call'[d][i] = "done"
            /\ \A j \in Try : j # i => call[d][j] = "idle" /\ call'[d][j] = "idle"
        BY <3>2, <3>3, <3>5
      <4>2. /\ call[d][i] = "admitted"
            /\ row'[d] = row[d]
            /\ log'[d] = log[d] /\ disk'[d] = disk[d]
            /\ d \in ran' <=> d \in ran
            /\ rec'[d].outcome = rec[d].outcome
        BY <2>2, OpsApart DEF MarkNodeOpSent, Becomes, Resolve, TablesTyped, RecordsTyped,
           NodeTyped, CallsTyped, OwnerIsKnown, NoRec, nodeVars, opVars
      <4>3. row[d] \in {"none", "admitted", "sent", "settled", "canceled", "withheld"}
        BY DEF TablesTyped
      <4>4. DirectOnce(d)'
        BY <4>1, <4>2, <4>3 DEF DirectOnce, CallsIn
      <4>. QED
        BY <3>5, <4>4
    <3>. QED
      BY <3>4, <3>5
  <2>. QED
    BY <2>1, <2>2
<1>6. \A x \in Cmd : CommandOnce(x)'
  BY ConstantsTyped, OpsApart DEF MarkNodeOpSent, Authority, CallTo, Becomes, hubVars, memVars,
     nodeVars, linkVars, OutcomeInv, CommandOnce, Unsent, NeverRan, TablesTyped, RowState,
     RecordsTyped, RecState, CallsTyped, CallStage, AtStage, NodeTyped, LogState, OwnerIsKnown,
     NoRec
<1>7. /\ NumbersTyped' /\ RecordsTyped' /\ SetsTyped' /\ TaskTyped' /\ NodeTyped'
      /\ AckIsTrue'
  BY DEF MarkNodeOpSent, hubVars, memVars, nodeVars, linkVars, OutcomeInv, NumbersTyped,
     RecordsTyped, SetsTyped, TaskTyped, NodeTyped, AckIsTrue
<1>. QED
  BY <1>1, <1>2, <1>3, <1>4, <1>5, <1>6, <1>7 DEF OutcomeInv

LEMMA NodeOpSendRecords ==
    ASSUME FenceInv, OutcomeInv, NEW d \in Direct, NEW i \in Try, NodeOpSend(d, i)
    PROVE  OutcomeInv'
<1>1. TablesTyped'
  BY ConstantsTyped, OpsApart DEF NodeOpSend, GateFences, Resolve, CallTo, Becomes, hubVars,
     memVars, nodeVars, linkVars, OutcomeInv, TablesTyped, RowState
<1>2. RecordsTyped'
  BY ConstantsTyped, OpsApart DEF NodeOpSend, GateFences, Resolve, CallTo, Becomes, hubVars,
     memVars, nodeVars, linkVars, OutcomeInv, RecordsTyped, RecState, NumbersTyped
<1>3. CallsTyped'
  BY ConstantsTyped, OpsApart DEF NodeOpSend, GateFences, Resolve, CallTo, Becomes, hubVars,
     memVars, nodeVars, linkVars, OutcomeInv, CallsTyped, CallStage, AtStage
<1>4. OwnerIsKnown'
  BY ConstantsTyped, OpsApart DEF NodeOpSend, GateFences, Resolve, CallTo, Becomes, hubVars,
     memVars, nodeVars, linkVars, OutcomeInv, OwnerIsKnown, NoRec, NumbersTyped, TablesTyped,
     RowState, RecordsTyped, RecState, CallsTyped, CallStage, AtStage
<1>5. UnfinishedIsRecorded'
  <2>1. \A x \in Direct : CalledOnce(x)' => CalledOnce(x)
    <3>1. \E s \in CallStage \ {"idle"} : CallTo(d, i, s)
      BY DEF NodeOpSend, CallStage
    <3>. QED
      BY <3>1, OneCall DEF OutcomeInv
  <2>2. \A x \in Op : CalledOnce(x)' => CalledOnce(x)
    BY <2>1 DEF CalledOnce
  <2>3. CalledOnce(d) => row[d] = "sent"
    BY DEF NodeOpSend, OutcomeInv, DirectOnce
  <2>4. \A x \in Op : rec'[x].fence = rec[x].fence /\ (x # d => row'[x] = row[x])
    BY OpsApart DEF NodeOpSend, Resolve, Becomes, OutcomeInv, RecordsTyped, TablesTyped
  <2>. QED
    BY <2>2, <2>3, <2>4, OpsApart DEF NodeOpSend, OutcomeInv, UnfinishedIsRecorded, Unfinished,
       hubVars
<1>6. \A x \in Direct : CalledOnce(x)' => DirectOnce(x)'
  <2>. SUFFICES ASSUME NEW x \in Direct, CalledOnce(x)' PROVE DirectOnce(x)'
    OBVIOUS
  <2>. USE DEF OutcomeInv
  <2>1. CASE GateFences(d)
    <3>1. CallTo(d, i, "done") /\ "done" \in CallStage \ {"idle"}
      BY <2>1 DEF NodeOpSend, CallStage
    <3>2. /\ CalledOnce(x)
          /\ x # d => call'[x] = call[x]
          /\ x = d => /\ call'[d][i] = "done"
                      /\ \A j \in Try : j # i => call[d][j] = "idle" /\ call'[d][j] = "idle"
      BY <3>1, OneCall
    <3>3. DirectOnce(x)
      BY <3>2
    <3>4. CASE x # d
      <4>1. /\ row'[x] = row[x] /\ log'[x] = log[x] /\ disk'[x] = disk[x]
            /\ rec'[x] = rec[x] /\ (x \in ran' <=> x \in ran)
        BY <2>1, <3>4, OpsApart DEF NodeOpSend, Becomes, Resolve, TablesTyped, RecordsTyped,
           NodeTyped, nodeVars, opVars
      <4>. QED
        BY <3>2, <3>3, <3>4, <4>1, DirectFrame
    <3>5. CASE x = d
      <4>1. DirectOnce(d) /\ call'[d][i] = "done"
            /\ \A j \in Try : j # i => call[d][j] = "idle" /\ call'[d][j] = "idle"
        BY <3>2, <3>3, <3>5
      <4>2. /\ call[d][i] = "intent"
            /\ row'[d] = IF row[d] = "sent" THEN "withheld" ELSE row[d]
            /\ log'[d] = log[d] /\ disk'[d] = disk[d]
            /\ d \in ran' <=> d \in ran
            /\ rec'[d].outcome \in {rec[d].outcome, "withheld"}
        BY <2>1, OpsApart DEF NodeOpSend, Becomes, Resolve, TablesTyped, RecordsTyped,
           NodeTyped, CallsTyped, OwnerIsKnown, NoRec, nodeVars, opVars
      <4>3. row[d] \in {"none", "admitted", "sent", "settled", "canceled", "withheld"}
        BY DEF TablesTyped
      <4>4. DirectOnce(d)'
        BY <4>1, <4>2, <4>3 DEF DirectOnce, CallsIn
      <4>. QED
        BY <3>5, <4>4
    <3>. QED
      BY <3>4, <3>5
  <2>2. CASE ~GateFences(d) /\ link
    <3>1. CallTo(d, i, "wire") /\ "wire" \in CallStage \ {"idle"}
      BY <2>2 DEF NodeOpSend, CallStage
    <3>2. /\ CalledOnce(x)
          /\ x # d => call'[x] = call[x]
          /\ x = d => /\ call'[d][i] = "wire"
                      /\ \A j \in Try : j # i => call[d][j] = "idle" /\ call'[d][j] = "idle"
      BY <3>1, OneCall
    <3>3. DirectOnce(x)
      BY <3>2
    <3>4. CASE x # d
      <4>1. /\ row'[x] = row[x] /\ log'[x] = log[x] /\ disk'[x] = disk[x]
            /\ rec'[x] = rec[x] /\ (x \in ran' <=> x \in ran)
        BY <2>2, <3>4, OpsApart DEF NodeOpSend, Becomes, Resolve, TablesTyped, RecordsTyped,
           NodeTyped, nodeVars, opVars
      <4>. QED
        BY <3>2, <3>3, <3>4, <4>1, DirectFrame
    <3>5. CASE x = d
      <4>1. DirectOnce(d) /\ call'[d][i] = "wire"
            /\ \A j \in Try : j # i => call[d][j] = "idle" /\ call'[d][j] = "idle"
        BY <3>2, <3>3, <3>5
      <4>2. /\ call[d][i] = "intent"
            /\ row'[d] = row[d]
            /\ log'[d] = log[d] /\ disk'[d] = disk[d]
            /\ d \in ran' <=> d \in ran
            /\ rec'[d].outcome = rec[d].outcome
        BY <2>2, OpsApart DEF NodeOpSend, Becomes, Resolve, TablesTyped, RecordsTyped,
           NodeTyped, CallsTyped, OwnerIsKnown, NoRec, nodeVars, opVars
      <4>3. row[d] \in {"none", "admitted", "sent", "settled", "canceled", "withheld"}
        BY DEF TablesTyped
      <4>4. DirectOnce(d)'
        BY <4>1, <4>2, <4>3 DEF DirectOnce, CallsIn
      <4>. QED
        BY <3>5, <4>4
    <3>. QED
      BY <3>4, <3>5
  <2>3. CASE ~GateFences(d) /\ ~link
    <3>1. CallTo(d, i, "done") /\ "done" \in CallStage \ {"idle"}
      BY <2>3 DEF NodeOpSend, CallStage
    <3>2. /\ CalledOnce(x)
          /\ x # d => call'[x] = call[x]
          /\ x = d => /\ call'[d][i] = "done"
                      /\ \A j \in Try : j # i => call[d][j] = "idle" /\ call'[d][j] = "idle"
      BY <3>1, OneCall
    <3>3. DirectOnce(x)
      BY <3>2
    <3>4. CASE x # d
      <4>1. /\ row'[x] = row[x] /\ log'[x] = log[x] /\ disk'[x] = disk[x]
            /\ rec'[x] = rec[x] /\ (x \in ran' <=> x \in ran)
        BY <2>3, <3>4, OpsApart DEF NodeOpSend, Becomes, Resolve, TablesTyped, RecordsTyped,
           NodeTyped, nodeVars, opVars
      <4>. QED
        BY <3>2, <3>3, <3>4, <4>1, DirectFrame
    <3>5. CASE x = d
      <4>1. DirectOnce(d) /\ call'[d][i] = "done"
            /\ \A j \in Try : j # i => call[d][j] = "idle" /\ call'[d][j] = "idle"
        BY <3>2, <3>3, <3>5
      <4>2. /\ call[d][i] = "intent"
            /\ row'[d] = "admitted"
            /\ log'[d] = log[d] /\ disk'[d] = disk[d]
            /\ d \in ran' <=> d \in ran
            /\ rec'[d].outcome = rec[d].outcome
        BY <2>3, OpsApart DEF NodeOpSend, Becomes, Resolve, TablesTyped, RecordsTyped,
           NodeTyped, CallsTyped, OwnerIsKnown, NoRec, nodeVars, opVars
      <4>3. row[d] \in {"none", "admitted", "sent", "settled", "canceled", "withheld"}
        BY DEF TablesTyped
      <4>4. DirectOnce(d)'
        BY <4>1, <4>2, <4>3 DEF DirectOnce, CallsIn
      <4>. QED
        BY <3>5, <4>4
    <3>. QED
      BY <3>4, <3>5
  <2>. QED
    BY <2>1, <2>2, <2>3
<1>7. \A x \in Cmd : CommandOnce(x)'
  BY ConstantsTyped, OpsApart DEF NodeOpSend, GateFences, Resolve, CallTo, Becomes, hubVars,
     memVars, nodeVars, linkVars, OutcomeInv, CommandOnce, Unsent, NeverRan, TablesTyped,
     RowState, RecordsTyped, RecState, CallsTyped, CallStage, AtStage, NodeTyped, LogState,
     OwnerIsKnown, NoRec
<1>8. NumbersTyped' /\ SetsTyped' /\ TaskTyped' /\ NodeTyped' /\ AckIsTrue'
  BY DEF NodeOpSend, hubVars, memVars, nodeVars, linkVars, OutcomeInv, NumbersTyped, SetsTyped,
     TaskTyped, NodeTyped, AckIsTrue
<1>. QED
  BY <1>1, <1>2, <1>3, <1>4, <1>5, <1>6, <1>7, <1>8 DEF OutcomeInv

LEMMA DirectEntryRecords ==
    ASSUME FenceInv, OutcomeInv, NEW d \in Direct, NEW i \in Try, DirectEntry(d, i)
    PROVE  OutcomeInv'
<1>1. CallsTyped'
  BY ConstantsTyped, OpsApart DEF DirectEntry, CallTo, ReplyOf, hubVars, memVars, opVars,
     linkVars, OutcomeInv, CallsTyped, CallStage, AtStage
<1>2. NodeTyped'
  BY ConstantsTyped, OpsApart DEF DirectEntry, CallTo, ReplyOf, hubVars, memVars, opVars,
     linkVars, OutcomeInv, NodeTyped, LogState
<1>3. OwnerIsKnown'
  <2>1. \A x \in Direct : og[x] = 0 => \A j \in Try : call[x][j] = "idle"
    BY OpsApart DEF OutcomeInv, OwnerIsKnown
  <2>2. og[d] # 0
    BY <2>1 DEF DirectEntry
  <2>3. \A x \in Direct : x # d => call'[x] = call[x]
    BY DEF DirectEntry, ReplyOf, CallTo, OutcomeInv, CallsTyped
  <2>. QED
    BY <2>1, <2>2, <2>3 DEF DirectEntry, OutcomeInv, OwnerIsKnown, hubVars, opVars
<1>4. UnfinishedIsRecorded'
  <2>1. \A x \in Direct : CalledOnce(x)' => CalledOnce(x)
    <3>1. \E s \in CallStage \ {"idle"} : CallTo(d, i, s)
      BY DEF DirectEntry, ReplyOf, CallStage
    <3>. QED
      BY <3>1, OneCall DEF OutcomeInv
  <2>2. \A x \in Op : CalledOnce(x)' => CalledOnce(x)
    BY <2>1 DEF CalledOnce
  <2>. QED
    BY <2>2, ConstantsTyped, OpsApart DEF DirectEntry, CallTo, ReplyOf, hubVars, memVars,
       opVars, linkVars, OutcomeInv, UnfinishedIsRecorded, Unfinished, NumbersTyped,
       TablesTyped, RowState, RecordsTyped, RecState, CallsTyped, CallStage, AtStage,
       OwnerIsKnown, NoRec, DirectOnce, CallsIn
<1>5. AckIsTrue'
  BY ConstantsTyped, OpsApart DEF DirectEntry, CallTo, ReplyOf, hubVars, memVars, opVars,
     linkVars, OutcomeInv, AckIsTrue, NodeTyped, LogState, TaskTyped, Task, RecState
<1>6. \A x \in Direct : CalledOnce(x)' => DirectOnce(x)'
  <2>. SUFFICES ASSUME NEW x \in Direct, CalledOnce(x)' PROVE DirectOnce(x)'
    OBVIOUS
  <2>. USE DEF OutcomeInv
  <2>1. CASE nlive > og[d] /\ <<d, i>> \notin lost
    <3>1. CallTo(d, i, "refused") /\ "refused" \in CallStage \ {"idle"}
      BY <2>1 DEF DirectEntry, ReplyOf, CallStage
    <3>2. /\ CalledOnce(x)
          /\ x # d => call'[x] = call[x]
          /\ x = d => /\ call'[d][i] = "refused"
                      /\ \A j \in Try : j # i => call[d][j] = "idle" /\ call'[d][j] = "idle"
      BY <3>1, OneCall
    <3>3. DirectOnce(x)
      BY <3>2
    <3>4. CASE x # d
      <4>1. /\ row'[x] = row[x] /\ log'[x] = log[x] /\ disk'[x] = disk[x]
            /\ rec'[x] = rec[x] /\ (x \in ran' <=> x \in ran)
        BY <2>1, <3>4, OpsApart DEF DirectEntry, ReplyOf, Becomes, Resolve, TablesTyped,
           RecordsTyped, NodeTyped, nodeVars, opVars
      <4>. QED
        BY <3>2, <3>3, <3>4, <4>1, DirectFrame
    <3>5. CASE x = d
      <4>1. DirectOnce(d) /\ call'[d][i] = "refused"
            /\ \A j \in Try : j # i => call[d][j] = "idle" /\ call'[d][j] = "idle"
        BY <3>2, <3>3, <3>5
      <4>2. /\ call[d][i] = "wire"
            /\ row'[d] = row[d]
            /\ log'[d] = IF log[d] = "none" THEN "refused" ELSE log[d]
            /\ disk'[d] = IF disk[d] \in {"none", "entered"} THEN "refused" ELSE disk[d]
            /\ d \in ran' <=> d \in ran
            /\ rec'[d].outcome = rec[d].outcome
        BY <2>1, OpsApart DEF DirectEntry, ReplyOf, Becomes, Resolve, TablesTyped, RecordsTyped,
           NodeTyped, CallsTyped, OwnerIsKnown, NoRec, nodeVars, opVars
      <4>3. row[d] \in {"none", "admitted", "sent", "settled", "canceled", "withheld"}
        BY DEF TablesTyped
      <4>4. DirectOnce(d)'
        BY <4>1, <4>2, <4>3 DEF DirectOnce, CallsIn
      <4>. QED
        BY <3>5, <4>4
    <3>. QED
      BY <3>4, <3>5
  <2>2. CASE nlive > og[d] /\ <<d, i>> \in lost
    <3>1. CallTo(d, i, "done") /\ "done" \in CallStage \ {"idle"}
      BY <2>2 DEF DirectEntry, ReplyOf, CallStage
    <3>2. /\ CalledOnce(x)
          /\ x # d => call'[x] = call[x]
          /\ x = d => /\ call'[d][i] = "done"
                      /\ \A j \in Try : j # i => call[d][j] = "idle" /\ call'[d][j] = "idle"
      BY <3>1, OneCall
    <3>3. DirectOnce(x)
      BY <3>2
    <3>4. CASE x # d
      <4>1. /\ row'[x] = row[x] /\ log'[x] = log[x] /\ disk'[x] = disk[x]
            /\ rec'[x] = rec[x] /\ (x \in ran' <=> x \in ran)
        BY <2>2, <3>4, OpsApart DEF DirectEntry, ReplyOf, Becomes, Resolve, TablesTyped,
           RecordsTyped, NodeTyped, nodeVars, opVars
      <4>. QED
        BY <3>2, <3>3, <3>4, <4>1, DirectFrame
    <3>5. CASE x = d
      <4>1. DirectOnce(d) /\ call'[d][i] = "done"
            /\ \A j \in Try : j # i => call[d][j] = "idle" /\ call'[d][j] = "idle"
        BY <3>2, <3>3, <3>5
      <4>2. /\ call[d][i] = "wire"
            /\ row'[d] = row[d]
            /\ log'[d] = IF log[d] = "none" THEN "refused" ELSE log[d]
            /\ disk'[d] = IF disk[d] \in {"none", "entered"} THEN "refused" ELSE disk[d]
            /\ d \in ran' <=> d \in ran
            /\ rec'[d].outcome = rec[d].outcome
        BY <2>2, OpsApart DEF DirectEntry, ReplyOf, Becomes, Resolve, TablesTyped, RecordsTyped,
           NodeTyped, CallsTyped, OwnerIsKnown, NoRec, nodeVars, opVars
      <4>3. row[d] \in {"none", "admitted", "sent", "settled", "canceled", "withheld"}
        BY DEF TablesTyped
      <4>4. DirectOnce(d)'
        BY <4>1, <4>2, <4>3 DEF DirectOnce, CallsIn
      <4>. QED
        BY <3>5, <4>4
    <3>. QED
      BY <3>4, <3>5
  <2>3. CASE ~(nlive > og[d])
    <3>1. CallTo(d, i, "entered") /\ "entered" \in CallStage \ {"idle"}
      BY <2>3 DEF DirectEntry, ReplyOf, CallStage
    <3>2. /\ CalledOnce(x)
          /\ x # d => call'[x] = call[x]
          /\ x = d => /\ call'[d][i] = "entered"
                      /\ \A j \in Try : j # i => call[d][j] = "idle" /\ call'[d][j] = "idle"
      BY <3>1, OneCall
    <3>3. DirectOnce(x)
      BY <3>2
    <3>4. CASE x # d
      <4>1. /\ row'[x] = row[x] /\ log'[x] = log[x] /\ disk'[x] = disk[x]
            /\ rec'[x] = rec[x] /\ (x \in ran' <=> x \in ran)
        BY <2>3, <3>4, OpsApart DEF DirectEntry, ReplyOf, Becomes, Resolve, TablesTyped,
           RecordsTyped, NodeTyped, nodeVars, opVars
      <4>. QED
        BY <3>2, <3>3, <3>4, <4>1, DirectFrame
    <3>5. CASE x = d
      <4>1. DirectOnce(d) /\ call'[d][i] = "entered"
            /\ \A j \in Try : j # i => call[d][j] = "idle" /\ call'[d][j] = "idle"
        BY <3>2, <3>3, <3>5
      <4>2. /\ call[d][i] = "wire"
            /\ row'[d] = row[d]
            /\ log'[d] = IF log[d] = "none" THEN "entered" ELSE log[d]
            /\ disk'[d] = IF disk[d] = "none" THEN "entered" ELSE disk[d]
            /\ d \in ran' <=> d \in ran
            /\ rec'[d].outcome = rec[d].outcome
        BY <2>3, OpsApart DEF DirectEntry, ReplyOf, Becomes, Resolve, TablesTyped, RecordsTyped,
           NodeTyped, CallsTyped, OwnerIsKnown, NoRec, nodeVars, opVars
      <4>3. row[d] \in {"none", "admitted", "sent", "settled", "canceled", "withheld"}
        BY DEF TablesTyped
      <4>4. DirectOnce(d)'
        BY <4>1, <4>2, <4>3 DEF DirectOnce, CallsIn
      <4>. QED
        BY <3>5, <4>4
    <3>. QED
      BY <3>4, <3>5
  <2>. QED
    BY <2>1, <2>2, <2>3
<1>7. /\ NumbersTyped' /\ TablesTyped' /\ RecordsTyped' /\ SetsTyped' /\ TaskTyped'
      /\ (\A x \in Cmd : CommandOnce(x)')
  BY DEF DirectEntry, hubVars, memVars, opVars, linkVars, OutcomeInv, NumbersTyped, TablesTyped,
     RecordsTyped, SetsTyped, TaskTyped, CommandOnce
<1>. QED
  BY <1>1, <1>2, <1>3, <1>4, <1>5, <1>6, <1>7 DEF OutcomeInv

LEMMA DirectRunRecords ==
    ASSUME FenceInv, OutcomeInv, NEW d \in Direct, NEW i \in Try, DirectRun(d, i)
    PROVE  OutcomeInv'
<1>1. CallsTyped'
  BY ConstantsTyped, OpsApart DEF DirectRun, CallTo, ReplyOf, hubVars, memVars, opVars,
     linkVars, OutcomeInv, CallsTyped, CallStage, AtStage
<1>2. NodeTyped'
  BY ConstantsTyped, OpsApart DEF DirectRun, CallTo, ReplyOf, hubVars, memVars, opVars,
     linkVars, OutcomeInv, NodeTyped, LogState
<1>3. OwnerIsKnown'
  BY ConstantsTyped, OpsApart DEF DirectRun, CallTo, ReplyOf, hubVars, memVars, opVars,
     linkVars, OutcomeInv, OwnerIsKnown, NoRec, NumbersTyped, TablesTyped, RowState,
     RecordsTyped, RecState, CallsTyped, CallStage, AtStage
<1>4. UnfinishedIsRecorded'
  BY ConstantsTyped, OpsApart DEF DirectRun, CallTo, ReplyOf, hubVars, memVars, opVars,
     linkVars, OutcomeInv, UnfinishedIsRecorded, Unfinished, CalledOnce, NumbersTyped,
     TablesTyped, RowState, RecordsTyped, RecState, CallsTyped, CallStage, AtStage,
     OwnerIsKnown, NoRec, DirectOnce, CallsIn
<1>5. AckIsTrue'
  BY ConstantsTyped, OpsApart DEF DirectRun, CallTo, ReplyOf, hubVars, memVars, opVars,
     linkVars, OutcomeInv, AckIsTrue, NodeTyped, LogState, TaskTyped, Task, RecState
<1>6. \A x \in Direct : CalledOnce(x)' => DirectOnce(x)'
  <2>. SUFFICES ASSUME NEW x \in Direct, CalledOnce(x)' PROVE DirectOnce(x)'
    OBVIOUS
  <2>. USE DEF OutcomeInv
  <2>1. CASE <<d, i>> \notin lost
    <3>1. CallTo(d, i, "replied") /\ "replied" \in CallStage \ {"idle"}
      BY <2>1 DEF DirectRun, ReplyOf, CallStage
    <3>2. /\ CalledOnce(x)
          /\ x # d => call'[x] = call[x]
          /\ x = d => /\ call'[d][i] = "replied"
                      /\ \A j \in Try : j # i => call[d][j] = "idle" /\ call'[d][j] = "idle"
      BY <3>1, OneCall
    <3>3. DirectOnce(x)
      BY <3>2
    <3>4. CASE x # d
      <4>1. /\ row'[x] = row[x] /\ log'[x] = log[x] /\ disk'[x] = disk[x]
            /\ rec'[x] = rec[x] /\ (x \in ran' <=> x \in ran)
        BY <2>1, <3>4, OpsApart DEF DirectRun, ReplyOf, Becomes, Resolve, TablesTyped,
           RecordsTyped, NodeTyped, nodeVars, opVars
      <4>. QED
        BY <3>2, <3>3, <3>4, <4>1, DirectFrame
    <3>5. CASE x = d
      <4>1. DirectOnce(d) /\ call'[d][i] = "replied"
            /\ \A j \in Try : j # i => call[d][j] = "idle" /\ call'[d][j] = "idle"
        BY <3>2, <3>3, <3>5
      <4>2. /\ call[d][i] = "entered"
            /\ row'[d] = row[d]
            /\ d \in ran'
            /\ log'[d] \in {log[d], "ran"}
            /\ disk'[d] \in {disk[d], "ran"}
            /\ rec'[d].outcome = rec[d].outcome
        BY <2>1, OpsApart DEF DirectRun, ReplyOf, Becomes, Resolve, TablesTyped, RecordsTyped,
           NodeTyped, CallsTyped, OwnerIsKnown, NoRec, nodeVars, opVars
      <4>3. row[d] \in {"none", "admitted", "sent", "settled", "canceled", "withheld"}
        BY DEF TablesTyped
      <4>4. DirectOnce(d)'
        BY <4>1, <4>2, <4>3 DEF DirectOnce, CallsIn
      <4>. QED
        BY <3>5, <4>4
    <3>. QED
      BY <3>4, <3>5
  <2>2. CASE <<d, i>> \in lost
    <3>1. CallTo(d, i, "done") /\ "done" \in CallStage \ {"idle"}
      BY <2>2 DEF DirectRun, ReplyOf, CallStage
    <3>2. /\ CalledOnce(x)
          /\ x # d => call'[x] = call[x]
          /\ x = d => /\ call'[d][i] = "done"
                      /\ \A j \in Try : j # i => call[d][j] = "idle" /\ call'[d][j] = "idle"
      BY <3>1, OneCall
    <3>3. DirectOnce(x)
      BY <3>2
    <3>4. CASE x # d
      <4>1. /\ row'[x] = row[x] /\ log'[x] = log[x] /\ disk'[x] = disk[x]
            /\ rec'[x] = rec[x] /\ (x \in ran' <=> x \in ran)
        BY <2>2, <3>4, OpsApart DEF DirectRun, ReplyOf, Becomes, Resolve, TablesTyped,
           RecordsTyped, NodeTyped, nodeVars, opVars
      <4>. QED
        BY <3>2, <3>3, <3>4, <4>1, DirectFrame
    <3>5. CASE x = d
      <4>1. DirectOnce(d) /\ call'[d][i] = "done"
            /\ \A j \in Try : j # i => call[d][j] = "idle" /\ call'[d][j] = "idle"
        BY <3>2, <3>3, <3>5
      <4>2. /\ call[d][i] = "entered"
            /\ row'[d] = row[d]
            /\ d \in ran'
            /\ log'[d] \in {log[d], "ran"}
            /\ disk'[d] \in {disk[d], "ran"}
            /\ rec'[d].outcome = rec[d].outcome
        BY <2>2, OpsApart DEF DirectRun, ReplyOf, Becomes, Resolve, TablesTyped, RecordsTyped,
           NodeTyped, CallsTyped, OwnerIsKnown, NoRec, nodeVars, opVars
      <4>3. row[d] \in {"none", "admitted", "sent", "settled", "canceled", "withheld"}
        BY DEF TablesTyped
      <4>4. DirectOnce(d)'
        BY <4>1, <4>2, <4>3 DEF DirectOnce, CallsIn
      <4>. QED
        BY <3>5, <4>4
    <3>. QED
      BY <3>4, <3>5
  <2>. QED
    BY <2>1, <2>2
<1>7. \A x \in Cmd : CommandOnce(x)'
  BY ConstantsTyped, OpsApart DEF DirectRun, CallTo, ReplyOf, hubVars, memVars, opVars,
     linkVars, OutcomeInv, CommandOnce, Unsent, NeverRan, TablesTyped, RowState, RecordsTyped,
     RecState, CallsTyped, CallStage, AtStage, NodeTyped, LogState, OwnerIsKnown, NoRec
<1>8. NumbersTyped' /\ TablesTyped' /\ RecordsTyped' /\ SetsTyped' /\ TaskTyped'
  BY DEF DirectRun, hubVars, memVars, opVars, linkVars, OutcomeInv, NumbersTyped, TablesTyped,
     RecordsTyped, SetsTyped, TaskTyped
<1>. QED
  BY <1>1, <1>2, <1>3, <1>4, <1>5, <1>6, <1>7, <1>8 DEF OutcomeInv

LEMMA SettleNodeOpRecords ==
    ASSUME FenceInv, OutcomeInv, NEW d \in Direct, NEW i \in Try, SettleNodeOp(d, i)
    PROVE  OutcomeInv'
<1>1. TablesTyped'
  BY ConstantsTyped, OpsApart DEF SettleNodeOp, Resolve, CallTo, Becomes, hubVars, memVars,
     nodeVars, linkVars, OutcomeInv, TablesTyped, RowState
<1>2. RecordsTyped'
  BY ConstantsTyped, OpsApart DEF SettleNodeOp, Resolve, CallTo, Becomes, hubVars, memVars,
     nodeVars, linkVars, OutcomeInv, RecordsTyped, RecState, NumbersTyped
<1>3. CallsTyped'
  BY ConstantsTyped, OpsApart DEF SettleNodeOp, Resolve, CallTo, Becomes, hubVars, memVars,
     nodeVars, linkVars, OutcomeInv, CallsTyped, CallStage, AtStage
<1>4. OwnerIsKnown'
  BY ConstantsTyped, OpsApart DEF SettleNodeOp, Resolve, CallTo, Becomes, hubVars, memVars,
     nodeVars, linkVars, OutcomeInv, OwnerIsKnown, NoRec, NumbersTyped, TablesTyped, RowState,
     RecordsTyped, RecState, CallsTyped, CallStage, AtStage
<1>5. UnfinishedIsRecorded'
  BY ConstantsTyped, OpsApart DEF SettleNodeOp, Resolve, CallTo, Becomes, hubVars, memVars,
     nodeVars, linkVars, OutcomeInv, UnfinishedIsRecorded, Unfinished, CalledOnce, NumbersTyped,
     TablesTyped, RowState, RecordsTyped, RecState, CallsTyped, CallStage, AtStage,
     OwnerIsKnown, NoRec, DirectOnce, CallsIn
<1>6. \A x \in Direct : CalledOnce(x)' => DirectOnce(x)'
  <2>. SUFFICES ASSUME NEW x \in Direct, CalledOnce(x)' PROVE DirectOnce(x)'
    OBVIOUS
  <2>. USE DEF OutcomeInv
  <2>1. CASE call[d][i] = "refused"
    <3>1. CallTo(d, i, "done") /\ "done" \in CallStage \ {"idle"}
      BY <2>1 DEF SettleNodeOp, CallStage
    <3>2. /\ CalledOnce(x)
          /\ x # d => call'[x] = call[x]
          /\ x = d => /\ call'[d][i] = "done"
                      /\ \A j \in Try : j # i => call[d][j] = "idle" /\ call'[d][j] = "idle"
      BY <3>1, OneCall
    <3>3. DirectOnce(x)
      BY <3>2
    <3>4. CASE x # d
      <4>1. /\ row'[x] = row[x] /\ log'[x] = log[x] /\ disk'[x] = disk[x]
            /\ rec'[x] = rec[x] /\ (x \in ran' <=> x \in ran)
        BY <2>1, <3>4, OpsApart DEF SettleNodeOp, Becomes, Resolve, TablesTyped, RecordsTyped,
           NodeTyped, nodeVars, opVars
      <4>. QED
        BY <3>2, <3>3, <3>4, <4>1, DirectFrame
    <3>5. CASE x = d
      <4>1. DirectOnce(d) /\ call'[d][i] = "done"
            /\ \A j \in Try : j # i => call[d][j] = "idle" /\ call'[d][j] = "idle"
        BY <3>2, <3>3, <3>5
      <4>2. /\ call[d][i] = "refused"
            /\ row'[d] = "settled"
            /\ log'[d] = log[d] /\ disk'[d] = disk[d]
            /\ d \in ran' <=> d \in ran
            /\ rec'[d].outcome \in {rec[d].outcome, "refused-by-node"}
        BY <2>1, OpsApart DEF SettleNodeOp, Becomes, Resolve, TablesTyped, RecordsTyped,
           NodeTyped, CallsTyped, OwnerIsKnown, NoRec, nodeVars, opVars
      <4>3. row[d] \in {"none", "admitted", "sent", "settled", "canceled", "withheld"}
        BY DEF TablesTyped
      <4>4. DirectOnce(d)'
        BY <4>1, <4>2, <4>3 DEF DirectOnce, CallsIn
      <4>. QED
        BY <3>5, <4>4
    <3>. QED
      BY <3>4, <3>5
  <2>2. CASE call[d][i] # "refused"
    <3>1. CallTo(d, i, "done") /\ "done" \in CallStage \ {"idle"}
      BY <2>2 DEF SettleNodeOp, CallStage
    <3>2. /\ CalledOnce(x)
          /\ x # d => call'[x] = call[x]
          /\ x = d => /\ call'[d][i] = "done"
                      /\ \A j \in Try : j # i => call[d][j] = "idle" /\ call'[d][j] = "idle"
      BY <3>1, OneCall
    <3>3. DirectOnce(x)
      BY <3>2
    <3>4. CASE x # d
      <4>1. /\ row'[x] = row[x] /\ log'[x] = log[x] /\ disk'[x] = disk[x]
            /\ rec'[x] = rec[x] /\ (x \in ran' <=> x \in ran)
        BY <2>2, <3>4, OpsApart DEF SettleNodeOp, Becomes, Resolve, TablesTyped, RecordsTyped,
           NodeTyped, nodeVars, opVars
      <4>. QED
        BY <3>2, <3>3, <3>4, <4>1, DirectFrame
    <3>5. CASE x = d
      <4>1. DirectOnce(d) /\ call'[d][i] = "done"
            /\ \A j \in Try : j # i => call[d][j] = "idle" /\ call'[d][j] = "idle"
        BY <3>2, <3>3, <3>5
      <4>2. /\ call[d][i] = "replied"
            /\ row'[d] = "settled"
            /\ log'[d] = log[d] /\ disk'[d] = disk[d]
            /\ d \in ran' <=> d \in ran
            /\ rec'[d].outcome \in {rec[d].outcome, "ran"}
        BY <2>2, OpsApart DEF SettleNodeOp, Becomes, Resolve, TablesTyped, RecordsTyped,
           NodeTyped, CallsTyped, OwnerIsKnown, NoRec, nodeVars, opVars
      <4>3. row[d] \in {"none", "admitted", "sent", "settled", "canceled", "withheld"}
        BY DEF TablesTyped
      <4>4. DirectOnce(d)'
        BY <4>1, <4>2, <4>3 DEF DirectOnce, CallsIn
      <4>. QED
        BY <3>5, <4>4
    <3>. QED
      BY <3>4, <3>5
  <2>. QED
    BY <2>1, <2>2
<1>7. \A x \in Cmd : CommandOnce(x)'
  BY ConstantsTyped, OpsApart DEF SettleNodeOp, Resolve, CallTo, Becomes, hubVars, memVars,
     nodeVars, linkVars, OutcomeInv, CommandOnce, Unsent, NeverRan, TablesTyped, RowState,
     RecordsTyped, RecState, CallsTyped, CallStage, AtStage, NodeTyped, LogState, OwnerIsKnown,
     NoRec
<1>8. NumbersTyped' /\ SetsTyped' /\ TaskTyped' /\ NodeTyped' /\ AckIsTrue'
  BY DEF SettleNodeOp, hubVars, memVars, nodeVars, linkVars, OutcomeInv, NumbersTyped,
     SetsTyped, TaskTyped, NodeTyped, AckIsTrue
<1>. QED
  BY <1>1, <1>2, <1>3, <1>4, <1>5, <1>6, <1>7, <1>8 DEF OutcomeInv

LEMMA QueueCommandRecords ==
    ASSUME FenceInv, OutcomeInv, NEW c \in Cmd, QueueCommand(c)
    PROVE  OutcomeInv'
<1>1. TablesTyped'
  BY ConstantsTyped, OpsApart DEF QueueCommand, Authority, Becomes, GoTo, hubVars, memVars,
     nodeVars, linkVars, OutcomeInv, TablesTyped, RowState
<1>2. CallsTyped'
  BY ConstantsTyped, OpsApart DEF QueueCommand, Authority, Becomes, GoTo, hubVars, memVars,
     nodeVars, linkVars, OutcomeInv, CallsTyped, CallStage, AtStage
<1>3. OwnerIsKnown'
  BY ConstantsTyped, OpsApart DEF QueueCommand, Authority, Becomes, GoTo, hubVars, memVars,
     nodeVars, linkVars, OutcomeInv, OwnerIsKnown, NoRec, NumbersTyped, TablesTyped, RowState,
     RecordsTyped, RecState, CallsTyped, CallStage, AtStage
<1>4. UnfinishedIsRecorded'
  BY ConstantsTyped, OpsApart DEF QueueCommand, Authority, Becomes, GoTo, hubVars, memVars,
     nodeVars, linkVars, OutcomeInv, UnfinishedIsRecorded, Unfinished, CalledOnce, NumbersTyped,
     TablesTyped, RowState, RecordsTyped, RecState, CallsTyped, CallStage, AtStage,
     OwnerIsKnown, NoRec, DirectOnce, CallsIn
<1>5. \A x \in Direct : CalledOnce(x)' => DirectOnce(x)'
  BY ConstantsTyped, OpsApart DEF QueueCommand, Authority, Becomes, GoTo, hubVars, memVars,
     nodeVars, linkVars, OutcomeInv, CalledOnce, DirectOnce, CallsIn, TablesTyped, RowState,
     RecordsTyped, RecState, CallsTyped, CallStage, AtStage, NodeTyped, LogState, OwnerIsKnown,
     NoRec
<1>6. \A x \in Cmd : CommandOnce(x)'
  BY ConstantsTyped, OpsApart DEF QueueCommand, Authority, Becomes, GoTo, hubVars, memVars,
     nodeVars, linkVars, OutcomeInv, CommandOnce, Unsent, NeverRan, TablesTyped, RowState,
     RecordsTyped, RecState, CallsTyped, CallStage, AtStage, NodeTyped, LogState, OwnerIsKnown,
     NoRec
<1>7. /\ NumbersTyped' /\ RecordsTyped' /\ SetsTyped' /\ TaskTyped' /\ NodeTyped'
      /\ AckIsTrue'
  BY DEF QueueCommand, hubVars, memVars, nodeVars, linkVars, OutcomeInv, NumbersTyped,
     RecordsTyped, SetsTyped, TaskTyped, NodeTyped, AckIsTrue
<1>. QED
  BY <1>1, <1>2, <1>3, <1>4, <1>5, <1>6, <1>7 DEF OutcomeInv

LEMMA RepostRecords ==
    ASSUME FenceInv, OutcomeInv, NEW c \in Cmd, Repost(c)
    PROVE  OutcomeInv'
<1>1. CallsTyped'
  BY ConstantsTyped, OpsApart DEF Repost, GoTo, hubVars, memVars, opVars, nodeVars, linkVars,
     OutcomeInv, CallsTyped, CallStage, AtStage
<1>2. \A x \in Cmd : CommandOnce(x)'
  BY ConstantsTyped, OpsApart DEF Repost, GoTo, hubVars, memVars, opVars, nodeVars, linkVars,
     OutcomeInv, CommandOnce, Unsent, NeverRan, TablesTyped, RowState, RecordsTyped, RecState,
     CallsTyped, CallStage, AtStage, NodeTyped, LogState, OwnerIsKnown, NoRec
<1>3. /\ NumbersTyped' /\ TablesTyped' /\ RecordsTyped' /\ SetsTyped' /\ TaskTyped'
      /\ NodeTyped' /\ OwnerIsKnown' /\ UnfinishedIsRecorded' /\ AckIsTrue'
      /\ (\A x \in Direct : CalledOnce(x)' => DirectOnce(x)')
  BY DEF Repost, hubVars, memVars, opVars, nodeVars, linkVars, OutcomeInv, NumbersTyped,
     TablesTyped, RecordsTyped, SetsTyped, TaskTyped, NodeTyped, OwnerIsKnown,
     UnfinishedIsRecorded, AckIsTrue, CalledOnce, CallsIn, DirectOnce
<1>. QED
  BY <1>1, <1>2, <1>3 DEF OutcomeInv

LEMMA NodeClaimRecords ==
    ASSUME FenceInv, OutcomeInv, NEW c \in Cmd, NodeClaim(c)
    PROVE  OutcomeInv'
<1>1. NodeTyped'
  BY ConstantsTyped, OpsApart DEF NodeClaim, hubVars, memVars, opVars, linkVars, OutcomeInv,
     NodeTyped, LogState
<1>2. AckIsTrue'
  BY ConstantsTyped, OpsApart DEF NodeClaim, hubVars, memVars, opVars, linkVars, OutcomeInv,
     AckIsTrue, NodeTyped, LogState, TaskTyped, Task, RecState
<1>3. \A x \in Direct : CalledOnce(x)' => DirectOnce(x)'
  BY ConstantsTyped, OpsApart DEF NodeClaim, hubVars, memVars, opVars, linkVars, OutcomeInv,
     CalledOnce, DirectOnce, CallsIn, TablesTyped, RowState, RecordsTyped, RecState, CallsTyped,
     CallStage, AtStage, NodeTyped, LogState, OwnerIsKnown, NoRec
<1>4. \A x \in Cmd : CommandOnce(x)'
  BY ConstantsTyped, OpsApart DEF NodeClaim, hubVars, memVars, opVars, linkVars, OutcomeInv,
     CommandOnce, Unsent, NeverRan, TablesTyped, RowState, RecordsTyped, RecState, CallsTyped,
     CallStage, AtStage, NodeTyped, LogState, OwnerIsKnown, NoRec
<1>5. /\ NumbersTyped' /\ TablesTyped' /\ RecordsTyped' /\ CallsTyped' /\ SetsTyped'
      /\ TaskTyped' /\ OwnerIsKnown' /\ UnfinishedIsRecorded'
  BY DEF NodeClaim, hubVars, memVars, opVars, linkVars, OutcomeInv, NumbersTyped, TablesTyped,
     RecordsTyped, CallsTyped, SetsTyped, TaskTyped, OwnerIsKnown, UnfinishedIsRecorded,
     CalledOnce
<1>. QED
  BY <1>1, <1>2, <1>3, <1>4, <1>5 DEF OutcomeInv

LEMMA NodeSettleRecords ==
    ASSUME FenceInv, OutcomeInv, NEW c \in Cmd, NodeSettle(c)
    PROVE  OutcomeInv'
<1>1. NodeTyped'
  BY ConstantsTyped, OpsApart DEF NodeSettle, hubVars, memVars, opVars, linkVars, OutcomeInv,
     NodeTyped, LogState
<1>2. AckIsTrue'
  BY ConstantsTyped, OpsApart DEF NodeSettle, hubVars, memVars, opVars, linkVars, OutcomeInv,
     AckIsTrue, NodeTyped, LogState, TaskTyped, Task, RecState
<1>3. \A x \in Cmd : CommandOnce(x)'
  BY ConstantsTyped, OpsApart DEF NodeSettle, hubVars, memVars, opVars, linkVars, OutcomeInv,
     CommandOnce, Unsent, NeverRan, TablesTyped, RowState, RecordsTyped, RecState, CallsTyped,
     CallStage, AtStage, NodeTyped, LogState, OwnerIsKnown, NoRec
<1>4. /\ NumbersTyped' /\ TablesTyped' /\ RecordsTyped' /\ CallsTyped' /\ SetsTyped'
      /\ TaskTyped' /\ OwnerIsKnown' /\ UnfinishedIsRecorded'
      /\ (\A x \in Direct : CalledOnce(x)' => DirectOnce(x)')
  BY DEF NodeSettle, hubVars, memVars, opVars, linkVars, OutcomeInv, NumbersTyped, TablesTyped,
     RecordsTyped, CallsTyped, SetsTyped, TaskTyped, OwnerIsKnown, UnfinishedIsRecorded,
     CalledOnce, CallsIn, DirectOnce
<1>. QED
  BY <1>1, <1>2, <1>3, <1>4 DEF OutcomeInv

LEMMA JournalCommandRecords ==
    ASSUME FenceInv, OutcomeInv, NEW c \in Cmd, JournalCommand(c)
    PROVE  OutcomeInv'
<1>1. TablesTyped'
  BY ConstantsTyped, OpsApart DEF JournalCommand, Becomes, hubVars, memVars, nodeVars, linkVars,
     OutcomeInv, TablesTyped, RowState
<1>2. OwnerIsKnown'
  BY ConstantsTyped, OpsApart DEF JournalCommand, Becomes, hubVars, memVars, nodeVars, linkVars,
     OutcomeInv, OwnerIsKnown, NoRec, NumbersTyped, TablesTyped, RowState, RecordsTyped,
     RecState, CallsTyped, CallStage, AtStage
<1>3. UnfinishedIsRecorded'
  BY ConstantsTyped, OpsApart DEF JournalCommand, Becomes, hubVars, memVars, nodeVars, linkVars,
     OutcomeInv, UnfinishedIsRecorded, Unfinished, CalledOnce, NumbersTyped, TablesTyped,
     RowState, RecordsTyped, RecState, CallsTyped, CallStage, AtStage, OwnerIsKnown, NoRec,
     DirectOnce, CallsIn
<1>4. \A x \in Direct : CalledOnce(x)' => DirectOnce(x)'
  <2>1. /\ \A x \in Direct : row'[x] = row[x]
        /\ UNCHANGED <<rec, call, log, disk, ran>>
    BY OpsApart, ConstantsTyped DEF JournalCommand, Becomes, nodeVars, OutcomeInv, TablesTyped
  <2>. QED
    BY <2>1 DEF OutcomeInv, CalledOnce, DirectOnce, CallsIn
<1>5. \A x \in Cmd : CommandOnce(x)'
  BY ConstantsTyped, OpsApart DEF JournalCommand, Becomes, hubVars, memVars, nodeVars, linkVars,
     OutcomeInv, CommandOnce, Unsent, NeverRan, TablesTyped, RowState, RecordsTyped, RecState,
     CallsTyped, CallStage, AtStage, NodeTyped, LogState, OwnerIsKnown, NoRec
<1>6. /\ NumbersTyped' /\ RecordsTyped' /\ CallsTyped' /\ SetsTyped' /\ TaskTyped'
      /\ NodeTyped' /\ AckIsTrue'
  BY DEF JournalCommand, hubVars, memVars, nodeVars, linkVars, OutcomeInv, NumbersTyped,
     RecordsTyped, CallsTyped, SetsTyped, TaskTyped, NodeTyped, AckIsTrue
<1>. QED
  BY <1>1, <1>2, <1>3, <1>4, <1>5, <1>6 DEF OutcomeInv

LEMMA MarkForwardIntentRecords ==
    ASSUME FenceInv, OutcomeInv, NEW c \in Command, MarkForwardIntent(c)
    PROVE  OutcomeInv'
<1>1. TablesTyped'
  BY ConstantsTyped, OpsApart DEF MarkForwardIntent, Authority, Gated, Becomes, GoTo, hubVars,
     memVars, nodeVars, linkVars, OutcomeInv, TablesTyped, RowState
<1>2. CallsTyped'
  BY ConstantsTyped, OpsApart DEF MarkForwardIntent, Authority, Gated, Becomes, GoTo, hubVars,
     memVars, nodeVars, linkVars, OutcomeInv, CallsTyped, CallStage, AtStage
<1>3. OwnerIsKnown'
  BY ConstantsTyped, OpsApart DEF MarkForwardIntent, Authority, Gated, Becomes, GoTo, hubVars,
     memVars, nodeVars, linkVars, OutcomeInv, OwnerIsKnown, NoRec, NumbersTyped, TablesTyped,
     RowState, RecordsTyped, RecState, CallsTyped, CallStage, AtStage
<1>4. UnfinishedIsRecorded'
  BY ConstantsTyped, OpsApart DEF MarkForwardIntent, Authority, Gated, Becomes, GoTo, hubVars,
     memVars, nodeVars, linkVars, OutcomeInv, UnfinishedIsRecorded, Unfinished, CalledOnce,
     NumbersTyped, TablesTyped, RowState, RecordsTyped, RecState, CallsTyped, CallStage,
     AtStage, OwnerIsKnown, NoRec, DirectOnce, CallsIn
<1>5. \A x \in Direct : CalledOnce(x)' => DirectOnce(x)'
  BY ConstantsTyped, OpsApart DEF MarkForwardIntent, Authority, Gated, Becomes, GoTo, hubVars,
     memVars, nodeVars, linkVars, OutcomeInv, CalledOnce, DirectOnce, CallsIn, TablesTyped,
     RowState, RecordsTyped, RecState, CallsTyped, CallStage, AtStage, NodeTyped, LogState,
     OwnerIsKnown, NoRec
<1>6. \A x \in Cmd : CommandOnce(x)'
  BY ConstantsTyped, OpsApart DEF MarkForwardIntent, Authority, Gated, Becomes, GoTo, hubVars,
     memVars, nodeVars, linkVars, OutcomeInv, CommandOnce, Unsent, NeverRan, TablesTyped,
     RowState, RecordsTyped, RecState, CallsTyped, CallStage, AtStage, NodeTyped, LogState,
     OwnerIsKnown, NoRec
<1>7. /\ NumbersTyped' /\ RecordsTyped' /\ SetsTyped' /\ TaskTyped' /\ NodeTyped'
      /\ AckIsTrue'
  BY DEF MarkForwardIntent, hubVars, memVars, nodeVars, linkVars, OutcomeInv, NumbersTyped,
     RecordsTyped, SetsTyped, TaskTyped, NodeTyped, AckIsTrue
<1>. QED
  BY <1>1, <1>2, <1>3, <1>4, <1>5, <1>6, <1>7 DEF OutcomeInv

LEMMA NoteHeldRecords ==
    ASSUME FenceInv, OutcomeInv, NEW c \in Command, NoteHeld(c)
    PROVE  OutcomeInv'
<1>1. CallsTyped'
  BY ConstantsTyped, OpsApart DEF NoteHeld, GoTo, hubVars, opVars, nodeVars, linkVars,
     OutcomeInv, CallsTyped, CallStage, AtStage
<1>2. SetsTyped'
  BY ConstantsTyped, OpsApart DEF NoteHeld, GoTo, hubVars, opVars, nodeVars, linkVars,
     OutcomeInv, SetsTyped
<1>3. \A x \in Cmd : CommandOnce(x)'
  BY ConstantsTyped, OpsApart DEF NoteHeld, GoTo, hubVars, opVars, nodeVars, linkVars,
     OutcomeInv, CommandOnce, Unsent, NeverRan, TablesTyped, RowState, RecordsTyped, RecState,
     CallsTyped, CallStage, AtStage, NodeTyped, LogState, OwnerIsKnown, NoRec
<1>4. /\ NumbersTyped' /\ TablesTyped' /\ RecordsTyped' /\ TaskTyped' /\ NodeTyped'
      /\ OwnerIsKnown' /\ UnfinishedIsRecorded' /\ AckIsTrue'
      /\ (\A x \in Direct : CalledOnce(x)' => DirectOnce(x)')
  BY DEF NoteHeld, hubVars, opVars, nodeVars, linkVars, OutcomeInv, NumbersTyped, TablesTyped,
     RecordsTyped, TaskTyped, NodeTyped, OwnerIsKnown, UnfinishedIsRecorded, AckIsTrue,
     CalledOnce, CallsIn, DirectOnce
<1>. QED
  BY <1>1, <1>2, <1>3, <1>4 DEF OutcomeInv

LEMMA SendCommandRecords ==
    ASSUME FenceInv, OutcomeInv, NEW c \in Command, SendCommand(c)
    PROVE  OutcomeInv'
<1>1. TablesTyped'
  BY ConstantsTyped, OpsApart DEF SendCommand, GateFences, Authority, Resolve, Becomes, GoTo,
     hubVars, memVars, nodeVars, linkVars, OutcomeInv, TablesTyped, RowState
<1>2. RecordsTyped'
  BY ConstantsTyped, OpsApart DEF SendCommand, GateFences, Authority, Resolve, Becomes, GoTo,
     hubVars, memVars, nodeVars, linkVars, OutcomeInv, RecordsTyped, RecState, NumbersTyped
<1>3. CallsTyped'
  BY ConstantsTyped, OpsApart DEF SendCommand, GateFences, Authority, Resolve, Becomes, GoTo,
     hubVars, memVars, nodeVars, linkVars, OutcomeInv, CallsTyped, CallStage, AtStage
<1>4. OwnerIsKnown'
  BY ConstantsTyped, OpsApart DEF SendCommand, GateFences, Authority, Resolve, Becomes, GoTo,
     hubVars, memVars, nodeVars, linkVars, OutcomeInv, OwnerIsKnown, NoRec, NumbersTyped,
     TablesTyped, RowState, RecordsTyped, RecState, CallsTyped, CallStage, AtStage, CommandOnce
<1>5. UnfinishedIsRecorded'
  BY ConstantsTyped, OpsApart DEF SendCommand, GateFences, Authority, Resolve, Becomes, GoTo,
     hubVars, memVars, nodeVars, linkVars, OutcomeInv, UnfinishedIsRecorded, Unfinished,
     CalledOnce, NumbersTyped, TablesTyped, RowState, RecordsTyped, RecState, CallsTyped,
     CallStage, AtStage, OwnerIsKnown, NoRec, DirectOnce, CallsIn
<1>6. \A x \in Direct : CalledOnce(x)' => DirectOnce(x)'
  BY ConstantsTyped, OpsApart DEF SendCommand, GateFences, Authority, Resolve, Becomes, GoTo,
     hubVars, memVars, nodeVars, linkVars, OutcomeInv, CalledOnce, DirectOnce, CallsIn,
     TablesTyped, RowState, RecordsTyped, RecState, CallsTyped, CallStage, AtStage, NodeTyped,
     LogState, OwnerIsKnown, NoRec
<1>7. \A x \in Cmd : CommandOnce(x)'
  BY ConstantsTyped, OpsApart DEF SendCommand, GateFences, Authority, Resolve, Becomes, GoTo,
     hubVars, memVars, nodeVars, linkVars, OutcomeInv, CommandOnce, Unsent, NeverRan,
     TablesTyped, RowState, RecordsTyped, RecState, CallsTyped, CallStage, AtStage, NodeTyped,
     LogState, OwnerIsKnown, NoRec
<1>8. NumbersTyped' /\ SetsTyped' /\ TaskTyped' /\ NodeTyped' /\ AckIsTrue'
  BY DEF SendCommand, hubVars, memVars, nodeVars, linkVars, OutcomeInv, NumbersTyped, SetsTyped,
     TaskTyped, NodeTyped, AckIsTrue
<1>. QED
  BY <1>1, <1>2, <1>3, <1>4, <1>5, <1>6, <1>7, <1>8 DEF OutcomeInv

LEMMA NodeCheckRecords ==
    ASSUME FenceInv, OutcomeInv, NEW c \in Command, NodeCheck(c)
    PROVE  OutcomeInv'
<1>1. CallsTyped'
  BY ConstantsTyped, OpsApart DEF NodeCheck, GoTo, hubVars, memVars, opVars, nodeVars, linkVars,
     OutcomeInv, CallsTyped, CallStage, AtStage
<1>2. \A x \in Cmd : CommandOnce(x)'
  BY ConstantsTyped, OpsApart DEF NodeCheck, GoTo, hubVars, memVars, opVars, nodeVars, linkVars,
     OutcomeInv, CommandOnce, Unsent, NeverRan, TablesTyped, RowState, RecordsTyped, RecState,
     CallsTyped, CallStage, AtStage, NodeTyped, LogState, OwnerIsKnown, NoRec
<1>3. /\ NumbersTyped' /\ TablesTyped' /\ RecordsTyped' /\ SetsTyped' /\ TaskTyped'
      /\ NodeTyped' /\ OwnerIsKnown' /\ UnfinishedIsRecorded' /\ AckIsTrue'
      /\ (\A x \in Direct : CalledOnce(x)' => DirectOnce(x)')
  BY DEF NodeCheck, hubVars, memVars, opVars, nodeVars, linkVars, OutcomeInv, NumbersTyped,
     TablesTyped, RecordsTyped, SetsTyped, TaskTyped, NodeTyped, OwnerIsKnown,
     UnfinishedIsRecorded, AckIsTrue, CalledOnce, CallsIn, DirectOnce
<1>. QED
  BY <1>1, <1>2, <1>3 DEF OutcomeInv

LEMMA NodeAcceptRecords ==
    ASSUME FenceInv, OutcomeInv, NEW c \in Command, NodeAccept(c)
    PROVE  OutcomeInv'
<1>1. CallsTyped'
  BY ConstantsTyped, OpsApart DEF NodeAccept, GoTo, hubVars, memVars, opVars, linkVars,
     OutcomeInv, CallsTyped, CallStage, AtStage
<1>2. NodeTyped'
  BY ConstantsTyped, OpsApart DEF NodeAccept, GoTo, hubVars, memVars, opVars, linkVars,
     OutcomeInv, NodeTyped, LogState
<1>3. AckIsTrue'
  <2>1. c \in Cmd => ncmd[c] = "none"
    BY DEF NodeAccept, OutcomeInv, CommandOnce
  <2>2. \A x \in Cmd : x # c => ncmd'[x] = ncmd[x]
    BY ConstantsTyped DEF NodeAccept, OutcomeInv, NodeTyped
  <2>. QED
    BY <2>1, <2>2 DEF NodeAccept, OutcomeInv, AckIsTrue, memVars
<1>4. \A x \in Cmd : CommandOnce(x)'
  BY ConstantsTyped, OpsApart DEF NodeAccept, GoTo, hubVars, memVars, opVars, linkVars,
     OutcomeInv, CommandOnce, Unsent, NeverRan, TablesTyped, RowState, RecordsTyped, RecState,
     CallsTyped, CallStage, AtStage, NodeTyped, LogState, OwnerIsKnown, NoRec
<1>5. /\ NumbersTyped' /\ TablesTyped' /\ RecordsTyped' /\ SetsTyped' /\ TaskTyped'
      /\ OwnerIsKnown' /\ UnfinishedIsRecorded'
      /\ (\A x \in Direct : CalledOnce(x)' => DirectOnce(x)')
  BY DEF NodeAccept, hubVars, memVars, opVars, linkVars, OutcomeInv, NumbersTyped, TablesTyped,
     RecordsTyped, SetsTyped, TaskTyped, OwnerIsKnown, UnfinishedIsRecorded, CalledOnce,
     CallsIn, DirectOnce
<1>. QED
  BY <1>1, <1>2, <1>3, <1>4, <1>5 DEF OutcomeInv

LEMMA CommandReplyRecords ==
    ASSUME FenceInv, OutcomeInv, NEW c \in Command, CommandReply(c)
    PROVE  OutcomeInv'
<1>1. TablesTyped'
  BY ConstantsTyped, OpsApart DEF CommandReply, Resolve, Becomes, GoTo, hubVars, memVars,
     nodeVars, linkVars, OutcomeInv, TablesTyped, RowState
<1>2. RecordsTyped'
  BY ConstantsTyped, OpsApart DEF CommandReply, Resolve, Becomes, GoTo, hubVars, memVars,
     nodeVars, linkVars, OutcomeInv, RecordsTyped, RecState, NumbersTyped
<1>3. CallsTyped'
  BY ConstantsTyped, OpsApart DEF CommandReply, Resolve, Becomes, GoTo, hubVars, memVars,
     nodeVars, linkVars, OutcomeInv, CallsTyped, CallStage, AtStage
<1>4. OwnerIsKnown'
  BY ConstantsTyped, OpsApart DEF CommandReply, Resolve, Becomes, GoTo, hubVars, memVars,
     nodeVars, linkVars, OutcomeInv, OwnerIsKnown, NoRec, NumbersTyped, TablesTyped, RowState,
     RecordsTyped, RecState, CallsTyped, CallStage, AtStage, CommandOnce
<1>5. UnfinishedIsRecorded'
  BY ConstantsTyped, OpsApart DEF CommandReply, Resolve, Becomes, GoTo, hubVars, memVars,
     nodeVars, linkVars, OutcomeInv, UnfinishedIsRecorded, Unfinished, CalledOnce, NumbersTyped,
     TablesTyped, RowState, RecordsTyped, RecState, CallsTyped, CallStage, AtStage,
     OwnerIsKnown, NoRec, DirectOnce, CallsIn
<1>6. \A x \in Direct : CalledOnce(x)' => DirectOnce(x)'
  BY ConstantsTyped, OpsApart DEF CommandReply, Resolve, Becomes, GoTo, hubVars, memVars,
     nodeVars, linkVars, OutcomeInv, CalledOnce, DirectOnce, CallsIn, TablesTyped, RowState,
     RecordsTyped, RecState, CallsTyped, CallStage, AtStage, NodeTyped, LogState, OwnerIsKnown,
     NoRec
<1>7. \A x \in Cmd : CommandOnce(x)'
  BY ConstantsTyped, OpsApart DEF CommandReply, Resolve, Becomes, GoTo, hubVars, memVars,
     nodeVars, linkVars, OutcomeInv, CommandOnce, Unsent, NeverRan, TablesTyped, RowState,
     RecordsTyped, RecState, CallsTyped, CallStage, AtStage, NodeTyped, LogState, OwnerIsKnown,
     NoRec
<1>8. NumbersTyped' /\ SetsTyped' /\ TaskTyped' /\ NodeTyped' /\ AckIsTrue'
  BY DEF CommandReply, hubVars, memVars, nodeVars, linkVars, OutcomeInv, NumbersTyped,
     SetsTyped, TaskTyped, NodeTyped, AckIsTrue
<1>. QED
  BY <1>1, <1>2, <1>3, <1>4, <1>5, <1>6, <1>7, <1>8 DEF OutcomeInv

LEMMA HubGivesUpRecords ==
    ASSUME FenceInv, OutcomeInv, HubGivesUp
    PROVE  OutcomeInv'
<1>1. /\ NumbersTyped' /\ TablesTyped' /\ RecordsTyped' /\ CallsTyped' /\ SetsTyped'
      /\ TaskTyped' /\ NodeTyped' /\ OwnerIsKnown' /\ UnfinishedIsRecorded' /\ AckIsTrue'
      /\ (\A x \in Direct : CalledOnce(x)' => DirectOnce(x)')
      /\ (\A x \in Cmd : CommandOnce(x)')
  BY DEF HubGivesUp, hubVars, memVars, opVars, nodeVars, OutcomeInv, NumbersTyped, TablesTyped,
     RecordsTyped, CallsTyped, SetsTyped, TaskTyped, NodeTyped, OwnerIsKnown,
     UnfinishedIsRecorded, AckIsTrue, CalledOnce, CommandOnce, CallsIn, DirectOnce
<1>. QED
  BY <1>1 DEF OutcomeInv

LEMMA FencePauseRecords ==
    ASSUME FenceInv, OutcomeInv, FencePause
    PROVE  OutcomeInv'
<1>0. PICK mine \in SUBSET Follow : FenceCore(mine)
  <2>1. {} \in SUBSET Follow
    OBVIOUS
  <2>2. gen + 1 \in Fence
    BY ConstantsTyped DEF FencePause, FenceCore, OutcomeInv, NumbersTyped
  <2>3. {<<"close", gen + 1>>} \in SUBSET Follow
    BY <2>2, ConstantsTyped
  <2>. QED
    BY <2>1, <2>3 DEF FencePause
<1>1. NumbersTyped'
  BY <1>0, CoreRows, ConstantsTyped DEF FencePause, OutcomeInv, NumbersTyped, linkVars, nodeVars
<1>2. TablesTyped'
  BY <1>0, CoreRecords DEF FencePause, nodeVars
<1>3. RecordsTyped'
  BY <1>0, CoreRecords DEF FencePause, nodeVars
<1>4. SetsTyped'
  BY <1>0, CoreRows DEF FencePause, OutcomeInv, SetsTyped, NumbersTyped, nodeVars
<1>5. OwnerIsKnown'
  BY <1>0, CoreRecords DEF FencePause, nodeVars
<1>6. UnfinishedIsRecorded'
  BY <1>0, CoreRecords DEF FencePause, nodeVars
<1>7. \A x \in Direct : CalledOnce(x)' => DirectOnce(x)'
  BY <1>0, CoreRecords DEF FencePause, nodeVars
<1>8. \A x \in Cmd : CommandOnce(x)'
  BY <1>0, CoreRecords DEF FencePause, nodeVars
<1>9. CallsTyped' /\ TaskTyped' /\ NodeTyped' /\ AckIsTrue'
  BY DEF FencePause, nodeVars, linkVars, OutcomeInv, CallsTyped, TaskTyped, NodeTyped, AckIsTrue
<1>. QED
  BY <1>1, <1>2, <1>3, <1>4, <1>5, <1>6, <1>7, <1>8, <1>9 DEF OutcomeInv

LEMMA FenceSuccessorRecords ==
    ASSUME FenceInv, OutcomeInv, FenceSuccessor
    PROVE  OutcomeInv'
<1>0. PICK mine \in SUBSET Follow : FenceCore(mine)
  <2>1. gen + 1 \in Fence
    BY ConstantsTyped DEF FenceSuccessor, FenceCore, OutcomeInv, NumbersTyped
  <2>2. {<<"create", gen + 1>>} \in SUBSET Follow
    BY <2>1, ConstantsTyped
  <2>. QED
    BY <2>2 DEF FenceSuccessor
<1>1. NumbersTyped'
  BY <1>0, CoreRows, ConstantsTyped DEF FenceSuccessor, OutcomeInv, NumbersTyped, linkVars,
     nodeVars
<1>2. TablesTyped'
  BY <1>0, CoreRecords DEF FenceSuccessor, nodeVars
<1>3. RecordsTyped'
  BY <1>0, CoreRecords DEF FenceSuccessor, nodeVars
<1>4. SetsTyped'
  BY <1>0, CoreRows DEF FenceSuccessor, OutcomeInv, SetsTyped, NumbersTyped, nodeVars
<1>5. OwnerIsKnown'
  BY <1>0, CoreRecords DEF FenceSuccessor, nodeVars
<1>6. UnfinishedIsRecorded'
  BY <1>0, CoreRecords DEF FenceSuccessor, nodeVars
<1>7. \A x \in Direct : CalledOnce(x)' => DirectOnce(x)'
  BY <1>0, CoreRecords DEF FenceSuccessor, nodeVars
<1>8. \A x \in Cmd : CommandOnce(x)'
  BY <1>0, CoreRecords DEF FenceSuccessor, nodeVars
<1>9. CallsTyped' /\ TaskTyped' /\ NodeTyped' /\ AckIsTrue'
  BY DEF FenceSuccessor, nodeVars, linkVars, OutcomeInv, CallsTyped, TaskTyped, NodeTyped,
     AckIsTrue
<1>. QED
  BY <1>1, <1>2, <1>3, <1>4, <1>5, <1>6, <1>7, <1>8, <1>9 DEF OutcomeInv

LEMMA ResumePausedRecords ==
    ASSUME FenceInv, OutcomeInv, ResumePaused
    PROVE  OutcomeInv'
<1>0. /\ gen \in Fence /\ <<"create", gen>> \in Command /\ <<"create", gen>> \notin Op
      /\ \A x \in Op : row'[x] = row[x]
  <2>1. gen \in Fence
    BY DEF ResumePaused, FenceInv, CommittedIsDelivered
  <2>2. <<"create", gen>> \in Command /\ <<"create", gen>> \notin Op
    BY <2>1, ConstantsTyped
  <2>. QED
    BY <2>1, <2>2, OpsApart DEF ResumePaused, Becomes, OutcomeInv, TablesTyped
<1>1. NumbersTyped'
  BY ConstantsTyped, OpsApart DEF ResumePaused, Becomes, nodeVars, linkVars, OutcomeInv,
     NumbersTyped
<1>2. TablesTyped'
  BY <1>0, OpsApart, ConstantsTyped DEF ResumePaused, Becomes, OutcomeInv, TablesTyped, RowState
<1>3. SetsTyped'
  BY <1>0 DEF ResumePaused, OutcomeInv, SetsTyped, nodeVars
<1>4. OwnerIsKnown'
  BY <1>0 DEF ResumePaused, OutcomeInv, OwnerIsKnown
<1>5. UnfinishedIsRecorded'
  BY <1>0 DEF ResumePaused, OutcomeInv, UnfinishedIsRecorded, CalledOnce
<1>6. \A x \in Direct : CalledOnce(x)' => DirectOnce(x)'
  BY <1>0, OpsApart, DirectFrame DEF ResumePaused, OutcomeInv, CalledOnce, nodeVars
<1>7. \A x \in Cmd : CommandOnce(x)'
  BY <1>0, OpsApart, CommandFrame DEF ResumePaused, OutcomeInv, nodeVars
<1>8. RecordsTyped' /\ CallsTyped' /\ TaskTyped' /\ NodeTyped' /\ AckIsTrue'
  BY DEF ResumePaused, nodeVars, linkVars, OutcomeInv, RecordsTyped, CallsTyped, TaskTyped,
     NodeTyped, AckIsTrue
<1>. QED
  BY <1>1, <1>2, <1>3, <1>4, <1>5, <1>6, <1>7, <1>8 DEF OutcomeInv

LEMMA AfterCommitRecords ==
    ASSUME FenceInv, OutcomeInv, NEW g \in Fence, AfterCommit(g)
    PROVE  OutcomeInv'
<1>1. NumbersTyped'
  BY ConstantsTyped, OpsApart DEF AfterCommit, hubVars, opVars, nodeVars, linkVars, OutcomeInv,
     NumbersTyped
<1>2. SetsTyped'
  BY ConstantsTyped, OpsApart DEF AfterCommit, hubVars, opVars, nodeVars, linkVars, OutcomeInv,
     SetsTyped
<1>3. /\ TablesTyped' /\ RecordsTyped' /\ CallsTyped' /\ TaskTyped' /\ NodeTyped'
      /\ OwnerIsKnown' /\ UnfinishedIsRecorded' /\ AckIsTrue'
      /\ (\A x \in Direct : CalledOnce(x)' => DirectOnce(x)')
      /\ (\A x \in Cmd : CommandOnce(x)')
  BY DEF AfterCommit, hubVars, opVars, nodeVars, linkVars, OutcomeInv, TablesTyped,
     RecordsTyped, CallsTyped, TaskTyped, NodeTyped, OwnerIsKnown, UnfinishedIsRecorded,
     AckIsTrue, CalledOnce, CommandOnce, CallsIn, DirectOnce
<1>. QED
  BY <1>1, <1>2, <1>3 DEF OutcomeInv

LEMMA ContinuationForwardRecords ==
    ASSUME FenceInv, OutcomeInv, NEW g \in Fence, ContinuationForward(g)
    PROVE  OutcomeInv'
<1>1. CallsTyped'
  BY ConstantsTyped, OpsApart DEF ContinuationForward, GoTo, memVars, opVars, nodeVars,
     linkVars, OutcomeInv, CallsTyped, CallStage, AtStage
<1>2. SetsTyped'
  BY ConstantsTyped, OpsApart DEF ContinuationForward, GoTo, memVars, opVars, nodeVars,
     linkVars, OutcomeInv, SetsTyped
<1>3. \A x \in Cmd : CommandOnce(x)'
  BY ConstantsTyped, OpsApart DEF ContinuationForward, GoTo, memVars, opVars, nodeVars,
     linkVars, OutcomeInv, CommandOnce, Unsent, NeverRan, TablesTyped, RowState, RecordsTyped,
     RecState, CallsTyped, CallStage, AtStage, NodeTyped, LogState, OwnerIsKnown, NoRec
<1>4. /\ NumbersTyped' /\ TablesTyped' /\ RecordsTyped' /\ TaskTyped' /\ NodeTyped'
      /\ OwnerIsKnown' /\ UnfinishedIsRecorded' /\ AckIsTrue'
      /\ (\A x \in Direct : CalledOnce(x)' => DirectOnce(x)')
  BY DEF ContinuationForward, memVars, opVars, nodeVars, linkVars, OutcomeInv, NumbersTyped,
     TablesTyped, RecordsTyped, TaskTyped, NodeTyped, OwnerIsKnown, UnfinishedIsRecorded,
     AckIsTrue, CalledOnce, CallsIn, DirectOnce
<1>. QED
  BY <1>1, <1>2, <1>3, <1>4 DEF OutcomeInv

LEMMA ApplyStrayRecords ==
    ASSUME FenceInv, OutcomeInv, NEW g \in Fence, ApplyStray(g)
    PROVE  OutcomeInv'
<1>1. NumbersTyped'
  BY ConstantsTyped, OpsApart DEF ApplyStray, Raises, Cancelled, hubVars, memVars, opVars,
     linkVars, OutcomeInv, NumbersTyped
<1>2. SetsTyped'
  BY ConstantsTyped, OpsApart DEF ApplyStray, Raises, Cancelled, hubVars, memVars, opVars,
     linkVars, OutcomeInv, SetsTyped
<1>3. NodeTyped'
  BY ConstantsTyped, OpsApart DEF ApplyStray, Raises, Cancelled, hubVars, memVars, opVars,
     linkVars, OutcomeInv, NodeTyped, LogState
<1>4. AckIsTrue'
  BY ConstantsTyped, OpsApart DEF ApplyStray, Raises, Cancelled, hubVars, memVars, opVars,
     linkVars, OutcomeInv, AckIsTrue, NodeTyped, LogState, TaskTyped, Task, RecState
<1>5. \A x \in Cmd : CommandOnce(x)'
  BY ConstantsTyped, OpsApart DEF ApplyStray, Raises, Cancelled, hubVars, memVars, opVars,
     linkVars, OutcomeInv, CommandOnce, Unsent, NeverRan, TablesTyped, RowState, RecordsTyped,
     RecState, CallsTyped, CallStage, AtStage, NodeTyped, LogState, OwnerIsKnown, NoRec
<1>6. /\ TablesTyped' /\ RecordsTyped' /\ CallsTyped' /\ TaskTyped' /\ OwnerIsKnown'
      /\ UnfinishedIsRecorded' /\ (\A x \in Direct : CalledOnce(x)' => DirectOnce(x)')
  BY DEF ApplyStray, hubVars, memVars, opVars, linkVars, OutcomeInv, TablesTyped, RecordsTyped,
     CallsTyped, TaskTyped, OwnerIsKnown, UnfinishedIsRecorded, CalledOnce, CallsIn, DirectOnce
<1>. QED
  BY <1>1, <1>2, <1>3, <1>4, <1>5, <1>6 DEF OutcomeInv

LEMMA DeliverStartRecords ==
    ASSUME FenceInv, OutcomeInv, DeliverStart
    PROVE  OutcomeInv'
<1>1. SetsTyped'
  BY ConstantsTyped, OpsApart DEF DeliverStart, Idle, Pending, Mute, OfLink, hubVars, opVars,
     nodeVars, linkVars, OutcomeInv, SetsTyped
<1>2. TaskTyped'
  <2>1. PICK t \in kicks \cup {OfLink} :
           dl' = [Idle EXCEPT !.pc = "next", !.by = t, !.list = Pending]
    BY DEF DeliverStart
  <2>2. t \in Fence \cup {OfLink} /\ Pending \in SUBSET Fence
    BY DEF OutcomeInv, SetsTyped, Pending
  <2>. QED
    BY <2>1, <2>2, IdleTask DEF TaskTyped, Task
<1>3. AckIsTrue'
  BY ConstantsTyped, OpsApart DEF DeliverStart, Idle, Pending, Mute, OfLink, hubVars, opVars,
     nodeVars, linkVars, OutcomeInv, AckIsTrue, NodeTyped, LogState, TaskTyped, Task, RecState
<1>4. /\ NumbersTyped' /\ TablesTyped' /\ RecordsTyped' /\ CallsTyped' /\ NodeTyped'
      /\ OwnerIsKnown' /\ UnfinishedIsRecorded'
      /\ (\A x \in Direct : CalledOnce(x)' => DirectOnce(x)')
      /\ (\A x \in Cmd : CommandOnce(x)')
  BY DEF DeliverStart, hubVars, opVars, nodeVars, linkVars, OutcomeInv, NumbersTyped,
     TablesTyped, RecordsTyped, CallsTyped, NodeTyped, OwnerIsKnown, UnfinishedIsRecorded,
     CalledOnce, CommandOnce, CallsIn, DirectOnce
<1>. QED
  BY <1>1, <1>2, <1>3, <1>4 DEF OutcomeInv

LEMMA DeliverCallRecords ==
    ASSUME FenceInv, OutcomeInv, DeliverCall
    PROVE  OutcomeInv'
<1>1. TaskTyped'
  <2>1. PICK g \in dl.list : dl' = IF link THEN [dl EXCEPT !.pc = "wire", !.fence = g] ELSE Idle
    BY DEF DeliverCall
  <2>2. dl \in Task /\ g \in 0..MaxGen
    BY ConstantsTyped DEF OutcomeInv, TaskTyped, Task
  <2>3. CASE link
    BY <2>1, <2>2, <2>3 DEF TaskTyped, Task
  <2>4. CASE ~link
    BY <2>1, <2>4, IdleTask DEF TaskTyped
  <2>. QED
    BY <2>3, <2>4
<1>2. AckIsTrue'
  BY ConstantsTyped, OpsApart DEF DeliverCall, Idle, Mute, OfLink, hubVars, opVars, nodeVars,
     linkVars, OutcomeInv, AckIsTrue, NodeTyped, LogState, TaskTyped, Task, RecState
<1>3. /\ NumbersTyped' /\ TablesTyped' /\ RecordsTyped' /\ CallsTyped' /\ SetsTyped'
      /\ NodeTyped' /\ OwnerIsKnown' /\ UnfinishedIsRecorded'
      /\ (\A x \in Direct : CalledOnce(x)' => DirectOnce(x)')
      /\ (\A x \in Cmd : CommandOnce(x)')
  BY DEF DeliverCall, hubVars, opVars, nodeVars, linkVars, OutcomeInv, NumbersTyped,
     TablesTyped, RecordsTyped, CallsTyped, SetsTyped, NodeTyped, OwnerIsKnown,
     UnfinishedIsRecorded, CalledOnce, CommandOnce, CallsIn, DirectOnce
<1>. QED
  BY <1>1, <1>2, <1>3 DEF OutcomeInv

LEMMA ApplyLineageFenceRecords ==
    ASSUME FenceInv, OutcomeInv, ApplyLineageFence
    PROVE  OutcomeInv'
<1>1. NumbersTyped'
  <2>1. dl.fence \in 1..MaxGen
    BY ConstantsTyped DEF ApplyLineageFence, FenceInv, DeliveryTyped
  <2>. QED
    BY <2>1 DEF ApplyLineageFence, Raises, OutcomeInv, NumbersTyped, hubVars, linkVars
<1>2. TaskTyped'
  BY ConstantsTyped, OpsApart DEF ApplyLineageFence, Raises, Cancelled, Outcomes, hubVars,
     opVars, linkVars, OutcomeInv, TaskTyped, Task, RecState
<1>3. NodeTyped'
  BY ConstantsTyped, OpsApart DEF ApplyLineageFence, Raises, Cancelled, Outcomes, hubVars,
     opVars, linkVars, OutcomeInv, NodeTyped, LogState
<1>4. AckIsTrue'
  <2>1. dl'.outs = Outcomes(dl.fence)
    BY DEF ApplyLineageFence, OutcomeInv, TaskTyped, Task
  <2>2. \A d \in Direct : /\ dl'.outs[d] \in {"unknown", "ran", "refused-by-node"}
                          /\ dl'.outs[d] = "ran" => log[d] = "ran"
                          /\ dl'.outs[d] = "refused-by-node" => log[d] = "refused"
    BY <2>1, OpsApart DEF Outcomes
  <2>3. \A c \in Cmd : /\ dl'.outs[c] \in {"unknown", "ran", "cancelled-by-node"}
                       /\ dl'.outs[c] = "ran" => ncmd[c] = "done"
                       /\ dl'.outs[c] = "cancelled-by-node" =>
                             ncmd[c] \in {"accepted", "fenced"} /\ og[c] < dl.fence
    <3>1. dl.fence \in Nat /\ \A c \in Cmd : og[c] \in Nat
      BY ConstantsTyped DEF OutcomeInv, TaskTyped, Task, RecordsTyped
    <3>. QED
      BY <2>1, <3>1, OpsApart DEF Outcomes
  <2>4. \A c \in Cmd : /\ ncmd[c] = "done" => ncmd'[c] = "done"
                       /\ ncmd[c] \in {"accepted", "fenced"} /\ og[c] < dl.fence
                             => ncmd'[c] = "fenced"
    BY ConstantsTyped DEF ApplyLineageFence, Cancelled
  <2>. QED
    BY <2>2, <2>3, <2>4 DEF ApplyLineageFence, AckIsTrue
<1>5. \A x \in Cmd : CommandOnce(x)'
  BY ConstantsTyped, OpsApart DEF ApplyLineageFence, Raises, Cancelled, Outcomes, hubVars,
     opVars, linkVars, OutcomeInv, CommandOnce, Unsent, NeverRan, TablesTyped, RowState,
     RecordsTyped, RecState, CallsTyped, CallStage, AtStage, NodeTyped, LogState, OwnerIsKnown,
     NoRec
<1>6. /\ TablesTyped' /\ RecordsTyped' /\ CallsTyped' /\ SetsTyped' /\ OwnerIsKnown'
      /\ UnfinishedIsRecorded' /\ (\A x \in Direct : CalledOnce(x)' => DirectOnce(x)')
  BY DEF ApplyLineageFence, hubVars, opVars, linkVars, OutcomeInv, TablesTyped, RecordsTyped,
     CallsTyped, SetsTyped, OwnerIsKnown, UnfinishedIsRecorded, CalledOnce, CallsIn, DirectOnce
<1>. QED
  BY <1>1, <1>2, <1>3, <1>4, <1>5, <1>6 DEF OutcomeInv

LEMMA AckFenceRecords ==
    ASSUME FenceInv, OutcomeInv, AckFence
    PROVE  OutcomeInv'
<1>0. /\ dl.fence \in Fence /\ dl.outs \in [Op -> RecState]
      /\ rec' = [o \in Op |-> IF rec[o].fence = dl.fence /\ rec[o].outcome = "unknown"
                             THEN [rec[o] EXCEPT !.outcome = dl.outs[o]] ELSE rec[o]]
  BY DEF AckFence, FenceInv, DeliveryTyped, OutcomeInv, TaskTyped, Task
<1>b. \A x \in Op : /\ rec'[x] \in [fence : 0..MaxGen, outcome : RecState]
                    /\ rec'[x].fence = rec[x].fence
                    /\ rec'[x].outcome \in {rec[x].outcome, dl.outs[x]}
                    /\ rec[x].outcome # "unknown" => rec'[x] = rec[x]
  BY <1>0 DEF OutcomeInv, RecordsTyped
<1>1. TablesTyped'
  BY ConstantsTyped, OpsApart DEF AckFence, Mute, nodeVars, linkVars, OutcomeInv, TablesTyped,
     RowState
<1>2. RecordsTyped'
  BY <1>0, <1>b DEF AckFence, OutcomeInv, RecordsTyped
<1>3. TaskTyped'
  <2>1. dl \in Task /\ Mute \in [Op -> RecState]
    BY DEF OutcomeInv, TaskTyped, Mute, RecState
  <2>2. dl.list \ {dl.fence} \in SUBSET Fence
    BY <2>1 DEF Task
  <2>3. dl.todo \cup {c \in Follow : c[2] = dl.fence /\ row[c] = "queued"} \in SUBSET Command
    BY <2>1, OpsApart DEF Task
  <2>4. dl' = [dl EXCEPT !.pc = "next", !.list = dl.list \ {dl.fence}, !.fence = 0, !.outs = Mute,
                !.todo = dl.todo \cup {c \in Follow : c[2] = dl.fence /\ row[c] = "queued"}]
    BY <2>1 DEF AckFence, Task
  <2>5. 0 \in 0..MaxGen
    BY ConstantsTyped
  <2>. QED
    BY <2>1, <2>2, <2>3, <2>4, <2>5 DEF TaskTyped, Task
<1>4. OwnerIsKnown'
  BY <1>b DEF AckFence, OutcomeInv, OwnerIsKnown, NoRec
<1>5. UnfinishedIsRecorded'
  BY <1>b DEF AckFence, OutcomeInv, UnfinishedIsRecorded, CalledOnce
<1>6. AckIsTrue'
  BY ConstantsTyped, OpsApart DEF AckFence, Mute, nodeVars, linkVars, OutcomeInv, AckIsTrue,
     NodeTyped, LogState, TaskTyped, Task, RecState
<1>7. \A x \in Direct : CalledOnce(x)' => DirectOnce(x)'
  <2>. SUFFICES ASSUME NEW x \in Direct, CalledOnce(x)' PROVE DirectOnce(x)'
    OBVIOUS
  <2>1. DirectOnce(x) /\ x \in Op
    BY OpsApart DEF AckFence, OutcomeInv, CalledOnce
  <2>2. /\ dl.outs[x] \in {"unknown", "ran", "refused-by-node"}
        /\ dl.outs[x] = "ran" => log[x] = "ran"
        /\ dl.outs[x] = "refused-by-node" => log[x] = "refused"
    BY DEF AckFence, OutcomeInv, AckIsTrue
  <2>3. rec'[x].outcome \in {rec[x].outcome, dl.outs[x]}
    BY <1>b, <2>1
  <2>4. /\ row' = row /\ call' = call /\ log' = log /\ disk' = disk /\ ran' = ran
    BY DEF AckFence, nodeVars
  <2>. QED
    BY <2>1, <2>2, <2>3, <2>4 DEF DirectOnce, CallsIn
<1>8. \A x \in Cmd : CommandOnce(x)'
  <2>. SUFFICES ASSUME NEW x \in Cmd PROVE CommandOnce(x)'
    OBVIOUS
  <2>1. CommandOnce(x) /\ x \in Op
    BY OpsApart DEF OutcomeInv
  <2>2. /\ dl.outs[x] \in {"unknown", "ran", "cancelled-by-node"}
        /\ dl.outs[x] = "ran" => ncmd[x] = "done"
        /\ dl.outs[x] = "cancelled-by-node" => ncmd[x] = "fenced"
    BY DEF AckFence, OutcomeInv, AckIsTrue
  <2>3. rec'[x].outcome \in {rec[x].outcome, dl.outs[x]}
    BY <1>b, <2>1
  <2>4. /\ row' = row /\ at' = at /\ ncmd' = ncmd /\ ran' = ran
    BY DEF AckFence, nodeVars
  <2>. QED
    BY <2>1, <2>2, <2>3, <2>4 DEF CommandOnce, NeverRan
<1>9. NumbersTyped' /\ CallsTyped' /\ SetsTyped' /\ NodeTyped'
  BY DEF AckFence, nodeVars, linkVars, OutcomeInv, NumbersTyped, CallsTyped, SetsTyped,
     NodeTyped
<1>. QED
  BY <1>1, <1>2, <1>3, <1>4, <1>5, <1>6, <1>7, <1>8, <1>9 DEF OutcomeInv

LEMMA DeliverTakeHeldRecords ==
    ASSUME FenceInv, OutcomeInv, DeliverTakeHeld
    PROVE  OutcomeInv'
<1>1. SetsTyped'
  BY ConstantsTyped, OpsApart DEF DeliverTakeHeld, Idle, Mute, OfLink, hubVars, opVars,
     nodeVars, linkVars, OutcomeInv, SetsTyped
<1>2. TaskTyped'
  <2>1. dl \in Task /\ held \subseteq Command
    BY DEF OutcomeInv, TaskTyped, SetsTyped
  <2>2. CASE link
    <3>1. dl.todo \cup held \in SUBSET Command
      BY <2>1 DEF Task
    <3>2. dl' = [dl EXCEPT !.pc = "forward", !.todo = dl.todo \cup held]
      BY <2>1, <2>2 DEF DeliverTakeHeld, Task
    <3>. QED
      BY <2>1, <3>1, <3>2 DEF TaskTyped, Task
  <2>3. CASE ~link
    BY <2>3, IdleTask DEF DeliverTakeHeld, TaskTyped
  <2>. QED
    BY <2>2, <2>3
<1>3. AckIsTrue'
  BY ConstantsTyped, OpsApart DEF DeliverTakeHeld, Idle, Mute, OfLink, hubVars, opVars,
     nodeVars, linkVars, OutcomeInv, AckIsTrue, NodeTyped, LogState, TaskTyped, Task, RecState
<1>4. /\ NumbersTyped' /\ TablesTyped' /\ RecordsTyped' /\ CallsTyped' /\ NodeTyped'
      /\ OwnerIsKnown' /\ UnfinishedIsRecorded'
      /\ (\A x \in Direct : CalledOnce(x)' => DirectOnce(x)')
      /\ (\A x \in Cmd : CommandOnce(x)')
  BY DEF DeliverTakeHeld, hubVars, opVars, nodeVars, linkVars, OutcomeInv, NumbersTyped,
     TablesTyped, RecordsTyped, CallsTyped, NodeTyped, OwnerIsKnown, UnfinishedIsRecorded,
     CalledOnce, CommandOnce, CallsIn, DirectOnce
<1>. QED
  BY <1>1, <1>2, <1>3, <1>4 DEF OutcomeInv

LEMMA DeliverForwardRecords ==
    ASSUME FenceInv, OutcomeInv, NEW c \in Command, DeliverForward(c)
    PROVE  OutcomeInv'
<1>1. CallsTyped'
  BY ConstantsTyped, OpsApart DEF DeliverForward, GoTo, Waits, hubVars, opVars, nodeVars,
     linkVars, OutcomeInv, CallsTyped, CallStage, AtStage
<1>2. TaskTyped'
  BY ConstantsTyped, OpsApart DEF DeliverForward, GoTo, Waits, hubVars, opVars, nodeVars,
     linkVars, OutcomeInv, TaskTyped, Task, RecState
<1>3. AckIsTrue'
  BY ConstantsTyped, OpsApart DEF DeliverForward, GoTo, Waits, hubVars, opVars, nodeVars,
     linkVars, OutcomeInv, AckIsTrue, NodeTyped, LogState, TaskTyped, Task, RecState
<1>4. \A x \in Cmd : CommandOnce(x)'
  BY ConstantsTyped, OpsApart DEF DeliverForward, GoTo, Waits, hubVars, opVars, nodeVars,
     linkVars, OutcomeInv, CommandOnce, Unsent, NeverRan, TablesTyped, RowState, RecordsTyped,
     RecState, CallsTyped, CallStage, AtStage, NodeTyped, LogState, OwnerIsKnown, NoRec
<1>5. /\ NumbersTyped' /\ TablesTyped' /\ RecordsTyped' /\ SetsTyped' /\ NodeTyped'
      /\ OwnerIsKnown' /\ UnfinishedIsRecorded'
      /\ (\A x \in Direct : CalledOnce(x)' => DirectOnce(x)')
  BY DEF DeliverForward, hubVars, opVars, nodeVars, linkVars, OutcomeInv, NumbersTyped,
     TablesTyped, RecordsTyped, SetsTyped, NodeTyped, OwnerIsKnown, UnfinishedIsRecorded,
     CalledOnce, CallsIn, DirectOnce
<1>. QED
  BY <1>1, <1>2, <1>3, <1>4, <1>5 DEF OutcomeInv

LEMMA DeliverEndsRecords ==
    ASSUME FenceInv, OutcomeInv, DeliverEnds
    PROVE  OutcomeInv'
<1>1. TaskTyped'
  BY ConstantsTyped, OpsApart DEF DeliverEnds, Idle, Mute, OfLink, hubVars, opVars, nodeVars,
     linkVars, OutcomeInv, TaskTyped, Task, RecState
<1>2. AckIsTrue'
  BY ConstantsTyped, OpsApart DEF DeliverEnds, Idle, Mute, OfLink, hubVars, opVars, nodeVars,
     linkVars, OutcomeInv, AckIsTrue, NodeTyped, LogState, TaskTyped, Task, RecState
<1>3. /\ NumbersTyped' /\ TablesTyped' /\ RecordsTyped' /\ CallsTyped' /\ SetsTyped'
      /\ NodeTyped' /\ OwnerIsKnown' /\ UnfinishedIsRecorded'
      /\ (\A x \in Direct : CalledOnce(x)' => DirectOnce(x)')
      /\ (\A x \in Cmd : CommandOnce(x)')
  BY DEF DeliverEnds, hubVars, opVars, nodeVars, linkVars, OutcomeInv, NumbersTyped,
     TablesTyped, RecordsTyped, CallsTyped, SetsTyped, NodeTyped, OwnerIsKnown,
     UnfinishedIsRecorded, CalledOnce, CommandOnce, CallsIn, DirectOnce
<1>. QED
  BY <1>1, <1>2, <1>3 DEF OutcomeInv

LEMMA DeliverTimeoutRecords ==
    ASSUME FenceInv, OutcomeInv, DeliverTimeout
    PROVE  OutcomeInv'
<1>1. SetsTyped'
  <2>1. /\ dl.pc = "wire" => dl.fence \in Fence
        /\ stray \subseteq Fence
    BY DEF FenceInv, DeliveryTyped, OutcomeInv, SetsTyped
  <2>. QED
    BY <2>1 DEF DeliverTimeout, FenceOnWire, OutcomeInv, SetsTyped, hubVars, nodeVars, memVars
<1>2. TaskTyped'
  BY ConstantsTyped, OpsApart DEF DeliverTimeout, Idle, Mute, OfLink, hubVars, opVars,
     OutcomeInv, TaskTyped, Task, RecState
<1>3. AckIsTrue'
  BY ConstantsTyped, OpsApart DEF DeliverTimeout, Idle, Mute, OfLink, hubVars, opVars,
     OutcomeInv, AckIsTrue, NodeTyped, LogState, TaskTyped, Task, RecState
<1>4. /\ NumbersTyped' /\ TablesTyped' /\ RecordsTyped' /\ CallsTyped' /\ NodeTyped'
      /\ OwnerIsKnown' /\ UnfinishedIsRecorded'
      /\ (\A x \in Direct : CalledOnce(x)' => DirectOnce(x)')
      /\ (\A x \in Cmd : CommandOnce(x)')
  BY DEF DeliverTimeout, hubVars, opVars, OutcomeInv, NumbersTyped, TablesTyped, RecordsTyped,
     CallsTyped, NodeTyped, OwnerIsKnown, UnfinishedIsRecorded, CalledOnce, CommandOnce,
     CallsIn, DirectOnce
<1>. QED
  BY <1>1, <1>2, <1>3, <1>4 DEF OutcomeInv

LEMMA LinkDropsRecords ==
    ASSUME FenceInv, OutcomeInv, LinkDrops
    PROVE  OutcomeInv'
<1>1. NumbersTyped'
  BY ConstantsTyped, OpsApart DEF LinkDrops, Cut, FenceOnWire, DeliveryCut, AtNode, Reply, Idle,
     Mute, OfLink, hubVars, opVars, OutcomeInv, NumbersTyped
<1>2. CallsTyped'
  BY ConstantsTyped, OpsApart DEF LinkDrops, Cut, FenceOnWire, DeliveryCut, AtNode, Reply, Idle,
     Mute, OfLink, hubVars, opVars, OutcomeInv, CallsTyped, CallStage, AtStage
<1>3. SetsTyped'
  <2>1. /\ dl.pc = "wire" => dl.fence \in Fence
        /\ stray \subseteq Fence
    BY DEF FenceInv, DeliveryTyped, OutcomeInv, SetsTyped
  <2>. QED
    BY <2>1 DEF LinkDrops, FenceOnWire, OutcomeInv, SetsTyped, hubVars, nodeVars, memVars
<1>4. TaskTyped'
  BY ConstantsTyped, OpsApart DEF LinkDrops, Cut, FenceOnWire, DeliveryCut, AtNode, Reply, Idle,
     Mute, OfLink, hubVars, opVars, OutcomeInv, TaskTyped, Task, RecState
<1>5. OwnerIsKnown'
  BY ConstantsTyped, OpsApart DEF LinkDrops, Cut, FenceOnWire, DeliveryCut, AtNode, Reply, Idle,
     Mute, OfLink, hubVars, opVars, OutcomeInv, OwnerIsKnown, NoRec, NumbersTyped, TablesTyped,
     RowState, RecordsTyped, RecState, CallsTyped, CallStage, AtStage
<1>6. UnfinishedIsRecorded'
  <2>1. \A x \in Direct : CalledOnce(x)' => CalledOnce(x)
    BY DEF LinkDrops, Cut, AtNode, Reply, OutcomeInv, CallsTyped, CalledOnce
  <2>2. \A x \in Op : CalledOnce(x)' => CalledOnce(x)
    BY <2>1 DEF CalledOnce
  <2>. QED
    BY <2>2, ConstantsTyped, OpsApart DEF LinkDrops, Cut, FenceOnWire, DeliveryCut, AtNode,
       Reply, Idle, Mute, OfLink, hubVars, opVars, OutcomeInv, UnfinishedIsRecorded, Unfinished,
       NumbersTyped, TablesTyped, RowState, RecordsTyped, RecState, CallsTyped, CallStage,
       AtStage, OwnerIsKnown, NoRec, DirectOnce, CallsIn
<1>7. AckIsTrue'
  BY ConstantsTyped, OpsApart DEF LinkDrops, Cut, FenceOnWire, DeliveryCut, AtNode, Reply, Idle,
     Mute, OfLink, hubVars, opVars, OutcomeInv, AckIsTrue, NodeTyped, LogState, TaskTyped, Task,
     RecState
<1>8. \A x \in Direct : CalledOnce(x)' => DirectOnce(x)'
  BY ConstantsTyped, OpsApart DEF LinkDrops, Cut, FenceOnWire, DeliveryCut, AtNode, Reply, Idle,
     Mute, OfLink, hubVars, opVars, OutcomeInv, CalledOnce, DirectOnce, CallsIn, TablesTyped,
     RowState, RecordsTyped, RecState, CallsTyped, CallStage, AtStage, NodeTyped, LogState,
     OwnerIsKnown, NoRec
<1>9. \A x \in Cmd : CommandOnce(x)'
  BY ConstantsTyped, OpsApart DEF LinkDrops, Cut, FenceOnWire, DeliveryCut, AtNode, Reply, Idle,
     Mute, OfLink, hubVars, opVars, OutcomeInv, CommandOnce, Unsent, NeverRan, TablesTyped,
     RowState, RecordsTyped, RecState, CallsTyped, CallStage, AtStage, NodeTyped, LogState,
     OwnerIsKnown, NoRec
<1>10. TablesTyped' /\ RecordsTyped' /\ NodeTyped'
  BY DEF LinkDrops, hubVars, opVars, OutcomeInv, TablesTyped, RecordsTyped, NodeTyped
<1>. QED
  BY <1>1, <1>2, <1>3, <1>4, <1>5, <1>6, <1>7, <1>8, <1>9, <1>10 DEF OutcomeInv

LEMMA HelloRecords ==
    ASSUME FenceInv, OutcomeInv, Hello
    PROVE  OutcomeInv'
<1>1. NumbersTyped'
  BY ConstantsTyped, OpsApart DEF Hello, OfLink, hubVars, opVars, nodeVars, OutcomeInv,
     NumbersTyped
<1>2. SetsTyped'
  BY ConstantsTyped, OpsApart DEF Hello, OfLink, hubVars, opVars, nodeVars, OutcomeInv,
     SetsTyped
<1>3. /\ TablesTyped' /\ RecordsTyped' /\ CallsTyped' /\ TaskTyped' /\ NodeTyped'
      /\ OwnerIsKnown' /\ UnfinishedIsRecorded' /\ AckIsTrue'
      /\ (\A x \in Direct : CalledOnce(x)' => DirectOnce(x)')
      /\ (\A x \in Cmd : CommandOnce(x)')
  BY DEF Hello, hubVars, opVars, nodeVars, OutcomeInv, TablesTyped, RecordsTyped, CallsTyped,
     TaskTyped, NodeTyped, OwnerIsKnown, UnfinishedIsRecorded, AckIsTrue, CalledOnce,
     CommandOnce, CallsIn, DirectOnce
<1>. QED
  BY <1>1, <1>2, <1>3 DEF OutcomeInv

LEMMA HubCrashRecords ==
    ASSUME FenceInv, OutcomeInv, HubCrash
    PROVE  OutcomeInv'
<1>1. NumbersTyped'
  BY ConstantsTyped, OpsApart DEF HubCrash, Cut, FenceOnWire, AtNode, Reply, Idle, Mute, OfLink,
     opVars, OutcomeInv, NumbersTyped
<1>2. CallsTyped'
  BY ConstantsTyped, OpsApart DEF HubCrash, Cut, FenceOnWire, AtNode, Reply, Idle, Mute, OfLink,
     opVars, OutcomeInv, CallsTyped, CallStage, AtStage
<1>3. SetsTyped'
  <2>1. /\ dl.pc = "wire" => dl.fence \in Fence
        /\ stray \subseteq Fence
    BY DEF FenceInv, DeliveryTyped, OutcomeInv, SetsTyped
  <2>. QED
    BY <2>1 DEF HubCrash, FenceOnWire, OutcomeInv, SetsTyped, hubVars, nodeVars, memVars
<1>4. TaskTyped'
  BY ConstantsTyped, OpsApart DEF HubCrash, Cut, FenceOnWire, AtNode, Reply, Idle, Mute, OfLink,
     opVars, OutcomeInv, TaskTyped, Task, RecState
<1>5. OwnerIsKnown'
  BY ConstantsTyped, OpsApart DEF HubCrash, Cut, FenceOnWire, AtNode, Reply, Idle, Mute, OfLink,
     opVars, OutcomeInv, OwnerIsKnown, NoRec, NumbersTyped, TablesTyped, RowState, RecordsTyped,
     RecState, CallsTyped, CallStage, AtStage
<1>6. UnfinishedIsRecorded'
  <2>1. \A x \in Direct : CalledOnce(x)' => CalledOnce(x)
    BY DEF HubCrash, Cut, AtNode, Reply, OutcomeInv, CallsTyped, CalledOnce
  <2>2. \A x \in Op : CalledOnce(x)' => CalledOnce(x)
    BY <2>1 DEF CalledOnce
  <2>. QED
    BY <2>2, ConstantsTyped, OpsApart DEF HubCrash, Cut, FenceOnWire, AtNode, Reply, Idle, Mute,
       OfLink, opVars, OutcomeInv, UnfinishedIsRecorded, Unfinished, NumbersTyped, TablesTyped,
       RowState, RecordsTyped, RecState, CallsTyped, CallStage, AtStage, OwnerIsKnown, NoRec,
       DirectOnce, CallsIn
<1>7. AckIsTrue'
  BY ConstantsTyped, OpsApart DEF HubCrash, Cut, FenceOnWire, AtNode, Reply, Idle, Mute, OfLink,
     opVars, OutcomeInv, AckIsTrue, NodeTyped, LogState, TaskTyped, Task, RecState
<1>8. \A x \in Direct : CalledOnce(x)' => DirectOnce(x)'
  BY ConstantsTyped, OpsApart DEF HubCrash, Cut, FenceOnWire, AtNode, Reply, Idle, Mute, OfLink,
     opVars, OutcomeInv, CalledOnce, DirectOnce, CallsIn, TablesTyped, RowState, RecordsTyped,
     RecState, CallsTyped, CallStage, AtStage, NodeTyped, LogState, OwnerIsKnown, NoRec
<1>9. \A x \in Cmd : CommandOnce(x)'
  BY ConstantsTyped, OpsApart DEF HubCrash, Cut, FenceOnWire, AtNode, Reply, Idle, Mute, OfLink,
     opVars, OutcomeInv, CommandOnce, Unsent, NeverRan, TablesTyped, RowState, RecordsTyped,
     RecState, CallsTyped, CallStage, AtStage, NodeTyped, LogState, OwnerIsKnown, NoRec
<1>10. TablesTyped' /\ RecordsTyped' /\ NodeTyped'
  BY DEF HubCrash, opVars, OutcomeInv, TablesTyped, RecordsTyped, NodeTyped
<1>. QED
  BY <1>1, <1>2, <1>3, <1>4, <1>5, <1>6, <1>7, <1>8, <1>9, <1>10 DEF OutcomeInv

LEMMA NodeCrashRecords ==
    ASSUME FenceInv, OutcomeInv, NodeCrash
    PROVE  OutcomeInv'
<1>1. NumbersTyped'
  BY ConstantsTyped, OpsApart DEF NodeCrash, DeliveryCut, AtNode, Reply, Idle, Mute, OfLink,
     hubVars, opVars, OutcomeInv, NumbersTyped
<1>2. CallsTyped'
  BY ConstantsTyped, OpsApart DEF NodeCrash, DeliveryCut, AtNode, Reply, Idle, Mute, OfLink,
     hubVars, opVars, OutcomeInv, CallsTyped, CallStage, AtStage
<1>3. SetsTyped'
  BY ConstantsTyped, OpsApart DEF NodeCrash, DeliveryCut, AtNode, Reply, Idle, Mute, OfLink,
     hubVars, opVars, OutcomeInv, SetsTyped
<1>4. TaskTyped'
  BY ConstantsTyped, OpsApart DEF NodeCrash, DeliveryCut, AtNode, Reply, Idle, Mute, OfLink,
     hubVars, opVars, OutcomeInv, TaskTyped, Task, RecState
<1>5. NodeTyped'
  BY ConstantsTyped, OpsApart DEF NodeCrash, DeliveryCut, AtNode, Reply, Idle, Mute, OfLink,
     hubVars, opVars, OutcomeInv, NodeTyped, LogState
<1>6. OwnerIsKnown'
  BY ConstantsTyped, OpsApart DEF NodeCrash, DeliveryCut, AtNode, Reply, Idle, Mute, OfLink,
     hubVars, opVars, OutcomeInv, OwnerIsKnown, NoRec, NumbersTyped, TablesTyped, RowState,
     RecordsTyped, RecState, CallsTyped, CallStage, AtStage
<1>7. UnfinishedIsRecorded'
  <2>1. \A x \in Direct : CalledOnce(x)' => CalledOnce(x)
    BY DEF NodeCrash, Cut, AtNode, Reply, OutcomeInv, CallsTyped, CalledOnce
  <2>2. \A x \in Op : CalledOnce(x)' => CalledOnce(x)
    BY <2>1 DEF CalledOnce
  <2>. QED
    BY <2>2, ConstantsTyped, OpsApart DEF NodeCrash, DeliveryCut, AtNode, Reply, Idle, Mute,
       OfLink, hubVars, opVars, OutcomeInv, UnfinishedIsRecorded, Unfinished, NumbersTyped,
       TablesTyped, RowState, RecordsTyped, RecState, CallsTyped, CallStage, AtStage,
       OwnerIsKnown, NoRec, DirectOnce, CallsIn
<1>8. AckIsTrue'
  BY ConstantsTyped, OpsApart DEF NodeCrash, DeliveryCut, AtNode, Reply, Idle, Mute, OfLink,
     hubVars, opVars, OutcomeInv, AckIsTrue, NodeTyped, LogState, TaskTyped, Task, RecState
<1>9. \A x \in Direct : CalledOnce(x)' => DirectOnce(x)'
  BY ConstantsTyped, OpsApart DEF NodeCrash, DeliveryCut, AtNode, Reply, Idle, Mute, OfLink,
     hubVars, opVars, OutcomeInv, CalledOnce, DirectOnce, CallsIn, TablesTyped, RowState,
     RecordsTyped, RecState, CallsTyped, CallStage, AtStage, NodeTyped, LogState, OwnerIsKnown,
     NoRec
<1>10. \A x \in Cmd : CommandOnce(x)'
  BY ConstantsTyped, OpsApart DEF NodeCrash, DeliveryCut, AtNode, Reply, Idle, Mute, OfLink,
     hubVars, opVars, OutcomeInv, CommandOnce, Unsent, NeverRan, TablesTyped, RowState,
     RecordsTyped, RecState, CallsTyped, CallStage, AtStage, NodeTyped, LogState, OwnerIsKnown,
     NoRec
<1>11. TablesTyped' /\ RecordsTyped'
  BY DEF NodeCrash, hubVars, opVars, OutcomeInv, TablesTyped, RecordsTyped
<1>. QED
  BY <1>1, <1>2, <1>3, <1>4, <1>5, <1>6, <1>7, <1>8, <1>9, <1>10, <1>11 DEF OutcomeInv

-----------------------------------------------------------------------------
(* The invariant.                                                            *)

LEMMA InitOutcome == Init => OutcomeInv
<1>. SUFFICES ASSUME Init PROVE OutcomeInv
  OBVIOUS
<1>1. NumbersTyped /\ SetsTyped
  <2>1. 1 \in 1..MaxGen
    BY ConstantsTyped, OpsApart
  <2>. QED
    BY <2>1 DEF Init, NumbersTyped, SetsTyped
<1>2. TablesTyped /\ RecordsTyped
  BY ConstantsTyped DEF Init, TablesTyped, RecordsTyped, RowState, RecState, NoRec
<1>3. CallsTyped /\ NodeTyped
  BY DEF Init, CallsTyped, NodeTyped, CallStage, AtStage, LogState
<1>4. TaskTyped /\ AckIsTrue
  BY IdleTask DEF Init, TaskTyped, AckIsTrue
<1>5. OwnerIsKnown
  BY OpsApart DEF Init, OwnerIsKnown
<1>6. UnfinishedIsRecorded
  BY DEF Init, UnfinishedIsRecorded
<1>7. \A d \in Direct : DirectOnce(d)
  BY OpsApart DEF Init, DirectOnce, CallsIn, NoRec
<1>8. \A c \in Cmd : CommandOnce(c)
  BY OpsApart DEF Init, CommandOnce, Unsent, NeverRan, NoRec
<1>. QED
  BY <1>1, <1>2, <1>3, <1>4, <1>5, <1>6, <1>7, <1>8 DEF OutcomeInv

LEMMA StutterRecords ==
    ASSUME OutcomeInv, UNCHANGED vars
    PROVE  OutcomeInv'
BY DEF vars, hubVars, memVars, opVars, nodeVars, linkVars, OutcomeInv, NumbersTyped, TablesTyped,
   RecordsTyped, CallsTyped, SetsTyped, TaskTyped, NodeTyped, OwnerIsKnown, UnfinishedIsRecorded,
   AckIsTrue, CalledOnce, DirectOnce, CallsIn, CommandOnce

(* Row, call, log and record of every operation agree in every reachable     *)
(* state, through crashes of either side and lost links.                     *)
THEOREM OutcomeInvariant == Spec => []OutcomeInv
<1>1. FenceInv /\ OutcomeInv /\ [Next]_vars => OutcomeInv'
  <2>. SUFFICES ASSUME FenceInv, OutcomeInv, [Next]_vars PROVE OutcomeInv'
    OBVIOUS
  <2>1. CASE UNCHANGED vars
    BY <2>1, StutterRecords
  <2>2. ASSUME NEW o \in Op, CallerArrives(o) PROVE OutcomeInv'
    BY <2>2, CallerArrivesRecords
  <2>3. ASSUME NEW d \in Direct, NEW i \in Try, AdmitNodeOp(d, i) \/ NodeOpStep(d, i)
        PROVE  OutcomeInv'
    BY <2>3, AdmitNodeOpRecords, MarkNodeOpSentRecords, NodeOpSendRecords, DirectEntryRecords,
       DirectRunRecords, SettleNodeOpRecords DEF NodeOpStep
  <2>4. ASSUME NEW c \in Cmd,
               \/ QueueCommand(c) \/ Repost(c) \/ NodeClaim(c) \/ NodeSettle(c)
               \/ JournalCommand(c)
        PROVE  OutcomeInv'
    BY <2>4, QueueCommandRecords, RepostRecords, NodeClaimRecords, NodeSettleRecords,
       JournalCommandRecords
  <2>5. ASSUME NEW c \in Command, ForwardStep(c) PROVE OutcomeInv'
    BY <2>5, MarkForwardIntentRecords, NoteHeldRecords, SendCommandRecords, NodeCheckRecords,
       NodeAcceptRecords, CommandReplyRecords DEF ForwardStep
  <2>6. CASE HubGivesUp \/ FencePause \/ FenceSuccessor \/ ResumePaused
    BY <2>6, HubGivesUpRecords, FencePauseRecords, FenceSuccessorRecords, ResumePausedRecords
  <2>7. ASSUME NEW g \in Fence, AfterCommit(g) \/ ContinuationForward(g) \/ ApplyStray(g)
        PROVE  OutcomeInv'
    BY <2>7, AfterCommitRecords, ContinuationForwardRecords, ApplyStrayRecords
  <2>8. CASE DeliverStep \/ DeliverTimeout
    BY <2>8, DeliverStartRecords, DeliverCallRecords, ApplyLineageFenceRecords, AckFenceRecords,
       DeliverTakeHeldRecords, DeliverForwardRecords, DeliverEndsRecords, DeliverTimeoutRecords
       DEF DeliverStep
  <2>9. CASE LinkDrops \/ Hello \/ HubCrash \/ NodeCrash
    BY <2>9, LinkDropsRecords, HelloRecords, HubCrashRecords, NodeCrashRecords
  <2>. QED
    BY <2>1, <2>2, <2>3, <2>4, <2>5, <2>6, <2>7, <2>8, <2>9 DEF Next
<1>. QED
  BY InitOutcome, FenceInvariant, <1>1, PTL DEF Spec

(* Every variable of the Hub's tables and tasks and of the Node's ledgers    *)
(* has its type, and no row has a state of the other table.                  *)
THEOREM FenceTypeCorrect == Spec => []TypeOK
<1>1. OutcomeInv => TypeOK
  BY DEF OutcomeInv, TypeOK, NumbersTyped, TablesTyped, RecordsTyped, CallsTyped, SetsTyped,
     TaskTyped, Task, NodeTyped
<1>. QED
  BY OutcomeInvariant, <1>1, PTL

(* What a fence record says of an operation sent once is true: one it says   *)
(* was cancelled, withheld or refused never has its side effect, one it says *)
(* ran has had it (fence_core, the send gates, ack_fence, the Node's log).   *)
THEOREM RecordsAreTrue == Spec => []OutcomeIsTrue
<1>1. OutcomeInv => OutcomeIsTrue
  <2>. SUFFICES ASSUME OutcomeInv, NEW o \in Op, CalledOnce(o)
                PROVE  /\ Outcome(o) \in NeverRan => o \notin ran
                       /\ Outcome(o) = "ran" => o \in ran
    BY DEF OutcomeIsTrue
  <2>1. CASE o \in Direct
    <3>1. DirectOnce(o) /\ Outcome(o) = rec[o].outcome
      BY <2>1, OpsApart DEF OutcomeInv, Outcome
    <3>2. row[o] \in {"canceled", "withheld"} => o \notin ran
      BY <3>1 DEF DirectOnce
    <3>. QED
      BY <3>1, <3>2 DEF DirectOnce, NeverRan
  <2>2. CASE o \in Cmd
    <3>1. CommandOnce(o) /\ ncmd[o] \in {"none", "accepted", "written", "done", "fenced"}
      BY <2>2, OpsApart DEF OutcomeInv, NodeTyped
    <3>2. row[o] \in Unsent \cup {"rejected"} => o \notin ran
      BY <3>1 DEF CommandOnce
    <3>3. CASE rec[o].outcome = "unknown"
      BY <2>2, <3>1, <3>2, <3>3 DEF Outcome, CommandOnce, NeverRan, Unsent
    <3>4. CASE rec[o].outcome # "unknown"
      BY <2>2, <3>1, <3>2, <3>4 DEF Outcome, CommandOnce, NeverRan, Unsent
    <3>. QED
      BY <3>3, <3>4
  <2>. QED
    BY <2>1, <2>2, OpsApart
<1>. QED
  BY OutcomeInvariant, <1>1, PTL

(* Nothing unfinished of a chapter that lost its authority is forgotten by   *)
(* the fence that ended it, and no later admission or release brings back a  *)
(* row the fence has not seen (fence_core, mark_node_op_sent,                *)
(* mark_node_op_not_sent, release_intent).                                   *)
THEOREM FenceForgetsNothing == Spec => []UnfinishedIsRecorded
<1>1. OutcomeInv => UnfinishedIsRecorded
  BY DEF OutcomeInv
<1>. QED
  BY OutcomeInvariant, <1>1, PTL

==============================================================================
