------------------------ MODULE Interactions_proofs ------------------------
(* For every set of commands and any number of calls and crashes: the        *)
(* harness is given at most one answer, the callers' replies are true, an    *)
(* expired card stays unanswered and a retired ticket is never won.          *)
(* None of these is inductive.  What carries them is the ticket's life: it   *)
(* is opened once, by the one request observation (AskIsUntouched); while it *)
(* is there nobody has won (TicketIsUnwon); the one call that takes it is    *)
(* the only one that may still reach the driver (WinnersAgree); and once it  *)
(* is retired or its expiry announced it is not open again (RetiredIsShut,   *)
(* ExpiryIsClosed).                                                          *)
EXTENDS Interactions, TLAPS

Winning(k) == at[k] \in {"won", "persisted"}
NobodyWinning == \A k \in Call : ~Winning(k)

\* The request observation has still to come.
AskPending == native = "quiet" \/ \E i \in 1..Len(emitted) : emitted[i] = "requested"

Untouched ==
    /\ ticket = "none" /\ mapped = FALSE /\ winner = None
    /\ handed = <<>> /\ retired = FALSE
    /\ \A k \in Call : at[k] \in {"idle", "sent", "done"}

AskIsUntouched ==
    /\ AskPending => Untouched
    /\ native = "quiet" => emitted = <<>>
    /\ \A i \in 1..Len(emitted) : emitted[i] = "requested" => i = 1

TicketIsUnwon == ticket # "none" => winner = None /\ handed = <<>> /\ NobodyWinning

WinnersAgree ==
    /\ \A k \in Call : Winning(k) => winner = cmd[k] /\ handed = <<>>
    /\ \A j, k \in Call : Winning(j) /\ Winning(k) => j = k
    /\ winner # None => \A i \in 1..Len(handed) : handed[i] = winner
    /\ Len(handed) <= 1

RetiredIsShut == retired => ticket # "open" /\ ~AskPending

\* The interaction ended unanswered and will stay so.
Closed == retired /\ handed = <<>> /\ winner = None /\ NobodyWinning

ExpiryIsClosed ==
    /\ card = "expired" => Closed
    /\ \A i \in 1..Len(uplink) : uplink[i] = "expired" => Closed
    /\ \A i \in 1..Len(obs) : obs[i] = "expired" => Closed

CallsAreSound ==
    \A k \in Call :
       /\ at[k] = "idle" => told[k] = "none" /\ res[k] = "none"
       /\ at[k] \in AtNode \ {"sent"} => cmd[k] # None /\ ~AskPending
       /\ at[k] = "sent" => cmd[k] # None
       /\ res[k] # "none" => at[k] \in {"drop", "replied"}
       /\ at[k] \in {"drop", "replied"} => res[k] # "none"
       /\ told[k] # "none" => at[k] = "done"
       /\ "accepted" \in {res[k], told[k]} => cmd[k] \in applied
       /\ told[k] = "superseded" =>
             /\ ticket = "none" /\ ~AskPending
             /\ winner # cmd[k]
             /\ \A i \in 1..Len(handed) : handed[i] # cmd[k]
             /\ cmd[k] # None
       /\ told[k] = "expired" => Closed

CallType ==
    /\ cmd \in [Call -> Command \cup {None}]
    /\ at \in [Call -> AtNode \cup {"idle", "done"}]
    /\ res \in [Call -> Success \cup {"none"}]
    /\ told \in [Call -> Success \cup {"none", "superseded", "expired", "error"}]

Typed ==
    /\ CallType
    /\ emitted \in Seq(Entity \cup {"requested"}) /\ uplink \in Seq(Event)
    /\ obs \in Seq({"answered", "expired"})
    /\ handed \in Seq(Command) /\ winner \in Command \cup {None}

AnswerInv ==
    /\ Typed
    /\ AskIsUntouched /\ TicketIsUnwon /\ WinnersAgree
    /\ RetiredIsShut /\ ExpiryIsClosed /\ CallsAreSound

LEMMA TellFacts ==
    ASSUME CallType, NEW k \in Call,
           NEW o \in Success \cup {"none", "superseded", "expired", "error"}, Tell(k, o)
    PROVE  /\ CallType'
           /\ at'[k] = "done" /\ told'[k] = o /\ res'[k] = "none"
           /\ cmd'[k] = IF o = "error" THEN None ELSE cmd[k]
           /\ \A j \in Call \ {k} :
                 at'[j] = at[j] /\ told'[j] = told[j] /\ res'[j] = res[j] /\ cmd'[j] = cmd[j]
<1>1. CASE o = "error"
  BY <1>1 DEF Tell, CallType, Success
<1>2. CASE o # "error"
  BY <1>2 DEF Tell, CallType, Success
<1> QED
  BY <1>1, <1>2

LEMMA GoesFacts ==
    ASSUME CallType, NEW k \in Call, NEW s \in AtNode, Goes(k, s)
    PROVE  /\ CallType'
           /\ at'[k] = s /\ (\A j \in Call \ {k} : at'[j] = at[j])
           /\ told' = told /\ res' = res /\ cmd' = cmd
  BY DEF Goes, CallType


\* A step of call k that tells its caller the outcome and touches nothing else
\* the invariant reads; what the outcome needs is assumed.
LEMMA TellKeeps ==
    ASSUME AnswerInv, NEW k \in Call,
           NEW o \in Success \cup {"none", "superseded", "expired", "error"}, Tell(k, o),
           UNCHANGED <<driverVars, mapped, brokerVars, handed, applied, uplink>>,
           retired => retired', retired' => retired \/ o = "expired",
           card' = "expired" => card = "expired", at[k] # "done",
           o # "none",
           o = "accepted" => cmd[k] \in applied,
           o = "superseded" => winner \notin {cmd[k], None} /\ at[k] = "ticketed",
           o = "expired" => ticket = "due" /\ winner = None /\ retired' /\ at[k] = "ticketed"
    PROVE  AnswerInv'
<1>0. Typed /\ AskIsUntouched /\ TicketIsUnwon /\ WinnersAgree
      /\ RetiredIsShut /\ ExpiryIsClosed /\ CallsAreSound /\ CallType
  BY DEF AnswerInv, Typed
<1>a. UNCHANGED <<native, emitted, mapped, ticket, winner, obs, handed, applied, uplink>>
  BY DEF driverVars, brokerVars
<1>b. /\ CallType'
      /\ at'[k] = "done" /\ told'[k] = o /\ res'[k] = "none"
      /\ cmd'[k] = IF o = "error" THEN None ELSE cmd[k]
      /\ \A j \in Call \ {k} :
            at'[j] = at[j] /\ told'[j] = told[j] /\ res'[j] = res[j] /\ cmd'[j] = cmd[j]
  BY <1>0, TellFacts
<1>c. AskPending' <=> AskPending
  BY <1>a DEF AskPending
<1>d. \A j \in Call : Winning(j)' => Winning(j) /\ j # k
  BY <1>b DEF Winning
<1>e. NobodyWinning => NobodyWinning'
  BY <1>d DEF NobodyWinning
<1>f. at[k] = "ticketed" => ~AskPending /\ cmd[k] # None
  BY <1>0 DEF CallsAreSound, AtNode
<1>g. Closed => Closed'
  BY <1>a, <1>e DEF Closed
<1>h. o = "expired" => Closed'
  BY <1>0, <1>a, <1>e DEF Closed, TicketIsUnwon
<1>1. Typed'
  BY <1>0, <1>a, <1>b DEF Typed
<1>2. AskIsUntouched'
  BY <1>0, <1>a, <1>b, <1>c, <1>f DEF AskIsUntouched, Untouched
<1>3. TicketIsUnwon'
  BY <1>0, <1>a, <1>e DEF TicketIsUnwon
<1>4. WinnersAgree'
  BY <1>0, <1>a, <1>b, <1>d DEF WinnersAgree
<1>5. RetiredIsShut'
  BY <1>0, <1>a, <1>c, <1>f DEF RetiredIsShut
<1>6. ExpiryIsClosed'
  BY <1>0, <1>a, <1>g DEF ExpiryIsClosed
<1>7. CallsAreSound'
  <2> SUFFICES ASSUME NEW j \in Call PROVE CallsAreSound!(j)'
    BY DEF CallsAreSound
  <2>1. CASE j # k
    BY <2>1, <1>0, <1>a, <1>b, <1>c, <1>g DEF CallsAreSound
  <2>2. CASE j = k
    <3>1. o = "superseded" =>
             /\ ticket = "none" /\ ~AskPending /\ winner # cmd[k] /\ cmd[k] # None
             /\ \A i \in 1..Len(handed) : handed[i] # cmd[k]
      BY <1>0, <1>f DEF TicketIsUnwon, WinnersAgree
    <3> QED
      BY <2>2, <3>1, <1>0, <1>a, <1>b, <1>c, <1>h DEF CallsAreSound, AtNode, Success
  <2> QED
    BY <2>1, <2>2
<1> QED
  BY <1>1, <1>2, <1>3, <1>4, <1>5, <1>6, <1>7 DEF AnswerInv

\* A step of call k inside the Node that only moves it on.
LEMMA GoesKeeps ==
    ASSUME AnswerInv, NEW k \in Call, NEW s \in AtNode \ {"sent"}, Goes(k, s),
           UNCHANGED <<driverVars, mapped, brokerVars, histVars, uplink, hubVars>>,
           at[k] \in AtNode, s \in {"drop", "replied"} <=> at[k] \in {"drop", "replied"},
           s = "persisted" => at[k] = "won", s # "won",
           at[k] = "sent" => mapped = TRUE
    PROVE  AnswerInv'
<1>0. Typed /\ AskIsUntouched /\ TicketIsUnwon /\ WinnersAgree
      /\ RetiredIsShut /\ ExpiryIsClosed /\ CallsAreSound /\ CallType
  BY DEF AnswerInv, Typed
<1>a. UNCHANGED <<native, emitted, mapped, ticket, winner, obs, handed, applied, retired, uplink, card>>
  BY DEF driverVars, brokerVars, histVars, hubVars
<1>b. /\ CallType'
      /\ at'[k] = s /\ (\A j \in Call \ {k} : at'[j] = at[j])
      /\ told' = told /\ res' = res /\ cmd' = cmd
  BY <1>0, GoesFacts
<1>c. AskPending' <=> AskPending
  BY <1>a DEF AskPending
<1>d. \A j \in Call : Winning(j)' => Winning(j)
  BY <1>b DEF Winning
<1>e. NobodyWinning => NobodyWinning'
  BY <1>d DEF NobodyWinning
<1>f. ~AskPending
  <2>1. CASE at[k] = "sent"
    BY <2>1, <1>0 DEF AskIsUntouched, Untouched
  <2>2. CASE at[k] # "sent"
    BY <2>2, <1>0 DEF CallsAreSound
  <2> QED
    BY <2>1, <2>2
<1>g. Closed => Closed'
  BY <1>a, <1>e DEF Closed
<1>1. Typed'
  BY <1>0, <1>a, <1>b DEF Typed
<1>2. AskIsUntouched'
  BY <1>0, <1>a, <1>b, <1>c, <1>f DEF AskIsUntouched, Untouched
<1>3. TicketIsUnwon'
  BY <1>0, <1>a, <1>e DEF TicketIsUnwon
<1>4. WinnersAgree'
  BY <1>0, <1>a, <1>b, <1>d DEF WinnersAgree
<1>5. RetiredIsShut'
  BY <1>0, <1>a, <1>c, <1>f DEF RetiredIsShut
<1>6. ExpiryIsClosed'
  BY <1>0, <1>a, <1>g DEF ExpiryIsClosed
<1>7. CallsAreSound'
  <2> SUFFICES ASSUME NEW j \in Call PROVE CallsAreSound!(j)'
    BY DEF CallsAreSound
  <2>1. CASE j # k
    BY <2>1, <1>0, <1>a, <1>b, <1>c, <1>g DEF CallsAreSound
  <2>2. CASE j = k
    BY <2>2, <1>0, <1>a, <1>b, <1>c, <1>f DEF CallsAreSound, AtNode
  <2> QED
    BY <2>1, <2>2
<1> QED
  BY <1>1, <1>2, <1>3, <1>4, <1>5, <1>6, <1>7 DEF AnswerInv

LEMMA Step_DriverAsk ==
    ASSUME AnswerInv, DriverAsk
    PROVE  AnswerInv'
<1>0. Typed /\ AskIsUntouched /\ TicketIsUnwon /\ WinnersAgree
      /\ RetiredIsShut /\ ExpiryIsClosed /\ CallsAreSound /\ CallType
  BY DEF AnswerInv, Typed
<1>1. Typed'
  BY <1>0 DEF DriverAsk, glueVars, brokerVars, callVars, histVars, hubVars, Typed, CallType
<1>2. AskIsUntouched'
  BY <1>0 DEF DriverAsk, glueVars, brokerVars, callVars, histVars, hubVars, AskIsUntouched,
     AskPending, Untouched
<1>3. TicketIsUnwon'
  BY <1>0 DEF DriverAsk, glueVars, brokerVars, callVars, histVars, hubVars, TicketIsUnwon,
     NobodyWinning, Winning
<1>4. WinnersAgree'
  BY <1>0 DEF DriverAsk, glueVars, brokerVars, callVars, histVars, hubVars, WinnersAgree,
     Winning
<1>5. RetiredIsShut'
  BY <1>0 DEF DriverAsk, glueVars, brokerVars, callVars, histVars, hubVars, RetiredIsShut,
     AskPending, AskIsUntouched, Untouched
<1>6. ExpiryIsClosed'
  BY <1>0 DEF DriverAsk, glueVars, brokerVars, callVars, histVars, hubVars, ExpiryIsClosed,
     Closed, NobodyWinning, Winning
<1>7. CallsAreSound'
  BY <1>0 DEF DriverAsk, glueVars, brokerVars, callVars, histVars, hubVars, CallsAreSound,
     Closed, NobodyWinning, Winning, AskPending
<1> QED
  BY <1>1, <1>2, <1>3, <1>4, <1>5, <1>6, <1>7 DEF AnswerInv

LEMMA Step_DriverClear ==
    ASSUME AnswerInv, NEW e \in Entity, DriverClear(e)
    PROVE  AnswerInv'
<1>0. Typed /\ AskIsUntouched /\ TicketIsUnwon /\ WinnersAgree
      /\ RetiredIsShut /\ ExpiryIsClosed /\ CallsAreSound /\ CallType
  BY DEF AnswerInv, Typed
<1>1. Typed'
  BY <1>0 DEF DriverClear, Entity, glueVars, brokerVars, callVars, histVars, hubVars, Typed,
     CallType
<1>2. AskIsUntouched'
  BY <1>0 DEF DriverClear, Entity, glueVars, brokerVars, callVars, histVars, hubVars,
     AskIsUntouched, AskPending, Untouched
<1>3. TicketIsUnwon'
  BY <1>0 DEF DriverClear, Entity, glueVars, brokerVars, callVars, histVars, hubVars,
     TicketIsUnwon, NobodyWinning, Winning
<1>4. WinnersAgree'
  BY <1>0 DEF DriverClear, Entity, glueVars, brokerVars, callVars, histVars, hubVars,
     WinnersAgree, Winning
<1>5. RetiredIsShut'
  BY <1>0 DEF DriverClear, Entity, glueVars, brokerVars, callVars, histVars, hubVars,
     RetiredIsShut, AskPending, AskIsUntouched, Untouched
<1>6. ExpiryIsClosed'
  BY <1>0 DEF DriverClear, Entity, glueVars, brokerVars, callVars, histVars, hubVars,
     ExpiryIsClosed, Closed, NobodyWinning, Winning
<1>7. CallsAreSound'
  BY <1>0 DEF DriverClear, Entity, glueVars, brokerVars, callVars, histVars, hubVars,
     CallsAreSound, Closed, NobodyWinning, Winning, AskPending
<1> QED
  BY <1>1, <1>2, <1>3, <1>4, <1>5, <1>6, <1>7 DEF AnswerInv

LEMMA Step_IngestRequested ==
    ASSUME AnswerInv, IngestRequested
    PROVE  AnswerInv'
<1>0. Typed /\ AskIsUntouched /\ TicketIsUnwon /\ WinnersAgree
      /\ RetiredIsShut /\ ExpiryIsClosed /\ CallsAreSound /\ CallType
  BY DEF AnswerInv, Typed
<1>1. Typed'
  BY <1>0 DEF IngestRequested, PumpTakes, callVars, histVars, hubVars, Typed, CallType,
     Event, Entity
<1>2. AskIsUntouched'
  BY <1>0 DEF IngestRequested, PumpTakes, callVars, histVars, hubVars, AskIsUntouched,
     AskPending, Untouched
<1>3. TicketIsUnwon'
  <2>1. emitted # <<>> /\ emitted[1] = "requested" /\ 1 \in 1..Len(emitted)
    BY <1>0 DEF IngestRequested, PumpTakes, Typed
  <2>2. Untouched
    BY <2>1, <1>0 DEF AskIsUntouched, AskPending
  <2> QED
    BY <2>2 DEF IngestRequested, callVars, histVars, TicketIsUnwon, NobodyWinning, Winning, Untouched
<1>4. WinnersAgree'
  BY <1>0 DEF IngestRequested, PumpTakes, callVars, histVars, hubVars, WinnersAgree, Winning
<1>5. RetiredIsShut'
  BY <1>0 DEF IngestRequested, PumpTakes, callVars, histVars, hubVars, RetiredIsShut,
     AskPending, AskIsUntouched, Untouched
<1>6. ExpiryIsClosed'
  BY <1>0 DEF IngestRequested, PumpTakes, callVars, histVars, hubVars, ExpiryIsClosed,
     Closed, NobodyWinning, Winning
<1>7. CallsAreSound'
  BY <1>0 DEF IngestRequested, PumpTakes, callVars, histVars, hubVars, CallsAreSound,
     Closed, NobodyWinning, Winning, AskPending
<1> QED
  BY <1>1, <1>2, <1>3, <1>4, <1>5, <1>6, <1>7 DEF AnswerInv

LEMMA Step_IngestEntity ==
    ASSUME AnswerInv, NEW e \in Entity, IngestEntity(e)
    PROVE  AnswerInv'
<1>0. Typed /\ AskIsUntouched /\ TicketIsUnwon /\ WinnersAgree
      /\ RetiredIsShut /\ ExpiryIsClosed /\ CallsAreSound /\ CallType
  BY DEF AnswerInv, Typed
<1>1. Typed'
  BY <1>0 DEF IngestEntity, PumpTakes, Entity, brokerVars, callVars, histVars, hubVars,
     Typed, CallType, Event
<1>2. AskIsUntouched'
  BY <1>0 DEF IngestEntity, PumpTakes, Entity, brokerVars, callVars, histVars, hubVars,
     AskIsUntouched, AskPending, Untouched
<1>3. TicketIsUnwon'
  BY <1>0 DEF IngestEntity, PumpTakes, Entity, brokerVars, callVars, histVars, hubVars,
     TicketIsUnwon, NobodyWinning, Winning
<1>4. WinnersAgree'
  BY <1>0 DEF IngestEntity, PumpTakes, Entity, brokerVars, callVars, histVars, hubVars,
     WinnersAgree, Winning
<1>5. RetiredIsShut'
  BY <1>0 DEF IngestEntity, PumpTakes, Entity, brokerVars, callVars, histVars, hubVars,
     RetiredIsShut, AskPending, AskIsUntouched, Untouched
<1>6. ExpiryIsClosed'
  BY <1>0 DEF IngestEntity, PumpTakes, Entity, brokerVars, callVars, histVars, hubVars,
     ExpiryIsClosed, Closed, NobodyWinning, Winning
<1>7. CallsAreSound'
  BY <1>0 DEF IngestEntity, PumpTakes, Entity, brokerVars, callVars, histVars, hubVars,
     CallsAreSound, Closed, NobodyWinning, Winning, AskPending
<1> QED
  BY <1>1, <1>2, <1>3, <1>4, <1>5, <1>6, <1>7 DEF AnswerInv

LEMMA Step_IngestRetire ==
    ASSUME AnswerInv, IngestRetire
    PROVE  AnswerInv'
<1>0. Typed /\ AskIsUntouched /\ TicketIsUnwon /\ WinnersAgree
      /\ RetiredIsShut /\ ExpiryIsClosed /\ CallsAreSound /\ CallType
  BY DEF AnswerInv, Typed
<1>1. Typed'
  BY <1>0 DEF IngestRetire, driverVars, glueVars, callVars, hubVars, Typed, CallType
<1>2. AskIsUntouched'
  BY <1>0 DEF IngestRetire, driverVars, glueVars, callVars, hubVars, AskIsUntouched,
     AskPending, Untouched
<1>3. TicketIsUnwon'
  BY <1>0 DEF IngestRetire, driverVars, glueVars, callVars, hubVars, TicketIsUnwon,
     NobodyWinning, Winning
<1>4. WinnersAgree'
  BY <1>0 DEF IngestRetire, driverVars, glueVars, callVars, hubVars, WinnersAgree, Winning
<1>5. RetiredIsShut'
  BY <1>0 DEF IngestRetire, driverVars, glueVars, callVars, hubVars, RetiredIsShut,
     AskPending, AskIsUntouched, Untouched
<1>6. ExpiryIsClosed'
  BY <1>0 DEF IngestRetire, driverVars, glueVars, callVars, hubVars, ExpiryIsClosed, Closed,
     NobodyWinning, Winning
<1>7. CallsAreSound'
  BY <1>0 DEF IngestRetire, driverVars, glueVars, callVars, hubVars, CallsAreSound, Closed,
     NobodyWinning, Winning, AskPending
<1> QED
  BY <1>1, <1>2, <1>3, <1>4, <1>5, <1>6, <1>7 DEF AnswerInv

LEMMA Step_IngestPut ==
    ASSUME AnswerInv, IngestPut
    PROVE  AnswerInv'
<1>0. Typed /\ AskIsUntouched /\ TicketIsUnwon /\ WinnersAgree
      /\ RetiredIsShut /\ ExpiryIsClosed /\ CallsAreSound /\ CallType
  BY DEF AnswerInv, Typed
<1>1. Typed'
  BY <1>0 DEF IngestPut, driverVars, brokerVars, callVars, histVars, hubVars, Typed,
     CallType
<1>2. AskIsUntouched'
  BY <1>0 DEF IngestPut, driverVars, brokerVars, callVars, histVars, hubVars,
     AskIsUntouched, AskPending, Untouched
<1>3. TicketIsUnwon'
  BY <1>0 DEF IngestPut, driverVars, brokerVars, callVars, histVars, hubVars, TicketIsUnwon,
     NobodyWinning, Winning
<1>4. WinnersAgree'
  BY <1>0 DEF IngestPut, driverVars, brokerVars, callVars, histVars, hubVars, WinnersAgree,
     Winning
<1>5. RetiredIsShut'
  BY <1>0 DEF IngestPut, driverVars, brokerVars, callVars, histVars, hubVars, RetiredIsShut,
     AskPending, AskIsUntouched, Untouched
<1>6. ExpiryIsClosed'
  BY <1>0 DEF IngestPut, driverVars, brokerVars, callVars, histVars, hubVars,
     ExpiryIsClosed, Closed, NobodyWinning, Winning
<1>7. CallsAreSound'
  BY <1>0 DEF IngestPut, driverVars, brokerVars, callVars, histVars, hubVars, CallsAreSound,
     Closed, NobodyWinning, Winning, AskPending
<1> QED
  BY <1>1, <1>2, <1>3, <1>4, <1>5, <1>6, <1>7 DEF AnswerInv

LEMMA Step_HubPost ==
    ASSUME AnswerInv, NEW k \in Call, NEW c \in Command, HubPost(k, c)
    PROVE  AnswerInv'
<1>a. UNCHANGED <<driverVars, mapped, brokerVars, handed, applied, retired, uplink, card>>
  BY DEF HubPost, glueVars, histVars, hubVars
<1>b. at[k] = "idle"
  BY DEF HubPost
<1>1. CASE Tell(k, "error")
  BY <1>a, <1>b, <1>1, TellKeeps
<1>2. CASE /\ cmd' = [cmd EXCEPT ![k] = c]
           /\ at' = [at EXCEPT ![k] = "sent"]
           /\ UNCHANGED <<res, told>>
  <2>0. Typed /\ AskIsUntouched /\ TicketIsUnwon /\ WinnersAgree
        /\ RetiredIsShut /\ ExpiryIsClosed /\ CallsAreSound /\ CallType
    BY DEF AnswerInv, Typed
  <2>a. UNCHANGED <<native, emitted, mapped, ticket, winner, obs, handed, applied, retired, uplink, card>>
    BY <1>a DEF driverVars, brokerVars
  <2>b. /\ CallType' /\ res' = res /\ told' = told
        /\ at'[k] = "sent" /\ cmd'[k] = c
        /\ \A j \in Call \ {k} : at'[j] = at[j] /\ cmd'[j] = cmd[j]
    BY <2>0, <1>2 DEF CallType, AtNode
  <2>c. AskPending' <=> AskPending
    BY <2>a DEF AskPending
  <2>d. \A j \in Call : Winning(j)' => Winning(j) /\ j # k
    BY <2>b DEF Winning
  <2>e. NobodyWinning => NobodyWinning'
    BY <2>d DEF NobodyWinning
  <2>g. Closed => Closed'
    BY <2>a, <2>e DEF Closed
  <2>1. Typed'
    BY <2>0, <2>a, <2>b DEF Typed
  <2>2. AskIsUntouched'
    BY <2>0, <2>a, <2>b, <2>c DEF AskIsUntouched, Untouched
  <2>3. TicketIsUnwon'
    BY <2>0, <2>a, <2>e DEF TicketIsUnwon
  <2>4. WinnersAgree'
    BY <2>0, <2>a, <2>b, <2>d DEF WinnersAgree
  <2>5. RetiredIsShut'
    BY <2>0, <2>a, <2>c DEF RetiredIsShut
  <2>6. ExpiryIsClosed'
    BY <2>0, <2>a, <2>g DEF ExpiryIsClosed
  <2>7. CallsAreSound'
    <3> SUFFICES ASSUME NEW j \in Call PROVE CallsAreSound!(j)'
      BY DEF CallsAreSound
    <3>1. CASE j # k
      BY <3>1, <2>0, <2>a, <2>b, <2>c, <2>g DEF CallsAreSound
    <3>2. CASE j = k
      <4>1. told'[k] = "none" /\ res'[k] = "none" /\ cmd'[k] # None
        BY <1>b, <2>0, <2>b, NoneIsNoCommand DEF CallsAreSound
      <4> QED
        BY <3>2, <4>1, <2>b
    <3> QED
      BY <3>1, <3>2
  <2> QED
    BY <2>1, <2>2, <2>3, <2>4, <2>5, <2>6, <2>7 DEF AnswerInv
<1> QED
  BY <1>1, <1>2 DEF HubPost

LEMMA Step_HubGivesUp ==
    ASSUME AnswerInv, NEW k \in Call, HubGivesUp(k)
    PROVE  AnswerInv'
  BY TellKeeps DEF HubGivesUp, glueVars, histVars, hubVars

LEMMA Step_NodeLookup ==
    ASSUME AnswerInv, NEW k \in Call, NodeLookup(k)
    PROVE  AnswerInv'
<1>a. UNCHANGED <<driverVars, mapped, brokerVars, histVars, uplink, hubVars>> /\ at[k] = "sent"
  BY DEF NodeLookup, glueVars
<1>1. CASE Tell(k, "error")
  BY <1>a, <1>1, TellKeeps DEF histVars, hubVars
<1>2. CASE mapped /\ Goes(k, "ticketed")
  <2>1. "ticketed" \in AtNode \ {"sent"} /\ at[k] \in AtNode /\ mapped = TRUE
    BY <1>a, <1>2 DEF AtNode
  <2> QED
    BY <1>a, <1>2, <2>1, GoesKeeps
<1> QED
  BY <1>1, <1>2 DEF NodeLookup

LEMMA Step_BrokerLost ==
    ASSUME AnswerInv, NEW k \in Call, BrokerLost(k)
    PROVE  AnswerInv'
<1>a. UNCHANGED <<driverVars, mapped, brokerVars, handed, applied, uplink, card>> /\ at[k] = "ticketed"
  BY DEF BrokerLost, glueVars, hubVars
<1>1. CASE winner \notin {cmd[k], None} /\ Tell(k, "superseded") /\ retired' = retired
  BY <1>a, <1>1, TellKeeps
<1>2. CASE Tell(k, "error") /\ retired' = retired
  BY <1>a, <1>2, TellKeeps
<1>3. CASE winner = None /\ ticket = "due" /\ Tell(k, "expired") /\ retired' = TRUE
  BY <1>a, <1>3, TellKeeps
<1>4. CASE /\ at' = [at EXCEPT ![k] = "drop"] /\ res' = [res EXCEPT ![k] = "idempotent"]
           /\ UNCHANGED <<cmd, told, retired>>
  <2>0. Typed /\ AskIsUntouched /\ TicketIsUnwon /\ WinnersAgree
        /\ RetiredIsShut /\ ExpiryIsClosed /\ CallsAreSound /\ CallType
    BY DEF AnswerInv, Typed
  <2>a. UNCHANGED <<native, emitted, mapped, ticket, winner, obs, handed, applied, retired, uplink, card>>
    BY <1>a, <1>4 DEF driverVars, brokerVars
  <2>b. /\ CallType' /\ cmd' = cmd /\ told' = told
        /\ at'[k] = "drop" /\ res'[k] = "idempotent"
        /\ \A j \in Call \ {k} : at'[j] = at[j] /\ res'[j] = res[j]
    BY <2>0, <1>4 DEF CallType, AtNode, Success
  <2>c. AskPending' <=> AskPending
    BY <2>a DEF AskPending
  <2>d. \A j \in Call : Winning(j)' => Winning(j) /\ j # k
    BY <2>b DEF Winning
  <2>e. NobodyWinning => NobodyWinning'
    BY <2>d DEF NobodyWinning
  <2>f. ~AskPending
    BY <1>a, <2>0 DEF CallsAreSound, AtNode
  <2>g. Closed => Closed'
    BY <2>a, <2>e DEF Closed
  <2>1. Typed'
    BY <2>0, <2>a, <2>b DEF Typed
  <2>2. AskIsUntouched'
    BY <2>0, <2>a, <2>c, <2>f DEF AskIsUntouched
  <2>3. TicketIsUnwon'
    BY <2>0, <2>a, <2>e DEF TicketIsUnwon
  <2>4. WinnersAgree'
    BY <2>0, <2>a, <2>b, <2>d DEF WinnersAgree
  <2>5. RetiredIsShut'
    BY <2>0, <2>a, <2>c DEF RetiredIsShut
  <2>6. ExpiryIsClosed'
    BY <2>0, <2>a, <2>g DEF ExpiryIsClosed
  <2>7. CallsAreSound'
    <3> SUFFICES ASSUME NEW j \in Call PROVE CallsAreSound!(j)'
      BY DEF CallsAreSound
    <3>1. CASE j # k
      BY <3>1, <2>0, <2>a, <2>b, <2>c, <2>g DEF CallsAreSound
    <3>2. CASE j = k
      <4>1. told'[k] = "none" /\ cmd'[k] # None
        BY <1>a, <2>0, <2>b DEF CallsAreSound, AtNode, CallType
      <4> QED
        BY <3>2, <4>1, <2>b, <2>c, <2>f
    <3> QED
      BY <3>1, <3>2
  <2> QED
    BY <2>1, <2>2, <2>3, <2>4, <2>5, <2>6, <2>7 DEF AnswerInv
<1> QED
  BY <1>1, <1>2, <1>3, <1>4 DEF BrokerLost

\* The compare-and-set: the ticket shows that nobody has won and nothing was
\* handed over, and taking it makes this call the only winner.
LEMMA Step_BrokerWin ==
    ASSUME AnswerInv, NEW k \in Call, BrokerWin(k)
    PROVE  AnswerInv'
<1>0. Typed /\ AskIsUntouched /\ TicketIsUnwon /\ WinnersAgree
      /\ RetiredIsShut /\ ExpiryIsClosed /\ CallsAreSound /\ CallType
  BY DEF AnswerInv, Typed
<1>a. /\ UNCHANGED <<native, emitted, mapped, obs, handed, applied, retired, uplink, card>>
      /\ at[k] = "ticketed" /\ ticket = "open" /\ winner = None
      /\ ticket' = "none" /\ winner' = cmd[k] /\ Goes(k, "won")
  BY DEF BrokerWin, driverVars, glueVars, histVars, hubVars
<1>b. /\ CallType'
      /\ at'[k] = "won" /\ (\A j \in Call \ {k} : at'[j] = at[j])
      /\ told' = told /\ res' = res /\ cmd' = cmd
  BY <1>0, <1>a, GoesFacts DEF AtNode
<1>c. AskPending' <=> AskPending
  BY <1>a DEF AskPending
<1>d. NobodyWinning /\ handed = <<>> /\ ~retired
  BY <1>0, <1>a DEF TicketIsUnwon, RetiredIsShut
<1>e. \A j \in Call : Winning(j)' => j = k
  BY <1>b, <1>d DEF Winning, NobodyWinning
<1>f. ~AskPending /\ cmd[k] # None
  BY <1>0, <1>a DEF CallsAreSound, AtNode
<1>g. ~Closed
  BY <1>d DEF Closed
<1>1. Typed'
  BY <1>0, <1>a, <1>b DEF Typed, CallType
<1>2. AskIsUntouched'
  BY <1>0, <1>a, <1>c, <1>f DEF AskIsUntouched
<1>3. TicketIsUnwon'
  BY <1>a DEF TicketIsUnwon
<1>4. WinnersAgree'
  BY <1>a, <1>b, <1>d, <1>e DEF WinnersAgree
<1>5. RetiredIsShut'
  BY <1>a, <1>d DEF RetiredIsShut
<1>6. ExpiryIsClosed'
  BY <1>0, <1>a, <1>g DEF ExpiryIsClosed
<1>7. CallsAreSound'
  <2> SUFFICES ASSUME NEW j \in Call PROVE CallsAreSound!(j)'
    BY DEF CallsAreSound
  <2>1. told[j] \notin {"superseded", "expired"}
    BY <1>0, <1>a, <1>g DEF CallsAreSound
  <2>2. CASE j # k
    BY <2>1, <2>2, <1>0, <1>a, <1>b, <1>c DEF CallsAreSound
  <2>3. CASE j = k
    BY <2>1, <2>3, <1>0, <1>a, <1>b, <1>c, <1>f DEF CallsAreSound, AtNode
  <2> QED
    BY <2>2, <2>3
<1> QED
  BY <1>1, <1>2, <1>3, <1>4, <1>5, <1>6, <1>7 DEF AnswerInv

LEMMA Step_OwnerPersist ==
    ASSUME AnswerInv, NEW k \in Call, OwnerPersist(k)
    PROVE  AnswerInv'
<1>a. UNCHANGED <<driverVars, mapped, brokerVars, histVars, uplink, hubVars>> /\ at[k] = "won"
  BY DEF OwnerPersist
<1>1. CASE Tell(k, "error")
  BY <1>a, <1>1, TellKeeps DEF histVars, hubVars
<1>2. CASE Goes(k, "persisted")
  <2>1. "persisted" \in AtNode \ {"sent"} /\ at[k] \in AtNode
    BY <1>a DEF AtNode
  <2> QED
    BY <1>a, <1>2, <2>1, GoesKeeps
<1> QED
  BY <1>1, <1>2 DEF OwnerPersist

\* The winner hands its answer over and is no longer winning: it was the only
\* one, and nothing had been handed before.
LEMMA Step_DriverExecute ==
    ASSUME AnswerInv, NEW k \in Call, DriverExecute(k)
    PROVE  AnswerInv'
<1>0. Typed /\ AskIsUntouched /\ TicketIsUnwon /\ WinnersAgree
      /\ RetiredIsShut /\ ExpiryIsClosed /\ CallsAreSound /\ CallType
  BY DEF AnswerInv, Typed
<1>a. /\ UNCHANGED <<mapped, ticket, winner, retired, uplink, card>>
      /\ at[k] = "persisted" /\ handed' = Append(handed, cmd[k])
  BY DEF DriverExecute, glueVars, hubVars
<1>b. Winning(k) /\ cmd[k] # None /\ ~AskPending
  BY <1>0, <1>a DEF CallsAreSound, AtNode, Winning
<1>c. /\ handed = <<>> /\ winner = cmd[k] /\ ticket = "none"
      /\ \A j \in Call : Winning(j) => j = k
  BY <1>0, <1>b DEF WinnersAgree, TicketIsUnwon, NobodyWinning
<1>d. cmd[k] \in Command /\ handed' = <<cmd[k]>>
  BY <1>0, <1>a, <1>b, <1>c DEF CallType
<1>e. ~Closed
  BY <1>b, <1>c DEF Closed
<1>f. /\ native' # "quiet" /\ emitted' \in Seq(Entity \cup {"requested"})
      /\ \A i \in 1..Len(emitted') : emitted'[i] # "requested"
      /\ obs' \in Seq({"answered", "expired"})
      /\ \A i \in 1..Len(obs') : obs'[i] # "expired"
  <2>1. /\ native # "quiet" /\ emitted \in Seq(Entity \cup {"requested"})
        /\ \A i \in 1..Len(emitted) : emitted[i] # "requested"
        /\ obs \in Seq({"answered", "expired"})
        /\ \A i \in 1..Len(obs) : obs[i] # "expired"
    BY <1>0, <1>b, <1>e DEF AskPending, Typed, ExpiryIsClosed
  <2>2. /\ emitted' \in {emitted, Append(emitted, "answer-committed")}
        /\ native' \in {native, "answered"}
        /\ obs' \in {obs, Append(obs, "answered")}
    BY DEF DriverExecute
  <2>3. /\ emitted' \in Seq(Entity \cup {"requested"})
        /\ \A i \in 1..Len(emitted') : emitted'[i] # "requested"
    BY <2>1, <2>2 DEF Entity
  <2>4. /\ obs' \in Seq({"answered", "expired"})
        /\ \A i \in 1..Len(obs') : obs'[i] # "expired"
    BY <2>1, <2>2
  <2> QED
    BY <2>1, <2>2, <2>3, <2>4
<1>g. ~AskPending'
  BY <1>f DEF AskPending
<1>h. /\ CallType' /\ applied \subseteq applied'
      /\ \A j \in Call \ {k} :
            at'[j] = at[j] /\ told'[j] = told[j] /\ res'[j] = res[j] /\ cmd'[j] = cmd[j]
      /\ \/ /\ at'[k] = "drop" /\ res'[k] = "accepted" /\ told'[k] = told[k]
            /\ cmd'[k] = cmd[k] /\ cmd[k] \in applied'
         \/ at'[k] = "done" /\ res'[k] = "none" /\ told'[k] = "error"
  <2>1. CASE /\ at' = [at EXCEPT ![k] = "drop"] /\ res' = [res EXCEPT ![k] = "accepted"]
             /\ UNCHANGED <<cmd, told>> /\ applied' = applied \cup {cmd[k]}
    BY <2>1, <1>0 DEF CallType, AtNode, Success
  <2>2. CASE Tell(k, "error") /\ applied' = applied
    BY <2>2, <1>0, TellFacts
  <2> QED
    BY <2>1, <2>2 DEF DriverExecute
<1>i. NobodyWinning'
  BY <1>c, <1>h DEF NobodyWinning, Winning
<1>1. Typed'
  BY <1>0, <1>a, <1>d, <1>f, <1>h DEF Typed
<1>2. AskIsUntouched'
  BY <1>f, <1>g DEF AskIsUntouched
<1>3. TicketIsUnwon'
  BY <1>a, <1>c DEF TicketIsUnwon
<1>4. WinnersAgree'
  BY <1>a, <1>c, <1>d, <1>i DEF WinnersAgree, NobodyWinning
<1>5. RetiredIsShut'
  BY <1>0, <1>a, <1>g DEF RetiredIsShut
<1>6. ExpiryIsClosed'
  BY <1>0, <1>a, <1>e, <1>f DEF ExpiryIsClosed
<1>7. CallsAreSound'
  <2> SUFFICES ASSUME NEW j \in Call PROVE CallsAreSound!(j)'
    BY DEF CallsAreSound
  <2>1. CASE j # k
    <3>1. told[j] # "expired"
      BY <1>0, <1>e DEF CallsAreSound
    <3> QED
      BY <2>1, <3>1, <1>0, <1>a, <1>c, <1>d, <1>g, <1>h DEF CallsAreSound
  <2>2. CASE j = k
    <3>1. told[k] = "none"
      BY <1>0, <1>a DEF CallsAreSound, CallType
    <3> QED
      BY <2>2, <3>1, <1>b, <1>g, <1>h DEF AtNode
  <2> QED
    BY <2>1, <2>2
<1> QED
  BY <1>1, <1>2, <1>3, <1>4, <1>5, <1>6, <1>7 DEF AnswerInv

LEMMA Step_NodeDrop ==
    ASSUME AnswerInv, NEW k \in Call, NodeDrop(k)
    PROVE  AnswerInv'
<1>1. "replied" \in AtNode \ {"sent"} /\ "drop" \in AtNode
  BY DEF AtNode
<1> QED
  BY <1>1, GoesKeeps DEF NodeDrop

LEMMA Step_HubReply ==
    ASSUME AnswerInv, NEW k \in Call, HubReply(k)
    PROVE  AnswerInv'
<1>1. res[k] \in Success /\ (res[k] = "accepted" => cmd[k] \in applied)
  BY DEF HubReply, AnswerInv, CallsAreSound, Typed, CallType
<1>2. res[k] \in {"accepted", "idempotent"}
  BY <1>1 DEF Success
<1>3. card' = "expired" => card = "expired"
  BY DEF HubReply
<1> QED
  BY <1>1, <1>2, <1>3, TellKeeps DEF HubReply, glueVars, histVars

LEMMA Step_DeadlinePasses ==
    ASSUME AnswerInv, DeadlinePasses
    PROVE  AnswerInv'
<1>0. Typed /\ AskIsUntouched /\ TicketIsUnwon /\ WinnersAgree
      /\ RetiredIsShut /\ ExpiryIsClosed /\ CallsAreSound /\ CallType
  BY DEF AnswerInv, Typed
<1>1. Typed'
  BY <1>0 DEF DeadlinePasses, driverVars, glueVars, callVars, histVars, hubVars, Typed,
     CallType
<1>2. AskIsUntouched'
  BY <1>0 DEF DeadlinePasses, driverVars, glueVars, callVars, histVars, hubVars,
     AskIsUntouched, AskPending, Untouched
<1>3. TicketIsUnwon'
  BY <1>0 DEF DeadlinePasses, driverVars, glueVars, callVars, histVars, hubVars,
     TicketIsUnwon, NobodyWinning, Winning
<1>4. WinnersAgree'
  BY <1>0 DEF DeadlinePasses, driverVars, glueVars, callVars, histVars, hubVars,
     WinnersAgree, Winning
<1>5. RetiredIsShut'
  BY <1>0 DEF DeadlinePasses, driverVars, glueVars, callVars, histVars, hubVars,
     RetiredIsShut, AskPending, AskIsUntouched, Untouched
<1>6. ExpiryIsClosed'
  BY <1>0 DEF DeadlinePasses, driverVars, glueVars, callVars, histVars, hubVars,
     ExpiryIsClosed, Closed, NobodyWinning, Winning
<1>7. CallsAreSound'
  BY <1>0 DEF DeadlinePasses, driverVars, glueVars, callVars, histVars, hubVars,
     CallsAreSound, Closed, NobodyWinning, Winning, AskPending
<1> QED
  BY <1>1, <1>2, <1>3, <1>4, <1>5, <1>6, <1>7 DEF AnswerInv

LEMMA Step_SweepExpired ==
    ASSUME AnswerInv, SweepExpired
    PROVE  AnswerInv'
<1>0. Typed /\ AskIsUntouched /\ TicketIsUnwon /\ WinnersAgree
      /\ RetiredIsShut /\ ExpiryIsClosed /\ CallsAreSound /\ CallType
  BY DEF AnswerInv, Typed
<1>1. Typed'
  BY <1>0 DEF SweepExpired, driverVars, glueVars, callVars, hubVars, Typed, CallType
<1>2. AskIsUntouched'
  BY <1>0 DEF SweepExpired, driverVars, glueVars, callVars, hubVars, AskIsUntouched,
     AskPending, Untouched
<1>3. TicketIsUnwon'
  BY <1>0 DEF SweepExpired, driverVars, glueVars, callVars, hubVars, TicketIsUnwon,
     NobodyWinning, Winning
<1>4. WinnersAgree'
  BY <1>0 DEF SweepExpired, driverVars, glueVars, callVars, hubVars, WinnersAgree, Winning
<1>5. RetiredIsShut'
  BY <1>0 DEF SweepExpired, driverVars, glueVars, callVars, hubVars, RetiredIsShut,
     AskPending, AskIsUntouched, Untouched
<1>6. ExpiryIsClosed'
  <2>1. Closed'
    BY <1>0 DEF SweepExpired, callVars, TicketIsUnwon, Closed, NobodyWinning, Winning
  <2> QED
    BY <2>1 DEF ExpiryIsClosed
<1>7. CallsAreSound'
  BY <1>0 DEF SweepExpired, driverVars, glueVars, callVars, hubVars, CallsAreSound, Closed,
     NobodyWinning, Winning, AskPending
<1> QED
  BY <1>1, <1>2, <1>3, <1>4, <1>5, <1>6, <1>7 DEF AnswerInv

LEMMA Step_CommitBrokerObservation ==
    ASSUME AnswerInv, CommitBrokerObservation
    PROVE  AnswerInv'
<1>0. Typed /\ AskIsUntouched /\ TicketIsUnwon /\ WinnersAgree
      /\ RetiredIsShut /\ ExpiryIsClosed /\ CallsAreSound /\ CallType
  BY DEF AnswerInv, Typed
<1>1. Typed'
  BY <1>0 DEF CommitBrokerObservation, driverVars, callVars, histVars, hubVars, Typed,
     CallType, Event, Entity
<1>2. AskIsUntouched'
  BY <1>0 DEF CommitBrokerObservation, driverVars, callVars, histVars, hubVars,
     AskIsUntouched, AskPending, Untouched
<1>3. TicketIsUnwon'
  BY <1>0 DEF CommitBrokerObservation, driverVars, callVars, histVars, hubVars,
     TicketIsUnwon, NobodyWinning, Winning
<1>4. WinnersAgree'
  BY <1>0 DEF CommitBrokerObservation, driverVars, callVars, histVars, hubVars,
     WinnersAgree, Winning
<1>5. RetiredIsShut'
  BY <1>0 DEF CommitBrokerObservation, driverVars, callVars, histVars, hubVars,
     RetiredIsShut, AskPending, AskIsUntouched, Untouched
<1>6. ExpiryIsClosed'
  BY <1>0 DEF CommitBrokerObservation, driverVars, callVars, histVars, hubVars,
     ExpiryIsClosed, Closed, NobodyWinning, Winning
<1>7. CallsAreSound'
  BY <1>0 DEF CommitBrokerObservation, driverVars, callVars, histVars, hubVars,
     CallsAreSound, Closed, NobodyWinning, Winning, AskPending
<1> QED
  BY <1>1, <1>2, <1>3, <1>4, <1>5, <1>6, <1>7 DEF AnswerInv

LEMMA Step_HubApply ==
    ASSUME AnswerInv, HubApply
    PROVE  AnswerInv'
<1>0. Typed /\ AskIsUntouched /\ TicketIsUnwon /\ WinnersAgree
      /\ RetiredIsShut /\ ExpiryIsClosed /\ CallsAreSound /\ CallType
  BY DEF AnswerInv, Typed
<1>1. Typed'
  BY <1>0 DEF HubApply, CardAfter, Entity, driverVars, glueVars, brokerVars, callVars,
     histVars, Typed, CallType
<1>2. AskIsUntouched'
  BY <1>0 DEF HubApply, CardAfter, Entity, driverVars, glueVars, brokerVars, callVars,
     histVars, AskIsUntouched, AskPending, Untouched
<1>3. TicketIsUnwon'
  BY <1>0 DEF HubApply, CardAfter, Entity, driverVars, glueVars, brokerVars, callVars,
     histVars, TicketIsUnwon, NobodyWinning, Winning
<1>4. WinnersAgree'
  BY <1>0 DEF HubApply, CardAfter, Entity, driverVars, glueVars, brokerVars, callVars,
     histVars, WinnersAgree, Winning
<1>5. RetiredIsShut'
  BY <1>0 DEF HubApply, CardAfter, Entity, driverVars, glueVars, brokerVars, callVars,
     histVars, RetiredIsShut, AskPending, AskIsUntouched, Untouched
<1>6. ExpiryIsClosed'
  <2>1. UNCHANGED <<retired, handed, winner, at, obs>> /\ uplink # <<>> /\ uplink' = Tail(uplink)
    BY DEF HubApply, histVars, brokerVars, callVars
  <2>2. Closed => Closed'
    BY <2>1 DEF Closed, NobodyWinning, Winning
  <2>3. 1 \in 1..Len(uplink) /\ Head(uplink) = uplink[1] /\ Head(uplink) \in Event
    BY <2>1, <1>0 DEF Typed
  <2>4. card' = "expired" => card = "expired" \/ Head(uplink) = "expired"
    BY <2>3 DEF HubApply, CardAfter, Entity, Event
  <2>5. \A i \in 1..Len(uplink') : i + 1 \in 1..Len(uplink) /\ uplink'[i] = uplink[i + 1]
    BY <2>1, <1>0 DEF Typed
  <2> QED
    BY <1>0, <2>1, <2>2, <2>3, <2>4, <2>5 DEF ExpiryIsClosed
<1>7. CallsAreSound'
  BY <1>0 DEF HubApply, CardAfter, Entity, driverVars, glueVars, brokerVars, callVars,
     histVars, CallsAreSound, Closed, NobodyWinning, Winning, AskPending
<1> QED
  BY <1>1, <1>2, <1>3, <1>4, <1>5, <1>6, <1>7 DEF AnswerInv

LEMMA Step_HubInstanceEnds ==
    ASSUME AnswerInv, HubInstanceEnds
    PROVE  AnswerInv'
<1>0. Typed /\ AskIsUntouched /\ TicketIsUnwon /\ WinnersAgree
      /\ RetiredIsShut /\ ExpiryIsClosed /\ CallsAreSound /\ CallType
  BY DEF AnswerInv, Typed
<1>1. Typed'
  BY <1>0 DEF HubInstanceEnds, driverVars, glueVars, brokerVars, callVars, histVars, Typed,
     CallType
<1>2. AskIsUntouched'
  BY <1>0 DEF HubInstanceEnds, driverVars, glueVars, brokerVars, callVars, histVars,
     AskIsUntouched, AskPending, Untouched
<1>3. TicketIsUnwon'
  BY <1>0 DEF HubInstanceEnds, driverVars, glueVars, brokerVars, callVars, histVars,
     TicketIsUnwon, NobodyWinning, Winning
<1>4. WinnersAgree'
  BY <1>0 DEF HubInstanceEnds, driverVars, glueVars, brokerVars, callVars, histVars,
     WinnersAgree, Winning
<1>5. RetiredIsShut'
  BY <1>0 DEF HubInstanceEnds, driverVars, glueVars, brokerVars, callVars, histVars,
     RetiredIsShut, AskPending, AskIsUntouched, Untouched
<1>6. ExpiryIsClosed'
  BY <1>0 DEF HubInstanceEnds, driverVars, glueVars, brokerVars, callVars, histVars,
     ExpiryIsClosed, Closed, NobodyWinning, Winning
<1>7. CallsAreSound'
  BY <1>0 DEF HubInstanceEnds, driverVars, glueVars, brokerVars, callVars, histVars,
     CallsAreSound, Closed, NobodyWinning, Winning, AskPending
<1> QED
  BY <1>1, <1>2, <1>3, <1>4, <1>5, <1>6, <1>7 DEF AnswerInv

LEMMA Step_HubFence ==
    ASSUME AnswerInv, HubFence
    PROVE  AnswerInv'
<1>0. Typed /\ AskIsUntouched /\ TicketIsUnwon /\ WinnersAgree
      /\ RetiredIsShut /\ ExpiryIsClosed /\ CallsAreSound /\ CallType
  BY DEF AnswerInv, Typed
<1>1. Typed'
  BY <1>0 DEF HubFence, driverVars, glueVars, brokerVars, callVars, histVars, Typed,
     CallType
<1>2. AskIsUntouched'
  BY <1>0 DEF HubFence, driverVars, glueVars, brokerVars, callVars, histVars,
     AskIsUntouched, AskPending, Untouched
<1>3. TicketIsUnwon'
  BY <1>0 DEF HubFence, driverVars, glueVars, brokerVars, callVars, histVars, TicketIsUnwon,
     NobodyWinning, Winning
<1>4. WinnersAgree'
  BY <1>0 DEF HubFence, driverVars, glueVars, brokerVars, callVars, histVars, WinnersAgree,
     Winning
<1>5. RetiredIsShut'
  BY <1>0 DEF HubFence, driverVars, glueVars, brokerVars, callVars, histVars, RetiredIsShut,
     AskPending, AskIsUntouched, Untouched
<1>6. ExpiryIsClosed'
  BY <1>0 DEF HubFence, driverVars, glueVars, brokerVars, callVars, histVars,
     ExpiryIsClosed, Closed, NobodyWinning, Winning
<1>7. CallsAreSound'
  BY <1>0 DEF HubFence, driverVars, glueVars, brokerVars, callVars, histVars, CallsAreSound,
     Closed, NobodyWinning, Winning, AskPending
<1> QED
  BY <1>1, <1>2, <1>3, <1>4, <1>5, <1>6, <1>7 DEF AnswerInv

LEMMA Step_CancelForInstance ==
    ASSUME AnswerInv, CancelForInstance
    PROVE  AnswerInv'
<1>0. Typed /\ AskIsUntouched /\ TicketIsUnwon /\ WinnersAgree
      /\ RetiredIsShut /\ ExpiryIsClosed /\ CallsAreSound /\ CallType
  BY DEF AnswerInv, Typed
<1>1. Typed'
  BY <1>0 DEF CancelForInstance, driverVars, brokerVars, callVars, histVars, hubVars, Typed,
     CallType
<1>2. AskIsUntouched'
  BY <1>0 DEF CancelForInstance, driverVars, brokerVars, callVars, histVars, hubVars,
     AskIsUntouched, AskPending, Untouched
<1>3. TicketIsUnwon'
  BY <1>0 DEF CancelForInstance, driverVars, brokerVars, callVars, histVars, hubVars,
     TicketIsUnwon, NobodyWinning, Winning
<1>4. WinnersAgree'
  BY <1>0 DEF CancelForInstance, driverVars, brokerVars, callVars, histVars, hubVars,
     WinnersAgree, Winning
<1>5. RetiredIsShut'
  BY <1>0 DEF CancelForInstance, driverVars, brokerVars, callVars, histVars, hubVars,
     RetiredIsShut, AskPending, AskIsUntouched, Untouched
<1>6. ExpiryIsClosed'
  BY <1>0 DEF CancelForInstance, driverVars, brokerVars, callVars, histVars, hubVars,
     ExpiryIsClosed, Closed, NobodyWinning, Winning
<1>7. CallsAreSound'
  BY <1>0 DEF CancelForInstance, driverVars, brokerVars, callVars, histVars, hubVars,
     CallsAreSound, Closed, NobodyWinning, Winning, AskPending
<1> QED
  BY <1>1, <1>2, <1>3, <1>4, <1>5, <1>6, <1>7 DEF AnswerInv

LEMMA Step_CancelRetire ==
    ASSUME AnswerInv, CancelRetire
    PROVE  AnswerInv'
<1>0. Typed /\ AskIsUntouched /\ TicketIsUnwon /\ WinnersAgree
      /\ RetiredIsShut /\ ExpiryIsClosed /\ CallsAreSound /\ CallType
  BY DEF AnswerInv, Typed
<1>1. Typed'
  BY <1>0 DEF CancelRetire, driverVars, glueVars, callVars, hubVars, Typed, CallType
<1>2. AskIsUntouched'
  BY <1>0 DEF CancelRetire, driverVars, glueVars, callVars, hubVars, AskIsUntouched,
     AskPending, Untouched
<1>3. TicketIsUnwon'
  BY <1>0 DEF CancelRetire, driverVars, glueVars, callVars, hubVars, TicketIsUnwon,
     NobodyWinning, Winning
<1>4. WinnersAgree'
  BY <1>0 DEF CancelRetire, driverVars, glueVars, callVars, hubVars, WinnersAgree, Winning
<1>5. RetiredIsShut'
  BY <1>0 DEF CancelRetire, driverVars, glueVars, callVars, hubVars, RetiredIsShut,
     AskPending, AskIsUntouched, Untouched
<1>6. ExpiryIsClosed'
  BY <1>0 DEF CancelRetire, driverVars, glueVars, callVars, hubVars, ExpiryIsClosed, Closed,
     NobodyWinning, Winning
<1>7. CallsAreSound'
  BY <1>0 DEF CancelRetire, driverVars, glueVars, callVars, hubVars, CallsAreSound, Closed,
     NobodyWinning, Winning, AskPending
<1> QED
  BY <1>1, <1>2, <1>3, <1>4, <1>5, <1>6, <1>7 DEF AnswerInv

LEMMA Step_NodeCrash ==
    ASSUME AnswerInv, NodeCrash
    PROVE  AnswerInv'
<1>0. Typed /\ AskIsUntouched /\ TicketIsUnwon /\ WinnersAgree
      /\ RetiredIsShut /\ ExpiryIsClosed /\ CallsAreSound /\ CallType
  BY DEF AnswerInv, Typed
<1>1. Typed'
  BY <1>0 DEF NodeCrash, histVars, hubVars, Typed, CallType
<1>2. AskIsUntouched'
  BY <1>0 DEF NodeCrash, histVars, hubVars, AskIsUntouched, AskPending, Untouched
<1>3. TicketIsUnwon'
  BY <1>0 DEF NodeCrash, histVars, hubVars, TicketIsUnwon, NobodyWinning, Winning, AtNode
<1>4. WinnersAgree'
  BY <1>0 DEF NodeCrash, histVars, hubVars, WinnersAgree, Winning, AtNode
<1>5. RetiredIsShut'
  BY <1>0 DEF NodeCrash, histVars, hubVars, RetiredIsShut, AskPending, AskIsUntouched,
     Untouched
<1>6. ExpiryIsClosed'
  BY <1>0 DEF NodeCrash, histVars, hubVars, ExpiryIsClosed, Closed, NobodyWinning, Winning,
     AtNode
<1>7. CallsAreSound'
  <2> SUFFICES ASSUME NEW j \in Call PROVE CallsAreSound!(j)'
    BY DEF CallsAreSound
  <2>1. /\ at'[j] \notin AtNode /\ res'[j] = "none"
        /\ \/ at'[j] = "done" /\ told'[j] = "error"
           \/ UNCHANGED <<at[j], told[j], cmd[j]>>
    BY DEF NodeCrash, AtNode
  <2>2. UNCHANGED <<handed, applied, retired>> /\ winner' = None /\ ticket' = "none"
        /\ ~AskPending'
    BY DEF NodeCrash, histVars, AskPending
  <2>3. told[j] = "expired" => Closed'
    BY <1>0, <2>2 DEF CallsAreSound, Closed, NodeCrash, NobodyWinning, Winning, AtNode
  <2> QED
    BY <1>0, <2>1, <2>2, <2>3 DEF CallsAreSound, AtNode
<1> QED
  BY <1>1, <1>2, <1>3, <1>4, <1>5, <1>6, <1>7 DEF AnswerInv

-----------------------------------------------------------------------------
LEMMA InitInv == Init => AnswerInv
  BY NoneIsNoCommand
     DEF Init, AnswerInv, Typed, CallType, AskIsUntouched, AskPending, Untouched, TicketIsUnwon,
         WinnersAgree, Winning, RetiredIsShut, ExpiryIsClosed, CallsAreSound, AtNode, Success, Call

LEMMA StutterInv == AnswerInv /\ UNCHANGED vars => AnswerInv'
<1> SUFFICES ASSUME AnswerInv, UNCHANGED vars PROVE AnswerInv'
  OBVIOUS
<1>0. UNCHANGED <<native, emitted, mapped, ticket, winner, obs, cmd, at, res, told,
                  handed, applied, retired, uplink, card>>
  BY DEF vars, driverVars, glueVars, brokerVars, callVars, histVars, hubVars
<1> QED
  BY <1>0 DEF AnswerInv, Typed, CallType, AskIsUntouched, AskPending, Untouched, TicketIsUnwon,
     NobodyWinning, Winning, WinnersAgree, RetiredIsShut, ExpiryIsClosed, Closed, CallsAreSound

LEMMA NextInv == AnswerInv /\ [Next]_vars => AnswerInv'
<1> SUFFICES ASSUME AnswerInv, [Next]_vars PROVE AnswerInv'
  OBVIOUS
<1>1. CASE UNCHANGED vars
  BY <1>1, StutterInv
<1>2. ASSUME NEW e \in Entity, DriverClear(e) PROVE AnswerInv'
  BY <1>2, Step_DriverClear
<1>3. CASE PumpStep
  BY <1>3, Step_IngestRequested, Step_IngestEntity, Step_IngestRetire, Step_IngestPut DEF PumpStep
<1>4. ASSUME NEW k \in Call, NEW c \in Command, HubPost(k, c) PROVE AnswerInv'
  BY <1>4, Step_HubPost
<1>5. ASSUME NEW k \in Call, HubGivesUp(k) \/ CallStep(k) PROVE AnswerInv'
  BY <1>5, Step_HubGivesUp, Step_NodeLookup, Step_BrokerLost, Step_BrokerWin, Step_OwnerPersist,
     Step_DriverExecute, Step_NodeDrop, Step_HubReply DEF CallStep
<1>6. CASE DeadlinePasses \/ SweepExpired \/ CommitBrokerObservation \/ HubApply \/ HubInstanceEnds
  BY <1>6, Step_DeadlinePasses, Step_SweepExpired, Step_CommitBrokerObservation, Step_HubApply,
     Step_HubInstanceEnds
<1>7. CASE DriverAsk \/ HubFence \/ CancelForInstance \/ CancelRetire \/ NodeCrash
  BY <1>7, Step_DriverAsk, Step_HubFence, Step_CancelForInstance, Step_CancelRetire, Step_NodeCrash
<1>8. {"resolved", "invalidated"} \subseteq Entity
  BY DEF Entity
<1> QED
  BY <1>1, <1>2, <1>3, <1>4, <1>5, <1>6, <1>7, <1>8 DEF Next

LEMMA Inductive == Spec => []AnswerInv
  BY InitInv, NextInv, PTL DEF Spec

-----------------------------------------------------------------------------
(* However many calls race, are retried or are cut by a restart, the driver  *)
(* is given at most one answer (answer_for and apply_answer).                *)
THEOREM OneAnswer == Spec => []OneAnswerHanded
<1>1. AnswerInv => OneAnswerHanded
  BY DEF AnswerInv, WinnersAgree, OneAnswerHanded
<1> QED
  BY <1>1, Inductive, PTL

(* What callers are told is true of what the driver was given: accepted,     *)
(* superseded and expired (InteractionRuntime::answer's replies).            *)
THEOREM TrueReplies == Spec => []RepliesAreTrue
<1>1. AnswerInv => RepliesAreTrue
  BY DEF AnswerInv, CallsAreSound, Closed, RepliesAreTrue
<1> QED
  BY <1>1, Inductive, PTL

(* A card the Hub shows as expired is one whose driver was given no answer   *)
(* (sweep_expired, commit_broker_observation, apply_interaction_event).      *)
THEOREM ExpiredStaysUnanswered == Spec => []ExpiredCardUnanswered
<1>1. AnswerInv => ExpiredCardUnanswered
  BY DEF AnswerInv, ExpiryIsClosed, Closed, ExpiredCardUnanswered
<1> QED
  BY <1>1, Inductive, PTL

(* A ticket that was retired, expired or found expired is not won by any     *)
(* later step (retire, expire_one and the deadline check of answer_for).     *)
THEOREM RetiredNeverWon == Spec => NoWinAfterRetirement
<1>1. ASSUME AnswerInv, [Next]_vars PROVE [retired => winner' \in {winner, None}]_vars
  <2> SUFFICES ASSUME Next, retired PROVE winner' \in {winner, None}
    BY <1>1
  <2>1. ticket # "open"
    BY <1>1 DEF AnswerInv, RetiredIsShut
  <2>2. winner' # winner => (\E k \in Call : BrokerWin(k)) \/ NodeCrash
    BY DEF Next, PumpStep, CallStep, DriverAsk, DriverClear, IngestRequested, IngestEntity,
       IngestRetire, IngestPut, HubPost, HubGivesUp, NodeLookup, BrokerLost, OwnerPersist,
       DriverExecute, NodeDrop, HubReply, DeadlinePasses, SweepExpired, CommitBrokerObservation,
       HubApply, HubInstanceEnds, HubFence, CancelForInstance, CancelRetire, brokerVars
  <2> QED
    BY <2>1, <2>2 DEF BrokerWin, NodeCrash
<1> QED
  BY <1>1, Inductive, PTL DEF Spec, NoWinAfterRetirement

-----------------------------------------------------------------------------
(* The rest of the types: rows, ticket, card and fence.                      *)

RowsTyped ==
    /\ pump \in [at : {"idle", "retire", "put"}, row : {"none", "pending"} \cup Entity]
    /\ pend \in {"none", "live", "frozen"}
    /\ durable \in {"none", "pending", "expired"} \cup Entity
    /\ ticket \in {"none", "open", "due"}
    /\ card \in {"none", "pending", "expired", "superseded"} \cup Entity
    /\ fence \in {"none", "raised", "cancel", "done"}

FlagsTyped ==
    /\ native \in {"quiet", "asking", "answered", "over"}
    /\ mapped \in BOOLEAN /\ ended \in BOOLEAN /\ retired \in BOOLEAN
    /\ applied \in SUBSET Command

LEMMA FlagsNext == AnswerInv /\ FlagsTyped /\ [Next]_vars => FlagsTyped'
<1> SUFFICES ASSUME AnswerInv, FlagsTyped, [Next]_vars PROVE FlagsTyped'
  OBVIOUS
<1> USE DEF FlagsTyped
<1>1. CASE UNCHANGED vars
  BY <1>1 DEF vars, driverVars, glueVars, histVars, hubVars
<1>2. CASE DriverAsk \/ \E e \in Entity : DriverClear(e)
  BY <1>2 DEF DriverAsk, DriverClear, glueVars, histVars, hubVars
<1>3. CASE PumpStep
  BY <1>3 DEF PumpStep, IngestRequested, IngestEntity, IngestRetire, IngestPut, driverVars,
     glueVars, histVars, hubVars
<1>4. ASSUME NEW k \in Call, DriverExecute(k) PROVE FlagsTyped'
  <2>1. cmd[k] \in Command
    BY <1>4 DEF DriverExecute, AnswerInv, Typed, CallType, CallsAreSound, AtNode
  <2> QED
    BY <1>4, <2>1 DEF DriverExecute, glueVars, hubVars
<1>5. ASSUME NEW k \in Call,
             \/ \E c \in Command : HubPost(k, c)
             \/ HubGivesUp(k) \/ NodeLookup(k) \/ BrokerLost(k) \/ BrokerWin(k)
             \/ OwnerPersist(k) \/ NodeDrop(k) \/ HubReply(k)
      PROVE  FlagsTyped'
  BY <1>5 DEF HubPost, HubGivesUp, NodeLookup, BrokerLost, BrokerWin, OwnerPersist, NodeDrop,
     HubReply, driverVars, glueVars, histVars, hubVars
<1>6. CASE DeadlinePasses \/ SweepExpired \/ CommitBrokerObservation \/ HubApply \/ HubInstanceEnds
  BY <1>6 DEF DeadlinePasses, SweepExpired, CommitBrokerObservation, HubApply, HubInstanceEnds,
     driverVars, glueVars, histVars, hubVars
<1>7. CASE HubFence \/ CancelForInstance \/ CancelRetire \/ NodeCrash
  BY <1>7 DEF HubFence, CancelForInstance, CancelRetire, NodeCrash, driverVars, glueVars,
     histVars, hubVars
<1>8. {"resolved", "invalidated"} \subseteq Entity
  BY DEF Entity
<1> QED
  BY <1>1, <1>2, <1>3, <1>4, <1>5, <1>6, <1>7, <1>8 DEF Next, CallStep

LEMMA RowsNext == AnswerInv /\ RowsTyped /\ [Next]_vars => RowsTyped'
<1> SUFFICES ASSUME AnswerInv, RowsTyped, [Next]_vars PROVE RowsTyped'
  OBVIOUS
<1> USE DEF RowsTyped
<1>1. CASE UNCHANGED vars
  BY <1>1 DEF vars, glueVars, brokerVars, hubVars
<1>2. CASE DriverAsk \/ \E e \in Entity : DriverClear(e)
  BY <1>2 DEF DriverAsk, DriverClear, glueVars, brokerVars, hubVars
<1>3. CASE PumpStep
  BY <1>3 DEF PumpStep, IngestRequested, IngestEntity, IngestRetire, IngestPut, Idle,
     glueVars, brokerVars, hubVars
<1>4. ASSUME NEW k \in Call,
             \/ \E c \in Command : HubPost(k, c)
             \/ HubGivesUp(k) \/ NodeLookup(k) \/ BrokerLost(k) \/ BrokerWin(k)
             \/ OwnerPersist(k) \/ DriverExecute(k) \/ NodeDrop(k) \/ HubReply(k)
      PROVE  RowsTyped'
  BY <1>4 DEF HubPost, HubGivesUp, NodeLookup, BrokerLost, BrokerWin, OwnerPersist, DriverExecute,
     NodeDrop, HubReply, Entity, glueVars, brokerVars, hubVars
<1>5. CASE HubApply
  <2>1. Head(uplink) \in Event
    BY <1>5 DEF HubApply, AnswerInv, Typed
  <2>2. card' \in {"none", "pending", "expired", "superseded"} \cup Entity
    BY <1>5, <2>1 DEF HubApply, CardAfter, Event, Entity
  <2> QED
    BY <1>5, <2>2 DEF HubApply, glueVars, brokerVars
<1>6. CASE DeadlinePasses \/ SweepExpired \/ CommitBrokerObservation \/ HubInstanceEnds
  BY <1>6 DEF DeadlinePasses, SweepExpired, CommitBrokerObservation, HubInstanceEnds, Entity,
     glueVars, brokerVars, hubVars
<1>7. CASE HubFence \/ CancelForInstance \/ CancelRetire \/ NodeCrash
  BY <1>7 DEF HubFence, CancelForInstance, CancelRetire, NodeCrash, Idle, glueVars, brokerVars,
     hubVars
<1>8. {"resolved", "invalidated"} \subseteq Entity
  BY DEF Entity
<1> QED
  BY <1>1, <1>2, <1>3, <1>4, <1>5, <1>6, <1>7, <1>8 DEF Next, CallStep

\* Only a restart of the Node counts one.
LEMMA CrashesNext == crashes \in Nat /\ [Next]_vars => crashes' \in Nat
BY DEF Next, vars, PumpStep, CallStep, DriverAsk, DriverClear, IngestRequested, IngestEntity,
   IngestRetire, IngestPut, HubPost, HubGivesUp, NodeLookup, BrokerLost, BrokerWin, OwnerPersist,
   DriverExecute, NodeDrop, HubReply, DeadlinePasses, SweepExpired, CommitBrokerObservation,
   HubApply, HubInstanceEnds, HubFence, CancelForInstance, CancelRetire, NodeCrash

TypesInv ==
    /\ RowsTyped
    /\ FlagsTyped
    /\ crashes \in Nat

LEMMA TypesInit == Init => TypesInv
<1> SUFFICES ASSUME Init PROVE TypesInv
  OBVIOUS
<1>1. RowsTyped
  BY DEF Init, RowsTyped, Idle
<1>2. FlagsTyped
  BY DEF Init, FlagsTyped
<1>3. crashes \in Nat
  BY DEF Init
<1> QED
  BY <1>1, <1>2, <1>3 DEF TypesInv

LEMMA TypesNext == AnswerInv /\ TypesInv /\ [Next]_vars => TypesInv'
BY RowsNext, FlagsNext, CrashesNext DEF TypesInv

(* Rows, tickets, calls and cards are only ever in their own states; the     *)
(* durable row and the card never hold the name of an event                  *)
(* (commit_broker_observation, apply_interaction_event).                     *)
THEOREM InteractionTypeCorrect == Spec => []TypeOK
<1>1. AnswerInv /\ TypesInv => TypeOK
  BY DEF TypeOK, AnswerInv, Typed, CallType, TypesInv, RowsTyped, FlagsTyped
<1>2. Init => TypesInv
  BY TypesInit
<1>3. AnswerInv /\ TypesInv /\ [Next]_vars => TypesInv'
  BY TypesNext
<1>4. Spec => []AnswerInv
  BY Inductive
<1> QED
  BY <1>1, <1>2, <1>3, <1>4, PTL DEF Spec

-----------------------------------------------------------------------------
(* What CardSettles rests on.  Until a crash or a fence, a card that waits   *)
(* has something left that will settle it; each step that takes one such     *)
(* thing away puts the next in its place.  The request is the first event of *)
(* its journal (RequestLeads), so whatever settles it is applied behind it.  *)

SettlesOnWay == \E i \in 1..Len(uplink) : uplink[i] # "requested"

\* The broker or a call still has the interaction, or a forward failed.
Forlorn == winner # None /\ winner \notin applied
Driven == ticket # "none" \/ ~NobodyWinning \/ Forlorn \/ obs # <<>>

Waits == card \in {"none", "pending"}

AskStands == obs = <<>> /\ (native = "quiet" \/ (emitted # <<>> /\ Head(emitted) = "requested"))

AskComesFirst == ~mapped => AskStands /\ uplink = <<>> /\ card = "none" /\ pump = Idle

RequestLeads ==
    /\ \A i \in 1..Len(uplink) : uplink[i] = "requested" => i = 1 /\ card = "none"
    /\ mapped /\ card = "none" => uplink # <<>> /\ Head(uplink) = "requested"

ClearIsCarried == pump.at = "retire" /\ Waits => SettlesOnWay

CardIsOwned == fence = "none" /\ mapped /\ Waits => Driven \/ SettlesOnWay

AppliedIsHanded == handed = <<>> => applied = {}

OwnedInv ==
    /\ AppliedIsHanded
    /\ crashes = 0 => AskComesFirst /\ RequestLeads /\ ClearIsCarried /\ CardIsOwned

\* A step that leaves the journal's way to the Hub alone.
LEMMA OwnedFrame ==
    ASSUME OwnedInv, UNCHANGED <<mapped, uplink, crashes>>, AppliedIsHanded',
           card' = card \/ (card # "none" /\ ~Waits'),
           pump' = pump \/ (mapped /\ pump'.at # "retire"),
           crashes = 0 /\ ~mapped => AskStands',
           crashes = 0 /\ fence' = "none" => fence = "none" /\ (Driven /\ Waits => Driven' \/ SettlesOnWay)
    PROVE  OwnedInv'
<1> SUFFICES ASSUME crashes = 0
             PROVE  AskComesFirst' /\ RequestLeads' /\ ClearIsCarried' /\ CardIsOwned'
  BY DEF OwnedInv
<1>0. AskComesFirst /\ RequestLeads /\ ClearIsCarried /\ CardIsOwned
  BY DEF OwnedInv
<1>1. AskComesFirst'
  BY <1>0 DEF AskComesFirst
<1>2. RequestLeads'
  BY <1>0 DEF RequestLeads, Waits
<1>3. Waits' => Waits /\ card' = card
  BY DEF Waits
<1>4. SettlesOnWay' <=> SettlesOnWay
  BY DEF SettlesOnWay
<1>5. ClearIsCarried'
  BY <1>0, <1>3, <1>4 DEF ClearIsCarried
<1>6. CardIsOwned'
  BY <1>0, <1>3, <1>4 DEF CardIsOwned
<1> QED BY <1>1, <1>2, <1>5, <1>6

\* A step that journals something that settles the card.
LEMMA OwnedJournals ==
    ASSUME Typed, OwnedInv, NEW e \in Event \ {"requested"}, uplink' = Append(uplink, e),
           mapped, UNCHANGED <<mapped, card, crashes>>, AppliedIsHanded'
    PROVE  OwnedInv'
<1>0. uplink \in Seq(Event) /\ e \in Event
  BY DEF Typed
<1>1. /\ Len(uplink') = Len(uplink) + 1 /\ Len(uplink) \in Nat
      /\ uplink'[Len(uplink) + 1] = e
      /\ \A i \in 1..Len(uplink) : uplink'[i] = uplink[i]
  BY <1>0
<1>2. SettlesOnWay'
  BY <1>1 DEF SettlesOnWay
<1> SUFFICES ASSUME crashes = 0
             PROVE  AskComesFirst' /\ RequestLeads' /\ ClearIsCarried' /\ CardIsOwned'
  BY DEF OwnedInv
<1>3. RequestLeads
  BY DEF OwnedInv
<1>4. \A i \in 1..Len(uplink') : uplink'[i] = "requested" => i \in 1..Len(uplink)
  BY <1>1
<1>5. card = "none" => uplink' # <<>> /\ Head(uplink') = "requested"
  BY <1>0, <1>1, <1>3 DEF RequestLeads
<1>6. RequestLeads'
  BY <1>1, <1>3, <1>4, <1>5 DEF RequestLeads
<1> QED BY <1>2, <1>6 DEF AskComesFirst, ClearIsCarried, CardIsOwned

LEMMA OwnedApply ==
    ASSUME Typed, OwnedInv, HubApply
    PROVE  OwnedInv'
<1>0. uplink \in Seq(Event) /\ uplink # <<>> /\ uplink' = Tail(uplink) /\ Head(uplink) \in Event
  BY DEF Typed, HubApply
<1>1. /\ Len(uplink) \in Nat \ {0} /\ Len(uplink') = Len(uplink) - 1
      /\ uplink[1] = Head(uplink)
      /\ \A i \in 1..Len(uplink) - 1 : uplink'[i] = uplink[i + 1]
  BY <1>0
<1>2. UNCHANGED <<mapped, pump, crashes, fence, handed, applied, winner, ticket, obs, at>>
  BY DEF HubApply, glueVars, brokerVars, histVars, callVars
<1>3. AppliedIsHanded'
  BY <1>2 DEF OwnedInv, AppliedIsHanded
<1> SUFFICES ASSUME crashes = 0
             PROVE  AskComesFirst' /\ RequestLeads' /\ ClearIsCarried' /\ CardIsOwned'
  BY <1>2, <1>3 DEF OwnedInv
<1>4. AskComesFirst /\ RequestLeads /\ ClearIsCarried /\ CardIsOwned /\ mapped
  BY <1>0 DEF OwnedInv, AskComesFirst
<1>5. card' # "none"
  <2>1. CASE card = "none"
    BY <1>4, <2>1 DEF RequestLeads, HubApply, CardAfter, Entity
  <2>2. CASE card # "none"
    BY <1>0, <2>2 DEF HubApply, CardAfter, Entity, Event
  <2> QED BY <2>1, <2>2
<1>6. \A i \in 1..Len(uplink') : uplink'[i] # "requested"
  BY <1>1, <1>4 DEF RequestLeads
<1>7. RequestLeads' /\ AskComesFirst'
  BY <1>2, <1>4, <1>5, <1>6 DEF RequestLeads, AskComesFirst
\* What settles the card is behind the event applied here, or is that event.
<1>8. Waits' => Waits
  BY <1>0, <1>5 DEF Waits, HubApply, CardAfter, Entity, Event
<1>9. ASSUME Waits', SettlesOnWay PROVE SettlesOnWay'
  <2>1. Head(uplink) = "requested"
    <3>1. card' = "pending"
      BY <1>5, <1>9 DEF Waits
    <3>2. CASE card = "none"
      BY <1>4, <3>2 DEF RequestLeads
    <3>3. CASE card # "none"
      <4>1. Head(uplink) # "requested" => CardAfter(Head(uplink)) # "pending"
        BY <1>0, <1>8, <1>9, <3>3 DEF CardAfter, Entity, Event, Waits
      <4> QED BY <3>1, <4>1 DEF HubApply
    <3> QED BY <3>2, <3>3
  <2>2. PICK i \in 1..Len(uplink) : uplink[i] # "requested"
    BY <1>9 DEF SettlesOnWay
  <2>3. i # 1 /\ i - 1 \in 1..Len(uplink') /\ i - 1 \in 1..Len(uplink) - 1 /\ (i - 1) + 1 = i
    BY <1>1, <2>1, <2>2
  <2>4. uplink'[i - 1] # "requested"
    BY <1>1, <2>2, <2>3
  <2> QED BY <2>3, <2>4 DEF SettlesOnWay
<1>10. Driven => Driven'
  BY <1>2 DEF Driven, Forlorn, NobodyWinning, Winning
<1>11. ClearIsCarried'
  BY <1>2, <1>4, <1>8, <1>9 DEF ClearIsCarried
<1>12. CardIsOwned'
  BY <1>2, <1>4, <1>8, <1>9, <1>10 DEF CardIsOwned
<1> QED BY <1>7, <1>11, <1>12

\* Until a crash nobody touches a request that is not in the maps.
LEMMA UnmappedIsUntouched ==
    ASSUME AnswerInv, AskComesFirst, ~mapped
    PROVE  /\ ticket = "none" /\ winner = None /\ handed = <<>> /\ obs = <<>>
           /\ \A k \in Call : at[k] \in {"idle", "sent", "done"}
<1>1. AskPending
  <2>1. CASE native = "quiet"
    BY <2>1 DEF AskPending
  <2>2. CASE emitted # <<>> /\ Head(emitted) = "requested"
    <3>1. emitted \in Seq(Entity \cup {"requested"})
      BY DEF AnswerInv, Typed
    <3>2. 1 \in 1..Len(emitted) /\ emitted[1] = "requested"
      BY <2>2, <3>1
    <3> QED BY <3>2 DEF AskPending
  <2> QED BY <2>1, <2>2 DEF AskComesFirst, AskStands
<1> QED BY <1>1 DEF AnswerInv, AskIsUntouched, Untouched, AskComesFirst, AskStands

\* The steps of call k that leave the winning calls and the broker alone, or
\* end the one that was winning without an answer.
LEMMA OwnedCall ==
    ASSUME AnswerInv, OwnedInv, NEW k \in Call,
           UNCHANGED <<driverVars, pump, mapped, brokerVars, handed, applied, uplink, fence, crashes>>,
           card' = card \/ (card # "none" /\ ~Waits'),
           at' \in [Call -> AtNode \cup {"idle", "done"}],
           \A j \in Call \ {k} : at'[j] = at[j]
    PROVE  OwnedInv'
<1>1. AppliedIsHanded'
  BY DEF OwnedInv, AppliedIsHanded
<1>2. crashes = 0 /\ ~mapped => AskStands'
  BY DEF OwnedInv, AskComesFirst, AskStands, driverVars, brokerVars
<1>3. Driven => Driven'
  <2>1. CASE ~Winning(k) \/ ticket # "none" \/ Forlorn \/ obs # <<>>
    BY <2>1 DEF Driven, Forlorn, NobodyWinning, Winning, brokerVars
  <2>2. CASE Winning(k)
    <3>1. winner = cmd[k] /\ cmd[k] # None /\ handed = <<>>
      BY <2>2 DEF AnswerInv, WinnersAgree, Winning, CallsAreSound, AtNode
    <3>2. Forlorn'
      BY <3>1 DEF OwnedInv, AppliedIsHanded, Forlorn, brokerVars
    <3> QED BY <3>2 DEF Driven
  <2> QED BY <2>1, <2>2
<1> QED BY <1>1, <1>2, <1>3, OwnedFrame

LEMMA OwnedExecute ==
    ASSUME AnswerInv, OwnedInv, NEW k \in Call, DriverExecute(k)
    PROVE  OwnedInv'
<1>0. /\ Typed /\ CallType /\ at[k] = "persisted" /\ Winning(k)
      /\ UNCHANGED <<pump, mapped, winner, uplink, card, fence, crashes>>
      /\ handed' = Append(handed, cmd[k])
  BY DEF AnswerInv, Typed, DriverExecute, Winning, glueVars, hubVars
<1>1. winner = cmd[k] /\ cmd[k] # None /\ handed = <<>>
  BY <1>0 DEF AnswerInv, WinnersAgree, CallsAreSound, AtNode
<1>2. AppliedIsHanded'
  BY <1>0, <1>1 DEF AppliedIsHanded
<1>3. crashes = 0 /\ ~mapped => AskStands'
  BY <1>0, UnmappedIsUntouched DEF OwnedInv
<1>4. Driven'
  <2>1. CASE obs' = Append(obs, "answered")
    <3>1. obs \in Seq({"answered", "expired"})
      BY <1>0 DEF Typed
    <3>2. obs' # <<>>
      BY <2>1, <3>1
    <3> QED BY <3>2 DEF Driven
  <2>2. CASE applied' = applied
    BY <1>0, <1>1, <2>2 DEF Driven, Forlorn, OwnedInv, AppliedIsHanded
  <2> QED BY <2>1, <2>2 DEF DriverExecute
<1> QED BY <1>0, <1>2, <1>3, <1>4, OwnedFrame

LEMMA OwnedDriver ==
    ASSUME AnswerInv, OwnedInv, DriverAsk \/ \E e \in Entity : DriverClear(e)
    PROVE  OwnedInv'
<1>0. /\ UNCHANGED <<pump, mapped, ticket, winner, obs, at, handed, applied, uplink, card, fence, crashes>>
      /\ emitted \in Seq(Entity \cup {"requested"})
  BY DEF AnswerInv, Typed, DriverAsk, DriverClear, glueVars, brokerVars, callVars, histVars, hubVars
<1>1. AppliedIsHanded' /\ (Driven => Driven')
  BY <1>0 DEF OwnedInv, AppliedIsHanded, Driven, Forlorn, NobodyWinning, Winning
<1>2. ASSUME crashes = 0, ~mapped PROVE AskStands'
  <2>1. AskStands
    BY <1>2 DEF OwnedInv, AskComesFirst
  <2>2. CASE DriverAsk
    <3>1. emitted' = <<"requested">>
      BY <2>2 DEF DriverAsk
    <3>2. emitted' # <<>> /\ Head(emitted') = "requested"
      BY <3>1
    <3> QED BY <1>0, <2>1, <3>2 DEF AskStands
  <2>3. ASSUME NEW e \in Entity, DriverClear(e) PROVE AskStands'
    <3>1. emitted # <<>> /\ Head(emitted) = "requested" /\ emitted' = Append(emitted, e)
      BY <2>1, <2>3 DEF DriverClear, AskStands
    <3>2. emitted' # <<>> /\ Head(emitted') = Head(emitted)
      BY <1>0, <3>1
    <3> QED BY <1>0, <2>1, <3>1, <3>2 DEF AskStands
  <2> QED BY <2>2, <2>3
<1> QED BY <1>0, <1>1, <1>2, OwnedFrame

LEMMA OwnedPump ==
    ASSUME AnswerInv, TypesInv, OwnedInv, PumpStep
    PROVE  OwnedInv'
<1>0. /\ Typed /\ UNCHANGED <<native, winner, obs, at, handed, applied, card, fence, crashes>>
      /\ emitted \in Seq(Entity \cup {"requested"}) /\ uplink \in Seq(Event)
  BY DEF AnswerInv, Typed, PumpStep, IngestRequested, IngestEntity, IngestRetire, IngestPut,
     driverVars, brokerVars, callVars, histVars, hubVars
<1>1. AppliedIsHanded'
  BY <1>0 DEF OwnedInv, AppliedIsHanded
<1>2. CASE IngestRequested
  <2> SUFFICES ASSUME crashes = 0
               PROVE  AskComesFirst' /\ RequestLeads' /\ ClearIsCarried' /\ CardIsOwned'
    BY <1>0, <1>1 DEF OwnedInv
  <2>1. 1 \in 1..Len(emitted) /\ emitted[1] = "requested"
    BY <1>0, <1>2 DEF IngestRequested, PumpTakes
  <2>2. mapped = FALSE
    BY <2>1 DEF AnswerInv, AskIsUntouched, AskPending, Untouched
  <2>3. uplink' = <<"requested">> /\ card' = "none"
    BY <1>0, <1>2, <2>2 DEF OwnedInv, AskComesFirst, IngestRequested, PumpTakes
  <2>4. Len(uplink') = 1 /\ uplink' # <<>> /\ Head(uplink') = "requested"
    BY <2>3
  <2>5. RequestLeads'
    BY <2>3, <2>4 DEF RequestLeads
  <2>6. AskComesFirst' /\ ClearIsCarried'
    BY <1>2 DEF IngestRequested, AskComesFirst, ClearIsCarried
  <2>7. Driven'
    BY <1>2 DEF IngestRequested, Driven
  <2> QED BY <2>5, <2>6, <2>7 DEF CardIsOwned
<1>3. ASSUME NEW e \in Entity, IngestEntity(e) PROVE OwnedInv'
  <2>1. e \in Event \ {"requested"} /\ uplink' = Append(uplink, e) /\ mapped' = mapped
    BY <1>3 DEF IngestEntity, PumpTakes, Event, Entity
  <2>2. ASSUME crashes = 0 PROVE mapped
    <3>1. emitted # <<>> /\ Head(emitted) = e /\ e # "requested"
      BY <1>3 DEF IngestEntity, PumpTakes, Entity
    <3>2. native # "quiet"
      BY <3>1 DEF AnswerInv, AskIsUntouched
    <3> QED BY <2>2, <3>1, <3>2 DEF OwnedInv, AskComesFirst, AskStands
  <2>3. CASE crashes = 0
    BY <1>0, <1>1, <2>1, <2>2, <2>3, OwnedJournals
  <2>4. CASE crashes # 0
    BY <1>0, <1>1, <2>4 DEF OwnedInv
  <2> QED BY <2>3, <2>4
<1>4. CASE IngestRetire \/ IngestPut
  <2>1. /\ UNCHANGED <<mapped, uplink, emitted>> /\ pump'.at # "retire" /\ pump # Idle
    BY <1>4 DEF TypesInv, RowsTyped, IngestRetire, IngestPut, Idle, glueVars, driverVars
  <2>2. ASSUME crashes = 0 PROVE mapped
    BY <2>1, <2>2 DEF OwnedInv, AskComesFirst
  <2>3. crashes = 0 /\ Driven /\ Waits => Driven' \/ SettlesOnWay
    <3>1. CASE IngestPut
      BY <1>0, <3>1 DEF IngestPut, brokerVars, Driven, Forlorn, NobodyWinning, Winning
    <3>2. CASE IngestRetire
      BY <3>2 DEF IngestRetire, OwnedInv, ClearIsCarried
    <3> QED BY <1>4, <3>1, <3>2
  <2>4. CASE crashes = 0
    BY <1>0, <1>1, <2>1, <2>2, <2>3, <2>4, OwnedFrame
  <2>5. CASE crashes # 0
    BY <1>0, <1>1, <2>5 DEF OwnedInv
  <2> QED BY <2>4, <2>5
<1> QED BY <1>2, <1>3, <1>4 DEF PumpStep

LEMMA OwnedBroker ==
    ASSUME AnswerInv, OwnedInv, DeadlinePasses \/ SweepExpired \/ CommitBrokerObservation
    PROVE  OwnedInv'
<1>0. /\ Typed /\ UNCHANGED <<driverVars, pump, mapped, winner, at, handed, applied, card, fence, crashes>>
      /\ obs \in Seq({"answered", "expired"})
  BY DEF AnswerInv, Typed, DeadlinePasses, SweepExpired, CommitBrokerObservation, glueVars,
     callVars, histVars, hubVars
<1>1. AppliedIsHanded'
  BY <1>0 DEF OwnedInv, AppliedIsHanded
<1>2. CASE DeadlinePasses \/ SweepExpired
  <2>1. uplink' = uplink /\ ticket # "none"
    BY <1>2 DEF DeadlinePasses, SweepExpired
  <2>2. crashes = 0 => mapped
    BY <2>1, UnmappedIsUntouched DEF OwnedInv
  <2>3. Driven'
    <3>1. CASE DeadlinePasses
      BY <3>1 DEF DeadlinePasses, Driven
    <3>2. CASE SweepExpired
      <4>1. obs' # <<>>
        BY <1>0, <3>2 DEF SweepExpired
      <4> QED BY <4>1 DEF Driven
    <3> QED BY <1>2, <3>1, <3>2
  <2> QED BY <1>0, <1>1, <2>1, <2>2, <2>3, OwnedFrame
<1>3. CASE CommitBrokerObservation
  <2>1. Head(obs) \in Event \ {"requested"} /\ uplink' = Append(uplink, Head(obs)) /\ obs # <<>>
    BY <1>0, <1>3 DEF CommitBrokerObservation, Event, Entity
  <2>2. CASE crashes = 0
    <3>1. mapped
      BY <2>1, <2>2 DEF OwnedInv, AskComesFirst, AskStands
    <3> QED BY <1>0, <1>1, <2>1, <3>1, OwnedJournals
  <2>3. CASE crashes # 0
    BY <1>0, <1>1, <2>3 DEF OwnedInv
  <2> QED BY <2>2, <2>3
<1> QED BY <1>2, <1>3

LEMMA OwnedHub ==
    ASSUME AnswerInv, TypesInv, OwnedInv,
           HubInstanceEnds \/ HubFence \/ CancelForInstance \/ CancelRetire \/ NodeCrash
    PROVE  OwnedInv'
<1>1. AppliedIsHanded'
  BY DEF OwnedInv, AppliedIsHanded, HubInstanceEnds, HubFence, CancelForInstance, CancelRetire,
     NodeCrash, histVars
<1>2. CASE HubInstanceEnds \/ HubFence \/ CancelForInstance \/ CancelRetire
  <2>1. /\ UNCHANGED <<driverVars, pump, mapped, obs, uplink, crashes>>
        /\ card' = card \/ (card # "none" /\ ~Waits')
    BY <1>2 DEF HubInstanceEnds, HubFence, CancelForInstance, CancelRetire, glueVars, brokerVars,
       hubVars, Waits
  <2>2. crashes = 0 /\ ~mapped => AskStands'
    BY <2>1 DEF OwnedInv, AskComesFirst, AskStands, driverVars
  <2>3. fence' = "none" => HubInstanceEnds /\ fence = "none"
    BY <1>2 DEF HubInstanceEnds, HubFence, CancelForInstance, CancelRetire
  <2>4. HubInstanceEnds => (Driven => Driven')
    BY DEF HubInstanceEnds, brokerVars, callVars, histVars, Driven, Forlorn, NobodyWinning, Winning
  <2> QED BY <1>1, <2>1, <2>2, <2>3, <2>4, OwnedFrame
<1>3. CASE NodeCrash
  <2>1. crashes' # 0
    BY <1>3 DEF NodeCrash, TypesInv
  <2> QED BY <1>1, <2>1 DEF OwnedInv
<1> QED BY <1>2, <1>3

LEMMA OwnedCallStep ==
    ASSUME AnswerInv, OwnedInv, NEW k \in Call,
           (\E c \in Command : HubPost(k, c)) \/ HubGivesUp(k) \/ CallStep(k)
    PROVE  OwnedInv'
<1>0. CallType
  BY DEF AnswerInv, Typed
<1>1. CASE BrokerWin(k)
  <2>0. /\ UNCHANGED <<driverVars, pump, mapped, obs, handed, applied, uplink, card, fence, crashes>>
        /\ ticket # "none" /\ Goes(k, "won")
    BY <1>1 DEF BrokerWin, glueVars, histVars, hubVars
  <2>1. AppliedIsHanded'
    BY <2>0 DEF OwnedInv, AppliedIsHanded
  <2>2. crashes = 0 => mapped
    BY <2>0, UnmappedIsUntouched DEF OwnedInv
  <2>3. Driven'
    <3>1. at'[k] = "won"
      BY <1>0, <2>0, GoesFacts DEF AtNode
    <3> QED BY <3>1 DEF Driven, NobodyWinning, Winning
  <2> QED BY <2>0, <2>1, <2>2, <2>3, OwnedFrame
<1>2. CASE DriverExecute(k)
  BY <1>2, OwnedExecute
<1>3. CASE \/ \E c \in Command : HubPost(k, c)
           \/ HubGivesUp(k) \/ NodeLookup(k) \/ BrokerLost(k) \/ OwnerPersist(k)
           \/ NodeDrop(k) \/ HubReply(k)
  <2>1. UNCHANGED <<driverVars, pump, mapped, brokerVars, handed, applied, uplink, fence, crashes>>
    BY <1>3 DEF HubPost, HubGivesUp, NodeLookup, BrokerLost, OwnerPersist, NodeDrop, HubReply,
       glueVars, histVars
  <2>2. card' = card \/ (card # "none" /\ ~Waits')
    BY <1>3 DEF HubPost, HubGivesUp, NodeLookup, BrokerLost, OwnerPersist, NodeDrop, HubReply,
       hubVars, Waits
  <2>3. \E s : at' = [at EXCEPT ![k] = s] /\ s \in AtNode \cup {"done"}
    BY <1>3 DEF HubPost, HubGivesUp, NodeLookup, BrokerLost, OwnerPersist, NodeDrop, HubReply,
       Tell, Goes, AtNode
  <2>4. /\ at' \in [Call -> AtNode \cup {"idle", "done"}]
        /\ \A j \in Call \ {k} : at'[j] = at[j]
    BY <1>0, <2>3 DEF CallType
  <2> QED BY <2>1, <2>2, <2>4, OwnedCall
<1> QED BY <1>1, <1>2, <1>3 DEF CallStep

LEMMA OwnedNext == AnswerInv /\ TypesInv /\ OwnedInv /\ [Next]_vars => OwnedInv'
<1> SUFFICES ASSUME AnswerInv, TypesInv, OwnedInv, [Next]_vars PROVE OwnedInv'
  OBVIOUS
<1>1. CASE UNCHANGED vars
  <2>1. /\ UNCHANGED <<driverVars, pump, mapped, brokerVars, at, handed, applied, uplink, card,
                       fence, crashes>>
    BY <1>1 DEF vars, glueVars, callVars, histVars, hubVars
  <2>2. AppliedIsHanded' /\ (Driven => Driven') /\ (crashes = 0 /\ ~mapped => AskStands')
    BY <2>1 DEF OwnedInv, AppliedIsHanded, Driven, Forlorn, NobodyWinning, Winning, AskComesFirst,
       AskStands, driverVars, brokerVars
  <2> QED BY <2>1, <2>2, OwnedFrame
<1>2. CASE HubApply
  BY <1>2, OwnedApply DEF AnswerInv
<1>3. {"resolved", "invalidated"} \subseteq Entity
  BY DEF Entity
<1> QED
  BY <1>1, <1>2, <1>3, OwnedDriver, OwnedPump, OwnedBroker, OwnedHub, OwnedCallStep DEF Next

\* A pending card has a ticket that can be won or expires, a call about to hand
\* over its answer, an observation to commit or a journal event to apply.
PendingIsDriven ==
    card = "pending" =>
       WaiterIsLost \/ ticket # "none" \/ ~NobodyWinning \/ obs # <<>> \/ SettlesOnWay

(* A pending card is never left without a step that will settle it, for any  *)
(* number of calls: until the code's own gaps (WaiterIsLost) there is a      *)
(* ticket with a deadline, a call on its way to the driver, a broker         *)
(* observation or an event of the journal behind it (apply_answer,           *)
(* expire_one, commit_broker_observation).  CardSettles adds that these      *)
(* steps are taken.                                                          *)
THEOREM PendingCardsAreDriven == Spec => []PendingIsDriven
<1>1. Init => OwnedInv /\ TypesInv
  BY TypesInit DEF Init, OwnedInv, AppliedIsHanded, AskComesFirst, AskStands, RequestLeads,
     ClearIsCarried, CardIsOwned, Idle
<1>2. AnswerInv /\ TypesInv /\ OwnedInv /\ [Next]_vars => OwnedInv' /\ TypesInv'
  BY OwnedNext, TypesNext
<1>3. TypesInv /\ OwnedInv => PendingIsDriven
  <2> SUFFICES ASSUME TypesInv, OwnedInv, card = "pending", ~WaiterIsLost
               PROVE  ticket # "none" \/ ~NobodyWinning \/ obs # <<>> \/ SettlesOnWay
    BY DEF PendingIsDriven
  <2>1. crashes = 0 /\ fence = "none" /\ (Forlorn => ~NobodyWinning)
    BY DEF WaiterIsLost, TypesInv, Forlorn, NobodyWinning, Winning
  <2>2. mapped
    BY <2>1 DEF OwnedInv, AskComesFirst
  <2> QED BY <2>1, <2>2 DEF OwnedInv, CardIsOwned, Driven, Waits
<1>4. Spec => []AnswerInv
  BY Inductive
<1> QED BY <1>1, <1>2, <1>3, <1>4, PTL DEF Spec

=============================================================================
