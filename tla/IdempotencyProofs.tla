------------------------- MODULE IdempotencyProofs -------------------------
(***************************************************************************)
(* The replay contract for any number of requests, keys, bodies and        *)
(* faults, and for both orders of the answer and the commit.               *)
(***************************************************************************)
EXTENDS Idempotency, TLAPS

\* The steps of a request that holds its reservation, uncommitted.
HoldingSteps == {"reserved", "proposed", "completed", "answered"}
Holding(h) == handler[h].step \in HoldingSteps

\* A request in flight carries the serial that was drawn for it.
Carries(h) ==
  /\ handler[h].slot \in Slots /\ handler[h].body \in Bodies
  /\ handler[h].result \in Results /\ handler[h].result.kind = "done"
  /\ handler[h].result.serial \in 1..requests
  /\ origin[handler[h].result.serial] = <<handler[h].slot, handler[h].body>>

InFlight == \A h \in Handlers : handler[h].step # "idle" => Carries(h)

\* One reservation per slot, and none for a slot that has its record.
Exclusive ==
  \A g, h \in Handlers :
    Holding(g) /\ Holding(h) /\ handler[g].slot = handler[h].slot => g = h

Unrecorded == \A h \in Handlers : Holding(h) => records[handler[h].slot] = None

\* A record is complete, and the result it replays is committed and its own.
Replayable(s) ==
  /\ records[s].result \in Results
  /\ records[s].result.serial \in applied
  /\ origin[records[s].result.serial] = <<s, records[s].body>>

RecordsComplete == \A s \in Slots : records[s] # None => Replayable(s)

\* What is committed has its record.
AppliedRecorded ==
  \A n \in applied : n \in 1..requests /\ records[origin[n][1]] # None

\* An answer is a conflict, an error, or a result of this request; an expiry is
\* on record.
Sound(a) ==
  /\ a.answer # InProgress
  /\ a.answer \in Results =>
       /\ a.answer.serial \in 1..requests
       /\ origin[a.answer.serial] = <<a.slot, a.body>>
  /\ a.answer.kind = "expired" =>
       /\ a.answer.serial \in applied
       /\ records[a.slot] = [body |-> a.body, result |-> a.answer]

AnswersSound == \A a \in answers : Sound(a)

\* The inductive invariant.
IInv ==
  /\ TypeOK /\ InFlight /\ Exclusive /\ Unrecorded
  /\ RecordsComplete /\ AppliedRecorded /\ AnswersSound /\ AppliedOnce

-----------------------------------------------------------------------------
(* One lemma per way in which a step changes a request *)

\* A response without a result never breaks what is said of answers.
LEMMA ResultsTyped ==
  /\ Conflict \notin Results /\ InProgress \notin Results /\ Failed \notin Results
  /\ Conflict # InProgress /\ Failed # InProgress
  /\ Conflict.kind # "expired" /\ Failed.kind # "expired"
  /\ \A r \in Results : r # InProgress /\ r # None /\ r.serial \in 1..MaxRequests
BY NoneAssumption DEF Results, Conflict, InProgress, Failed, NoResult

\* The initial state: an empty table and no request.
LEMMA InitHolds == Init => IInv
<1> SUFFICES ASSUME Init PROVE IInv
  OBVIOUS
<1>1. TypeOK
  BY BoundsAssumption DEF Init, TypeOK, Idle, Steps
<1> QED BY <1>1 DEF Init, IInv, InFlight, Exclusive, Unrecorded,
             RecordsComplete, AppliedRecorded, AnswersSound, AppliedOnce, Holding, HoldingSteps, Idle

\* A request that holds its reservation goes on to another of its steps.
LEMMA AdvanceKeeps ==
  ASSUME IInv, NEW h \in Handlers, Holding(h), NEW step \in HoldingSteps,
         handler' = [handler EXCEPT ![h].step = step],
         UNCHANGED <<records, applied, origin, answers, requests, faults>>
  PROVE  IInv'
<1>1. TypeOK'
  BY DEF IInv, TypeOK, HoldingSteps, Steps
<1>2. /\ handler'[h] = [handler[h] EXCEPT !.step = step]
      /\ \A g \in Handlers \ {h} : handler'[g] = handler[g]
  BY DEF IInv, TypeOK
<1>3. \A g \in Handlers : /\ handler'[g].slot = handler[g].slot
                          /\ handler'[g].body = handler[g].body
                          /\ handler'[g].result = handler[g].result
                          /\ handler'[g].step \in HoldingSteps <=> handler[g].step \in HoldingSteps
                          /\ handler'[g].step # "idle" <=> handler[g].step # "idle"
  BY <1>2 DEF IInv, TypeOK, Holding, HoldingSteps
<1>4. InFlight' /\ Exclusive' /\ Unrecorded'
  <2>1. InFlight'
    <3> SUFFICES ASSUME NEW g \in Handlers, handler'[g].step # "idle"
                 PROVE  Carries(g)'
      BY DEF InFlight
    <3> QED BY <1>3 DEF IInv, InFlight, Carries
  <2>2. Exclusive'
    BY <1>3 DEF IInv, Exclusive, Holding
  <2>3. Unrecorded'
    BY <1>3 DEF IInv, Unrecorded, Holding
  <2> QED BY <2>1, <2>2, <2>3
<1>5. RecordsComplete' /\ AppliedRecorded' /\ AnswersSound' /\ AppliedOnce'
  BY DEF IInv, RecordsComplete, Replayable, AppliedRecorded, AnswersSound, Sound, AppliedOnce
<1> QED BY <1>1, <1>4, <1>5 DEF IInv

\* A request ends and its transaction leaves nothing, whatever it answers.
LEMMA EndKeeps ==
  ASSUME IInv, NEW h \in Handlers, handler[h].step # "idle",
         handler' = [handler EXCEPT ![h] = Idle],
         \/ answers' = answers
         \/ Answer(handler[h].slot, handler[h].body, Failed),
         UNCHANGED <<records, applied, origin, requests>>,
         faults' \in 0..MaxFaults
  PROVE  IInv'
<1>1. handler[h].slot \in Slots /\ handler[h].body \in Bodies
  BY DEF IInv, InFlight, Carries
<1>2. TypeOK'
  <2>1. handler' \in [Handlers -> [step: Steps, slot: Slots \cup {None},
                                   body: Bodies \cup {None}, result: Results \cup {None}]]
    BY DEF IInv, TypeOK, Idle, Steps
  <2>2. answers' \subseteq [slot: Slots, body: Bodies,
                            answer: Results \cup {Conflict, InProgress, Failed}]
    BY <1>1 DEF IInv, TypeOK, Answer
  <2> QED BY <2>1, <2>2 DEF IInv, TypeOK
<1>3. /\ handler'[h] = Idle
      /\ \A g \in Handlers \ {h} : handler'[g] = handler[g]
  BY DEF IInv, TypeOK
<1>4. handler'[h].step \notin HoldingSteps /\ handler'[h].step = "idle"
  BY <1>3 DEF HoldingSteps, Idle
<1>5. InFlight' /\ Exclusive' /\ Unrecorded'
  <2>1. InFlight'
    <3> SUFFICES ASSUME NEW g \in Handlers, handler'[g].step # "idle"
                 PROVE  Carries(g)'
      BY DEF InFlight
    <3>1. g # h /\ handler'[g] = handler[g]
      BY <1>3, <1>4
    <3> QED BY <3>1 DEF IInv, InFlight, Carries
  <2>2. Exclusive'
    BY <1>3, <1>4 DEF IInv, Exclusive, Holding
  <2>3. Unrecorded'
    BY <1>3, <1>4 DEF IInv, Unrecorded, Holding
  <2> QED BY <2>1, <2>2, <2>3
<1>6. RecordsComplete' /\ AppliedRecorded' /\ AppliedOnce'
  BY DEF IInv, RecordsComplete, Replayable, AppliedRecorded, AppliedOnce
<1>7. AnswersSound'
  <2> SUFFICES ASSUME NEW a \in answers', a \notin answers
               PROVE  a.answer = Failed
    BY ResultsTyped DEF IInv, AnswersSound, Sound
  <2> QED BY DEF Answer
<1> QED BY <1>2, <1>5, <1>6, <1>7 DEF IInv

\* A request commits the command with its result on the record.
LEMMA SettleKeeps ==
  ASSUME IInv, NEW h \in Handlers, Holding(h),
         NEW result \in Results, result.serial = handler[h].result.serial,
         Record(h, result),
         applied' = applied \cup {result.serial},
         handler' = [handler EXCEPT ![h] = Idle],
         \/ answers' = answers
         \/ Answer(handler[h].slot, handler[h].body, result),
         UNCHANGED <<origin, requests, faults>>
  PROVE  IInv'
<1> DEFINE slot == handler[h].slot  body == handler[h].body  n == result.serial
<1>1. /\ slot \in Slots /\ body \in Bodies /\ n \in 1..requests
      /\ origin[n] = <<slot, body>>
  BY DEF IInv, InFlight, Carries, Holding, HoldingSteps
<1>2. records[slot] = None
  BY DEF IInv, Unrecorded
<1>3. /\ records'[slot] = [body |-> body, result |-> result]
      /\ \A s \in Slots \ {slot} : records'[s] = records[s]
      /\ records' \in [Slots -> RecordType \cup {None}]
  BY <1>1 DEF Record, IInv, TypeOK, RecordType
<1>4. records'[slot] # None
  <2>1. [body |-> body, result |-> result] \in RecordType
    BY <1>1 DEF RecordType
  <2> QED BY <2>1, <1>3, NoneAssumption
<1>5. /\ handler'[h] = Idle
      /\ \A g \in Handlers \ {h} : handler'[g] = handler[g]
  BY DEF IInv, TypeOK
<1>6. handler'[h].step \notin HoldingSteps /\ handler'[h].step = "idle"
  BY <1>5 DEF HoldingSteps, Idle
<1> HIDE DEF slot, body, n
<1>7. TypeOK'
  <2>1. handler' \in [Handlers -> [step: Steps, slot: Slots \cup {None},
                                   body: Bodies \cup {None}, result: Results \cup {None}]]
    BY DEF IInv, TypeOK, Idle, Steps
  <2>2. answers' \subseteq [slot: Slots, body: Bodies,
                            answer: Results \cup {Conflict, InProgress, Failed}]
    BY <1>1 DEF IInv, TypeOK, Answer, slot, body
  <2>3. applied' \subseteq 1..MaxRequests
    BY ResultsTyped DEF IInv, TypeOK
  <2> QED BY <1>3, <2>1, <2>2, <2>3 DEF IInv, TypeOK
<1>8. InFlight' /\ Exclusive'
  <2>1. InFlight'
    <3> SUFFICES ASSUME NEW g \in Handlers, handler'[g].step # "idle"
                 PROVE  Carries(g)'
      BY DEF InFlight
    <3>1. g # h /\ handler'[g] = handler[g]
      BY <1>5, <1>6
    <3> QED BY <3>1 DEF IInv, InFlight, Carries
  <2>2. Exclusive'
    BY <1>5, <1>6 DEF IInv, Exclusive, Holding
  <2> QED BY <2>1, <2>2
<1>9. Unrecorded'
  <2> SUFFICES ASSUME NEW g \in Handlers, Holding(g)' PROVE records'[handler'[g].slot] = None
    BY DEF Unrecorded
  <2>1. g # h /\ handler'[g] = handler[g] /\ Holding(g)
    BY <1>5, <1>6 DEF Holding
  <2>2. handler[g].slot \in Slots \ {slot}
    BY <2>1 DEF IInv, Exclusive, InFlight, Carries, Holding, HoldingSteps, slot
  <2> QED BY <2>1, <2>2, <1>3 DEF IInv, Unrecorded
<1>10. RecordsComplete'
  <2> SUFFICES ASSUME NEW s \in Slots, records'[s] # None
               PROVE  Replayable(s)'
    BY DEF RecordsComplete
  <2>1. CASE s = slot
    BY <2>1, <1>1, <1>3 DEF n, Replayable
  <2>2. CASE s # slot
    BY <2>2, <1>3 DEF IInv, RecordsComplete, Replayable
  <2> QED BY <2>1, <2>2
<1>11. AppliedRecorded'
  <2>1. \A m \in applied : origin[m][1] \in Slots
    BY DEF IInv, AppliedRecorded, TypeOK
  <2>2. \A m \in applied : records'[origin[m][1]] # None
    BY <2>1, <1>3, <1>4 DEF IInv, AppliedRecorded
  <2> QED BY <2>2, <1>1, <1>4 DEF IInv, AppliedRecorded, n
<1>12. AppliedOnce'
  <2>1. \A m \in applied : origin[m][1] # slot
    BY <1>2 DEF IInv, AppliedRecorded
  <2> QED BY <2>1, <1>1 DEF IInv, AppliedOnce, n
<1>13. AnswersSound'
  <2>1. \A a \in answers : a.slot \in Slots
    BY DEF IInv, TypeOK
  <2>2. ASSUME NEW a \in answers, a.answer.kind = "expired"
        PROVE  records'[a.slot] = records[a.slot]
    <3>1. records[a.slot] # None
      <4>1. a.body \in Bodies /\ a.answer \in Results
        BY <2>2, ResultsTyped DEF IInv, TypeOK, AnswersSound, Sound
      <4>2. [body |-> a.body, result |-> a.answer] \in RecordType
        BY <4>1 DEF RecordType
      <4> QED BY <4>2, <2>2, NoneAssumption DEF IInv, AnswersSound, Sound
    <3> QED BY <3>1, <2>1, <1>2, <1>3
  <2>3. ASSUME NEW a \in answers', a \notin answers
        PROVE  a = [slot |-> slot, body |-> body, answer |-> result]
    BY <2>3 DEF Answer, slot, body
  <2> SUFFICES ASSUME NEW a \in answers'
               PROVE  Sound(a)'
    BY DEF AnswersSound
  <2>4. CASE a \in answers
    BY <2>2, <2>4 DEF IInv, AnswersSound, Sound
  <2>5. CASE a \notin answers
    BY <2>3, <2>5, <1>1, <1>3, ResultsTyped DEF n, Sound
  <2> QED BY <2>4, <2>5
<1> QED BY <1>7, <1>8, <1>9, <1>10, <1>11, <1>12, <1>13 DEF IInv

\* What a request learns from a committed record is a conflict or its own result.
LEMMA ReplaySound ==
  ASSUME IInv, NEW s \in Slots, NEW body \in Bodies, records[s] # None
  PROVE  LET a == [slot |-> s, body |-> body, answer |-> ReservationFrom(records[s], body)]
         IN  Sound(a) /\ a.answer \in Results \cup {Conflict}
<1>1. records[s].result \in Results /\ records[s].result # None
  BY ResultsTyped DEF IInv, RecordsComplete, Replayable
<1>2. records[s] = [body |-> records[s].body, result |-> records[s].result]
  BY DEF IInv, TypeOK, RecordType
<1>3. CASE records[s].body # body
  <2>1. ReservationFrom(records[s], body) = Conflict
    BY <1>3 DEF ReservationFrom
  <2> QED BY <2>1, ResultsTyped DEF Sound
<1>4. CASE records[s].body = body
  <2>1. ReservationFrom(records[s], body) = records[s].result
    BY <1>1, <1>4 DEF ReservationFrom
  <2>2. records[s].result.serial \in 1..requests
    BY DEF IInv, RecordsComplete, Replayable, AppliedRecorded
  <2> QED BY <2>1, <2>2, <1>1, <1>2, <1>4, ResultsTyped
          DEF IInv, RecordsComplete, Replayable, Sound
<1> QED BY <1>3, <1>4

\* A request that finds nothing is put in flight with the serial it draws.
LEMMA BeginKeeps ==
  ASSUME IInv, NEW h \in Handlers, NEW s \in Slots, NEW body \in Bodies,
         Begin(h, s, body)
  PROVE  IInv'
<1> DEFINE n == requests + 1
           new == [step |-> "inserting", slot |-> s, body |-> body,
                   result |-> [kind |-> "done", serial |-> n]]
<1>1. /\ requests \in Nat /\ n \in 1..MaxRequests /\ requests' = n
      /\ \A m \in 1..requests : m \in 1..n
      /\ n \in 1..n
  BY BoundsAssumption DEF Begin, IInv, TypeOK
<1>2. /\ origin' \in [1..requests' -> Slots \X Bodies]
      /\ \A m \in 1..requests : origin'[m] = origin[m]
      /\ origin'[n] = <<s, body>>
  BY <1>1 DEF Begin, IInv, TypeOK
<1>3. UNCHANGED <<records, applied, faults>>
  BY DEF Begin
<1>4. \A m \in applied : m \in 1..requests
  BY DEF IInv, AppliedRecorded
<1>5. [kind |-> "done", serial |-> n] \in Results
  BY <1>1 DEF Results
<1>6. /\ handler' \in [Handlers -> [step: Steps, slot: Slots \cup {None},
                                   body: Bodies \cup {None}, result: Results \cup {None}]]
      /\ \A g \in Handlers : handler'[g] = handler[g] \/ (g = h /\ handler'[g] = new)
  <2>1. CASE UNCHANGED handler
    BY <2>1 DEF IInv, TypeOK
  <2>2. CASE handler' = [handler EXCEPT ![h] = new]
    BY <2>2, <1>5 DEF IInv, TypeOK, Steps
  <2> QED BY <2>1, <2>2 DEF Begin
<1> HIDE DEF n
<1>7. \A a \in answers' :
        a \in answers \/ (Sound(a) /\ a.slot \in Slots /\ a.body \in Bodies
                           /\ a \in [slot: Slots, body: Bodies,
                                    answer: Results \cup {Conflict, InProgress, Failed}])
  BY ReplaySound DEF Begin, Answer
<1>8. TypeOK'
  BY <1>1, <1>2, <1>3, <1>6, <1>7 DEF IInv, TypeOK
<1>9. InFlight'
  <2> SUFFICES ASSUME NEW g \in Handlers, handler'[g].step # "idle" PROVE Carries(g)'
    BY DEF InFlight
  <2>1. CASE handler'[g] = handler[g]
    BY <2>1, <1>1, <1>2 DEF IInv, InFlight, Carries
  <2>2. CASE handler'[g] = new
    BY <2>2, <1>1, <1>2, <1>5 DEF Carries
  <2> QED BY <2>1, <2>2, <1>6
<1>10. Exclusive' /\ Unrecorded'
  <2>1. \A g \in Handlers :
          handler'[g].step \in HoldingSteps => handler'[g] = handler[g]
    BY <1>6 DEF HoldingSteps
  <2>2. Exclusive'
    BY <2>1 DEF IInv, Exclusive, Holding
  <2>3. Unrecorded'
    BY <2>1, <1>3 DEF IInv, Unrecorded, Holding
  <2> QED BY <2>2, <2>3
<1>11. RecordsComplete' /\ AppliedRecorded' /\ AppliedOnce'
  BY <1>1, <1>2, <1>3, <1>4 DEF IInv, RecordsComplete, Replayable, AppliedRecorded, AppliedOnce
<1>12. AnswersSound'
  <2> SUFFICES ASSUME NEW a \in answers' PROVE Sound(a)'
    BY DEF AnswersSound
  <2>1. Sound(a)
    BY <1>7 DEF IInv, AnswersSound
  <2> QED BY <2>1, <1>1, <1>2, <1>3 DEF Sound
<1> QED BY <1>8, <1>9, <1>10, <1>11, <1>12 DEF IInv

\* The insert waits until nobody holds the slot, then takes it or replays.
LEMMA InsertKeeps ==
  ASSUME IInv, NEW h \in Handlers, Insert(h)
  PROVE  IInv'
<1> DEFINE slot == handler[h].slot  body == handler[h].body
<1>1. slot \in Slots /\ body \in Bodies /\ handler[h].step = "inserting"
  BY DEF Insert, IInv, InFlight, Carries
<1>2. UNCHANGED <<records, applied, origin, requests, faults>>
  BY DEF Insert
<1>3. \A g \in Handlers : ~(handler[g].slot = slot /\ Holding(g))
  BY DEF Insert, Holds, Holding, HoldingSteps
<1>4. RecordsComplete' /\ AppliedRecorded' /\ AppliedOnce'
  BY <1>2 DEF IInv, RecordsComplete, Replayable, AppliedRecorded, AppliedOnce
<1>5. CASE /\ records[slot] = None
           /\ handler' = [handler EXCEPT ![h].step = "reserved"]
           /\ UNCHANGED answers
  <2>1. /\ handler'[h] = [handler[h] EXCEPT !.step = "reserved"]
        /\ \A g \in Handlers \ {h} : handler'[g] = handler[g]
    BY <1>5 DEF IInv, TypeOK
  <2>2. TypeOK'
    BY <1>2, <1>5 DEF IInv, TypeOK, Steps
  <2>3. \A g \in Handlers : /\ handler'[g].slot = handler[g].slot
                            /\ handler'[g].body = handler[g].body
                            /\ handler'[g].result = handler[g].result
                            /\ handler'[g].step # "idle" => handler[g].step # "idle"
    BY <2>1, <1>1 DEF IInv, TypeOK
  <2>4. InFlight'
    BY <2>3, <1>2 DEF IInv, InFlight, Carries
  <2>5. Exclusive'
    BY <2>1, <2>3, <1>3 DEF IInv, Exclusive, Holding
  <2>6. Unrecorded'
    BY <2>1, <2>3, <1>2, <1>5 DEF IInv, Unrecorded, Holding
  <2>7. AnswersSound'
    BY <1>2, <1>5 DEF IInv, AnswersSound, Sound
  <2> QED BY <1>4, <2>2, <2>4, <2>5, <2>6, <2>7 DEF IInv
<1>6. CASE /\ records[slot] # None
           /\ handler' = [handler EXCEPT ![h] = Idle]
           /\ Answer(slot, body, ReservationFrom(records[slot], body))
  <2> DEFINE a == [slot |-> slot, body |-> body,
                   answer |-> ReservationFrom(records[slot], body)]
  <2>1. Sound(a) /\ a.answer \in Results \cup {Conflict}
    BY <1>1, <1>6, ReplaySound
  <2>2. answers' = answers \cup {a}
    BY <1>6 DEF Answer
  <2> HIDE DEF a
  <2>3. /\ handler'[h] = Idle /\ Idle.step = "idle" /\ "idle" \notin HoldingSteps
        /\ \A g \in Handlers \ {h} : handler'[g] = handler[g]
    BY <1>6 DEF IInv, TypeOK, Idle, HoldingSteps
  <2>4. TypeOK'
    <3>1. handler' \in [Handlers -> [step: Steps, slot: Slots \cup {None},
                                     body: Bodies \cup {None}, result: Results \cup {None}]]
      BY <1>6 DEF IInv, TypeOK, Idle, Steps
    <3>2. a \in [slot: Slots, body: Bodies,
                 answer: Results \cup {Conflict, InProgress, Failed}]
      BY <1>1, <2>1 DEF a
    <3> QED BY <1>2, <2>2, <3>1, <3>2 DEF IInv, TypeOK
  <2>5. InFlight'
    <3> SUFFICES ASSUME NEW g \in Handlers, handler'[g].step # "idle" PROVE Carries(g)'
      BY DEF InFlight
    <3>1. g # h /\ handler'[g] = handler[g]
      BY <2>3
    <3> QED BY <3>1, <1>2 DEF IInv, InFlight, Carries
  <2>6. Exclusive' /\ Unrecorded'
    <3>1. \A g \in Handlers :
            handler'[g].step \in HoldingSteps => handler'[g] = handler[g]
      BY <2>3
    <3>2. Exclusive'
      BY <3>1 DEF IInv, Exclusive, Holding
    <3>3. Unrecorded'
      BY <3>1, <1>2 DEF IInv, Unrecorded, Holding
    <3> QED BY <3>2, <3>3
  <2>7. AnswersSound'
    BY <1>2, <2>1, <2>2 DEF IInv, AnswersSound, Sound
  <2> QED BY <1>4, <2>4, <2>5, <2>6, <2>7 DEF IInv
<1> QED BY <1>5, <1>6 DEF Insert

\* The response leaves before the commit: its result is the request's own.
LEMMA RespondKeeps ==
  ASSUME IInv, NEW h \in Handlers, Respond(h)
  PROVE  IInv'
<1> DEFINE a == [slot |-> handler[h].slot, body |-> handler[h].body,
                 answer |-> handler[h].result]
<1>1. Holding(h) /\ Carries(h)
  BY DEF Respond, IInv, InFlight, Holding, HoldingSteps
<1>2. answers' = answers \cup {a}
  BY DEF Respond, Answer
<1>3. /\ Sound(a)
      /\ a \in [slot: Slots, body: Bodies,
                answer: Results \cup {Conflict, InProgress, Failed}]
  BY <1>1, ResultsTyped DEF Sound, Carries
<1> HIDE DEF a
<1>4. UNCHANGED <<records, applied, origin, requests, faults>>
  BY DEF Respond
<1>5. /\ handler'[h] = [handler[h] EXCEPT !.step = "answered"]
      /\ \A g \in Handlers \ {h} : handler'[g] = handler[g]
  BY DEF Respond, IInv, TypeOK
<1>6. \A g \in Handlers : /\ handler'[g].slot = handler[g].slot
                          /\ handler'[g].body = handler[g].body
                          /\ handler'[g].result = handler[g].result
                          /\ handler'[g].step \in HoldingSteps <=> handler[g].step \in HoldingSteps
                          /\ handler'[g].step # "idle" <=> handler[g].step # "idle"
  BY <1>1, <1>5 DEF IInv, TypeOK, Holding, HoldingSteps
<1>7. TypeOK'
  BY <1>2, <1>3, <1>4 DEF Respond, IInv, TypeOK, Steps
<1>8. InFlight'
  BY <1>4, <1>6 DEF IInv, InFlight, Carries
<1>9. Exclusive'
  BY <1>6 DEF IInv, Exclusive, Holding
<1>10. Unrecorded'
  BY <1>4, <1>6 DEF IInv, Unrecorded, Holding
<1>11. RecordsComplete' /\ AppliedRecorded' /\ AppliedOnce'
  BY <1>4 DEF IInv, RecordsComplete, Replayable, AppliedRecorded, AppliedOnce
<1>12. AnswersSound'
  BY <1>2, <1>3, <1>4 DEF IInv, AnswersSound, Sound
<1> QED BY <1>7, <1>8, <1>9, <1>10, <1>11, <1>12 DEF IInv

-----------------------------------------------------------------------------
(* The theorems *)

\* A fault is counted below its bound.
LEMMA FaultBounded ==
  ASSUME TypeOK, Fault \/ UNCHANGED faults PROVE faults' \in 0..MaxFaults
BY BoundsAssumption DEF TypeOK, Fault

\* A route succeeds and goes on, or raises and is rolled back.
LEMMA RouteKeeps ==
  ASSUME IInv, NEW h \in Handlers, Holding(h), NEW step \in HoldingSteps,
         \/ /\ handler' = [handler EXCEPT ![h].step = step]
            /\ UNCHANGED <<records, applied, origin, answers, requests, faults>>
         \/ Fault /\ RollBack(h)
  PROVE  IInv'
<1>1. CASE /\ handler' = [handler EXCEPT ![h].step = step]
           /\ UNCHANGED <<records, applied, origin, answers, requests, faults>>
  BY <1>1, AdvanceKeeps
<1>2. CASE Fault /\ RollBack(h)
  <2>1. handler[h].step # "idle"
    BY DEF Holding, HoldingSteps
  <2>2. faults' \in 0..MaxFaults
    BY <1>2, FaultBounded DEF IInv
  <2> QED BY <1>2, <2>1, <2>2, EndKeeps DEF RollBack
<1> QED BY <1>1, <1>2

\* Every step of a request keeps the invariant.
LEMMA ServeKeeps ==
  ASSUME IInv, NEW h \in Handlers, Serve(h)
  PROVE  IInv'
<1>1. CASE Insert(h)
  BY <1>1, InsertKeeps
<1>2. ASSUME NEW scopes, Mutate(h, scopes) PROVE IInv'
  <2>1. Holding(h) /\ "completed" \in HoldingSteps
    BY <1>2 DEF Mutate, Holding, HoldingSteps
  <2> QED BY <1>2, <2>1, RouteKeeps DEF Mutate, Complete
<1>3. CASE Propose(h)
  <2>1. Holding(h) /\ "proposed" \in HoldingSteps
    BY <1>3 DEF Propose, Holding, HoldingSteps
  <2> QED BY <1>3, <2>1, RouteKeeps DEF Propose
<1>4. CASE CreateAgentIntent(h)
  <2>1. Holding(h) /\ "completed" \in HoldingSteps
    BY <1>4 DEF CreateAgentIntent, Holding, HoldingSteps
  <2> QED BY <1>4, <2>1, RouteKeeps DEF CreateAgentIntent, Complete
<1>5. CASE Expire(h)
  <2>1. Holding(h)
    BY <1>5 DEF Expire, Holding, HoldingSteps
  <2>2. Expiry(h) \in Results /\ Expiry(h).serial = handler[h].result.serial
    BY <2>1 DEF Expiry, Results, IInv, InFlight, Carries, Holding, HoldingSteps
  <2> QED BY <1>5, <2>1, <2>2, SettleKeeps DEF Expire
<1>6. CASE Respond(h)
  BY <1>6, RespondKeeps
<1>7. CASE Commit(h)
  <2>1. Holding(h)
    BY <1>7 DEF Commit, Holding, HoldingSteps
  <2>2. handler[h].result \in Results
    BY <2>1 DEF IInv, InFlight, Carries, Holding, HoldingSteps
  <2> QED BY <1>7, <2>1, <2>2, SettleKeeps DEF Commit
<1> QED BY <1>1, <1>2, <1>3, <1>4, <1>5, <1>6, <1>7
        DEF Serve, CreateIntent, CancelIntent, Administer, DecideApproval

\* The invariant behind the replay contract: a reservation excludes every other
\* request for its slot until it is committed with its result or is gone.
THEOREM InductiveInvariant == Spec => []IInv
<1>1. IInv /\ [Next]_vars => IInv'
  <2> SUFFICES ASSUME IInv, [Next]_vars PROVE IInv'
    OBVIOUS
  <2>1. ASSUME NEW h \in Handlers, NEW s \in Slots, NEW b \in Bodies, Begin(h, s, b)
        PROVE  IInv'
    BY <2>1, BeginKeeps
  <2>2. ASSUME NEW h \in Handlers, Serve(h) PROVE IInv'
    BY <2>2, ServeKeeps
  <2>3. ASSUME NEW h \in Handlers, Crash(h) PROVE IInv'
    <3>1. faults' \in 0..MaxFaults
      BY <2>3, FaultBounded DEF Crash, IInv
    <3> QED BY <2>3, <3>1, EndKeeps DEF Crash
  <2>4. CASE UNCHANGED vars
    BY <2>4 DEF vars, IInv, TypeOK, InFlight, Carries, Exclusive, Unrecorded, Holding,
          RecordsComplete, Replayable, AppliedRecorded, AnswersSound, Sound, AppliedOnce
  <2> QED BY <2>1, <2>2, <2>3, <2>4 DEF Next, Quiet
<1> QED BY <1>1, InitHolds, PTL DEF Spec

\* At most one execution of the requests under one key is ever committed,
\* whatever the number of duplicates, retries and faults.
THEOREM ExactlyOnce == Spec => []AppliedOnce
<1>1. IInv => AppliedOnce
  BY DEF IInv
<1> QED BY <1>1, InductiveInvariant, PTL

\* A result that is answered was computed for the same key and body.
THEOREM NoForeignAnswer == Spec => []AnswersBelong
<1>1. IInv => AnswersBelong
  BY DEF IInv, AnswersSound, Sound, AnswersBelong
<1> QED BY <1>1, InductiveInvariant, PTL

\* No committed reservation is pending, and nobody is told that one is.
THEOREM NothingPending == Spec => []NoPendingLeft
<1>1. IInv => NoPendingLeft
  BY ResultsTyped DEF IInv, RecordsComplete, Replayable, AnswersSound, Sound, NoPendingLeft
<1> QED BY <1>1, InductiveInvariant, PTL

\* An expiry that was reported is committed, with its record.
THEOREM ExpiryDurable == Spec => []ErrorsAreDurable
<1>1. IInv => ErrorsAreDurable
  BY DEF IInv, AnswersSound, Sound, ErrorsAreDurable
<1> QED BY <1>1, InductiveInvariant, PTL
=============================================================================
