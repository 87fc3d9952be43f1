------------------------ MODULE GatewayHistoryProofs ------------------------
(***************************************************************************)
(* Proofs about GatewayHistory: what subscribers have been told agrees     *)
(* with the table, for any number of senders, faults and shared topics.    *)
(***************************************************************************)
EXTENDS GatewayHistory, GatewayProofs

(* The observer restricts nothing and reads only.                          *)
LEMMA ObservedStep == [HNext]_vars => [Next]_gatewayVars
  BY DEF HNext, vars, HMainThread, HDecoderAdds, HEnvironment,
         HProgramCrashes, Next, Environment

(* The observed gateway keeps the invariant of the gateway.                *)
LEMMA HistoryGatewayInv == HSpec => []GatewayInv
<1>1. HInit => GatewayInv
  BY InitGatewayInv DEF HInit
<1> QED
  BY <1>1, ObservedStep, NextKeepsGatewayInv, PTL DEF HSpec

-----------------------------------------------------------------------------
(* Nobody is forgotten: while the second loop confirms new transmitters,   *)
(* those it is through with are announced; it clears the set after all.    *)
AnnouncedInv ==
  /\ NobodyForgotten
  /\ pc = "confirm" => NewTransmitters \ todo \subseteq announced

(* A step of the main thread passes nobody over: the loops take from todo  *)
(* only the transmitter they handle.                                       *)
LEMMA MainKeepsAnnounced ==
  ASSUME GatewayInv, AnnouncedInv, HMainThread
  PROVE  AnnouncedInv'
<1> USE DEF AnnouncedInv, NobodyForgotten, Known, HMainThread, ObserveLoop,
            Handled, Leaving, GatewayInv, Places, storageVars, report, Done
<1>1. CASE Boot \/ WaitTimeout \/ WaitStopped \/ Count \/ Leave
  BY <1>1 DEF Boot, WaitTimeout, WaitStopped, Count, Leave
<1>2. CASE UpdateSample
  BY <1>2 DEF UpdateSample, SampleNow, programVars
<1>3. CASE UpdateSweep
  <2>1. /\ DOMAIN items' = DOMAIN items \ RemovedTransmitters'
        /\ NewTransmitters' = NewTransmitters \cup Fresh
    BY <1>3, SweepFacts DEF UpdateSweep
  <2>2. announced' = announced \ RemovedTransmitters'
    BY <1>3 DEF UpdateSweep
  <2> QED BY <1>3, <2>1, <2>2 DEF UpdateSweep, Fresh
<1>4. CASE \E id \in Senders : Announce(id)
  BY <1>4 DEF Announce
<1>5. CASE \E id \in Senders : Confirm(id)
  BY <1>5 DEF Confirm, Cleared
<1>6. CASE \E id \in Senders : Retire(id) \/ Farewell(id)
  BY <1>6 DEF Retire, Farewell
<1>7. CASE RetireEnd \/ \E p \in NewReadings : HandleReading(p)
  BY <1>7 DEF RetireEnd, HandleReading
<1>8. CASE LoopIdle \/ LoopConnack \/ LoopMessage \/ LoopFails
  BY <1>8 DEF LoopIdle, LoopConnack, LoopMessage, LoopFails
<1>9. CASE \E answer \in {"connecting", "refused", "closed"} :
             Reconnect(answer)
  BY <1>9 DEF Reconnect
<1> QED
  BY <1>1, <1>2, <1>3, <1>4, <1>5, <1>6, <1>7, <1>8, <1>9 DEF MainThread

(* Nor does a step of the decoder thread, of the environment or a crash.   *)
LEMMA NextKeepsAnnounced ==
  ASSUME GatewayInv, AnnouncedInv, [HNext]_vars
  PROVE  AnnouncedInv'
<1> USE DEF AnnouncedInv, NobodyForgotten, Known, GatewayInv, programVars,
            report, storageVars
<1>1. CASE HMainThread
  BY <1>1, MainKeepsAnnounced
<1>2. CASE \E raw \in Frame \cup Garbage : HDecoderAdds(raw)
  BY <1>2, AddFacts DEF HDecoderAdds, DecoderAdds, ObserveFrame
<1>3. CASE HEnvironment /\ TimePasses
  BY <1>3, TickFacts DEF HEnvironment, TimePasses
<1>4. CASE HEnvironment /\ (AskToStop \/ LinkBreaks \/ HubRestarts)
  BY <1>4 DEF HEnvironment, AskToStop, LinkBreaks, HubRestarts
<1>5. CASE HProgramCrashes
  BY <1>5 DEF HProgramCrashes, ProgramCrashes, StorageStarts, ProgramStarts
<1>6. CASE UNCHANGED vars
  BY <1>6 DEF vars, gatewayVars, historyVars
<1> QED
  BY <1>1, <1>2, <1>3, <1>4, <1>5, <1>6 DEF HNext, HEnvironment

(* So nobody is passed over in any state.                                  *)
LEMMA AnnouncedInvariant == HSpec => []AnnouncedInv
<1>1. HInit => AnnouncedInv
  BY DEF HInit, Init, StorageInit, AnnouncedInv, NobodyForgotten, Known
<1> QED
  BY <1>1, NextKeepsAnnounced, HistoryGatewayInv, PTL DEF HSpec

(* However often the connection breaks or the program is started again,    *)
(* and whatever the decoder thread adds while ProcessLoop is at work, a    *)
(* transmitter whose arrival was reported is announced or still waits.     *)
THEOREM NobodyIsForgotten == HSpec => []NobodyForgotten
<1>1. AnnouncedInv => NobodyForgotten
  BY DEF AnnouncedInv
<1> QED BY <1>1, AnnouncedInvariant, PTL

(* A session never leaves the hub with sensors and without their gateway,  *)
(* once the hub's "online" is handled: on_connect creates it first.        *)
THEOREM GatewayIsCreatedFirst == HSpec => []GatewayCreatedFirst
<1>1. GatewayInv => GatewayCreatedFirst
  BY DEF GatewayInv, LinkInv, GatewayCreatedFirst
<1> QED BY <1>1, HistoryGatewayInv, PTL

-----------------------------------------------------------------------------
(* The way out.  A steady program has its connection until it is done, and *)
(* says offline to one listed sensor after another.                        *)
SteadyInv ==
  /\ steady => Up \/ pc = "done"
  /\ steady /\ link = "connecting" => announced = {}
  /\ m_Connected /\ pc \in {"retire", "readings"} => NewTransmitters = {}

ExitInv ==
  /\ steady /\ pc \in {"farewell", "done"} =>
       \A s \in DOMAIN items \ todo : avail[Substitute(s)] # "online"
  /\ steady /\ pc = "done" => gateway = "offline"

(* steady is never regained, and a steady program has its connection at    *)
(* every step until it is done.                                            *)
LEMMA LinkObserved ==
  ObserveLink => (steady' => steady /\ (Up' \/ pc' = "done"))
  BY DEF ObserveLink

(* Every step keeps what a steady program knows of its connection.         *)
LEMMA SteadyKept ==
  ASSUME GatewayInv, SteadyInv, [HNext]_vars
  PROVE  SteadyInv'
<1> USE LinkObserved DEF SteadyInv, GatewayInv, LinkInv, Places, Up,
            programVars, linkVars, report, storageVars, Done
<1>1. CASE HMainThread
  <2> USE DEF HMainThread, ObserveLoop
  <2>1. CASE Boot \/ WaitTimeout \/ WaitStopped \/ Count \/ Leave
    BY <1>1, <2>1 DEF Boot, WaitTimeout, WaitStopped, Count, Leave
  <2>2. CASE UpdateSample
    BY <1>1, <2>2 DEF UpdateSample, SampleNow
  <2>3. CASE UpdateSweep
    BY <1>1, <2>3 DEF UpdateSweep
  <2>4. CASE \E id \in Senders : Announce(id)
    BY <1>1, <2>4 DEF Announce
  <2>5. CASE \E id \in Senders : Confirm(id)
    BY <1>1, <2>5 DEF Confirm, Cleared
  <2>6. CASE \E id \in Senders : Retire(id) \/ Farewell(id)
    BY <1>1, <2>6 DEF Retire, Farewell
  <2>7. CASE RetireEnd \/ \E p \in NewReadings : HandleReading(p)
    BY <1>1, <2>7 DEF RetireEnd, HandleReading
  <2>8. CASE LoopIdle \/ LoopConnack \/ LoopMessage \/ LoopFails
    BY <1>1, <2>8 DEF LoopIdle, LoopConnack, LoopMessage, LoopFails
  <2>9. CASE \E answer \in {"connecting", "refused", "closed"} :
               Reconnect(answer)
    BY <1>1, <2>9 DEF Reconnect
  <2> QED
    BY <1>1, <2>1, <2>2, <2>3, <2>4, <2>5, <2>6, <2>7, <2>8, <2>9
       DEF MainThread
<1>2. CASE \E raw \in Frame \cup Garbage : HDecoderAdds(raw)
  BY <1>2 DEF HDecoderAdds, DecoderAdds, Add, ObserveFrame
<1>3. CASE HEnvironment /\ (AskToStop \/ TimePasses)
  BY <1>3 DEF HEnvironment, AskToStop, TimePasses, Tick, ClockMoves
<1>4. CASE HEnvironment /\ (LinkBreaks \/ HubRestarts)
  BY <1>4 DEF HEnvironment, LinkBreaks, HubRestarts
<1>5. CASE HProgramCrashes
  BY <1>5 DEF HProgramCrashes, ProgramCrashes, ProgramStarts, ObserveStart
<1>6. CASE UNCHANGED vars
  BY <1>6 DEF vars, gatewayVars, historyVars
<1> QED
  BY <1>1, <1>2, <1>3, <1>4, <1>5, <1>6 DEF HNext, HEnvironment

(* So it is known in every state.                                          *)
LEMMA SteadyInvariant == HSpec => []SteadyInv
<1>1. HInit => SteadyInv
  BY DEF HInit, Init, StorageInit, SteadyInv
<1> QED BY <1>1, SteadyKept, HistoryGatewayInv, PTL DEF HSpec

(* Every step keeps that the way out takes the sensors offline one by one. *)
LEMMA ExitKept ==
  ASSUME GatewayInv, SteadyInv, ExitInv, [HNext]_vars
  PROVE  ExitInv'
<1> USE LinkObserved, SubstituteIsTopic
    DEF ExitInv, GatewayInv, Places, programVars, linkVars, subscriber,
        sensorWords, hubWords, report, storageVars, Done
<1>a. steady /\ pc = "farewell" => Up
  BY DEF SteadyInv
<1>b. avail \in [Topics -> {"unknown", "online", "offline"}]
  BY DEF WordTypes
<1>c. DOMAIN items \subseteq Senders
  BY DEF StorageInv, TypeOK
<1>1. CASE HMainThread
  <2> USE DEF HMainThread
  <2>1. CASE Boot \/ WaitTimeout \/ WaitStopped \/ Count
    BY <1>1, <2>1 DEF Boot, WaitTimeout, WaitStopped, Count
  <2>2. CASE UpdateSample \/ UpdateSweep
    BY <1>1, <2>2 DEF UpdateSample, UpdateSweep
  <2>3. CASE \E id \in Senders : Announce(id) \/ Confirm(id) \/ Retire(id)
    BY <1>1, <2>3 DEF Announce, Confirm, Retire
  <2>4. CASE RetireEnd \/ \E p \in NewReadings : HandleReading(p)
    BY <1>1, <2>4 DEF RetireEnd, HandleReading
  <2>5. CASE LoopIdle \/ LoopConnack \/ LoopMessage \/ LoopFails
    BY <1>1, <2>5 DEF LoopIdle, LoopConnack, LoopMessage, LoopFails
  <2>6. CASE \E answer \in {"connecting", "refused", "closed"} :
               Reconnect(answer)
    BY <1>1, <2>6 DEF Reconnect
  <2>7. CASE \E id \in Senders : Farewell(id)
    <3>1. PICK id \in Senders : Farewell(id)
      BY <2>7
    <3>2. /\ pc = "farewell" /\ id \in todo /\ pc' = "farewell"
          /\ todo' = todo \ {id}
          /\ UNCHANGED <<items, gateway>>
      BY <3>1 DEF Farewell
    <3>3. ASSUME steady'
          PROVE  avail' = [avail EXCEPT ![Substitute(id)] = "offline"]
      BY <1>1, <1>a, <3>1, <3>2, <3>3 DEF Farewell, SensorStatus
    <3> QED BY <1>1, <1>b, <1>c, <3>2, <3>3
  <2>8. CASE Leave
    BY <1>1, <1>a, <2>8 DEF Leave, GatewayStatus
  <2> QED
    BY <1>1, <2>1, <2>2, <2>3, <2>4, <2>5, <2>6, <2>7, <2>8 DEF MainThread
<1>2. CASE \E raw \in Frame \cup Garbage : HDecoderAdds(raw)
  BY <1>2 DEF HDecoderAdds, DecoderAdds
<1>3. CASE HEnvironment /\ (AskToStop \/ LinkBreaks)
  BY <1>3 DEF HEnvironment, AskToStop, LinkBreaks, Will
<1>4. CASE HEnvironment /\ TimePasses
  BY <1>4, TickFacts DEF HEnvironment, TimePasses
<1>5. CASE HEnvironment /\ HubRestarts
  BY <1>5, <1>c DEF HEnvironment, HubRestarts
<1>6. CASE HProgramCrashes
  BY <1>6 DEF HProgramCrashes, ProgramCrashes, ProgramStarts
<1>7. CASE UNCHANGED vars
  BY <1>7 DEF vars, gatewayVars, historyVars
<1> QED
  BY <1>1, <1>2, <1>3, <1>4, <1>5, <1>6, <1>7 DEF HNext, HEnvironment

(* README: when the program stops, it sends offline.  No listed sensor is  *)
(* left online by an orderly end, and in no case the gateway.              *)
THEOREM AllOfflineAtExit == HSpec => []OfflineAtExit
<1>1. HInit => ExitInv
  BY DEF HInit, Init, ExitInv
<1>2. GatewayInv /\ ExitInv => OfflineAtExit
  BY DEF GatewayInv, Places, LinkInv, Up, ExitInv, OfflineAtExit
<1> QED
  BY <1>1, <1>2, ExitKept, SteadyInvariant, HistoryGatewayInv, PTL DEF HSpec

-----------------------------------------------------------------------------
(* What the hub has created.  The first loop creates the sensors of those  *)
(* it has handled; in a session that begins nobody has been announced yet. *)
CreatedInv ==
  Discovery /\ steady /\ link = "session" /\ ~birth =>
    /\ \A s \in DOMAIN items : Known(s) => Substitute(s) \in created
    /\ pc = "announce" =>
         \A s \in NewTransmitters \ todo : Substitute(s) \in created
    /\ pc = "confirm" =>
         \A s \in NewTransmitters : Substitute(s) \in created

(* A step of the main thread creates the sensors of whom it announces, or  *)
(* loses its steadiness.                                                   *)
LEMMA MainKeepsCreated ==
  ASSUME GatewayInv, SteadyInv, AnnouncedInv, CreatedInv, HMainThread
  PROVE  CreatedInv'
<1> USE LinkObserved
    DEF CreatedInv, Known, GatewayInv, Places, HMainThread, programVars,
        linkVars, subscriber, sensorWords, hubWords, report, storageVars, Done
<1>a. steady /\ pc # "done" => Up
  BY DEF SteadyInv
<1>1. CASE Boot \/ WaitTimeout \/ WaitStopped \/ Count \/ Leave
  BY <1>1 DEF Boot, WaitTimeout, WaitStopped, Count, Leave
<1>2. CASE UpdateSample
  BY <1>2 DEF UpdateSample, SampleNow
<1>3. CASE UpdateSweep
  <2>1. /\ DOMAIN items' = DOMAIN items \ RemovedTransmitters'
        /\ NewTransmitters' = NewTransmitters \cup Fresh
    BY <1>3, SweepFacts DEF UpdateSweep
  <2> QED BY <1>3, <2>1 DEF UpdateSweep, Fresh
<1>4. CASE \E id \in Senders : Announce(id)
  BY <1>4, <1>a DEF Announce, SensorDiscover
<1>5. CASE \E id \in Senders : Confirm(id)
  BY <1>5 DEF Confirm, Cleared
<1>6. CASE \E id \in Senders : Retire(id) \/ Farewell(id)
  BY <1>6 DEF Retire, Farewell
<1>7. CASE RetireEnd \/ \E p \in NewReadings : HandleReading(p)
  BY <1>7 DEF RetireEnd, HandleReading
<1>8. CASE LoopIdle \/ LoopFails
  BY <1>8 DEF LoopIdle, LoopFails
<1>9. CASE LoopConnack
  <2>1. steady => \A s \in DOMAIN items : ~ Known(s)
    BY <1>9 DEF LoopConnack, SteadyInv, AnnouncedInv, NobodyForgotten
  <2> QED BY <1>9, <2>1 DEF LoopConnack
<1>10. CASE LoopMessage
  BY <1>10, <1>a DEF LoopMessage, OnMessage, SensorDiscover
<1>11. CASE \E answer \in {"connecting", "refused", "closed"} :
              Reconnect(answer)
  BY <1>11 DEF Reconnect
<1> QED
  BY <1>1, <1>2, <1>3, <1>4, <1>5, <1>6, <1>7, <1>8, <1>9, <1>10, <1>11
     DEF MainThread

(* No other step makes the hub forget a sensor of a steady program without *)
(* a session to create it again.                                           *)
LEMMA NextKeepsCreated ==
  ASSUME GatewayInv, SteadyInv, AnnouncedInv, CreatedInv, [HNext]_vars
  PROVE  CreatedInv'
<1> USE LinkObserved
    DEF CreatedInv, Known, GatewayInv, LinkInv, programVars, linkVars,
        subscriber, sensorWords, hubWords, report, storageVars
<1>1. CASE HMainThread
  BY <1>1, MainKeepsCreated
<1>2. CASE \E raw \in Frame \cup Garbage : HDecoderAdds(raw)
  BY <1>2, AddFacts DEF HDecoderAdds, DecoderAdds
<1>3. CASE HEnvironment /\ TimePasses
  BY <1>3, TickFacts DEF HEnvironment, TimePasses
<1>4. CASE HEnvironment /\ (AskToStop \/ LinkBreaks)
  BY <1>4 DEF HEnvironment, AskToStop, LinkBreaks
<1>5. CASE HEnvironment /\ HubRestarts
  <2>1. link' = link /\ (Discovery /\ link = "session" => birth')
    BY <1>5 DEF HubRestarts
  <2> QED BY <2>1
<1>6. CASE HProgramCrashes
  BY <1>6, ConfigAssumption DEF HProgramCrashes, ProgramCrashes
<1>7. CASE UNCHANGED vars
  BY <1>7 DEF vars, gatewayVars, historyVars
<1> QED
  BY <1>1, <1>2, <1>3, <1>4, <1>5, <1>6, <1>7 DEF HNext, HEnvironment

(* So the hub knows the sensors that were announced, in every state.       *)
LEMMA CreatedInvariant == HSpec => []CreatedInv
<1>1. HInit => CreatedInv
  BY DEF HInit, Init, StorageInit, CreatedInv, Known
<1> QED
  BY <1>1, NextKeepsCreated, SteadyInvariant, AnnouncedInvariant,
     HistoryGatewayInv, PTL DEF HSpec

(* On a connection that never failed, every sensor that is reported and    *)
(* listed exists at the hub, and exists again when a restarted hub was     *)
(* answered.                                                               *)
THEOREM ListedSensorsAreCreated == HSpec => []ListedIsCreated
<1>1. CreatedInv => ListedIsCreated
  BY DEF CreatedInv, ListedIsCreated
<1> QED BY <1>1, CreatedInvariant, PTL

-----------------------------------------------------------------------------
(* Readings.  A reading on its way to a topic is of a transmitter that is  *)
(* still listed and was reported as new before.                            *)
ReadingsListed ==
  \A p \in NewReadings :
    p.raw.sender \in DOMAIN items /\ ~ items[p.raw.sender].isNew

(* Every step keeps that readings wait only for listed transmitters that   *)
(* were reported as new.                                                   *)
LEMMA ReadingsListedKept ==
  ASSUME GatewayInv, ReadingsListed, [Next]_gatewayVars
  PROVE  ReadingsListed'
<1> USE DEF ReadingsListed, GatewayInv
<1>1. CASE TakesFromReport
  BY <1>1 DEF TakesFromReport
<1>2. CASE \E raw \in Frame \cup Garbage : Add(raw)
  BY <1>2, AddFacts DEF report
<1>3. CASE SampleNow \/ StorageStarts
  BY <1>3 DEF SampleNow, StorageStarts, report
<1>4. CASE Sweep
  <2>1. RemovedTransmitters = {} /\ NewReadings = {}
    BY <1>4 DEF Sweep, Places
  <2> QED BY <1>4, <2>1, SweepFacts
<1>5. CASE Tick
  BY <1>5, TickFacts DEF report
<1> QED BY StorageSteps, <1>1, <1>2, <1>3, <1>4, <1>5

(* Only HandleReading shows a reading, and only of a packet that passed    *)
(* the filters; it is the sender's topic that shows it.                    *)
LEMMA OnlyReadingsShow ==
  ASSUME GatewayInv, [Next]_gatewayVars,
         NEW t \in Topics, shown'[t] \notin {shown[t], NoReading}
  PROVE  /\ pc = "readings"
         /\ \E p \in NewReadings : /\ Publishable(p)
                                   /\ p.raw.sender \in Senders
                                   /\ t = Substitute(p.raw.sender)
                                   /\ shown'[t] = p.raw.reading
<1> USE DEF programVars, linkVars, subscriber, sensorWords, hubWords
<1>1. CASE Boot \/ WaitTimeout \/ WaitStopped \/ Count \/ Leave
  BY <1>1 DEF Boot, WaitTimeout, WaitStopped, Count, Leave
<1>2. CASE UpdateSample \/ UpdateSweep
  BY <1>2 DEF UpdateSample, UpdateSweep
<1>3. CASE \E id \in Senders : Announce(id) \/ Confirm(id) \/ Retire(id)
  BY <1>3 DEF Announce, Confirm, Retire
<1>4. CASE RetireEnd
  BY <1>4 DEF RetireEnd
<1>5. CASE \E p \in NewReadings : HandleReading(p)
  <2>1. PICK p \in NewReadings : HandleReading(p)
    BY <1>5
  <2>2. p.raw \in Frame /\ p.raw.sender \in Senders
    BY DEF GatewayInv, StorageInv, TypeOK, Packet, Frame
  <2>3. GetSenderId(p.raw) = p.raw.sender
    BY <2>2, BlankIsNoFrame DEF GetSenderId
  <2>4. shown \in [Topics -> Readings \cup {NoReading}]
    BY DEF GatewayInv, WordTypes
  <2>5. /\ pc = "readings" /\ Publishable(p)
        /\ SensorUpdate(p.raw.sender, p.raw.reading)
    BY <2>1, <2>3 DEF HandleReading
  <2>6. shown' = [shown EXCEPT ![Substitute(p.raw.sender)] = p.raw.reading]
    BY <2>5 DEF SensorUpdate
  <2>7. t = Substitute(p.raw.sender) /\ shown'[t] = p.raw.reading
    BY <2>4, <2>6
  <2> QED BY <2>2, <2>5, <2>7
<1>6. CASE LoopIdle \/ LoopConnack \/ LoopMessage \/ LoopFails
  BY <1>6 DEF LoopIdle, LoopConnack, LoopMessage, LoopFails
<1>7. CASE \/ \E answer \in {"connecting", "refused", "closed"} :
                Reconnect(answer)
           \/ \E id \in Senders : Farewell(id)
  BY <1>7 DEF Reconnect, Farewell
<1>8. CASE \E raw \in Frame \cup Garbage : DecoderAdds(raw)
  BY <1>8 DEF DecoderAdds
<1>9. CASE AskToStop \/ TimePasses \/ LinkBreaks
  BY <1>9 DEF AskToStop, TimePasses, LinkBreaks
<1>10. CASE HubRestarts
  BY <1>10 DEF HubRestarts
<1>11. CASE ProgramCrashes
  BY <1>11 DEF ProgramCrashes
<1>12. CASE UNCHANGED gatewayVars
  BY <1>12 DEF gatewayVars
<1> QED
  BY <1>1, <1>2, <1>3, <1>4, <1>5, <1>6, <1>7, <1>8, <1>9, <1>10, <1>11,
     <1>12 DEF Next, MainThread, Environment

(* So it is with every reading that waits.                                 *)
LEMMA ReadingsListedInvariant == HSpec => []ReadingsListed
<1>1. HInit => ReadingsListed
  BY DEF HInit, Init, StorageInit, ReadingsListed
<1> QED
  BY <1>1, ReadingsListedKept, ObservedStep, HistoryGatewayInv, PTL DEF HSpec

(* main.cpp: "when new readings are coming sensor was already properly     *)
(* created": the reading of a transmitter is reported only after its       *)
(* arrival, and both loops over the arrivals come before the readings.     *)
THEOREM CreatedBeforeItsReadings == HSpec => CreatedBeforeReading
<1> DEFINE Safe == Discovery /\ steady /\ ~birth =>
                     \A t \in Topics :
                       shown'[t] \notin {shown[t], NoReading} => t \in created
<1>1. ASSUME GatewayInv, SteadyInv, CreatedInv, ReadingsListed, [HNext]_vars
      PROVE  Safe
  <2> SUFFICES ASSUME Discovery, steady, ~birth, NEW t \in Topics,
                      shown'[t] \notin {shown[t], NoReading}
               PROVE  t \in created
    OBVIOUS
  <2>1. [Next]_gatewayVars
    BY <1>1, ObservedStep
  <2>2. PICK p \in NewReadings :
          pc = "readings" /\ Publishable(p) /\ t = Substitute(p.raw.sender)
    BY <1>1, <2>1, OnlyReadingsShow
  <2>3. m_Connected /\ link = "session"
    BY <1>1, <2>2
       DEF Publishable, GatewayInv, LinkInv, SteadyInv, Up
  <2>4. NewTransmitters = {}
    BY <1>1, <2>2, <2>3 DEF SteadyInv
  <2>5. p.raw.sender \in DOMAIN items /\ Known(p.raw.sender)
    BY <1>1, <2>4 DEF ReadingsListed, Known
  <2> QED BY <1>1, <2>2, <2>3, <2>5 DEF CreatedInv
<1>2. [][HNext]_vars /\ []GatewayInv /\ []SteadyInv /\ []CreatedInv
        /\ []ReadingsListed => [][Safe]_vars
  BY <1>1, PTL
<1> QED
  BY <1>2, HistoryGatewayInv, SteadyInvariant, CreatedInvariant,
     ReadingsListedInvariant, PTL DEF HSpec, CreatedBeforeReading

-----------------------------------------------------------------------------
(* Bursts.  The item of a sender holds the burst the observer has seen,    *)
(* and none when it is blanked or gone; a reading on its way to a topic is *)
(* the burst behind the last report of its sender.                         *)
Burst == [reading : Readings \cup {NoReading}, count : Nat]

BurstOf(s) ==
  IF s \in DOMAIN items /\ items[s].raw # Blank
    THEN [reading |-> items[s].raw.reading, count |-> items[s].frames]
    ELSE NoBurst

BurstInv ==
  /\ burst \in [Senders -> Burst]
  /\ \A s \in Senders : burst[s] = BurstOf(s)

ReportedInv ==
  \A p \in NewReadings :
    /\ reported[p.raw.sender].reading = p.raw.reading
    /\ reported[p.raw.sender].count = p.frames

(* A frame the decoder thread adds lengthens its sender's burst in the     *)
(* table as in the observer's notes.                                       *)
LEMMA AddKeepsBurst ==
  ASSUME StorageInv, BurstInv, NEW raw \in Frame \cup Garbage,
         Add(raw), ObserveFrame(raw)
  PROVE  BurstInv'
<1>1. CASE raw \notin Frame
  BY <1>1 DEF BurstInv, BurstOf, Add, ObserveFrame, IsValid
<1>2. CASE raw \in Frame
  <2> DEFINE id == raw.sender
             next == [reading |-> raw.reading,
                      count |-> IF burst[id].reading = raw.reading
                                  THEN IncreaseFrameCounter(burst[id].count)
                                  ELSE 1]
  <2>1. GetSenderId(raw) = id /\ id \in Senders /\ raw.reading \in Readings
    BY <1>2, StoredIsItem DEF StorageInv, Frame
  <2>2. items' = [s \in DOMAIN items \cup {id} |->
                    IF s = id THEN Stored(raw) ELSE items[s]]
    BY <1>2, <2>1 DEF Add, IsValid
  <2>3. burst' = [burst EXCEPT ![id] = next]
    BY <1>2 DEF ObserveFrame, IsValid
  <2>4. burst[id] \in Burst
    BY <2>1 DEF BurstInv
  <2>5. next \in Burst
    BY <2>1, <2>4, DataAssumption DEF Burst, IncreaseFrameCounter
  <2>6. next = [reading |-> Stored(raw).raw.reading,
                count |-> Stored(raw).frames] /\ Stored(raw).raw # Blank
    <3>1. IncreaseFrameCounter(0) = 1
      BY DataAssumption DEF IncreaseFrameCounter
    <3>2. raw # Blank /\ raw.reading # NoReading
      BY <1>2, <2>1, BlankIsNoFrame, ConfigAssumption
    <3>3. burst[id] = BurstOf(id)
      BY <2>1 DEF BurstInv
    <3>4. CASE id \notin DOMAIN items
      <4>1. burst[id].reading = NoReading
        BY <3>3, <3>4 DEF BurstOf, NoBurst
      <4>2. Stored(raw) = FirstFrame(raw)
        BY <2>1, <3>4 DEF Stored
      <4> QED BY <3>1, <3>2, <4>1, <4>2 DEF FirstFrame
    <3>5. CASE id \in DOMAIN items /\ items[id].raw = raw
      <4>1. burst[id] = [reading |-> raw.reading, count |-> items[id].frames]
        BY <3>2, <3>3, <3>5 DEF BurstOf
      <4>2. Stored(raw) = SameFrame(items[id]) /\ items[id] \in Item
        BY <2>1, <3>5 DEF Stored, StorageInv, TypeOK
      <4> QED BY <3>2, <3>5, <4>1, <4>2 DEF SameFrame, Item
    <3>6. CASE id \in DOMAIN items /\ items[id].raw # raw
      <4>1. Stored(raw) = NewPacket(items[id], raw) /\ items[id] \in Item
        BY <2>1, <3>6 DEF Stored, StorageInv, TypeOK
      <4>2. burst[id].reading # raw.reading
        <5>1. CASE items[id].raw = Blank
          BY <3>2, <3>3, <5>1 DEF BurstOf, NoBurst
        <5>2. CASE items[id].raw # Blank
          <6>1. items[id].raw \in Frame /\ items[id].raw.sender = raw.sender
            BY <3>6, <4>1, <5>2 DEF StorageInv, KeyMatchesPacket, Item
          <6>2. items[id].raw.reading # raw.reading
            BY <1>2, <3>6, <6>1 DEF Frame
          <6> QED BY <3>3, <3>6, <5>2, <6>2 DEF BurstOf
        <5> QED BY <5>1, <5>2
      <4> QED BY <3>1, <3>2, <4>1, <4>2 DEF NewPacket, Item
    <3> QED BY <3>4, <3>5, <3>6
  <2> HIDE DEF next
  <2>7. BurstOf(id)' = next
    BY <2>2, <2>6 DEF BurstOf
  <2>8. \A s \in Senders \ {id} : BurstOf(s)' = BurstOf(s)
    BY <2>2 DEF BurstOf
  <2> QED BY <2>1, <2>3, <2>5, <2>7, <2>8 DEF BurstInv
<1> QED BY <1>1, <1>2

(* UpdateStatus reports the bursts the observer saw.                       *)
LEMMA SweepKeepsBurst ==
  ASSUME GatewayInv, BurstInv, UpdateSweep, ObserveLoop
  PROVE  BurstInv' /\ ReportedInv'
<1>1. /\ NewReadings = {} /\ RemovedTransmitters = {} /\ pc = "update"
      /\ Sweep /\ StorageInv
  BY DEF GatewayInv, Places, UpdateSweep
<1>2. Read = Settled /\ Leaving = Silent
  BY <1>1, SweepBlanks DEF Read, Leaving
<1>3. burst' = [s \in Senders |-> IF s \in Settled \cup Silent THEN NoBurst
                                  ELSE burst[s]]
  BY <1>2 DEF ObserveLoop
<1>4. NoBurst \in Burst
  BY DEF NoBurst, Burst
<1>5. \A s \in Senders : burst'[s] = BurstOf(s)'
  BY <1>1, <1>3, SweepBlanks DEF BurstInv, BurstOf
<1>6. BurstInv'
  BY <1>3, <1>4, <1>5 DEF BurstInv
<1>7. ASSUME NEW p \in NewReadings'
      PROVE  /\ reported'[p.raw.sender].reading = p.raw.reading
             /\ reported'[p.raw.sender].count = p.frames
  <2>1. /\ p.raw.sender \in DOMAIN items'
        /\ p.raw.sender \in DOMAIN items /\ p.raw.sender \in Read
        /\ p.raw.sender \in Senders
    BY <1>1, <1>7, SweepFacts DEF Read, StorageInv, TypeOK
  <2>2. reported'[p.raw.sender] = burst[p.raw.sender]
    BY <2>1 DEF ObserveLoop
  <2>3. burst[p.raw.sender] = [reading |-> p.raw.reading, count |-> p.frames]
    BY <1>1, <1>7, <2>1, SweepFacts DEF BurstInv, BurstOf
  <2> QED BY <2>2, <2>3
<1> QED BY <1>6, <1>7 DEF ReportedInv

(* Every step of the main thread keeps the bursts and the reported ones.   *)
LEMMA MainKeepsBurst ==
  ASSUME GatewayInv, BurstInv, ReportedInv, HMainThread
  PROVE  BurstInv' /\ ReportedInv'
<1>1. CASE UpdateSweep
  BY <1>1, SweepKeepsBurst DEF HMainThread
<1>2. CASE ~ UpdateSweep
  <2>1. /\ Read = {} /\ Leaving = {}
        /\ items' = items /\ NewReadings' \subseteq NewReadings
    <3> USE <1>2 DEF Read, Leaving, HMainThread, GatewayInv, Places,
                     storageVars, report
    <3>1. CASE Boot \/ WaitTimeout \/ WaitStopped \/ Count \/ Leave
      BY <3>1 DEF Boot, WaitTimeout, WaitStopped, Count, Leave
    <3>2. CASE UpdateSample
      BY <3>2 DEF UpdateSample, SampleNow
    <3>3. CASE \E id \in Senders : Announce(id) \/ Confirm(id) \/ Retire(id)
      BY <3>3 DEF Announce, Confirm, Retire
    <3>4. CASE RetireEnd \/ \E p \in NewReadings : HandleReading(p)
      BY <3>4 DEF RetireEnd, HandleReading
    <3>5. CASE LoopIdle \/ LoopConnack \/ LoopMessage \/ LoopFails
      BY <3>5 DEF LoopIdle, LoopConnack, LoopMessage, LoopFails
    <3>6. CASE \/ \E answer \in {"connecting", "refused", "closed"} :
                    Reconnect(answer)
               \/ \E id \in Senders : Farewell(id)
      BY <3>6 DEF Reconnect, Farewell
    <3> QED
      BY <1>2, <3>1, <3>2, <3>3, <3>4, <3>5, <3>6 DEF MainThread
  <2>2. /\ burst' = [s \in Senders |-> burst[s]]
        /\ reported' = [s \in Senders |-> reported[s]]
    BY <2>1 DEF HMainThread, ObserveLoop
  <2>3. \A s \in Senders : BurstOf(s)' = BurstOf(s)
    BY <2>1 DEF BurstOf
  <2>4. \A p \in NewReadings : p.raw.sender \in Senders
    BY DEF GatewayInv, StorageInv, TypeOK, Packet, Frame
  <2>5. BurstInv'
    BY <2>2, <2>3 DEF BurstInv
  <2> QED BY <2>1, <2>2, <2>4, <2>5 DEF ReportedInv
<1> QED BY <1>1, <1>2

(* Every step keeps them.                                                  *)
LEMMA NextKeepsBurst ==
  ASSUME GatewayInv, BurstInv, ReportedInv, [HNext]_vars
  PROVE  BurstInv' /\ ReportedInv'
<1>1. CASE HMainThread
  BY <1>1, MainKeepsBurst
<1>2. CASE \E raw \in Frame \cup Garbage : HDecoderAdds(raw)
  <2>1. PICK raw \in Frame \cup Garbage : HDecoderAdds(raw)
    BY <1>2
  <2>2. BurstInv'
    BY <2>1, AddKeepsBurst DEF GatewayInv, HDecoderAdds, DecoderAdds
  <2>3. UNCHANGED <<NewReadings, reported>>
    BY <2>1 DEF HDecoderAdds, DecoderAdds, Add, ObserveFrame, report
  <2> QED BY <2>2, <2>3 DEF ReportedInv
<1>3. CASE HEnvironment /\ TimePasses
  <2>1. \A s \in Senders : BurstOf(s)' = BurstOf(s)
    BY <1>3, TickFacts DEF BurstOf, TimePasses, GatewayInv
  <2>2. UNCHANGED <<NewReadings, burst, reported>>
    BY <1>3, TickFacts DEF HEnvironment, TimePasses, GatewayInv, report
  <2> QED BY <2>1, <2>2 DEF BurstInv, ReportedInv
<1>4. CASE HEnvironment /\ (AskToStop \/ LinkBreaks \/ HubRestarts)
  BY <1>4 DEF HEnvironment, AskToStop, LinkBreaks, HubRestarts, storageVars,
              BurstInv, BurstOf, ReportedInv
<1>5. CASE HProgramCrashes
  BY <1>5 DEF HProgramCrashes, ProgramCrashes, StorageStarts, ObserveStart,
              BurstInv, BurstOf, ReportedInv, Burst, NoBurst
<1>6. CASE UNCHANGED vars
  BY <1>6 DEF vars, gatewayVars, historyVars, storageVars, BurstInv, BurstOf,
              ReportedInv
<1> QED
  BY <1>1, <1>2, <1>3, <1>4, <1>5, <1>6 DEF HNext, HEnvironment

(* So the table holds the bursts that were seen, and the reports name      *)
(* them.                                                                   *)
LEMMA BurstInvariant == HSpec => [](BurstInv /\ ReportedInv)
<1>1. HInit => BurstInv /\ ReportedInv
  BY DEF HInit, Init, StorageInit, BurstInv, BurstOf, ReportedInv, Burst,
         NoBurst
<1> QED BY <1>1, NextKeepsBurst, HistoryGatewayInv, PTL DEF HSpec

(* README: the program accepts data only when the minimum of valid frames  *)
(* was received, and data from ignored transmitters is not sent: whatever  *)
(* is published was received in that many identical frames in a row, from  *)
(* a transmitter of the topic that is not ignored.                         *)
THEOREM OnlyReceivedIsPublished == HSpec => PublishedWasReceived
<1> DEFINE Backed ==
      \A t \in Topics :
        shown'[t] \notin {shown[t], NoReading} =>
          \E s \in Senders \ Ignored :
            /\ Substitute(s) = t
            /\ reported[s].reading = shown'[t]
            /\ reported[s].count >= MinimumFrames
<1>1. ASSUME GatewayInv, ReportedInv, [HNext]_vars
      PROVE  Backed
  <2> SUFFICES ASSUME NEW t \in Topics,
                      shown'[t] \notin {shown[t], NoReading}
               PROVE  \E s \in Senders \ Ignored :
                        /\ Substitute(s) = t
                        /\ reported[s].reading = shown'[t]
                        /\ reported[s].count >= MinimumFrames
    OBVIOUS
  <2>1. [Next]_gatewayVars
    BY <1>1, ObservedStep
  <2>2. PICK p \in NewReadings : /\ Publishable(p)
                                 /\ p.raw.sender \in Senders
                                 /\ t = Substitute(p.raw.sender)
                                 /\ shown'[t] = p.raw.reading
    BY <1>1, <2>1, OnlyReadingsShow
  <2>3. GetSenderId(p.raw) = p.raw.sender
    BY <1>1, BlankIsNoFrame
       DEF GatewayInv, StorageInv, TypeOK, Packet, GetSenderId
  <2> QED BY <1>1, <2>2, <2>3 DEF Publishable, ReportedInv
<1>2. [][HNext]_vars /\ []GatewayInv /\ [](BurstInv /\ ReportedInv)
        => [][Backed]_vars
  BY <1>1, PTL
<1> QED
  BY <1>2, HistoryGatewayInv, BurstInvariant, PTL
     DEF HSpec, PublishedWasReceived

-----------------------------------------------------------------------------
(* Words on the topics.  Whoever joined again since the report that drops  *)
(* it is still to be reported as new; those the loops have announced are   *)
(* listed, about to be retired, or orphans.                                *)
Accounted == DOMAIN items \cup RemovedTransmitters \cup orphans

ReportInv ==
  /\ \A s \in RemovedTransmitters \cap DOMAIN items : items[s].isNew
  /\ pc = "announce" => NewTransmitters \ todo \subseteq Accounted
  /\ pc = "confirm" => NewTransmitters \subseteq Accounted

(* Every step keeps that those announced are listed, about to be retired,  *)
(* or orphans.                                                             *)
LEMMA ReportKept ==
  ASSUME GatewayInv, ReportInv, [HNext]_vars
  PROVE  ReportInv'
<1> USE DEF ReportInv, Accounted, GatewayInv, Places, programVars, report,
            storageVars, Done
<1>1. CASE HMainThread
  <2> USE DEF HMainThread, ObserveLoop, Handled
  <2>1. CASE Boot \/ WaitTimeout \/ WaitStopped \/ Count \/ Leave
    BY <1>1, <2>1 DEF Boot, WaitTimeout, WaitStopped, Count, Leave
  <2>2. CASE UpdateSample
    BY <1>1, <2>2 DEF UpdateSample, SampleNow
  <2>3. CASE UpdateSweep
    BY <1>1, <2>3, SweepFacts DEF UpdateSweep
  <2>4. CASE \E id \in Senders : Announce(id)
    BY <1>1, <2>4 DEF Announce
  <2>5. CASE \E id \in Senders : Confirm(id)
    BY <1>1, <2>5 DEF Confirm, Cleared
  <2>6. CASE \E id \in Senders : Retire(id) \/ Farewell(id)
    BY <1>1, <2>6 DEF Retire, Farewell
  <2>7. CASE RetireEnd \/ \E p \in NewReadings : HandleReading(p)
    BY <1>1, <2>7 DEF RetireEnd, HandleReading
  <2>8. CASE LoopIdle \/ LoopConnack \/ LoopMessage \/ LoopFails
    BY <1>1, <2>8 DEF LoopIdle, LoopConnack, LoopMessage, LoopFails
  <2>9. CASE \E answer \in {"connecting", "refused", "closed"} :
               Reconnect(answer)
    BY <1>1, <2>9 DEF Reconnect
  <2> QED
    BY <1>1, <2>1, <2>2, <2>3, <2>4, <2>5, <2>6, <2>7, <2>8, <2>9
       DEF MainThread
<1>2. CASE \E raw \in Frame \cup Garbage : HDecoderAdds(raw)
  BY <1>2, AddFacts DEF HDecoderAdds, DecoderAdds, ObserveFrame
<1>3. CASE HEnvironment /\ TimePasses
  BY <1>3, TickFacts DEF HEnvironment, TimePasses
<1>4. CASE HEnvironment /\ (AskToStop \/ LinkBreaks \/ HubRestarts)
  BY <1>4 DEF HEnvironment, AskToStop, LinkBreaks, HubRestarts
<1>5. CASE HProgramCrashes
  BY <1>5 DEF HProgramCrashes, ProgramCrashes, StorageStarts, ProgramStarts
<1>6. CASE UNCHANGED vars
  BY <1>6 DEF vars, gatewayVars, historyVars
<1> QED
  BY <1>1, <1>2, <1>3, <1>4, <1>5, <1>6 DEF HNext, HEnvironment

(* So it is in every state.                                                *)
LEMMA ReportInvariant == HSpec => []ReportInv
<1>1. HInit => ReportInv
  BY DEF HInit, Init, StorageInit, ReportInv
<1> QED BY <1>1, ReportKept, HistoryGatewayInv, PTL DEF HSpec

(* While no word was lost.  A topic all of whose transmitters are known is *)
(* online: the last of them to become known was just confirmed.  A topic   *)
(* that is online has a transmitter that is accounted for: the others were *)
(* all retired.                                                            *)
Attentive == steady /\ faults.restart = 0

LoopWords ==
  Attentive =>
    /\ pc = "confirm" => \A s \in NewTransmitters \ todo :
                           avail[Substitute(s)] = "online"
    /\ pc = "retire" => \A s \in RemovedTransmitters \ todo :
                          avail[Substitute(s)] # "online"

KnownAreOnline ==
  Attentive /\ pc \notin {"farewell", "done"} =>
    \A t \in Topics :
      (\A s \in Senders : Substitute(s) = t => Known(s)) => avail[t] = "online"

OnlineAreAccounted ==
  Attentive /\ faults.crash = 0 /\ pc \notin {"farewell", "done"} =>
    \A t \in Topics :
      avail[t] = "online" =>
        \E s \in Senders : /\ Substitute(s) = t
                           /\ s \in Accounted \cup NewTransmitters

WordsInv == LoopWords /\ KnownAreOnline /\ OnlineAreAccounted

(* A word said while the connection stands is heard on the sender's topic. *)
LEMMA WordIsHeard ==
  ASSUME GatewayInv, SteadyInv, steady, pc # "done",
         NEW id \in Senders, NEW w, SensorStatus(id, w)
  PROVE  /\ avail'[Substitute(id)] = w
         /\ \A t \in Topics \ {Substitute(id)} : avail'[t] = avail[t]
<1>1. avail' = [avail EXCEPT ![Substitute(id)] = w]
  BY DEF SensorStatus, SteadyInv
<1>2. DOMAIN avail = Topics
  BY DEF GatewayInv, WordTypes
<1> QED BY <1>1, <1>2, SubstituteIsTopic

(* The loop that announces a transmitter puts its topic online.            *)
LEMMA AnnounceKeepsWords ==
  ASSUME GatewayInv, SteadyInv, ReportInv, WordsInv, ObserveLoop, ObserveLink,
         NEW id \in Senders, Announce(id)
  PROVE  WordsInv'
<1>1. /\ pc = "announce" /\ id \in todo /\ todo \subseteq NewTransmitters
      /\ pc' \in {"announce", "confirm"}
      /\ pc' = "confirm" => todo' = NewTransmitters'
      /\ UNCHANGED <<items, NewTransmitters, RemovedTransmitters, faults>>
  BY DEF Announce, Done, GatewayInv, Places, storageVars, linkVars
<1>2. orphans \subseteq orphans'
  BY <1>1 DEF ObserveLoop
<1>3. steady' => steady
  BY LinkObserved
<1>4. steady => SensorStatus(id, "online")
  BY DEF Announce
<1>5. LoopWords'
  BY <1>1 DEF LoopWords
<1>6. KnownAreOnline'
  BY <1>1, <1>3, <1>4, WordIsHeard
     DEF KnownAreOnline, Attentive, WordsInv, Known
<1>7. OnlineAreAccounted'
  BY <1>1, <1>2, <1>3, <1>4, WordIsHeard
     DEF OnlineAreAccounted, Attentive, WordsInv, Accounted
<1> QED BY <1>5, <1>6, <1>7 DEF WordsInv

(* The loop that confirms it after its sensors exist says online again.    *)
LEMMA ConfirmKeepsWords ==
  ASSUME GatewayInv, SteadyInv, ReportInv, WordsInv, ObserveLoop, ObserveLink,
         NEW id \in Senders, Confirm(id)
  PROVE  WordsInv'
<1>1. /\ pc = "confirm" /\ id \in todo /\ todo \subseteq NewTransmitters
      /\ UNCHANGED <<items, RemovedTransmitters, faults>>
      /\ \/ pc' = "confirm" /\ todo' = todo \ {id}
            /\ NewTransmitters' = NewTransmitters
         \/ pc' = "retire" /\ todo = {id} /\ todo' = RemovedTransmitters
            /\ NewTransmitters' = {}
  BY DEF Confirm, Cleared, Done, GatewayInv, Places, linkVars
<1>2. orphans' = orphans
  BY <1>1 DEF ObserveLoop
<1>3. steady' => steady
  BY LinkObserved
<1>4. SensorStatus(id, "online") /\ NewTransmitters \subseteq Senders
  BY DEF Confirm, GatewayInv, StorageInv, TypeOK
<1>5. steady => \A s \in NewTransmitters :
                  Substitute(s) \in Topics /\ (s = id \/ s \notin todo =>
                  (Attentive => avail'[Substitute(s)] = "online"))
  BY <1>1, <1>4, WordIsHeard, SubstituteIsTopic DEF WordsInv, LoopWords
<1>6. LoopWords'
  BY <1>1, <1>3, <1>5 DEF LoopWords, Attentive
<1>7. KnownAreOnline'
  <2>1. SUFFICES ASSUME Attentive', NEW t \in Topics,
                        \A s \in Senders : Substitute(s) = t => Known(s)'
                 PROVE  avail'[t] = "online"
    BY DEF KnownAreOnline
  <2>2. CASE t = Substitute(id)
    BY <1>1, <1>3, <1>4, <2>1, <2>2, WordIsHeard DEF Attentive
  <2>3. CASE t # Substitute(id) /\ avail[t] = "online"
    BY <1>1, <1>3, <1>4, <2>1, <2>3, WordIsHeard DEF Attentive
  <2>4. CASE \E s \in NewTransmitters : Substitute(s) = t
    BY <1>1, <1>3, <1>4, <1>5, <2>1, <2>4 DEF Attentive, Known
  <2>5. CASE \A s \in NewTransmitters : Substitute(s) # t
    <3>1. \A s \in Senders : Substitute(s) = t => Known(s)
      BY <1>1, <2>1, <2>5 DEF Known
    <3> QED
      BY <1>1, <1>3, <2>1, <2>2, <2>3, <3>1
         DEF WordsInv, KnownAreOnline, Attentive
  <2> QED BY <2>4, <2>5
<1>8. OnlineAreAccounted'
  BY <1>1, <1>2, <1>3, <1>4, WordIsHeard
     DEF OnlineAreAccounted, Attentive, WordsInv, Accounted, ReportInv
<1> QED BY <1>6, <1>7, <1>8 DEF WordsInv

(* The loop over those removed takes a topic offline only with its last    *)
(* transmitter.                                                            *)
LEMMA RetireKeepsWords ==
  ASSUME GatewayInv, SteadyInv, ReportInv, WordsInv, ObserveLoop, ObserveLink,
         NEW id \in Senders, Retire(id)
  PROVE  WordsInv'
<1>1. /\ pc = "retire" /\ id \in todo /\ todo \subseteq RemovedTransmitters
      /\ UNCHANGED <<items, NewTransmitters, RemovedTransmitters, faults>>
      /\ pc' = "retire" /\ todo' = todo \ {id}
  BY DEF Retire, Done, GatewayInv, Places, storageVars, linkVars
<1>2. orphans' = orphans \ {id}
  BY <1>1 DEF ObserveLoop, Handled
<1>3. steady' => steady
  BY LinkObserved
<1>4. SensorStatus(id, "offline") /\ RemovedTransmitters \subseteq Senders
  BY DEF Retire, WordOfRetire, GatewayInv, StorageInv, TypeOK
<1>5. LoopWords'
  BY <1>1, <1>3, <1>4, WordIsHeard, SubstituteIsTopic
     DEF LoopWords, Attentive, WordsInv
<1>6. KnownAreOnline'
  BY <1>1, <1>3, <1>4, WordIsHeard
     DEF KnownAreOnline, Attentive, WordsInv, Known, ReportInv
<1>7. OnlineAreAccounted'
  BY <1>1, <1>2, <1>3, <1>4, WordIsHeard
     DEF OnlineAreAccounted, Attentive, WordsInv, Accounted
<1> QED BY <1>5, <1>6, <1>7 DEF WordsInv

(* A report changes who is accounted for, and not what was said.           *)
LEMMA SweepKeepsWords ==
  ASSUME GatewayInv, WordsInv, ObserveLoop, ObserveLink, UpdateSweep
  PROVE  WordsInv'
<1>1. /\ pc = "update" /\ RemovedTransmitters = {} /\ NewReadings = {}
      /\ \/ pc' = "announce"
         \/ pc' = "retire" /\ todo' = RemovedTransmitters'
      /\ UNCHANGED <<avail, faults>>
  BY DEF UpdateSweep, GatewayInv, Places, linkVars, subscriber, sensorWords
<1>2. /\ DOMAIN items' = DOMAIN items \ RemovedTransmitters'
      /\ NewTransmitters' = NewTransmitters \cup Fresh
  BY <1>1, SweepFacts DEF UpdateSweep, GatewayInv
<1>3. orphans' = orphans
  BY <1>1 DEF ObserveLoop
<1>4. steady' => steady
  BY LinkObserved
<1>5. LoopWords'
  BY <1>1 DEF LoopWords
<1>6. KnownAreOnline'
  BY <1>1, <1>2, <1>4 DEF KnownAreOnline, Attentive, WordsInv, Known, Fresh
<1>7. OnlineAreAccounted'
  BY <1>1, <1>2, <1>3, <1>4
     DEF OnlineAreAccounted, Attentive, WordsInv, Accounted
<1> QED BY <1>5, <1>6, <1>7 DEF WordsInv

(* A step that says nothing of a sensor, tells no arrival or departure and *)
(* ends none of the loops.                                                 *)
LEMMA OthersKeepWords ==
  ASSUME GatewayInv, WordsInv, ObserveLink,
         UNCHANGED <<avail, faults, NewTransmitters, RemovedTransmitters,
                     orphans>>,
         DOMAIN items \subseteq DOMAIN items',
         \A s \in DOMAIN items' :
           ~ items'[s].isNew => s \in DOMAIN items /\ ~ items[s].isNew,
         UNCHANGED <<pc, todo>> \/ pc' \notin {"confirm", "retire"},
         pc \in {"farewell", "done"} => pc' \in {"farewell", "done"}
  PROVE  WordsInv'
<1>1. steady' => steady
  BY LinkObserved
<1>2. LoopWords'
  BY <1>1 DEF LoopWords, Attentive, WordsInv
<1>3. KnownAreOnline'
  BY <1>1 DEF KnownAreOnline, Attentive, WordsInv, Known
<1>4. OnlineAreAccounted'
  BY <1>1 DEF OnlineAreAccounted, Attentive, WordsInv, Accounted
<1> QED BY <1>2, <1>3, <1>4 DEF WordsInv

(* Every step of the main thread keeps the topics as ProcessLoop tells     *)
(* them.                                                                   *)
LEMMA MainKeepsWords ==
  ASSUME GatewayInv, SteadyInv, ReportInv, WordsInv, HMainThread
  PROVE  WordsInv'
<1> USE DEF HMainThread, ObserveLoop, Handled, GatewayInv, Places,
            programVars, linkVars, subscriber, sensorWords, storageVars,
            report
<1>1. CASE Boot \/ WaitTimeout \/ WaitStopped \/ Count
  BY <1>1, OthersKeepWords DEF Boot, WaitTimeout, WaitStopped, Count
<1>2. CASE UpdateSample
  BY <1>2, OthersKeepWords DEF UpdateSample, SampleNow
<1>3. CASE UpdateSweep
  BY <1>3, SweepKeepsWords
<1>4. CASE \E id \in Senders : Announce(id)
  BY <1>4, AnnounceKeepsWords
<1>5. CASE \E id \in Senders : Confirm(id)
  BY <1>5, ConfirmKeepsWords
<1>6. CASE \E id \in Senders : Retire(id)
  BY <1>6, RetireKeepsWords
<1>7. CASE RetireEnd
  <2>1. /\ pc = "retire" /\ todo = {} /\ pc' \in {"readings", "loop"}
        /\ RemovedTransmitters' = {}
        /\ UNCHANGED <<items, NewTransmitters, orphans, avail, faults>>
    BY <1>7 DEF RetireEnd
  <2>2. steady' => steady
    BY LinkObserved
  <2>3. LoopWords' /\ KnownAreOnline'
    BY <2>1, <2>2 DEF LoopWords, KnownAreOnline, Attentive, WordsInv, Known
  <2>4. OnlineAreAccounted'
    BY <2>1, <2>2
       DEF OnlineAreAccounted, LoopWords, Attentive, WordsInv, Accounted
  <2> QED BY <2>3, <2>4 DEF WordsInv
<1>8. CASE \E p \in NewReadings : HandleReading(p)
  BY <1>8, OthersKeepWords DEF HandleReading
<1>9. CASE LoopIdle \/ LoopConnack \/ LoopMessage \/ LoopFails
  BY <1>9, OthersKeepWords DEF LoopIdle, LoopConnack, LoopMessage, LoopFails
<1>10. CASE \E answer \in {"connecting", "refused", "closed"} :
              Reconnect(answer)
  BY <1>10, OthersKeepWords DEF Reconnect
<1>11. CASE Leave \/ \E id \in Senders : Farewell(id)
  BY <1>11 DEF Leave, Farewell, Done, WordsInv, LoopWords, KnownAreOnline,
               OnlineAreAccounted
<1> QED
  BY <1>1, <1>2, <1>3, <1>4, <1>5, <1>6, <1>7, <1>8, <1>9, <1>10, <1>11
     DEF MainThread

(* So does every other step, which says nothing of a sensor.               *)
LEMMA NextKeepsWords ==
  ASSUME GatewayInv, SteadyInv, ReportInv, WordsInv, [HNext]_vars
  PROVE  WordsInv'
<1> USE DEF programVars, linkVars, subscriber, sensorWords, storageVars,
            report
<1>1. CASE HMainThread
  BY <1>1, MainKeepsWords
<1>2. CASE \E raw \in Frame \cup Garbage : HDecoderAdds(raw)
  BY <1>2, AddFacts, OthersKeepWords
     DEF HDecoderAdds, DecoderAdds, ObserveFrame, GatewayInv
<1>3. CASE HEnvironment /\ TimePasses
  BY <1>3, TickFacts, OthersKeepWords DEF HEnvironment, TimePasses, GatewayInv
<1>4. CASE HEnvironment /\ AskToStop
  BY <1>4, OthersKeepWords DEF HEnvironment, AskToStop
<1>5. CASE HEnvironment /\ (LinkBreaks \/ HubRestarts)
  <2>1. faults \in [Faults -> Nat] /\ {"restart", "crash"} \subseteq Faults
    BY DEF GatewayInv, ProgramTypes, Faults
  <2>2. CASE LinkBreaks
    <3>1. ~ Up' /\ pc' = pc
      BY <2>2 DEF LinkBreaks, Up
    <3>2. pc = "done" \/ ~ steady'
      BY <1>5, <3>1, LinkObserved DEF HEnvironment
    <3> QED
      BY <3>1, <3>2 DEF WordsInv, LoopWords, KnownAreOnline, Attentive,
                        OnlineAreAccounted
  <2>3. CASE HubRestarts
    <3>1. faults'.restart # 0
      BY <2>1, <2>3 DEF HubRestarts, Happens
    <3> QED
      BY <3>1 DEF WordsInv, LoopWords, KnownAreOnline, Attentive,
                  OnlineAreAccounted
  <2> QED BY <1>5, <2>2, <2>3
<1>6. CASE HProgramCrashes
  <2>1. faults \in [Faults -> Nat] /\ {"restart", "crash"} \subseteq Faults
    BY DEF GatewayInv, ProgramTypes, Faults
  <2>2. faults'.crash # 0
    BY <1>6, <2>1 DEF HProgramCrashes, ProgramCrashes, Happens
  <2>3. pc' = "boot" /\ DOMAIN items' = {}
    BY <1>6
       DEF HProgramCrashes, ProgramCrashes, ProgramStarts, StorageStarts
  <2>4. KnownAreOnline'
    BY <2>3 DEF KnownAreOnline, Known, Topics
  <2> QED
    BY <2>2, <2>3, <2>4 DEF WordsInv, LoopWords, OnlineAreAccounted
<1>7. CASE UNCHANGED vars
  BY <1>7 DEF vars, gatewayVars, historyVars, WordsInv, LoopWords,
              KnownAreOnline, OnlineAreAccounted, Attentive, Known, Accounted
<1> QED
  BY <1>1, <1>2, <1>3, <1>4, <1>5, <1>6, <1>7 DEF HNext, HEnvironment

(* So the topics are as ProcessLoop tells them in every state.             *)
LEMMA WordsInvariant == HSpec => []WordsInv
<1>1. HInit => WordsInv
  BY DEF HInit, Init, StorageInit, WordsInv, LoopWords, KnownAreOnline,
         OnlineAreAccounted, Known, Topics
<1> QED
  BY <1>1, NextKeepsWords, SteadyInvariant, ReportInvariant,
     HistoryGatewayInv, PTL DEF HSpec

(* On a connection that never failed, a topic is online when all of its    *)
(* transmitters are announced and listed, and is not when all have left:   *)
(* however many share it, and in whatever order they come and go.          *)
THEOREM OnlineOnlyIfListed == HSpec => []OnlineMeansListed
<1>1. ASSUME WordsInv PROVE OnlineMeansListed
  <2> SUFFICES ASSUME steady, faults.restart = 0,
                      pc \notin {"farewell", "done"}, NEW t \in Topics
               PROVE  LET users == {s \in Senders : Substitute(s) = t}
                      IN  /\ users \subseteq {s \in Senders : Known(s)} =>
                               avail[t] = "online"
                          /\ avail[t] = "online" /\ faults.crash = 0 =>
                               users \cap (DOMAIN items \cup NewTransmitters
                                 \cup RemovedTransmitters \cup orphans) # {}
    BY DEF OnlineMeansListed
  <2>1. (\A s \in Senders : Substitute(s) = t => Known(s))
          => avail[t] = "online"
    BY <1>1 DEF WordsInv, KnownAreOnline, Attentive
  <2>2. avail[t] = "online" /\ faults.crash = 0 =>
          \E s \in Senders : /\ Substitute(s) = t
                             /\ s \in Accounted \cup NewTransmitters
    BY <1>1 DEF WordsInv, OnlineAreAccounted, Attentive
  <2> QED BY <2>1, <2>2 DEF Accounted
<1> QED BY <1>1, WordsInvariant, PTL

-----------------------------------------------------------------------------
(* The count.  What GatewayUpdate was last given is what the subscribers   *)
(* heard last, so it need not be repeated.                                 *)
CountInv ==
  Attentive /\ ActiveTransmitters # -1 => active = ActiveTransmitters

(* After Count of a connection that holds, subscribers know the number of  *)
(* listed transmitters.                                                    *)
LEMMA CountStep ==
  ASSUME GatewayInv, SteadyInv, CountInv, Count, Attentive
  PROVE  /\ active' = Cardinality(DOMAIN items)
         /\ ActiveTransmitters' = Cardinality(DOMAIN items)
<1>1. Cardinality(DOMAIN items) # -1
  BY CountOfItems DEF GatewayInv, StorageInv
<1>2. Up
  BY DEF Count, SteadyInv, Attentive
<1>3. ActiveTransmitters' = Cardinality(DOMAIN items)
  BY DEF Count
<1>4. CASE Cardinality(DOMAIN items) = ActiveTransmitters
  BY <1>1, <1>4 DEF Count, CountChanged, CountInv
<1>5. CASE Cardinality(DOMAIN items) # ActiveTransmitters
  BY <1>2, <1>5 DEF Count, CountChanged, GatewayUpdate
<1> QED BY <1>3, <1>4, <1>5

(* Only Count speaks of the count and goes from there to the loop.         *)
LEMMA OnlyCountSpeaks ==
  ASSUME [Next]_gatewayVars
  PROVE  \/ Count
         \/ HubRestarts
         \/ ProgramCrashes
         \/ /\ UNCHANGED <<active, ActiveTransmitters, faults>>
            /\ ~ (pc = "count" /\ pc' = "loop")
         \/ LinkBreaks
<1> USE DEF programVars, linkVars, subscriber, hubWords
<1>1. CASE Boot \/ WaitTimeout \/ WaitStopped \/ Leave
  BY <1>1 DEF Boot, WaitTimeout, WaitStopped, Leave
<1>2. CASE UpdateSample \/ UpdateSweep
  BY <1>2 DEF UpdateSample, UpdateSweep
<1>3. CASE \E id \in Senders : Announce(id) \/ Confirm(id) \/ Retire(id)
  BY <1>3 DEF Announce, Confirm, Retire
<1>4. CASE RetireEnd \/ \E p \in NewReadings : HandleReading(p)
  BY <1>4 DEF RetireEnd, HandleReading
<1>5. CASE LoopIdle \/ LoopConnack \/ LoopMessage \/ LoopFails
  BY <1>5 DEF LoopIdle, LoopConnack, LoopMessage, LoopFails
<1>6. CASE \/ \E answer \in {"connecting", "refused", "closed"} :
                Reconnect(answer)
           \/ \E id \in Senders : Farewell(id)
  BY <1>6 DEF Reconnect, Farewell
<1>7. CASE \E raw \in Frame \cup Garbage : DecoderAdds(raw)
  BY <1>7 DEF DecoderAdds
<1>8. CASE AskToStop \/ TimePasses
  BY <1>8 DEF AskToStop, TimePasses
<1>9. CASE UNCHANGED gatewayVars
  BY <1>9 DEF gatewayVars
<1> QED
  BY <1>1, <1>2, <1>3, <1>4, <1>5, <1>6, <1>7, <1>8, <1>9
     DEF Next, MainThread, Environment

(* Every step keeps that the number last sent is the one that was heard.   *)
LEMMA CountKept ==
  ASSUME GatewayInv, SteadyInv, CountInv, [HNext]_vars
  PROVE  CountInv'
<1>a. [Next]_gatewayVars
  BY ObservedStep
<1>b. faults \in [Faults -> Nat] /\ {"restart", "crash"} \subseteq Faults
  BY DEF GatewayInv, ProgramTypes, Faults
<1>c. ProgramCrashes \/ (steady' => steady)
  BY LinkObserved DEF HNext, HMainThread, HDecoderAdds, HEnvironment,
     HProgramCrashes, vars, historyVars
<1>1. CASE Count
  <2>1. faults' = faults /\ ~ ProgramCrashes
    BY <1>1 DEF Count, ProgramCrashes, ProgramStarts, linkVars
  <2> QED BY <1>1, <1>c, <2>1, CountStep DEF CountInv, Attentive
<1>2. CASE HubRestarts
  BY <1>2, <1>b DEF HubRestarts, Happens, CountInv, Attentive
<1>3. CASE ProgramCrashes
  BY <1>3 DEF ProgramCrashes, ProgramStarts, CountInv
<1>4. CASE UNCHANGED <<active, ActiveTransmitters, faults>>
  BY <1>3, <1>4, <1>c DEF CountInv, Attentive
<1>5. CASE LinkBreaks
  <2>1. UNCHANGED <<active, ActiveTransmitters>>
    BY <1>5 DEF LinkBreaks, programVars
  <2>2. faults'.restart = faults.restart
    BY <1>5, <1>b DEF LinkBreaks, Happens
  <2> QED BY <1>3, <1>c, <2>1, <2>2 DEF CountInv, Attentive
<1> QED BY <1>a, <1>1, <1>2, <1>3, <1>4, <1>5, OnlyCountSpeaks

(* So it is in every state.                                                *)
LEMMA CountInvariant == HSpec => []CountInv
<1>1. HInit => CountInv
  BY DEF HInit, Init, CountInv
<1> QED
  BY <1>1, CountKept, SteadyInvariant, HistoryGatewayInv, PTL DEF HSpec

(* README: the number of active transmitters is published.  ProcessLoop    *)
(* sends it when it changed only, and what it remembers having sent is     *)
(* what was heard, so after every batch the subscribers know the number.   *)
THEOREM CountIsAlwaysHeard == HSpec => CountIsHeard
<1> DEFINE Heard == steady /\ faults.restart = 0 /\ pc = "count"
                      /\ pc' = "loop" => active' = Cardinality(DOMAIN items)
<1>1. ASSUME GatewayInv, SteadyInv, CountInv, [HNext]_vars
      PROVE  Heard
  <2>1. [Next]_gatewayVars
    BY <1>1, ObservedStep
  <2>2. pc = "count" /\ pc' = "loop" => Count
    BY <2>1, OnlyCountSpeaks
       DEF HubRestarts, ProgramCrashes, ProgramStarts, LinkBreaks, programVars
  <2> QED BY <1>1, <2>2, CountStep DEF Attentive
<1>2. [][HNext]_vars /\ []GatewayInv /\ []SteadyInv /\ []CountInv
        => [][Heard]_vars
  BY <1>1, PTL
<1> QED
  BY <1>2, HistoryGatewayInv, SteadyInvariant, CountInvariant, PTL
     DEF HSpec, CountIsHeard

-----------------------------------------------------------------------------
(* Every step of the gateway is one that Availability allows.              *)

(* A word of SensorStatus is one that Say may or may not make heard.       *)
LEMMA StatusSays ==
  ASSUME NEW id \in Senders, NEW w, SensorStatus(id, w)
  PROVE  Words!Say(id, w)
  BY DEF SensorStatus, Words!Say

(* Announcing a transmitter is a greeting of the abstract protocol.        *)
LEMMA AnnounceGreets ==
  ASSUME GatewayInv, NEW id \in Senders, Announce(id)
  PROVE  Words!Greet(id)
<1>1. /\ pc = "announce" /\ id \in todo /\ todo \subseteq NewTransmitters
      /\ UNCHANGED <<items, NewTransmitters, RemovedTransmitters>>
      /\ \/ pc' = "announce" /\ todo' = todo \ {id}
         \/ pc' = "confirm" /\ todo = {id}
  BY DEF Announce, Done, GatewayInv, Places, storageVars
<1>2. Words!Say(id, "online")
  BY StatusSays DEF Announce
<1> QED BY <1>1, <1>2 DEF Words!Greet

(* So is confirming it.                                                    *)
LEMMA ConfirmGreets ==
  ASSUME GatewayInv, NEW id \in Senders, Confirm(id)
  PROVE  Words!Greet(id)
<1>1. /\ pc = "confirm" /\ id \in todo /\ todo \subseteq NewTransmitters
      /\ UNCHANGED <<items, RemovedTransmitters>>
      /\ \/ pc' = "confirm" /\ NewTransmitters' = NewTransmitters
         \/ pc' = "retire" /\ NewTransmitters' = {}
            /\ todo' = RemovedTransmitters
  BY DEF Confirm, Cleared, Done, GatewayInv, Places
<1>2. Words!Say(id, "online")
  BY StatusSays DEF Confirm
<1> QED BY <1>1, <1>2 DEF Words!Greet

(* Retiring a transmitter is a dismissal.                                  *)
LEMMA RetireDismisses ==
  ASSUME GatewayInv, NEW id \in Senders, Retire(id)
  PROVE  Words!Dismiss(id)
<1>1. /\ pc = "retire" /\ id \in todo /\ todo \subseteq RemovedTransmitters
      /\ UNCHANGED <<items, NewTransmitters, RemovedTransmitters>>
      /\ pc' = "retire" /\ todo' = todo \ {id}
  BY DEF Retire, Done, GatewayInv, Places, storageVars
<1>2. Words!Say(id, "offline")
  BY StatusSays DEF Retire, WordOfRetire
<1> QED BY <1>1, <1>2 DEF Words!Dismiss, Words!registryVars

(* The offline of one sensor on the way out is a farewell.                 *)
LEMMA FarewellImplements ==
  ASSUME GatewayInv, NEW id \in Senders, Farewell(id)
  PROVE  Words!Farewell(id)
<1>1. /\ pc = "farewell" /\ id \in DOMAIN items /\ pc' = "farewell"
      /\ UNCHANGED <<items, NewTransmitters, RemovedTransmitters>>
  BY DEF Farewell, Done, GatewayInv, Places, storageVars
<1>2. Words!Say(id, "offline")
  BY StatusSays DEF Farewell
<1> QED BY <1>1, <1>2 DEF Words!Farewell, Words!registryVars, Words!said

(* UpdateStatus changes the list as the abstract protocol allows.          *)
LEMMA SweepReports ==
  ASSUME GatewayInv, UpdateSweep
  PROVE  Words!ListChanges
<1>1. /\ pc = "update" /\ RemovedTransmitters = {} /\ NewReadings = {}
      /\ \/ pc' = "announce" /\ todo' = NewTransmitters'
         \/ pc' = "retire" /\ todo' = RemovedTransmitters'
      /\ avail' = avail
  BY DEF UpdateSweep, GatewayInv, Places, subscriber, sensorWords
<1>2. /\ DOMAIN items' = DOMAIN items \ RemovedTransmitters'
      /\ RemovedTransmitters' \subseteq DOMAIN items
      /\ \A s \in DOMAIN items' : ~ items'[s].isNew
      /\ NewTransmitters' = NewTransmitters \cup Fresh
  BY <1>1, SweepFacts DEF UpdateSweep, GatewayInv
<1>3. PICK gone : gone = RemovedTransmitters'
  OBVIOUS
<1>4. gone \in SUBSET DOMAIN items /\ Words!Report(gone)
  BY <1>1, <1>2, <1>3 DEF Words!Report, Fresh
<1>5. UNCHANGED Words!said
  BY <1>1 DEF Words!said
<1>6. UNCHANGED <<avail, Words!said, pc \in {"farewell", "done"}>>
  BY <1>1, <1>5
<1>7. ~ (pc \in {"farewell", "done"})
  BY <1>1
<1> QED BY <1>4, <1>6, <1>7, Zenon DEF Words!ListChanges

(* What the decoder thread adds is an arrival, or nothing to the protocol. *)
LEMMA AddArrives ==
  ASSUME GatewayInv, NEW raw \in Frame \cup Garbage, DecoderAdds(raw)
  PROVE  [Words!ANext]_(Words!availabilityVars)
<1>1. /\ pc \notin {"farewell", "done"}
      /\ UNCHANGED <<pc, todo, avail, NewTransmitters, RemovedTransmitters>>
  BY DEF DecoderAdds, Add, report, GatewayInv, Places, programVars,
         subscriber, sensorWords
<1>2. CASE raw \in Frame /\ raw.sender \notin DOMAIN items
  <2>1. raw.sender \in Senders /\ GetSenderId(raw) = raw.sender
    BY <1>2, StoredIsItem DEF GatewayInv, StorageInv
  <2>2. DOMAIN items' = DOMAIN items \cup {raw.sender}
    BY <1>2, <2>1 DEF DecoderAdds, Add, IsValid
  <2>3. {s \in DOMAIN items' : items'[s].isNew}
          = {s \in DOMAIN items : items[s].isNew} \cup {raw.sender}
    BY <1>2, <2>2, AddFacts DEF DecoderAdds, GatewayInv
  <2>4. Words!Arrive(raw.sender)
    BY <1>1, <1>2, <2>2, <2>3 DEF Words!Arrive
  <2> QED
    BY <1>1, <2>1, <2>4 DEF Words!ANext, Words!ListChanges, Words!said
<1>3. CASE ~ (raw \in Frame /\ raw.sender \notin DOMAIN items)
  <2>1. DOMAIN items' = DOMAIN items
    BY <1>3, StoredIsItem DEF DecoderAdds, Add, IsValid, GatewayInv, StorageInv
  <2>2. {s \in DOMAIN items' : items'[s].isNew}
          = {s \in DOMAIN items : items[s].isNew}
    BY <2>1, AddFacts DEF DecoderAdds, GatewayInv
  <2> QED
    BY <1>1, <2>1, <2>2
       DEF Words!availabilityVars, Words!registryVars, Words!said
<1> QED BY <1>2, <1>3

(* A step at which nothing is said, and nobody comes or goes.              *)
LEMMA SilentStep ==
  ASSUME UNCHANGED <<avail, NewTransmitters, RemovedTransmitters>>,
         DOMAIN items' = DOMAIN items,
         \A s \in DOMAIN items : items'[s].isNew = items[s].isNew,
         \/ UNCHANGED <<pc, todo>>
         \/ {pc, pc'} \cap {"announce", "confirm", "retire"} = {}
            /\ (pc \in {"farewell", "done"} <=> pc' \in {"farewell", "done"})
  PROVE  UNCHANGED Words!availabilityVars
<1>1. {s \in DOMAIN items' : items'[s].isNew}
        = {s \in DOMAIN items : items[s].isNew}
  OBVIOUS
<1>2. (pc' \in {"farewell", "done"}) = (pc \in {"farewell", "done"})
  OBVIOUS
<1>3. UNCHANGED Words!said
  BY DEF Words!said
<1> QED
  BY <1>1, <1>2, <1>3 DEF Words!availabilityVars, Words!registryVars

(* Every step of the main thread is one of the protocol, or none.          *)
LEMMA MainImplements ==
  ASSUME GatewayInv, MainThread
  PROVE  [Words!ANext]_(Words!availabilityVars)
<1> USE DEF GatewayInv, Places, subscriber, sensorWords, storageVars, report
<1>1. CASE Boot \/ WaitTimeout \/ Count \/ Leave
  BY <1>1, SilentStep DEF Boot, WaitTimeout, Count, Leave
<1>2. CASE WaitStopped
  <2>1. /\ pc = "wait" /\ pc' = "farewell" /\ RemovedTransmitters = {}
        /\ UNCHANGED <<avail, items, NewTransmitters, RemovedTransmitters>>
    BY <1>2 DEF WaitStopped
  <2>2. Words!Close
    BY <2>1 DEF Words!Close, Words!registryVars, Words!said
  <2> QED BY <2>2 DEF Words!ANext
<1>3. CASE UpdateSample
  BY <1>3, SilentStep DEF UpdateSample, SampleNow, programVars
<1>4. CASE UpdateSweep
  BY <1>4, SweepReports DEF Words!ANext
<1>5. CASE \E id \in Senders : Announce(id) \/ Confirm(id)
  BY <1>5, AnnounceGreets, ConfirmGreets DEF Words!ANext
<1>6. CASE \E id \in Senders : Retire(id)
  BY <1>6, RetireDismisses DEF Words!ANext
<1>7. CASE RetireEnd
  <2>1. /\ pc = "retire" /\ pc' \in {"readings", "loop"} /\ todo = {}
        /\ RemovedTransmitters' = {}
        /\ UNCHANGED <<avail, items, NewTransmitters>>
    BY <1>7 DEF RetireEnd
  <2>2. Words!DeparturesDone
    BY <2>1 DEF Words!DeparturesDone
  <2> QED BY <2>2 DEF Words!ANext
<1>8. CASE \E p \in NewReadings : HandleReading(p)
  BY <1>8, SilentStep DEF HandleReading
<1>9. CASE LoopIdle \/ LoopConnack \/ LoopMessage \/ LoopFails
  BY <1>9, SilentStep DEF LoopIdle, LoopConnack, LoopMessage, LoopFails
<1>10. CASE \E answer \in {"connecting", "refused", "closed"} :
              Reconnect(answer)
  BY <1>10, SilentStep DEF Reconnect
<1>11. CASE \E id \in Senders : Farewell(id)
  BY <1>11, FarewellImplements DEF Words!ANext
<1> QED
  BY <1>1, <1>2, <1>3, <1>4, <1>5, <1>6, <1>7, <1>8, <1>9, <1>10, <1>11
     DEF MainThread

(* Every step of the gateway is one of the protocol, or none.              *)
LEMMA NextImplements ==
  ASSUME GatewayInv, [Next]_gatewayVars
  PROVE  [Words!ANext]_(Words!availabilityVars)
<1> USE DEF programVars, subscriber, sensorWords, storageVars, report
<1>1. CASE MainThread
  BY <1>1, MainImplements
<1>2. CASE \E raw \in Frame \cup Garbage : DecoderAdds(raw)
  BY <1>2, AddArrives
<1>3. CASE TimePasses
  BY <1>3, TickFacts, SilentStep DEF TimePasses, GatewayInv
<1>4. CASE AskToStop \/ LinkBreaks
  BY <1>4, SilentStep DEF AskToStop, LinkBreaks
<1>5. CASE HubRestarts
  <2>1. /\ avail' = [t \in Topics |-> "unknown"]
        /\ UNCHANGED <<pc, todo, items, NewTransmitters, RemovedTransmitters>>
    BY <1>5 DEF HubRestarts
  <2>2. Words!SubscriberRestarts
    BY <2>1 DEF Words!SubscriberRestarts, Words!Silence, Words!registryVars,
                Words!said
  <2> QED BY <2>2 DEF Words!ANext
<1>6. CASE ProgramCrashes
  <2>1. /\ pc' = "boot" /\ DOMAIN items' = {} /\ avail' = avail
        /\ NewTransmitters' = {} /\ RemovedTransmitters' = {}
    BY <1>6 DEF ProgramCrashes, ProgramStarts, StorageStarts
  <2>2. Words!ProgramRestarts
    BY <2>1 DEF Words!ProgramRestarts
  <2> QED BY <2>2 DEF Words!ANext
<1>7. CASE UNCHANGED gatewayVars
  BY <1>7, SilentStep DEF gatewayVars
<1> QED
  BY <1>1, <1>2, <1>3, <1>4, <1>5, <1>6, <1>7 DEF Next, Environment

(* What the subscribers hear of availability follows the protocol of       *)
(* Availability, for any number of transmitters and shared topics, and     *)
(* whatever breaks and restarts: no arrival and no departure is passed     *)
(* over, and no word is said of a transmitter that did not come or go.     *)
THEOREM GatewayImplementsAvailability == HSpec => ImplementsAvailability
<1>1. HInit => Words!AInit
  BY DEF HInit, Init, StorageInit, Words!AInit, Words!Init, Words!Silence
<1>2. ASSUME GatewayInv, [HNext]_vars
      PROVE  [Words!ANext]_(Words!availabilityVars)
  BY <1>2, ObservedStep, NextImplements
<1> QED
  BY <1>1, <1>2, HistoryGatewayInv, PTL
     DEF HSpec, ImplementsAvailability, Words!ASpec
=============================================================================
