---------------------------- MODULE GatewayProofs ----------------------------
(***************************************************************************)
(* Proofs about Gateway, for any senders, substitutions, filters, faults   *)
(* and orders of events: its types, where the sets of a report are in use, *)
(* and what is known of the connection.                                    *)
(***************************************************************************)
EXTENDS Gateway, PacketStorageProofs, FiniteSetTheorems

-----------------------------------------------------------------------------
(* Storage: the gateway does to the table what PacketStorage does, takes   *)
(* from the report, or starts again.                                       *)
TakesFromReport ==
  /\ UNCHANGED <<items, reporter, lag>>
  /\ NewReadings' \subseteq NewReadings
  /\ RemovedTransmitters' \subseteq RemovedTransmitters
  /\ NewTransmitters' \subseteq NewTransmitters

(* Every step of the gateway is one of these to the table.                 *)
LEMMA StorageSteps ==
  ASSUME [Next]_gatewayVars
  PROVE  \/ TakesFromReport
         \/ \E raw \in Frame \cup Garbage : Add(raw)
         \/ SampleNow \/ Sweep \/ Tick \/ StorageStarts
<1> USE DEF TakesFromReport
<1>1. CASE Boot \/ WaitTimeout \/ WaitStopped \/ Count \/ Leave
  BY <1>1 DEF Boot, WaitTimeout, WaitStopped, Count, Leave, storageVars
<1>2. CASE UpdateSample \/ UpdateSweep
  BY <1>2 DEF UpdateSample, UpdateSweep
<1>3. CASE \E id \in Senders : Announce(id) \/ Confirm(id) \/ Retire(id)
  BY <1>3 DEF Announce, Confirm, Retire, Cleared, storageVars
<1>4. CASE RetireEnd \/ \E p \in NewReadings : HandleReading(p)
  BY <1>4 DEF RetireEnd, HandleReading
<1>5. CASE LoopIdle \/ LoopConnack \/ LoopMessage \/ LoopFails
  BY <1>5 DEF LoopIdle, LoopConnack, LoopMessage, LoopFails, storageVars
<1>6. CASE \/ \E answer \in {"connecting", "refused", "closed"} :
                Reconnect(answer)
           \/ \E id \in Senders : Farewell(id)
  BY <1>6 DEF Reconnect, Farewell, storageVars
<1>7. CASE \E raw \in Frame \cup Garbage : DecoderAdds(raw)
  BY <1>7 DEF DecoderAdds
<1>8. CASE AskToStop \/ LinkBreaks \/ HubRestarts
  BY <1>8 DEF AskToStop, LinkBreaks, HubRestarts, storageVars
<1>9. CASE TimePasses
  BY <1>9 DEF TimePasses
<1>10. CASE ProgramCrashes
  BY <1>10 DEF ProgramCrashes
<1>11. CASE UNCHANGED gatewayVars
  BY <1>11 DEF gatewayVars, storageVars
<1> QED
  BY <1>1, <1>2, <1>3, <1>4, <1>5, <1>6, <1>7, <1>8, <1>9, <1>10, <1>11
     DEF Next, MainThread, Environment

(* So every step keeps the invariant of the storage.                       *)
LEMMA NextKeepsStorage ==
  ASSUME StorageInv, [Next]_gatewayVars
  PROVE  StorageInv'
<1>1. CASE TakesFromReport
  BY <1>1 DEF TakesFromReport, StorageInv, TypeOK, KeyMatchesPacket
<1>2. CASE \E raw \in Frame \cup Garbage : Add(raw)
  BY <1>2, AddKeepsInv
<1>3. CASE SampleNow
  BY <1>3, NextKeepsInv DEF StorageNext
<1>4. CASE Sweep
  BY <1>4, SweepKeepsInv
<1>5. CASE Tick
  BY <1>5, ClockKeepsInv DEF Tick
<1>6. CASE StorageStarts
  BY <1>6, TimeAssumption
     DEF StorageStarts, StorageInv, TypeOK, KeyMatchesPacket, Age
<1> QED BY StorageSteps, <1>1, <1>2, <1>3, <1>4, <1>5, <1>6

(* The storage in the gateway has its invariant in every state.            *)
LEMMA SpecKeepsStorage == Spec => []StorageInv
<1>1. Init => StorageInv
  BY InitStorageInv DEF Init
<1> QED BY <1>1, NextKeepsStorage, PTL DEF Spec

-----------------------------------------------------------------------------
(* The places.                                                             *)

LEMMA LoopKeepsPlaces ==
  ASSUME StorageInv, Places, NEW id \in Senders,
         Announce(id) \/ Confirm(id) \/ Retire(id) \/ Farewell(id)
  PROVE  Places'
<1> USE DEF Places, Done, storageVars
<1>1. CASE Announce(id)
  BY <1>1 DEF Announce
<1>2. CASE Confirm(id)
  BY <1>2 DEF Confirm, Cleared
<1>3. CASE Retire(id)
  BY <1>3 DEF Retire
<1>4. CASE Farewell(id)
  BY <1>4 DEF Farewell
<1> QED BY <1>1, <1>2, <1>3, <1>4

(* UpdateStatus finds the report empty and fills it before the first loop. *)
LEMMA SweepKeepsPlaces ==
  ASSUME StorageInv, Places, UpdateSweep
  PROVE  Places'
  BY DEF UpdateSweep, Sweep, Places

(* Every loop of the main thread empties the set it is over.               *)
LEMMA MainKeepsPlaces ==
  ASSUME StorageInv, Places, MainThread
  PROVE  Places'
<1> USE DEF Places, storageVars
<1>1. CASE Boot
  BY <1>1 DEF Boot
<1>2. CASE WaitTimeout
  BY <1>2 DEF WaitTimeout
<1>3. CASE WaitStopped
  BY <1>3 DEF WaitStopped
<1>4. CASE UpdateSample
  BY <1>4 DEF UpdateSample, SampleNow, programVars, report
<1>5. CASE UpdateSweep
  BY <1>5, SweepKeepsPlaces
<1>6. CASE \E id \in Senders : Announce(id) \/ Confirm(id) \/ Retire(id)
  BY <1>6, LoopKeepsPlaces
<1>7. CASE RetireEnd
  BY <1>7 DEF RetireEnd
<1>8. CASE \E p \in NewReadings : HandleReading(p)
  BY <1>8 DEF HandleReading
<1>9. CASE Count
  BY <1>9 DEF Count
<1>10. CASE LoopIdle \/ LoopConnack \/ LoopMessage \/ LoopFails
  BY <1>10 DEF LoopIdle, LoopConnack, LoopMessage, LoopFails
<1>11. CASE \E answer \in {"connecting", "refused", "closed"} :
              Reconnect(answer)
  BY <1>11 DEF Reconnect
<1>12. CASE \E id \in Senders : Farewell(id)
  BY <1>12, LoopKeepsPlaces
<1>13. CASE Leave
  BY <1>13 DEF Leave
<1> QED
  BY <1>1, <1>2, <1>3, <1>4, <1>5, <1>6, <1>7, <1>8, <1>9, <1>10, <1>11,
     <1>12, <1>13 DEF MainThread

(* Faults and signals touch neither the report nor the loops.              *)
LEMMA EnvironmentKeepsPlaces ==
  ASSUME StorageInv, Places, Environment
  PROVE  Places'
<1> USE DEF Places, storageVars, programVars
<1>1. CASE \E raw \in Frame \cup Garbage : DecoderAdds(raw)
  BY <1>1 DEF DecoderAdds, Add, report
<1>2. CASE AskToStop \/ LinkBreaks \/ HubRestarts
  BY <1>2 DEF AskToStop, LinkBreaks, HubRestarts
<1>3. CASE TimePasses
  BY <1>3 DEF TimePasses, Tick, ClockMoves, report
<1>4. CASE ProgramCrashes
  BY <1>4 DEF ProgramCrashes, StorageStarts, ProgramStarts
<1> QED BY <1>1, <1>2, <1>3, <1>4 DEF Environment

-----------------------------------------------------------------------------
(* Types.                                                                  *)

ProgramTypes ==
  /\ pc \in PCs
  /\ todo \subseteq Senders
  /\ ActiveTransmitters \in -1 .. Cardinality(Senders)
  /\ faults \in [Faults -> Nat]

Flags ==
  /\ m_Connected \in BOOLEAN /\ decoding \in BOOLEAN /\ stop \in BOOLEAN
  /\ birth \in BOOLEAN /\ hubCreated \in BOOLEAN

WordTypes ==
  /\ link \in Links
  /\ avail \in [Topics -> {"unknown", "online", "offline"}]
  /\ created \subseteq Topics
  /\ shown \in [Topics -> Readings \cup {NoReading}]
  /\ gateway \in {"unknown", "online", "offline"}
  /\ active \in -1 .. Cardinality(Senders)

(* There is a count of the senders, and the table has no more of them.     *)
LEMMA CountOfItems ==
  /\ Cardinality(Senders) \in Nat
  /\ TypeOK => /\ IsFiniteSet(DOMAIN items)
               /\ Cardinality(DOMAIN items) \in 0 .. Cardinality(Senders)
<1>1. Cardinality(Senders) \in Nat
  BY FiniteAssumption, FS_CardinalityType
<1>2. ASSUME TypeOK
      PROVE  /\ IsFiniteSet(DOMAIN items)
             /\ Cardinality(DOMAIN items) \in 0 .. Cardinality(Senders)
  <2>1. DOMAIN items \in SUBSET Senders
    BY <1>2 DEF TypeOK
  <2>2. /\ IsFiniteSet(DOMAIN items)
        /\ Cardinality(DOMAIN items) <= Cardinality(Senders)
    BY <2>1, FiniteAssumption, FS_Subset
  <2>3. Cardinality(DOMAIN items) \in Nat
    BY <2>2, FS_CardinalityType
  <2> QED BY <1>1, <2>2, <2>3
<1> QED BY <1>1, <1>2

(* The topic of every sender, substituted or not, is one of Topics.        *)
LEMMA SubstituteIsTopic == \A s \in Senders : Substitute(s) \in Topics
  BY DEF Topics

(* Every step keeps the types of the flags and of the faults left.         *)
LEMMA FlagsKept ==
  ASSUME Flags, [Next]_gatewayVars
  PROVE  Flags'
<1> USE DEF Flags, programVars, linkVars, subscriber, hubWords, sensorWords
<1>1. CASE Boot \/ WaitTimeout \/ WaitStopped \/ Count \/ Leave
  BY <1>1 DEF Boot, WaitTimeout, WaitStopped, Count, Leave
<1>2. CASE UpdateSample \/ UpdateSweep
  BY <1>2 DEF UpdateSample, UpdateSweep
<1>3. CASE \E id \in Senders : Announce(id) \/ Confirm(id) \/ Retire(id)
  BY <1>3 DEF Announce, Confirm, Retire
<1>4. CASE RetireEnd \/ \E p \in NewReadings : HandleReading(p)
  BY <1>4 DEF RetireEnd, HandleReading
<1>5. CASE LoopIdle \/ LoopConnack \/ LoopMessage \/ LoopFails
  BY <1>5 DEF LoopIdle, LoopConnack, LoopMessage, LoopFails, OnConnect,
              OnMessage, GatewayDiscover
<1>6. CASE \/ \E answer \in {"connecting", "refused", "closed"} :
                Reconnect(answer)
           \/ \E id \in Senders : Farewell(id)
  BY <1>6 DEF Reconnect, Farewell
<1>7. CASE \E raw \in Frame \cup Garbage : DecoderAdds(raw)
  BY <1>7 DEF DecoderAdds
<1>8. CASE AskToStop \/ LinkBreaks \/ HubRestarts
  BY <1>8 DEF AskToStop, LinkBreaks, HubRestarts
<1>9. CASE TimePasses
  BY <1>9 DEF TimePasses
<1>10. CASE ProgramCrashes
  BY <1>10 DEF ProgramCrashes, ProgramStarts
<1>11. CASE UNCHANGED gatewayVars
  BY <1>11 DEF gatewayVars
<1> QED
  BY <1>1, <1>2, <1>3, <1>4, <1>5, <1>6, <1>7, <1>8, <1>9, <1>10, <1>11
     DEF Next, MainThread, Environment

(* Every step keeps the types of the program's own variables.              *)
LEMMA ProgramTypesKept ==
  ASSUME StorageInv, StorageInv', ProgramTypes, [Next]_gatewayVars
  PROVE  ProgramTypes'
<1> USE CountOfItems DEF ProgramTypes, PCs, programVars, linkVars, Done
<1>a. TypeOK /\ TypeOK'
  BY DEF StorageInv
<1>1. CASE Boot \/ WaitTimeout \/ WaitStopped \/ Count \/ Leave
  BY <1>1, <1>a DEF Boot, WaitTimeout, WaitStopped, Count, Leave, TypeOK
<1>2. CASE UpdateSample \/ UpdateSweep
  BY <1>2, <1>a DEF UpdateSample, UpdateSweep, TypeOK
<1>3. CASE \E id \in Senders : Announce(id) \/ Confirm(id) \/ Retire(id)
  BY <1>3, <1>a DEF Announce, Confirm, Retire, TypeOK
<1>4. CASE RetireEnd \/ \E p \in NewReadings : HandleReading(p)
  BY <1>4 DEF RetireEnd, HandleReading
<1>5. CASE LoopIdle \/ LoopConnack \/ LoopMessage \/ LoopFails
  BY <1>5 DEF LoopIdle, LoopConnack, LoopMessage, LoopFails
<1>6. CASE \/ \E answer \in {"connecting", "refused", "closed"} :
                Reconnect(answer)
           \/ \E id \in Senders : Farewell(id)
  BY <1>6 DEF Reconnect, Farewell
<1>7. CASE \E raw \in Frame \cup Garbage : DecoderAdds(raw)
  BY <1>7 DEF DecoderAdds
<1>8. CASE AskToStop
  BY <1>8 DEF AskToStop
<1>9. CASE TimePasses
  BY <1>9 DEF TimePasses
<1>10. CASE LinkBreaks \/ HubRestarts
  BY <1>10 DEF LinkBreaks, HubRestarts, Happens, Faults
<1>11. CASE ProgramCrashes
  BY <1>11 DEF ProgramCrashes, ProgramStarts, Happens, Faults
<1>12. CASE UNCHANGED gatewayVars
  BY <1>12 DEF gatewayVars
<1> QED
  BY <1>1, <1>2, <1>3, <1>4, <1>5, <1>6, <1>7, <1>8, <1>9, <1>10, <1>11,
     <1>12 DEF Next, MainThread, Environment

(* Every step keeps the types of what the subscribers have heard.          *)
LEMMA WordTypesKept ==
  ASSUME StorageInv, WordTypes, [Next]_gatewayVars
  PROVE  WordTypes'
<1> USE CountOfItems, SubstituteIsTopic
    DEF WordTypes, Links, subscriber, sensorWords, hubWords, linkVars,
        SensorStatus, SensorDiscover, SensorUpdate, GatewayStatus,
        GatewayUpdate
<1>a. TypeOK
  BY DEF StorageInv
<1>1. CASE Boot \/ WaitTimeout \/ WaitStopped \/ Leave
  BY <1>1 DEF Boot, WaitTimeout, WaitStopped, Leave
<1>2. CASE UpdateSample \/ UpdateSweep
  BY <1>2 DEF UpdateSample, UpdateSweep
<1>3. CASE \E id \in Senders : Announce(id)
  BY <1>3 DEF Announce
<1>4. CASE \E id \in Senders : Confirm(id) \/ Retire(id) \/ Farewell(id)
  BY <1>4 DEF Confirm, Retire, Farewell, WordOfRetire
<1>5. CASE RetireEnd
  BY <1>5 DEF RetireEnd
<1>6. CASE \E p \in NewReadings : HandleReading(p)
  <2>1. PICK p \in NewReadings : HandleReading(p)
    BY <1>6
  <2>2. /\ GetSenderId(p.raw) \in Senders
        /\ p.raw.reading \in Readings
    BY <1>a, BlankIsNoFrame DEF TypeOK, Packet, Frame, GetSenderId
  <2> QED BY <2>1, <2>2 DEF HandleReading
<1>7. CASE Count
  BY <1>7, <1>a DEF Count
<1>8. CASE LoopIdle \/ LoopConnack \/ LoopFails
  BY <1>8 DEF LoopIdle, LoopConnack, LoopFails
<1>9. CASE LoopMessage
  BY <1>9, <1>a DEF LoopMessage, OnMessage, TypeOK
<1>10. CASE \E answer \in {"connecting", "refused", "closed"} :
              Reconnect(answer)
  BY <1>10 DEF Reconnect
<1>11. CASE \E raw \in Frame \cup Garbage : DecoderAdds(raw)
  BY <1>11 DEF DecoderAdds
<1>12. CASE AskToStop \/ TimePasses
  BY <1>12 DEF AskToStop, TimePasses
<1>13. CASE LinkBreaks
  BY <1>13 DEF LinkBreaks, Will
<1>14. CASE HubRestarts
  BY <1>14 DEF HubRestarts
<1>15. CASE ProgramCrashes
  BY <1>15, ConfigAssumption DEF ProgramCrashes, Will
<1>16. CASE UNCHANGED gatewayVars
  BY <1>16 DEF gatewayVars
<1> QED
  BY <1>1, <1>2, <1>3, <1>4, <1>5, <1>6, <1>7, <1>8, <1>9, <1>10, <1>11,
     <1>12, <1>13, <1>14, <1>15, <1>16 DEF Next, MainThread, Environment

-----------------------------------------------------------------------------
(* What is known of the connection: when the program believes in it, it    *)
(* stands or has died since; a retained "online" is one of a connection    *)
(* that stands, for the will replaces it; a session has created the        *)
(* gateway's sensor at the hub, or is still to answer the hub.             *)
LinkInv ==
  /\ m_Connected /\ pc # "done" => link \in {"session", "broken"}
  /\ pc \in {"reconnect", "done"} => link = "closed"
  /\ gateway = "online" => Up
  /\ birth => Discovery /\ link = "session"
  /\ Discovery /\ link = "session" => birth \/ hubCreated
  /\ ~Discovery => created = {}

(* Every step keeps what is known of the connection.                       *)
LEMMA LinkKept ==
  ASSUME Places, LinkInv, [Next]_gatewayVars
  PROVE  LinkInv'
<1> USE DEF LinkInv, Up, programVars, subscriber, sensorWords, hubWords,
            linkVars, Done
<1>1. CASE Boot \/ WaitTimeout \/ WaitStopped \/ Count \/ Leave
  BY <1>1 DEF Boot, WaitTimeout, WaitStopped, Count, Leave, GatewayStatus
<1>2. CASE UpdateSample \/ UpdateSweep
  BY <1>2 DEF UpdateSample, UpdateSweep
<1>3. CASE \E id \in Senders : Announce(id) \/ Confirm(id)
  BY <1>3 DEF Announce, Confirm
<1>4. CASE \E id \in Senders : Retire(id) \/ Farewell(id)
  BY <1>4 DEF Retire, Farewell
<1>5. CASE RetireEnd \/ \E p \in NewReadings : HandleReading(p)
  BY <1>5 DEF RetireEnd, HandleReading
<1>6. CASE LoopIdle \/ LoopFails
  BY <1>6 DEF LoopIdle, LoopFails
<1>7. CASE LoopConnack
  BY <1>7 DEF LoopConnack, OnConnect, GatewayDiscover
<1>8. CASE LoopMessage
  BY <1>8 DEF LoopMessage, OnMessage, GatewayDiscover
<1>9. CASE \E answer \in {"connecting", "refused", "closed"} :
             Reconnect(answer)
  BY <1>9 DEF Reconnect
<1>10. CASE \E raw \in Frame \cup Garbage : DecoderAdds(raw)
  BY <1>10 DEF DecoderAdds
<1>11. CASE AskToStop \/ TimePasses
  BY <1>11 DEF AskToStop, TimePasses
<1>12. CASE LinkBreaks
  BY <1>12 DEF LinkBreaks, Will
<1>13. CASE HubRestarts
  BY <1>13 DEF HubRestarts
<1>14. CASE ProgramCrashes
  BY <1>14, ConfigAssumption DEF ProgramCrashes, ProgramStarts, Will
<1>15. CASE UNCHANGED gatewayVars
  BY <1>15 DEF gatewayVars
<1> QED
  BY <1>1, <1>2, <1>3, <1>4, <1>5, <1>6, <1>7, <1>8, <1>9, <1>10, <1>11,
     <1>12, <1>13, <1>14, <1>15 DEF Next, MainThread, Environment

-----------------------------------------------------------------------------
(* The invariant the proofs about the gateway carry.                       *)
GatewayInv ==
  StorageInv /\ Places /\ ProgramTypes /\ Flags /\ WordTypes /\ LinkInv

(* The invariant of the gateway holds when it starts.                      *)
LEMMA InitGatewayInv == Init => GatewayInv
<1> SUFFICES ASSUME Init
             PROVE  GatewayInv
  OBVIOUS
<1>1. StorageInv
  BY InitStorageInv DEF Init
<1>2. Places
  BY DEF Init, StorageInit, Places
<1>3. Cardinality(Senders) \in Nat
  BY CountOfItems
<1>4. ProgramTypes
  BY <1>3 DEF Init, ProgramTypes, PCs
<1>5. Flags
  BY DEF Init, Flags
<1>6. WordTypes
  BY <1>3, ConfigAssumption DEF Init, WordTypes, Links
<1>7. LinkInv
  BY ConfigAssumption DEF Init, LinkInv
<1> QED BY <1>1, <1>2, <1>4, <1>5, <1>6, <1>7 DEF GatewayInv

(* Every step keeps it.                                                    *)
LEMMA NextKeepsGatewayInv ==
  ASSUME GatewayInv, [Next]_gatewayVars
  PROVE  GatewayInv'
<1> USE DEF GatewayInv
<1>1. StorageInv'
  BY NextKeepsStorage
<1>2. Places'
  <2>1. CASE UNCHANGED gatewayVars
    BY <2>1 DEF gatewayVars, storageVars, programVars, Places
  <2> QED
    BY <2>1, MainKeepsPlaces, EnvironmentKeepsPlaces DEF Next
<1>3. ProgramTypes'
  BY <1>1, ProgramTypesKept
<1> QED BY <1>1, <1>2, <1>3, FlagsKept, WordTypesKept, LinkKept

(* The invariant of the gateway, whatever breaks and restarts.             *)
THEOREM GatewayInvariant == Spec => []GatewayInv
  BY InitGatewayInv, NextKeepsGatewayInv, PTL DEF Spec

(* Every part of the gateway keeps its type, subscribers hear of topics    *)
(* that some transmitter has, and the sets of a report are used where they *)
(* should be: each loop visits what it was given, and an iteration leaves  *)
(* only NewTransmitters to the next.                                       *)
THEOREM GatewayTypesCorrect == Spec => []GatewayTypeOK
<1>1. GatewayInv => GatewayTypeOK
  BY DEF GatewayInv, StorageInv, ProgramTypes, Flags, WordTypes,
         GatewayTypeOK
<1> QED BY <1>1, GatewayInvariant, PTL
=============================================================================
