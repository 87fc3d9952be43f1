------------------------ MODULE PacketStorageProofs ------------------------
(***************************************************************************)
(* Proofs about PacketStorage, for any transmitters, readings, timeouts    *)
(* and clock jumps.                                                        *)
(***************************************************************************)
EXTENDS PacketStorage, TLAPS

(* A clipped age is an age: the bound of the model, not of the code.       *)
LEMMA ClipInRange == \A a \in Int : Clip(a) \in Age
  BY TimeAssumption DEF Clip, Age

(* A fresh item and an updated one are items again; the frame counter      *)
(* never exceeds its limit.                                                *)
LEMMA CounterInRange ==
  \A n \in 0 .. FrameCap : IncreaseFrameCounter(n) \in 1 .. FrameCap
  BY DataAssumption DEF IncreaseFrameCounter

(* No frame is the blank raw value.                                        *)
LEMMA BlankIsNoFrame == Blank \notin Frame
  BY DataAssumption

(* What Add files under the sender of a valid frame is an item of that     *)
(* sender, announced if it was there to be announced or is new.            *)
LEMMA StoredIsItem ==
  ASSUME TypeOK, NEW raw \in Frame
  PROVE  /\ GetSenderId(raw) = raw.sender
         /\ raw.sender \in Senders
         /\ Stored(raw) \in Item
         /\ Stored(raw).raw = raw
         /\ Stored(raw).isNew =
              IF raw.sender \in DOMAIN items THEN items[raw.sender].isNew
              ELSE TRUE
<1> DEFINE id == raw.sender
<1>1. GetSenderId(raw) = id /\ id \in Senders
  BY BlankIsNoFrame DEF GetSenderId, Frame
<1>2. 0 \in Age /\ IncreaseFrameCounter(0) \in 1 .. FrameCap
  BY TimeAssumption, DataAssumption, CounterInRange DEF Age
<1>3. CASE id \notin DOMAIN items
  <2>1. Stored(raw) = FirstFrame(raw)
    BY <1>1, <1>3 DEF Stored
  <2> QED
    BY <1>1, <1>2, <1>3, <2>1 DEF FirstFrame, Item
<1>4. CASE id \in DOMAIN items
  <2>1. items[id] \in Item
    BY <1>4 DEF TypeOK
  <2>2. CASE items[id].raw = raw
    <3>1. Stored(raw) = SameFrame(items[id])
      BY <1>1, <1>4, <2>2 DEF Stored
    <3>2. IncreaseFrameCounter(items[id].frames) \in 1 .. FrameCap
      BY <2>1, CounterInRange DEF Item
    <3> QED
      BY <1>1, <1>2, <1>4, <2>1, <2>2, <3>1, <3>2 DEF SameFrame, Item
  <2>3. CASE items[id].raw # raw
    <3>1. Stored(raw) = NewPacket(items[id], raw)
      BY <1>1, <1>4, <2>3 DEF Stored
    <3> QED
      BY <1>1, <1>2, <1>4, <2>1, <3>1 DEF NewPacket, Item
  <2> QED BY <2>2, <2>3
<1> QED BY <1>3, <1>4

-----------------------------------------------------------------------------
(* The invariant the proofs carry: the report can be trusted only because  *)
(* keys and packets agree, so the two parts are inductive together only.   *)
StorageInv == TypeOK /\ KeyMatchesPacket

(* The invariant of the storage holds of the empty table.                  *)
LEMMA InitStorageInv == StorageInit => StorageInv
  BY TimeAssumption
     DEF StorageInit, StorageInv, TypeOK, KeyMatchesPacket, Age

(* Adding any frame keeps it, also one that is garbage.                    *)
LEMMA AddKeepsInv ==
  ASSUME StorageInv, NEW raw \in Frame \cup Garbage, Add(raw)
  PROVE  StorageInv'
<1>1. CASE raw \in Frame
  <2> DEFINE id == raw.sender
  <2>1. /\ GetSenderId(raw) = id
        /\ id \in Senders
        /\ Stored(raw) \in Item
        /\ Stored(raw).raw = raw
    BY <1>1, StoredIsItem DEF StorageInv
  <2>2. items' = [s \in DOMAIN items \cup {id} |->
                    IF s = id THEN Stored(raw) ELSE items[s]]
    BY <1>1, <2>1 DEF Add, IsValid
  <2>3. TypeOK'
    BY <2>1, <2>2 DEF StorageInv, TypeOK, Add, report
  <2>4. KeyMatchesPacket'
    BY <1>1, <2>1, <2>2, BlankIsNoFrame DEF StorageInv, KeyMatchesPacket
  <2> QED BY <2>3, <2>4 DEF StorageInv
<1>2. CASE raw \notin Frame
  BY <1>2 DEF Add, IsValid, report, StorageInv, TypeOK, KeyMatchesPacket
<1> QED BY <1>1, <1>2

(* UpdateStatus keeps it.                                                  *)
LEMMA SweepKeepsInv ==
  ASSUME StorageInv, Sweep
  PROVE  StorageInv'
<1> USE DEF StorageInv
<1>1. \A s \in DOMAIN items : items[s] \in Item /\ s \in Senders
  BY DEF TypeOK
<1>2. \A s \in DOMAIN items :
        /\ Swept(s) \in Item
        /\ ~ Swept(s).isNew
        /\ Swept(s).raw \in {items[s].raw, Blank}
  BY <1>1 DEF Swept, Item
<1>3. \A s \in Settled :
        /\ items[s].raw \in Frame
        /\ items[s].frames \in 1 .. FrameCap
  BY <1>1 DEF Settled, Item
<1>4. NewReadings' \subseteq Packet
  BY <1>3 DEF Sweep, TypeOK, Packet
<1>5. \A s \in Fresh : GetSenderId(items[s].raw) = s
  BY DEF Fresh, KeyMatchesPacket, GetSenderId
<1>6. NewTransmitters' \subseteq Senders
  BY <1>5 DEF Sweep, TypeOK, Fresh
<1>7. RemovedTransmitters' \subseteq Senders
  BY DEF Sweep, TypeOK, Silent
<1>8. items' = [s \in DOMAIN items \ RemovedTransmitters' |-> Swept(s)]
  BY DEF Sweep
<1>9. /\ DOMAIN items' \subseteq Senders
      /\ items' \in [DOMAIN items' -> Item]
  BY <1>1, <1>2, <1>8
<1>10. TypeOK'
  BY <1>4, <1>6, <1>7, <1>9, TimeAssumption DEF TypeOK, Sweep, Age
<1>11. KeyMatchesPacket'
  BY <1>2, <1>8 DEF KeyMatchesPacket
<1> QED BY <1>10, <1>11

(* A clock that moves or is set, in any direction, keeps it.               *)
LEMMA ClockKeepsInv ==
  ASSUME StorageInv, NEW d \in Int, ClockMoves(d)
  PROVE  StorageInv'
<1> USE DEF StorageInv
<1>1. \A s \in DOMAIN items :
        /\ items[s] \in Item
        /\ Clip(items[s].age + d) \in Age
  BY ClipInRange DEF TypeOK, Item, Age
<1>2. lag' \in Age
  BY ClipInRange DEF ClockMoves, TypeOK, Age
<1>3. items' = [s \in DOMAIN items |->
                  [items[s] EXCEPT !.age = Clip(@ + d)]]
  BY DEF ClockMoves
<1>4. \A s \in DOMAIN items :
        /\ items'[s] \in Item
        /\ items'[s].raw = items[s].raw
        /\ items'[s].isNew = items[s].isNew
  BY <1>1, <1>3 DEF Item
<1>5. TypeOK'
  BY <1>2, <1>3, <1>4 DEF TypeOK, ClockMoves, report
<1>6. KeyMatchesPacket'
  BY <1>3, <1>4 DEF KeyMatchesPacket
<1> QED BY <1>5, <1>6

(* Every step of the storage keeps it.                                     *)
LEMMA NextKeepsInv == StorageInv /\ [StorageNext]_storageVars => StorageInv'
<1> SUFFICES ASSUME StorageInv, [StorageNext]_storageVars
             PROVE  StorageInv'
  OBVIOUS
<1>1. CASE \E raw \in Frame \cup Garbage : Add(raw)
  BY <1>1, AddKeepsInv
<1>2. CASE SampleNow
  BY <1>2, TimeAssumption
     DEF SampleNow, report, StorageInv, TypeOK, KeyMatchesPacket, Age
<1>3. CASE Sweep
  BY <1>3, SweepKeepsInv
<1>4. CASE Collect
  BY <1>4 DEF Collect, StorageInv, TypeOK, KeyMatchesPacket
<1>5. CASE Tick
  BY <1>5, ClockKeepsInv DEF Tick
<1>6. CASE \E d \in ClockSteps : StepClock(d)
  BY <1>6, ClockKeepsInv, TimeAssumption DEF StepClock
<1>7. CASE UNCHANGED storageVars
  BY <1>7 DEF storageVars, StorageInv, TypeOK, KeyMatchesPacket
<1> QED
  BY <1>1, <1>2, <1>3, <1>4, <1>5, <1>6, <1>7 DEF StorageNext

(* Both parts of the invariant hold in every state: the types, with the    *)
(* frame counter within its limit and reports that name transmitters only; *)
(* and the agreement of keys and packets.                                  *)
THEOREM StorageInvariant == StorageSpec => []StorageInv
  BY InitStorageInv, NextKeepsInv, PTL DEF StorageSpec

(* The table, the report and the clock keep their types, and the frame     *)
(* counter its limit.                                                      *)
THEOREM TypeCorrect == StorageSpec => []TypeOK
  BY StorageInvariant, PTL DEF StorageInv

(* An item of the table holds a packet of the transmitter it is listed     *)
(* under, or none.                                                         *)
THEOREM KeysAndPacketsAgree == StorageSpec => []KeyMatchesPacket
  BY StorageInvariant, PTL DEF StorageInv

-----------------------------------------------------------------------------
(* What the storage's steps do to the table and the report.                *)
LEMMA AddFacts ==
  ASSUME StorageInv, NEW raw \in Frame \cup Garbage, Add(raw)
  PROVE  /\ DOMAIN items \subseteq DOMAIN items'
         /\ \A s \in DOMAIN items' :
              items'[s].isNew <=> s \notin DOMAIN items \/ items[s].isNew
         /\ UNCHANGED report
<1>1. CASE raw \in Frame
  <2>1. GetSenderId(raw) = raw.sender
    BY <1>1, StoredIsItem DEF StorageInv
  <2>2. items' = [s \in DOMAIN items \cup {raw.sender} |->
                    IF s = raw.sender THEN Stored(raw) ELSE items[s]]
    BY <1>1, <2>1 DEF Add, IsValid
  <2>3. Stored(raw).isNew = IF raw.sender \in DOMAIN items
                              THEN items[raw.sender].isNew ELSE TRUE
    BY <1>1, StoredIsItem DEF StorageInv
  <2> QED BY <2>2, <2>3 DEF Add
<1>2. CASE raw \notin Frame
  BY <1>2 DEF Add, IsValid
<1> QED BY <1>1, <1>2

(* What one UpdateStatus does to the table and to an emptied report.       *)
LEMMA SweepFacts ==
  ASSUME StorageInv, RemovedTransmitters = {}, NewReadings = {}, Sweep
  PROVE  /\ DOMAIN items' = DOMAIN items \ RemovedTransmitters'
         /\ RemovedTransmitters' \subseteq DOMAIN items
         /\ \A s \in DOMAIN items' : ~ items'[s].isNew
         /\ NewTransmitters' = NewTransmitters \cup Fresh
         /\ \A p \in NewReadings' :
              /\ p.raw.sender \in DOMAIN items'
              /\ items[p.raw.sender].raw = p.raw
              /\ items[p.raw.sender].frames = p.frames
              /\ items[p.raw.sender].raw # Blank
<1>1. \A s \in Fresh : GetSenderId(items[s].raw) = s
  BY DEF Fresh, StorageInv, KeyMatchesPacket, GetSenderId
<1>2. NewTransmitters' = NewTransmitters \cup Fresh
  BY <1>1 DEF Sweep
<1>3. \A s \in DOMAIN items : ~ Swept(s).isNew
  BY DEF Swept, StorageInv, TypeOK, Item
<1>4. RemovedTransmitters' = Silent /\ Silent \subseteq DOMAIN items
  BY DEF Sweep, Silent
<1>5. \A s \in Settled : s \in DOMAIN items \ Silent /\ items[s].raw.sender = s
  BY DEF Settled, StorageInv, KeyMatchesPacket
<1>6. items' = [s \in DOMAIN items \ Silent |-> Swept(s)]
  BY <1>4 DEF Sweep
<1>7. NewReadings' = {[raw |-> items[s].raw, frames |-> items[s].frames] :
                        s \in Settled}
  BY DEF Sweep
<1>8. \A p \in NewReadings' :
        /\ p.raw.sender \in DOMAIN items \ Silent
        /\ items[p.raw.sender].raw = p.raw
        /\ items[p.raw.sender].frames = p.frames
        /\ items[p.raw.sender].raw # Blank
  BY <1>5, <1>7 DEF Settled
<1> QED BY <1>2, <1>3, <1>4, <1>6, <1>8

(* Which items it removes, which it blanks, and that it leaves the others. *)
LEMMA SweepBlanks ==
  ASSUME StorageInv, NewReadings = {}, RemovedTransmitters = {}, Sweep
  PROVE  /\ {p.raw.sender : p \in NewReadings'} = Settled
         /\ RemovedTransmitters' = Silent
         /\ Settled \subseteq DOMAIN items \ Silent
         /\ DOMAIN items' = DOMAIN items \ Silent
         /\ \A s \in DOMAIN items' :
              /\ items'[s].raw = IF s \in Settled THEN Blank
                                 ELSE items[s].raw
              /\ items'[s].frames = items[s].frames
<1>1. NewReadings' = {[raw |-> items[s].raw, frames |-> items[s].frames] :
                        s \in Settled}
  BY DEF Sweep
<1>2. \A s \in Settled : items[s].raw.sender = s
  BY DEF Settled, StorageInv, KeyMatchesPacket
<1>3. {p.raw.sender : p \in NewReadings'} = Settled
  <2>1. ASSUME NEW p \in NewReadings' PROVE p.raw.sender \in Settled
    BY <1>1, <1>2
  <2>2. ASSUME NEW s \in Settled
        PROVE  s \in {p.raw.sender : p \in NewReadings'}
    <3>1. [raw |-> items[s].raw, frames |-> items[s].frames]
            \in NewReadings'
      BY <1>1
    <3> QED BY <1>2, <3>1
  <2> QED BY <2>1, <2>2
<1>4. RemovedTransmitters' = Silent
  BY DEF Sweep
<1>5. items' = [s \in DOMAIN items \ Silent |-> Swept(s)]
  BY <1>4 DEF Sweep
<1>6. \A s \in DOMAIN items : /\ Swept(s).raw = IF s \in Settled THEN Blank
                                                ELSE items[s].raw
                              /\ Swept(s).frames = items[s].frames
  BY DEF Swept, StorageInv, TypeOK, Item
<1> QED BY <1>3, <1>4, <1>5, <1>6 DEF Settled

(* Time changes the ages only.                                             *)
LEMMA TickFacts ==
  ASSUME StorageInv, Tick
  PROVE  /\ DOMAIN items' = DOMAIN items
         /\ \A s \in DOMAIN items : /\ items'[s].isNew = items[s].isNew
                                    /\ items'[s].raw = items[s].raw
                                    /\ items'[s].frames = items[s].frames
         /\ UNCHANGED report
  BY DEF Tick, ClockMoves, StorageInv, TypeOK, Item

-----------------------------------------------------------------------------
(* UpdateStatus fills sets its caller has emptied: without this fact a     *)
(* departure could be told twice, once per call.                           *)
ReportConsumed ==
  reporter = "sampled" => NewReadings = {} /\ RemovedTransmitters = {}

(* The sets of a report are empty when UpdateStatus is called again.       *)
LEMMA ReportConsumedInvariant == StorageSpec => []ReportConsumed
<1>1. StorageInit => ReportConsumed
  BY DEF StorageInit, ReportConsumed
<1>2. ReportConsumed /\ [StorageNext]_storageVars => ReportConsumed'
  BY DEF ReportConsumed, StorageNext, storageVars, report, Add, SampleNow,
         Sweep, Collect, Tick, StepClock, ClockMoves
<1> QED BY <1>1, <1>2, PTL DEF StorageSpec

(* A frame of an unknown transmitter begins a stay, any other changes      *)
(* nothing the registry tells.                                             *)
LEMMA AddImplements ==
  ASSUME StorageInv, NEW raw \in Frame \cup Garbage, Add(raw)
  PROVE  [Registry!Next]_(Registry!registryVars)
<1>1. CASE raw \in Frame
  <2> DEFINE id == raw.sender
  <2>1. /\ GetSenderId(raw) = id
        /\ id \in Senders
        /\ Stored(raw).isNew =
             IF id \in DOMAIN items THEN items[id].isNew ELSE TRUE
    BY <1>1, StoredIsItem DEF StorageInv
  <2>2. items' = [s \in DOMAIN items \cup {id} |->
                    IF s = id THEN Stored(raw) ELSE items[s]]
    BY <1>1, <2>1 DEF Add, IsValid
  <2>3. /\ NewTransmitters' = NewTransmitters
        /\ RemovedTransmitters' = RemovedTransmitters
    BY DEF Add, report
  <2>4. CASE id \notin DOMAIN items
    <3>1. DOMAIN items' = DOMAIN items \cup {id}
      BY <2>2
    <3>2. Fresh' = Fresh \cup {id}
      BY <2>1, <2>2, <2>4 DEF Fresh
    <3>3. Registry!Arrive(id)
      BY <2>3, <2>4, <3>1, <3>2 DEF Registry!Arrive
    <3> QED BY <2>1, <3>3 DEF Registry!Next
  <2>5. CASE id \in DOMAIN items
    <3>1. DOMAIN items' = DOMAIN items
      BY <2>2, <2>5
    <3>2. Fresh' = Fresh
      BY <2>1, <2>2, <2>5 DEF Fresh
    <3> QED BY <2>3, <3>1, <3>2 DEF Registry!registryVars
  <2> QED BY <2>4, <2>5
<1>2. CASE raw \notin Frame
  <2>1. UNCHANGED <<items, NewTransmitters, RemovedTransmitters>>
    BY <1>2 DEF Add, IsValid, report
  <2> QED BY <2>1 DEF Registry!registryVars, Fresh
<1> QED BY <1>1, <1>2

(* A sweep is a report: it announces who is fresh and drops who is silent. *)
LEMMA SweepImplements ==
  ASSUME StorageInv, ReportConsumed, Sweep
  PROVE  Registry!Next
<1>1. RemovedTransmitters = {}
  BY DEF Sweep, ReportConsumed
<1>2. {GetSenderId(items[s].raw) : s \in Fresh} = Fresh
  BY DEF StorageInv, KeyMatchesPacket, Fresh, GetSenderId
<1>3. NewTransmitters' = NewTransmitters \cup Fresh
  BY <1>2 DEF Sweep
<1>4. RemovedTransmitters' = Silent /\ Silent \in SUBSET DOMAIN items
  BY <1>1 DEF Sweep, Silent
<1>5. items' = [s \in DOMAIN items \ Silent |-> Swept(s)]
  BY <1>4 DEF Sweep
<1>6. \A s \in DOMAIN items : ~ Swept(s).isNew
  BY DEF Swept, StorageInv, TypeOK, Item
<1>7. Fresh' = {}
  BY <1>5, <1>6 DEF Fresh
<1>8. Registry!Report(Silent)
  BY <1>1, <1>3, <1>4, <1>5, <1>7 DEF Registry!Report
<1> QED BY <1>4, <1>8 DEF Registry!Next

(* Time passes or jumps, and the registry does not notice.                 *)
LEMMA ClockImplements ==
  ASSUME StorageInv, NEW d, ClockMoves(d)
  PROVE  UNCHANGED Registry!registryVars
<1>1. DOMAIN items' = DOMAIN items
  BY DEF ClockMoves
<1>2. \A s \in DOMAIN items : items'[s].isNew = items[s].isNew
  BY DEF ClockMoves, StorageInv, TypeOK, Item
<1>3. Fresh' = Fresh
  BY <1>1, <1>2 DEF Fresh
<1> QED BY <1>1, <1>3 DEF ClockMoves, report, Registry!registryVars

(* Every step of the storage is one of TransmitterRegistry, or none.       *)
LEMMA StepImplements ==
  StorageInv /\ ReportConsumed /\ [StorageNext]_storageVars
    => [Registry!Next]_(Registry!registryVars)
<1> SUFFICES ASSUME StorageInv, ReportConsumed, [StorageNext]_storageVars
             PROVE  [Registry!Next]_(Registry!registryVars)
  OBVIOUS
<1>1. CASE \E raw \in Frame \cup Garbage : Add(raw)
  BY <1>1, AddImplements
<1>2. CASE SampleNow
  BY <1>2 DEF SampleNow, report, Fresh, Registry!registryVars
<1>3. CASE Sweep
  BY <1>3, SweepImplements
<1>4. CASE Collect
  <2>1. Registry!Consume
    BY <1>4 DEF Collect, Fresh, Registry!Consume
  <2> QED BY <2>1 DEF Registry!Next
<1>5. CASE Tick
  BY <1>5, ClockImplements DEF Tick
<1>6. CASE \E d \in ClockSteps : StepClock(d)
  BY <1>6, ClockImplements DEF StepClock
<1>7. CASE UNCHANGED storageVars
  BY <1>7 DEF storageVars, Fresh, Registry!registryVars
<1> QED
  BY <1>1, <1>2, <1>3, <1>4, <1>5, <1>6, <1>7 DEF StorageNext

(* PacketStorage implements TransmitterRegistry: whatever the clock, the   *)
(* lag and the frames, every stay is reported once when it begins and once *)
(* when it ends.                                                           *)
THEOREM StorageImplementsRegistry == StorageSpec => ImplementsRegistry
<1>1. StorageInit => Registry!Init
  BY DEF StorageInit, Registry!Init, Fresh
<1> QED
  BY <1>1, StorageInvariant, ReportConsumedInvariant, StepImplements, PTL
     DEF StorageSpec, ImplementsRegistry, Registry!Spec
=============================================================================
