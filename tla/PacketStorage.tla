--------------------------- MODULE PacketStorage ---------------------------
(***************************************************************************)
(* The table of active transmitters (packetstorage.h, packetstorage.cpp).  *)
(*                                                                         *)
(* Two threads meet here.  The decoder thread calls Add with every group   *)
(* of 36 bits it collects; the main thread calls UpdateStatus about every  *)
(* 1.5 seconds and gets three sets: readings whose burst of frames is      *)
(* over, transmitters that fell silent, and transmitters seen for the      *)
(* first time.  m_Lock makes the body of each call atomic, except that     *)
(* UpdateStatus reads the clock before it takes the lock: SampleNow and    *)
(* Sweep are therefore two actions, and frames and time come in between.   *)
(*                                                                         *)
(* A raw packet is a pair of a sender and a reading; what else the 36 bits *)
(* hold is part of the reading.  A time stamp is kept as the age of the    *)
(* item, so that time need not grow; one unit stands for any duration of   *)
(* at least one millisecond, the resolution of the code's ages.            *)
(***************************************************************************)
EXTENDS Integers

CONSTANTS
  Senders,        \* the sender ids (id and channel) transmitters use
  Readings,       \* what a valid frame tells, sender apart
  Garbage,        \* raw values that Packet::IsValid refuses, Blank among them
  Blank,          \* the raw value 0
  ZeroSender,     \* GetSenderId() of the raw value 0
  FrameCap,       \* where the 8-bit frame counter stops (255)
  ReadingMaxAge,  \* m_ReadingMaxAgeMs (1300 ms)
  SilentTimeout,  \* m_SilentTimeoutSec * 1000 (90 s)
  AgeModulus,     \* 2^32: the age is stored in a uint32_t
  MaxAge,         \* bound: ages are counted from -MaxAge to MaxAge
  MaxLag,         \* bound: time that passes between SampleNow and Sweep
  ClockSteps      \* jumps of the system clock, in units of time

Frame == [sender : Senders, reading : Readings]

(* Frames can be told from what does not carry a valid frame.              *)
ASSUME DataAssumption ==
  /\ Blank \in Garbage
  /\ Garbage \cap Frame = {}
  /\ FrameCap \in Nat \ {0}

(* Ages, timeouts and lags are numbers; the clock can be set either way.   *)
ASSUME TimeAssumption ==
  /\ ReadingMaxAge \in Nat
  /\ SilentTimeout \in Nat
  /\ MaxAge \in Nat
  /\ MaxLag \in Nat
  /\ ClockSteps \subseteq Int
  /\ AgeModulus \in Nat \ {0}

(* The bounds leave room: an age at MaxAge is beyond the timeout even when *)
(* measured MaxLag too early, and a negative age wraps beyond it.          *)
ASSUME BoundAssumption ==
  /\ MaxAge > SilentTimeout + MaxLag
  /\ AgeModulus > 2 * MaxAge + SilentTimeout

VARIABLES
  items,                \* m_Items: sender id -> StorageItem
  reporter,             \* "sampled" while UpdateStatus holds a `now`
  lag,                  \* how far the clock has moved since that sample
  NewReadings,          \* the three sets UpdateStatus fills
  RemovedTransmitters,
  NewTransmitters

report == <<NewReadings, RemovedTransmitters, NewTransmitters>>
storageVars == <<items, reporter, lag, NewReadings, RemovedTransmitters,
                 NewTransmitters>>

Age  == -MaxAge .. MaxAge
Item == [raw : Frame \cup {Blank}, frames : 1 .. FrameCap, age : Age,
         isNew : BOOLEAN]
Packet == [raw : Frame, frames : 1 .. FrameCap]

-----------------------------------------------------------------------------
(* Packet::IsValid and Packet::GetSenderId on the abstract raw values.     *)
IsValid(raw) == raw \in Frame
GetSenderId(raw) == IF raw = Blank THEN ZeroSender ELSE raw.sender

UncappedFrameCounter(n) == n + 1   \* mutant: the counter does not stop
IncreaseFrameCounter(n) == IF n < FrameCap THEN n + 1 ELSE n

(* The StorageItem of a first frame, the same frame once more, and another *)
(* frame (or the first one after the reading was reported and blanked).    *)
FirstFrame(raw) == [raw |-> raw, frames |-> IncreaseFrameCounter(0),
                    age |-> 0, isNew |-> TRUE]
SameFrame(item) == [item EXCEPT !.frames = IncreaseFrameCounter(@), !.age = 0]
KeepsFrameCounter(item, raw) ==     \* mutant: the counter is not reset
  [item EXCEPT !.raw = raw, !.age = 0]
NewPacket(item, raw) == [item EXCEPT !.raw = raw,
                                     !.frames = IncreaseFrameCounter(0),
                                     !.age = 0]

Stored(raw) ==
  LET id == GetSenderId(raw)
  IN  IF id \notin DOMAIN items THEN FirstFrame(raw)
      ELSE IF items[id].raw = raw THEN SameFrame(items[id])
      ELSE NewPacket(items[id], raw)

-----------------------------------------------------------------------------
StorageInit ==
  /\ items = [s \in {} |-> Blank]
  /\ reporter = "idle"
  /\ lag = 0
  /\ NewReadings = {}
  /\ RemovedTransmitters = {}
  /\ NewTransmitters = {}

(* PacketStorage::Add, called by the decoder thread.                       *)
Add(raw) ==
  /\ items' = IF IsValid(raw)
                THEN [s \in DOMAIN items \cup {GetSenderId(raw)} |->
                        IF s = GetSenderId(raw) THEN Stored(raw) ELSE items[s]]
                ELSE items
  /\ UNCHANGED <<reporter, lag, report>>

(* UpdateStatus up to m_Lock.lock(): the clock is read.  The caller has    *)
(* emptied the readings and the removed transmitters it got the last time. *)
SampleNow ==
  /\ reporter = "idle"
  /\ NewReadings = {}
  /\ RemovedTransmitters = {}
  /\ reporter' = "sampled"
  /\ lag' = 0
  /\ UNCHANGED <<items, report>>

(* The age UpdateStatus computes: from the sampled clock, as a uint32_t.   *)
MeasuredAge(s) == (items[s].age - lag) % AgeModulus

Fresh   == {s \in DOMAIN items : items[s].isNew}
SilentOneEarly == {s \in DOMAIN items :            \* mutant: off by one
                     MeasuredAge(s) >= SilentTimeout}
SilentIfReading == {s \in DOMAIN items :           \* mutant: one test for
                      /\ items[s].raw # Blank      \* both branches
                      /\ MeasuredAge(s) > SilentTimeout}
Silent  == {s \in DOMAIN items : MeasuredAge(s) > SilentTimeout}
SettledTwoFrames ==                    \* mutant: the minimum is applied here
  {s \in DOMAIN items \ Silent :
     /\ MeasuredAge(s) >= ReadingMaxAge
     /\ items[s].raw # Blank
     /\ items[s].frames > 1}
Settled == {s \in DOMAIN items \ Silent :
              MeasuredAge(s) >= ReadingMaxAge /\ items[s].raw # Blank}

(* An item after the loop of UpdateStatus has been over it.                *)
NotBlanked(s) == [items[s] EXCEPT !.isNew = FALSE]  \* mutant: no SetRaw(0)
StillNew(s) ==                       \* mutant: no ClearNewTransmitter()
  [items[s] EXCEPT !.raw = IF s \in Settled THEN Blank ELSE @]
Swept(s) == [items[s] EXCEPT !.isNew = FALSE,
                             !.raw = IF s \in Settled THEN Blank ELSE @]

(* UpdateStatus under the lock.                                            *)
Sweep ==
  /\ reporter = "sampled"
  /\ NewTransmitters' = NewTransmitters \cup
                          {GetSenderId(items[s].raw) : s \in Fresh}
  /\ RemovedTransmitters' = RemovedTransmitters \cup Silent
  /\ NewReadings' = NewReadings \cup
                      {[raw |-> items[s].raw, frames |-> items[s].frames] :
                         s \in Settled}
  /\ items' = [s \in DOMAIN items \ RemovedTransmitters' |-> Swept(s)]
  /\ reporter' = "idle"
  /\ lag' = 0

(* The caller (ProcessLoop) consumes a report; it keeps NewTransmitters    *)
(* while there is no MQTT connection.                                      *)
Collect ==
  /\ reporter = "idle"
  /\ report # <<{}, {}, {}>>
  /\ NewReadings' = {}
  /\ RemovedTransmitters' = {}
  /\ NewTransmitters' \in {NewTransmitters, {}}
  /\ UNCHANGED <<items, reporter, lag>>

-----------------------------------------------------------------------------
Clip(a) == IF a > MaxAge THEN MaxAge ELSE IF a < -MaxAge THEN -MaxAge ELSE a

(* The system clock moves by d, while UpdateStatus may be under way.       *)
ClockMoves(d) ==
  /\ items' = [s \in DOMAIN items |->
                 [items[s] EXCEPT !.age = Clip(@ + d)]]
  /\ lag' = IF reporter = "sampled" THEN Clip(lag + d) ELSE lag
  /\ UNCHANGED <<reporter, report>>

Tick == (reporter = "sampled" => lag < MaxLag) /\ ClockMoves(1)

(* The clock is set: std::chrono::system_clock is not monotonic.           *)
StepClock(d) == ClockMoves(d)

StorageNext ==
  \/ \E raw \in Frame \cup Garbage : Add(raw)
  \/ SampleNow
  \/ Sweep
  \/ Collect
  \/ Tick
  \/ \E d \in ClockSteps : StepClock(d)

StorageSpec == StorageInit /\ [][StorageNext]_storageVars

-----------------------------------------------------------------------------
(* The table and the report hold what the C++ types and the ids allow: in  *)
(* particular no report names a sender id that no transmitter has.         *)
TypeOK ==
  /\ DOMAIN items \subseteq Senders
  /\ items \in [DOMAIN items -> Item]
  /\ reporter \in {"idle", "sampled"}
  /\ lag \in Age
  /\ NewReadings \subseteq Packet
  /\ RemovedTransmitters \subseteq Senders
  /\ NewTransmitters \subseteq Senders

(* An item is filed under the sender its packet names, and a blanked item  *)
(* (raw value 0, which reads as sender 0) is never still to be announced:  *)
(* UpdateStatus takes the id it announces from the packet, the id it       *)
(* removes from the key, and the two must be the same transmitter.         *)
KeyMatchesPacket ==
  \A s \in DOMAIN items :
    /\ items[s].raw # Blank => items[s].raw.sender = s
    /\ items[s].isNew => items[s].raw # Blank

(* The table tells its caller of arrivals and departures as the registry   *)
(* promises, whatever the clock does: PacketStorage implements it.         *)
Registry == INSTANCE TransmitterRegistry WITH
  Transmitters <- Senders,
  present  <- DOMAIN items,
  unseen   <- Fresh,
  arrived  <- NewTransmitters,
  departed <- RemovedTransmitters

ImplementsRegistry == Registry!Spec
=============================================================================
