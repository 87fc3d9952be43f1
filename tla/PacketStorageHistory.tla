----------------------- MODULE PacketStorageHistory -----------------------
(***************************************************************************)
(* PacketStorage watched by an outside observer, who keeps for every       *)
(* sender the real time since its last valid frame (`quiet`) and the       *)
(* readings of its last frames since the storage last said something about *)
(* it (`log`).  The observer sees frames, ticks and reports only, never    *)
(* the table, so the properties below compare the table with the world.    *)
(***************************************************************************)
EXTENDS PacketStorage, FiniteSets, SequencesExt

CONSTANT MaxSteps   \* bound: how often the system clock is set

(* The bound on how often the clock is set.                                *)
ASSUME StepsAssumption == MaxSteps \in Nat

VARIABLES quiet, log, steps

historyVars == <<items, reporter, lag, NewReadings, RemovedTransmitters,
                 NewTransmitters, quiet, log, steps>>

(* The observer's notes keep to the bounds of the model.                   *)
LastFrames(seq) ==
  IF Len(seq) <= FrameCap THEN seq
  ELSE SubSeq(seq, Len(seq) - FrameCap + 1, Len(seq))

Spoken == RemovedTransmitters' \cup {p.raw.sender : p \in NewReadings'}

HInit ==
  /\ StorageInit
  /\ quiet = [s \in Senders |-> MaxAge]
  /\ log = [s \in Senders |-> <<>>]
  /\ steps = 0

HAdd(raw) ==
  /\ Add(raw)
  /\ IF IsValid(raw)
       THEN /\ quiet' = [quiet EXCEPT ![raw.sender] = 0]
            /\ log' = [log EXCEPT ![raw.sender] =
                         LastFrames(Append(@, raw.reading))]
       ELSE UNCHANGED <<quiet, log>>
  /\ UNCHANGED steps

HSampleNow == SampleNow /\ UNCHANGED <<quiet, log, steps>>

HSweep ==
  /\ Sweep
  /\ log' = [s \in Senders |-> IF s \in Spoken THEN <<>> ELSE log[s]]
  /\ UNCHANGED <<quiet, steps>>

HCollect == Collect /\ UNCHANGED <<quiet, log, steps>>

HTick ==
  /\ Tick
  /\ quiet' = [s \in Senders |-> Clip(quiet[s] + 1)]
  /\ UNCHANGED <<log, steps>>

HStepClock(d) ==
  /\ steps < MaxSteps
  /\ StepClock(d)
  /\ steps' = steps + 1
  /\ UNCHANGED <<quiet, log>>

HNext ==
  \/ \E raw \in Frame \cup Garbage : HAdd(raw)
  \/ HSampleNow
  \/ HSweep
  \/ HCollect
  \/ HTick
  \/ \E d \in ClockSteps : HStepClock(d)

HSpec == HInit /\ [][HNext]_historyVars

(* The main thread keeps calling UpdateStatus and time keeps passing.  The *)
(* clock may be set, but not again and again for ever.                     *)
HFairness ==
  /\ WF_historyVars(HSampleNow)
  /\ WF_historyVars(HSweep)
  /\ WF_historyVars(HCollect)
  /\ WF_historyVars(HTick)

HFairSpec == HSpec /\ HFairness

-----------------------------------------------------------------------------
(* How many frames at the end of a log are the same as its last one.       *)
TrailingRun(seq) ==
  Cardinality({i \in 1 .. Len(seq) :
                 \A j \in i .. Len(seq) : seq[j] = seq[Len(seq)]})

(* The frame counter is the number of identical frames received in a row   *)
(* since the last report, up to the limit of the counter: what the quality *)
(* and the minimum_frames filter of the README are computed from.          *)
CountsConsecutiveFrames ==
  \A s \in DOMAIN items :
    items[s].raw # Blank =>
      /\ log[s] # <<>>
      /\ items[s].raw.reading = Last(log[s])
      /\ items[s].frames = TrailingRun(log[s])

(* UpdateStatus reports a reading only when its burst is over (no frame of *)
(* that sender for ReadingMaxAge), and then the last reading sent with the *)
(* number of its frames: never a stale one, never one burst twice.         *)
ReportsFinishedBurst ==
  [][\A p \in NewReadings' \ NewReadings :
       LET s == p.raw.sender
       IN  /\ quiet[s] >= ReadingMaxAge
           /\ log[s] # <<>>
           /\ p.raw.reading = Last(log[s])
           /\ p.frames = TrailingRun(log[s])]_historyVars

(* No burst is lost: when UpdateStatus runs and a transmitter has sent     *)
(* frames not yet spoken of, the last of them so long ago that the clock   *)
(* sample sees the burst over, it reports the reading, be it one frame or  *)
(* many, or drops the transmitter as silent.                               *)
BurstIsReported ==
  [][Sweep =>
       \A s \in Senders :
         log[s] # <<>> /\ quiet[s] >= ReadingMaxAge + lag =>
           \/ s \in RemovedTransmitters'
           \/ \E p \in NewReadings' :
                p.raw = [sender |-> s, reading |-> Last(log[s])]]_historyVars

(* UpdateStatus drops a transmitter only if it was silent for longer than  *)
(* the timeout, or if a frame of it overtook the report (it came after the *)
(* clock was read and before the lock was taken); whoever was silent for   *)
(* longer than the timeout and the lag together is dropped at once.        *)
SilentOrOvertaken ==
  [][Sweep =>
       \A s \in DOMAIN items :
         /\ s \in RemovedTransmitters' =>
              quiet[s] > SilentTimeout \/ quiet[s] < lag
         /\ s \notin RemovedTransmitters' =>
              quiet[s] <= SilentTimeout + lag]_historyVars

(* README: a transmitter is offline when nothing was received from it for  *)
(* the silent timeout.  The code's own reading of it: UpdateStatus removes *)
(* nobody who sent a frame within the timeout.                             *)
RemovedOnlyIfSilent ==
  [][\A s \in RemovedTransmitters' \ RemovedTransmitters :
       quiet[s] > SilentTimeout]_historyVars

(* A transmitter that has been silent for longer than the timeout leaves   *)
(* the list, unless it is heard again first: also if the clock was set     *)
(* back meanwhile, and ages are negative for a while.                      *)
SilenceIsNoticed ==
  \A s \in Senders :
    (s \in DOMAIN items /\ quiet[s] > SilentTimeout)
      ~> (s \notin DOMAIN items \/ quiet[s] = 0)
=============================================================================
