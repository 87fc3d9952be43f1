--------------------- MODULE PacketStorageHistoryProofs ---------------------
(***************************************************************************)
(* Proofs about PacketStorageHistory: what the table counts and reports is *)
(* what was on the air, for any senders, readings, limits and timeouts.    *)
(***************************************************************************)
EXTENDS PacketStorageHistory, PacketStorageProofs, FiniteSetTheorems

(* The observer restricts nothing but how often the clock is set.          *)
LEMMA ObservedStorageStep ==
  [HNext]_historyVars => [StorageNext]_storageVars
  BY DEF HNext, historyVars, storageVars, HAdd, HSampleNow, HSweep, HCollect,
         HTick, HStepClock, StorageNext

(* The observed storage keeps the invariant of the storage.                *)
LEMMA HistoryStorageInv == HSpec => [](StorageInv /\ ReportConsumed)
<1>1. HInit => StorageInv /\ ReportConsumed
  BY InitStorageInv DEF HInit, StorageInit, ReportConsumed
<1>2. StorageInv /\ ReportConsumed /\ [HNext]_historyVars => ReportConsumed'
  BY DEF ReportConsumed, HNext, historyVars, HAdd, HSampleNow, HSweep,
         HCollect, HTick, HStepClock, Add, SampleNow, Sweep, Collect, Tick,
         StepClock, ClockMoves, report
<1> QED
  BY <1>1, <1>2, ObservedStorageStep, NextKeepsInv, PTL DEF HSpec

-----------------------------------------------------------------------------
(* Runs at the end of a log.  k frames at the end of seq are the same, and *)
(* the one before them, if there is one, is not.                           *)
IsRun(seq, k) ==
  /\ k \in 1 .. Len(seq)
  /\ \A j \in Len(seq) - k + 1 .. Len(seq) : seq[j] = seq[Len(seq)]
  /\ k < Len(seq) => seq[Len(seq) - k] # seq[Len(seq)]

(* TrailingRun counts the run at the end of a log.                         *)
LEMMA RunIsTrailing ==
  ASSUME NEW seq \in Seq(Readings), NEW k, IsRun(seq, k)
  PROVE  seq # <<>> /\ TrailingRun(seq) = k
<1> DEFINE n == Len(seq)
           same == {i \in 1 .. n : \A j \in i .. n : seq[j] = seq[n]}
<1>1. n \in Nat /\ k \in 1 .. n
  BY DEF IsRun
<1>2. same = n - k + 1 .. n
  <2>1. ASSUME NEW i \in n - k + 1 .. n PROVE i \in same
    BY <1>1, <2>1 DEF IsRun
  <2>2. ASSUME NEW i \in same, i < n - k + 1 PROVE FALSE
    <3>1. n - k \in i .. n /\ k < n
      BY <1>1, <2>2
    <3> QED BY <2>2, <3>1 DEF IsRun
  <2> QED BY <1>1, <2>1, <2>2
<1>3. Cardinality(n - k + 1 .. n) = k
  <2>1. n - k + 1 \in Int /\ n \in Int /\ ~ (n - k + 1 > n)
    BY <1>1
  <2>2. Cardinality(n - k + 1 .. n) = n - (n - k + 1) + 1
    BY <2>1, FS_Interval
  <2> QED BY <1>1, <2>2
<1>4. TrailingRun(seq) = k
  BY <1>2, <1>3 DEF TrailingRun
<1> QED BY <1>1, <1>4

(* The observer's notes after a frame, which keep FrameCap frames.         *)
Noted(new, seq, r) ==
  /\ Len(seq) < FrameCap => /\ Len(new) = Len(seq) + 1
                            /\ \A j \in 1 .. Len(seq) : new[j] = seq[j]
  /\ Len(seq) = FrameCap =>
       /\ Len(new) = Len(seq)
       /\ \A j \in 1 .. Len(seq) - 1 : new[j] = seq[j + 1]
  /\ new[Len(new)] = r
  /\ Len(new) \in 1 .. FrameCap

(* LastFrames drops old frames only, and none that the limit counts.       *)
LEMMA LastFramesAre ==
  ASSUME NEW seq \in Seq(Readings), NEW r \in Readings, Len(seq) <= FrameCap,
         NEW new, new = LastFrames(Append(seq, r))
  PROVE  new \in Seq(Readings) /\ Noted(new, seq, r)
<1> USE DEF Noted
<1> DEFINE long == Append(seq, r)
<1>0. long = Append(seq, r)
  OBVIOUS
<1> HIDE DEF long
<1>1. /\ long \in Seq(Readings) /\ Len(long) = Len(seq) + 1
      /\ \A j \in 1 .. Len(seq) : long[j] = seq[j]
      /\ long[Len(seq) + 1] = r
  BY <1>0
<1>2. FrameCap \in Nat \ {0} /\ Len(seq) \in Nat
  BY DataAssumption
<1>3. CASE Len(seq) < FrameCap
  <2>1. new = long
    BY <1>1, <1>2, <1>0, <1>3 DEF LastFrames
  <2> QED BY <1>1, <1>2, <1>3, <2>1
<1>4. CASE Len(seq) = FrameCap
  <2>1. new = SubSeq(long, 2, FrameCap + 1)
    BY <1>0, <1>1, <1>2, <1>4 DEF LastFrames
  <2>2. /\ new \in Seq(Readings) /\ Len(new) = FrameCap
        /\ \A j \in 1 .. FrameCap : new[j] = long[j + 1]
    BY <1>1, <1>2, <1>4, <2>1
  <2>3. new[Len(new)] = r
    BY <1>1, <1>2, <1>4, <2>2
  <2>4. \A j \in 1 .. Len(seq) - 1 : new[j] = seq[j + 1]
    BY <1>1, <1>2, <1>4, <2>2
  <2> QED BY <1>2, <1>4, <2>1, <2>2, <2>3, <2>4
<1> QED BY <1>2, <1>3, <1>4

(* One frame more makes the run longer, up to the limit, or begins one.    *)
LEMMA RunGrows ==
  ASSUME NEW seq \in Seq(Readings), NEW r \in Readings, Len(seq) <= FrameCap,
         NEW new, new = LastFrames(Append(seq, r)),
         NEW k, IsRun(seq, k), Last(seq) = r
  PROVE  IsRun(new, IncreaseFrameCounter(k))
<1> DEFINE n == Len(seq)
<1>1. FrameCap \in Nat \ {0} /\ n \in Nat /\ k \in 1 .. n
  BY DataAssumption DEF IsRun
<1>2. Noted(new, seq, r)
  BY LastFramesAre
<1> USE DEF Noted
<1>3. /\ \A j \in n - k + 1 .. n : seq[j] = r
      /\ k < n => seq[n - k] # r
  BY DEF IsRun, Last
<1>4. CASE n < FrameCap
  <2>1. IncreaseFrameCounter(k) = k + 1
    BY <1>1, <1>4 DEF IncreaseFrameCounter
  <2>2. Len(new) = n + 1 /\ new[n + 1] = r
    BY <1>2, <1>4
  <2>3. \A j \in n + 1 - (k + 1) + 1 .. n + 1 : new[j] = r
    <3>1. \A j \in n - k + 1 .. n : j \in 1 .. n /\ new[j] = seq[j]
      BY <1>1, <1>2, <1>4
    <3>2. \A j \in n + 1 - (k + 1) + 1 .. n + 1 :
            j \in n - k + 1 .. n \/ j = n + 1
      BY <1>1
    <3> QED BY <1>3, <2>2, <3>1, <3>2
  <2>4. k + 1 < n + 1 => new[n + 1 - (k + 1)] # r
    BY <1>1, <1>2, <1>3, <1>4
  <2>5. IsRun(new, k + 1)
    BY <1>1, <2>2, <2>3, <2>4 DEF IsRun
  <2> QED BY <2>1, <2>5
<1>5. CASE n = FrameCap /\ k < n
  <2>1. IncreaseFrameCounter(k) = k + 1
    BY <1>1, <1>5 DEF IncreaseFrameCounter
  <2>2. Len(new) = n /\ new[n] = r
    BY <1>2, <1>5
  <2>3. \A j \in n - (k + 1) + 1 .. n : new[j] = r
    <3>1. \A j \in 1 .. n - 1 : new[j] = seq[j + 1]
      BY <1>1, <1>2, <1>5
    <3> HIDE DEF Noted
    <3>2. \A j \in n - (k + 1) + 1 .. n :
            j = n \/ (j \in 1 .. n - 1 /\ j + 1 \in n - k + 1 .. n)
      BY <1>1, <1>5
    <3> QED BY <1>3, <2>2, <3>1, <3>2
  <2>4. k + 1 < n => new[n - (k + 1)] # r
    BY <1>1, <1>2, <1>3, <1>5
  <2>5. IsRun(new, k + 1)
    BY <1>1, <1>5, <2>2, <2>3, <2>4 DEF IsRun
  <2> QED BY <2>1, <2>5
<1>6. CASE n = FrameCap /\ k = n
  <2>1. IncreaseFrameCounter(k) = k
    BY <1>1, <1>6 DEF IncreaseFrameCounter
  <2>2. Len(new) = n /\ new[n] = r
    BY <1>2, <1>6
  <2>3. \A j \in 1 .. n : new[j] = r
    BY <1>1, <1>2, <1>3, <1>6
  <2>4. IsRun(new, k)
    BY <1>1, <1>6, <2>2, <2>3 DEF IsRun
  <2> QED BY <2>1, <2>4
<1>7. n = FrameCap \/ n < FrameCap
  BY <1>1
<1> QED BY <1>1, <1>4, <1>5, <1>6, <1>7

(* A frame unlike the one before it begins a run.                          *)
LEMMA RunBegins ==
  ASSUME NEW seq \in Seq(Readings), NEW r \in Readings, Len(seq) <= FrameCap,
         NEW new, new = LastFrames(Append(seq, r)),
         seq = <<>> \/ Last(seq) # r
  PROVE  IsRun(new, IncreaseFrameCounter(0))
<1> DEFINE n == Len(seq)
<1>1. FrameCap \in Nat \ {0} /\ n \in Nat /\ IncreaseFrameCounter(0) = 1
  BY DataAssumption DEF IncreaseFrameCounter
<1>2. Noted(new, seq, r)
  BY LastFramesAre
<1> USE DEF Noted
<1>3. n > 0 => seq[n] # r
  BY <1>1 DEF Last
<1>4. Len(new) > 1 => new[Len(new) - 1] # r
  BY <1>1, <1>2, <1>3
<1>5. IsRun(new, 1)
  BY <1>2, <1>4 DEF IsRun
<1> QED BY <1>1, <1>5

-----------------------------------------------------------------------------
(* The table and the log.  The item of a sender holds the run at the end   *)
(* of its log; an item that is blanked or gone goes with an empty log.     *)
HoldsRun(s) ==
  /\ Last(log[s]) = items[s].raw.reading
  /\ IsRun(log[s], items[s].frames)

Heard(s) == s \in DOMAIN items /\ items[s].raw # Blank

LogInv ==
  /\ log \in [Senders -> Seq(Readings)]
  /\ \A s \in Senders : /\ Len(log[s]) <= FrameCap
                        /\ Heard(s) => HoldsRun(s)
                        /\ ~ Heard(s) => log[s] = <<>>

(* Add counts in the item what the observer notes in the log.              *)
LEMMA AddKeepsLog ==
  ASSUME StorageInv, LogInv, NEW raw \in Frame, HAdd(raw)
  PROVE  LogInv'
<1> DEFINE id == raw.sender
           new == LastFrames(Append(log[id], raw.reading))
<1>1. GetSenderId(raw) = id /\ id \in Senders /\ raw.reading \in Readings
  BY StoredIsItem DEF StorageInv, Frame
<1>2. items' = [s \in DOMAIN items \cup {id} |->
                  IF s = id THEN Stored(raw) ELSE items[s]]
  BY <1>1 DEF HAdd, Add, IsValid
<1>3. log' = [log EXCEPT ![id] = new]
  BY DEF HAdd, IsValid
<1>4. log[id] \in Seq(Readings) /\ Len(log[id]) <= FrameCap
  BY <1>1 DEF LogInv
<1>5. new \in Seq(Readings) /\ Noted(new, log[id], raw.reading)
  BY <1>1, <1>4, LastFramesAre
<1>6. raw # Blank
  BY BlankIsNoFrame
<1>7. /\ Stored(raw).raw = raw
      /\ IsRun(new, Stored(raw).frames)
  <2>1. CASE id \notin DOMAIN items
    <3>1. Stored(raw) = FirstFrame(raw) /\ log[id] = <<>>
      BY <1>1, <2>1 DEF Stored, LogInv, Heard
    <3>2. IsRun(new, IncreaseFrameCounter(0))
      BY <1>1, <1>4, <3>1, RunBegins
    <3> QED BY <3>1, <3>2 DEF FirstFrame
  <2>2. CASE id \in DOMAIN items /\ items[id].raw = raw
    <3>1. Stored(raw) = SameFrame(items[id]) /\ items[id] \in Item
      BY <1>1, <2>2 DEF Stored, StorageInv, TypeOK
    <3>2. Last(log[id]) = raw.reading /\ IsRun(log[id], items[id].frames)
      BY <1>1, <1>6, <2>2 DEF LogInv, Heard, HoldsRun
    <3>3. IsRun(new, IncreaseFrameCounter(items[id].frames))
      BY <1>1, <1>4, <3>2, RunGrows
    <3> QED BY <2>2, <3>1, <3>3 DEF SameFrame, Item
  <2>3. CASE id \in DOMAIN items /\ items[id].raw # raw
    <3>1. Stored(raw) = NewPacket(items[id], raw) /\ items[id] \in Item
      BY <1>1, <2>3 DEF Stored, StorageInv, TypeOK
    <3>2. log[id] = <<>> \/ Last(log[id]) # raw.reading
      <4>1. CASE items[id].raw = Blank
        BY <1>1, <4>1 DEF LogInv, Heard
      <4>2. CASE items[id].raw # Blank
        <5>1. items[id].raw \in Frame /\ items[id].raw.sender = id
          BY <2>3, <3>1, <4>2 DEF StorageInv, KeyMatchesPacket, Item
        <5>2. items[id].raw.reading # raw.reading
          BY <2>3, <5>1 DEF Frame
        <5> QED BY <1>1, <2>3, <4>2, <5>2 DEF LogInv, Heard, HoldsRun
      <4> QED BY <4>1, <4>2
    <3>3. IsRun(new, IncreaseFrameCounter(0))
      BY <1>1, <1>4, <3>2, RunBegins
    <3> QED BY <3>1, <3>3 DEF NewPacket, Item
  <2> QED BY <2>1, <2>2, <2>3
<1>8. Last(new) = raw.reading /\ Len(new) <= FrameCap
  BY <1>5, DataAssumption DEF Noted, Last
<1> HIDE DEF new
<1>9. \A s \in Senders \ {id} :
        /\ log'[s] = log[s]
        /\ Heard(s)' <=> Heard(s)
        /\ Heard(s) => items'[s] = items[s]
  BY <1>2, <1>3 DEF Heard, LogInv
<1>10. log'[id] = new /\ items'[id] = Stored(raw) /\ id \in DOMAIN items'
  BY <1>1, <1>2, <1>3 DEF LogInv
<1>11. Heard(id)' /\ HoldsRun(id)'
  BY <1>6, <1>7, <1>8, <1>10 DEF Heard, HoldsRun
<1>12. log' \in [Senders -> Seq(Readings)]
  BY <1>3, <1>5 DEF LogInv
<1>13. ASSUME NEW s \in Senders
       PROVE  /\ Len(log'[s]) <= FrameCap
              /\ Heard(s)' => HoldsRun(s)'
              /\ ~ Heard(s)' => log'[s] = <<>>
  <2>1. CASE s = id
    BY <1>8, <1>10, <1>11, <2>1
  <2>2. CASE s # id
    BY <1>9, <2>2 DEF LogInv, HoldsRun
  <2> QED BY <2>1, <2>2
<1> QED BY <1>12, <1>13 DEF LogInv

(* Sweep blanks the items whose logs the observer empties.                 *)
LEMMA SweepKeepsLog ==
  ASSUME StorageInv, ReportConsumed, LogInv, HSweep
  PROVE  LogInv'
<1>1. NewReadings = {} /\ RemovedTransmitters = {} /\ Sweep
  BY DEF HSweep, Sweep, ReportConsumed
<1>2. /\ DOMAIN items' = DOMAIN items \ Silent
      /\ Spoken = Silent \cup Settled
      /\ Settled \subseteq DOMAIN items \ Silent
      /\ \A s \in DOMAIN items' :
           /\ items'[s].raw = IF s \in Settled THEN Blank ELSE items[s].raw
           /\ items'[s].frames = items[s].frames
  BY <1>1, SweepBlanks DEF Spoken
<1>3. log' = [s \in Senders |-> IF s \in Silent \cup Settled THEN <<>>
                                ELSE log[s]]
  BY <1>2 DEF HSweep
<1>4. log' \in [Senders -> Seq(Readings)]
  BY <1>3 DEF LogInv
<1>5. ASSUME NEW s \in Senders, s \in Silent \cup Settled
      PROVE  ~ Heard(s)' /\ log'[s] = <<>>
  BY <1>2, <1>3, <1>5 DEF Heard
<1>6. ASSUME NEW s \in Senders, s \notin Silent \cup Settled
      PROVE  /\ Heard(s)' <=> Heard(s)
             /\ Heard(s) => HoldsRun(s)' = HoldsRun(s)
             /\ log'[s] = log[s]
  BY <1>2, <1>3, <1>6 DEF Heard, HoldsRun
<1> QED BY <1>4, <1>5, <1>6, DataAssumption DEF LogInv

(* Every step keeps the table and the log in agreement.                    *)
LEMMA NextKeepsLog ==
  ASSUME StorageInv, ReportConsumed, LogInv, [HNext]_historyVars
  PROVE  LogInv'
<1>1. CASE \E raw \in Frame \cup Garbage : HAdd(raw)
  <2>1. PICK raw \in Frame \cup Garbage : HAdd(raw)
    BY <1>1
  <2>2. CASE raw \in Frame
    BY <2>1, <2>2, AddKeepsLog
  <2>3. CASE raw \notin Frame
    <3>1. UNCHANGED <<items, log>>
      BY <2>1, <2>3 DEF HAdd, Add, IsValid
    <3> QED BY <3>1 DEF LogInv, Heard, HoldsRun
  <2> QED BY <2>2, <2>3
<1>2. CASE HSweep
  BY <1>2, SweepKeepsLog
<1>3. CASE HTick \/ \E d \in ClockSteps : HStepClock(d)
  <2>1. /\ DOMAIN items' = DOMAIN items /\ log' = log
        /\ \A s \in DOMAIN items : /\ items'[s].raw = items[s].raw
                                   /\ items'[s].frames = items[s].frames
    BY <1>3 DEF HTick, HStepClock, Tick, StepClock, ClockMoves, StorageInv,
                TypeOK, Item
  <2> QED BY <2>1 DEF LogInv, Heard, HoldsRun
<1>4. CASE HSampleNow \/ HCollect
  <2>1. UNCHANGED <<items, log>>
    BY <1>4 DEF HSampleNow, HCollect, SampleNow, Collect
  <2> QED BY <2>1 DEF LogInv, Heard, HoldsRun
<1>5. CASE UNCHANGED historyVars
  BY <1>5 DEF historyVars, LogInv, Heard, HoldsRun
<1> QED BY <1>1, <1>2, <1>3, <1>4, <1>5 DEF HNext

(* So they agree in every state.                                           *)
LEMMA LogInvariant == HSpec => []LogInv
<1>1. HInit => LogInv
  BY DataAssumption DEF HInit, StorageInit, LogInv, Heard
<1> QED BY <1>1, NextKeepsLog, HistoryStorageInv, PTL DEF HSpec

(* The frame counter counts the identical frames received in a row since   *)
(* the last report of their sender, up to its limit, for any limit and     *)
(* however the clock is set.                                               *)
THEOREM FramesAreCounted == HSpec => []CountsConsecutiveFrames
<1>1. ASSUME StorageInv, LogInv PROVE CountsConsecutiveFrames
  <2> SUFFICES ASSUME NEW s \in DOMAIN items, items[s].raw # Blank
               PROVE  /\ log[s] # <<>>
                      /\ items[s].raw.reading = Last(log[s])
                      /\ items[s].frames = TrailingRun(log[s])
    BY DEF CountsConsecutiveFrames
  <2>1. s \in Senders
    BY <1>1 DEF StorageInv, TypeOK
  <2>2. log[s] \in Seq(Readings) /\ HoldsRun(s)
    BY <1>1, <2>1 DEF LogInv, Heard
  <2> QED BY <2>2, RunIsTrailing DEF HoldsRun
<1> QED BY <1>1, HistoryStorageInv, LogInvariant, PTL

-----------------------------------------------------------------------------
(* Time, as long as nobody sets the clock: the age of an item is the time  *)
(* since the last frame of its sender.                                     *)
QuietInv ==
  /\ quiet \in [Senders -> 0 .. MaxAge]
  /\ lag \in 0 .. MaxLag
  /\ \A s \in DOMAIN items : items[s].age = quiet[s]

ClockInv == steps \in Nat /\ (steps = 0 => QuietInv)

(* Every step keeps the ages right unless it sets the clock.               *)
LEMMA NextKeepsClock ==
  ASSUME StorageInv, ClockInv, [HNext]_historyVars
  PROVE  ClockInv'
<1> USE DEF ClockInv, QuietInv
<1>1. CASE \E raw \in Frame \cup Garbage : HAdd(raw)
  <2>1. PICK raw \in Frame \cup Garbage : HAdd(raw)
    BY <1>1
  <2>2. CASE raw \notin Frame
    BY <2>1, <2>2 DEF HAdd, Add, IsValid
  <2>3. CASE raw \in Frame
    <3>1. GetSenderId(raw) = raw.sender /\ raw.sender \in Senders
      BY <2>3, StoredIsItem DEF StorageInv
    <3>a. Stored(raw).age = 0
      BY <3>1 DEF StorageInv, Stored, FirstFrame, SameFrame, NewPacket,
                  TypeOK, Item
    <3>2. /\ items' = [s \in DOMAIN items \cup {raw.sender} |->
                         IF s = raw.sender THEN Stored(raw) ELSE items[s]]
          /\ quiet' = [quiet EXCEPT ![raw.sender] = 0]
          /\ UNCHANGED <<lag, steps>>
      BY <2>1, <2>3, <3>1 DEF HAdd, Add, IsValid
    <3>3. DOMAIN items \subseteq Senders
      BY DEF StorageInv, TypeOK
    <3> QED BY <3>1, <3>a, <3>2, <3>3, TimeAssumption
  <2> QED BY <2>2, <2>3
<1>2. CASE HSampleNow \/ HCollect
  BY <1>2, TimeAssumption DEF HSampleNow, HCollect, SampleNow, Collect
<1>3. CASE HSweep
  <2>1. \A s \in DOMAIN items : Swept(s).age = items[s].age
    BY DEF Swept, StorageInv, TypeOK, Item
  <2> QED BY <1>3, <2>1, TimeAssumption DEF HSweep, Sweep
<1>4. CASE HTick
  <2>1. \A s \in DOMAIN items : items[s] \in Item /\ s \in Senders
    BY DEF StorageInv, TypeOK
  <2>2. /\ DOMAIN items' = DOMAIN items
        /\ \A s \in DOMAIN items : items'[s].age = Clip(items[s].age + 1)
    BY <1>4, <2>1 DEF HTick, Tick, ClockMoves, Item
  <2>3. quiet' = [s \in Senders |-> Clip(quiet[s] + 1)] /\ steps' = steps
    BY <1>4 DEF HTick
  <2>4. \A a \in 0 .. MaxAge : Clip(a + 1) \in 0 .. MaxAge
    BY TimeAssumption DEF Clip
  <2>5. lag \in 0 .. MaxLag => lag' \in 0 .. MaxLag
    BY <1>4, TimeAssumption, BoundAssumption
       DEF HTick, Tick, ClockMoves, Clip
  <2> QED BY <2>1, <2>2, <2>3, <2>4, <2>5
<1>5. CASE \E d \in ClockSteps : HStepClock(d)
  BY <1>5 DEF HStepClock
<1>6. CASE UNCHANGED historyVars
  BY <1>6 DEF historyVars
<1> QED BY <1>1, <1>2, <1>3, <1>4, <1>5, <1>6 DEF HNext

(* So the ages are right until the clock is set.                           *)
LEMMA ClockInvariant == HSpec => []ClockInv
<1>1. HInit => ClockInv
  BY TimeAssumption DEF HInit, StorageInit, ClockInv, QuietInv
<1> QED BY <1>1, NextKeepsClock, HistoryStorageInv, PTL DEF HSpec

NotSet == steps = 0

(* Without a step of the clock it is never set.                            *)
LEMMA ClockIsNotSet == MaxSteps = 0 => (HSpec => []NotSet)
<1> SUFFICES ASSUME MaxSteps = 0
             PROVE  HSpec => []NotSet
  OBVIOUS
<1>1. HInit => NotSet
  BY DEF HInit, NotSet
<1>2. ASSUME NotSet, [HNext]_historyVars
      PROVE  NotSet'
  <2>1. ~ \E d \in ClockSteps : HStepClock(d)
    BY <1>2 DEF HStepClock, NotSet
  <2> QED
    BY <1>2, <2>1 DEF NotSet, HNext, historyVars, HAdd, HSampleNow, HSweep,
                      HCollect, HTick
<1> QED BY <1>1, <1>2, PTL DEF HSpec

(* What % does to a number less than one modulus below zero, or within it. *)
LEMMA Wraps ==
  ASSUME NEW a \in Int, NEW n \in Nat
  PROVE  /\ 0 <= a /\ a < n => a % n = a
         /\ a < 0 /\ 0 <= a + n => a % n = a + n
  OBVIOUS

(* The age UpdateStatus computes as a uint32_t: the time that had passed   *)
(* when the clock was read, or, for a frame that came later, almost 2^32,  *)
(* which is beyond every timeout.                                          *)
LEMMA AgeAsMeasured ==
  ASSUME QuietInv, NEW s \in DOMAIN items, s \in Senders
  PROVE  /\ quiet[s] >= lag => MeasuredAge(s) = quiet[s] - lag
         /\ quiet[s] < lag => MeasuredAge(s) > SilentTimeout
<1>1. /\ quiet[s] \in 0 .. MaxAge /\ lag \in 0 .. MaxLag
      /\ items[s].age = quiet[s]
  BY DEF QuietInv
<1>2. MeasuredAge(s) = (quiet[s] - lag) % AgeModulus
  BY <1>1 DEF MeasuredAge
<1>3. CASE quiet[s] >= lag
  <2>1. quiet[s] - lag \in 0 .. AgeModulus - 1
    BY <1>1, <1>3, TimeAssumption, BoundAssumption
  <2>2. (quiet[s] - lag) % AgeModulus = quiet[s] - lag
    BY <1>1, <1>3, <2>1, Wraps, TimeAssumption
  <2> QED BY <1>1, <1>2, <1>3, <2>2, TimeAssumption
<1>4. CASE quiet[s] < lag
  <2>1. /\ quiet[s] - lag + AgeModulus \in 0 .. AgeModulus - 1
        /\ quiet[s] - lag + AgeModulus > SilentTimeout
    BY <1>1, <1>4, TimeAssumption, BoundAssumption
  <2>2. (quiet[s] - lag) % AgeModulus = quiet[s] - lag + AgeModulus
    BY <1>1, <1>4, <2>1, Wraps, TimeAssumption
  <2> QED BY <1>1, <1>2, <1>4, <2>1, <2>2, TimeAssumption
<1> QED BY <1>1, <1>3, <1>4, TimeAssumption

(* What every state of a run is known to satisfy while the clock is not    *)
(* set.                                                                    *)
WatchInv == StorageInv /\ ReportConsumed /\ LogInv /\ QuietInv

(* All of it holds in every state while the clock is not set.              *)
LEMMA WatchInvariant == MaxSteps = 0 => (HSpec => []WatchInv)
<1> SUFFICES ASSUME MaxSteps = 0
             PROVE  HSpec => []WatchInv
  OBVIOUS
<1>1. StorageInv /\ ReportConsumed /\ LogInv /\ ClockInv /\ NotSet => WatchInv
  BY DEF WatchInv, ClockInv, NotSet
<1>2. HSpec => []NotSet
  BY ClockIsNotSet
<1> QED BY <1>1, <1>2, HistoryStorageInv, LogInvariant, ClockInvariant, PTL

(* What Sweep finds silent and settled, in terms of what was on the air.   *)
LEMMA SweepAsWatched ==
  ASSUME WatchInv, Sweep
  PROVE  /\ NewReadings = {} /\ RemovedTransmitters = {}
         /\ RemovedTransmitters' = Silent
         /\ \A s \in DOMAIN items :
              /\ s \in Senders
              /\ s \in Silent => quiet[s] > SilentTimeout \/ quiet[s] < lag
              /\ s \notin Silent =>
                   /\ lag <= quiet[s] /\ quiet[s] <= SilentTimeout + lag
                   /\ s \in Settled <=> /\ quiet[s] >= ReadingMaxAge + lag
                                        /\ items[s].raw # Blank
         /\ Settled \subseteq DOMAIN items \ Silent
<1>1. NewReadings = {} /\ RemovedTransmitters = {}
  BY DEF WatchInv, ReportConsumed, Sweep
<1>2. RemovedTransmitters' = Silent
  BY <1>1, SweepBlanks DEF WatchInv
<1>3. Settled \subseteq DOMAIN items \ Silent
  BY DEF Settled
<1>4. ASSUME NEW s \in DOMAIN items
      PROVE  /\ s \in Senders
             /\ s \in Silent => quiet[s] > SilentTimeout \/ quiet[s] < lag
             /\ s \notin Silent =>
                  /\ lag <= quiet[s] /\ quiet[s] <= SilentTimeout + lag
                  /\ s \in Settled <=> /\ quiet[s] >= ReadingMaxAge + lag
                                       /\ items[s].raw # Blank
  <2>1. s \in Senders
    BY DEF WatchInv, StorageInv, TypeOK
  <2>2. quiet[s] \in Int /\ lag \in Nat
    BY <2>1, TimeAssumption DEF WatchInv, QuietInv
  <2>3. s \in Silent <=> MeasuredAge(s) > SilentTimeout
    BY DEF Silent
  <2>4. s \notin Silent => (s \in Settled <=>
          MeasuredAge(s) >= ReadingMaxAge /\ items[s].raw # Blank)
    BY DEF Settled
  <2>5. /\ quiet[s] >= lag => MeasuredAge(s) = quiet[s] - lag
        /\ quiet[s] < lag => MeasuredAge(s) > SilentTimeout
    BY <2>1, AgeAsMeasured DEF WatchInv
  <2>6. CASE quiet[s] < lag
    BY <2>1, <2>2, <2>3, <2>5, <2>6
  <2>7. CASE quiet[s] >= lag
    <3>1. MeasuredAge(s) = quiet[s] - lag
      BY <2>5, <2>7
    <3>2. s \in Silent <=> quiet[s] - lag > SilentTimeout
      BY <2>3, <3>1
    <3>3. s \notin Silent => (s \in Settled <=>
            quiet[s] - lag >= ReadingMaxAge /\ items[s].raw # Blank)
      BY <2>4, <3>1
    <3>4. /\ quiet[s] - lag > SilentTimeout => quiet[s] > SilentTimeout
          /\ ~ (quiet[s] - lag > SilentTimeout)
               => quiet[s] <= SilentTimeout + lag
          /\ quiet[s] - lag >= ReadingMaxAge
               <=> quiet[s] >= ReadingMaxAge + lag
          /\ lag <= quiet[s]
      BY <2>2, <2>7, TimeAssumption
    <3> QED BY <2>1, <3>2, <3>3, <3>4
  <2> QED BY <2>2, <2>6, <2>7
<1> QED BY <1>1, <1>2, <1>3, <1>4

(* A transmitter is dropped only after the timeout, or when a frame of it  *)
(* overtook the report; and whoever is silent for the timeout and the lag  *)
(* is dropped: for any timeout below 2^32 ms, while the clock is not set.  *)
THEOREM SilenceIsMeasured == MaxSteps = 0 => (HSpec => SilentOrOvertaken)
<1> DEFINE Right ==
      Sweep => \A s \in DOMAIN items :
                 /\ s \in RemovedTransmitters' =>
                      quiet[s] > SilentTimeout \/ quiet[s] < lag
                 /\ s \notin RemovedTransmitters' =>
                      quiet[s] <= SilentTimeout + lag
<1> SUFFICES ASSUME MaxSteps = 0
             PROVE  HSpec => SilentOrOvertaken
  OBVIOUS
<1>1. ASSUME WatchInv, [HNext]_historyVars
      PROVE  Right
  BY <1>1, SweepAsWatched
<1>2. HSpec => []WatchInv
  BY WatchInvariant
<1>3. [][HNext]_historyVars /\ []WatchInv => [][Right]_historyVars
  BY <1>1, PTL
<1> QED BY <1>2, <1>3, PTL DEF HSpec, SilentOrOvertaken

(* A reading is reported when its burst is over, and then the last reading *)
(* sent with the number of its frames.                                     *)
THEOREM BurstIsFinished == MaxSteps = 0 => (HSpec => ReportsFinishedBurst)
<1> DEFINE Right ==
      \A p \in NewReadings' \ NewReadings :
        LET s == p.raw.sender
        IN  /\ quiet[s] >= ReadingMaxAge
            /\ log[s] # <<>>
            /\ p.raw.reading = Last(log[s])
            /\ p.frames = TrailingRun(log[s])
<1> SUFFICES ASSUME MaxSteps = 0
             PROVE  HSpec => ReportsFinishedBurst
  OBVIOUS
<1>1. ASSUME WatchInv, [HNext]_historyVars
      PROVE  Right
  <2> SUFFICES ASSUME NEW p \in NewReadings', p \notin NewReadings
               PROVE  /\ quiet[p.raw.sender] >= ReadingMaxAge
                      /\ log[p.raw.sender] # <<>>
                      /\ p.raw.reading = Last(log[p.raw.sender])
                      /\ p.frames = TrailingRun(log[p.raw.sender])
    OBVIOUS
  <2>1. Sweep
    BY <1>1 DEF HNext, historyVars, HAdd, HSampleNow, HSweep, HCollect,
                HTick, HStepClock, Add, SampleNow, Collect, Tick, StepClock,
                ClockMoves, report
  <2>2. PICK s \in Settled :
          p = [raw |-> items[s].raw, frames |-> items[s].frames]
    BY <2>1 DEF Sweep
  <2>3. /\ s \in DOMAIN items /\ s \notin Silent /\ s \in Senders
        /\ quiet[s] >= ReadingMaxAge + lag /\ items[s].raw # Blank
    BY <1>1, <2>1, <2>2, SweepAsWatched
  <2>4. items[s].raw.sender = s
    BY <1>1, <2>3 DEF WatchInv, StorageInv, KeyMatchesPacket
  <2>5. quiet[s] >= ReadingMaxAge
    <3>1. quiet[s] \in Int /\ lag \in Nat /\ ReadingMaxAge \in Nat
      BY <1>1, <2>3, TimeAssumption DEF WatchInv, QuietInv
    <3> QED BY <2>3, <3>1
  <2>6. log[s] \in Seq(Readings) /\ HoldsRun(s)
    BY <1>1, <2>3 DEF WatchInv, LogInv, Heard
  <2> QED BY <2>2, <2>4, <2>5, <2>6, RunIsTrailing DEF HoldsRun
<1>2. HSpec => []WatchInv
  BY WatchInvariant
<1>3. [][HNext]_historyVars /\ []WatchInv => [][Right]_historyVars
  BY <1>1, PTL
<1> QED BY <1>2, <1>3, PTL DEF HSpec, ReportsFinishedBurst

(* No burst is lost: one that is over when the clock is read is reported   *)
(* with its last reading, or its sender is dropped as silent.              *)
THEOREM BurstIsNotLost == MaxSteps = 0 => (HSpec => BurstIsReported)
<1> DEFINE Right ==
      Sweep =>
        \A s \in Senders :
          log[s] # <<>> /\ quiet[s] >= ReadingMaxAge + lag =>
            \/ s \in RemovedTransmitters'
            \/ \E p \in NewReadings' :
                 p.raw = [sender |-> s, reading |-> Last(log[s])]
<1> SUFFICES ASSUME MaxSteps = 0
             PROVE  HSpec => BurstIsReported
  OBVIOUS
<1>1. ASSUME WatchInv, [HNext]_historyVars
      PROVE  Right
  <2> SUFFICES ASSUME Sweep, NEW s \in Senders, log[s] # <<>>,
                      quiet[s] >= ReadingMaxAge + lag,
                      s \notin RemovedTransmitters'
               PROVE  \E p \in NewReadings' :
                        p.raw = [sender |-> s, reading |-> Last(log[s])]
    OBVIOUS
  <2>1. Heard(s) /\ HoldsRun(s)
    BY <1>1 DEF WatchInv, LogInv
  <2>2. s \in Settled
    BY <1>1, <2>1, SweepAsWatched DEF Heard
  <2>3. [raw |-> items[s].raw, frames |-> items[s].frames] \in NewReadings'
    BY <2>2 DEF Sweep
  <2>4. items[s].raw \in Frame /\ items[s].raw.sender = s
    BY <1>1, <2>1
       DEF WatchInv, StorageInv, TypeOK, Item, KeyMatchesPacket, Heard
  <2>5. items[s].raw = [sender |-> s, reading |-> Last(log[s])]
    BY <2>1, <2>4 DEF HoldsRun, Frame
  <2> QED BY <2>3, <2>5
<1>2. HSpec => []WatchInv
  BY WatchInvariant
<1>3. [][HNext]_historyVars /\ []WatchInv => [][Right]_historyVars
  BY <1>1, PTL
<1> QED BY <1>2, <1>3, PTL DEF HSpec, BurstIsReported
=============================================================================
