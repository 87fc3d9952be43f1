------------------------- MODULE PulseReceptionProofs -------------------------
(***************************************************************************)
(* Proofs about PulseReception: for packets of any length, any frames, any *)
(* edges missed and spikes at any time, the decoder makes up no packet.    *)
(* The types and the absence of stale bits need no assumption on the       *)
(* times; what is stored does, see ToldApart.                              *)
(***************************************************************************)
EXTENDS PulseReception, TLAPS

-----------------------------------------------------------------------------
(* The decoder alone: packets of any length, pulses and tolerances of any  *)
(* size, and any sequence of edges: also a tolerance so large that the     *)
(* windows of the two gaps overlap.                                        *)

(* No invariant alone is inductive: that the next position holds a 0 needs *)
(* the types, and that the bits are 0 after a reset needs the state.       *)
DecoderInv == DecoderTypeOK /\ NoStaleBits

(* What the switch can lead to: the count grows by one bit at most, and    *)
(* only from a pulse to the next; the positions below it stay 0.           *)
Sound(next) ==
  /\ next.state \in {"UNKNOWN", "PULSE_START", "PULSE_END"}
  /\ next.count \in 0 .. PacketBits
  /\ next.bits \in Word
  /\ \A p \in Positions : p < PacketBits - next.count => next.bits[p] = 0

(* The empty packet has no bit set.                                        *)
LEMMA ZeroIsWord == Zero \in Word /\ \A p \in Positions : Zero[p] = 0
  BY DEF Zero, Word

(* Changing the state only keeps the invariant.                            *)
LEMMA GotoIsSound ==
  ASSUME DecoderInv, NEW s \in {"UNKNOWN", "PULSE_START", "PULSE_END"}
  PROVE  Sound(Goto(s))
  BY DecoderAssumption
     DEF DecoderInv, DecoderTypeOK, NoStaleBits, Sound, Goto, Positions

(* So do the three outcomes of a gap: a one, a zero, neither.              *)
LEMMA BitsAreSound ==
  ASSUME DecoderInv
  PROVE  Sound(One) /\ Sound(ZeroBit) /\ Sound(OtherGap)
<1>1. /\ m_BitCount \in 0 .. PacketBits - 1
      /\ NextPosition \in Positions
      /\ PacketBits \in Nat
  BY DecoderAssumption
     DEF DecoderInv, DecoderTypeOK, Positions, NextPosition
<1>2. m_Bits \in Word
  BY DEF DecoderInv, DecoderTypeOK
<1>3. \A p \in Positions : p < PacketBits - m_BitCount => m_Bits[p] = 0
  BY DEF DecoderInv, NoStaleBits
<1>4. Sound(One)
  <2>1. [m_Bits EXCEPT ![NextPosition] = 1] \in Word
    BY <1>1, <1>2 DEF Word
  <2>2. \A p \in Positions :
          p < PacketBits - (m_BitCount + 1) =>
            [m_Bits EXCEPT ![NextPosition] = 1][p] = 0
    BY <1>1, <1>2, <1>3 DEF Word, NextPosition, Positions
  <2> QED
    BY <1>1, <2>1, <2>2 DEF Sound, One
<1>5. Sound(ZeroBit)
  <2>1. /\ ZeroBit.state = "PULSE_START"
        /\ ZeroBit.count = m_BitCount + 1
        /\ ZeroBit.bits = m_Bits
    BY DEF ZeroBit, Goto
  <2> QED
    BY <1>1, <1>2, <1>3, <2>1 DEF Sound, Positions
<1>6. Sound(OtherGap)
  BY <1>1, ZeroIsWord DEF Sound, OtherGap
<1> QED BY <1>4, <1>5, <1>6

(* So does every case of the switch over the states.                       *)
LEMMA SwitchIsSound ==
  ASSUME DecoderInv, NEW rising \in BOOLEAN, NEW delta
  PROVE  Sound(Switch(rising, delta))
<1>1. CASE m_State = "UNKNOWN"
  <2>1. Switch(rising, delta) = FromUnknown(rising)
    BY <1>1 DEF Switch
  <2> QED BY <2>1, GotoIsSound DEF FromUnknown
<1>2. CASE m_State = "PULSE_START"
  <2>1. Switch(rising, delta) = FromPulseStart(rising, delta)
    BY <1>2 DEF Switch
  <2> QED BY <2>1, GotoIsSound DEF FromPulseStart
<1>3. CASE m_State = "PULSE_END"
  <2>1. Switch(rising, delta) = FromPulseEnd(rising, delta)
    BY <1>3 DEF Switch
  <2> QED BY <2>1, GotoIsSound, BitsAreSound DEF FromPulseEnd
<1> QED
  BY <1>1, <1>2, <1>3 DEF DecoderInv, DecoderTypeOK

(* So does the decoding of any edge.                                       *)
LEMMA DecodeKeepsInv ==
  ASSUME DecoderInv, NEW rising \in BOOLEAN, NEW delta, Decode(rising, delta)
  PROVE  DecoderInv'
<1> DEFINE next == Switch(rising, delta)
<1>1. Sound(next)
  BY SwitchIsSound
<1>2. /\ m_State' = next.state
      /\ m_BitCount' = IF StartsOver(next) THEN 0 ELSE next.count
      /\ m_Bits' = IF StartsOver(next) THEN Zero ELSE next.bits
      /\ added' = IF Complete(next) THEN {next.bits} ELSE {}
  BY DEF Decode
<1> HIDE DEF next
<1>3. CASE StartsOver(next)
  <2>1. m_BitCount' = 0 /\ m_Bits' = Zero /\ added' \subseteq Word
    BY <1>1, <1>2, <1>3 DEF Sound
  <2> QED
    BY <1>1, <1>2, <2>1, ZeroIsWord, DecoderAssumption
       DEF Sound, DecoderInv, DecoderTypeOK, NoStaleBits, Positions
<1>4. CASE ~ StartsOver(next)
  <2>1. /\ m_BitCount' = next.count
        /\ m_Bits' = next.bits
        /\ added' = {}
        /\ next.count # PacketBits
        /\ m_State' # "UNKNOWN"
    BY <1>2, <1>4 DEF StartsOver, Complete
  <2> QED
    BY <1>1, <1>2, <2>1, DecoderAssumption
       DEF Sound, DecoderInv, DecoderTypeOK, NoStaleBits, Positions
<1> QED BY <1>3, <1>4

(* The invariant of the decoder holds in every state.                      *)
LEMMA DecoderInvariant == DecoderSpec => []DecoderInv
<1>1. DecoderInit => DecoderInv
  BY DecoderAssumption, ZeroIsWord
     DEF DecoderInit, DecoderInv, DecoderTypeOK, NoStaleBits, Positions
<1>2. DecoderInv /\ [DecoderNext]_decoderVars => DecoderInv'
  <2> SUFFICES ASSUME DecoderInv, [DecoderNext]_decoderVars
               PROVE  DecoderInv'
    OBVIOUS
  <2>1. CASE DecoderNext
    BY <2>1, DecodeKeepsInv DEF DecoderNext
  <2>2. CASE UNCHANGED decoderVars
    BY <2>2 DEF decoderVars, DecoderInv, DecoderTypeOK, NoStaleBits
  <2> QED BY <2>1, <2>2
<1> QED BY <1>1, <1>2, PTL DEF DecoderSpec

(* The bit count always leaves room for the shift that stores the next     *)
(* bit, and only whole packets of PacketBits bits are stored.              *)
THEOREM DecoderTypeCorrect == DecoderSpec => []DecoderTypeOK
  BY DecoderInvariant, PTL DEF DecoderInv

(* No bit of an abandoned packet survives into the next one.               *)
THEOREM DecoderHasNoStaleBits == DecoderSpec => []NoStaleBits
  BY DecoderInvariant, PTL DEF DecoderInv

-----------------------------------------------------------------------------
(* The decoder in a circuit that loses edges and has spikes.               *)

(* The bits received are those of the frame from its first, or from its    *)
(* second one on.                                                          *)
Prefix ==
  \A p \in Positions : p >= PacketBits - m_BitCount => m_Bits[p] = frame[p]
Shifted ==
  \A p \in Positions :
    p >= PacketBits - m_BitCount => m_Bits[p] = frame[p - 1]

(* After n gaps of the frame no more than n bits were received; only by    *)
(* spikes can one bit fewer be another than the frame's last n - 1.        *)
AtMostGaps(n) == m_BitCount <= n /\ (m_BitCount = n => Prefix)
Aligned(n) ==
  /\ AtMostGaps(n)
  /\ m_BitCount = n - 1 => Shifted \/ spikes > 0

(* The pulse of edge k, and the last pulse that fell before a rising edge. *)
Pulse(k) == k \div 2
Last == IF edge = 0 THEN PacketBits ELSE Pulse(edge) - 1

(* In a pulse: it will be measured too long, or the count is right.  It    *)
(* may have begun with a spike instead of the edge.                        *)
StartInv(j) ==
  m_State = "PULSE_START" =>
    IF Rising(edge)
      THEN since + TimeBefore(edge) >= Tolerance + j \/ Aligned(Pulse(edge))
      ELSE since >= Tolerance + j \/ Aligned(Pulse(edge))

(* After a pulse: nothing was missed since, or the next rising edge comes  *)
(* too late to end a bit and no more than a spike can.                     *)
Paused(j)  == since >= LowOne + Tolerance + j
FallSeen   == since = 0 /\ Aligned(Last)
FallMissed == since >= LowZero + PulseHigh /\ AtMostGaps(Last - 1)
RiseMissed == since >= LowZero /\ AtMostGaps(Pulse(edge) - 1)

EndInv(j) ==
  m_State = "PULSE_END" =>
    Paused(j) \/ IF Rising(edge) THEN FallSeen \/ FallMissed ELSE RiseMissed

LinkInv ==
  /\ frame \in Word
  /\ edge \in 0 .. LastEdge
  /\ since \in Int
  /\ inRow \in Nat
  /\ spikes \in 0 .. 2
  /\ Rising(edge) => since + TimeBefore(edge) > 0
  /\ ~Rising(edge) => since >= 0

SpikeInv ==
  spike => /\ Rising(edge)
           /\ since + TimeBefore(edge) > SpikeWidth
           /\ inRow = 0
           /\ m_State # "PULSE_END"

(* A decoder that has seen all edges of a frame is where the frame is.     *)
InStep ==
  inRow > 0 =>
    /\ since = 0
    /\ edge = 0 => m_State # "PULSE_START"
    /\ edge \in 1 .. Terminator /\ inRow > edge =>
         IF Rising(edge)
           THEN m_State = "PULSE_END" /\ m_BitCount = Last
           ELSE m_State = "PULSE_START" /\ m_BitCount = Pulse(edge)

ReceptionInv(j) ==
  /\ DecoderInv /\ LinkInv /\ SpikeInv
  /\ StartInv(j) /\ EndInv(j) /\ InStep

-----------------------------------------------------------------------------
(* Edges and times.                                                        *)
LEMMA Halves ==
  ASSUME NEW k \in Int
  PROVE  /\ Pulse(k) \in Int
         /\ Rising(k)  => k = 2 * Pulse(k) /\ ~Rising(k + 1)
                                           /\ Pulse(k + 1) = Pulse(k)
         /\ ~Rising(k) => k = 2 * Pulse(k) + 1 /\ Rising(k + 1)
                                           /\ Pulse(k + 1) = Pulse(k) + 1
  BY SMT DEF Rising, Pulse

(* The lengths are numbers.                                                *)
LEMMA LengthsAreInt ==
  /\ PacketBits \in Nat /\ PacketBits >= 2
  /\ PulseHigh \in Nat /\ LowZero \in Nat /\ LowOne \in Nat
  /\ Tolerance \in Nat /\ SyncGap \in Nat /\ MaxSince \in Nat
  /\ SpikeWidth \in Nat /\ 1 <= SpikeWidth
  /\ SpikeWidth <= PulseHigh - Tolerance
  BY DecoderAssumption, ReceptionAssumption

(* Which pulse an edge belongs to.                                         *)
LEMMA EdgeFacts ==
  ASSUME LinkInv
  PROVE  /\ edge \in Int /\ Pulse(edge) \in 0 .. PacketBits /\ Last \in Int
         /\ Rising(edge) => edge = 2 * Pulse(edge) /\ edge < LastEdge
         /\ ~Rising(edge) => edge = 2 * Pulse(edge) + 1 /\ edge # 0
         /\ edge = Terminator <=> Rising(edge) /\ Pulse(edge) = PacketBits
         /\ edge # 0 => Last = Pulse(edge) - 1
         /\ edge = 0 => Rising(edge) /\ Pulse(edge) = 0 /\ Last = PacketBits
<1>1. edge \in 0 .. LastEdge /\ edge \in Int
  BY LengthsAreInt DEF LinkInv, LastEdge
<1>2. /\ Pulse(edge) \in Int
      /\ Rising(edge) => edge = 2 * Pulse(edge)
      /\ ~Rising(edge) => edge = 2 * Pulse(edge) + 1
  BY <1>1, Halves
<1>3. edge = 0 => Rising(edge) /\ Pulse(edge) = 0
  BY SMT DEF Rising, Pulse
<1> QED
  BY <1>1, <1>2, <1>3, LengthsAreInt DEF LastEdge, Terminator, Last

(* The next edge is one of the same pulse, or the rising edge after it.    *)
LEMMA NextEdge ==
  ASSUME LinkInv, edge' = IF edge < LastEdge THEN edge + 1 ELSE 0
  PROVE  /\ edge' \in 0 .. LastEdge
         /\ Rising(edge) => /\ edge' = edge + 1
                            /\ ~Rising(edge')
                            /\ Pulse(edge') = Pulse(edge)
         /\ ~Rising(edge) => /\ Rising(edge')
                             /\ edge' \in {0, edge + 1}
                             /\ Last' = Pulse(edge)
<1>1. /\ edge \in Int
      /\ edge \in 0 .. LastEdge
      /\ Rising(edge) => edge < LastEdge
      /\ ~Rising(edge) => edge = 2 * Pulse(edge) + 1
  BY EdgeFacts DEF LinkInv
<1>2. /\ Pulse(edge) \in Int
      /\ Rising(edge) => ~Rising(edge + 1) /\ Pulse(edge + 1) = Pulse(edge)
      /\ ~Rising(edge) => Rising(edge + 1) /\ Pulse(edge + 1) = Pulse(edge) + 1
  BY <1>1, Halves
<1>3. Rising(0)
  BY SMT DEF Rising
<1>4. Last' = IF edge' = 0 THEN PacketBits ELSE Pulse(edge') - 1
  BY DEF Last
<1>5. PICK next : next = edge'
  OBVIOUS
<1>6. next = IF edge < LastEdge THEN edge + 1 ELSE 0
  BY <1>5
<1>7. CASE edge < LastEdge
  <2>1. next = edge + 1
    BY <1>6, <1>7
  <2> QED BY <1>1, <1>2, <1>4, <1>5, <1>7, <2>1, LengthsAreInt DEF LastEdge
<1>8. CASE ~(edge < LastEdge)
  <2>1. next = 0 /\ ~Rising(edge) /\ Pulse(edge) = PacketBits
    BY <1>1, <1>2, <1>6, <1>8, LengthsAreInt DEF LastEdge
  <2> QED BY <1>1, <1>3, <1>4, <1>5, <2>1, LengthsAreInt DEF LastEdge
<1> QED BY <1>7, <1>8

(* What it means that j tells the times apart.                             *)
LEMMA Times ==
  ASSUME NEW j, ToldApart(j)
  PROVE  /\ j \in Nat
         /\ \A jitter \in Jitters : /\ jitter \in Int
                                    /\ -j <= jitter /\ jitter <= j
         /\ j < Tolerance
         /\ Tolerance + j <= LowZero
         /\ LowZero + 2 * Tolerance + j <= LowOne
         /\ LowOne + Tolerance + j <= 2 * LowZero + PulseHigh
         /\ LowOne + 2 * Tolerance + j <= SyncGap
         /\ LowOne + Tolerance + j <= MaxSince
  BY ReceptionAssumption DEF ToldApart

(* The bit whose gap ends with the next edge.                              *)
Bit == frame[PacketBits - Pulse(edge)]

(* How long before an edge the one before it was.                          *)
LEMMA GapFacts ==
  ASSUME LinkInv
  PROVE  /\ TimeBefore(edge) \in Nat
         /\ ~Rising(edge) => TimeBefore(edge) = PulseHigh
         /\ edge = 0 => TimeBefore(edge) = SyncGap
         /\ Rising(edge) /\ edge # 0 =>
              \/ Bit = 1 /\ TimeBefore(edge) = LowOne
              \/ Bit = 0 /\ TimeBefore(edge) = LowZero
<1>1. Rising(edge) /\ edge # 0 => PacketBits - Pulse(edge) \in Positions
  BY EdgeFacts, LengthsAreInt DEF Positions
<1>2. Rising(edge) /\ edge # 0 => Bit \in {0, 1}
  BY <1>1 DEF LinkInv, Word, Bit
<1>3. /\ ~Rising(edge) => TimeBefore(edge) = PulseHigh
      /\ edge = 0 => TimeBefore(edge) = SyncGap
      /\ Rising(edge) /\ edge # 0 =>
           TimeBefore(edge) = IF Bit = 1 THEN LowOne ELSE LowZero
  BY EdgeFacts DEF TimeBefore, Bit, Pulse
<1> QED BY <1>2, <1>3, LengthsAreInt

-----------------------------------------------------------------------------
(* What Decode does to the bits.                                           *)

(* The decoder takes bit b; the last one makes a packet.                   *)
Extends(w, b) ==
  /\ w \in Word
  /\ w[NextPosition] = b
  /\ \A p \in Positions : p > NextPosition => w[p] = m_Bits[p]

TakesBit(b) ==
  \E w \in Word :
    /\ Extends(w, b)
    /\ IF m_BitCount + 1 = PacketBits
         THEN m_BitCount' = 0 /\ added' = {w}
         ELSE m_BitCount' = m_BitCount + 1 /\ m_Bits' = w /\ added' = {}

Restarts == m_BitCount' = 0 /\ added' = {}

(* A one or a zero shifts the bits and is the last of them.                *)
LEMMA BitsAreTaken ==
  ASSUME DecoderInv
  PROVE  /\ One.state = "PULSE_START" /\ One.count = m_BitCount + 1
         /\ Extends(One.bits, 1)
         /\ ZeroBit.state = "PULSE_START" /\ ZeroBit.count = m_BitCount + 1
         /\ Extends(ZeroBit.bits, 0)
<1>1. /\ m_BitCount \in Positions /\ m_Bits \in Word
      /\ \A p \in Positions : p < PacketBits - m_BitCount => m_Bits[p] = 0
  BY DEF DecoderInv, DecoderTypeOK, NoStaleBits
<1>2. NextPosition \in Positions /\ NextPosition < PacketBits - m_BitCount
  BY <1>1, LengthsAreInt DEF NextPosition, Positions
<1>3. \A p \in Positions : p > NextPosition => p # NextPosition
  BY <1>2, LengthsAreInt DEF Positions
<1>4. Extends([m_Bits EXCEPT ![NextPosition] = 1], 1)
  BY <1>1, <1>2, <1>3 DEF Extends, Word
<1>5. Extends(m_Bits, 0)
  BY <1>1, <1>2 DEF Extends
<1> QED BY <1>4, <1>5 DEF One, ZeroBit, Goto

(* What the decoder does at a rising edge, in each state.                  *)
LEMMA RiseDecoded ==
  ASSUME DecoderInv, NEW d \in Int, Decode(TRUE, d)
  PROVE  /\ m_State' \in {"UNKNOWN", "PULSE_START"}
         /\ m_State = "PULSE_START" => m_State' = "UNKNOWN" /\ Restarts
         /\ m_State # "PULSE_START" => m_State' = "PULSE_START"
         /\ m_State = "UNKNOWN" => Restarts
         /\ m_State = "PULSE_END" =>
              IF Length(d, LowOne) THEN TakesBit(1)
              ELSE IF Length(d, LowZero) THEN TakesBit(0)
              ELSE Restarts
<1> DEFINE next == Switch(TRUE, d)
<1>1. /\ m_State' = next.state
      /\ m_BitCount' = IF StartsOver(next) THEN 0 ELSE next.count
      /\ m_Bits' = IF StartsOver(next) THEN Zero ELSE next.bits
      /\ added' = IF Complete(next) THEN {next.bits} ELSE {}
  BY DEF Decode
<1>2. /\ m_State \in {"UNKNOWN", "PULSE_START", "PULSE_END"}
      /\ m_BitCount \in Nat /\ m_BitCount < PacketBits
      /\ m_State = "UNKNOWN" => m_BitCount = 0
  BY LengthsAreInt
     DEF DecoderInv, DecoderTypeOK, NoStaleBits, Positions
<1>3. /\ m_State = "UNKNOWN" => next = Goto("PULSE_START")
      /\ m_State = "PULSE_START" => next = Goto("UNKNOWN")
      /\ m_State = "PULSE_END" =>
           next = IF Length(d, LowOne) THEN One
                  ELSE IF Length(d, LowZero) THEN ZeroBit ELSE OtherGap
  BY DEF Switch, FromUnknown, FromPulseStart, FromPulseEnd
<1> HIDE DEF next
<1>4. CASE m_State = "UNKNOWN"
  BY <1>1, <1>2, <1>3, <1>4
     DEF Goto, StartsOver, Complete, Restarts
<1>5. CASE m_State = "PULSE_START"
  BY <1>1, <1>2, <1>3, <1>5
     DEF Goto, StartsOver, Complete, Restarts
<1>6. CASE m_State = "PULSE_END"
  <2>1. CASE Length(d, LowOne)
    <3>1. next = One
      BY <1>3, <1>6, <2>1
    <3>2. m_State' = "PULSE_START" /\ TakesBit(1)
      BY <1>1, <1>2, <3>1, BitsAreTaken
         DEF Extends, TakesBit, StartsOver, Complete
    <3> QED BY <1>6, <2>1, <3>2
  <2>2. CASE ~Length(d, LowOne) /\ Length(d, LowZero)
    <3>1. next = ZeroBit
      BY <1>3, <1>6, <2>2
    <3>2. m_State' = "PULSE_START" /\ TakesBit(0)
      BY <1>1, <1>2, <3>1, BitsAreTaken
         DEF Extends, TakesBit, StartsOver, Complete
    <3> QED BY <1>6, <2>2, <3>2
  <2>3. CASE ~Length(d, LowOne) /\ ~Length(d, LowZero)
    <3>1. next = OtherGap
      BY <1>3, <1>6, <2>3
    <3>2. m_State' = "PULSE_START" /\ Restarts
      BY <1>1, <3>1, LengthsAreInt
         DEF OtherGap, Restarts, StartsOver, Complete
    <3> QED BY <1>6, <2>3, <3>2
  <2> QED BY <2>1, <2>2, <2>3
<1> QED BY <1>2, <1>4, <1>5, <1>6

(* And at a falling edge.                                                  *)
LEMMA FallDecoded ==
  ASSUME DecoderInv, NEW d \in Int, Decode(FALSE, d)
  PROVE  /\ added' = {}
         /\ IF m_State = "PULSE_START" /\ Length(d, PulseHigh)
              THEN /\ m_State' = "PULSE_END"
                   /\ UNCHANGED <<m_BitCount, m_Bits>>
              ELSE m_State' = "UNKNOWN"
<1> DEFINE next == Switch(FALSE, d)
<1>1. /\ m_State' = next.state
      /\ m_BitCount' = IF StartsOver(next) THEN 0 ELSE next.count
      /\ m_Bits' = IF StartsOver(next) THEN Zero ELSE next.bits
      /\ added' = IF Complete(next) THEN {next.bits} ELSE {}
  BY DEF Decode
<1>2. /\ m_State \in {"UNKNOWN", "PULSE_START", "PULSE_END"}
      /\ m_BitCount # PacketBits
  BY LengthsAreInt DEF DecoderInv, DecoderTypeOK, Positions
<1>3. next = Goto(IF m_State = "PULSE_START" /\ Length(d, PulseHigh)
                    THEN "PULSE_END" ELSE "UNKNOWN")
  BY <1>2 DEF Switch, FromUnknown, FromPulseStart, FromPulseEnd
<1> HIDE DEF next
<1> QED BY <1>1, <1>2, <1>3 DEF Goto, StartsOver, Complete

-----------------------------------------------------------------------------
(* What a bit does to the count.                                           *)
LEMMA NothingIsAligned ==
  ASSUME m_BitCount' = 0, NEW n \in Nat
  PROVE  Aligned(n)'
  BY LengthsAreInt
     DEF Aligned, AtMostGaps, Prefix, Shifted, Positions

(* A frame's next bit keeps the bits received those of the frame.          *)
LEMMA NextBit ==
  ASSUME DecoderInv, NEW n \in Int, Aligned(n), NEW b,
         b = frame[PacketBits - (n + 1)], TakesBit(b),
         UNCHANGED frame, spikes > 0 => spikes' > 0
  PROVE  m_BitCount' = 0 \/ Aligned(n + 1)'
<1> SUFFICES ASSUME m_BitCount' # 0 PROVE Aligned(n + 1)'
  OBVIOUS
<1>1. PICK w \in Word :
        Extends(w, b) /\ m_BitCount' = m_BitCount + 1 /\ m_Bits' = w
  BY DEF TakesBit
<1>2. m_BitCount \in Nat /\ m_BitCount < PacketBits
  BY LengthsAreInt DEF DecoderInv, DecoderTypeOK, Positions
<1>3. /\ NextPosition = PacketBits - (m_BitCount + 1)
      /\ \A p \in Positions :
           p >= PacketBits - (m_BitCount + 1) =>
             p = NextPosition \/ (p > NextPosition
                                   /\ p >= PacketBits - m_BitCount)
  BY <1>2, LengthsAreInt DEF NextPosition, Positions
<1>4. m_BitCount' <= n + 1
  BY <1>1, <1>2 DEF Aligned, AtMostGaps
<1>5. ASSUME m_BitCount' = n + 1 PROVE Prefix'
  <2>1. m_BitCount = n /\ Prefix
    BY <1>1, <1>2, <1>5 DEF Aligned, AtMostGaps
  <2>2. \A p \in Positions :
          p >= PacketBits - (m_BitCount + 1) => w[p] = frame[p]
    BY <1>1, <1>3, <2>1 DEF Extends, Prefix
  <2> QED BY <1>1, <2>2 DEF Prefix
<1>6. ASSUME m_BitCount' = (n + 1) - 1 PROVE Shifted' \/ spikes' > 0
  <2>1. m_BitCount = n - 1
    BY <1>1, <1>2, <1>6
  <2>2. Shifted \/ spikes > 0
    BY <2>1 DEF Aligned
  <2>3. CASE Shifted
    <3>1. b = frame[NextPosition - 1]
      <4>1. NextPosition - 1 = PacketBits - (n + 1)
        BY <1>2, <1>3, <2>1, LengthsAreInt
      <4> QED BY <4>1
    <3>2. \A p \in Positions :
            p >= PacketBits - (m_BitCount + 1) => w[p] = frame[p - 1]
      BY <1>1, <1>3, <2>3, <3>1 DEF Extends, Shifted
    <3> QED BY <1>1, <3>2 DEF Shifted
  <2> QED BY <2>2, <2>3
<1> QED BY <1>4, <1>5, <1>6 DEF Aligned, AtMostGaps

(* The last bit completes the frame when no bit was missed.                *)
LEMMA PacketIsFrame ==
  ASSUME DecoderInv, frame \in Word, m_BitCount = PacketBits - 1, Prefix,
         NEW w, Extends(w, frame[0])
  PROVE  w = frame
<1>1. NextPosition = 0 /\ PacketBits - m_BitCount = 1
  BY LengthsAreInt DEF NextPosition
<1>2. \A p \in Positions : p = 0 \/ (p > 0 /\ p >= 1)
  BY LengthsAreInt DEF Positions
<1>3. \A p \in Positions : w[p] = frame[p]
  BY <1>1, <1>2 DEF Extends, Prefix
<1> QED BY <1>3 DEF Extends, Word

(* Otherwise all bits but the last are right.                              *)
LEMMA PacketIsAllButLast ==
  ASSUME DecoderInv, m_BitCount = PacketBits - 1,
         NEW w, NEW b, Extends(w, b)
  PROVE  /\ Prefix => AllButLast(w, 0)
         /\ Shifted => AllButLast(w, 1)
<1>1. NextPosition = 0 /\ PacketBits - m_BitCount = 1
  BY LengthsAreInt DEF NextPosition
<1>2. \A p \in Positions \ {0} : p \in Int /\ p > 0 /\ p >= 1 /\ p - 0 = p
  BY LengthsAreInt DEF Positions
<1> QED BY <1>1, <1>2 DEF Extends, Prefix, Shifted, AllButLast

-----------------------------------------------------------------------------
(* What the properties say of a step.                                      *)
OnlySent ==
  \A bits \in added' :
    \/ edge = Terminator /\ bits = frame
    \/ /\ spike' /\ edge \in {Terminator, 0}
       /\ \/ AllButLast(bits, 0)
          \/ edge = 0 /\ (AllButLast(bits, 1) \/ spikes' = 2)

SeenStored ==
  edge = Terminator /\ inRow >= Terminator + 1 /\ inRow' # 0
    => added' = {frame}

(* The part of EdgeSent that is the transmitter's.                         *)
MovesOn ==
  /\ ~spike
  /\ edge' = IF edge < LastEdge THEN edge + 1 ELSE 0
  /\ IF edge = 0 THEN frame' \in Word /\ spikes' = 0
                 ELSE UNCHANGED <<frame, spikes>>
  /\ UNCHANGED spike

(* The gap before the next rising edge is one that a bit can have.         *)
LEMMA NextGap ==
  ASSUME NEW j, ToldApart(j), LinkInv, MovesOn
  PROVE  Rising(edge)' => TimeBefore(edge)' \in Nat /\ TimeBefore(edge)' > 0
                          /\ TimeBefore(edge)' >= Tolerance + j
<1>1. Rising(edge)' => TimeBefore(edge)' \in {SyncGap, LowOne, LowZero}
  BY DEF TimeBefore, Rising
<1> QED BY <1>1, Times, LengthsAreInt

(* The transmitter goes on to its next edge, as it should.                 *)
LEMMA LinkMoves ==
  ASSUME NEW j, ToldApart(j), LinkInv, MovesOn, since' \in Nat, inRow' \in Nat
  PROVE  LinkInv' /\ SpikeInv'
<1>1. edge' \in 0 .. LastEdge
  BY NextEdge DEF MovesOn
<1>2. frame' \in Word /\ spikes' \in 0 .. 2
  BY DEF LinkInv, MovesOn
<1>3. ~spike'
  BY DEF MovesOn
<1>4. /\ Rising(edge)' => since' + TimeBefore(edge)' > 0
      /\ since' \in Int /\ since' >= 0
  BY NextGap
<1>5. LinkInv'
  BY <1>1, <1>2, <1>4 DEF LinkInv
<1> QED BY <1>3, <1>5 DEF SpikeInv

(* Nobody sees a rising edge.                                              *)
LEMMA RiseMissedKeepsInv ==
  ASSUME NEW j, ToldApart(j), ReceptionInv(j), MovesOn, EdgeMissed,
         Rising(edge)
  PROVE  LinkInv' /\ SpikeInv' /\ StartInv(j)' /\ EndInv(j)' /\ InStep'
<1> USE DEF ReceptionInv
<1> DEFINE gap == TimeBefore(edge)
<1>1. /\ ~Rising(edge)' /\ Pulse(edge)' = Pulse(edge)
      /\ Pulse(edge) \in Nat /\ Last \in Int
      /\ edge # 0 => Last = Pulse(edge) - 1
      /\ edge = 0 => Pulse(edge) = 0
  BY NextEdge, EdgeFacts DEF MovesOn
<1>2. /\ gap \in Nat /\ gap >= LowZero
      /\ edge = 0 => gap >= LowOne + Tolerance + j
  BY GapFacts, Times, LengthsAreInt
<1>3. /\ since \in Int /\ since + gap > 0
      /\ since' = AtMost(MaxSince, since + gap)
      /\ inRow' = 0
      /\ UNCHANGED <<m_State, m_BitCount, m_Bits>>
  BY DEF LinkInv, EdgeMissed
<1> HIDE DEF gap
<1>4. since' \in Nat /\ (since' = since + gap \/ since' = MaxSince)
  BY <1>2, <1>3, LengthsAreInt DEF AtMost
<1>5. LinkInv' /\ SpikeInv'
  BY <1>3, <1>4, LinkMoves
<1>6. m_BitCount \in Nat
  BY LengthsAreInt DEF DecoderInv, DecoderTypeOK, Positions
<1>7. edge # 0 => UNCHANGED <<frame, spikes, m_BitCount, m_Bits>>
  BY <1>3 DEF MovesOn
<1>8. StartInv(j)'
  <2> SUFFICES ASSUME m_State' = "PULSE_START", ~(since' >= Tolerance + j)
               PROVE  Aligned(Pulse(edge))'
    BY <1>1 DEF StartInv
  <2>1. Aligned(Pulse(edge))
    <3>1. ~(since + gap >= Tolerance + j)
      BY <1>2, <1>3, <1>4, Times, LengthsAreInt
    <3> QED BY <1>3, <3>1 DEF StartInv, gap
  <2>2. CASE edge = 0
    <3>1. m_BitCount' = 0
      BY <1>1, <1>3, <1>6, <2>1, <2>2 DEF Aligned, AtMostGaps
    <3>2. PICK n \in Nat : n = Pulse(edge)'
      BY <1>1
    <3>3. Aligned(n)'
      BY <3>1, NothingIsAligned
    <3> QED BY <3>2, <3>3 DEF Aligned, AtMostGaps
  <2>3. CASE edge # 0
    BY <1>1, <1>7, <2>1, <2>3 DEF Aligned, AtMostGaps, Prefix, Shifted
  <2> QED BY <2>2, <2>3
<1>9. EndInv(j)'
  <2> SUFFICES ASSUME m_State' = "PULSE_END", ~Paused(j)'
               PROVE  since' >= LowZero /\ AtMostGaps(Pulse(edge) - 1)'
    BY <1>1 DEF EndInv, RiseMissed
  <2>1. since' = since + gap /\ ~(since + gap >= LowOne + Tolerance + j)
    BY <1>4, Times, LengthsAreInt DEF Paused
  <2>2. FallSeen \/ FallMissed
    <3>1. ~Paused(j)
      BY <1>2, <1>3, <2>1, Times, LengthsAreInt DEF Paused
    <3> QED BY <1>3, <3>1 DEF EndInv
  <2>3. since >= 0
    BY <1>3, <2>2, LengthsAreInt DEF FallSeen, FallMissed
  <2>4. edge # 0 /\ since' >= LowZero
    BY <1>2, <1>3, <2>1, <2>3, Times, LengthsAreInt
  <2>5. AtMostGaps(Pulse(edge) - 1)
    BY <1>1, <1>6, <2>2, <2>4
       DEF FallSeen, FallMissed, Aligned, AtMostGaps
  <2>6. AtMostGaps(Pulse(edge) - 1)'
    BY <1>1, <1>7, <2>4, <2>5 DEF AtMostGaps, Prefix
  <2> QED BY <2>4, <2>6
<1>10. InStep'
  BY <1>3 DEF InStep
<1> QED BY <1>5, <1>8, <1>9, <1>10

(* Nobody sees a falling edge.                                             *)
LEMMA FallMissedKeepsInv ==
  ASSUME NEW j, ToldApart(j), ReceptionInv(j), MovesOn, EdgeMissed,
         ~Rising(edge)
  PROVE  LinkInv' /\ SpikeInv' /\ StartInv(j)' /\ EndInv(j)' /\ InStep'
<1> USE DEF ReceptionInv
<1>1. /\ Rising(edge)' /\ Last' = Pulse(edge)
      /\ Pulse(edge) \in Nat /\ edge # 0
  BY NextEdge, EdgeFacts DEF MovesOn, Rising
<1>2. /\ since \in Int /\ since >= 0
      /\ since' = AtMost(MaxSince, since + PulseHigh)
      /\ inRow' = 0
      /\ UNCHANGED <<m_State, m_BitCount, m_Bits>>
  BY GapFacts DEF LinkInv, EdgeMissed
<1>3. since' \in Nat /\ (since' = since + PulseHigh \/ since' = MaxSince)
  BY <1>2, LengthsAreInt DEF AtMost
<1>4. LinkInv' /\ SpikeInv'
  BY <1>2, <1>3, LinkMoves
<1>5. StartInv(j)'
  BY <1>1, <1>3, NextGap, Times, LengthsAreInt DEF StartInv
<1>6. EndInv(j)'
  <2> SUFFICES ASSUME m_State' = "PULSE_END", ~Paused(j)'
               PROVE  since' >= LowZero + PulseHigh /\ AtMostGaps(Last - 1)'
    BY <1>1 DEF EndInv, FallMissed
  <2>1. since' = since + PulseHigh
    BY <1>3, Times, LengthsAreInt DEF Paused
  <2>2. RiseMissed
    <3>1. ~Paused(j)
      BY <1>2, <2>1, Times, LengthsAreInt DEF Paused
    <3> QED BY <1>2, <3>1 DEF EndInv
  <2>3. UNCHANGED <<frame, m_BitCount, m_Bits>>
    BY <1>1, <1>2 DEF MovesOn
  <2>4. AtMostGaps(Last - 1)'
    BY <1>1, <2>2, <2>3 DEF RiseMissed, AtMostGaps, Prefix
  <2> QED BY <1>2, <2>1, <2>2, <2>4, LengthsAreInt DEF RiseMissed
<1>7. InStep'
  BY <1>2 DEF InStep
<1> QED BY <1>4, <1>5, <1>6, <1>7

(* A rising edge is seen: only after a pulse of which the end was seen and *)
(* nothing was missed since does it end a bit, and then that of the frame. *)
LEMMA SeenRiseTakesBit ==
  ASSUME NEW j, ToldApart(j), ReceptionInv(j), Rising(edge),
         NEW jitter \in Jitters,
         Decode(TRUE, since + TimeBefore(edge) + jitter)
  PROVE  /\ m_State' = "PULSE_START" /\ ~Restarts
              => /\ m_State = "PULSE_END" /\ edge # 0
                 /\ since = 0 /\ Aligned(Last) /\ TakesBit(Bit)
         /\ m_State = "PULSE_END" /\ edge # 0 /\ since = 0 => TakesBit(Bit)
         /\ m_State' \in {"UNKNOWN", "PULSE_START"}
         /\ m_State # "PULSE_START" => m_State' = "PULSE_START"
         /\ m_State' = "UNKNOWN" => Restarts
<1> DEFINE gap == TimeBefore(edge)
           d == since + gap + jitter
<1>1. DecoderInv /\ LinkInv /\ EndInv(j)
  BY DEF ReceptionInv
<1>2. /\ gap \in Nat /\ gap >= LowZero
      /\ edge = 0 => gap = SyncGap
      /\ edge # 0 => \/ Bit = 1 /\ gap = LowOne
                     \/ Bit = 0 /\ gap = LowZero
  BY <1>1, GapFacts, Times, LengthsAreInt
<1>3. since \in Int /\ jitter \in Int /\ -j <= jitter /\ jitter <= j
  BY <1>1, Times DEF LinkInv
<1>4. d \in Int
  BY <1>2, <1>3
<1>5. /\ m_State' \in {"UNKNOWN", "PULSE_START"}
      /\ m_State = "PULSE_START" => m_State' = "UNKNOWN" /\ Restarts
      /\ m_State # "PULSE_START" => m_State' = "PULSE_START"
      /\ m_State = "UNKNOWN" => Restarts
      /\ m_State = "PULSE_END" =>
           IF Length(d, LowOne) THEN TakesBit(1)
           ELSE IF Length(d, LowZero) THEN TakesBit(0)
           ELSE Restarts
  BY <1>1, <1>4, RiseDecoded
<1> HIDE DEF gap
<1>6. m_State \in {"UNKNOWN", "PULSE_START", "PULSE_END"}
  BY <1>1 DEF DecoderInv, DecoderTypeOK
<1>7. edge # 0 /\ since = 0
        => /\ Bit = 1 => Length(d, LowOne)
           /\ Bit = 0 => ~Length(d, LowOne) /\ Length(d, LowZero)
  BY <1>2, <1>3, Times, LengthsAreInt DEF Length
<1>8. (edge = 0 /\ since >= 0) \/ since >= LowZero + PulseHigh \/ Paused(j)
        => ~Length(d, LowOne) /\ ~Length(d, LowZero)
  BY <1>2, <1>3, Times, LengthsAreInt DEF Length, Paused
<1>9. m_State = "PULSE_END" => FallSeen \/ FallMissed \/ Paused(j)
  BY <1>1 DEF EndInv
<1> HIDE DEF d
<1>10. m_State = "PULSE_END" /\ edge # 0 /\ since = 0 => TakesBit(Bit)
  BY <1>2, <1>5, <1>7
<1>11. ASSUME m_State = "PULSE_END", ~Restarts
       PROVE  edge # 0 /\ since = 0 /\ Aligned(Last)
  BY <1>5, <1>8, <1>9, <1>11 DEF FallSeen, FallMissed
<1> QED BY <1>5, <1>6, <1>10, <1>11

(* A rising edge that is seen keeps the invariant; a frame it completes    *)
(* was sent.                                                               *)
LEMMA RiseSeenKeepsInv ==
  ASSUME NEW j, ToldApart(j), ReceptionInv(j), MovesOn, Rising(edge),
         NEW jitter \in Jitters, EdgeSeen(jitter)
  PROVE  /\ LinkInv' /\ SpikeInv' /\ StartInv(j)' /\ EndInv(j)' /\ InStep'
         /\ OnlySent /\ SeenStored
<1>1. DecoderInv /\ LinkInv /\ EndInv(j) /\ InStep
  BY DEF ReceptionInv
<1>2. /\ Decode(TRUE, since + TimeBefore(edge) + jitter)
      /\ since' = 0
      /\ inRow' = AtMost(LastEdge + 1, inRow + 1)
  BY DEF EdgeSeen
<1>3. /\ m_State' = "PULSE_START" /\ ~Restarts
           => /\ m_State = "PULSE_END" /\ edge # 0
              /\ since = 0 /\ Aligned(Last) /\ TakesBit(Bit)
      /\ m_State = "PULSE_END" /\ edge # 0 /\ since = 0 => TakesBit(Bit)
      /\ m_State' \in {"UNKNOWN", "PULSE_START"}
      /\ m_State # "PULSE_START" => m_State' = "PULSE_START"
      /\ m_State' = "UNKNOWN" => Restarts
  BY <1>2, SeenRiseTakesBit
<1>4. inRow' \in Nat /\ inRow' <= inRow + 1
  BY <1>1, <1>2, LengthsAreInt DEF LinkInv, AtMost, LastEdge
<1>5. LinkInv' /\ SpikeInv'
  BY <1>1, <1>2, <1>4, LinkMoves
<1>6. /\ ~Rising(edge)' /\ Pulse(edge)' = Pulse(edge)
      /\ edge' = edge + 1 /\ edge \in Int
      /\ Pulse(edge) \in 0 .. PacketBits
      /\ edge # 0 => Last = Pulse(edge) - 1
      /\ edge = 0 => Pulse(edge) = 0
      /\ edge = 2 * Pulse(edge)
  BY <1>1, NextEdge, EdgeFacts DEF MovesOn
<1>7. m_BitCount \in Nat /\ m_BitCount < PacketBits
  BY <1>1, LengthsAreInt DEF DecoderInv, DecoderTypeOK, Positions
<1>8. ASSUME edge # 0, TakesBit(Bit), Aligned(Last)
      PROVE  m_BitCount' = 0 \/ Aligned(Pulse(edge))'
  <2>1. PICK n \in Int : n = Pulse(edge) - 1
    BY <1>6
  <2>2. /\ Bit = frame[PacketBits - (n + 1)]
        /\ Aligned(n)
    BY <1>6, <1>8, <2>1 DEF Bit
  <2>3. UNCHANGED <<frame, spikes>>
    BY <1>8 DEF MovesOn
  <2>4. m_BitCount' = 0 \/ Aligned(n + 1)'
    BY <1>1, <1>8, <2>2, <2>3, NextBit
  <2>5. n + 1 = Pulse(edge)'
    BY <1>6, <2>1
  <2> QED BY <2>4, <2>5 DEF Aligned, AtMostGaps
<1>9. m_BitCount' = 0 => Aligned(Pulse(edge))'
  <2>1. PICK n \in Nat : n = Pulse(edge)'
    BY <1>6, LengthsAreInt
  <2>2. m_BitCount' = 0 => Aligned(n)'
    BY NothingIsAligned
  <2> QED BY <2>1, <2>2 DEF Aligned, AtMostGaps
<1>10. StartInv(j)'
  BY <1>3, <1>6, <1>8, <1>9 DEF StartInv, Restarts
<1>11. EndInv(j)'
  BY <1>3 DEF EndInv
<1>12. ASSUME edge \in 1 .. Terminator, inRow > edge
       PROVE  /\ m_State' = "PULSE_START" /\ TakesBit(Bit) /\ Aligned(Last)
              /\ m_BitCount = Pulse(edge) - 1
  <2>1. since = 0 /\ m_State = "PULSE_END" /\ m_BitCount = Last
    BY <1>1, <1>6, <1>12, LengthsAreInt DEF InStep, LinkInv, Terminator
  <2>2. TakesBit(Bit) /\ m_State' = "PULSE_START"
    BY <1>3, <1>12, <2>1
  <2>3. Aligned(Last)
    BY <1>1, <2>1, Times, LengthsAreInt
       DEF EndInv, Paused, FallSeen, FallMissed
  <2> QED BY <1>6, <1>12, <2>1, <2>2, <2>3
<1>13. InStep'
  <2> SUFFICES ASSUME edge' \in 1 .. Terminator, inRow' > edge'
               PROVE  m_State' = "PULSE_START" /\ m_BitCount' = Pulse(edge)
    BY <1>2, <1>6 DEF InStep, LinkInv
  <2>1. inRow > edge /\ edge < Terminator /\ inRow > 0
    BY <1>1, <1>4, <1>6, LengthsAreInt DEF LinkInv, Terminator
  <2>2. CASE edge = 0
    <3>1. m_State # "PULSE_START"
      BY <1>1, <2>1, <2>2 DEF InStep
    <3>2. m_State' = "PULSE_START" /\ Restarts
      BY <1>3, <2>2, <3>1
    <3> QED BY <1>6, <2>2, <3>2 DEF Restarts
  <2>3. CASE edge # 0
    <3>1. edge \in 1 .. Terminator
      BY <1>6, <2>1, <2>3, LengthsAreInt DEF Terminator
    <3>2. /\ m_State' = "PULSE_START" /\ TakesBit(Bit)
          /\ m_BitCount = Pulse(edge) - 1
      BY <1>12, <2>1, <3>1
    <3>3. m_BitCount + 1 # PacketBits
      BY <1>6, <2>1, <3>2, LengthsAreInt DEF Terminator
    <3> QED BY <1>6, <3>2, <3>3 DEF TakesBit
  <2> QED BY <2>2, <2>3
<1>14. ASSUME edge # 0, TakesBit(Bit), Aligned(Last), added' # {}
       PROVE  edge = Terminator /\ added' = {frame}
  <2>1. PICK w \in Word : Extends(w, Bit) /\ added' = {w}
                          /\ m_BitCount + 1 = PacketBits
    BY <1>14 DEF TakesBit
  <2>2. Pulse(edge) = PacketBits /\ m_BitCount = Last
    BY <1>6, <1>7, <1>14, <2>1, LengthsAreInt DEF Aligned, AtMostGaps
  <2>3. edge = Terminator /\ Prefix /\ Bit = frame[0]
    BY <1>6, <1>14, <2>2, LengthsAreInt
       DEF Terminator, Aligned, AtMostGaps, Bit
  <2>4. m_BitCount = PacketBits - 1 /\ frame \in Word
    BY <1>1, <1>7, <2>1, LengthsAreInt DEF LinkInv
  <2>5. w = frame
    BY <1>1, <2>1, <2>3, <2>4, PacketIsFrame
  <2> QED BY <2>1, <2>3, <2>5
<1>15. OnlySent
  BY <1>3, <1>14 DEF OnlySent, Restarts
<1>16. SeenStored
  <2> SUFFICES ASSUME edge = Terminator, inRow >= Terminator + 1
               PROVE  added' = {frame}
    BY DEF SeenStored
  <2>1. edge \in 1 .. Terminator /\ inRow > edge /\ Pulse(edge) = PacketBits
    BY <1>1, <1>6, LengthsAreInt DEF Terminator, LinkInv
  <2>2. TakesBit(Bit) /\ Aligned(Last) /\ m_BitCount = PacketBits - 1
    BY <1>12, <2>1
  <2>3. added' # {}
    BY <2>2, LengthsAreInt DEF TakesBit
  <2> QED BY <1>14, <2>1, <2>2, <2>3, LengthsAreInt
<1> QED BY <1>5, <1>10, <1>11, <1>13, <1>15, <1>16

(* A falling edge is seen.                                                 *)
LEMMA FallSeenKeepsInv ==
  ASSUME NEW j, ToldApart(j), ReceptionInv(j), MovesOn, ~Rising(edge),
         NEW jitter \in Jitters, EdgeSeen(jitter)
  PROVE  /\ LinkInv' /\ SpikeInv' /\ StartInv(j)' /\ EndInv(j)' /\ InStep'
         /\ added' = {} /\ SeenStored
<1> DEFINE d == since + PulseHigh + jitter
<1>1. DecoderInv /\ LinkInv /\ StartInv(j) /\ InStep
  BY DEF ReceptionInv
<1>2. /\ Decode(FALSE, d)
      /\ since' = 0
      /\ inRow' = AtMost(LastEdge + 1, inRow + 1)
  BY <1>1, GapFacts DEF EdgeSeen, Rising
<1>3. /\ since \in Int /\ since >= 0
      /\ jitter \in Int /\ -j <= jitter /\ jitter <= j
  BY <1>1, Times DEF LinkInv
<1>4. /\ since >= Tolerance + j => ~Length(d, PulseHigh)
      /\ since = 0 => Length(d, PulseHigh)
      /\ d \in Int
  BY <1>3, Times, LengthsAreInt DEF Length
<1> HIDE DEF d
<1>5. /\ added' = {}
      /\ IF m_State = "PULSE_START" /\ Length(d, PulseHigh)
           THEN /\ m_State' = "PULSE_END"
                /\ UNCHANGED <<m_BitCount, m_Bits>>
           ELSE m_State' = "UNKNOWN"
  BY <1>1, <1>2, <1>4, FallDecoded
<1>6. inRow' \in Nat /\ inRow' <= inRow + 1
  BY <1>1, <1>2, LengthsAreInt DEF LinkInv, AtMost, LastEdge
<1>7. LinkInv' /\ SpikeInv'
  BY <1>1, <1>2, <1>6, LinkMoves
<1>8. /\ Rising(edge)' /\ Last' = Pulse(edge)
      /\ edge' \in {0, edge + 1}
      /\ edge \in Int /\ edge # 0 /\ edge >= 0
      /\ edge # Terminator
  BY <1>1, NextEdge, EdgeFacts, LengthsAreInt DEF MovesOn, Rising, LinkInv
<1>9. StartInv(j)'
  BY <1>5 DEF StartInv
<1>10. EndInv(j)'
  <2> SUFFICES ASSUME m_State' = "PULSE_END"
               PROVE  FallSeen'
    BY <1>8 DEF EndInv
  <2>1. /\ m_State = "PULSE_START" /\ ~(since >= Tolerance + j)
        /\ UNCHANGED <<m_BitCount, m_Bits>>
    BY <1>4, <1>5
  <2>2. Aligned(Pulse(edge))
    BY <1>1, <2>1 DEF StartInv
  <2>3. UNCHANGED <<frame, spikes>>
    BY <1>8 DEF MovesOn
  <2>4. Aligned(Last)'
    BY <1>8, <2>1, <2>2, <2>3 DEF Aligned, AtMostGaps, Prefix, Shifted
  <2> QED BY <1>2, <2>4 DEF FallSeen
<1>11. InStep'
  <2>1. m_State' # "PULSE_START"
    BY <1>5
  <2> SUFFICES ASSUME edge' \in 1 .. Terminator, inRow' > edge'
               PROVE  m_State' = "PULSE_END" /\ m_BitCount' = Pulse(edge)
    BY <1>2, <1>8, <2>1 DEF InStep
  <2>2. edge \in 1 .. Terminator /\ inRow > edge /\ inRow > 0
    BY <1>1, <1>6, <1>8, LengthsAreInt DEF LinkInv, Terminator
  <2>3. /\ m_State = "PULSE_START" /\ m_BitCount = Pulse(edge)
        /\ since = 0
    BY <1>1, <2>2 DEF InStep
  <2> QED BY <1>4, <1>5, <2>3
<1>12. SeenStored
  BY <1>8 DEF SeenStored
<1> QED BY <1>5, <1>7, <1>9, <1>10, <1>11, <1>12

-----------------------------------------------------------------------------
(* A spike rises: it can end a bit where the next pulse would have, or     *)
(* later, in the pause.                                                    *)
SpikeEndsBit(t, j) ==
  /\ FallSeen \/ FallMissed
  /\ \E b \in {0, 1} :
       /\ TakesBit(b)
       /\ TimeBefore(edge) - t < Tolerance + j
            => edge # 0 /\ (FallSeen => b = Bit)

(* A spike that rises ends a bit at a known place, or starts the decoder   *)
(* over.                                                                   *)
LEMMA SpikeTakesBit ==
  ASSUME NEW j, ToldApart(j), ReceptionInv(j), NEW t \in SpikeAt,
         SpikeRises(t)
  PROVE  /\ m_State' \in {"UNKNOWN", "PULSE_START"}
         /\ m_State' = "PULSE_START" /\ ~Restarts => SpikeEndsBit(t, j)
         /\ m_State' = "UNKNOWN" => Restarts
<1> DEFINE gap == TimeBefore(edge)
           d == since + t
<1>1. DecoderInv /\ LinkInv /\ EndInv(j)
  BY DEF ReceptionInv
<1>2. /\ gap \in Nat /\ gap >= LowZero
      /\ edge = 0 => gap = SyncGap
      /\ edge # 0 => \/ Bit = 1 /\ gap = LowOne
                     \/ Bit = 0 /\ gap = LowZero
  BY <1>1, GapFacts, Times, LengthsAreInt DEF SpikeRises
<1>3. /\ since \in Int /\ t \in Nat
      /\ t < gap /\ Rising(edge) /\ Decode(TRUE, d)
  <2>1. since \in Int /\ t \in Nat
    BY <1>1, ReceptionAssumption DEF LinkInv
  <2>2. t + SpikeWidth < gap /\ Rising(edge) /\ Decode(TRUE, d)
    BY DEF SpikeRises
  <2>3. t + SpikeWidth < gap
    BY <2>2
  <2> HIDE DEF gap
  <2>4. t < gap
    BY <1>2, <2>1, <2>3, LengthsAreInt
  <2> QED BY <2>1, <2>2, <2>4
<1>4. d \in Int
  BY <1>3
<1>5. /\ m_State' \in {"UNKNOWN", "PULSE_START"}
      /\ m_State = "PULSE_START" => m_State' = "UNKNOWN" /\ Restarts
      /\ m_State # "PULSE_START" => m_State' = "PULSE_START"
      /\ m_State = "UNKNOWN" => Restarts
      /\ m_State = "PULSE_END" =>
           IF Length(d, LowOne) THEN TakesBit(1)
           ELSE IF Length(d, LowZero) THEN TakesBit(0)
           ELSE Restarts
  BY <1>1, <1>3, <1>4, RiseDecoded
<1> HIDE DEF gap
<1>6. m_State \in {"UNKNOWN", "PULSE_START", "PULSE_END"}
  BY <1>1 DEF DecoderInv, DecoderTypeOK
<1>7. m_State = "PULSE_END" => FallSeen \/ FallMissed \/ Paused(j)
  BY <1>1, <1>3 DEF EndInv
<1>8. Paused(j) => ~Length(d, LowOne) /\ ~Length(d, LowZero)
  BY <1>3, Times, LengthsAreInt DEF Length, Paused
<1>9. ASSUME gap - t < Tolerance + j, since >= 0, edge = 0
      PROVE  ~Length(d, LowOne) /\ ~Length(d, LowZero)
  BY <1>2, <1>3, <1>9, Times, LengthsAreInt DEF Length
<1>10. ASSUME gap - t < Tolerance + j, since = 0, edge # 0
       PROVE  /\ Bit = 1 => ~Length(d, LowZero) \/ Length(d, LowOne)
              /\ Bit = 0 => ~Length(d, LowOne)
  BY <1>2, <1>3, <1>10, Times, LengthsAreInt DEF Length
<1>11. FallSeen \/ FallMissed => since >= 0
  BY <1>3, LengthsAreInt DEF FallSeen, FallMissed
<1>12. FallSeen => since = 0
  BY DEF FallSeen
<1> HIDE DEF d
<1>13. ASSUME m_State = "PULSE_END", ~Restarts
       PROVE  /\ FallSeen \/ FallMissed
              /\ \E b \in {0, 1} :
                   /\ TakesBit(b)
                   /\ gap - t < Tolerance + j
                        => edge # 0 /\ (FallSeen => b = Bit)
  <2>1. Length(d, LowOne) \/ Length(d, LowZero)
    BY <1>5, <1>13
  <2>2. FallSeen \/ FallMissed
    BY <1>7, <1>8, <1>13, <2>1
  <2>3. gap - t < Tolerance + j => edge # 0
    BY <1>9, <1>11, <2>1, <2>2
  <2>4. CASE Length(d, LowOne)
    <3>1. TakesBit(1)
      BY <1>5, <1>13, <2>4
    <3>2. gap - t < Tolerance + j /\ FallSeen => Bit = 1
      BY <1>2, <1>10, <1>12, <2>3, <2>4
    <3> QED BY <2>2, <2>3, <3>1, <3>2
  <2>5. CASE ~Length(d, LowOne)
    <3>1. TakesBit(0)
      BY <1>5, <1>13, <2>1, <2>5
    <3>2. gap - t < Tolerance + j /\ FallSeen => Bit = 0
      BY <1>2, <1>10, <1>12, <2>1, <2>3, <2>5
    <3> QED BY <2>2, <2>3, <3>1, <3>2
  <2> QED BY <2>4, <2>5
<1>14. m_State = "PULSE_END" /\ ~Restarts => SpikeEndsBit(t, j)
  BY <1>13 DEF gap, SpikeEndsBit
<1>15. m_State' = "PULSE_START" /\ ~Restarts => SpikeEndsBit(t, j)
  <2>1. m_State' = "PULSE_START" => m_State # "PULSE_START"
    BY <1>5
  <2> QED BY <1>5, <1>6, <1>14, <2>1
<1>16. m_State' = "UNKNOWN" => Restarts
  BY <1>5
<1> QED BY <1>5, <1>15, <1>16

(* So it keeps the invariant; a frame it completes was sent but for the    *)
(* last bit.                                                               *)
LEMMA SpikeRisesKeepsInv ==
  ASSUME NEW j, ToldApart(j), ReceptionInv(j), NEW t \in SpikeAt,
         SpikeRises(t)
  PROVE  /\ LinkInv' /\ SpikeInv' /\ StartInv(j)' /\ EndInv(j)' /\ InStep'
         /\ OnlySent /\ SeenStored
<1> DEFINE gap == TimeBefore(edge)
<1>1. DecoderInv /\ LinkInv
  BY DEF ReceptionInv
<1>2. /\ Rising(edge) /\ t + SpikeWidth < gap
      /\ since' = -t /\ spike' = TRUE /\ inRow' = 0
      /\ spikes' = AtMost(2, spikes + 1)
      /\ UNCHANGED <<frame, edge>>
  BY DEF SpikeRises
<1>3. gap' = gap /\ gap \in Nat /\ t \in Nat
  BY <1>1, <1>2, GapFacts, ReceptionAssumption DEF TimeBefore
<1>4. /\ m_State' \in {"UNKNOWN", "PULSE_START"}
      /\ m_State' = "PULSE_START" /\ ~Restarts => SpikeEndsBit(t, j)
      /\ m_State' = "UNKNOWN" => Restarts
  BY SpikeTakesBit
<1>5. /\ spikes' \in 1 .. 2
      /\ spikes > 0 => spikes' = 2
  BY <1>1, <1>2 DEF LinkInv, AtMost
<1> HIDE DEF gap
<1>6. since' + gap > SpikeWidth /\ since' + gap > 0 /\ since' \in Int
  BY <1>2, <1>3, LengthsAreInt
<1>7. LinkInv'
  BY <1>1, <1>2, <1>3, <1>5, <1>6 DEF LinkInv, Rising, gap
<1>8. SpikeInv'
  <2>1. Rising(edge)' /\ since' + TimeBefore(edge)' > SpikeWidth
    BY <1>2, <1>3, <1>6 DEF Rising, gap
  <2> QED BY <1>2, <1>4, <2>1 DEF SpikeInv
<1>9. EndInv(j)'
  BY <1>4 DEF EndInv
<1>10. InStep' /\ SeenStored
  BY <1>2 DEF InStep, SeenStored
<1>11. m_BitCount \in Nat /\ m_BitCount < PacketBits
  BY <1>1, LengthsAreInt DEF DecoderInv, DecoderTypeOK, Positions
<1>12. /\ edge \in Int /\ Pulse(edge) \in 0 .. PacketBits
       /\ edge # 0 => Last = Pulse(edge) - 1
       /\ edge = 0 => Pulse(edge) = 0 /\ Last = PacketBits
       /\ edge = Terminator <=> Pulse(edge) = PacketBits
       /\ Last \in Int
  BY <1>1, <1>2, EdgeFacts
<1>13. m_BitCount' = 0 => Aligned(Pulse(edge))'
  <2>1. PICK n \in Nat : n = Pulse(edge)
    BY <1>12, LengthsAreInt
  <2>2. m_BitCount' = 0 => Aligned(n)'
    BY NothingIsAligned
  <2>3. n = Pulse(edge)'
    BY <1>2, <2>1 DEF Pulse
  <2> QED BY <2>2, <2>3 DEF Aligned, AtMostGaps
<1>14. ASSUME NEW b \in {0, 1}, TakesBit(b), edge # 0,
              FallSeen \/ FallMissed, FallSeen => b = Bit
       PROVE  m_BitCount' = 0 \/ Aligned(Pulse(edge))'
  <2>1. PICK n \in Int : n = Pulse(edge) - 1
    BY <1>12, LengthsAreInt
  <2>2. n + 1 = Pulse(edge)' /\ n = Last
    BY <1>2, <1>12, <1>14, <2>1 DEF Pulse
  <2>3. CASE FallSeen
    <3>1. b = frame[PacketBits - (n + 1)] /\ Aligned(n)
      BY <1>14, <2>1, <2>2, <2>3, <1>12 DEF Bit, FallSeen
    <3>2. m_BitCount' = 0 \/ Aligned(n + 1)'
      BY <1>1, <1>2, <1>5, <1>14, <3>1, NextBit
    <3> QED BY <2>2, <3>2 DEF Aligned, AtMostGaps
  <2>4. CASE FallMissed
    <3>1. m_BitCount <= n - 1
      BY <2>2, <2>4 DEF FallMissed, AtMostGaps
    <3>2. m_BitCount' = 0 \/ m_BitCount' = m_BitCount + 1
      BY <1>14 DEF TakesBit
    <3> QED BY <1>5, <1>11, <2>2, <3>1, <3>2 DEF Aligned, AtMostGaps
  <2> QED BY <1>14, <2>3, <2>4
<1>15. StartInv(j)'
  <2> SUFFICES ASSUME m_State' = "PULSE_START",
                      ~(since' + gap >= Tolerance + j)
               PROVE  Aligned(Pulse(edge))'
    BY <1>2, <1>3 DEF StartInv, Rising, gap
  <2>1. gap - t < Tolerance + j
    BY <1>2, <1>3, Times, LengthsAreInt
  <2>2. CASE Restarts
    BY <1>13, <2>2 DEF Restarts
  <2>3. CASE ~Restarts
    <3>1. PICK b \in {0, 1} :
            /\ TakesBit(b) /\ edge # 0
            /\ FallSeen \/ FallMissed
            /\ FallSeen => b = Bit
      BY <1>4, <2>1, <2>3 DEF SpikeEndsBit, gap
    <3>2. m_BitCount' = 0 \/ Aligned(Pulse(edge))'
      BY <1>14, <3>1
    <3> QED BY <1>13, <3>2
  <2> QED BY <2>2, <2>3
<1>16. ASSUME NEW bits \in added'
       PROVE  /\ edge \in {Terminator, 0}
              /\ \/ AllButLast(bits, 0)
                 \/ edge = 0 /\ (AllButLast(bits, 1) \/ spikes' = 2)
  <2>1. SpikeEndsBit(t, j)
    BY <1>4, <1>16 DEF Restarts
  <2>2. PICK b \in {0, 1} : TakesBit(b)
    BY <2>1 DEF SpikeEndsBit
  <2>3. m_BitCount + 1 = PacketBits /\ Extends(bits, b)
    BY <1>16, <2>2 DEF TakesBit
  <2>4. m_BitCount = PacketBits - 1
    BY <1>11, <2>3, LengthsAreInt
  <2>5. /\ Prefix => AllButLast(bits, 0)
        /\ Shifted => AllButLast(bits, 1)
    BY <1>1, <2>3, <2>4, PacketIsAllButLast
  <2>6. CASE edge # 0
    <3>1. m_BitCount <= Last
      BY <1>11, <1>12, <2>1, LengthsAreInt
         DEF SpikeEndsBit, FallSeen, FallMissed, Aligned, AtMostGaps
    <3>2. edge = Terminator /\ m_BitCount = Last
      BY <1>11, <1>12, <2>4, <2>6, <3>1, LengthsAreInt
    <3>3. Prefix
      BY <1>11, <1>12, <2>1, <3>2, LengthsAreInt
         DEF SpikeEndsBit, FallSeen, FallMissed, Aligned, AtMostGaps
    <3> QED BY <2>5, <3>2, <3>3
  <2>7. CASE edge = 0
    <3>1. m_BitCount = Last - 1
      BY <1>12, <2>4, <2>7
    <3>2. CASE FallSeen
      <4>1. Shifted \/ spikes > 0
        BY <3>1, <3>2 DEF FallSeen, Aligned
      <4> QED BY <1>5, <2>5, <2>7, <4>1
    <3>3. CASE FallMissed
      <4>1. Prefix
        BY <3>1, <3>3 DEF FallMissed, AtMostGaps
      <4> QED BY <2>5, <2>7, <4>1
    <3> QED BY <2>1, <3>2, <3>3 DEF SpikeEndsBit
  <2> QED BY <2>6, <2>7
<1>17. OnlySent
  BY <1>2, <1>16 DEF OnlySent
<1> QED BY <1>7, <1>8, <1>9, <1>10, <1>15, <1>17

(* A spike falls, seen or not.                                             *)
LEMMA SpikeFallsKeepsInv ==
  ASSUME NEW j, ToldApart(j), ReceptionInv(j), SpikeFalls
  PROVE  /\ LinkInv' /\ SpikeInv' /\ StartInv(j)' /\ EndInv(j)' /\ InStep'
         /\ added' = {} /\ SeenStored
<1> DEFINE gap == TimeBefore(edge)
<1>1. DecoderInv /\ LinkInv /\ SpikeInv /\ StartInv(j)
  BY DEF ReceptionInv
<1>2. /\ spike /\ ~spike' /\ UNCHANGED <<frame, edge, inRow, spikes>>
      /\ \/ Decode(FALSE, SpikeWidth) /\ since' = since - SpikeWidth
         \/ /\ added' = {}
            /\ UNCHANGED <<m_State, m_BitCount, m_Bits, since>>
  BY DEF SpikeFalls
<1>3. /\ Rising(edge) /\ since + gap > SpikeWidth
      /\ inRow = 0 /\ m_State # "PULSE_END" /\ since \in Int
  BY <1>1, <1>2 DEF SpikeInv, LinkInv
<1>4. gap' = gap /\ gap \in Nat /\ Rising(edge)'
  BY <1>1, <1>2, <1>3, GapFacts DEF TimeBefore, Rising
<1> HIDE DEF gap
<1>5. /\ added' = {} /\ m_State' # "PULSE_END"
      /\ \/ m_State' = "UNKNOWN"
         \/ UNCHANGED <<m_State, m_BitCount, m_Bits, since>>
  <2>1. ~Length(SpikeWidth, PulseHigh) /\ SpikeWidth \in Int
    BY LengthsAreInt DEF Length
  <2>2. CASE Decode(FALSE, SpikeWidth)
    BY <1>1, <2>1, <2>2, FallDecoded
  <2> QED BY <1>2, <1>3, <2>2
<1>6. since' \in Int /\ since' + gap > 0
  <2>1. since' = since - SpikeWidth \/ since' = since
    BY <1>2
  <2> QED BY <1>3, <1>4, <2>1, LengthsAreInt
<1>7. LinkInv'
  BY <1>1, <1>2, <1>4, <1>6 DEF LinkInv, gap
<1>8. SpikeInv' /\ InStep' /\ SeenStored
  <2>1. SpikeInv'
    BY <1>2 DEF SpikeInv
  <2>2. InStep' /\ SeenStored
    BY <1>2, <1>3 DEF InStep, SeenStored
  <2> QED BY <2>1, <2>2
<1>9. EndInv(j)'
  BY <1>5 DEF EndInv
<1>10. StartInv(j)'
  <2> SUFFICES ASSUME m_State' = "PULSE_START"
               PROVE  \/ since' + gap >= Tolerance + j
                      \/ Aligned(Pulse(edge))'
    BY <1>4 DEF StartInv, gap
  <2>1. UNCHANGED <<m_State, m_BitCount, m_Bits, since>>
    BY <1>5
  <2>2. since + gap >= Tolerance + j \/ Aligned(Pulse(edge))
    BY <1>1, <1>3, <2>1 DEF StartInv, gap
  <2> QED
    BY <1>2, <2>1, <2>2
       DEF Aligned, AtMostGaps, Prefix, Shifted, Pulse
<1> QED BY <1>5, <1>7, <1>8, <1>9, <1>10

-----------------------------------------------------------------------------
(* The steps together.                                                     *)
LEMMA ReceptionKeepsDecoder ==
  ASSUME DecoderInv, [ReceptionNext]_receptionVars
  PROVE  DecoderInv'
<1>1. ASSUME UNCHANGED <<m_State, m_BitCount, m_Bits>>,
             added' = {} \/ added' = added
      PROVE  DecoderInv'
  BY <1>1 DEF DecoderInv, DecoderTypeOK, NoStaleBits
<1>2. CASE EdgeSent
  <2>1. CASE EdgeMissed
    BY <1>1, <2>1 DEF EdgeMissed
  <2>2. ASSUME NEW jitter \in Jitters, EdgeSeen(jitter) PROVE DecoderInv'
    <3>1. PICK rising \in BOOLEAN :
            Decode(rising, since + TimeBefore(edge) + jitter)
      BY <2>2 DEF EdgeSeen, Rising
    <3> QED BY <3>1, DecodeKeepsInv
  <2> QED BY <1>2, <2>1, <2>2 DEF EdgeSent
<1>3. CASE SpikeFalls
  <2>1. CASE Decode(FALSE, SpikeWidth)
    BY <2>1, DecodeKeepsInv
  <2>2. CASE added' = {} /\ UNCHANGED <<m_State, m_BitCount, m_Bits, since>>
    BY <1>1, <2>2
  <2> QED BY <1>3, <2>1, <2>2 DEF SpikeFalls
<1>4. ASSUME NEW t \in SpikeAt, SpikeRises(t) PROVE DecoderInv'
  <2>1. Decode(TRUE, since + t)
    BY <1>4 DEF SpikeRises
  <2> QED BY <2>1, DecodeKeepsInv
<1>5. CASE UNCHANGED receptionVars
  BY <1>1, <1>5 DEF receptionVars, decoderVars
<1> QED BY <1>2, <1>3, <1>4, <1>5 DEF ReceptionNext

(* Every step keeps the parts of the invariant and stores what was sent    *)
(* only.                                                                   *)
LEMMA ReceptionStep ==
  ASSUME NEW j, ToldApart(j), ReceptionInv(j), ReceptionNext
  PROVE  /\ LinkInv' /\ SpikeInv' /\ StartInv(j)' /\ EndInv(j)' /\ InStep'
         /\ OnlySent /\ SeenStored
<1>1. CASE EdgeSent
  <2>1. MovesOn
    BY <1>1 DEF EdgeSent, MovesOn
  <2>2. CASE EdgeMissed
    <3>1. OnlySent /\ SeenStored
      BY <2>2 DEF EdgeMissed, OnlySent, SeenStored
    <3>2. CASE Rising(edge)
      BY <2>1, <2>2, <3>1, <3>2, RiseMissedKeepsInv
    <3>3. CASE ~Rising(edge)
      BY <2>1, <2>2, <3>1, <3>3, FallMissedKeepsInv
    <3> QED BY <3>2, <3>3
  <2>3. ASSUME NEW jitter \in Jitters, EdgeSeen(jitter)
        PROVE  /\ LinkInv' /\ SpikeInv'
               /\ StartInv(j)' /\ EndInv(j)' /\ InStep'
               /\ OnlySent /\ SeenStored
    <3>1. CASE Rising(edge)
      BY <2>1, <2>3, <3>1, RiseSeenKeepsInv
    <3>2. CASE ~Rising(edge)
      <4>1. /\ LinkInv' /\ SpikeInv'
            /\ StartInv(j)' /\ EndInv(j)' /\ InStep'
            /\ added' = {} /\ SeenStored
        BY <2>1, <2>3, <3>2, FallSeenKeepsInv
      <4>2. OnlySent
        BY <4>1 DEF OnlySent
      <4> QED BY <4>1, <4>2
    <3> QED BY <3>1, <3>2
  <2> QED BY <1>1, <2>2, <2>3 DEF EdgeSent
<1>2. CASE SpikeFalls
  <2>1. /\ LinkInv' /\ SpikeInv' /\ StartInv(j)' /\ EndInv(j)' /\ InStep'
        /\ added' = {} /\ SeenStored
    BY <1>2, SpikeFallsKeepsInv
  <2>2. OnlySent
    BY <2>1 DEF OnlySent
  <2> QED BY <2>1, <2>2
<1>3. ASSUME NEW t \in SpikeAt, SpikeRises(t)
      PROVE  /\ LinkInv' /\ SpikeInv'
             /\ StartInv(j)' /\ EndInv(j)' /\ InStep'
             /\ OnlySent /\ SeenStored
  BY <1>3, SpikeRisesKeepsInv
<1> QED BY <1>1, <1>2, <1>3 DEF ReceptionNext

(* The invariant of the reception holds at the start.                      *)
LEMMA ReceptionInitInv ==
  ASSUME NEW j, ToldApart(j), ReceptionInit
  PROVE  ReceptionInv(j)
<1>1. DecoderInv
  BY DecoderAssumption, ZeroIsWord
     DEF ReceptionInit, DecoderInit, DecoderInv, DecoderTypeOK, NoStaleBits,
         Positions
<1>2. /\ m_State = "UNKNOWN" /\ frame \in Word /\ edge = 0
      /\ since = MaxSince /\ inRow = 0 /\ ~spike /\ spikes = 0
  BY DEF ReceptionInit, DecoderInit
<1>3. Rising(edge) /\ TimeBefore(edge) = SyncGap
  BY <1>2 DEF Rising, TimeBefore
<1>4. LinkInv
  BY <1>2, <1>3, Times, LengthsAreInt DEF LinkInv, LastEdge
<1>5. SpikeInv /\ StartInv(j) /\ EndInv(j) /\ InStep
  BY <1>2 DEF SpikeInv, StartInv, EndInv, InStep
<1> QED BY <1>1, <1>4, <1>5 DEF ReceptionInv

(* Every step keeps it.                                                    *)
LEMMA ReceptionInductive ==
  ASSUME NEW j, ToldApart(j), ReceptionInv(j), [ReceptionNext]_receptionVars
  PROVE  ReceptionInv(j)'
<1>1. DecoderInv'
  BY ReceptionKeepsDecoder DEF ReceptionInv
<1>2. CASE ReceptionNext
  BY <1>1, <1>2, ReceptionStep DEF ReceptionInv
<1>3. CASE UNCHANGED receptionVars
  BY <1>1, <1>3
     DEF receptionVars, decoderVars, ReceptionInv, LinkInv, SpikeInv,
         StartInv, EndInv, InStep, Aligned, AtMostGaps, Prefix, Shifted,
         Last, Paused, FallSeen, FallMissed, RiseMissed, TimeBefore
<1> QED BY <1>2, <1>3

-----------------------------------------------------------------------------
(* However the edges come, the bit count leaves room for the shift that    *)
(* stores the next bit: no assumption on the times.                        *)
THEOREM ReceptionKeepsTypes == ReceptionSpec => []DecoderTypeOK
<1>1. ReceptionInit => DecoderInv
  BY DecoderAssumption, ZeroIsWord
     DEF ReceptionInit, DecoderInit, DecoderInv, DecoderTypeOK, NoStaleBits,
         Positions
<1>2. DecoderInv /\ [ReceptionNext]_receptionVars => DecoderInv'
  BY ReceptionKeepsDecoder
<1>3. DecoderInv => DecoderTypeOK
  BY DEF DecoderInv
<1> QED BY <1>1, <1>2, <1>3, PTL DEF ReceptionSpec

(* Nor does a bit of an abandoned packet survive: no assumption on the     *)
(* times.                                                                  *)
THEOREM ReceptionHasNoStaleBits == ReceptionSpec => []NoStaleBits
<1>1. ReceptionInit => DecoderInv
  BY DecoderAssumption, ZeroIsWord
     DEF ReceptionInit, DecoderInit, DecoderInv, DecoderTypeOK, NoStaleBits,
         Positions
<1>2. DecoderInv /\ [ReceptionNext]_receptionVars => DecoderInv'
  BY ReceptionKeepsDecoder
<1>3. DecoderInv => NoStaleBits
  BY DEF DecoderInv
<1> QED BY <1>1, <1>2, <1>3, PTL DEF ReceptionSpec

(* If the times can be told apart, no edges missed and no spikes make the  *)
(* decoder store a frame that was not sent, but for the last bit, and only *)
(* two spikes in one frame can do worse.                                   *)
THEOREM NoPacketIsMadeUp ==
  ASSUME InTime
  PROVE  ReceptionSpec => OnlySentFrames
<1>1. PICK j \in 0 .. Tolerance : ToldApart(j)
  BY DEF InTime
<1>2. ReceptionInit => ReceptionInv(j)
  BY <1>1, ReceptionInitInv
<1>3. ReceptionInv(j) /\ [ReceptionNext]_receptionVars => ReceptionInv(j)'
  BY <1>1, ReceptionInductive
<1>4. ReceptionInv(j) /\ [ReceptionNext]_receptionVars
        => [OnlySent]_receptionVars
  BY <1>1, ReceptionStep
<1>5. ReceptionSpec => [][OnlySent]_receptionVars
  BY <1>2, <1>3, <1>4, PTL DEF ReceptionSpec
<1> QED BY <1>5 DEF OnlySentFrames, OnlySent

(* If the times can be told apart, a frame of which all edges were seen is *)
(* stored, whatever the decoder was fed before.                            *)
THEOREM SeenFramesAreStored ==
  ASSUME InTime
  PROVE  ReceptionSpec => SeenFrameIsStored
<1>1. PICK j \in 0 .. Tolerance : ToldApart(j)
  BY DEF InTime
<1>2. ReceptionInit => ReceptionInv(j)
  BY <1>1, ReceptionInitInv
<1>3. ReceptionInv(j) /\ [ReceptionNext]_receptionVars => ReceptionInv(j)'
  BY <1>1, ReceptionInductive
<1>4. ReceptionInv(j) /\ [ReceptionNext]_receptionVars
        => [SeenStored]_receptionVars
  BY <1>1, ReceptionStep
<1>5. ReceptionSpec => [][SeenStored]_receptionVars
  BY <1>2, <1>3, <1>4, PTL DEF ReceptionSpec
<1> QED BY <1>5 DEF SeenFrameIsStored, SeenStored
=============================================================================
