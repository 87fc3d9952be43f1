---------------------------- MODULE PulseDecoder ----------------------------
(***************************************************************************)
(* Decoder::Decode: the state machine that turns the edges of the radio    *)
(* receiver's output into packets.  A bit is a short pulse and the gap up  *)
(* to the next one: a long gap is a 1, a shorter one a 0, any other length *)
(* starts a new packet.  PacketBits bits in a row make a packet, which is  *)
(* given to the storage.                                                   *)
(*                                                                         *)
(* m_Bits is the function from bit positions to bits, so the first bit     *)
(* received is at position PacketBits - 1.                                 *)
(***************************************************************************)
EXTENDS Integers

CONSTANTS
  PacketBits,   \* PACKET_BITS_COUNT
  PulseHigh,    \* PULSE_HIGH_LEN
  LowZero,      \* PULSE_LOW_ZERO
  LowOne,       \* PULSE_LOW_ONE
  Tolerance,    \* m_ToleranceUs
  Deltas        \* the times between edges that are considered

(* A packet has two bits at least; the time between edges is any number,   *)
(* for the clock can be set.                                               *)
ASSUME DecoderAssumption ==
  /\ PacketBits \in Nat \ {0, 1}
  /\ {PulseHigh, LowZero, LowOne, Tolerance} \subseteq Nat
  /\ Deltas \subseteq Int

VARIABLES
  m_State, m_BitCount, m_Bits,
  added    \* the packets (none or one) the last call gave to m_Storage.Add

decoderVars == <<m_State, m_BitCount, m_Bits, added>>

Positions == 0 .. PacketBits - 1
Word      == [Positions -> {0, 1}]
Zero      == [p \in Positions |-> 0]

(* The macro LENGTH: both ends of the window are excluded.                 *)
Length(x, len) == x < len + Tolerance /\ x > len - Tolerance

-----------------------------------------------------------------------------
(* The switch of Decode gives the next state, bit count and bits.          *)
Goto(s) == [state |-> s, count |-> m_BitCount, bits |-> m_Bits]

NextPosition == PacketBits - 1 - m_BitCount

One == [state |-> "PULSE_START", count |-> m_BitCount + 1,
        bits |-> [m_Bits EXCEPT ![NextPosition] = 1]]

ZeroBit == [Goto("PULSE_START") EXCEPT !.count = m_BitCount + 1]

KeepsBits ==                          \* mutant: m_Bits is not cleared
  [state |-> "PULSE_START", count |-> 0, bits |-> m_Bits]
KeepsCount == Goto("PULSE_START")     \* mutant: nothing is cleared
OtherGap == [state |-> "PULSE_START", count |-> 0, bits |-> Zero]

FromUnknown(rising) == Goto(IF rising THEN "PULSE_START" ELSE "UNKNOWN")

AnyPulse(rising, delta) ==            \* mutant: the pulse is not measured
  Goto(IF rising THEN "UNKNOWN" ELSE "PULSE_END")
FromPulseStart(rising, delta) ==
  Goto(IF ~rising /\ Length(delta, PulseHigh) THEN "PULSE_END"
       ELSE "UNKNOWN")

FromPulseEnd(rising, delta) ==
  IF ~rising THEN Goto("UNKNOWN")
  ELSE IF Length(delta, LowOne) THEN One
  ELSE IF Length(delta, LowZero) THEN ZeroBit
  ELSE OtherGap

Switch(rising, delta) ==
  CASE m_State = "UNKNOWN"     -> FromUnknown(rising)
    [] m_State = "PULSE_START" -> FromPulseStart(rising, delta)
    [] m_State = "PULSE_END"   -> FromPulseEnd(rising, delta)

-----------------------------------------------------------------------------
DecoderInit ==
  /\ m_State = "UNKNOWN"
  /\ m_BitCount = 0
  /\ m_Bits = Zero
  /\ added = {}

Complete(next) == next.count = PacketBits

(* A whole packet and an unknown state both start from nothing again.      *)
ForgetsPacket(next) ==        \* mutant: no reset after a packet was added
  next.state = "UNKNOWN"
StartsOver(next) == Complete(next) \/ next.state = "UNKNOWN"

Decode(rising, delta) ==
  LET next == Switch(rising, delta)
  IN  /\ m_State' = next.state
      /\ m_BitCount' = IF StartsOver(next) THEN 0 ELSE next.count
      /\ m_Bits' = IF StartsOver(next) THEN Zero ELSE next.bits
      /\ added' = IF Complete(next) THEN {next.bits} ELSE {}

DecoderNext == \E rising \in BOOLEAN, delta \in Deltas : Decode(rising, delta)

DecoderSpec == DecoderInit /\ [][DecoderNext]_decoderVars

-----------------------------------------------------------------------------
(* Between two edges a packet is incomplete, so the shift by               *)
(* PACKET_BITS_COUNT-1-m_BitCount is never negative and m_BitCount never   *)
(* passes PACKET_BITS_COUNT (the code tests for equality).                 *)
DecoderTypeOK ==
  /\ m_State \in {"UNKNOWN", "PULSE_START", "PULSE_END"}
  /\ m_BitCount \in Positions
  /\ m_Bits \in Word
  /\ added \subseteq Word

(* The code never clears a bit it receives as 0 ("all bits are initially   *)
(* 0"): so the positions still to be received must all be 0, whatever      *)
(* edges came before, or a 1 of an abandoned packet would reappear in the  *)
(* next one.  In the unknown state no bit is counted at all.               *)
NoStaleBits ==
  /\ \A p \in Positions : p < PacketBits - m_BitCount => m_Bits[p] = 0
  /\ m_State = "UNKNOWN" => m_BitCount = 0
=============================================================================
