-------------------------------- MODULE Packet --------------------------------
(***************************************************************************)
(* The class Packet: what a 36-bit frame means, and the count of its       *)
(* receptions.  m_Raw is the sequence of the 9 nibbles packet.h groups it  *)
(* in,                                                                     *)
(*   [id0] [id1] [flags] [temp0] [temp1] [temp2] [const] [humi0] [humi1]   *)
(* and a measurement is what the sensor put into them.                     *)
(***************************************************************************)
EXTENDS Integers

CONSTANTS
  Measurements,   \* what the sensors measure, see Measurement
  Consts,         \* the values of the fixed nibble that are received
  FrameCap        \* where m_FrameCounter stops (0xFF)

Measurement == [id : 0 .. 255, battery : 0 .. 1, channel : 0 .. 3,
                temperature : -2048 .. 2047, humidity : 0 .. 255]

(* The measurements and constant nibbles sent, and the counter's limit.    *)
ASSUME PacketAssumption ==
  /\ Measurements \subseteq Measurement
  /\ Consts \subseteq 0 .. 15
  /\ FrameCap \in 0 .. 255

VARIABLES
  m_Raw, m_FrameCounter,
  measured    \* what the transmitter measured

vars == <<m_Raw, m_FrameCounter, measured>>

-----------------------------------------------------------------------------
(* The transmitter (external).                                             *)
High(byte) == byte \div 16
Low(byte)  == byte % 16

Bits12(n) == n % 4096    \* two's complement

FrameOf(m, temperature, const) ==
  << High(m.id), Low(m.id), 8 * m.battery + m.channel,
     temperature \div 256, High(temperature % 256), Low(temperature),
     const, High(m.humidity), Low(m.humidity) >>

-----------------------------------------------------------------------------
(* The getters.                                                            *)
Byte(high, low) == 16 * high + low
ToInt16(n) == IF n >= 2^15 THEN n - 2^16 ELSE n

GetId(w)       == Byte(w[1], w[2])
GetBattery(w)  == w[3] \div 8

WithBattery(w) == w[3] % 16    \* mutant: the mask 0x0F for 0x03
GetChannel(w)  == w[3] % 4

(* Bit 11 is the sign; it is copied to bits 12 to 15.                      *)
Unsigned(w) == 256 * w[4] + Byte(w[5], w[6])    \* mutant: no sign bit
GetTemperature10(w) ==
  LET t == 256 * w[4] + Byte(w[5], w[6])
  IN  ToInt16(IF t >= 2^11 THEN 15 * 2^12 + t ELSE t)

GetConst(w)    == w[7]
GetHumidity(w) == Byte(w[8], w[9])
GetSenderId(w) == 256 * GetId(w) + GetChannel(w)

AtAnyTemperature(w) == GetConst(w) = 15 /\ GetHumidity(w) <= 100  \* mutant
IsValid(w) ==
  /\ GetConst(w) = 15
  /\ GetHumidity(w) <= 100
  /\ GetTemperature10(w) > -400
  /\ GetTemperature10(w) < 600

DividedFirst == (m_FrameCounter * (100 \div 12)) % 256   \* mutant
GetQualityPercent == ((m_FrameCounter * 100) \div 12) % 256   \* a uint8_t

-----------------------------------------------------------------------------
Init ==
  /\ measured \in Measurements
  /\ \E const \in Consts :
       m_Raw = FrameOf(measured, Bits12(measured.temperature), const)
  /\ m_FrameCounter = 0

IncreaseFrameCounter ==
  /\ m_FrameCounter' = IF m_FrameCounter < FrameCap
                         THEN m_FrameCounter + 1 ELSE m_FrameCounter
  /\ UNCHANGED <<m_Raw, measured>>

PacketSpec == Init /\ [][IncreaseFrameCounter]_vars

-----------------------------------------------------------------------------
(* Every measurement is read back as it was sent, negative temperatures,   *)
(* the battery bit and the unused flag included.                           *)
MeasurementIsRead ==
  measured = [id |-> GetId(m_Raw), battery |-> GetBattery(m_Raw),
              channel |-> GetChannel(m_Raw),
              temperature |-> GetTemperature10(m_Raw),
              humidity |-> GetHumidity(m_Raw)]

(* The sender id, which the storage, the substitutions and the topics go   *)
(* by, is the same for all measurements of one id and channel, and those   *)
(* of two of them never meet: no other field leaks into it.                *)
SendersAreApart ==
  \A m \in Measurements, const \in Consts :
    LET other == FrameOf(m, Bits12(m.temperature), const)
    IN  GetSenderId(m_Raw) = GetSenderId(other)
          <=> <<measured.id, measured.channel>> = <<m.id, m.channel>>

(* The only filter against noise: a frame is taken iff its fixed nibble is *)
(* right and what was measured is plausible for the air.                   *)
PlausibleIsValid ==
  IsValid(m_Raw)
    <=> /\ m_Raw[7] = 15
        /\ measured.temperature \in -399 .. 599
        /\ measured.humidity \in 0 .. 100

(* The quality published is the share of 12 frames, rounded down: 100 for  *)
(* a burst of which every frame was received, more if frames of a second   *)
(* burst were counted too.  From 31 frames on it exceeds a uint8_t.        *)
QualityIsShare ==
  m_FrameCounter <= 30
    => /\ 12 * GetQualityPercent <= 100 * m_FrameCounter
       /\ 100 * m_FrameCounter < 12 * (GetQualityPercent + 1)
=============================================================================
