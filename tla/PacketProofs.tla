----------------------------- MODULE PacketProofs -----------------------------
(***************************************************************************)
(* Proofs about Packet for every measurement the fields can hold and every *)
(* value of the fixed nibble: TLC takes the ends of each field.            *)
(***************************************************************************)
EXTENDS Packet, TLAPS

(* The packet holds what was sent; the count stays in its byte.            *)
PacketInv ==
  /\ measured \in Measurements
  /\ \E const \in Consts :
       m_Raw = FrameOf(measured, Bits12(measured.temperature), const)
  /\ m_FrameCounter \in 0 .. FrameCap

-----------------------------------------------------------------------------
(* The arithmetic of the nibbles, and of a temperature in 12 bits.         *)
Bytes == 0 .. 255
Channels == 0 .. 3
TwelveBits == 0 .. 4095
Temperatures == -2048 .. 2047

(* A byte is made of its two nibbles.                                      *)
LEMMA ByteOfNibbles ==
  ASSUME NEW n \in Bytes
  PROVE  /\ High(n) \in 0 .. 15
         /\ Low(n) \in 0 .. 15
         /\ Byte(High(n), Low(n)) = n
  BY SMT DEF High, Low, Byte, Bytes

(* Negative numbers go to the upper half of the 12 bits.                   *)
LEMMA TwosComplement ==
  ASSUME NEW n \in Temperatures
  PROVE  /\ Bits12(n) \in TwelveBits
         /\ n >= 0 => Bits12(n) = n
         /\ n < 0  => Bits12(n) = n + 4096
  BY SMTT(30) DEF Bits12, TwelveBits, Temperatures

(* A temperature of twelve bits is made of its three nibbles.              *)
LEMMA TwelveBitsOfNibbles ==
  ASSUME NEW t \in TwelveBits
  PROVE  256 * (t \div 256) + Byte(High(t % 256), Low(t)) = t
<1>1. /\ t = 256 * (t \div 256) + (t % 256)
      /\ t % 256 \in Bytes
  BY SMT DEF TwelveBits, Bytes
<1>2. Low(t) = Low(t % 256)
  BY SMT DEF Low, TwelveBits
<1>3. Byte(High(t % 256), Low(t % 256)) = t % 256
  BY <1>1, ByteOfNibbles
<1>4. t \div 256 \in Int
  BY SMT DEF TwelveBits
<1> QED BY <1>1, <1>2, <1>3, <1>4 DEF Bytes

(* The powers of two the fields are extended with.                         *)
LEMMA Powers == 2^11 = 2048 /\ 2^12 = 4096 /\ 2^15 = 32768 /\ 2^16 = 65536
  BY SMT

(* The sign is extended from 12 to 16 bits.                                *)
LEMMA SignIsExtended ==
  ASSUME NEW n \in Temperatures
  PROVE  ToInt16(IF Bits12(n) >= 2^11 THEN 15 * 2^12 + Bits12(n)
                                      ELSE Bits12(n)) = n
<1> DEFINE t == Bits12(n)
           signed == IF t >= 2^11 THEN 15 * 2^12 + t ELSE t
<1>1. /\ t \in TwelveBits
      /\ n >= 0 => t = n
      /\ n < 0 => t = n + 4096
  BY TwosComplement
<1> HIDE DEF t
<1>2. signed = IF n >= 0 THEN n ELSE n + 65536
  BY <1>1, Powers DEF Temperatures, TwelveBits
<1> HIDE DEF signed
<1>3. ToInt16(signed) = IF signed >= 32768 THEN signed - 65536 ELSE signed
  BY Powers DEF ToInt16
<1>4. ToInt16(signed) = n
  BY <1>2, <1>3 DEF Temperatures
<1> QED BY <1>4 DEF signed, t

-----------------------------------------------------------------------------
(* The getters take a frame apart as the transmitter has put it together.  *)
LEMMA FieldsOfFrame ==
  ASSUME NEW m \in Measurement, NEW const
  PROVE  LET w == FrameOf(m, Bits12(m.temperature), const)
         IN  /\ GetId(w) = m.id
             /\ GetBattery(w) = m.battery
             /\ GetChannel(w) = m.channel
             /\ GetTemperature10(w) = m.temperature
             /\ GetHumidity(w) = m.humidity
             /\ GetConst(w) = const
<1> DEFINE t == Bits12(m.temperature)
           w == FrameOf(m, t, const)
<1>1. /\ m.id \in Bytes /\ m.battery \in 0 .. 1 /\ m.channel \in 0 .. 3
      /\ m.temperature \in Temperatures /\ m.humidity \in Bytes
  BY DEF Measurement, Bytes, Temperatures
<1> HIDE DEF t
<1>2. /\ w[1] = High(m.id) /\ w[2] = Low(m.id)
      /\ w[3] = 8 * m.battery + m.channel
      /\ w[4] = t \div 256 /\ w[5] = High(t % 256) /\ w[6] = Low(t)
      /\ w[7] = const
      /\ w[8] = High(m.humidity) /\ w[9] = Low(m.humidity)
  BY DEF FrameOf
<1> HIDE DEF w
<1>3. GetId(w) = m.id
  <2>1. Byte(High(m.id), Low(m.id)) = m.id
    BY <1>1, ByteOfNibbles
  <2> QED BY <1>2, <2>1 DEF GetId
<1>4. GetBattery(w) = m.battery /\ GetChannel(w) = m.channel
  <2>1. \A b \in 0 .. 1, c \in 0 .. 3 :
          (8 * b + c) \div 8 = b /\ (8 * b + c) % 4 = c
    BY SMT
  <2> QED BY <1>1, <1>2, <2>1 DEF GetBattery, GetChannel
<1>5. GetTemperature10(w) = m.temperature
  <2>1. t \in TwelveBits
    BY <1>1, TwosComplement DEF t
  <2>2. 256 * w[4] + Byte(w[5], w[6]) = t
    <3>1. 256 * (t \div 256) + Byte(High(t % 256), Low(t)) = t
      BY <2>1, TwelveBitsOfNibbles
    <3> QED BY <1>2, <3>1
  <2>3. ToInt16(IF t >= 2^11 THEN 15 * 2^12 + t ELSE t) = m.temperature
    BY <1>1, SignIsExtended DEF t
  <2> QED BY <2>2, <2>3 DEF GetTemperature10
<1>6. GetHumidity(w) = m.humidity
  <2>1. Byte(High(m.humidity), Low(m.humidity)) = m.humidity
    BY <1>1, ByteOfNibbles
  <2> QED BY <1>2, <2>1 DEF GetHumidity
<1>7. GetConst(w) = const
  BY <1>2 DEF GetConst
<1>8. /\ GetId(w) = m.id /\ GetBattery(w) = m.battery
      /\ GetChannel(w) = m.channel /\ GetTemperature10(w) = m.temperature
      /\ GetHumidity(w) = m.humidity /\ GetConst(w) = const
  BY <1>3, <1>4, <1>5, <1>6, <1>7
<1> QED BY <1>8 DEF w, t

(* The channel takes the low byte of the sender id for itself.             *)
LEMMA SenderIdIsInjective ==
  ASSUME NEW a \in Bytes, NEW b \in Bytes,
         NEW c \in Channels, NEW d \in Channels
  PROVE  256 * a + c = 256 * b + d <=> a = b /\ c = d
  BY SMT DEF Bytes, Channels

(* A share of up to 30 frames of 12 fits in a byte.                        *)
LEMMA ShareFitsAByte ==
  ASSUME NEW c \in 0 .. 30
  PROVE  /\ (c * 100) \div 12 \in 0 .. 250
         /\ ((c * 100) \div 12) % 256 = (c * 100) \div 12
         /\ 12 * ((c * 100) \div 12) <= c * 100
         /\ c * 100 < 12 * ((c * 100) \div 12 + 1)
  BY SMT

-----------------------------------------------------------------------------
(* The packet holds the frame that was sent, and its count stays a byte.   *)
THEOREM PacketInvariant == PacketSpec => []PacketInv
<1>1. Init => PacketInv
  BY PacketAssumption DEF Init, PacketInv
<1>2. PacketInv /\ [IncreaseFrameCounter]_vars => PacketInv'
  <2> SUFFICES ASSUME PacketInv, [IncreaseFrameCounter]_vars
               PROVE  PacketInv'
    OBVIOUS
  <2>1. UNCHANGED <<m_Raw, measured>>
    BY DEF IncreaseFrameCounter, vars
  <2>2. m_FrameCounter' \in 0 .. FrameCap
    BY PacketAssumption DEF PacketInv, IncreaseFrameCounter, vars
  <2> QED BY <2>1, <2>2 DEF PacketInv
<1> QED BY <1>1, <1>2, PTL DEF PacketSpec

(* The getters return the fields of the measurement in the packet.         *)
LEMMA InvMeasured ==
  ASSUME PacketInv
  PROVE  /\ measured \in Measurement
         /\ GetId(m_Raw) = measured.id
         /\ GetBattery(m_Raw) = measured.battery
         /\ GetChannel(m_Raw) = measured.channel
         /\ GetTemperature10(m_Raw) = measured.temperature
         /\ GetHumidity(m_Raw) = measured.humidity
         /\ GetConst(m_Raw) = m_Raw[7]
<1>1. PICK const \in Consts :
        m_Raw = FrameOf(measured, Bits12(measured.temperature), const)
  BY DEF PacketInv
<1>2. measured \in Measurement
  BY PacketAssumption DEF PacketInv
<1>3. GetConst(m_Raw) = m_Raw[7]
  BY DEF GetConst
<1> QED BY <1>1, <1>2, <1>3, FieldsOfFrame

(* Every value of every field, 4096 temperatures among them, is read back  *)
(* by the getters of packet.h as the sensor has sent it.                   *)
THEOREM EveryMeasurementIsRead == PacketSpec => []MeasurementIsRead
<1>1. PacketInv => MeasurementIsRead
  <2> SUFFICES ASSUME PacketInv PROVE MeasurementIsRead
    OBVIOUS
  <2>1. measured = [id |-> measured.id, battery |-> measured.battery,
                    channel |-> measured.channel,
                    temperature |-> measured.temperature,
                    humidity |-> measured.humidity]
    BY InvMeasured DEF Measurement
  <2> QED BY <2>1, InvMeasured DEF MeasurementIsRead
<1> QED BY <1>1, PacketInvariant, PTL

(* GetSenderId tells sensors apart by id and channel and by nothing else.  *)
THEOREM SendersNeverMeet == PacketSpec => []SendersAreApart
<1>1. PacketInv => SendersAreApart
  <2> SUFFICES ASSUME PacketInv, NEW m \in Measurements, NEW const \in Consts
               PROVE  LET other == FrameOf(m, Bits12(m.temperature), const)
                      IN  GetSenderId(m_Raw) = GetSenderId(other)
                            <=> <<measured.id, measured.channel>>
                                  = <<m.id, m.channel>>
    BY DEF SendersAreApart
  <2> DEFINE other == FrameOf(m, Bits12(m.temperature), const)
  <2>1. m \in Measurement
    BY PacketAssumption
  <2>2. GetId(other) = m.id /\ GetChannel(other) = m.channel
    BY <2>1, FieldsOfFrame
  <2>3. GetSenderId(m_Raw) = 256 * measured.id + measured.channel
    BY InvMeasured DEF GetSenderId
  <2>4. GetSenderId(other) = 256 * m.id + m.channel
    BY <2>2 DEF GetSenderId
  <2>5. /\ measured.id \in Bytes /\ measured.channel \in Channels
        /\ m.id \in Bytes /\ m.channel \in Channels
    BY <2>1, InvMeasured DEF Measurement, Bytes, Channels
  <2>6. 256 * measured.id + measured.channel = 256 * m.id + m.channel
          <=> measured.id = m.id /\ measured.channel = m.channel
    BY <2>5, SenderIdIsInjective
  <2> HIDE DEF other
  <2>7. GetSenderId(m_Raw) = GetSenderId(other)
          <=> <<measured.id, measured.channel>> = <<m.id, m.channel>>
    BY <2>3, <2>4, <2>6
  <2> QED BY <2>7 DEF other
<1> QED BY <1>1, PacketInvariant, PTL

(* IsValid takes the frames with the right fixed nibble and a plausible    *)
(* measurement, and no other.                                              *)
THEOREM ValidIsPlausible == PacketSpec => []PlausibleIsValid
<1>1. PacketInv => PlausibleIsValid
  BY InvMeasured, SMTT(30) DEF PlausibleIsValid, IsValid, Measurement
<1> QED BY <1>1, PacketInvariant, PTL

(* GetQualityPercent is the share of 12 frames, rounded down, as long as   *)
(* it fits in the uint8_t it is returned in.                               *)
THEOREM QualityIsTheShare == PacketSpec => []QualityIsShare
<1>1. PacketInv => QualityIsShare
  <2> SUFFICES ASSUME PacketInv, m_FrameCounter <= 30
               PROVE  /\ 12 * GetQualityPercent <= 100 * m_FrameCounter
                      /\ 100 * m_FrameCounter < 12 * (GetQualityPercent + 1)
    BY DEF QualityIsShare
  <2>1. m_FrameCounter \in 0 .. 30
    BY PacketAssumption DEF PacketInv
  <2>2. GetQualityPercent = (m_FrameCounter * 100) \div 12
    BY <2>1, ShareFitsAByte DEF GetQualityPercent
  <2> QED BY <2>1, <2>2, ShareFitsAByte
<1> QED BY <1>1, PacketInvariant, PTL
=============================================================================
