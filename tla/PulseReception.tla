--------------------------- MODULE PulseReception ---------------------------
(***************************************************************************)
(* The decoder behind a radio link.  A transmitter sends frame after frame *)
(* of PacketBits bits, each closed by a synchronisation pulse and a long   *)
(* gap.  The reader of the GPIO line misses edges: the kernel drops an     *)
(* event, or a busy system polls too late.  The time it then hands to      *)
(* Decode with the next edge runs from the last edge it saw.  The edges it *)
(* sees come early or late by some jitter.  In a gap the receiver may put  *)
(* out a spike: a pulse too short to be one of a transmitter.              *)
(*                                                                         *)
(* Edges of a frame are counted from 0: edge 2i is the rising edge of      *)
(* pulse i, edge 2i + 1 its falling edge; pulse PacketBits is the          *)
(* synchronisation pulse, whose rising edge ends the last bit.             *)
(***************************************************************************)
EXTENDS PulseDecoder

CONSTANTS
  SyncGap,    \* the pause between two frames (SYNC_GAP_LEN)
  Jitters,    \* how much too long or too short a measured time can be
  SpikeAt,    \* when a spike begins, counted from the last edge sent
  SpikeWidth, \* how long it is
  MaxSince    \* bound: longer times are all alike

(* The times of the transmitter, of its jitter and of the spikes.          *)
ASSUME ReceptionAssumption ==
  /\ SyncGap \in Nat
  /\ Jitters \subseteq Int
  /\ SpikeAt \subseteq Nat
  /\ SpikeWidth \in 1 .. (PulseHigh - Tolerance)
  /\ MaxSince \in Nat

VARIABLES
  frame,   \* the frame being sent, in the pause the one before
  edge,    \* its next edge
  since,   \* time between the last edge seen and the last edge sent
  inRow,   \* number of edges seen since the last one missed or spike
  spike,   \* the line is high with a spike
  spikes   \* how many there were since the frame began, 2 for more

receptionVars == <<decoderVars, frame, edge, since, inRow, spike, spikes>>

LastEdge == 2 * PacketBits + 1
Terminator == 2 * PacketBits     \* the rising edge that ends the last bit

Rising(k) == k % 2 = 0

(* The time before edge k: a pulse, the pause, or the gap of a bit.        *)
TimeBefore(k) ==
  IF ~Rising(k) THEN PulseHigh
  ELSE IF k = 0 THEN SyncGap
  ELSE IF frame[PacketBits - (k \div 2)] = 1 THEN LowOne ELSE LowZero

AtMost(bound, n) == IF n > bound THEN bound ELSE n

ReceptionInit ==
  /\ DecoderInit
  /\ frame \in Word
  /\ edge = 0
  /\ since = MaxSince
  /\ inRow = 0
  /\ spike = FALSE /\ spikes = 0

(* EventReader and PollingReader: an edge is seen, `prev` moves to it.     *)
EdgeSeen(jitter) ==
  /\ Decode(Rising(edge), since + TimeBefore(edge) + jitter)
  /\ since' = 0
  /\ inRow' = AtMost(LastEdge + 1, inRow + 1)

(* An edge nobody sees: `prev` stays, the decoder is not called.           *)
EdgeMissed ==
  /\ since' = AtMost(MaxSince, since + TimeBefore(edge))
  /\ inRow' = 0
  /\ added' = {}
  /\ UNCHANGED <<m_State, m_BitCount, m_Bits>>

EdgeSent ==
  /\ ~spike
  /\ EdgeMissed \/ \E jitter \in Jitters : EdgeSeen(jitter)
  /\ edge' = IF edge < LastEdge THEN edge + 1 ELSE 0
  /\ IF edge = 0 THEN frame' \in Word /\ spikes' = 0
                 ELSE UNCHANGED <<frame, spikes>>
  /\ UNCHANGED spike

(* Both edges of a spike are seen, or only the first one; `since` is       *)
(* negative while the last edge seen is later than the last one sent.      *)
SpikeRises(t) ==
  /\ Rising(edge) /\ ~spike
  /\ -since < t /\ t + SpikeWidth < TimeBefore(edge)
  /\ Decode(TRUE, since + t)
  /\ since' = -t
  /\ spike' = TRUE /\ spikes' = AtMost(2, spikes + 1)
  /\ inRow' = 0
  /\ UNCHANGED <<frame, edge>>

SpikeFalls ==
  /\ spike /\ spike' = FALSE
  /\ \/ Decode(FALSE, SpikeWidth) /\ since' = since - SpikeWidth
     \/ added' = {} /\ UNCHANGED <<m_State, m_BitCount, m_Bits, since>>
  /\ UNCHANGED <<frame, edge, inRow, spikes>>

ReceptionNext == EdgeSent \/ SpikeFalls \/ \E t \in SpikeAt : SpikeRises(t)

ReceptionSpec == ReceptionInit /\ [][ReceptionNext]_receptionVars

-----------------------------------------------------------------------------
(* Times that can be told apart when no measured one is off by more than   *)
(* j: the windows of the two gaps, a long gap and two short ones with the  *)
(* pulse between, any gap and a pulse measured wrong, and a pause.  Those  *)
(* of decoder.cpp can up to 200 microseconds, at a tolerance of 300.       *)
ToldApart(j) ==
  /\ j \in Nat /\ Jitters \subseteq -j .. j
  /\ j < Tolerance
  /\ Tolerance + j <= LowZero
  /\ LowZero + 2 * Tolerance + j <= LowOne
  /\ LowOne + Tolerance + j <= 2 * LowZero + PulseHigh
  /\ LowOne + 2 * Tolerance + j <= SyncGap
  /\ LowOne + Tolerance + j <= MaxSince

InTime == \E j \in 0 .. Tolerance : ToldApart(j)

(* Missed edges cost frames but never make one up: what is given to the    *)
(* storage is the frame being sent, complete and at its end.  No packet is *)
(* put together from two frames, or from a frame with a bit missing.  A    *)
(* spike in the last gap or in the pause can forge one bit, the last, for  *)
(* nothing comes after it that would betray the spike: all others are      *)
(* those of one frame, in order, from its first bit or, when that one was  *)
(* missed and the synchronisation pulse passed for a bit, from its second. *)
(* Only a second spike in the same frame can do worse: it makes one bit of *)
(* two when the edges between them were missed.                            *)
AllButLast(bits, missed) ==
  \A p \in Positions \ {0} : bits[p] = frame[p - missed]

OnlySentFrames ==
  [][\A bits \in added' :
       \/ edge = Terminator /\ bits = frame
       \/ /\ spike' /\ edge \in {Terminator, 0}
          /\ \/ AllButLast(bits, 0)
             \/ edge = 0 /\ (AllButLast(bits, 1) \/ spikes' = 2)
     ]_receptionVars

(* A frame of which every edge was seen is stored, however damaged the     *)
(* ones before it were, provided the falling edge just before it was seen  *)
(* too and no spike came since: the decoder is in step again after one     *)
(* pause.                                                                  *)
SeenFrameIsStored ==
  [][edge = Terminator /\ inRow >= Terminator + 1 /\ inRow' # 0
       => added' = {frame}]_receptionVars
=============================================================================
