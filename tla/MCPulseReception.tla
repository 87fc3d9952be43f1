-------------------------- MODULE MCPulseReception --------------------------
(* Instances of PulseDecoder and PulseReception for TLC; the unit of time  *)
(* is 100 microseconds.                                                    *)
EXTENDS PulseReception

SmallJitters == {-2, 0, 2}

(* Every time in a gap and in a pause at which a spike can begin.          *)
SpikeTimes == 1 .. 38

(* Both ends of each window, just inside and outside, and a pause.         *)
Windows == {2, 3, 7, 8, 13, 17, 18, 22, 23, 40}

(* What the theorems about the frames assume holds of these times.         *)
ASSUME TimesAreToldApart == InTime
=============================================================================
