------------------------ MODULE TransmitterRegistry ------------------------
(***************************************************************************)
(* What PacketStorage promises its caller about the comings and goings of  *)
(* transmitters, without clocks, packets or counters: every stay of a      *)
(* transmitter is reported once when it begins and once when it ends, in   *)
(* that order (or in the same report), and nobody else is reported.        *)
(***************************************************************************)
CONSTANT Transmitters

VARIABLES
  present,   \* transmitters on the list of active ones
  unseen,    \* those of them whose arrival is not reported yet
  arrived,   \* arrivals reported and not yet consumed
  departed   \* departures reported and not yet consumed

registryVars == <<present, unseen, arrived, departed>>

Init ==
  /\ present = {}
  /\ unseen = {}
  /\ arrived = {}
  /\ departed = {}

Arrive(t) ==
  /\ t \notin present
  /\ present' = present \cup {t}
  /\ unseen' = unseen \cup {t}
  /\ UNCHANGED <<arrived, departed>>

(* A report tells every arrival there is to tell, and ends any set of      *)
(* stays; it is made only when the departures told before were consumed.   *)
Report(gone) ==
  /\ departed = {}
  /\ arrived' = arrived \cup unseen
  /\ departed' = gone
  /\ present' = present \ gone
  /\ unseen' = {}

Consume ==
  /\ departed' = {}
  /\ arrived' \in {arrived, {}}
  /\ UNCHANGED <<present, unseen>>

Next ==
  \/ \E t \in Transmitters : Arrive(t)
  \/ \E gone \in SUBSET present : Report(gone)
  \/ Consume

Spec == Init /\ [][Next]_registryVars
=============================================================================
