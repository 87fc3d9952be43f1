---------------------------- MODULE Availability ----------------------------
(***************************************************************************)
(* What the program promises those who subscribe to the availability of    *)
(* the sensors, without connections, loops or frames.  "online" is said    *)
(* only of a transmitter whose arrival was reported, "offline" only of one *)
(* whose departure was, or at the end of the program of one still listed.  *)
(* A word may be lost, but none may be left out: a report is done with     *)
(* only when something was said of each of its transmitters.               *)
(***************************************************************************)
EXTENDS TransmitterRegistry

CONSTANTS
  Topics,   \* where words are heard
  TopicOf   \* the topic of each transmitter

VARIABLES
  word,       \* the last word heard on each topic
  greeted,    \* transmitters in `arrived` that "online" was said of
  dismissed,  \* transmitters in `departed` that "offline" was said of
  closing     \* the program says farewell

said == <<greeted, dismissed>>
availabilityVars == <<registryVars, word, said, closing>>

Silence == [t \in Topics |-> "unknown"]

AInit ==
  /\ Init
  /\ word = Silence
  /\ greeted = {} /\ dismissed = {}
  /\ closing = FALSE

Say(t, w) == word' \in {word, [word EXCEPT ![TopicOf[t]] = w]}

(* The last of the report may be said and the report be done with at once. *)
Greet(t) ==
  /\ t \in arrived /\ ~closing
  /\ Say(t, "online")
  /\ \/ greeted' = greeted \cup {t} /\ arrived' = arrived
     \/ arrived = greeted \cup {t} /\ arrived' = {} /\ greeted' = {}
  /\ UNCHANGED <<present, unseen, departed, dismissed, closing>>

Dismiss(t) ==
  /\ t \in departed /\ ~closing
  /\ Say(t, "offline")
  /\ dismissed' = dismissed \cup {t}
  /\ UNCHANGED <<registryVars, greeted, closing>>

DeparturesDone ==
  /\ dismissed = departed
  /\ departed' = {} /\ dismissed' = {}
  /\ UNCHANGED <<present, unseen, arrived, word, greeted, closing>>

ListChanges ==
  /\ \/ \E t \in Transmitters : Arrive(t)
     \/ \E gone \in SUBSET present : Report(gone)
  /\ ~closing
  /\ UNCHANGED <<word, said, closing>>

Close ==
  /\ departed = {}
  /\ closing' = TRUE
  /\ UNCHANGED <<registryVars, word, said>>

Farewell(t) ==
  /\ closing /\ t \in present
  /\ Say(t, "offline")
  /\ UNCHANGED <<registryVars, said, closing>>

(* The subscriber forgets what it heard; the program forgets everything.   *)
SubscriberRestarts ==
  /\ word' = Silence
  /\ UNCHANGED <<registryVars, said, closing>>

ProgramRestarts ==
  /\ present' = {} /\ unseen' = {} /\ arrived' = {} /\ departed' = {}
  /\ greeted' = {} /\ dismissed' = {}
  /\ closing' = FALSE
  /\ UNCHANGED word

ANext ==
  \/ \E t \in Transmitters : Greet(t) \/ Dismiss(t) \/ Farewell(t)
  \/ DeparturesDone \/ ListChanges \/ Close
  \/ SubscriberRestarts \/ ProgramRestarts

ASpec == AInit /\ [][ANext]_availabilityVars
=============================================================================
