--------------------------- MODULE GatewayHistory ---------------------------
(***************************************************************************)
(* Gateway watched over its whole run, and the properties of the gateway.  *)
(***************************************************************************)
EXTENDS Gateway

VARIABLES
  steady,     \* every message so far found a standing session
  announced,  \* listed senders whose announcement was completed in this stay
  orphans,    \* senders announced after they had already left the list
  burst,      \* the identical frames received in a row since the last report
  reported    \* the burst behind the last reading reported

historyVars == <<steady, announced, orphans, burst, reported>>
vars == <<gatewayVars, historyVars>>

NoBurst == [reading |-> NoReading, count |-> 0]

HInit ==
  /\ Init
  /\ steady = Up
  /\ announced = {}
  /\ orphans = {}
  /\ burst = [s \in Senders |-> NoBurst]
  /\ reported = [s \in Senders |-> NoBurst]

(* The ids a step of the loop at pc has handled, those the report of this  *)
(* step drops, and those it has a reading of.                              *)
Handled == IF pc' # pc THEN todo ELSE todo \ todo'
Leaving == IF pc = "update" THEN RemovedTransmitters' ELSE {}
Read    == IF pc = "update" THEN {p.raw.sender : p \in NewReadings'} ELSE {}

ObserveLoop ==
  /\ announced' = (announced \cup (IF pc = "confirm" THEN Handled ELSE {}))
                    \ Leaving
  /\ orphans' = (orphans \cup
                   (IF pc = "announce"
                      THEN Handled \ (DOMAIN items \cup RemovedTransmitters)
                      ELSE {}))
                  \ (IF pc = "retire" THEN Handled ELSE {})
  /\ burst' = [s \in Senders |-> IF s \in Read \cup Leaving THEN NoBurst
                                 ELSE burst[s]]
  /\ reported' = [s \in Senders |-> IF s \in Read THEN burst[s]
                                    ELSE reported[s]]

ObserveFrame(raw) ==
  /\ burst' =
       IF ~ IsValid(raw) THEN burst
       ELSE [burst EXCEPT ![raw.sender] =
               [reading |-> raw.reading,
                count |-> IF @.reading = raw.reading
                            THEN IncreaseFrameCounter(@.count) ELSE 1]]
  /\ UNCHANGED <<announced, orphans, reported>>

ObserveLink == steady' = (steady /\ (Up' \/ pc' = "done"))

ObserveStart ==
  /\ steady' = Up'
  /\ announced' = {} /\ orphans' = {}
  /\ burst' = [s \in Senders |-> NoBurst]
  /\ UNCHANGED reported

HMainThread == MainThread /\ ObserveLoop /\ ObserveLink

HDecoderAdds(raw) == DecoderAdds(raw) /\ ObserveFrame(raw) /\ ObserveLink

HEnvironment ==
  /\ AskToStop \/ TimePasses \/ LinkBreaks \/ HubRestarts
  /\ ObserveLink
  /\ UNCHANGED <<announced, orphans, burst, reported>>

HProgramCrashes == ProgramCrashes /\ ObserveStart

HNext ==
  \/ HMainThread
  \/ \E raw \in Frame \cup Garbage : HDecoderAdds(raw)
  \/ HEnvironment
  \/ HProgramCrashes

HSpec == HInit /\ [][HNext]_vars

(* As Fairness in Gateway, for the observed steps.                         *)
HFairness ==
  /\ WF_vars(HMainThread)
  /\ WF_vars(TimePasses /\ HEnvironment)
  /\ SF_vars(LoopFails /\ HMainThread)
  /\ SF_vars(LoopConnack /\ HMainThread)
  /\ SF_vars(LoopMessage /\ HMainThread)
  /\ SF_vars(Reconnect("connecting") /\ HMainThread)

HFairSpec == HSpec /\ HFairness

-----------------------------------------------------------------------------
(* Safety.                                                                 *)

Known(s) == s \in DOMAIN items /\ ~ items[s].isNew /\ s \notin NewTransmitters

(* Nobody falls between the two threads: a transmitter on the list is      *)
(* still to be reported as new, is waiting in NewTransmitters for a        *)
(* connection, or was announced since it joined.  However often the        *)
(* connection breaks, the loop does not forget one it has not announced.   *)
NobodyForgotten == \A s \in DOMAIN items : Known(s) => s \in announced

(* As long as no message found the connection down, a topic is online for  *)
(* the subscribers when all its transmitters are announced and listed, and *)
(* is not when all of them have left, save those announced too late (see   *)
(* GoneIsOffline).  Several transmitters can share a topic (by the         *)
(* [substitute] section): their words then meet there.                     *)
OnlineMeansListed ==
  steady /\ faults.restart = 0 /\ pc \notin {"farewell", "done"} =>
    \A t \in Topics :
      LET users == {s \in Senders : Substitute(s) = t}
      IN  /\ users \subseteq {s \in Senders : Known(s)} => avail[t] = "online"
          /\ avail[t] = "online" /\ faults.crash = 0 =>
               users \cap (DOMAIN items \cup NewTransmitters
                             \cup RemovedTransmitters \cup orphans) # {}

(* However often the program was started again, and whichever transmitters *)
(* share a topic: words are said only of arrivals and departures that were *)
(* reported, of each of them, and no arrival is forgotten unsaid.          *)
Words == INSTANCE Availability WITH
  Transmitters <- Senders,
  TopicOf   <- [s \in Senders |-> Substitute(s)],
  present   <- DOMAIN items,
  unseen    <- {s \in DOMAIN items : items[s].isNew},
  arrived   <- NewTransmitters,
  departed  <- RemovedTransmitters,
  word      <- avail,
  greeted   <- IF pc = "announce" THEN NewTransmitters \ todo
               ELSE IF pc = "confirm" THEN NewTransmitters ELSE {},
  dismissed <- IF pc = "retire" THEN RemovedTransmitters \ todo ELSE {},
  closing   <- pc \in {"farewell", "done"}

ImplementsAvailability == Words!ASpec

(* README: the number of active transmitters is published.  After every    *)
(* batch of readings the subscribers know how many are listed, unless a    *)
(* word was lost or the hub was restarted: the program does not repeat a   *)
(* number it has sent.                                                     *)
CountIsHeard ==
  [][steady /\ faults.restart = 0 /\ pc = "count" /\ pc' = "loop" =>
       active' = Cardinality(DOMAIN items)]_vars

(* README: when the program stops, it sends offline.  No listed sensor is  *)
(* left online, and whatever happened to the connection before, the word   *)
(* retained for the gateway is not "online" when the program is gone: if   *)
(* the farewell could not be sent, the will was.                           *)
OfflineAtExit ==
  pc = "done" =>
    /\ gateway # "online"
    /\ steady =>
         /\ gateway = "offline"
         /\ \A s \in DOMAIN items : avail[Substitute(s)] # "online"

(* The sensors of the hub refer to the gateway's device (via_device): in a *)
(* session, once the hub's "online" is handled, it has no sensor without   *)
(* having the gateway.                                                     *)
GatewayCreatedFirst ==
  link = "session" /\ ~birth /\ created # {} => hubCreated

(* main.cpp: "when new readings are coming sensor was already properly     *)
(* created in Home Assistant", on a connection that never failed and once  *)
(* a restarted hub was heard of.                                           *)
CreatedBeforeReading ==
  [][Discovery /\ steady /\ ~birth =>
       \A t \in Topics :
         shown'[t] \notin {shown[t], NoReading} => t \in created]_vars

(* README: the program accepts data only when the minimum of valid frames  *)
(* was received, and data from ignored transmitters is not sent.  What is  *)
(* published on a topic was last received from a transmitter of the topic, *)
(* not ignored, in at least MinimumFrames identical frames in a row:       *)
(* followed from the frames, through the table and the filters of the      *)
(* loop, to the topic.                                                     *)
PublishedWasReceived ==
  [][\A t \in Topics :
       shown'[t] \notin {shown[t], NoReading} =>
         \E s \in Senders \ Ignored :
           /\ Substitute(s) = t
           /\ reported[s].reading = shown'[t]
           /\ reported[s].count >= MinimumFrames]_vars

(* A restarted hub that said so gets all sensors created again.            *)
ListedIsCreated ==
  Discovery /\ steady /\ link = "session" /\ ~birth =>
    \A s \in DOMAIN items : Known(s) => Substitute(s) \in created

-----------------------------------------------------------------------------
(* Liveness.                                                               *)

(* A signal that reached the decoder ends the program, connected or not.   *)
StopsWhenAsked == stop ~> (pc = "done")

(* A connection that broke is found out and replaced, unless the program   *)
(* is told to stop first.                                                  *)
Reconnects == (link = "broken") ~> (stop \/ (link = "session" /\ m_Connected))

(* A new transmitter comes online for the subscribers, however long it has *)
(* to wait for a connection, also for one that replaces another.  Excepted *)
(* is a program that is told to stop, or that believes in a connection     *)
(* that is dead: its announcements are lost and not repeated.              *)
NewComesOnline ==
  \A s \in Senders :
    (s \in DOMAIN items /\ items[s].isNew)
      ~> (avail[Substitute(s)] = "online" \/ stop \/ (m_Connected /\ ~Up))

(* README: a sensor that does not send any data is offline.  A transmitter *)
(* on the list that is not heard for a while is heard again or goes        *)
(* offline for the subscribers: the clock runs, the decoder stays away,    *)
(* the table lets go of it, and the loop tells, connected or not, asked to *)
(* stop or not.  Excepted is a word said while the connection is down,     *)
(* which is lost and not repeated.                                         *)
SilentGoesOffline ==
  \A s \in Senders :
    LET Quiet   == s \in DOMAIN items /\ items[s].age > 0
        Heard   == s \in DOMAIN items /\ items[s].age = 0
        Unheard == pc \in {"retire", "farewell"} /\ s \in todo /\ ~Up
    IN  (Quiet /\ pc \notin {"farewell", "done"})
          ~> (Heard \/ avail[Substitute(s)] = "offline" \/ Unheard)

(* A hub that said it is online is answered, while the connection stands.  *)
HubIsAnswered == birth ~> (hubCreated \/ link # "session")

-----------------------------------------------------------------------------
(* What the documentation says and the code does not do.                   *)

(* README: when a sensor does not send any data, `offline` is published on *)
(* the same topic.  When an iteration of the loop is over, no sensor is    *)
(* online that left the list before.                                       *)
GoneIsOffline ==
  pc = "wait" /\ link = "session" =>
    \A s \in Senders : avail[Substitute(s)] = "online" => s \in DOMAIN items

(* README: when the program starts it publishes `online`, and `offline` is *)
(* there when it stops or loses its connection: in a session, with no      *)
(* farewell begun, the gateway is online.                                  *)
OnlineInSession ==
  link = "session" /\ pc \notin {"boot", "farewell", "done"} =>
    gateway = "online"
=============================================================================
