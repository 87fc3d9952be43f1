------------------------------ MODULE Gateway ------------------------------
(***************************************************************************)
(* The main thread (ProcessLoop in main.cpp with MQTTClient), the decoder  *)
(* thread behind PacketStorage, the connection to the MQTT broker, and     *)
(* what a subscriber such as Home Assistant (the hub) has been told.       *)
(*                                                                         *)
(* All MQTT callbacks run inside mqtt.loop(), in the main thread:          *)
(* m_Connected changes at pc = "loop" only, and the program learns that a  *)
(* connection died only there, while the connection itself can die at any  *)
(* moment.  The library writes a QoS 0 message to the socket and forgets   *)
(* it; it arrives when the broker accepted the session and the connection  *)
(* still stands.                                                           *)
(***************************************************************************)
EXTENDS PacketStorage, FiniteSets

CONSTANTS
  Substitutes,    \* the [substitute] section: a function on some senders
  Ignored,        \* the senders of the [ignore] section
  MinimumFrames,  \* Config::transmitter::minimum_frames
  Discovery,      \* Config::transmitter::discovery
  NoReading,      \* no reading was published on a topic yet
  FirstLinks,     \* what the broker may make of the first connection
  FaultBounds     \* bounds: how often each of Faults may happen together

(* A standing connection breaks, the hub restarts, the program dies and is *)
(* started again.                                                          *)
Faults == {"break", "restart", "crash"}

(* The options of a run: which senders share a topic, the filters, and how *)
(* often each fault may happen.                                            *)
ASSUME ConfigAssumption ==
  /\ DOMAIN Substitutes \subseteq Senders
  /\ MinimumFrames \in Nat
  /\ Discovery \in BOOLEAN
  /\ NoReading \notin Readings
  /\ FirstLinks \subseteq {"connecting", "refused"}
  /\ FaultBounds \subseteq [Faults -> Nat]

(* A sender id is made of 16 bits (packet.h).                              *)
ASSUME FiniteAssumption == IsFiniteSet(Senders)

VARIABLES
  pc,                  \* where ProcessLoop is
  todo,                \* the ids the loop at pc has still to handle
  ActiveTransmitters,  \* the count last given to GatewayUpdate
  m_Connected,         \* MQTTClient::m_Connected
  decoding,            \* the decoder thread runs
  stop,                \* Decoder::Terminate set the stop promise
  link,                \* the connection to the broker, see Links
  birth,               \* an "online" of the hub is on its way to us
  faults,              \* how often each fault has happened
  avail,               \* last word heard on each sensor's availability topic
  created,             \* sensors the hub created from discovery messages
  hubCreated,          \* the hub created the gateway's own sensor
  shown,               \* last reading heard on each sensor's state topic
  gateway,             \* retained word on the gateway's availability topic
  active               \* last count heard on the gateway's state topic

programVars == <<pc, todo, ActiveTransmitters, m_Connected, decoding>>
linkVars    == <<link, birth, faults>>
sensorWords == <<avail, created, shown>>
hubWords    == <<hubCreated, gateway, active>>
subscriber  == <<sensorWords, hubWords>>
gatewayVars == <<storageVars, programVars, stop, linkVars, subscriber>>

PCs == {"boot", "wait", "update", "announce", "confirm", "retire", "readings",
        "count", "loop", "reconnect", "farewell", "done"}

(* "connecting": accepted by the broker, the program has not read the      *)
(* CONNACK yet; "session": it has; "refused": the CONNACK will refuse;     *)
(* "broken": dead, the program does not know; "closed": it knows.          *)
Links == {"connecting", "session", "refused", "broken", "closed"}

Up == link \in {"connecting", "session"}

-----------------------------------------------------------------------------
(* MQTTClient: what its messages tell a subscriber, if they arrive.        *)

Substitute(id) == IF id \in DOMAIN Substitutes THEN Substitutes[id] ELSE id

Topics == {Substitute(s) : s \in Senders}

SensorStatusAsIs(id, word) ==         \* mutant: the id is not substituted
  avail' = IF Up THEN [avail EXCEPT ![id] = word] ELSE avail
SensorStatus(id, word) ==
  avail' = IF Up THEN [avail EXCEPT ![Substitute(id)] = word] ELSE avail

SensorDiscover(ids) ==
  created' = IF Up THEN created \cup {Substitute(id) : id \in ids}
             ELSE created

SensorUpdate(id, reading) ==
  shown' = IF Up THEN [shown EXCEPT ![Substitute(id)] = reading] ELSE shown

GatewayStatus(word) == gateway' = IF Up THEN word ELSE gateway

GatewayUpdate(n) == active' = IF Up THEN n ELSE active

GatewayDiscover == hubCreated' = (hubCreated \/ Up)

-----------------------------------------------------------------------------
(* mqtt.Connect has sent CONNECT, with a will for the gateway's topic.     *)
Init ==
  /\ StorageInit
  /\ pc = "boot"
  /\ todo = {}
  /\ ActiveTransmitters = -1
  /\ m_Connected = FALSE
  /\ decoding = FALSE
  /\ stop = FALSE
  /\ link \in FirstLinks
  /\ birth = FALSE
  /\ faults = [f \in Faults |-> 0]
  /\ avail = [t \in Topics |-> "unknown"]
  /\ created = {}
  /\ hubCreated = FALSE
  /\ shown = [t \in Topics |-> NoReading]
  /\ gateway = "unknown"
  /\ active = -1

(* What a new process has.                                                 *)
StorageStarts ==
  /\ items' = [s \in {} |-> Blank]
  /\ reporter' = "idle"
  /\ lag' = 0
  /\ NewReadings' = {} /\ RemovedTransmitters' = {} /\ NewTransmitters' = {}

ProgramStarts ==
  /\ pc' = "boot"
  /\ todo' = {}
  /\ ActiveTransmitters' = -1
  /\ m_Connected' = FALSE
  /\ decoding' = FALSE
  /\ stop' = FALSE

(* One id of the loop at pc is done; after the last one control goes to    *)
(* `next`, where `ids` are waiting.                                        *)
Done(id, next, ids) ==
  IF todo = {id} THEN pc' = next /\ todo' = ids
  ELSE pc' = pc /\ todo' = todo \ {id}

(* mqtt.GatewayStatus(true); decoder.Start()                               *)
Boot ==
  /\ pc = "boot"
  /\ GatewayStatus("online")
  /\ decoding' = TRUE
  /\ pc' = "wait"
  /\ UNCHANGED <<storageVars, todo, ActiveTransmitters, m_Connected, stop,
                 linkVars, sensorWords, hubCreated, active>>

(* decoder.WaitForTermination(500): a timeout, or the stop flag is set and *)
(* the decoder thread is joined; then the transmitters to say farewell to  *)
(* are fetched.                                                            *)
WaitForever ==                        \* mutant: the stop flag is not awaited
  /\ pc = "wait"
  /\ pc' = "update"
  /\ UNCHANGED <<storageVars, todo, ActiveTransmitters, m_Connected, decoding,
                 stop, linkVars, subscriber>>
WaitTimeout ==
  /\ pc = "wait" /\ ~stop
  /\ pc' = "update"
  /\ UNCHANGED <<storageVars, todo, ActiveTransmitters, m_Connected, decoding,
                 stop, linkVars, subscriber>>

WaitStopped ==
  /\ pc = "wait" /\ stop
  /\ decoding' = FALSE
  /\ pc' = "farewell"
  /\ todo' = DOMAIN items
  /\ UNCHANGED <<storageVars, ActiveTransmitters, m_Connected, stop, linkVars,
                 subscriber>>

(* storage.UpdateStatus, in its two steps.                                 *)
UpdateSample ==
  /\ pc = "update"
  /\ SampleNow
  /\ UNCHANGED <<programVars, stop, linkVars, subscriber>>

UpdateSweep ==
  /\ pc = "update"
  /\ Sweep
  /\ IF m_Connected /\ NewTransmitters' # {}
       THEN pc' = "announce" /\ todo' = NewTransmitters'
       ELSE pc' = "retire" /\ todo' = RemovedTransmitters'
  /\ UNCHANGED <<ActiveTransmitters, m_Connected, decoding, stop, linkVars,
                 subscriber>>

(* First loop over NewTransmitters: create and announce.                   *)
Announce(id) ==
  /\ pc = "announce" /\ id \in todo
  /\ IF Discovery THEN SensorDiscover({id}) ELSE UNCHANGED created
  /\ SensorStatus(id, "online")
  /\ Done(id, "confirm", NewTransmitters)
  /\ UNCHANGED <<storageVars, ActiveTransmitters, m_Connected, decoding, stop,
                 linkVars, shown, hubWords>>

(* Second loop: announce again; then NewTransmitters.clear().              *)
Cleared(id) == IF todo = {id} THEN {} ELSE NewTransmitters

Confirm(id) ==
  /\ pc = "confirm" /\ id \in todo
  /\ SensorStatus(id, "online")
  /\ Done(id, "retire", RemovedTransmitters)
  /\ NewTransmitters' = Cleared(id)
  /\ UNCHANGED <<items, reporter, lag, NewReadings, RemovedTransmitters,
                 ActiveTransmitters, m_Connected, decoding, stop, linkVars,
                 created, shown, hubWords>>

(* Loop over RemovedTransmitters, connected or not; then clear().          *)
OnlineAgain(id) == "online"           \* mutant: SensorStatus(id, true)
NotIfDisconnected(id) ==              \* mutant: only when IsConnected()
  IF m_Connected THEN "offline" ELSE avail[Substitute(id)]
WordOfRetire(id) == "offline"

Retire(id) ==
  /\ pc = "retire" /\ id \in todo
  /\ SensorStatus(id, WordOfRetire(id))
  /\ Done(id, "retire", {})
  /\ UNCHANGED <<storageVars, ActiveTransmitters, m_Connected, decoding, stop,
                 linkVars, created, shown, hubWords>>

RetireEndKeeps ==                     \* mutant: RemovedTransmitters is kept
  /\ pc = "retire" /\ todo = {}
  /\ pc' = IF NewReadings # {} THEN "readings" ELSE "loop"
  /\ UNCHANGED <<storageVars, todo, ActiveTransmitters, m_Connected, decoding,
                 stop, linkVars, subscriber>>
RetireEndForgets ==                   \* mutant: NewTransmitters is cleared
  /\ pc = "retire" /\ todo = {}      \* outside the if
  /\ RemovedTransmitters' = {}
  /\ NewTransmitters' = {}
  /\ pc' = IF NewReadings # {} THEN "readings" ELSE "loop"
  /\ UNCHANGED <<items, reporter, lag, NewReadings, todo, ActiveTransmitters,
                 m_Connected, decoding, stop, linkVars, subscriber>>
RetireEnd ==
  /\ pc = "retire" /\ todo = {}
  /\ RemovedTransmitters' = {}
  /\ pc' = IF NewReadings # {} THEN "readings" ELSE "loop"
  /\ UNCHANGED <<items, reporter, lag, NewReadings, NewTransmitters, todo,
                 ActiveTransmitters, m_Connected, decoding, stop, linkVars,
                 subscriber>>

(* Loop over NewReadings: every one is erased, those that pass the filters *)
(* are published.                                                          *)
AnyTime(p) ==                         \* mutant: connected or not
  /\ GetSenderId(p.raw) \notin Ignored
  /\ p.frames >= MinimumFrames
AnyFrames(p) ==                       \* mutant: without the minimum
  m_Connected /\ GetSenderId(p.raw) \notin Ignored
IgnoredLate(p) ==                     \* mutant: ignored after substitution
  /\ m_Connected
  /\ Substitute(GetSenderId(p.raw)) \notin Ignored
  /\ p.frames >= MinimumFrames
Publishable(p) ==
  /\ m_Connected
  /\ GetSenderId(p.raw) \notin Ignored
  /\ p.frames >= MinimumFrames

HandleReading(p) ==
  /\ pc = "readings" /\ p \in NewReadings
  /\ IF Publishable(p) THEN SensorUpdate(GetSenderId(p.raw), p.raw.reading)
     ELSE UNCHANGED shown
  /\ NewReadings' = NewReadings \ {p}
  /\ pc' = IF NewReadings = {p} THEN "count" ELSE "readings"
  /\ UNCHANGED <<items, reporter, lag, RemovedTransmitters, NewTransmitters,
                 todo, ActiveTransmitters, m_Connected, decoding, stop,
                 linkVars, avail, created, hubWords>>

(* storage.GetActiveTransmittersCount() reads m_Items.size() without the   *)
(* lock: the value before or after a concurrent Add.                       *)
CountGrew(n) == n > ActiveTransmitters   \* mutant: departures are not told
CountChanged(n) == n # ActiveTransmitters

Count ==
  /\ pc = "count"
  /\ LET n == Cardinality(DOMAIN items)
     IN  /\ IF CountChanged(n) THEN GatewayUpdate(n)
            ELSE UNCHANGED active
         /\ ActiveTransmitters' = n
  /\ pc' = "loop"
  /\ UNCHANGED <<storageVars, todo, m_Connected, decoding, stop, linkVars,
                 sensorWords, hubCreated, gateway>>

-----------------------------------------------------------------------------
(* mqtt.loop(1000) and what it may find.                                   *)

(* Nothing to read, or nothing yet: a dead connection can look idle.       *)
LoopIdle ==
  /\ pc = "loop" /\ link # "closed"
  /\ pc' = "wait"
  /\ UNCHANGED <<storageVars, todo, ActiveTransmitters, m_Connected, decoding,
                 stop, linkVars, subscriber>>

(* The CONNACK of an accepted session: on_connect(0).                      *)
OnConnectSilent == UNCHANGED hubCreated   \* mutant: no GatewayDiscover
OnConnect == IF Discovery THEN GatewayDiscover ELSE UNCHANGED hubCreated

LoopConnack ==
  /\ pc = "loop" /\ link = "connecting"
  /\ m_Connected' = TRUE
  /\ link' = "session"
  /\ OnConnect
  /\ pc' = "wait"
  /\ UNCHANGED <<storageVars, todo, ActiveTransmitters, decoding, stop, birth,
                 faults, sensorWords, gateway, active>>

(* The "online" of a hub that started: on_message.                         *)
OnMessageSensors ==                   \* mutant: the gateway is left out
  SensorDiscover(DOMAIN items) /\ UNCHANGED hubCreated
OnMessageGateway ==                   \* mutant: the sensors are left out
  GatewayDiscover /\ UNCHANGED created
OnMessage == GatewayDiscover /\ SensorDiscover(DOMAIN items)

LoopMessage ==
  /\ pc = "loop" /\ birth
  /\ birth' = FALSE
  /\ OnMessage
  /\ pc' = "wait"
  /\ UNCHANGED <<storageVars, todo, ActiveTransmitters, m_Connected, decoding,
                 stop, link, faults, avail, shown, gateway, active>>

(* The loop fails: the CONNACK refuses (on_connect with rc # 0), or the    *)
(* connection is found dead; the library calls on_disconnect.              *)
LoopFailsQuietly ==                   \* mutant: reconnect() is not called
  /\ pc = "loop" /\ link \in {"refused", "broken", "closed"}
  /\ m_Connected' = FALSE
  /\ link' = "closed"
  /\ pc' = "wait"
  /\ UNCHANGED <<storageVars, todo, ActiveTransmitters, decoding, stop, birth,
                 faults, subscriber>>
LoopFails ==
  /\ pc = "loop" /\ link \in {"refused", "broken", "closed"}
  /\ m_Connected' = FALSE
  /\ link' = "closed"
  /\ pc' = "reconnect"
  /\ UNCHANGED <<storageVars, todo, ActiveTransmitters, decoding, stop, birth,
                 faults, subscriber>>

(* mqtt.reconnect(): a new session if the broker answers.                  *)
Reconnect(answer) ==
  /\ pc = "reconnect"
  /\ link' = answer
  /\ pc' = "wait"
  /\ UNCHANGED <<storageVars, todo, ActiveTransmitters, m_Connected, decoding,
                 stop, birth, faults, subscriber>>

(* The way out: offline for all active transmitters, then the gateway, and *)
(* main() disconnects in order (no will).                                  *)
Farewell(id) ==
  /\ pc = "farewell" /\ id \in todo
  /\ SensorStatus(id, "offline")
  /\ Done(id, "farewell", {})
  /\ UNCHANGED <<storageVars, ActiveTransmitters, m_Connected, decoding, stop,
                 linkVars, created, shown, hubWords>>

Leave ==
  /\ pc = "farewell" /\ todo = {}
  /\ GatewayStatus("offline")
  /\ link' = "closed"
  /\ birth' = FALSE
  /\ pc' = "done"
  /\ UNCHANGED <<storageVars, todo, ActiveTransmitters, m_Connected, decoding,
                 stop, faults, sensorWords, hubCreated, active>>

MainThread ==
  \/ Boot \/ WaitTimeout \/ WaitStopped \/ UpdateSample \/ UpdateSweep
  \/ \E id \in Senders : Announce(id) \/ Confirm(id) \/ Retire(id)
  \/ RetireEnd
  \/ \E p \in NewReadings : HandleReading(p)
  \/ Count
  \/ LoopIdle \/ LoopConnack \/ LoopMessage \/ LoopFails
  \/ \E answer \in {"connecting", "refused", "closed"} : Reconnect(answer)
  \/ \E id \in Senders : Farewell(id)
  \/ Leave

-----------------------------------------------------------------------------
(* The decoder thread stores a packet.                                     *)
DecoderAdds(raw) ==
  /\ decoding
  /\ Add(raw)
  /\ UNCHANGED <<programVars, stop, linkVars, subscriber>>

(* A signal: Decoder::Terminate, once the thread has been started.         *)
AskToStop ==
  /\ decoding /\ ~stop
  /\ stop' = TRUE
  /\ UNCHANGED <<storageVars, programVars, linkVars, subscriber>>

TimePasses ==
  /\ Tick
  /\ UNCHANGED <<programVars, stop, linkVars, subscriber>>

(* The connection dies.  The broker publishes the will, at the latest when *)
(* the same client id connects again; messages to the program are lost.    *)
NoWill == gateway                     \* mutant: will_set is not called
Will == IF Up THEN "offline" ELSE gateway

Happens(fault) ==
  /\ faults' = [faults EXCEPT ![fault] = @ + 1]
  /\ \E bound \in FaultBounds : \A f \in Faults : faults'[f] <= bound[f]

LinkBreaks ==
  /\ Happens("break")
  /\ link \in {"connecting", "session", "refused"}
  /\ link' = "broken"
  /\ birth' = FALSE
  /\ gateway' = Will
  /\ UNCHANGED <<storageVars, programVars, stop, sensorWords, hubCreated,
                 active>>

(* The hub restarts: it forgets all that was not retained, and tells those *)
(* who subscribed to its status that it is online.                         *)
HubRestarts ==
  /\ Happens("restart")
  /\ birth' = (Discovery /\ link = "session")
  /\ avail' = [t \in Topics |-> "unknown"]
  /\ created' = {}
  /\ shown' = [t \in Topics |-> NoReading]
  /\ hubCreated' = FALSE
  /\ active' = -1
  /\ UNCHANGED <<storageVars, programVars, stop, link, gateway>>

(* The process dies where it stands, by a second signal (module            *)
(* Lifecycle), a kill or a power cut, and is started again.  No state is   *)
(* kept but what the subscribers heard; the broker publishes the will.     *)
ProgramCrashes ==
  /\ Happens("crash")
  /\ pc # "done"
  /\ StorageStarts
  /\ ProgramStarts
  /\ link' \in FirstLinks
  /\ birth' = FALSE
  /\ gateway' = Will
  /\ UNCHANGED <<sensorWords, hubCreated, active>>

Environment ==
  \/ \E raw \in Frame \cup Garbage : DecoderAdds(raw)
  \/ AskToStop
  \/ TimePasses
  \/ LinkBreaks
  \/ HubRestarts
  \/ ProgramCrashes

Next == MainThread \/ Environment

Spec == Init /\ [][Next]_gatewayVars

(* The main thread is never blocked for good; time passes; a dead          *)
(* connection is found dead (keepalive, 60 s), an answer of the broker is  *)
(* read, and the broker accepts a session sooner or later.                 *)
Fairness ==
  /\ WF_gatewayVars(MainThread)
  /\ WF_gatewayVars(TimePasses)
  /\ SF_gatewayVars(LoopFails)
  /\ SF_gatewayVars(LoopConnack)
  /\ SF_gatewayVars(LoopMessage)
  /\ SF_gatewayVars(Reconnect("connecting"))

FairSpec == Spec /\ Fairness

-----------------------------------------------------------------------------
(* Where a report is in use.  The sets of readings and removals are full   *)
(* only while the loop that empties them is still to come, so that no id   *)
(* is told again of by a later iteration; `todo` is part of the set of the *)
(* loop at pc; new transmitters are announced by a connected program only; *)
(* and the decoder thread runs from its start to the join, after which the *)
(* list for the farewell cannot change.                                    *)
Places ==
  /\ reporter = "sampled" => pc = "update"
  /\ pc \notin {"announce", "confirm", "retire", "farewell"} => todo = {}
  /\ pc \in {"announce", "confirm"} =>
       todo # {} /\ todo \subseteq NewTransmitters /\ m_Connected
  /\ pc = "retire" => todo \subseteq RemovedTransmitters
  /\ pc = "farewell" => todo \subseteq DOMAIN items
  /\ pc \notin {"announce", "confirm", "retire"} => RemovedTransmitters = {}
  /\ pc \notin {"announce", "confirm", "retire", "readings"} =>
       NewReadings = {}
  /\ decoding <=> pc \notin {"boot", "farewell", "done"}

(* Types, and where the three sets of a report are in use: what an         *)
(* iteration of ProcessLoop leaves behind is NewTransmitters and nothing   *)
(* else.                                                                   *)
GatewayTypeOK ==
  /\ TypeOK
  /\ Places
  /\ pc \in PCs
  /\ todo \subseteq Senders
  /\ ActiveTransmitters \in -1 .. Cardinality(Senders)
  /\ m_Connected \in BOOLEAN /\ decoding \in BOOLEAN /\ stop \in BOOLEAN
  /\ link \in Links
  /\ birth \in BOOLEAN
  /\ faults \in [Faults -> Nat]
  /\ avail \in [Topics -> {"unknown", "online", "offline"}]
  /\ created \subseteq Topics
  /\ hubCreated \in BOOLEAN
  /\ shown \in [Topics -> Readings \cup {NoReading}]
  /\ gateway \in {"unknown", "online", "offline"}
  /\ active \in -1 .. Cardinality(Senders)
=============================================================================
