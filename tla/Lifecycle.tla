----------------------------- MODULE Lifecycle -----------------------------
(***************************************************************************)
(* How the program starts and ends: after module Startup, the main thread, *)
(* the decoder thread, the signal handler, and the promise and flag they   *)
(* share.                                                                  *)
(*                                                                         *)
(* A handler runs on either thread and holds that thread up; on the        *)
(* decoder thread it runs beside the main thread, so that what it read of  *)
(* m_pThread can be out of date when it sets the promise.  A std::promise  *)
(* takes one value: a second set_value throws, nobody catches it, and the  *)
(* process aborts.  One handler runs at a time here: two of them that meet *)
(* in set_value have one winner, as two that come one after the other.     *)
(***************************************************************************)
EXTENDS Startup

CONSTANT MaxSignals   \* bound: how many signals are sent

(* The bound on the signals sent.                                          *)
ASSUME SignalAssumption == MaxSignals \in Nat

VARIABLES
  handlers,     \* terminate_handler is installed
  g_pDecoder,   \* the global the handler uses is set
  m_pThread,    \* the member is not NULL
  thread,       \* the decoder thread
  flagSet,      \* the promise m_StopFlag has its value
  m_ErrorStop,
  readFailed,   \* a read of the GPIO line failed
  handler,      \* how far a running handler is
  on,           \* the thread it runs on
  signals,      \* signals sent so far
  asked         \* a handler ran to its end

mainVars    == <<startVars, handlers, g_pDecoder>>
stayVars    == <<rv, file, settings, held>>
calmVars    == <<stayVars, lit>>
threadVars  == <<thread, readFailed>>
decoderVars == <<m_pThread, flagSet, m_ErrorStop>>
signalVars  == <<handler, on, signals, asked>>
lifeVars    == <<mainVars, threadVars, decoderVars, signalVars>>

Ended   == {"exit", "aborted", "killed"}

Init ==
  /\ StartInit
  /\ handlers = FALSE /\ g_pDecoder = FALSE
  /\ thread = "none" /\ readFailed = FALSE
  /\ m_pThread = FALSE /\ flagSet = FALSE /\ m_ErrorStop = FALSE
  /\ handler = "none" /\ on = "main" /\ signals = 0 /\ asked = FALSE

MainRuns    == main \notin Ended /\ ~(handler # "none" /\ on = "main")
DecoderRuns == main \notin Ended /\ ~(handler # "none" /\ on = "decoder")

-----------------------------------------------------------------------------
(* Nothing but Startup happens until it ends.                              *)
StartUp ==
  /\ Start
  /\ UNCHANGED <<handlers, g_pDecoder, threadVars, decoderVars, signalVars>>

(* main(): the global first, then the handlers, then ProcessLoop.          *)
SwappedSetup ==                       \* mutant: the handlers come first
  /\ main = "setup" /\ MainRuns
  /\ IF handlers
       THEN g_pDecoder' = TRUE /\ main' = "start" /\ UNCHANGED handlers
       ELSE handlers' = TRUE /\ UNCHANGED <<g_pDecoder, main>>
  /\ UNCHANGED <<calmVars, threadVars, decoderVars, signalVars>>
Setup ==
  /\ main = "setup" /\ MainRuns
  /\ IF g_pDecoder
       THEN handlers' = TRUE /\ main' = "start" /\ UNCHANGED g_pDecoder
       ELSE g_pDecoder' = TRUE /\ UNCHANGED <<handlers, main>>
  /\ UNCHANGED <<calmVars, threadVars, decoderVars, signalVars>>

(* Decoder::Start: the thread runs before m_pThread holds it.              *)
StartThread ==
  /\ main = "start" /\ MainRuns
  /\ m_ErrorStop' = FALSE
  /\ thread' = "running"
  /\ main' = "started"
  /\ UNCHANGED <<handlers, g_pDecoder, calmVars, readFailed, m_pThread, flagSet,
                 signalVars>>

StartReturns ==
  /\ main = "started" /\ MainRuns
  /\ m_pThread' = TRUE
  /\ main' = "wait"
  /\ UNCHANGED <<handlers, g_pDecoder, calmVars, threadVars, flagSet, m_ErrorStop,
                 signalVars>>

(* Decoder::WaitForTermination: only the promise ends the wait.            *)
WaitTimesOut ==
  /\ main = "wait" /\ MainRuns /\ ~flagSet
  /\ Control(FALSE)
  /\ main' = "work"
  /\ UNCHANGED <<handlers, g_pDecoder, stayVars, threadVars, decoderVars,
                 signalVars>>

WaitIsOver ==
  /\ main = "wait" /\ MainRuns /\ flagSet
  /\ main' = "join"
  /\ UNCHANGED <<handlers, g_pDecoder, calmVars, threadVars, decoderVars, signalVars>>

(* The rest of an iteration (module Gateway); the LED is on until the next *)
(* one if there were readings.                                             *)
Work ==
  /\ main = "work" /\ MainRuns
  /\ \/ Control(TRUE)
     \/ UNCHANGED lit
  /\ main' = "wait"
  /\ UNCHANGED <<handlers, g_pDecoder, stayVars, threadVars, decoderVars,
                 signalVars>>

DetachedInstead == TRUE               \* mutant: detach() instead of join()
Joinable == thread = "finished"

Join ==
  /\ main = "join" /\ MainRuns /\ Joinable
  /\ main' = "joined"
  /\ UNCHANGED <<handlers, g_pDecoder, calmVars, threadVars, decoderVars, signalVars>>

(* delete m_pThread; m_pThread = NULL                                      *)
DeleteThread ==
  /\ main = "joined" /\ MainRuns
  /\ m_pThread' = FALSE
  /\ main' = "farewell"
  /\ UNCHANGED <<handlers, g_pDecoder, calmVars, threadVars, flagSet, m_ErrorStop,
                 signalVars>>

(* The farewell messages, and the value ProcessLoop and main return after  *)
(* main has given back what Startup opened.                                *)
ErrorStopCode == -6

Return ==
  /\ main = "farewell" /\ MainRuns
  /\ rv' = IF m_ErrorStop THEN ErrorStopCode ELSE 0
  /\ Release
  /\ main' = "exit"
  /\ UNCHANGED <<file, settings, lit, handlers, g_pDecoder, threadVars,
                 decoderVars, signalVars>>

-----------------------------------------------------------------------------
(* EventReader, PollingReader: read, then look at the future.  An error    *)
(* ends the thread with m_ErrorStop set, also the error that a wait for an *)
(* event was interrupted by a handler running on this thread.              *)
ReadLine ==
  /\ thread = "running" /\ DecoderRuns
  /\ thread' = "waiting"
  /\ UNCHANGED <<mainVars, readFailed, decoderVars, signalVars>>

ReadError ==
  /\ thread = "running" /\ DecoderRuns
  /\ readFailed' = TRUE
  /\ m_ErrorStop' = TRUE
  /\ thread' = "finished"
  /\ UNCHANGED <<mainVars, m_pThread, flagSet, signalVars>>

NeverFinished == "running"            \* mutant: the loop ignores the future
AfterWait == IF flagSet THEN "finished" ELSE "running"

WaitFuture ==
  /\ thread = "waiting" /\ DecoderRuns
  /\ thread' = AfterWait
  /\ UNCHANGED <<mainVars, readFailed, decoderVars, signalVars>>

-----------------------------------------------------------------------------
(* A signal before the handlers are there ends the process.                *)
SignalKills ==
  /\ signals < MaxSignals /\ ~handlers /\ main \notin Ended \cup {"edit"}
  /\ signals' = signals + 1
  /\ main' = "killed"
  /\ UNCHANGED <<handlers, g_pDecoder, calmVars, threadVars, decoderVars, handler,
                 on, asked>>

Signal(t) ==
  /\ signals < MaxSignals /\ handlers /\ main \notin Ended
  /\ handler = "none"
  /\ t = "decoder" => thread \in {"running", "waiting"}
  /\ signals' = signals + 1
  /\ handler' = "entered"
  /\ on' = t
  /\ UNCHANGED <<mainVars, threadVars, decoderVars, asked>>

(* terminate_handler and the test in Decoder::Terminate.                   *)
HandlerTests ==
  /\ handler = "entered" /\ main \notin Ended
  /\ main' = IF g_pDecoder THEN main ELSE "aborted"
  /\ handler' = IF g_pDecoder /\ m_pThread THEN "setting" ELSE "none"
  /\ asked' = (asked \/ handler' = "none")
  /\ UNCHANGED <<handlers, g_pDecoder, calmVars, threadVars, decoderVars, on, signals>>

(* m_StopFlag.set_value()                                                  *)
HandlerSets ==
  /\ handler = "setting" /\ main \notin Ended
  /\ main' = IF flagSet THEN "aborted" ELSE main
  /\ flagSet' = TRUE
  /\ handler' = "none"
  /\ asked' = TRUE
  /\ UNCHANGED <<handlers, g_pDecoder, calmVars, threadVars, m_pThread, m_ErrorStop,
                 on, signals>>

-----------------------------------------------------------------------------
MainThread ==
  \/ StartUp \/ Setup \/ StartThread \/ StartReturns \/ WaitTimesOut
  \/ WaitIsOver \/ Work \/ Join \/ DeleteThread \/ Return

DecoderThread == ReadLine \/ ReadError \/ WaitFuture

Handler == HandlerTests \/ HandlerSets

Signals == SignalKills \/ \E t \in {"main", "decoder"} : Signal(t)

Next == MainThread \/ DecoderThread \/ Handler \/ Signals

Spec == Init /\ [][Next]_lifeVars

(* Threads that can run do run; nobody has to send a signal.               *)
FairSpec ==
  Spec /\ WF_lifeVars(MainThread) /\ WF_lifeVars(DecoderThread)
       /\ WF_lifeVars(Handler)

-----------------------------------------------------------------------------
LifeTypeOK ==
  /\ main \in {"edit", "config", "mac", "chip", "line", "request", "led",
               "connect", "setup", "start", "started", "wait", "work", "join",
               "joined", "farewell"} \cup Ended
  /\ thread \in {"none", "running", "waiting", "finished"}
  /\ handler \in {"none", "entered", "setting"} /\ on \in {"main", "decoder"}
  /\ {handlers, g_pDecoder, m_pThread, flagSet, m_ErrorStop, readFailed,
      asked, lit} \subseteq BOOLEAN
  /\ signals \in 0 .. MaxSignals
  /\ rv \in {NoValue, 1, 0} \cup {-1, -2, -3, -4, -5, -6, -7, -8, -12}
  /\ DOMAIN settings = Settings
  /\ held \subseteq Resources

(* When the farewell is sent and main returns, the decoder thread is gone: *)
(* the list of transmitters is final, nobody uses the line and the storage *)
(* that main gives up, and the exit code tells truly whether a read        *)
(* failed.                                                                 *)
AloneAtTheEnd ==
  /\ main = "farewell" => thread = "finished" /\ ~m_pThread
  /\ main = "exit" => /\ thread \in {"none", "finished"}
                      /\ rv = -6 <=> readFailed

(* One signal never aborts the process: it takes a second one, after the   *)
(* flag was set.  Before there are handlers only a configuration that      *)
(* names no id where one belongs can, and then nothing was taken yet.      *)
AbortTakesTwoSignals ==
  main = "aborted" =>
    IF handlers THEN signals >= 2 /\ flagSet ELSE held = {}

(* Once the stop flag is set, the decoder thread ends, the main thread     *)
(* joins it, and the process is over; a failed read does not prevent that. *)
FlagEndsProgram == flagSet ~> main \in Ended

(* README: the LED is on for 500 ms when data is received.  It goes out    *)
(* again unless the program is asked to stop while it is on, after which   *)
(* nobody turns it off.                                                    *)
LedGoesOut == lit ~> (~lit \/ flagSet \/ main \in Ended)

(* README: the program is stopped by Control-C.  A handler that has run to *)
(* its end has made the program end, sooner or later.                      *)
SignalEndsProgram == asked ~> main \in Ended
=============================================================================
