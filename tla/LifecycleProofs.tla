-------------------------- MODULE LifecycleProofs --------------------------
(***************************************************************************)
(* Proofs about Lifecycle for every configuration file, command line and   *)
(* number of signals.                                                      *)
(***************************************************************************)
EXTENDS Lifecycle, StartupProofs

(* Where main has not come to the handlers yet.                            *)
Starting == {"edit", "config", "mac", "chip", "line", "request", "led",
             "connect"}

(* What can be held at each place: a step that fails gives back what the   *)
(* steps before it took.                                                   *)
HoldsWhatItShould ==
  /\ held \subseteq Resources
  /\ main \in {"edit", "config", "mac"} => held = {}
  /\ main = "chip" => held \subseteq {"socket"}
  /\ main \in {"line", "request"} => held \subseteq {"socket", "chip"}
  /\ main = "led" => held \subseteq {"socket", "chip", "line"}
  /\ main = "connect" => "broker" \notin held
  /\ main = "exit" => held \subseteq {"socket", "trigger", "led"}

(* The decoder thread exists between Start and the join, and the error     *)
(* flag tells of its end.                                                  *)
ThreadInv ==
  /\ thread \in {"none", "running", "waiting", "finished"}
  /\ m_ErrorStop <=> readFailed
  /\ main \in Starting \cup {"setup", "start"} =>
       thread = "none" /\ ~readFailed /\ ~m_pThread
  /\ main \in {"joined", "farewell"} => thread = "finished"
  /\ main = "farewell" => ~m_pThread
  /\ main = "exit" => /\ thread \in {"none", "finished"}
                      /\ rv = -6 <=> readFailed

(* The flag is the work of one handler, a handler that meets it of another *)
(* one; there are none before Setup.                                       *)
SignalInv ==
  /\ signals \in Nat
  /\ handlers => g_pDecoder
  /\ ~handlers => handler = "none" /\ ~flagSet
  /\ main \in Starting => ~handlers
  /\ flagSet => signals >= 1
  /\ handler # "none" => signals >= 1
  /\ flagSet /\ handler # "none" => signals >= 2
  /\ main = "aborted" /\ handlers => signals >= 2 /\ flagSet
  /\ main = "aborted" /\ ~handlers => held = {}

LifeInv == HoldsWhatItShould /\ ThreadInv /\ SignalInv

-----------------------------------------------------------------------------
(* The invariant of the life cycle holds when the program starts.          *)
LEMMA LifeInit == Init => LifeInv
  BY DEF Init, StartInit, LifeInv, HoldsWhatItShould, ThreadInv,
         SignalInv, Starting

(* The invariant does not speak of what a step of Startup leaves alone.    *)
LEMMA StartKeeps ==
  ASSUME LifeInv, StartUp
  PROVE  LifeInv'
<1> USE DEF StartUp, decoderVars, threadVars, signalVars
<1> USE DEF LifeInv, HoldsWhatItShould, ThreadInv, SignalInv, Starting, Resources
<1>1. CASE \E line \in Lines : EditFile(line)
  BY <1>1 DEF EditFile
<1>2. CASE ParseOptions
  BY <1>2 DEF ParseOptions, Exit
<1>3. CASE ReadConfig
  BY <1>3 DEF ReadConfig, Exit, Goto
<1>4. CASE ReadMAC
  <2>1. HoldsWhatItShould'
    BY <1>4 DEF ReadMAC, Exit, Goto
  <2>2. ThreadInv'
    BY <1>4 DEF ReadMAC, Exit, Goto
  <2>3. SignalInv'
    BY <1>4 DEF ReadMAC, Exit, Goto
  <2> QED
    BY <2>1, <2>2, <2>3
<1>5. CASE OpenChip
  <2>1. HoldsWhatItShould'
    BY <1>5 DEF OpenChip, Exit, Goto
  <2>2. ThreadInv'
    BY <1>5 DEF OpenChip, Exit, Goto
  <2>3. SignalInv'
    BY <1>5 DEF OpenChip, Exit, Goto
  <2> QED
    BY <2>1, <2>2, <2>3
<1>6. CASE GetLine
  <2>1. HoldsWhatItShould'
    BY <1>6 DEF GetLine, Exit, Goto
  <2>2. ThreadInv'
    BY <1>6 DEF GetLine, Exit, Goto
  <2>3. SignalInv'
    BY <1>6 DEF GetLine, Exit, Goto
  <2> QED
    BY <2>1, <2>2, <2>3
<1>7. CASE RequestLine
  <2>1. HoldsWhatItShould'
    BY <1>7 DEF RequestLine, Exit, Goto, LineAndChipBack
  <2>2. ThreadInv'
    BY <1>7 DEF RequestLine, Exit, Goto
  <2>3. SignalInv'
    BY <1>7 DEF RequestLine, Exit, Goto
  <2> QED
    BY <2>1, <2>2, <2>3
<1>8. CASE OpenLed
  <2>1. HoldsWhatItShould'
    <3>1. held \subseteq {"socket", "chip", "line"}
      BY <1>8 DEF OpenLed
    <3>2. \/ main' = "exit" /\ held' \subseteq {"socket", "trigger"}
          \/ /\ main' = "connect"
             /\ held' \subseteq {"socket", "chip", "line", "trigger", "led"}
      BY <3>1, <1>8 DEF OpenLed, Exit, Goto, LineAndChipBack
    <3> QED
      BY <3>2
  <2>2. ThreadInv'
    BY <1>8 DEF OpenLed, Exit, Goto
  <2>3. SignalInv'
    BY <1>8 DEF OpenLed, Exit, Goto
  <2> QED
    BY <2>1, <2>2, <2>3
<1>9. CASE Connect
  <2>1. HoldsWhatItShould'
    BY <1>9 DEF Connect, Exit, Goto, LineAndChipBack
  <2>2. ThreadInv'
    BY <1>9 DEF Connect, Exit, Goto
  <2>3. SignalInv'
    BY <1>9 DEF Connect, Exit, Goto
  <2> QED
    BY <2>1, <2>2, <2>3
<1> QED
  BY <1>1, <1>2, <1>3, <1>4, <1>5, <1>6, <1>7, <1>8, <1>9 DEF Start

(* A step of the main thread keeps it.                                     *)
LEMMA MainKeeps ==
  ASSUME LifeInv, MainThread
  PROVE  LifeInv'
<1> USE DEF LifeInv, HoldsWhatItShould, ThreadInv, SignalInv, Starting, Resources,
            calmVars, stayVars, threadVars, decoderVars, signalVars
<1>1. CASE StartUp
  BY <1>1, StartKeeps
<1>2. CASE Setup
  BY <1>2 DEF Setup
<1>3. CASE StartThread
  BY <1>3 DEF StartThread
<1>4. CASE StartReturns
  BY <1>4 DEF StartReturns
<1>5. CASE WaitTimesOut
  BY <1>5 DEF WaitTimesOut
<1>6. CASE WaitIsOver
  BY <1>6 DEF WaitIsOver
<1>7. CASE Work
  BY <1>7 DEF Work
<1>8. CASE Join
  BY <1>8 DEF Join, Joinable
<1>9. CASE DeleteThread
  BY <1>9 DEF DeleteThread
<1>10. CASE Return
  BY <1>10 DEF Return, Release, LineAndChipBack, ErrorStopCode
<1> QED
  BY <1>1, <1>2, <1>3, <1>4, <1>5, <1>6, <1>7, <1>8, <1>9, <1>10
     DEF MainThread

(* So does a step of the decoder thread, of the signal handler or a        *)
(* signal.                                                                 *)
LEMMA ThreadAndHandlerKeep ==
  ASSUME LifeInv, DecoderThread \/ Handler \/ Signals
  PROVE  LifeInv'
<1> USE DEF LifeInv, HoldsWhatItShould, ThreadInv, SignalInv, Starting, Resources,
            mainVars, startVars, calmVars, stayVars, threadVars, decoderVars,
            signalVars, Ended
<1>1. CASE ReadLine
  BY <1>1 DEF ReadLine, DecoderRuns
<1>2. CASE ReadError
  BY <1>2 DEF ReadError, DecoderRuns
<1>3. CASE WaitFuture
  BY <1>3 DEF WaitFuture, AfterWait, DecoderRuns
<1>4. CASE SignalKills
  BY <1>4 DEF SignalKills
<1>5. CASE \E t \in {"main", "decoder"} : Signal(t)
  BY <1>5 DEF Signal
<1>6. CASE HandlerTests
  BY <1>6 DEF HandlerTests
<1>7. CASE HandlerSets
  BY <1>7 DEF HandlerSets
<1> QED
  BY <1>1, <1>2, <1>3, <1>4, <1>5, <1>6, <1>7
     DEF DecoderThread, Handler, Signals

(* The invariant of the program's life, from start to end.                 *)
THEOREM LifeInvariant == Spec => []LifeInv
<1>1. LifeInv /\ UNCHANGED lifeVars => LifeInv'
  BY DEF LifeInv, HoldsWhatItShould, ThreadInv, SignalInv, Starting, Resources,
         lifeVars, mainVars, startVars, threadVars, decoderVars, signalVars
<1>2. LifeInv /\ [Next]_lifeVars => LifeInv'
  BY <1>1, MainKeeps, ThreadAndHandlerKeep DEF Next
<1> QED
  BY LifeInit, <1>2, PTL DEF Spec

(* However main returns, the chip, its line and the connection were given  *)
(* back.  The invariant names what can be left: the socket of ReadMAC, the *)
(* LED and its trigger.                                                    *)
THEOREM ExitGivesBack == Spec => []LineIsGivenBack
<1>1. LifeInv => LineIsGivenBack
  BY DEF LifeInv, HoldsWhatItShould, LineIsGivenBack
<1> QED
  BY <1>1, LifeInvariant, PTL

(* The decoder thread is gone before the farewell, and the exit code tells *)
(* whether a read failed.                                                  *)
THEOREM DecoderIsGone == Spec => []AloneAtTheEnd
<1>1. LifeInv => AloneAtTheEnd
  BY DEF LifeInv, ThreadInv, AloneAtTheEnd
<1> QED
  BY <1>1, LifeInvariant, PTL

(* An abort takes two signals, or a bad configuration before anything was  *)
(* taken.                                                                  *)
THEOREM OneSignalNeverAborts == Spec => []AbortTakesTwoSignals
<1>1. LifeInv => AbortTakesTwoSignals
  BY DEF LifeInv, SignalInv, AbortTakesTwoSignals
<1> QED
  BY <1>1, LifeInvariant, PTL

-----------------------------------------------------------------------------
(* The file is made of lines, and nobody writes to it but an               *)
(* administrator before the program starts.                                *)
FileOK == file \in Seq(Line)

(* Every step leaves it so.                                                *)
LEMMA FileKept ==
  ASSUME FileOK, [Next]_lifeVars
  PROVE  FileOK'
<1> USE DEF FileOK, calmVars, stayVars
<1>1. ASSUME NEW line \in Lines, EditFile(line) PROVE FileOK'
  <2>1. line \in Line /\ file' = Append(file, line)
    BY <1>1, StartupAssumption DEF EditFile
  <2>2. Append(file, line) \in Seq(Line)
    BY <2>1
  <2> QED BY <2>1, <2>2
<1>2. CASE ReadConfig
  <2>1. file' = file \/ file' = <<>>
    BY <1>2 DEF ReadConfig, Exit, Goto
  <2>2. <<>> \in Seq(Line)
    OBVIOUS
  <2> QED BY <2>1, <2>2
<1>3. CASE StartUp
  <2>1. CASE \/ ParseOptions \/ ReadMAC \/ OpenChip \/ GetLine
             \/ RequestLine \/ OpenLed \/ Connect
    BY <2>1 DEF ParseOptions, ReadMAC, OpenChip, GetLine, RequestLine,
                OpenLed, Connect, Exit, Goto
  <2> QED BY <1>1, <1>2, <1>3, <2>1 DEF StartUp, Start
<1>4. CASE MainThread
  BY <1>3, <1>4
     DEF MainThread, Setup, StartThread, StartReturns, WaitTimesOut,
         WaitIsOver, Work, Join, DeleteThread, Return
<1>5. CASE DecoderThread
  BY <1>5 DEF DecoderThread, ReadLine, ReadError, WaitFuture, mainVars,
              startVars
<1>6. CASE Handler
  BY <1>6 DEF Handler, HandlerTests, HandlerSets
<1>7. CASE Signals
  BY <1>7 DEF Signals, SignalKills, Signal, mainVars, startVars
<1>8. CASE UNCHANGED lifeVars
  BY <1>8 DEF lifeVars, mainVars, startVars
<1> QED BY <1>4, <1>5, <1>6, <1>7, <1>8 DEF Next

(* Whatever is read as the file has lines for its elements.                *)
LEMMA FileInvariant == Spec => []FileOK
<1>1. Init => FileOK
  BY DEF Init, StartInit, FileOK
<1> QED BY <1>1, FileKept, PTL DEF Spec

(* A setting to which the file gives one word is what that word says, and  *)
(* one that it does not give stays what the command line made it.          *)
THEOREM FileHasPriority == Spec => []FileOverridesOptions
<1>1. FileOK => FileOverridesOptions
  BY LoadOverrides DEF FileOK
<1> QED
  BY <1>1, FileInvariant, PTL

(* The transmitters ignored are those whose id is given a true value, and  *)
(* nothing else.                                                           *)
THEOREM IgnoresWhatIsWritten == Spec => []IgnoredAsWritten
<1>1. FileOK => IgnoredAsWritten
  BY IgnoredAreWritten DEF FileOK
<1> QED
  BY <1>1, FileInvariant, PTL

(* Of the spellings of an id the one that sorts first counts.              *)
THEOREM OneSpellingCounts == Spec => []FirstSpellingCounts
<1>1. FileOK => FirstSpellingCounts
  BY FirstSpellings DEF FileOK
<1> QED
  BY <1>1, FileInvariant, PTL
=============================================================================
