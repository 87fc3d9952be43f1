------------------------------ MODULE Startup ------------------------------
(***************************************************************************)
(* main() before any other thread exists: the command line, the            *)
(* configuration file, the MAC address, the GPIO line, the LED and the     *)
(* connection to the broker.  Each of them can fail, and what was opened   *)
(* before must then be given back.                                         *)
(***************************************************************************)
EXTENDS Config

CONSTANTS
  Lines,      \* the lines an administrator may write
  MaxLines,   \* bound: the length of the file
  OptionSets  \* what the command line may set: records of some settings

Line == [kind : {"section", "pair", "broken"}, indented : BOOLEAN,
         name : STRING, value : STRING, text : STRING]

(* The lines, the bound on their number, and the options there can be.     *)
ASSUME StartupAssumption ==
  /\ Lines \subseteq Line
  /\ MaxLines \in Nat
  /\ \A given \in OptionSets : DOMAIN given \subseteq {"chip", "pin", "host",
                                                       "port"}

VARIABLES
  main,      \* where the main thread is
  rv,        \* what main returns
  file,      \* the configuration file, until it is read
  settings,  \* the variables of Config
  held,      \* what main has opened or taken: see Resources
  lit        \* the LED is on

startVars == <<main, rv, file, settings, held, lit>>

NoValue == -99   \* stands for "nothing returned yet"

(* "socket": the one ReadMAC asks the interfaces through; "trigger": the   *)
(* LED was taken from what the system used it for.                         *)
Resources == {"socket", "chip", "line", "trigger", "led", "broker"}

StartInit ==
  /\ main = "edit"
  /\ rv = NoValue
  /\ file = <<>>
  /\ settings = Defaults
  /\ held = {}
  /\ lit = FALSE

Exit(code) ==
  /\ main' = "exit"
  /\ rv' = code
  /\ UNCHANGED <<file, settings, lit>>

(* A system call of main: it fails or control goes to `next`.              *)
Goto(next) == main' = next /\ UNCHANGED <<rv, file, settings, lit>>

-----------------------------------------------------------------------------
EditFile(line) ==
  /\ main = "edit" /\ Len(file) < MaxLines
  /\ file' = Append(file, line)
  /\ UNCHANGED <<main, rv, settings, held, lit>>

(* getopt_long: -h and -v end the program, so does an unknown option or a  *)
(* pin or port that is no number.                                          *)
ParseOptions ==
  /\ main = "edit"
  /\ \/ \E code \in {0, 1} : Exit(code)
     \/ \E given \in OptionSets :
          /\ main' = "config"
          /\ settings' = [s \in Settings |-> IF s \in DOMAIN given
                                               THEN given[s] ELSE Defaults[s]]
          /\ UNCHANGED <<rv, file, lit>>
  /\ UNCHANGED held

(* access() and Config::Load: the file that was named is missing, the      *)
(* default one is missing, the file cannot be opened, or it is read, with  *)
(* or without errors in it.                                                *)
ReadConfig ==
  /\ main = "config"
  /\ LET values == Parse(file).values
     IN  \/ \E code \in {-4, -5} : Exit(code)
         \/ Goto("mac")
         \/ /\ main' = IF Throws(values) THEN "aborted" ELSE "mac"
            /\ settings' = IF Throws(values) THEN settings
                           ELSE Load(values, settings)
            /\ file' = <<>>
            /\ UNCHANGED <<rv, lit>>
  /\ UNCHANGED held

(* Config::ReadMAC: there is no socket to be had, or a query through it    *)
(* fails or not; none of its returns closes the socket.                    *)
ReadMAC ==
  /\ main = "mac"
  /\ \/ Exit(-8) /\ UNCHANGED held
     \/ (Exit(-8) \/ Goto("chip")) /\ held' = held \cup {"socket"}

OpenChip ==
  /\ main = "chip"
  /\ \/ Exit(-1) /\ UNCHANGED held
     \/ Goto("line") /\ held' = held \cup {"chip"}

GetLine ==
  /\ main = "line"
  /\ \/ Exit(-2) /\ held' = held \ {"chip"}
     \/ Goto("request") /\ UNCHANGED held

(* gpiod_line_release and gpiod_chip_close                                 *)
ChipOnly == held \ {"chip"}           \* mutant: the line is not released
LineAndChipBack == held \ {"line", "chip"}

(* As input or for the events of both edges, as `polling` says.            *)
RequestLine ==
  /\ main = "request"
  /\ \/ Exit(-3) /\ held' = LineAndChipBack
     \/ Goto("led") /\ held' = held \cup {"line"}

(* Led::Open takes the trigger before it knows whether it gets the LED.    *)
OpenLed ==
  /\ main = "led"
  /\ IF settings.internal_led = <<>> THEN Goto("connect") /\ UNCHANGED held
     ELSE \/ \E taken \in {{}, {"trigger"}} :
               Exit(-12) /\ held' = LineAndChipBack \cup taken
          \/ Goto("connect") /\ held' = held \cup {"trigger", "led"}

(* mqtt.Connect                                                            *)
Connect ==
  /\ main = "connect"
  /\ \/ Exit(-7) /\ held' = LineAndChipBack
     \/ Goto("setup") /\ held' = held \cup {"broker"}

(* Led::Control                                                            *)
AlwaysOn(on) == lit' = (lit \/ (on /\ "led" \in held))  \* mutant: never off
Control(on) == lit' = IF "led" \in held THEN on ELSE lit

(* The end of main: Led::Close tests the wrong way round and closes        *)
(* nothing.                                                                *)
Release == held' = LineAndChipBack \ {"broker"}

Start ==
  \/ \E line \in Lines : EditFile(line)
  \/ ParseOptions \/ ReadConfig \/ ReadMAC
  \/ OpenChip \/ GetLine \/ RequestLine \/ OpenLed \/ Connect

-----------------------------------------------------------------------------
(* However main returns, whatever step failed before, the GPIO chip, its   *)
(* line and the session with the broker were given back.  The rest is not: *)
(* nothing closes the socket of ReadMAC, and Led::Close does not close.    *)
LineIsGivenBack == main = "exit" => held \cap {"chip", "line", "broker"} = {}

(* What a reader of the file takes its lines for.  The value of a pair     *)
(* goes on in the indented lines below it, whatever they look like, up to  *)
(* a section or a pair without a name.                                     *)
Ends(k) ==
  /\ ~file[k].indented
  /\ file[k].kind = "section" \/ (file[k].kind = "pair" /\ file[k].name = "")

Swallowed(i) ==
  /\ file[i].indented
  /\ \E j \in 1 .. i - 1 : /\ file[j].kind = "pair" /\ file[j].name # ""
                           /\ \A k \in j .. i - 1 : ~Ends(k)

Pairs == {i \in DOMAIN file : file[i].kind = "pair" /\ ~Swallowed(i)}

SectionOf(i) ==
  LET before == {j \in 1 .. i : file[j].kind = "section" /\ ~Swallowed(j)}
  IN  IF before = {} THEN "" ELSE file[Max(before)].name

(* The parts of the value of a key are what its pairs and the lines they   *)
(* swallowed say.  They are one text, in which an empty part leaves a      *)
(* trace only behind one that is not.                                      *)
PairOf(i) == Max({j \in Pairs : j <= i})

PartsOf(key) ==
  {i \in DOMAIN file :
     /\ i \in Pairs \/ Swallowed(i)
     /\ key = <<Lowered(SectionOf(PairOf(i))), Lowered(file[PairOf(i)].name)>>}

Word(i) == IF Swallowed(i) THEN file[i].text ELSE file[i].value

OnlyWord(key, i) ==
  /\ i \in PartsOf(key)
  /\ \A j \in PartsOf(key) \ {i} : j < i /\ Word(j) = ""

FirstWord(key) ==
  LET said == {i \in PartsOf(key) : Word(i) # ""}
  IN  IF said = {} THEN "" ELSE Word(Min(said))

Loading == main = "config" /\ ~Throws(Parse(file).values)

(* README: options from the file have priority over the command line.  A   *)
(* setting to which the file gives one word is what that word says,        *)
(* whatever the command line said and however many other lines are broken; *)
(* one that no line gives stays what it was, also if a line that names it  *)
(* was swallowed.                                                          *)
FileOverridesOptions ==
  Loading =>
    LET loaded == Load(Parse(file).values, settings)
    IN  \A s \in Settings :
          /\ PartsOf(KeyOf(s)) = {} => loaded[s] = settings[s]
          /\ \A i \in DOMAIN file : OnlyWord(KeyOf(s), i) =>
               CASE s \in Boolean ->
                      /\ Lowered(Word(i)) \in {"true", "yes", "on", "1"}
                           => loaded[s] = TRUE
                      /\ Lowered(Word(i)) \in {"false", "no", "off", "0"}
                           => loaded[s] = FALSE
                 [] s \in Integral ->
                      Word(i) \in DOMAIN Decimal => loaded[s] = Decimal[Word(i)]
                 [] OTHER ->
                      loaded[s] = IF Word(i) = "" THEN <<>> ELSE <<Word(i)>>

(* README: a transmitter is ignored when the value of its id is true.  It  *)
(* is when that is all the file says of the id, in whatever spelling:      *)
(* another line for the same spelling, even one that is empty but comes    *)
(* later, makes a text of two lines that is no "true".                     *)
IgnoredAsWritten ==
  Loading =>
    GetIgnored(Parse(file).values) =
      {Hex[name] % 65536 : name \in
         {n \in ToSet(Spelled) :
            \E i \in DOMAIN file : /\ OnlyWord(<<"ignore", n>>, i)
                                  /\ Lowered(Word(i)) \in {"yes", "true", "1"}}}

(* xini.cpp: an id has one substitute and one name, whatever the file      *)
(* says: of its spellings the one that sorts first counts, and of that the *)
(* first word; an id that has none keeps its standard name.                *)
FirstSpellingCounts ==
  Loading =>
    LET values == Parse(file).values
        SpelledIn(section, id) ==
          {p \in DOMAIN Spelled : /\ PartsOf(<<section, Spelled[p]>>) # {}
                                  /\ Id(Spelled[p]) = id}
        Said(section, id) ==
          FirstWord(<<section, Spelled[Min(SpelledIn(section, id))]>>)
    IN  \A id \in {Id(name) : name \in DOMAIN Hex} :
          /\ SpelledIn("substitute", id) # {} =>
               GetSubstitutes(values)[id] = Id(Said("substitute", id))
          /\ First(GetName(values, "temperature", id)) =
               IF SpelledIn("temperature", id) = {} THEN "standard"
               ELSE IF Said("temperature", id) = "" THEN "standard"
               ELSE Said("temperature", id)
=============================================================================
