------------------------------- MODULE Config -------------------------------
(***************************************************************************)
(* The configuration file: what the INI parser makes of its lines, and     *)
(* what Config::Load makes of that.                                        *)
(*                                                                         *)
(* A line is a record of its kind, whether it is indented, and two words:  *)
(* the name and the value of a "pair", the name of a "section"; a "broken" *)
(* line has neither a bracket nor a `=`; comments are left out, they do    *)
(* nothing.  A word is a string that is never taken apart: what the C      *)
(* functions make of it is given by functions on words.  A text is the     *)
(* sequence of the words that were joined by line ends, <<>> if empty.     *)
(***************************************************************************)
EXTENDS Integers, Sequences, SequencesExt, FiniteSetsExt

CONSTANTS
  Lower,     \* tolower: from the words with capitals to those without
  Decimal,   \* strtol: from the words that begin with a number to that
  Hex,       \* stoul to the base 16: the same for hexadecimal numbers
  Spelled    \* the names of a file in the order of their characters

(* Names are strings; no letter and no digit is in the empty word.         *)
ASSUME WordAssumption ==
  /\ Spelled \in Seq(STRING)
  /\ "" \notin DOMAIN Lower \cup DOMAIN Decimal

Lowered(word) == IF word \in DOMAIN Lower THEN Lower[word] ELSE word

MakeKey(section, name) == <<Lowered(section), Lowered(name)>>

-----------------------------------------------------------------------------
(* ini_parse_stream with ValueHandler: `prev` is prev_name, "" if none.    *)
Unread == [section |-> "", prev |-> "", error |-> 0, lineno |-> 0,
           values |-> [k \in {} |-> <<>>]]

Joined(text, word) ==
  IF text # <<>> THEN Append(text, word)
  ELSE IF word = "" THEN <<>> ELSE <<word>>

ValueHandler(parsed, name, word) ==
  LET key == MakeKey(parsed.section, name)
      old == parsed.values
      text == IF key \in DOMAIN old THEN old[key] ELSE <<>>
  IN  [parsed EXCEPT !.values = [k \in DOMAIN old \cup {key} |->
         IF k = key THEN Joined(text, word) ELSE old[k]]]

Failed(parsed) ==
  [parsed EXCEPT !.error = IF @ = 0 THEN parsed.lineno ELSE @]

NewSection(parsed, line) ==
  [parsed EXCEPT !.section = line.name, !.prev = ""]

(* An indented line continues the last pair, whatever it looks like.       *)
EveryLineAnew(parsed, line) == FALSE  \* mutant: INI_ALLOW_MULTILINE is off
Continues(parsed, line) == line.indented /\ parsed.prev # ""

ParseLine(before, line) ==
  LET parsed == [before EXCEPT !.lineno = @ + 1]
  IN  CASE Continues(parsed, line) ->
             ValueHandler(parsed, parsed.prev, line.text)
        [] ~Continues(parsed, line) /\ line.kind = "section" ->
             NewSection(parsed, line)
        [] ~Continues(parsed, line) /\ line.kind = "pair" ->
             [ValueHandler(parsed, line.name, line.value) EXCEPT
                !.prev = line.name]
        [] ~Continues(parsed, line) /\ line.kind = "broken" ->
             Failed(parsed)

Parse(file) == FoldLeft(ParseLine, Unread, file)

-----------------------------------------------------------------------------
(* INIReader::Get, GetInteger, GetBoolean.                                 *)
Get(values, key, default) ==
  IF key \in DOMAIN values THEN values[key] ELSE default

First(text) == IF text = <<>> THEN "" ELSE Head(text)

GetInteger(values, key, default) ==
  LET word == First(Get(values, key, <<>>))
  IN  IF word \in DOMAIN Decimal THEN Decimal[word] ELSE default

Is(text, words) == Len(text) = 1 /\ Lowered(Head(text)) \in words

GetBoolean(values, key, default) ==
  LET text == Get(values, key, <<>>)
  IN  IF Is(text, {"true", "yes", "on", "1"}) THEN TRUE
      ELSE IF Is(text, {"false", "no", "off", "0"}) THEN FALSE
      ELSE default

-----------------------------------------------------------------------------
(* XIni: the sections whose names are ids of transmitters.  A name is told *)
(* by its place in the order of the map.                                   *)
NamesOf(values, section) ==
  {p \in DOMAIN Spelled : <<section, Spelled[p]>> \in DOMAIN values}

(* (uint16_t) std::stoul(...): longer numbers are cut.                     *)
Uncut(word) == Hex[word]              \* mutant: the cast is missing
Id(word) == Hex[word] % 65536

GetIgnored(values) ==
  {Id(Spelled[p]) : p \in
     {q \in NamesOf(values, "ignore") :
        Is(values[<<"ignore", Spelled[q]>>], {"yes", "true", "1"})}}

(* map::insert keeps what is there: of two spellings of an id the first in *)
(* the order of the map counts.                                            *)
LastOf(places) == Max(places)         \* mutant: operator[], not insert
Counting(places) == Min(places)

Table(values, section) ==
  LET names == NamesOf(values, section)
  IN  [id \in {Id(Spelled[p]) : p \in names} |->
         values[<<section,
                  Spelled[Counting({p \in names : Id(Spelled[p]) = id})]>>]]

GetSubstitutes(values) ==
  LET table == Table(values, "substitute")
  IN  [id \in DOMAIN table |-> Id(First(table[id]))]

(* stoul throws on a word that is no number, and nobody catches it.        *)
Tables == {"substitute", "temperature", "humidity", "battery", "quality"}

Throws(values) ==
  \E key \in DOMAIN values :
    \/ /\ key[1] \in Tables
       /\ key[2] \notin DOMAIN Hex
    \/ /\ key[1] = "substitute"
       /\ First(values[key]) \notin DOMAIN Hex
    \/ /\ key[1] = "ignore"
       /\ Is(values[key], {"yes", "true", "1"})
       /\ key[2] \notin DOMAIN Hex

(* MQTTClient::GetName: the name of a quantity of a sensor, "standard" for *)
(* the text made of its id.                                                *)
GetName(values, type, id) ==
  LET names == Table(values, type)
  IN  IF id \in DOMAIN names /\ names[id] # <<>> THEN names[id]
      ELSE <<"standard">>

-----------------------------------------------------------------------------
(* Config::Load: the values the variables have so far are the defaults.    *)
Defaults == [host |-> <<"127.0.0.1">>, port |-> 1883, password |-> <<>>,
  user |-> <<>>, clientid |-> <<"nexus433">>, cafile |-> <<>>,
  capath |-> <<>>, certfile |-> <<>>, keyfile |-> <<>>, keypass |-> <<>>,
  polling |-> FALSE, chip |-> <<"gpiochip0">>, pin |-> 1,
  resolution_us |-> 1, tolerance_us |-> 300, internal_led |-> <<>>,
  silent_timeout_sec |-> 90, minimum_frames |-> 2, discovery |-> FALSE,
  discovery_prefix |-> <<"homeassistant">>, battery_low |-> <<"0">>,
  battery_normal |-> <<"100">>]

Sections == [
  mqtt |-> {"host", "port", "password", "user", "clientid", "cafile",
            "capath", "certfile", "keyfile", "keypass"},
  receiver |-> {"polling", "chip", "pin", "resolution_us", "tolerance_us",
                "internal_led"},
  transmitter |-> {"silent_timeout_sec", "minimum_frames", "discovery",
                   "discovery_prefix", "battery_low", "battery_normal"}]

Settings == DOMAIN Defaults
Integral == {"port", "pin", "resolution_us", "tolerance_us",
             "silent_timeout_sec", "minimum_frames"}
Boolean  == {"polling", "discovery"}

KeyOf(setting) ==
  <<CHOOSE s \in DOMAIN Sections : setting \in Sections[s], setting>>

Load(values, given) ==
  [s \in Settings |->
     IF s \in Integral THEN GetInteger(values, KeyOf(s), given[s])
     ELSE IF s \in Boolean THEN GetBoolean(values, KeyOf(s), given[s])
     ELSE Get(values, KeyOf(s), given[s])]
=============================================================================
