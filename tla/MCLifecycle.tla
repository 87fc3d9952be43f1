---------------------------- MODULE MCLifecycle ----------------------------
(* Instances of Lifecycle for TLC: lines of a configuration file, and what *)
(* the C library makes of their words.                                     *)
EXTENDS Lifecycle, TLC

ToLower   == "Ignore" :> "ignore" @@ "HOST" :> "host" @@ "Yes" :> "yes"
Numbers   == "17" :> 17 @@ "1" :> 1
HexWords  == "ae00" :> 44544 @@ "1ae00" :> 110080 @@ "1" :> 1
               @@ "bb00" :> 47872
NameOrder == <<"1ae00", "ae00", "host", "internal_led", "kitchen", "pin",
               "polling">>

Pair(name, value) == [kind |-> "pair", indented |-> FALSE, name |-> name,
                      value |-> value, text |-> ""]
Indented(line, text) == [line EXCEPT !.indented = TRUE, !.text = text]
Section(name) == [Pair(name, "") EXCEPT !.kind = "section"]
Broken == [Pair("", "") EXCEPT !.kind = "broken"]

(* Well and badly written lines, ids in two spellings, an id that is none. *)
WrittenLines ==
  {Section(s) : s \in {"Ignore", "substitute", "temperature", "receiver",
                        "mqtt"}} \cup
  {Pair("1ae00", "1"), Pair("ae00", "Yes"), Pair("ae00", "bb00"),
   Pair("kitchen", "yes"), Pair("HOST", "hub"), Pair("pin", "17"),
   Pair("polling", "Yes"), Pair("internal_led", "red"), Pair("ae00", ""),
   Pair("", "nameless"), Broken, Indented(Pair("pin", "17"), "pin=17")}

Options == {[host |-> <<"cli">>, pin |-> 4]}

(* A file for a program without or with an LED.                            *)
LedLines == {Section("receiver"), Pair("internal_led", "red")}
NoOption == {[s \in {} |-> 0]}
=============================================================================
