-------------------------------- MODULE ConfigText --------------------------------
(***************************************************************************)
(* config/config.go: what config.yml says, and which of its keys are        *)
(* missing.  A file is a sequence of lines, indented as the template's are. *)
(* Comments and empty lines are left out.  A line has a key and a value;    *)
(* "open" is the value of a line whose value is on the lines after it: the  *)
(* line `settings:` and lists, the items of which have no key of their own. *)
(***************************************************************************)
EXTENDS Integers, Sequences, FiniteSets, SequencesExt

CONSTANT Template  \* template.ConfigTemplate

Line == [key : STRING, value : {"value", "open"}]
Item == "item"
Sections == {"version", "settings"}
NamesIn(lines) == {lines[i].key : i \in DOMAIN lines}
----------------------------------------------------------------------------------
\* The section line i is in: that of the last line before it that is not indented.
SectionOf(lines, i) ==
    LET before == {j \in 1..(i - 1) : lines[j].key \in Sections}
    IN  IF before = {} THEN "none" ELSE lines[Max(before)].key

\* What the YAML library takes: no key twice, and nothing under a key that has
\* a value or no key at all.
Legal(lines) ==
    /\ \A i, j \in DOMAIN lines :
          i # j /\ lines[i].key = lines[j].key => lines[i].key = Item
    /\ \A i \in DOMAIN lines :
          lines[i].key \notin Sections \cup {Item}
             => SectionOf(lines, i) = "settings" \/ NamesIn(lines) \cap Sections = {}
    /\ \A i \in DOMAIN lines :
          lines[i].key = Item
             => /\ i > 1 /\ lines[i - 1].key # "settings"
                /\ lines[i - 1].key = Item \/ lines[i - 1].value = "open"

\* The keys of Settings that are not zero after Unmarshal.
Given(lines) ==
    {lines[i].key : i \in
        {j \in DOMAIN lines :
            /\ lines[j].key \notin Sections \cup {Item} /\ SectionOf(lines, j) = "settings"
            /\ \/ lines[j].value = "value"
               \/ lines[j].value = "open" /\ j < Len(lines) /\ lines[j + 1].key = Item}}

\* extractKeysFromString: what is before a colon.
KeysIn(lines) == NamesIn(lines) \ {Item}

\* getMissingSettingsByReflection compares the fields of Config: of these only
\* Settings is neither a number nor a switch.
MissingByReflection(lines) ==
    IF Given(lines) = {} /\ Given(Template) # {} THEN {"settings"} ELSE {}

MissingByText(lines) == KeysIn(Template) \ KeysIn(lines)

Missing(lines) == MissingByReflection(lines) \cup MissingByText(lines)

\* extractMissingConfigLines: the first line of the template with the key.
TemplateLine(k) == Template[SelectInSeq(Template, LAMBDA line : line.key = k)]
==================================================================================
