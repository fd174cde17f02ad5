------------------------------- MODULE Config -------------------------------
(***************************************************************************)
(* string_parser.c: a table of key=value lines with a fixed number of      *)
(* entries.  A string is the sequence of its characters.  count lies right *)
(* behind the last entry, where an entry one further would begin.          *)
(***************************************************************************)
EXTENDS Integers, Sequences

CONSTANTS MAX_ENTRIES, MAX_KEY_LEN, MAX_VAL_LEN,
          Lines,      \* [kind, key, value]: what a line is made of
          JUNK,       \* what the uninitialised config_t holds
          NO_VALUE    \* NULL

IsString(s) == s \in Seq({s[x] : x \in DOMAIN s})

ASSUME ConfigAssumption ==
  /\ MAX_ENTRIES \in Nat \ {0}
  /\ MAX_KEY_LEN \in Nat \ {0} /\ MAX_VAL_LEN \in Nat \ {0}
  /\ \A line \in Lines : line.kind \in {"short", "comment", "plain", "pair"}
  /\ \A line \in Lines : IsString(line.key) /\ IsString(line.value)
  /\ \A line \in Lines : line.kind = "pair" =>       \* two characters or more
                            Len(line.key) + Len(line.value) > 0

VARIABLES entries, entry_count,
          accepted,     \* for the properties: the pairs stored, in order
          overrun       \* and whether the table was ever written beyond

configVars == <<entries, entry_count, accepted, overrun>>

config_init == /\ entries = [e \in 0 .. MAX_ENTRIES - 1 |->
                               [key |-> JUNK, value |-> JUNK]]
               /\ entry_count = 0
               /\ accepted = << >> /\ overrun = FALSE

Cut(s, max) == SubSeq(s, 1, IF Len(s) < max - 1 THEN Len(s) ELSE max - 1)
Key(line) == Cut(line.key, MAX_KEY_LEN)
Value(line) == Cut(line.value, MAX_VAL_LEN)

\* The characters are stored one by one over what is there.
Over(new, old) == new \o SubSeq(old, Len(new) + 1, Len(old))

Full == entry_count = MAX_ENTRIES
\* Behind a full table the first memset meets entry_count, and the second one
\* the entry that it names by then.
EntryAt == IF Full THEN 0 ELSE entry_count
\* Slip: the entry is not cleared.
NotCleared == entries
Cleared == IF Full THEN [entries EXCEPT ![0].value = << >>]
           ELSE [entries EXCEPT ![entry_count] =
                                  [key |-> << >>, value |-> << >>]]

\* The limit is looked at after the entry was cleared: it is never reached.
StorePair(line) ==
  /\ entries' = [Cleared EXCEPT ![EntryAt].key = Over(Key(line), @),
                                ![EntryAt].value = Over(Value(line), @)]
  /\ entry_count' = EntryAt + 1
  /\ accepted' = IF overrun' THEN accepted ELSE Append(accepted, line)

config_parse_line(line) ==
  /\ line.kind # "short"
  /\ overrun' = (overrun \/ Full)
  /\ \/ line.kind = "pair" /\ StorePair(line)
     \/ /\ line.kind # "pair"
        /\ entries' = Cleared /\ entry_count' = EntryAt
        /\ UNCHANGED accepted

ConfigNext == \E line \in Lines : config_parse_line(line)
ConfigSpec == config_init /\ [][ConfigNext]_configVars

FirstAt(k) == {e \in 0 .. entry_count - 1 :
                 entries[e].key = k /\ \A d \in 0 .. e - 1 : entries[d].key # k}
config_get(k) ==
  IF Len(k) > MAX_KEY_LEN \/ FirstAt(k) = {} THEN NO_VALUE
  ELSE entries[CHOOSE e \in FirstAt(k) : TRUE].value

-----------------------------------------------------------------------------
ConfigTypeOK == /\ entry_count \in 0 .. MAX_ENTRIES
                /\ overrun \/ Len(accepted) = entry_count
                /\ \A e \in 0 .. entry_count - 1 :
                     /\ overrun \/ Len(entries[e].key) < MAX_KEY_LEN
                     /\ overrun \/ Len(entries[e].value) < MAX_VAL_LEN

\* As long as the table was not written beyond its end, a key has the value
\* of the first line that gave it one, whatever lines were ignored before and
\* whatever the memory held; a key too long to be stored is found cut off.
Definitions(k) == {d \in DOMAIN accepted : Key(accepted[d]) = k}
FirstDefinitionWins ==
  ~overrun => \A line \in Lines :
    LET k == Key(line)
    IN  \/ Definitions(k) = {} /\ config_get(k) = NO_VALUE
        \/ \E d \in Definitions(k) :
             /\ \A e \in Definitions(k) : d <= e
             /\ config_get(k) = Value(accepted[d])

\* Lines that are no pair are ignored: what can be looked up stays.
Visible == [e \in 0 .. entry_count - 1 |-> entries[e]]
IgnoredLinesAreIgnored ==
  [][(\E line \in Lines : line.kind # "pair" /\ config_parse_line(line)) =>
        Visible' = Visible]_configVars
=============================================================================
