---------------------------- MODULE SettingsStore ----------------------------
(***************************************************************************)
(* What the configuration store promises the rest of the firmware (the      *)
(* public interface of lib-configstore/include/configstore.h): a working    *)
(* copy of the settings that callers change word by word, and a durable     *)
(* copy that is, outside a save, one version of the working copy as a whole.*)
(* A restart after a completed save gives that version back, and one in the *)
(* middle of a save gives words of one version only, the rest of them lost. *)
(***************************************************************************)
CONSTANTS
  Words,      \* the words of the settings; the word 0 tells whether they are valid
  Values,     \* what a word may hold
  Magic,      \* the value of a valid word 0
  Zero,       \* what a reset leaves in each word
  Lost        \* what a word reads that was not saved

VARIABLES settings,   \* the working copy
          version,    \* the version saved or being saved
          durable     \* whether version is saved: TRUE outside a save

vars == <<settings, version, durable>>

Valid(s) == s[0] = Magic

Defaults == [w \in Words |-> IF w = 0 THEN Magic ELSE Zero]

\* The settings after a restart that reads s.
Load(s) == IF Valid(s) THEN s ELSE Defaults

Init == /\ settings = Defaults
        /\ version = Defaults
        /\ durable = FALSE

\* A caller changes a word.
Set == /\ \E w \in Words \ {0}, v \in Values : settings' = [settings EXCEPT ![w] = v]
       /\ UNCHANGED <<version, durable>>

\* All settings are wiped: the next restart finds no valid ones.
Wipe == /\ settings' = [w \in Words |-> Zero]
        /\ UNCHANGED <<version, durable>>

\* A save gives up the old version first, ...
Erase == durable /\ durable' = FALSE /\ UNCHANGED <<settings, version>>

\* ... settles on what it saves, ...
Take == ~durable /\ version' = settings /\ UNCHANGED <<settings, durable>>

\* ... and is done.
Publish == ~durable /\ durable' = TRUE /\ UNCHANGED <<settings, version>>

\* A restart after a save.
Restart == /\ durable
           /\ settings' = Load(version)
           /\ UNCHANGED <<version, durable>>

\* The power fails in the middle of a save: words of the version may be lost,
\* and what the store finds then, if valid, is a version of its own.
Tear ==
  /\ ~durable
  /\ \E lost \in SUBSET Words :
       LET read == [w \in Words |-> IF w \in lost THEN Lost ELSE version[w]]
       IN  /\ settings' = Load(read)
           /\ version' = (IF Valid(read) THEN read ELSE version)
           /\ durable' = (read = version')

Next == Set \/ Wipe \/ Erase \/ Take \/ Publish \/ Restart \/ Tear

Spec == Init /\ [][Next]_vars
=============================================================================
