------------------------------- MODULE Startup -------------------------------
(***************************************************************************)
(* A start of the tracker (main.cpp) and the settings it runs with         *)
(* (settings.cpp): settings.json is read, or written when it cannot be     *)
(* opened, while the user edits it, another program holds it, and the      *)
(* game may end, or be started again, at any moment.                       *)
(*                                                                         *)
(* Of a file that parses only the listening port and the log level matter  *)
(* here: nothing reads websocket_connections and identifier.               *)
(* Mem_Initialize, which is one step here, is modelled in Hooking, the     *)
(* server in Networking.                                                   *)
(***************************************************************************)
EXTENDS Naturals

CONSTANTS
  PortSpace,     \* how many ports listen() can tell apart: 2^16
  DefaultPort,   \* 6252
  Ports,         \* the ports of 32 bits that the user writes
  Info,          \* LOG_INFO, the default log level
  Levels,        \* the levels that the user writes
  Unset          \* a setting that is not in the file

ASSUME StartupAssumption ==
  /\ PortSpace \in Nat /\ DefaultPort \in Nat \ {0} /\ DefaultPort < PortSpace
  /\ Ports \subseteq Nat /\ Unset \notin Nat
  /\ Info \in Levels /\ Unset \notin Levels

VARIABLES
  file,        \* what is on the disk
  locked,      \* another program keeps everyone from opening the file
  pc,          \* where run_main is, or "off": there is no process
  port,        \* settings.listen_port
  level,       \* CURRENT_LOG_LEVEL
  listening,   \* the port the server listens on, or Unset
  got,         \* history: what this process read
  openable,    \* history: the file could be opened in all of the life of this process
  saved        \* history: the settings of the process that wrote the file, or Unset

diskVars == <<file, locked>>
processVars == <<pc, port, level, listening>>
vars == <<diskVars, processVars, got, openable, saved>>

\* A file that parses sets some things, any other kind none.
Whole(p, l) == [kind |-> "whole", port |-> p, level |-> l]
Other(kind) == [kind |-> kind, port |-> Unset, level |-> Unset]

Versions == {Whole(p, l) : p \in Ports \cup {DefaultPort, Unset}, l \in Levels \cup {Unset}}
Absent == Other("absent")
Empty == Other("empty")
Garbage == Other("garbage")        \* it does not parse, as an empty one
Files == {Absent, Empty, Garbage} \cup Versions
Nothing == Other("nothing")        \* not read yet

Settings == [port : Nat, level : Levels]
Defaults == [port |-> DefaultPort, level |-> Info]
InForce == [port |-> port, level |-> level]

\* The settings after a file was read: find() leaves what is not there as it is.
SettingsOf(version) ==
  [port |-> IF version.port = Unset THEN DefaultPort ELSE version.port,
   level |-> IF version.level = Unset THEN Info ELSE version.level]

\* SaveToFile writes what the code says, not what is in force.
SavedFile == Whole(DefaultPort, Info)

CanOpen == file # Absent /\ ~locked

Init ==
  /\ file \in Files
  /\ locked \in BOOLEAN
  /\ file = Absent => ~locked
  /\ pc = "off"
  /\ port = DefaultPort /\ level = Info
  /\ listening = Unset
  /\ got = Nothing /\ openable = TRUE /\ saved = Unset

-----------------------------------------------------------------------------
(* The thread of the tracker.                                              *)

\* DllMain: a new process has new memory, and the thread runs, or was not made, and
\* nobody is told: CreateThread fails with NULL, not with INVALID_HANDLE_VALUE.
Attach ==
  /\ pc = "off"
  /\ pc' \in {"load", "no thread"}
  /\ port' = DefaultPort /\ level' = Info
  /\ got' = Nothing /\ openable' = CanOpen
  /\ UNCHANGED <<diskVars, listening, saved>>

\* LoadSettings: the stream is opened.
Open ==
  /\ pc = "load"
  /\ pc' = IF CanOpen THEN "read" ELSE "save"
  /\ UNCHANGED <<diskVars, port, level, listening, got, openable, saved>>

\* Mutant: what comes before the fault is applied.
ReadAsFarAs ==
  /\ pc = "read"
  /\ pc' = "mem"
  /\ got' = file
  /\ IF file \in Versions
     THEN port' = SettingsOf(file).port /\ level' = SettingsOf(file).level
     ELSE port' \in Ports /\ UNCHANGED level
  /\ UNCHANGED <<diskVars, listening, openable, saved>>

\* Mutant: a file that does not parse is written anew.
ReadAndRepair ==
  /\ pc = "read"
  /\ pc' = IF file \in Versions THEN "mem" ELSE "save"
  /\ got' = file
  /\ IF file \in Versions
     THEN port' = SettingsOf(file).port /\ level' = SettingsOf(file).level
     ELSE UNCHANGED <<port, level>>
  /\ UNCHANGED <<diskVars, listening, openable, saved>>

\* It is read, parsed and applied; what does not parse is left alone.
Read ==
  /\ pc = "read"
  /\ pc' = "mem"
  /\ got' = file
  /\ IF file \in Versions
     THEN port' = SettingsOf(file).port /\ level' = SettingsOf(file).level
     ELSE UNCHANGED <<port, level>>
  /\ UNCHANGED <<diskVars, listening, openable, saved>>

\* Mutant: the file is waited for.
TruncateWaits ==
  /\ pc = "save" /\ ~locked
  /\ file' = Empty /\ pc' = "write" /\ saved' = Unset
  /\ UNCHANGED <<locked, port, level, listening, got, openable>>

\* SaveToFile: opening the stream empties the file, or fails.
Truncate ==
  /\ pc = "save"
  /\ IF locked THEN pc' = "mem" /\ UNCHANGED <<file, saved>>
     ELSE file' = Empty /\ pc' = "write" /\ saved' = Unset
  /\ UNCHANGED <<locked, port, level, listening, got, openable>>

\* The text is written when the stream is closed, over what the user wrote meanwhile.
Write ==
  /\ pc = "write"
  /\ pc' = "mem"
  /\ file' \in {SavedFile} \cup (IF file = Empty THEN {} ELSE {Garbage})
  /\ saved' = IF file' = SavedFile THEN InForce ELSE Unset
  /\ UNCHANGED <<locked, port, level, listening, got, openable>>

\* Mem_Initialize.
Initialize ==
  /\ pc = "mem"
  /\ pc' = "listen"
  /\ UNCHANGED <<diskVars, port, level, listening, got, openable, saved>>

\* Mutant: the port is not cut.
ListenWide ==
  /\ pc = "listen"
  /\ pc' = "served" /\ listening' = port
  /\ UNCHANGED <<diskVars, port, level, got, openable, saved>>

\* Net_StartListening: listen() takes the low 16 bits, or throws and the thread ends.
Listen ==
  /\ pc = "listen"
  /\ \/ pc' = "served" /\ listening' = port % PortSpace
     \/ pc' = "ended" /\ UNCHANGED listening
  /\ UNCHANGED <<diskVars, port, level, got, openable, saved>>

-----------------------------------------------------------------------------
(* The others.                                                             *)

\* The game ends, or is killed: what was not written is lost.
Exit ==
  /\ pc # "off"
  /\ pc' = "off"
  /\ listening' = Unset
  /\ UNCHANGED <<diskVars, port, level, got, openable, saved>>

\* The file is open in this process: it can be written by others, not taken away.
Opened == pc \in {"read", "write"}

\* The user, or his editor, writes the file: well, badly, or half way.
Edit ==
  /\ ~locked
  /\ file' \in Files \ {Absent}
  /\ saved' = Unset
  /\ openable' = (openable /\ file # Absent)
  /\ UNCHANGED <<locked, processVars, got>>

Delete ==
  /\ ~locked /\ ~Opened /\ file # Absent
  /\ file' = Absent
  /\ saved' = Unset /\ openable' = FALSE
  /\ UNCHANGED <<locked, processVars, got>>

\* Another program opens the file for itself, and closes it.
Lock ==
  /\ ~locked /\ ~Opened /\ file # Absent
  /\ locked' = TRUE
  /\ openable' = FALSE
  /\ UNCHANGED <<file, processVars, got, saved>>

Unlock ==
  /\ locked
  /\ locked' = FALSE
  /\ UNCHANGED <<file, processVars, got, openable, saved>>

RunMain == Open \/ Read \/ Truncate \/ Write \/ Initialize \/ Listen

Next == RunMain \/ Attach \/ Exit \/ Edit \/ Delete \/ Lock \/ Unlock

Spec == Init /\ [][Next]_vars

\* The thread runs; it is not promised that anyone unlocks the file.
FairSpec == Spec /\ WF_vars(RunMain)

-----------------------------------------------------------------------------

\* Where the settings are those that the process keeps.
Loaded == pc \in {"mem", "listen", "served", "ended"}

\* Types: the port listened on is one of 16 bits.
TypeOK ==
  /\ file \in Files
  /\ locked \in BOOLEAN
  /\ pc \in {"off", "no thread", "load", "read", "save", "write", "mem", "listen", "served", "ended"}
  /\ InForce \in Settings
  /\ listening \in (0 .. PortSpace - 1) \cup {Unset}
  /\ got \in Files \cup {Nothing}
  /\ openable \in BOOLEAN
  /\ saved \in Settings \cup {Unset}

\* A process runs with the settings of one whole file that it read, or with the
\* defaults: whatever crash, edit or lock there was, never with a part of one.  The start
\* that finds the file the program wrote runs with the settings of the start that wrote
\* it: what SaveToFile writes are the defaults of Settings and of the logger.
OneWholeFile ==
  Loaded =>
    /\ InForce = IF got \in Versions THEN SettingsOf(got) ELSE Defaults
    /\ got = file /\ saved # Unset => InForce = saved

\* The program changes the file of a user, also one that does not parse, only if there
\* was a moment in its life when it could not be opened.
UsersFileKept == [][pc' # pc /\ openable => file' = file]_vars

\* The server listens where the file that was read says, or at the default port; a port
\* that does not fit 16 bits is cut.
ListensWhereRead ==
  pc = "served" =>
    listening = (IF got \in Versions THEN SettingsOf(got).port ELSE DefaultPort) % PortSpace

\* How many steps the thread has yet to make, at most, until it listens.
StepsLeft ==
  CASE pc = "load" -> 5 [] pc \in {"read", "save"} -> 4 [] pc = "write" -> 3
    [] pc = "mem" -> 2 [] pc = "listen" -> 1 [] OTHER -> 0

\* No one else moves the thread or turns it back: it is a step nearer to listening after each
\* of its own steps, and after those of the others it is where it was or its process is
\* another one.
StartAdvances ==
  [][/\ RunMain => StepsLeft' < StepsLeft
     /\ ~RunMain => pc' = pc \/ pc = "off" \/ pc' = "off"]_vars

\* A process that is not ended gets to its listening, whoever has the file.
StartEnds == pc = "load" ~> pc \in {"served", "ended", "off"}

-----------------------------------------------------------------------------
(* The inductive invariant behind the properties above.                    *)

\* Until the file was read the settings are those that new memory holds.
BeforeReading ==
  pc \in {"load", "read", "save", "write"} => InForce = Defaults /\ got = Nothing

\* What is remembered of the writer is what the file says.
SavedIsKept == saved # Unset => file = SavedFile /\ saved = Defaults

\* The history tells whether this process could open the file all along, and then it
\* does not come to writing it.
OpenableInv ==
  /\ locked => file # Absent
  /\ openable /\ pc # "off" => CanOpen /\ pc \notin {"save", "write"}

\* The server is where the settings say, cut to a port.
ListeningInv == listening = IF pc = "served" THEN port % PortSpace ELSE Unset

IInv ==
  /\ TypeOK
  /\ OneWholeFile
  /\ BeforeReading
  /\ SavedIsKept
  /\ OpenableInv
  /\ ListeningInv

=============================================================================
