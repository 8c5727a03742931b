---------------------------- MODULE StartupProofs ----------------------------
(***************************************************************************)
(* Startup.tla for any set of ports and levels: IInv is inductive, a start *)
(* runs with one whole file or with the defaults, it listens where that    *)
(* file says, and a file that could be opened all along is not written.    *)
(***************************************************************************)
EXTENDS Startup, TLAPS

(***************************************************************************)
(* The kinds of files that are told apart are different.                   *)
(***************************************************************************)
LEMMA Kinds ==
  /\ Absent \in Files /\ Empty \in Files /\ Garbage \in Files /\ SavedFile \in Files
  /\ Nothing \notin Files
  /\ Absent \notin Versions /\ Empty \notin Versions /\ Garbage \notin Versions
  /\ Empty # Absent /\ Garbage # Absent
  /\ SavedFile \in Versions
<1>1. \A v \in Versions : v.kind = "whole"
  BY DEF Versions, Whole
<1>2. /\ Absent.kind = "absent" /\ Empty.kind = "empty" /\ Garbage.kind = "garbage"
      /\ Nothing.kind = "nothing"
  BY DEF Absent, Empty, Garbage, Nothing, Other
<1>3. SavedFile \in Versions
  BY StartupAssumption DEF SavedFile, Versions
<1> QED
  BY <1>1, <1>2, <1>3 DEF Files

(***************************************************************************)
(* The settings of a file that parses are settings, the program's own file *)
(* gives the defaults.                                                     *)
(***************************************************************************)
LEMMA SettingsOfVersions ==
  /\ \A v \in Versions : SettingsOf(v) \in Settings
  /\ SettingsOf(SavedFile) = Defaults
  /\ Defaults \in Settings
<1>1. Defaults \in Settings
  BY StartupAssumption DEF Defaults, Settings
<1>2. SettingsOf(SavedFile) = Defaults
  BY StartupAssumption DEF SettingsOf, SavedFile, Whole, Defaults
<1>3. ASSUME NEW v \in Versions PROVE SettingsOf(v) \in Settings
  <2>1. PICK p \in Ports \cup {DefaultPort, Unset}, l \in Levels \cup {Unset} : v = Whole(p, l)
    BY DEF Versions
  <2>2. v.port = p /\ v.level = l
    BY <2>1 DEF Whole
  <2> QED
    BY <2>2, StartupAssumption DEF SettingsOf, Settings
<1> QED
  BY <1>1, <1>2, <1>3

-----------------------------------------------------------------------------
(* The steps of the thread.                                                *)

(***************************************************************************)
(* A step that leaves the settings, what was read and what was saved alone *)
(* keeps the one whole file, if it loads nothing.                          *)
(***************************************************************************)
LEMMA WholeFileFrame ==
  ASSUME OneWholeFile, UNCHANGED <<port, level, got>>, Loaded' => Loaded,
         \/ UNCHANGED <<file, saved>>
         \/ saved' = Unset
  PROVE  OneWholeFile'
BY DEF OneWholeFile, Loaded, InForce

(***************************************************************************)
(* LoadSettings opens the file or goes to writing it.                      *)
(***************************************************************************)
LEMMA OpenKeeps == IInv /\ Open => IInv'
<1> SUFFICES ASSUME IInv, Open PROVE IInv'
  OBVIOUS
<1>1. TypeOK'
  BY DEF IInv, TypeOK, Open, InForce, diskVars
<1>2. OneWholeFile'
  BY WholeFileFrame DEF IInv, Open, Loaded, diskVars
<1>3. BeforeReading' /\ SavedIsKept' /\ ListeningInv'
  BY DEF IInv, BeforeReading, SavedIsKept, ListeningInv, Open, InForce, diskVars
<1>4. OpenableInv'
  BY DEF IInv, OpenableInv, CanOpen, Open, diskVars
<1> QED
  BY <1>1, <1>2, <1>3, <1>4 DEF IInv

(***************************************************************************)
(* What is read is the whole of one file, and what does not parse changes  *)
(* nothing of the defaults.                                                *)
(***************************************************************************)
LEMMA ReadKeeps == IInv /\ Read => IInv'
<1> SUFFICES ASSUME IInv, Read PROVE IInv'
  OBVIOUS
<1>0. /\ InForce = Defaults
      /\ file \in Files
      /\ saved # Unset => file = SavedFile /\ saved = Defaults
      /\ got' = file /\ pc' = "mem" /\ pc = "read"
      /\ UNCHANGED <<file, locked, listening, openable, saved>>
  BY DEF IInv, BeforeReading, SavedIsKept, TypeOK, Read, diskVars
<1>1. InForce' = IF file \in Versions THEN SettingsOf(file) ELSE Defaults
  <2>1. CASE file \in Versions
    BY <2>1 DEF Read, InForce, SettingsOf
  <2>2. CASE file \notin Versions
    BY <1>0, <2>2 DEF Read, InForce
  <2> QED
    BY <2>1, <2>2
<1>2. TypeOK'
  BY <1>0, <1>1, SettingsOfVersions DEF IInv, TypeOK
<1>3. OneWholeFile'
  <2>1. saved' # Unset => InForce' = saved'
    BY <1>0, <1>1, Kinds, SettingsOfVersions
  <2> QED
    BY <1>0, <1>1, <2>1 DEF OneWholeFile
<1>4. BeforeReading' /\ SavedIsKept'
  BY <1>0 DEF BeforeReading, SavedIsKept, Defaults
<1>5. OpenableInv'
  BY <1>0 DEF IInv, OpenableInv, CanOpen
<1>6. ListeningInv'
  BY <1>0 DEF IInv, ListeningInv
<1> QED
  BY <1>2, <1>3, <1>4, <1>5, <1>6 DEF IInv

(***************************************************************************)
(* SaveToFile empties a file only of a process that could not open it.     *)
(***************************************************************************)
LEMMA TruncateKeeps == IInv /\ Truncate => IInv'
<1> SUFFICES ASSUME IInv, Truncate PROVE IInv'
  OBVIOUS
<1>0. /\ pc = "save" /\ ~openable /\ InForce = Defaults /\ got = Nothing
      /\ UNCHANGED <<locked, port, level, listening, got, openable>>
      /\ saved # Unset => file = SavedFile /\ saved = Defaults
      /\ \/ locked /\ pc' = "mem" /\ UNCHANGED <<file, saved>>
         \/ ~locked /\ file' = Empty /\ pc' = "write" /\ saved' = Unset
  BY DEF IInv, OpenableInv, BeforeReading, SavedIsKept, Truncate
<1>1. TypeOK'
  BY <1>0, Kinds DEF IInv, TypeOK, InForce
<1>2. OneWholeFile'
  <2>1. got' = Nothing /\ InForce' = Defaults /\ Nothing \notin Versions
    BY <1>0, Kinds DEF InForce, Files
  <2>2. saved' # Unset => saved' = Defaults
    BY <1>0
  <2> QED
    BY <2>1, <2>2 DEF OneWholeFile
<1>3. BeforeReading' /\ SavedIsKept'
  BY <1>0 DEF BeforeReading, SavedIsKept, InForce, Defaults
<1>4. OpenableInv'
  BY <1>0 DEF IInv, OpenableInv
<1>5. ListeningInv'
  BY <1>0 DEF IInv, ListeningInv
<1> QED
  BY <1>1, <1>2, <1>3, <1>4, <1>5 DEF IInv

(***************************************************************************)
(* What is written are the defaults, which are what this process runs with.*)
(***************************************************************************)
LEMMA WriteKeeps == IInv /\ Write => IInv'
<1> SUFFICES ASSUME IInv, Write PROVE IInv'
  OBVIOUS
<1>0. /\ pc = "write" /\ pc' = "mem" /\ ~openable /\ InForce = Defaults /\ got = Nothing
      /\ UNCHANGED <<locked, port, level, listening, got, openable>>
      /\ file' \in {SavedFile, Garbage}
      /\ saved' # Unset => file' = SavedFile /\ saved' = Defaults
  BY DEF IInv, OpenableInv, BeforeReading, SavedIsKept, Write
<1>1. TypeOK'
  <2>1. saved' \in Settings \cup {Unset}
    BY <1>0, SettingsOfVersions
  <2> QED
    BY <1>0, <2>1, Kinds DEF IInv, TypeOK, InForce
<1>2. OneWholeFile'
  <2>1. got' = Nothing /\ InForce' = Defaults /\ Nothing \notin Versions
    BY <1>0, Kinds DEF InForce, Files
  <2> QED
    BY <1>0, <2>1 DEF OneWholeFile
<1>3. BeforeReading' /\ SavedIsKept'
  BY <1>0 DEF BeforeReading, SavedIsKept
<1>4. OpenableInv'
  BY <1>0, Kinds DEF IInv, OpenableInv
<1>5. ListeningInv'
  BY <1>0 DEF IInv, ListeningInv
<1> QED
  BY <1>1, <1>2, <1>3, <1>4, <1>5 DEF IInv

(***************************************************************************)
(* Mem_Initialize has nothing to do with the settings.                     *)
(***************************************************************************)
LEMMA InitializeKeeps == IInv /\ Initialize => IInv'
<1> SUFFICES ASSUME IInv, Initialize PROVE IInv'
  OBVIOUS
<1>1. TypeOK'
  BY DEF IInv, TypeOK, Initialize, InForce, diskVars
<1>2. OneWholeFile'
  BY WholeFileFrame DEF IInv, Initialize, Loaded, diskVars
<1>3. BeforeReading' /\ SavedIsKept' /\ ListeningInv' /\ OpenableInv'
  BY DEF IInv, BeforeReading, SavedIsKept, ListeningInv, OpenableInv, CanOpen,
         Initialize, diskVars
<1> QED
  BY <1>1, <1>2, <1>3 DEF IInv

(***************************************************************************)
(* The server listens at the port in force, cut to 16 bits, or not at all. *)
(***************************************************************************)
LEMMA ListenKeeps == IInv /\ Listen => IInv'
<1> SUFFICES ASSUME IInv, Listen PROVE IInv'
  OBVIOUS
<1>1. port \in Nat /\ port % PortSpace \in 0 .. PortSpace - 1
  <2>1. port \in Nat
    BY DEF IInv, TypeOK, InForce, Settings
  <2>2. PortSpace \in Nat \ {0}
    BY StartupAssumption
  <2> QED
    BY <2>1, <2>2
<1>2. TypeOK'
  BY <1>1 DEF IInv, TypeOK, Listen, InForce, diskVars
<1>3. OneWholeFile'
  BY WholeFileFrame DEF IInv, Listen, Loaded, diskVars
<1>4. BeforeReading' /\ SavedIsKept' /\ OpenableInv'
  BY DEF IInv, BeforeReading, SavedIsKept, OpenableInv, CanOpen, Listen, diskVars
<1>5. ListeningInv'
  BY DEF IInv, ListeningInv, Listen
<1> QED
  BY <1>2, <1>3, <1>4, <1>5 DEF IInv

-----------------------------------------------------------------------------
(* The others.                                                             *)

(***************************************************************************)
(* A new process has new memory, and forgets what the last one read.       *)
(***************************************************************************)
LEMMA AttachKeeps == IInv /\ Attach => IInv'
<1> SUFFICES ASSUME IInv, Attach PROVE IInv'
  OBVIOUS
<1>1. InForce' = Defaults /\ got' = Nothing
  BY DEF Attach, InForce, Defaults
<1>2. TypeOK'
  BY <1>1, SettingsOfVersions DEF IInv, TypeOK, Attach, diskVars, CanOpen
<1>3. OneWholeFile'
  BY DEF OneWholeFile, Loaded, Attach
<1>4. BeforeReading' /\ SavedIsKept'
  BY <1>1 DEF IInv, BeforeReading, SavedIsKept, Attach, diskVars, Defaults
<1>5. OpenableInv'
  BY DEF IInv, OpenableInv, CanOpen, Attach, diskVars
<1>6. ListeningInv'
  BY DEF IInv, ListeningInv, Attach
<1> QED
  BY <1>2, <1>3, <1>4, <1>5, <1>6 DEF IInv

(***************************************************************************)
(* The end of the process keeps what is on the disk.                       *)
(***************************************************************************)
LEMMA ExitKeeps == IInv /\ Exit => IInv'
<1> SUFFICES ASSUME IInv, Exit PROVE IInv'
  OBVIOUS
<1>1. TypeOK'
  BY DEF IInv, TypeOK, Exit, InForce, diskVars
<1>2. OneWholeFile' /\ BeforeReading'
  BY DEF OneWholeFile, BeforeReading, Loaded, Exit
<1>3. SavedIsKept' /\ OpenableInv' /\ ListeningInv'
  BY DEF IInv, SavedIsKept, OpenableInv, ListeningInv, Exit, diskVars
<1> QED
  BY <1>1, <1>2, <1>3 DEF IInv

(***************************************************************************)
(* What others do to the file changes nothing in the process, and they are *)
(* recorded where they could have kept it from opening the file.           *)
(***************************************************************************)
LEMMA OthersKeep == IInv /\ (Edit \/ Delete \/ Lock \/ Unlock) => IInv'
<1> SUFFICES ASSUME IInv, Edit \/ Delete \/ Lock \/ Unlock PROVE IInv'
  OBVIOUS
<1>0. /\ UNCHANGED <<pc, port, level, listening, got>>
      /\ saved' = Unset \/ UNCHANGED <<file, saved>>
      /\ file' \in Files /\ locked' \in BOOLEAN /\ openable' \in BOOLEAN
  BY Kinds DEF IInv, TypeOK, Edit, Delete, Lock, Unlock, processVars
<1>1. TypeOK'
  BY <1>0 DEF IInv, TypeOK, InForce
<1>2. OneWholeFile'
  BY <1>0, WholeFileFrame DEF IInv, Loaded
<1>3. BeforeReading' /\ SavedIsKept' /\ ListeningInv'
  BY <1>0 DEF IInv, BeforeReading, SavedIsKept, ListeningInv, InForce, Defaults
<1>4. OpenableInv'
  BY <1>0 DEF IInv, TypeOK, OpenableInv, CanOpen, Edit, Delete, Lock, Unlock
<1> QED
  BY <1>1, <1>2, <1>3, <1>4 DEF IInv

-----------------------------------------------------------------------------
(* Theorems.                                                               *)

(***************************************************************************)
(* IInv holds before the first start.                                      *)
(***************************************************************************)
LEMMA StartupInit == Init => IInv
<1> SUFFICES ASSUME Init PROVE IInv
  OBVIOUS
<1>1. TypeOK
  BY SettingsOfVersions DEF Init, TypeOK, InForce, Defaults
<1> QED
  BY <1>1 DEF Init, IInv, OneWholeFile, Loaded, BeforeReading, SavedIsKept,
              OpenableInv, ListeningInv

(***************************************************************************)
(* Every step of the thread, of the game and of the others keeps IInv.     *)
(***************************************************************************)
LEMMA StartupStep == IInv /\ [Next]_vars => IInv'
<1> SUFFICES ASSUME IInv, [Next]_vars PROVE IInv'
  OBVIOUS
<1>1. CASE UNCHANGED vars
  BY <1>1 DEF vars, diskVars, processVars, IInv, TypeOK, OneWholeFile, Loaded, InForce,
              BeforeReading, SavedIsKept, OpenableInv, CanOpen, ListeningInv
<1>2. CASE Next
  BY <1>2, OpenKeeps, ReadKeeps, TruncateKeeps, WriteKeeps, InitializeKeeps, ListenKeeps,
     AttachKeeps, ExitKeeps, OthersKeep
     DEF Next, RunMain
<1> QED
  BY <1>1, <1>2

(***************************************************************************)
(* The inductive invariant of a start, for any ports and levels.           *)
(***************************************************************************)
THEOREM StartupInvariant == Spec => []IInv
BY StartupInit, StartupStep, PTL DEF Spec

(***************************************************************************)
(* The settings in force stay settings, and the port listened on is a port *)
(* of 16 bits, whatever number the user wrote.                             *)
(***************************************************************************)
THEOREM StartupTypes == Spec => []TypeOK
<1>1. IInv => TypeOK
  BY DEF IInv
<1> QED
  BY <1>1, StartupInvariant, PTL

(***************************************************************************)
(* No crash, edit, deletion or lock makes a process run with a part of a   *)
(* settings file, or with other settings than the start that saved them.   *)
(***************************************************************************)
THEOREM StartsWithWholeFile == Spec => []OneWholeFile
<1>1. IInv => OneWholeFile
  BY DEF IInv
<1> QED
  BY <1>1, StartupInvariant, PTL

(***************************************************************************)
(* The tracker never writes over the file of a user that it could open all *)
(* its life, also not over one that does not parse.                        *)
(***************************************************************************)
THEOREM UsersFileIsKept == Spec => UsersFileKept
<1>1. IInv /\ [Next]_vars => [pc' # pc /\ openable => file' = file]_vars
  <2> SUFFICES ASSUME IInv, Next, pc' # pc, openable PROVE file' = file
    OBVIOUS
  <2>1. ~Truncate /\ ~Write
    BY DEF IInv, OpenableInv, Truncate, Write
  <2>2. ~Edit /\ ~Delete /\ ~Lock /\ ~Unlock
    BY DEF Edit, Delete, Lock, Unlock, processVars
  <2> QED
    BY <2>1, <2>2
       DEF Next, RunMain, Open, Read, Initialize, Listen, Attach, Exit, diskVars
<1> QED
  BY <1>1, StartupInvariant, PTL DEF Spec, UsersFileKept

(***************************************************************************)
(* A tracker that listens does so where the file it read says, or at the   *)
(* default port, as far as 16 bits hold it.                                *)
(***************************************************************************)
THEOREM ListensWhereFileSays == Spec => []ListensWhereRead
<1>1. IInv => ListensWhereRead
  BY DEF IInv, OneWholeFile, ListeningInv, ListensWhereRead, Loaded, InForce, Defaults
<1> QED
  BY <1>1, StartupInvariant, PTL

(***************************************************************************)
(* No start goes in circles: not when the file is locked, missing, broken  *)
(* or edited while it is read and written.                                 *)
(***************************************************************************)
THEOREM StartsAdvance == Spec => StartAdvances
<1>1. [Next]_vars => [/\ RunMain => StepsLeft' < StepsLeft
                      /\ ~RunMain => pc' = pc \/ pc = "off" \/ pc' = "off"]_vars
  <2>1. RunMain => StepsLeft' < StepsLeft
    BY DEF RunMain, Open, Read, Truncate, Write, Initialize, Listen, StepsLeft
  <2>2. Next /\ ~RunMain => pc' = pc \/ pc = "off" \/ pc' = "off"
    BY DEF Next, Attach, Exit, Edit, Delete, Lock, Unlock, processVars
  <2> QED
    BY <2>1, <2>2
<1> QED
  BY <1>1, PTL DEF Spec, StartAdvances

=============================================================================
