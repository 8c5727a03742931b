------------------------------ MODULE Hooking -------------------------------
(***************************************************************************)
(* mem.cpp: how the tracker's own thread, in Mem_Initialize, redirects two *)
(* functions of the running game to its callbacks, while the game's        *)
(* threads call these functions.                                           *)
(*                                                                         *)
(* Hook::Set overwrites the first five bytes of a function with a jump to  *)
(* a trampoline; the trampoline jumps to the callback.  The callback ends  *)
(* by calling the "continue" pointer, which leads to a copy of the five    *)
(* bytes in the trampoline and from there to the rest of the function.     *)
(* The bytes are written with memset and memcpy and nothing stops the      *)
(* threads of the game, so the model lets a thread execute whatever mixture*)
(* of old and new bytes it meets.                                          *)
(*                                                                         *)
(* Both signatures (mem.cpp:15, 35) begin with an instruction of three     *)
(* bytes and two of one byte.                                              *)
(***************************************************************************)
EXTENDS Naturals, FiniteSets

CONSTANTS
  Threads,    \* threads of the game that call the hooked functions
  MaxCalls    \* bound: calls that a thread makes

ASSUME MaxCallsAssumption == MaxCalls \in Nat

Hooked == {"ApplyDmg", "SetAnimation"}
Patterns == Hooked \cup {"WorldToMap"}

Bytes == 0..4
Displaced == {0, 3, 4}                             \* where an instruction begins
Length(o) == IF o = 0 THEN 3 ELSE 1                \* its length
Span(o) == {b \in Bytes : o <= b /\ b < o + Length(o)}

VARIABLES
  initPc,        \* where the tracker's thread is in Mem_Initialize
  target,        \* the function it is hooking
  found,         \* the signatures that FindPattern finds in this game
  code,          \* per hooked function: the state of each of its first bytes
  trampoline,    \* per hooked function: "none", "raw" (allocated) or "built"
  continueSet,   \* the hooked functions whose ...Continue pointer is set
  converter,     \* WORLD_TO_MAP_FUNC_PTR: "null" or "set"
  pc,            \* per thread: where it is in its call
  fn,            \* per thread: the function it calls
  off,           \* per thread: the byte of the prologue it is about to execute
  ran,           \* per thread: the displaced instructions this call has executed
  reports,       \* per thread: how often this call has entered the callback
  calls,         \* per thread: how many calls it has begun
  hookedAtEntry, \* history: per thread, the jump was complete when the call began
  settled,       \* history: per thread, Mem_Initialize was done when the call began
  overlapped     \* history: per thread, the patch was under way during the prologue

initVars == <<initPc, target, found, code, trampoline, continueSet, converter>>
callVars == <<pc, fn, off, ran, reports, calls, hookedAtEntry, settled, overlapped>>
vars == <<initVars, callVars>>

Init ==
  /\ initPc = "data"
  /\ target = "ApplyDmg"
  /\ found \in SUBSET Patterns
  /\ code = [f \in Hooked |-> [b \in Bytes |-> "old"]]
  /\ trampoline = [f \in Hooked |-> "none"]
  /\ continueSet = {}
  /\ converter = "null"
  /\ pc = [t \in Threads |-> "game"]
  /\ fn = [t \in Threads |-> "ApplyDmg"]
  /\ off = [t \in Threads |-> 0]
  /\ ran = [t \in Threads |-> {}]
  /\ reports = [t \in Threads |-> 0]
  /\ calls = [t \in Threads |-> 0]
  /\ hookedAtEntry = [t \in Threads |-> FALSE]
  /\ settled = [t \in Threads |-> FALSE]
  /\ overlapped = [t \in Threads |-> FALSE]

\* All the bytes of f are in state s; none of them is.
All(f, s) == \A b \in Bytes : code[f][b] = s
None(f, s) == \A b \in Bytes : code[f][b] # s

\* Hook::Set is overwriting f.
Patching(f) == target = f /\ initPc \in {"nops", "jump"}

-----------------------------------------------------------------------------
(* Mem_Initialize, run by the tracker's thread.                            *)

\* The six data pointers.  Every reader of the game's structures checks them.
FindData ==
  /\ initPc = "data"
  /\ initPc' = "find"
  /\ UNCHANGED <<target, found, code, trampoline, continueSet, converter, callVars>>

\* Mem_Initialize is through with a function and goes on to the next.
NextTarget ==
  IF target = "ApplyDmg"
  THEN target' = "SetAnimation" /\ initPc' = "find"
  ELSE UNCHANGED target /\ initPc' = "converter"

FindTarget ==
  /\ initPc = "find"
  /\ target \in found
  /\ initPc' = "alloc"
  /\ UNCHANGED <<target, found, code, trampoline, continueSet, converter, callVars>>

TargetMissing ==
  /\ initPc = "find"
  /\ target \notin found
  /\ NextTarget
  /\ UNCHANGED <<found, code, trampoline, continueSet, converter, callVars>>

\* VirtualAlloc is tried one page further each time until it succeeds.
Allocate ==
  /\ initPc = "alloc"
  /\ trampoline' = [trampoline EXCEPT ![target] = "raw"]
  /\ initPc' = "protect"
  /\ UNCHANGED <<target, found, code, continueSet, converter, callVars>>

Unprotect ==
  /\ initPc = "protect"
  /\ initPc' = "build"
  /\ UNCHANGED <<target, found, code, trampoline, continueSet, converter, callVars>>

\* VirtualProtect fails: the function stays as it is.
UnprotectFails ==
  /\ initPc = "protect"
  /\ NextTarget
  /\ UNCHANGED <<found, code, trampoline, continueSet, converter, callVars>>

\* The jump to the callback, the displaced bytes, the jump back.
Build ==
  /\ initPc = "build"
  /\ trampoline' = [trampoline EXCEPT ![target] = "built"]
  /\ initPc' = "publish"
  /\ UNCHANGED <<target, found, code, continueSet, converter, callVars>>

\* Mutant of SetContinue: out_func is not written.
ContinueForgotten ==
  /\ initPc = "publish"
  /\ initPc' = "nops"
  /\ UNCHANGED <<target, found, code, trampoline, continueSet, converter, callVars>>

\* *out_func = ...
SetContinue ==
  /\ initPc = "publish"
  /\ continueSet' = continueSet \cup {target}
  /\ initPc' = "nops"
  /\ UNCHANGED <<target, found, code, trampoline, converter, callVars>>

\* A thread is in the prologue of the function that is being overwritten.
MarkOverlap ==
  overlapped' = [t \in Threads |->
    overlapped[t] \/ (pc[t] = "prologue" /\ fn[t] = target)]

\* Some more of the bytes in state s get state s2; how many at a time, and in
\* which order, is the compiler's choice.
Overwrite(s, s2) ==
  /\ \E B \in SUBSET {b \in Bytes : code[target][b] = s} \ {{}} :
       code' = [code EXCEPT ![target] = [b \in Bytes |-> IF b \in B THEN s2 ELSE @[b]]]
  /\ MarkOverlap
  /\ UNCHANGED <<found, trampoline, continueSet, converter,
                 pc, fn, off, ran, reports, calls, hookedAtEntry, settled>>

\* No byte in state s is left.
NoneLeft(s) == \A b \in Bytes : code'[target][b] # s

\* memset(start, 0x90, size)
WriteNops ==
  /\ initPc = "nops"
  /\ Overwrite("old", "nop")
  /\ initPc' = IF NoneLeft("old") THEN "jump" ELSE "nops"
  /\ UNCHANGED target

\* memcpy(start, jmp_instruction, 5)
WriteJump ==
  /\ initPc = "jump"
  /\ Overwrite("nop", "jmp")
  /\ IF NoneLeft("nop") THEN NextTarget ELSE UNCHANGED <<target, initPc>>

\* Mutant of FindConverter: the test `if(!WORLD_TO_MAP_FUNC_PTR)` without its `!`.
ConverterNotSought ==
  /\ initPc = "converter"
  /\ initPc' = "done"
  /\ UNCHANGED <<target, found, code, trampoline, continueSet, converter, callVars>>

\* WORLD_TO_MAP_FUNC_PTR is looked for last.
FindConverter ==
  /\ initPc = "converter"
  /\ converter' = IF "WorldToMap" \in found THEN "set" ELSE "null"
  /\ initPc' = "done"
  /\ UNCHANGED <<target, found, code, trampoline, continueSet, callVars>>

Initialize ==
  \/ FindData \/ FindTarget \/ TargetMissing \/ Allocate \/ Unprotect \/ UnprotectFails
  \/ Build \/ SetContinue \/ WriteNops \/ WriteJump \/ FindConverter

-----------------------------------------------------------------------------
(* A call of a hooked function, run by a thread t of the game.             *)

Goes(t, p) == pc' = [pc EXCEPT ![t] = p]

Enter(t, f) ==
  /\ pc[t] = "game"
  /\ calls[t] < MaxCalls
  /\ Goes(t, "prologue")
  /\ fn' = [fn EXCEPT ![t] = f]
  /\ off' = [off EXCEPT ![t] = 0]
  /\ ran' = [ran EXCEPT ![t] = {}]
  /\ reports' = [reports EXCEPT ![t] = 0]
  /\ calls' = [calls EXCEPT ![t] = @ + 1]
  /\ hookedAtEntry' = [hookedAtEntry EXCEPT ![t] = All(f, "jmp")]
  /\ settled' = [settled EXCEPT ![t] = (initPc = "done")]
  /\ overlapped' = [overlapped EXCEPT ![t] = Patching(f)]
  /\ UNCHANGED initVars

\* What the bytes at t's place are now.
Are(t, B, s) == \A b \in B : code[fn[t]][b] = s

InPrologue(t) == pc[t] = "prologue" /\ off[t] \in Bytes
OldAhead(t) == off[t] \in Displaced /\ Are(t, Span(off[t]), "old")
NopAhead(t) == Are(t, {off[t]}, "nop")
JumpAhead(t) == off[t] = 0 /\ Are(t, Bytes, "jmp")

\* One of the function's own instructions.
ExecuteOld(t) ==
  /\ InPrologue(t)
  /\ OldAhead(t)
  /\ ran' = [ran EXCEPT ![t] = @ \cup {off[t]}]
  /\ off' = [off EXCEPT ![t] = @ + Length(@)]
  /\ UNCHANGED <<initVars, pc, fn, reports, calls, hookedAtEntry, settled, overlapped>>

ExecuteNop(t) ==
  /\ InPrologue(t)
  /\ NopAhead(t)
  /\ off' = [off EXCEPT ![t] = @ + 1]
  /\ UNCHANGED <<initVars, pc, fn, ran, reports, calls, hookedAtEntry, settled, overlapped>>

\* The complete jump.  It leads to the callback if the trampoline is there.
ExecuteJump(t) ==
  /\ InPrologue(t)
  /\ JumpAhead(t)
  /\ IF trampoline[fn[t]] = "built"
     THEN /\ Goes(t, "callback")
          /\ reports' = [reports EXCEPT ![t] = @ + 1]
     ELSE Goes(t, "torn") /\ UNCHANGED reports
  /\ UNCHANGED <<initVars, fn, off, ran, calls, hookedAtEntry, settled, overlapped>>

\* A mixture of old and new bytes, or the inside of an instruction.
ExecuteTorn(t) ==
  /\ InPrologue(t)
  /\ ~OldAhead(t) /\ ~NopAhead(t) /\ ~JumpAhead(t)
  /\ Goes(t, "torn")
  /\ UNCHANGED <<initVars, fn, off, ran, reports, calls, hookedAtEntry, settled, overlapped>>

\* The rest of the function begins.
LeavePrologue(t) ==
  /\ pc[t] = "prologue"
  /\ off[t] = 5
  /\ Goes(t, "body")
  /\ UNCHANGED <<initVars, fn, off, ran, reports, calls, hookedAtEntry, settled, overlapped>>

\* The callback has something to report, and FillFromInstance asks for a map position ...
CallbackFills(t) ==
  /\ pc[t] = "callback"
  /\ Goes(t, "convert")
  /\ UNCHANGED <<initVars, fn, off, ran, reports, calls, hookedAtEntry, settled, overlapped>>

\* ... or it has not.
CallbackPasses(t) ==
  /\ pc[t] = "callback"
  /\ Goes(t, "continue")
  /\ UNCHANGED <<initVars, fn, off, ran, reports, calls, hookedAtEntry, settled, overlapped>>

\* Game_WorldToMap calls WORLD_TO_MAP_FUNC_PTR, without asking whether it is set.
Convert(t) ==
  /\ pc[t] = "convert"
  /\ Goes(t, IF converter = "set" THEN "continue" ELSE "null call")
  /\ UNCHANGED <<initVars, fn, off, ran, reports, calls, hookedAtEntry, settled, overlapped>>

\* Mutant of Continue: the pointer leads past the copy of the displaced bytes.
ContinuePastCopy(t) ==
  /\ pc[t] = "continue"
  /\ Goes(t, IF fn[t] \in continueSet THEN "body" ELSE "null call")
  /\ UNCHANGED <<initVars, fn, off, ran, reports, calls, hookedAtEntry, settled, overlapped>>

\* Mutant of Continue: the pointer is the address of the hooked function.
ContinueAtStart(t) ==
  /\ pc[t] = "continue"
  /\ Goes(t, "prologue")
  /\ UNCHANGED <<initVars, fn, off, ran, reports, calls, hookedAtEntry, settled, overlapped>>

\* Mutant of Continue: the same, as a call of its own, which counts its reports anew.
ContinueAnew(t) ==
  /\ pc[t] = "continue"
  /\ Goes(t, "prologue")
  /\ reports' = [reports EXCEPT ![t] = 0]
  /\ UNCHANGED <<initVars, fn, off, ran, calls, hookedAtEntry, settled, overlapped>>

\* The callback's last statement: the copy of the displaced bytes, the jump to
\* the rest of the function.
Continue(t) ==
  /\ pc[t] = "continue"
  /\ IF fn[t] \in continueSet
     THEN /\ Goes(t, "body")
          /\ ran' = [ran EXCEPT ![t] = @ \cup Displaced]
     ELSE Goes(t, "null call") /\ UNCHANGED ran
  /\ UNCHANGED <<initVars, fn, off, reports, calls, hookedAtEntry, settled, overlapped>>

\* The rest of the function returns to the game, if its prologue was executed.
Return(t) ==
  /\ pc[t] = "body"
  /\ Goes(t, IF ran[t] = Displaced THEN "game" ELSE "torn")
  /\ UNCHANGED <<initVars, fn, off, ran, reports, calls, hookedAtEntry, settled, overlapped>>

Step(t) ==
  \/ ExecuteOld(t) \/ ExecuteNop(t) \/ ExecuteJump(t) \/ ExecuteTorn(t)
  \/ LeavePrologue(t) \/ CallbackFills(t) \/ CallbackPasses(t) \/ Convert(t)
  \/ Continue(t) \/ Return(t)

Next ==
  \/ Initialize
  \/ \E t \in Threads : Step(t) \/ \E f \in Hooked : Enter(t, f)

Spec == Init /\ [][Next]_vars

\* A processor goes on executing a call.  Nothing is assumed of Initialize: the
\* search for a free page may go on for ever.
FairSpec == Spec /\ \A t \in Threads : WF_vars(Step(t))

-----------------------------------------------------------------------------
(* Properties.                                                             *)

TypeOK ==
  /\ initPc \in {"data", "find", "alloc", "protect", "build", "publish", "nops",
                 "jump", "converter", "done"}
  /\ target \in Hooked
  /\ found \subseteq Patterns
  /\ code \in [Hooked -> [Bytes -> {"old", "nop", "jmp"}]]
  /\ trampoline \in [Hooked -> {"none", "raw", "built"}]
  /\ continueSet \subseteq Hooked
  /\ converter \in {"null", "set"}
  /\ pc \in [Threads -> {"game", "prologue", "callback", "convert", "continue",
                         "body", "torn", "null call"}]
  /\ fn \in [Threads -> Hooked]
  /\ off \in [Threads -> 0..5]
  /\ ran \in [Threads -> SUBSET Displaced]
  /\ reports \in [Threads -> 0..1]
  /\ calls \in [Threads -> Nat]
  /\ hookedAtEntry \in [Threads -> BOOLEAN]
  /\ settled \in [Threads -> BOOLEAN]
  /\ overlapped \in [Threads -> BOOLEAN]

(***************************************************************************)
(* A call whose prologue the patch of mem.cpp:192-193 did not overlap runs *)
(* as the game meant it: each displaced instruction before the rest of the *)
(* function, whether in place or in the trampoline; and it is reported     *)
(* once if the function was hooked when it began, otherwise not at all.    *)
(***************************************************************************)
CallsIntact ==
  \A t \in Threads : ~overlapped[t] =>
    /\ pc[t] # "torn"
    /\ pc[t] = "body" => /\ ran[t] = Displaced
                         /\ reports[t] = IF hookedAtEntry[t] THEN 1 ELSE 0

(***************************************************************************)
(* Every call that reaches the callback finds its ...Continue pointer set, *)
(* also one that meets the jump the moment it is complete.                 *)
(***************************************************************************)
ContinueIsSet ==
  \A t \in Threads :
    pc[t] \in {"callback", "convert", "continue"} => fn[t] \in continueSet

(***************************************************************************)
(* Once Mem_Initialize has returned nothing goes wrong any more: the only  *)
(* null call left is that of a WORLD_TO_MAP_FUNC_PTR (mem.cpp:426) this    *)
(* game does not have.  Before that, with the hooks live since lines 261   *)
(* and 269 and the pointer set at line 273, it is different.               *)
(***************************************************************************)
SettledCallsSafe ==
  \A t \in Threads : settled[t] =>
    /\ pc[t] # "torn"
    /\ pc[t] = "null call" => "WorldToMap" \notin found

(***************************************************************************)
(* Every call comes back to the game, or ends in one of the two accidents  *)
(* above: no call runs in circles between the function and the trampoline. *)
(***************************************************************************)
CallsEnd ==
  \A t \in Threads : pc[t] = "prologue" ~> pc[t] \in {"game", "torn", "null call"}

-----------------------------------------------------------------------------
(* The inductive invariant behind the safety properties.                   *)

\* f is as the game has it, or completely redirected.
Whole(f) == All(f, "old") \/ All(f, "jmp")

\* How far Mem_Initialize is with the bytes of the two functions.
PatchInv ==
  /\ \A f \in Hooked : Patching(f) \/ Whole(f)
  /\ \A f \in Hooked :
       ~All(f, "old") => trampoline[f] = "built" /\ f \in continueSet
  /\ initPc \in {"data", "find", "alloc", "protect", "build", "publish"} => All(target, "old")
  /\ initPc \in {"publish", "nops", "jump"} => trampoline[target] = "built"
  /\ initPc \in {"nops", "jump"} => target \in continueSet
  /\ initPc = "nops" => None(target, "jmp")
  /\ initPc = "jump" => None(target, "old")
  /\ target = "ApplyDmg" => All("SetAnimation", "old") /\ initPc \notin {"converter", "done"}
  /\ initPc = "done" => (converter = "set" <=> "WorldToMap" \in found)

\* What a call has done when it is where it is.  A call that the patch did not
\* overlap sees its function in one piece, the way it was when the call began.
CallInv(t) ==
  /\ pc[t] = "prologue" => reports[t] = 0
  /\ pc[t] \in {"callback", "convert", "continue"} => reports[t] = 1 /\ fn[t] \in continueSet
  /\ settled[t] => initPc = "done" /\ ~overlapped[t]
  /\ settled[t] /\ pc[t] = "null call" => "WorldToMap" \notin found
  /\ ~overlapped[t] =>
       /\ pc[t] # "torn"
       /\ pc[t] = "prologue" =>
            /\ IF hookedAtEntry[t] THEN All(fn[t], "jmp") /\ off[t] = 0
                                  ELSE All(fn[t], "old")
            /\ off[t] \in Displaced \cup {5}
            /\ ran[t] = {o \in Displaced : o < off[t]}
       /\ pc[t] \in {"callback", "convert", "continue"} => hookedAtEntry[t]
       /\ pc[t] = "body" => /\ ran[t] = Displaced
                            /\ reports[t] = IF hookedAtEntry[t] THEN 1 ELSE 0

IInv ==
  /\ TypeOK
  /\ PatchInv
  /\ \A t \in Threads : CallInv(t)

-----------------------------------------------------------------------------
(* What the invariant says of the end of a call.                           *)

\* How many steps the call of t makes at most from here: in the prologue at most one for
\* every byte, then by the callback to the rest of the function.
StepsLeft(t) ==
  CASE pc[t] = "prologue" -> 10 - off[t]
    [] pc[t] = "callback" -> 4
    [] pc[t] = "convert"  -> 3
    [] pc[t] = "continue" -> 2
    [] pc[t] = "body"     -> 1
    [] OTHER              -> 0

(***************************************************************************)
(* No call runs in circles, whatever mixture of bytes it meets and         *)
(* whenever Mem_Initialize goes on: its own steps bring it nearer to its   *)
(* end, and those of the others leave it where it is.                      *)
(***************************************************************************)
CallsAdvance ==
  [][\A t \in Threads :
       /\ Step(t) => StepsLeft(t)' < StepsLeft(t)
       /\ StepsLeft(t)' # StepsLeft(t) => Step(t) \/ pc[t] = "game"]_vars

=============================================================================
