---------------------------- MODULE HookingProofs ----------------------------
(***************************************************************************)
(* Proofs about Hooking: for any number of game threads and of calls, a    *)
(* call that the patch does not overlap runs as the game meant it, finds   *)
(* its continue pointer, and after Mem_Initialize nothing goes wrong.      *)
(***************************************************************************)
EXTENDS Hooking, TLAPS

(***************************************************************************)
(* Every step of Mem_Initialize keeps the types.                           *)
(***************************************************************************)
LEMMA InitializeTypes == ASSUME TypeOK, Initialize PROVE TypeOK'
<1> USE DEF TypeOK, initVars, callVars
<1>1. CASE FindData
  BY <1>1 DEF FindData
<1>2. CASE FindTarget
  BY <1>2 DEF FindTarget
<1>3. CASE TargetMissing
  BY <1>3 DEF TargetMissing, NextTarget, Hooked
<1>4. CASE Allocate
  BY <1>4 DEF Allocate
<1>5. CASE Unprotect
  BY <1>5 DEF Unprotect
<1>6. CASE UnprotectFails
  BY <1>6 DEF UnprotectFails, NextTarget, Hooked
<1>7. CASE Build
  BY <1>7 DEF Build
<1>8. CASE SetContinue
  BY <1>8 DEF SetContinue
<1>9. ASSUME NEW s, NEW s2 \in {"old", "nop", "jmp"}, Overwrite(s, s2)
      PROVE  /\ code' \in [Hooked -> [Bytes -> {"old", "nop", "jmp"}]]
             /\ overlapped' \in [Threads -> BOOLEAN]
  <2>1. PICK B : code' = [code EXCEPT ![target] = [b \in Bytes |-> IF b \in B THEN s2 ELSE @[b]]]
    BY <1>9 DEF Overwrite
  <2>2. code' \in [Hooked -> [Bytes -> {"old", "nop", "jmp"}]]
    BY <2>1
  <2>3. overlapped' \in [Threads -> BOOLEAN]
    BY <1>9, Zenon DEF Overwrite, MarkOverlap
  <2> QED BY <2>2, <2>3
<1>10. CASE WriteNops
  <2>1. Overwrite("old", "nop") /\ UNCHANGED target /\ initPc' \in {"jump", "nops"}
    BY <1>10 DEF WriteNops
  <2>2. code' \in [Hooked -> [Bytes -> {"old", "nop", "jmp"}]] /\ overlapped' \in [Threads -> BOOLEAN]
    BY <2>1, <1>9
  <2> QED BY <2>1, <2>2 DEF Overwrite
<1>11. CASE WriteJump
  <2>1. Overwrite("nop", "jmp")
    BY <1>11 DEF WriteJump
  <2>2. target' \in Hooked /\ initPc' \in {"find", "converter", "jump"}
    BY <1>11 DEF WriteJump, NextTarget, Hooked
  <2>3. code' \in [Hooked -> [Bytes -> {"old", "nop", "jmp"}]] /\ overlapped' \in [Threads -> BOOLEAN]
    BY <2>1, <1>9
  <2> QED BY <2>1, <2>2, <2>3 DEF Overwrite
<1>12. CASE FindConverter
  BY <1>12 DEF FindConverter
<1> QED BY <1>1, <1>2, <1>3, <1>4, <1>5, <1>6, <1>7, <1>8, <1>10, <1>11, <1>12 DEF Initialize

(***************************************************************************)
(* Every step of a call keeps the types; that a call is reported at most   *)
(* once needs the invariant.                                               *)
(***************************************************************************)
LEMMA CallTypes ==
  ASSUME TypeOK, NEW t \in Threads, CallInv(t), Step(t) PROVE TypeOK'
<1> USE DEF initVars
<1>1. CASE ExecuteOld(t)
  <2>1. off[t] \in Displaced
    BY <1>1 DEF ExecuteOld, OldAhead
  <2>2. off[t] + Length(off[t]) \in 0..5
    BY <2>1 DEF Displaced, Length
  <2>3. off' \in [Threads -> 0..5]
    BY <1>1, <2>2 DEF ExecuteOld, TypeOK
  <2>4. ran' \in [Threads -> SUBSET Displaced]
    BY <1>1, <2>1 DEF ExecuteOld, TypeOK
  <2> QED BY <1>1, <2>3, <2>4 DEF ExecuteOld, TypeOK
<1>2. CASE ExecuteNop(t)
  <2>1. off[t] \in 0..4
    BY <1>2 DEF ExecuteNop, InPrologue, Bytes, TypeOK
  <2>2. off[t] + 1 \in 0..5
    BY <2>1
  <2> QED BY <1>2, <2>2 DEF ExecuteNop, TypeOK
<1>3. CASE ExecuteJump(t)
  <2>1. reports[t] = 0
    BY <1>3 DEF ExecuteJump, InPrologue, CallInv
  <2>2. reports' \in [Threads -> 0..1]
    <3>1. reports' = [reports EXCEPT ![t] = 1] \/ reports' = reports
      BY <1>3, <2>1 DEF ExecuteJump
    <3>2. reports \in [Threads -> 0..1]
      BY DEF TypeOK
    <3> QED BY <3>1, <3>2
  <2>3. pc' \in [Threads -> {"game", "prologue", "callback", "convert", "continue",
                             "body", "torn", "null call"}]
    BY <1>3 DEF ExecuteJump, Goes, TypeOK
  <2> QED BY <1>3, <2>2, <2>3 DEF ExecuteJump, TypeOK
<1>4. CASE ExecuteTorn(t)
  BY <1>4 DEF ExecuteTorn, Goes, TypeOK
<1>5. CASE LeavePrologue(t)
  BY <1>5 DEF LeavePrologue, Goes, TypeOK
<1>6. CASE CallbackFills(t)
  BY <1>6 DEF CallbackFills, Goes, TypeOK
<1>7. CASE CallbackPasses(t)
  BY <1>7 DEF CallbackPasses, Goes, TypeOK
<1>8. CASE Convert(t)
  BY <1>8 DEF Convert, Goes, TypeOK
<1>9. CASE Continue(t)
  <2>1. ran' \in [Threads -> SUBSET Displaced]
    <3>1. ran' = [ran EXCEPT ![t] = @ \cup Displaced] \/ ran' = ran
      BY <1>9 DEF Continue
    <3>2. ran \in [Threads -> SUBSET Displaced]
      BY DEF TypeOK
    <3> QED BY <3>1, <3>2
  <2>2. pc' \in [Threads -> {"game", "prologue", "callback", "convert", "continue",
                             "body", "torn", "null call"}]
    <3>1. pc' = [pc EXCEPT ![t] = "body"] \/ pc' = [pc EXCEPT ![t] = "null call"]
      BY <1>9 DEF Continue, Goes
    <3> QED BY <3>1 DEF TypeOK
  <2> QED BY <1>9, <2>1, <2>2 DEF Continue, TypeOK
<1>10. CASE Return(t)
  BY <1>10 DEF Return, Goes, TypeOK
<1> QED BY <1>1, <1>2, <1>3, <1>4, <1>5, <1>6, <1>7, <1>8, <1>9, <1>10 DEF Step

(***************************************************************************)
(* The beginning of a call keeps the types.                                *)
(***************************************************************************)
LEMMA EnterTypes ==
  ASSUME TypeOK, NEW t \in Threads, NEW f \in Hooked, Enter(t, f) PROVE TypeOK'
<1> USE DEF initVars
<1>1. All(f, "jmp") \in BOOLEAN /\ Patching(f) \in BOOLEAN
  BY DEF All, Patching
<1>2. /\ pc' \in [Threads -> {"game", "prologue", "callback", "convert", "continue",
                             "body", "torn", "null call"}]
      /\ fn' \in [Threads -> Hooked]
  BY DEF Enter, Goes, TypeOK
<1>3. off' \in [Threads -> 0..5]
  <2>1. off \in [Threads -> 0..5] /\ off' = [off EXCEPT ![t] = 0]
    BY DEF Enter, TypeOK
  <2> QED BY <2>1
<1>4. ran' \in [Threads -> SUBSET Displaced]
  <2>1. ran \in [Threads -> SUBSET Displaced] /\ ran' = [ran EXCEPT ![t] = {}]
    BY DEF Enter, TypeOK
  <2> QED BY <2>1
<1>5. reports' \in [Threads -> 0..1]
  <2>1. reports \in [Threads -> 0..1] /\ reports' = [reports EXCEPT ![t] = 0]
    BY DEF Enter, TypeOK
  <2> QED BY <2>1
<1>6. calls' \in [Threads -> Nat]
  <2>1. calls \in [Threads -> Nat] /\ calls' = [calls EXCEPT ![t] = @ + 1]
    BY DEF Enter, TypeOK
  <2> QED BY <2>1
<1>7. /\ hookedAtEntry' \in [Threads -> BOOLEAN]
      /\ settled' \in [Threads -> BOOLEAN]
      /\ overlapped' \in [Threads -> BOOLEAN]
  BY <1>1, Zenon DEF Enter, TypeOK
<1> QED BY <1>2, <1>3, <1>4, <1>5, <1>6, <1>7 DEF Enter, TypeOK

-----------------------------------------------------------------------------
(* PatchInv.                                                               *)

(***************************************************************************)
(* memset and memcpy change bytes of the function they are given only, and *)
(* only those in the state they replace; a call in its prologue is marked. *)
(***************************************************************************)
LEMMA Overwritten ==
  ASSUME TypeOK, NEW s, NEW s2, Overwrite(s, s2)
  PROVE  /\ \A f \in Hooked, b \in Bytes :
              \/ code'[f][b] = code[f][b]
              \/ f = target /\ code[f][b] = s /\ code'[f][b] = s2
         /\ \A t \in Threads : overlapped'[t] <=>
              overlapped[t] \/ (pc[t] = "prologue" /\ fn[t] = target)
<1>1. /\ code \in [Hooked -> [Bytes -> {"old", "nop", "jmp"}]]
      /\ target \in Hooked
      /\ overlapped \in [Threads -> BOOLEAN]
  BY DEF TypeOK
<1>2. PICK B \in SUBSET {b \in Bytes : code[target][b] = s} :
        code' = [code EXCEPT ![target] = [b \in Bytes |-> IF b \in B THEN s2 ELSE @[b]]]
  BY DEF Overwrite
<1>3. ASSUME NEW f \in Hooked, NEW b \in Bytes
      PROVE  \/ code'[f][b] = code[f][b]
             \/ f = target /\ code[f][b] = s /\ code'[f][b] = s2
  BY <1>1, <1>2
<1>4. ASSUME NEW t \in Threads
      PROVE  overlapped'[t] <=> overlapped[t] \/ (pc[t] = "prologue" /\ fn[t] = target)
  BY Zenon DEF Overwrite, MarkOverlap
<1> QED BY <1>3, <1>4

(***************************************************************************)
(* The typing facts that the steps below use.                              *)
(***************************************************************************)
LEMMA Typing ==
  ASSUME TypeOK
  PROVE  /\ target \in Hooked
         /\ code \in [Hooked -> [Bytes -> {"old", "nop", "jmp"}]]
         /\ trampoline \in [Hooked -> {"none", "raw", "built"}]
         /\ \A t \in Threads : fn[t] \in Hooked /\ off[t] \in 0..5 /\ reports[t] \in 0..1
         /\ pc \in [Threads -> {"game", "prologue", "callback", "convert", "continue",
                                "body", "torn", "null call"}]
BY DEF TypeOK

(***************************************************************************)
(* Mem_Initialize never leaves a function half redirected, and has its     *)
(* trampoline and its continue pointer ready before the first new byte.    *)
(***************************************************************************)
LEMMA PatchStep ==
  ASSUME TypeOK, PatchInv, Initialize PROVE PatchInv'
<1>1. /\ target \in Hooked
      /\ code \in [Hooked -> [Bytes -> {"old", "nop", "jmp"}]]
      /\ trampoline \in [Hooked -> {"none", "raw", "built"}]
  BY Typing
<1>2. CASE FindData
  BY <1>2, <1>1 DEF FindData, PatchInv, Patching, Whole, All, None
<1>3. CASE FindTarget
  BY <1>3, <1>1 DEF FindTarget, PatchInv, Patching, Whole, All, None
<1>4. CASE TargetMissing
  BY <1>4, <1>1 DEF TargetMissing, NextTarget, PatchInv, Patching, Whole, All, None, Hooked
<1>5. CASE Allocate
  BY <1>5, <1>1 DEF Allocate, PatchInv, Patching, Whole, All, None
<1>6. CASE Unprotect
  BY <1>6, <1>1 DEF Unprotect, PatchInv, Patching, Whole, All, None
<1>7. CASE UnprotectFails
  BY <1>7, <1>1 DEF UnprotectFails, NextTarget, PatchInv, Patching, Whole, All, None, Hooked
<1>8. CASE Build
  BY <1>8, <1>1 DEF Build, PatchInv, Patching, Whole, All, None
<1>9. CASE SetContinue
  BY <1>9, <1>1 DEF SetContinue, PatchInv, Patching, Whole, All, None
<1>10. CASE WriteNops
  <2>1. Overwrite("old", "nop") /\ initPc = "nops" /\ target' = target
    BY <1>10 DEF WriteNops
  <2>2. \A f \in Hooked, b \in Bytes :
          \/ code'[f][b] = code[f][b]
          \/ f = target /\ code[f][b] = "old" /\ code'[f][b] = "nop"
    BY <2>1, Overwritten
  <2>3. UNCHANGED <<found, trampoline, continueSet, converter>>
    BY <2>1 DEF Overwrite
  <2>4. /\ initPc' \in {"nops", "jump"}
        /\ initPc' = "jump" => \A b \in Bytes : code'[target][b] # "old"
    BY <1>10 DEF WriteNops, NoneLeft
  <2>5. \A f \in Hooked : Patching(f)' \/ Whole(f)'
    BY <1>1, <2>1, <2>2, <2>4 DEF PatchInv, Patching, Whole, All
  <2>6. \A f \in Hooked :
          ~All(f, "old")' => trampoline'[f] = "built" /\ f \in continueSet'
    BY <2>1, <2>2, <2>3 DEF PatchInv, All
  <2>7. None(target, "jmp")' /\ (initPc' = "jump" => None(target, "old")')
    BY <1>1, <2>1, <2>2, <2>4 DEF PatchInv, None
  <2>8. target' = "ApplyDmg" => All("SetAnimation", "old")'
    BY <2>1, <2>2 DEF PatchInv, All, Hooked
  <2> QED BY <2>1, <2>3, <2>4, <2>5, <2>6, <2>7, <2>8 DEF PatchInv
<1>11. CASE WriteJump
  <2>1. Overwrite("nop", "jmp") /\ initPc = "jump"
    BY <1>11 DEF WriteJump
  <2>2. \A f \in Hooked, b \in Bytes :
          \/ code'[f][b] = code[f][b]
          \/ f = target /\ code[f][b] = "nop" /\ code'[f][b] = "jmp"
    BY <2>1, Overwritten
  <2>3. UNCHANGED <<found, trampoline, continueSet, converter>>
    BY <2>1 DEF Overwrite
  <2>4. CASE target' = target /\ initPc' = initPc
    <3>1. \A f \in Hooked : Patching(f)' \/ Whole(f)'
      BY <1>1, <2>1, <2>2, <2>4 DEF PatchInv, Patching, Whole, All
    <3>2. \A f \in Hooked :
            ~All(f, "old")' => trampoline'[f] = "built" /\ f \in continueSet'
      BY <2>1, <2>2, <2>3 DEF PatchInv, All
    <3>3. None(target, "old")'
      BY <1>1, <2>1, <2>2, <2>4 DEF PatchInv, None
    <3>4. target' = "ApplyDmg" => All("SetAnimation", "old")'
      BY <2>1, <2>2, <2>4 DEF PatchInv, All, Hooked
    <3> QED BY <2>1, <2>3, <2>4, <3>1, <3>2, <3>3, <3>4 DEF PatchInv
  <2>5. CASE NextTarget /\ \A b \in Bytes : code'[target][b] # "nop"
    <3>1. \A b \in Bytes : code'[target][b] = "jmp"
      BY <1>1, <2>1, <2>2, <2>5 DEF PatchInv, None
    <3>2. \A f \in Hooked : f # target => \A b \in Bytes : code'[f][b] = code[f][b]
      BY <2>2
    <3> QED BY <1>1, <2>1, <2>3, <2>5, <3>1, <3>2
            DEF NextTarget, PatchInv, Patching, Whole, All, None, Hooked
  <2> QED BY <1>11, <2>4, <2>5 DEF WriteJump, NoneLeft
<1>12. CASE FindConverter
  BY <1>12, <1>1 DEF FindConverter, PatchInv, Patching, Whole, All, None
<1> QED BY <1>2, <1>3, <1>4, <1>5, <1>6, <1>7, <1>8, <1>9, <1>10, <1>11, <1>12 DEF Initialize

-----------------------------------------------------------------------------
(* CallInv.                                                                *)

(***************************************************************************)
(* What a call has done is not touched by a step of Mem_Initialize: either *)
(* the step leaves the bytes alone, or it marks the calls in the prologue. *)
(***************************************************************************)
LEMMA InitializeKeepsCalls ==
  ASSUME TypeOK, PatchInv, Initialize, NEW t \in Threads, CallInv(t)
  PROVE  CallInv(t)'
<1>1. fn[t] \in Hooked
  BY DEF TypeOK
<1>2. UNCHANGED <<pc, fn, off, ran, reports, hookedAtEntry, settled, found>>
  BY DEF Initialize, FindData, FindTarget, TargetMissing, Allocate, Unprotect, UnprotectFails,
         Build, SetContinue, WriteNops, WriteJump, FindConverter, Overwrite, callVars
<1>3. continueSet \subseteq continueSet'
  BY DEF Initialize, FindData, FindTarget, TargetMissing, Allocate, Unprotect, UnprotectFails,
         Build, SetContinue, WriteNops, WriteJump, FindConverter, Overwrite
<1>4. initPc # "done"
  BY DEF Initialize, FindData, FindTarget, TargetMissing, Allocate, Unprotect, UnprotectFails,
         Build, SetContinue, WriteNops, WriteJump, FindConverter
<1>5. ~settled[t]
  BY <1>4 DEF CallInv
<1>6. CASE UNCHANGED <<code, overlapped>>
  BY <1>1, <1>2, <1>3, <1>5, <1>6 DEF CallInv, All
<1>7. ASSUME NEW s, NEW s2, Overwrite(s, s2)
      PROVE  CallInv(t)'
  <2>1. /\ \A f \in Hooked, b \in Bytes :
              \/ code'[f][b] = code[f][b]
              \/ f = target /\ code[f][b] = s /\ code'[f][b] = s2
        /\ overlapped'[t] <=> overlapped[t] \/ (pc[t] = "prologue" /\ fn[t] = target)
    BY <1>7, Overwritten
  <2>2. CASE overlapped'[t]
    BY <1>2, <1>3, <1>5, <2>2 DEF CallInv
  <2>3. CASE ~overlapped'[t] /\ pc[t] # "prologue"
    BY <1>2, <1>3, <1>5, <2>1, <2>3 DEF CallInv
  <2>4. CASE ~overlapped'[t] /\ pc[t] = "prologue"
    <3>1. fn[t] # target /\ ~overlapped[t]
      BY <2>1, <2>4
    <3>2. \A b \in Bytes : code'[fn[t]][b] = code[fn[t]][b]
      BY <1>1, <2>1, <3>1
    <3> QED BY <1>2, <1>3, <1>5, <2>4, <3>1, <3>2 DEF CallInv, All
  <2> QED BY <2>2, <2>3, <2>4
<1>8. CASE WriteNops \/ WriteJump
  BY <1>7, <1>8 DEF WriteNops, WriteJump
<1>9. CASE ~WriteNops /\ ~WriteJump
  BY <1>6, <1>9 DEF Initialize, FindData, FindTarget, TargetMissing, Allocate, Unprotect,
         UnprotectFails, Build, SetContinue, FindConverter, callVars
<1> QED BY <1>8, <1>9

(***************************************************************************)
(* A step of a call leaves Mem_Initialize and every other call alone.      *)
(***************************************************************************)
LEMMA StepKeepsOthers ==
  ASSUME TypeOK, NEW t \in Threads, NEW u \in Threads, t # u, CallInv(t),
         Step(u) \/ \E f \in Hooked : Enter(u, f)
  PROVE  CallInv(t)'
<1>1. UNCHANGED initVars
  BY DEF Step, ExecuteOld, ExecuteNop, ExecuteJump, ExecuteTorn, LeavePrologue, CallbackFills,
         CallbackPasses, Convert, Continue, Return, Enter
<1>2. /\ pc'[t] = pc[t]
      /\ fn'[t] = fn[t]
      /\ off'[t] = off[t]
      /\ ran'[t] = ran[t]
      /\ reports'[t] = reports[t]
      /\ hookedAtEntry'[t] = hookedAtEntry[t]
      /\ settled'[t] = settled[t]
      /\ overlapped'[t] = overlapped[t]
  BY DEF Step, ExecuteOld, ExecuteNop, ExecuteJump, ExecuteTorn, LeavePrologue, CallbackFills,
         CallbackPasses, Convert, Continue, Return, Enter, Goes, TypeOK
<1> QED BY <1>1, <1>2 DEF CallInv, All, initVars

(***************************************************************************)
(* The call that takes a step: what it has done fits where it gets to.     *)
(***************************************************************************)
LEMMA StepKeepsOwn ==
  ASSUME TypeOK, PatchInv, NEW t \in Threads, CallInv(t), Step(t)
  PROVE  CallInv(t)'
<1>1. /\ fn[t] \in Hooked
      /\ off[t] \in 0..5
      /\ reports[t] \in 0..1
      /\ code[fn[t]] \in [Bytes -> {"old", "nop", "jmp"}]
  BY DEF TypeOK
<1>2. /\ UNCHANGED initVars
      /\ UNCHANGED <<fn, hookedAtEntry, settled, overlapped>>
  BY DEF Step, ExecuteOld, ExecuteNop, ExecuteJump, ExecuteTorn, LeavePrologue, CallbackFills,
         CallbackPasses, Convert, Continue, Return
<1>3. (\A b \in Bytes : code[fn[t]][b] = "old") => ~(\A b \in Bytes : code[fn[t]][b] # "old")
  BY DEF Bytes
<1>4. CASE ExecuteOld(t)
  <2>1. pc'[t] = "prologue" /\ pc[t] = "prologue" /\ reports'[t] = reports[t]
    BY <1>4 DEF ExecuteOld, InPrologue
  <2>2. /\ off[t] \in Displaced
        /\ off'[t] = off[t] + Length(off[t])
        /\ ran'[t] = ran[t] \cup {off[t]}
        /\ code[fn[t]][off[t]] = "old"
    <3>1. off[t] \in Displaced /\ off[t] \in Span(off[t])
      BY <1>4 DEF ExecuteOld, OldAhead, Span, Displaced, Length, Bytes
    <3> QED BY <1>4, <3>1 DEF ExecuteOld, OldAhead, Are, TypeOK
  <2>3. off'[t] \in Displaced \cup {5} /\ off'[t] # 0
    BY <2>2 DEF Displaced, Length
  <2>4. CASE ~overlapped[t]
    <3>1. ~hookedAtEntry[t] /\ All(fn[t], "old")
      BY <2>1, <2>2, <2>4 DEF CallInv, All, Displaced, Bytes
    <3>2. ran'[t] = {o \in Displaced : o < off'[t]}
      BY <2>1, <2>2, <2>4 DEF CallInv, Displaced, Length
    <3> QED BY <1>2, <2>1, <2>3, <3>1, <3>2 DEF CallInv, All, initVars
  <2>5. CASE overlapped[t]
    BY <1>2, <2>1, <2>5 DEF CallInv, initVars
  <2> QED BY <2>4, <2>5
<1>5. CASE ExecuteNop(t)
  <2>1. pc'[t] = "prologue" /\ pc[t] = "prologue" /\ reports'[t] = reports[t]
    BY <1>5 DEF ExecuteNop, InPrologue
  <2>2. off[t] \in Bytes /\ code[fn[t]][off[t]] = "nop"
    BY <1>5 DEF ExecuteNop, InPrologue, NopAhead, Are
  <2>3. overlapped[t]
    BY <2>1, <2>2 DEF CallInv, All
  <2> QED BY <1>2, <2>1, <2>3 DEF CallInv, initVars
<1>6. CASE ExecuteJump(t)
  <2>1. /\ pc[t] = "prologue" /\ off[t] = 0 /\ All(fn[t], "jmp")
        /\ reports[t] = 0
    BY <1>6 DEF ExecuteJump, InPrologue, JumpAhead, Are, All, CallInv
  <2>2. ~All(fn[t], "old")
    BY <2>1 DEF All, Bytes
  <2>3. trampoline[fn[t]] = "built" /\ fn[t] \in continueSet
    BY <1>1, <2>2 DEF PatchInv
  <2>4. pc'[t] = "callback" /\ reports'[t] = 1
    <3>1. pc' = [pc EXCEPT ![t] = "callback"] /\ reports' = [reports EXCEPT ![t] = @ + 1]
      BY <1>6, <2>3 DEF ExecuteJump, Goes
    <3>2. t \in DOMAIN pc /\ t \in DOMAIN reports
      BY DEF TypeOK
    <3> QED BY <2>1, <3>1, <3>2
  <2>5. ~overlapped[t] => hookedAtEntry[t]
    BY <2>1, <2>2 DEF CallInv
  <2> QED BY <1>2, <2>3, <2>4, <2>5 DEF CallInv, initVars
<1>7. CASE ExecuteTorn(t)
  <2>1. /\ pc[t] = "prologue" /\ off[t] \in Bytes
        /\ ~OldAhead(t) /\ ~JumpAhead(t)
        /\ pc'[t] = "torn"
    BY <1>7 DEF ExecuteTorn, InPrologue, Goes, TypeOK
  <2>2. ASSUME ~overlapped[t] PROVE FALSE
    <3>1. CASE hookedAtEntry[t]
      BY <2>1, <2>2, <3>1 DEF CallInv, JumpAhead, Are, All
    <3>2. CASE ~hookedAtEntry[t]
      <4>1. All(fn[t], "old") /\ off[t] \in Displaced
        BY <2>1, <2>2, <3>2 DEF CallInv, Bytes
      <4> QED BY <2>1, <4>1 DEF OldAhead, Are, All, Span
    <3> QED BY <3>1, <3>2
  <2> QED BY <1>2, <2>1, <2>2 DEF CallInv, initVars
<1>8. CASE LeavePrologue(t)
  <2>1. /\ pc[t] = "prologue" /\ off[t] = 5 /\ pc'[t] = "body"
        /\ ran' = ran /\ reports' = reports
    BY <1>8 DEF LeavePrologue, Goes, TypeOK
  <2>2. ~overlapped[t] => ran[t] = Displaced /\ ~hookedAtEntry[t] /\ reports[t] = 0
    BY <2>1 DEF CallInv, Displaced
  <2> QED BY <1>2, <2>1, <2>2 DEF CallInv, initVars
<1>9. CASE CallbackFills(t)
  BY <1>2, <1>9 DEF CallbackFills, Goes, TypeOK, CallInv, initVars
<1>10. CASE CallbackPasses(t)
  BY <1>2, <1>10 DEF CallbackPasses, Goes, TypeOK, CallInv, initVars
<1>11. CASE Convert(t)
  <2>1. /\ pc[t] = "convert" /\ reports' = reports
        /\ pc'[t] = IF converter = "set" THEN "continue" ELSE "null call"
    BY <1>11 DEF Convert, Goes, TypeOK
  <2>2. settled[t] /\ converter # "set" => "WorldToMap" \notin found
    BY DEF CallInv, PatchInv
  <2> QED BY <1>2, <2>1, <2>2 DEF CallInv, initVars
<1>12. CASE Continue(t)
  <2>1. pc[t] = "continue" /\ fn[t] \in continueSet /\ reports' = reports
    BY <1>12 DEF Continue, CallInv
  <2>2. pc'[t] = "body" /\ ran'[t] = ran[t] \cup Displaced
    BY <1>12, <2>1 DEF Continue, Goes, TypeOK
  <2>3. ran'[t] = Displaced
    <3>1. ran[t] \subseteq Displaced
      BY DEF TypeOK
    <3> QED BY <2>2, <3>1
  <2> QED BY <1>2, <2>1, <2>2, <2>3 DEF CallInv, initVars
<1>13. CASE Return(t)
  <2>1. pc[t] = "body" /\ pc'[t] = IF ran[t] = Displaced THEN "game" ELSE "torn"
    BY <1>13 DEF Return, Goes, TypeOK
  <2>2. ~overlapped[t] => pc'[t] = "game"
    BY <2>1 DEF CallInv
  <2> QED BY <1>2, <2>1, <2>2 DEF CallInv, initVars
<1> QED BY <1>4, <1>5, <1>6, <1>7, <1>8, <1>9, <1>10, <1>11, <1>12, <1>13 DEF Step

(***************************************************************************)
(* A call begins with nothing done, and with its function in one piece     *)
(* unless it is being overwritten.                                         *)
(***************************************************************************)
LEMMA EnterKeepsOwn ==
  ASSUME TypeOK, PatchInv, NEW t \in Threads, NEW f \in Hooked, Enter(t, f)
  PROVE  CallInv(t)'
<1>1. UNCHANGED initVars
  BY DEF Enter
<1>2. /\ pc'[t] = "prologue"
      /\ fn'[t] = f
  BY DEF Enter, Goes, TypeOK
<1>3. /\ off'[t] = 0
      /\ ran'[t] = {}
  BY DEF Enter, TypeOK
<1>4. reports'[t] = 0
  BY DEF Enter, TypeOK
<1>5. hookedAtEntry'[t] <=> All(f, "jmp")
  BY Zenon DEF Enter, TypeOK
<1>6. settled'[t] <=> initPc = "done"
  BY Zenon DEF Enter, TypeOK
<1>7. overlapped'[t] <=> Patching(f)
  BY Zenon DEF Enter, TypeOK
<1>8. ~overlapped'[t] => Whole(f)
  BY <1>7 DEF PatchInv
<1>9. {o \in Displaced : o < 0} = {}
  BY DEF Displaced
<1>10. settled'[t] => ~overlapped'[t]
  BY <1>6, <1>7 DEF Patching
<1> QED BY <1>1, <1>2, <1>3, <1>4, <1>5, <1>6, <1>8, <1>9, <1>10
        DEF CallInv, All, Whole, Displaced, initVars

-----------------------------------------------------------------------------
(* The theorems.                                                           *)

(***************************************************************************)
(* IInv holds in every reachable state.                                    *)
(***************************************************************************)
THEOREM HookingInvariant == Spec => []IInv
<1>1. Init => IInv
  <2> SUFFICES ASSUME Init PROVE IInv
    OBVIOUS
  <2>1. TypeOK
    BY DEF Init, TypeOK, Hooked, Displaced
  <2>2. PatchInv
    BY DEF Init, PatchInv, Patching, Whole, All, Hooked
  <2>3. \A t \in Threads : CallInv(t)
    BY DEF Init, CallInv
  <2> QED BY <2>1, <2>2, <2>3 DEF IInv
<1>2. IInv /\ [Next]_vars => IInv'
  <2> SUFFICES ASSUME IInv, [Next]_vars PROVE IInv'
    OBVIOUS
  <2> USE DEF IInv
  <2>1. CASE Initialize
    BY <2>1, InitializeTypes, PatchStep, InitializeKeepsCalls
  <2>2. ASSUME NEW u \in Threads, Step(u) \/ \E f \in Hooked : Enter(u, f)
        PROVE  IInv'
    <3>1. TypeOK'
      BY <2>2, CallTypes, EnterTypes
    <3>2. UNCHANGED initVars
      BY <2>2 DEF Step, ExecuteOld, ExecuteNop, ExecuteJump, ExecuteTorn, LeavePrologue,
                  CallbackFills, CallbackPasses, Convert, Continue, Return, Enter
    <3>3. PatchInv'
      BY <3>2 DEF PatchInv, Patching, Whole, All, None, initVars
    <3>4. ASSUME NEW t \in Threads PROVE CallInv(t)'
      <4>1. CASE t = u
        BY <2>2, <4>1, StepKeepsOwn, EnterKeepsOwn
      <4>2. CASE t # u
        BY <2>2, <4>2, StepKeepsOthers
      <4> QED BY <4>1, <4>2
    <3> QED BY <3>1, <3>3, <3>4
  <2>3. CASE UNCHANGED vars
    <3>1. TypeOK'
      BY <2>3 DEF vars, initVars, callVars, TypeOK
    <3>2. PatchInv'
      BY <2>3 DEF vars, initVars, PatchInv, Patching, Whole, All, None
    <3>3. \A t \in Threads : CallInv(t)'
      BY <2>3 DEF vars, initVars, callVars, CallInv, All
    <3> QED BY <3>1, <3>2, <3>3
  <2> QED BY <2>1, <2>2, <2>3 DEF Next
<1> QED BY <1>1, <1>2, PTL DEF Spec

(***************************************************************************)
(* The types of the variables.                                             *)
(***************************************************************************)
THEOREM HookingTypes == Spec => []TypeOK
<1>1. IInv => TypeOK
  BY DEF IInv
<1> QED BY <1>1, HookingInvariant, PTL

(***************************************************************************)
(* A call that does not overlap the patch runs its own prologue exactly    *)
(* once, in place or in the trampoline, and is reported exactly when the   *)
(* function was hooked (mem.cpp:157-194).                                  *)
(***************************************************************************)
THEOREM CallsAreIntact == Spec => []CallsIntact
<1>1. IInv => CallsIntact
  BY DEF IInv, CallsIntact, CallInv
<1> QED BY <1>1, HookingInvariant, PTL

(***************************************************************************)
(* No call gets to the callback before out_func was written (mem.cpp:190). *)
(***************************************************************************)
THEOREM CallsCanContinue == Spec => []ContinueIsSet
<1>1. IInv => ContinueIsSet
  BY DEF IInv, ContinueIsSet, CallInv
<1> QED BY <1>1, HookingInvariant, PTL

(***************************************************************************)
(* A call that begins after Mem_Initialize cannot go wrong, except for a   *)
(* WORLD_TO_MAP_FUNC_PTR that this game does not have (mem.cpp:426).       *)
(***************************************************************************)
THEOREM CallsAreSafeLater == Spec => []SettledCallsSafe
<1>1. IInv => SettledCallsSafe
  BY DEF IInv, SettledCallsSafe, CallInv
<1> QED BY <1>1, HookingInvariant, PTL

-----------------------------------------------------------------------------
(* The end of a call.                                                      *)

(***************************************************************************)
(* The count of StepsLeft at a place p of a call, at the byte o.           *)
(***************************************************************************)
Left(p, o) ==
  CASE p = "prologue" -> 10 - o [] p = "callback" -> 4 [] p = "convert" -> 3
    [] p = "continue" -> 2 [] p = "body" -> 1 [] OTHER -> 0

(***************************************************************************)
(* What it counts.                                                         *)
(***************************************************************************)
LEMMA LeftFacts ==
  /\ \A o : /\ Left("prologue", o) = 10 - o
            /\ Left("callback", o) = 4 /\ Left("convert", o) = 3
            /\ Left("continue", o) = 2 /\ Left("body", o) = 1
            /\ \A p \in {"game", "torn", "null call"} : Left(p, o) = 0
  /\ \A t \in Threads : /\ StepsLeft(t) = Left(pc[t], off[t])
                        /\ StepsLeft(t)' = Left(pc'[t], off'[t])
BY DEF Left, StepsLeft

(***************************************************************************)
(* A step of a call brings it nearer to its end.                           *)
(***************************************************************************)
LEMMA StepGoesOn ==
  ASSUME TypeOK, NEW t \in Threads, Step(t)
  PROVE  StepsLeft(t)' < StepsLeft(t)
<1>0. off \in [Threads -> 0..5]
      /\ pc \in [Threads -> {"game", "prologue", "callback", "convert", "continue",
                             "body", "torn", "null call"}]
  BY DEF TypeOK
<1>1. CASE ExecuteOld(t) \/ ExecuteNop(t)
  <2>1. /\ pc[t] = "prologue" /\ pc'[t] = "prologue"
        /\ off'[t] = off[t] + 1 \/ off'[t] = off[t] + 3
    BY <1>0, <1>1 DEF ExecuteOld, ExecuteNop, InPrologue, Length
  <2>2. StepsLeft(t) = 10 - off[t] /\ StepsLeft(t)' = 10 - off'[t]
    BY <2>1, LeftFacts, Zenon
  <2>3. off[t] \in 0..5
    BY <1>0
  <2>4. off'[t] = off[t] + 1 \/ off'[t] = off[t] + 3
    BY <2>1
  <2> QED
    BY <2>2, <2>3, <2>4
<1>2. CASE ExecuteJump(t) \/ ExecuteTorn(t) \/ LeavePrologue(t)
  <2>1. pc[t] = "prologue" /\ pc'[t] \in {"callback", "torn", "body"}
    BY <1>0, <1>2 DEF ExecuteJump, ExecuteTorn, LeavePrologue, InPrologue, Goes
  <2>2. StepsLeft(t) = 10 - off[t] /\ StepsLeft(t)' \in {4, 1, 0}
    BY <2>1, LeftFacts, Zenon
  <2>3. off[t] \in 0..5
    BY <1>0
  <2> QED
    BY <2>2, <2>3
<1>3. CASE CallbackFills(t) \/ CallbackPasses(t)
  <2>1. pc[t] = "callback" /\ pc'[t] \in {"convert", "continue"}
    BY <1>0, <1>3 DEF CallbackFills, CallbackPasses, Goes
  <2>2. StepsLeft(t) = 4 /\ StepsLeft(t)' \in {3, 2}
    BY <2>1, LeftFacts, Zenon
  <2> QED
    BY <2>2
<1>4. CASE Convert(t)
  <2>1. pc[t] = "convert" /\ pc'[t] \in {"continue", "null call"}
    BY <1>0, <1>4 DEF Convert, Goes
  <2>2. StepsLeft(t) = 3 /\ StepsLeft(t)' \in {2, 0}
    BY <2>1, LeftFacts, Zenon
  <2> QED
    BY <2>2
<1>5. CASE Continue(t)
  <2>1. pc[t] = "continue" /\ pc'[t] \in {"body", "null call"}
    BY <1>0, <1>5 DEF Continue, Goes
  <2>2. StepsLeft(t) = 2 /\ StepsLeft(t)' \in {1, 0}
    BY <2>1, LeftFacts, Zenon
  <2> QED
    BY <2>2
<1>6. CASE Return(t)
  <2>1. pc[t] = "body" /\ pc'[t] \in {"game", "torn"}
    BY <1>0, <1>6 DEF Return, Goes
  <2>2. StepsLeft(t) = 1 /\ StepsLeft(t)' = 0
    BY <2>1, LeftFacts, Zenon
  <2> QED
    BY <2>2
<1> QED
  BY <1>1, <1>2, <1>3, <1>4, <1>5, <1>6 DEF Step

(***************************************************************************)
(* No call runs in circles between the function and the trampoline, torn   *)
(* or not, and however far Mem_Initialize is: it ends after ten steps.     *)
(***************************************************************************)
THEOREM CallsGoOn == Spec => CallsAdvance
<1>1. IInv /\ [Next]_vars =>
        [\A t \in Threads :
           /\ Step(t) => StepsLeft(t)' < StepsLeft(t)
           /\ StepsLeft(t)' # StepsLeft(t) => Step(t) \/ pc[t] = "game"]_vars
  <2> SUFFICES ASSUME IInv, Next, NEW t \in Threads
               PROVE  /\ Step(t) => StepsLeft(t)' < StepsLeft(t)
                      /\ ~Step(t) /\ pc[t] # "game" => StepsLeft(t)' = StepsLeft(t)
    OBVIOUS
  <2>0. TypeOK
    BY DEF IInv
  <2>1. ASSUME ~Step(t), pc[t] # "game" PROVE pc'[t] = pc[t] /\ off'[t] = off[t]
    <3>1. CASE Initialize
      BY <3>1 DEF Initialize, FindData, FindTarget, TargetMissing, Allocate, Unprotect,
                  UnprotectFails, Build, SetContinue, WriteNops, WriteJump, Overwrite,
                  FindConverter, callVars
    <3>2. ASSUME NEW u \in Threads, Step(u) PROVE pc'[t] = pc[t] /\ off'[t] = off[t]
      <4>1. u # t
        BY <2>1, <3>2
      <4> QED
        BY <2>0, <3>2, <4>1
           DEF Step, ExecuteOld, ExecuteNop, ExecuteJump, ExecuteTorn, LeavePrologue,
               CallbackFills, CallbackPasses, Convert, Continue, Return, Goes, TypeOK
    <3>3. ASSUME NEW u \in Threads, NEW f \in Hooked, Enter(u, f)
          PROVE  pc'[t] = pc[t] /\ off'[t] = off[t]
      <4>1. u # t
        BY <2>1, <3>3 DEF Enter
      <4> QED
        BY <2>0, <3>3, <4>1 DEF Enter, Goes, TypeOK
    <3> QED
      BY <3>1, <3>2, <3>3 DEF Next
  <2> QED
    BY <2>0, <2>1, StepGoesOn DEF StepsLeft
<1> QED
  BY <1>1, HookingInvariant, PTL DEF Spec, CallsAdvance

=============================================================================
