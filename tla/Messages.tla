------------------------------ MODULE Messages -------------------------------
(***************************************************************************)
(* functionality.cpp: the messages about the game's characters that are    *)
(* put together from several reads of its memory, while the game changes   *)
(* it: the damage message of ApplyDmgCallbackFunction, on the thread of    *)
(* the game that calls ApplyDmg, and the answer of GetLocalPlayerData to   *)
(* an "info" request, on the io thread.                                    *)
(*                                                                         *)
(* Of an EntityMessage the module keeps the handle, which names the        *)
(* character, and the hp.  The other fields are read the same way.         *)
(***************************************************************************)
EXTENDS Naturals, Sequences

CONSTANTS
  Threads,     \* threads of the game that call ApplyDmg
  Characters,  \* the characters of the game
  Nobody,      \* a null Instance*; as a handle, 0
  MaxHp,       \* bound: the hp of a character
  MaxCalls,    \* bound: calls of ApplyDmg, of all threads together
  MaxInfos     \* bound: "info" requests

ASSUME NobodyAssumption == Nobody \notin Characters
ASSUME MessageBoundsAssumption == MaxHp \in Nat /\ MaxCalls \in Nat /\ MaxInfos \in Nat

VARIABLES
  hp,          \* per character: its hp, as the memory of the game has it
  alive,       \* the characters whose memory the game has not released
  local,       \* what Game_GetLocalInstance would return now
  pc,          \* per thread: where in the callback it is
  sender,      \* per thread: the arguments of its call
  receiver,
  damage,
  msg,         \* per thread: the DamageMessage it fills
  damages,     \* the damage messages handed to Net_SendData, oldest first
  calls,       \* how many calls of ApplyDmg have begun
  infoPc,      \* where in on_message_server the io thread is
  info,        \* the InfoMessage it fills
  answers,     \* the answers to "info" requests, oldest first
  hpDuring,    \* history: per thread, the hp its receiver had during its call
  infoDuring,  \* history: per character, the hp it had during the request
  released     \* history: the local player was released during the request

threadVars == <<pc, sender, receiver, damage, msg, damages, calls>>
infoVars == <<infoPc, info, answers>>
gameVars == <<hp, alive, local>>
histories == <<hpDuring, infoDuring, released>>
vars == <<gameVars, threadVars, infoVars, histories>>

Pointers == Characters \cup {Nobody}
Hps == 0..MaxHp
Damages == 0..MaxHp

NoMessage == [sender |-> Nobody, hp |-> 0]
NoInfo == [player |-> Nobody, hp |-> 0]   \* the answer ""

Init ==
  /\ hp \in [Characters -> Hps]
  /\ alive = Characters
  /\ local = Nobody
  /\ pc = [t \in Threads |-> "game"]
  /\ sender = [t \in Threads |-> Nobody]
  /\ receiver = [t \in Threads |-> Nobody]
  /\ damage = [t \in Threads |-> 0]
  /\ msg = [t \in Threads |-> NoMessage]
  /\ damages = <<>>
  /\ calls = 0
  /\ infoPc = "run"
  /\ info = NoInfo
  /\ answers = <<>>
  /\ hpDuring = [t \in Threads |-> {}]
  /\ infoDuring = [c \in Characters |-> {}]
  /\ released = FALSE

Goes(t, p) == pc' = [pc EXCEPT ![t] = p]

\* The hp of c becomes h, and the histories note it.
HpBecomes(c, h) ==
  /\ hp' = [hp EXCEPT ![c] = h]
  /\ hpDuring' = [t \in Threads |->
       IF receiver[t] = c THEN hpDuring[t] \cup {h} ELSE hpDuring[t]]
  /\ infoDuring' = IF infoPc = "run" THEN infoDuring ELSE [infoDuring EXCEPT ![c] = @ \cup {h}]

-----------------------------------------------------------------------------
(* ApplyDmgCallbackFunction, run by a thread t of the game.                *)

\* The game has s hit r.  Without a receiver or damage there is nothing to
\* report.  The game keeps both characters while its function runs.
Call(t, s, r, d) ==
  /\ pc[t] = "game"
  /\ calls < MaxCalls
  /\ calls' = calls + 1
  /\ sender' = [sender EXCEPT ![t] = s]
  /\ receiver' = [receiver EXCEPT ![t] = r]
  /\ damage' = [damage EXCEPT ![t] = d]
  /\ hpDuring' = [hpDuring EXCEPT ![t] = IF r = Nobody THEN {} ELSE {hp[r]}]
  /\ Goes(t, IF r # Nobody /\ d > 0 THEN "sender" ELSE "silent")
  /\ UNCHANGED <<gameVars, msg, damages, infoVars, infoDuring, released>>

\* msg.sender.FillFromInstance(sender): a null sender has the handle 0.
FillSender(t) ==
  /\ pc[t] = "sender"
  /\ msg' = [msg EXCEPT ![t].sender = sender[t]]
  /\ Goes(t, "receiver")
  /\ UNCHANGED <<gameVars, sender, receiver, damage, damages, calls, infoVars, histories>>

\* Mutant of FillReceiver: the sender's fields are read for the receiver.
FillReceiverFromSender(t) ==
  /\ pc[t] = "receiver"
  /\ msg' = [msg EXCEPT ![t].hp = IF sender[t] = Nobody THEN 0 ELSE hp[sender[t]]]
  /\ Goes(t, "check")
  /\ UNCHANGED <<gameVars, sender, receiver, damage, damages, calls, infoVars, histories>>

\* msg.receiver.FillFromInstance(receiver)
FillReceiver(t) ==
  /\ pc[t] = "receiver"
  /\ msg' = [msg EXCEPT ![t].hp = hp[receiver[t]]]
  /\ Goes(t, "check")
  /\ UNCHANGED <<gameVars, sender, receiver, damage, damages, calls, infoVars, histories>>

\* Mutant of Check: `||` for `&&`.
CheckEither(t) ==
  /\ pc[t] = "check"
  /\ Goes(t, IF msg[t].hp # 0 \/ msg[t].sender # Nobody THEN "send" ELSE "silent")
  /\ UNCHANGED <<gameVars, sender, receiver, damage, msg, damages, calls, infoVars, histories>>

\* if(msg.receiver.hp != 0 && msg.sender.handle != 0)
Check(t) ==
  /\ pc[t] = "check"
  /\ Goes(t, IF msg[t].hp # 0 /\ msg[t].sender # Nobody THEN "send" ELSE "silent")
  /\ UNCHANGED <<gameVars, sender, receiver, damage, msg, damages, calls, infoVars, histories>>

\* Net_SendData(dmg_json.dump())
Send(t) ==
  /\ pc[t] = "send"
  /\ damages' = Append(damages, [sender |-> msg[t].sender, receiver |-> receiver[t],
                                 hp |-> msg[t].hp, damage_value |-> damage[t]])
  /\ Goes(t, "sent")
  /\ UNCHANGED <<gameVars, sender, receiver, damage, msg, calls, infoVars, histories>>

\* ApplyDmgCallbackContinue: the game's function, which takes the damage.  With
\* the return the locals go.
Continue(t) ==
  /\ pc[t] \in {"silent", "sent"}
  /\ Goes(t, "game")
  /\ sender' = [sender EXCEPT ![t] = Nobody]
  /\ receiver' = [receiver EXCEPT ![t] = Nobody]
  /\ damage' = [damage EXCEPT ![t] = 0]
  /\ msg' = [msg EXCEPT ![t] = NoMessage]
  /\ LET r == receiver[t]
     IN  IF r # Nobody
         THEN HpBecomes(r, IF hp[r] > damage[t] THEN hp[r] - damage[t] ELSE 0)
         ELSE UNCHANGED <<hp, hpDuring, infoDuring>>
  /\ UNCHANGED <<alive, local, damages, calls, infoVars, released>>

Callback(t) ==
  FillSender(t) \/ FillReceiver(t) \/ Check(t) \/ Send(t) \/ Continue(t)

-----------------------------------------------------------------------------
(* on_message_server and GetLocalPlayerData, run by the io thread.         *)

\* A message with "info" in it has come.
Request ==
  /\ infoPc = "run"
  /\ Len(answers) < MaxInfos
  /\ infoPc' = "local"
  /\ infoDuring' = [c \in Characters |-> {hp[c]}]
  /\ UNCHANGED <<gameVars, threadVars, info, answers, hpDuring, released>>

\* Instance* local_instance = Game_GetLocalInstance(), and its handle.  With no
\* local player the answer is the empty string.
GetLocal ==
  /\ infoPc = "local"
  /\ info' = [NoInfo EXCEPT !.player = local]
  /\ infoPc' = IF local = Nobody THEN "answer" ELSE "hp"
  /\ UNCHANGED <<gameVars, threadVars, answers, histories>>

\* Mutant of FillHp: the local player is asked for again.
FillHpOfNewLocal ==
  /\ infoPc = "hp"
  /\ IF local \in alive THEN info' = [info EXCEPT !.hp = hp[local]]
                        ELSE \E h \in Hps : info' = [info EXCEPT !.hp = h]
  /\ infoPc' = "answer"
  /\ UNCHANGED <<gameVars, threadVars, answers, histories>>

\* this->hp = Game_GetCharacterCurrentHp(instance).  If the game has released the
\* character meanwhile the memory may hold anything.
FillHp ==
  /\ infoPc = "hp"
  /\ IF info.player \in alive THEN info' = [info EXCEPT !.hp = hp[info.player]]
                              ELSE \E h \in Hps : info' = [info EXCEPT !.hp = h]
  /\ infoPc' = "answer"
  /\ UNCHANGED <<gameVars, threadVars, answers, histories>>

\* s->send(hdl, data, msg->get_opcode())
Answer ==
  /\ infoPc = "answer"
  /\ answers' = Append(answers, info)
  /\ infoPc' = "run"
  /\ info' = NoInfo
  /\ infoDuring' = [c \in Characters |-> {}]
  /\ released' = FALSE
  /\ UNCHANGED <<gameVars, threadVars, hpDuring>>

OnMessage == Request \/ GetLocal \/ FillHp \/ Answer

-----------------------------------------------------------------------------
(* The game, in all its other functions.                                   *)

\* A character is healed, or falls.
GameSetsHp(c, h) ==
  /\ c \in alive
  /\ h # hp[c]
  /\ HpBecomes(c, h)
  /\ UNCHANGED <<alive, local, threadVars, infoVars, released>>

\* The player enters the game as c, or leaves it.
GameSetsLocal(c) ==
  /\ c \in alive \cup {Nobody}
  /\ c # local
  /\ local' = c
  /\ UNCHANGED <<hp, alive, threadVars, infoVars, histories>>

\* A character that nobody plays or fights any more is released.
GameReleases(c) ==
  /\ c \in alive
  /\ local # c
  /\ \A t \in Threads : c # sender[t] /\ c # receiver[t]
  /\ alive' = alive \ {c}
  /\ released' = (released \/ info.player = c)
  /\ UNCHANGED <<hp, local, threadVars, infoVars, hpDuring, infoDuring>>

Game ==
  \E c \in Characters :
    \/ \E h \in Hps : GameSetsHp(c, h)
    \/ GameSetsLocal(c) \/ GameReleases(c)

Next ==
  \/ \E t \in Threads :
       \/ Callback(t)
       \/ \E s, r \in alive \cup {Nobody}, d \in Damages : Call(t, s, r, d)
  \/ OnMessage
  \/ Game
  \/ GameSetsLocal(Nobody)

Spec == Init /\ [][Next]_vars

-----------------------------------------------------------------------------
(* Properties.                                                             *)

Info == [player : Pointers, hp : Hps]

TypeOK ==
  /\ hp \in [Characters -> Hps]
  /\ alive \subseteq Characters
  /\ local \in Pointers
  /\ pc \in [Threads -> {"game", "sender", "receiver", "check", "send", "sent", "silent"}]
  /\ sender \in [Threads -> Pointers]
  /\ receiver \in [Threads -> Pointers]
  /\ damage \in [Threads -> Damages]
  /\ msg \in [Threads -> [sender : Pointers, hp : Hps]]
  /\ damages \in Seq([sender : Characters, receiver : Characters, hp : Hps \ {0},
                      damage_value : Damages \ {0}])
  /\ calls \in 0..MaxCalls
  /\ infoPc \in {"run", "local", "hp", "answer"}
  /\ info \in Info
  /\ answers \in Seq(Info)
  /\ hpDuring \in [Threads -> SUBSET Hps]
  /\ infoDuring \in [Characters -> SUBSET Hps]
  /\ released \in BOOLEAN

(***************************************************************************)
(* A damage message shows an hp that its receiver had during the call, not *)
(* zero, although other hits and heals change it between the read, the     *)
(* check (functionality.cpp:117) and the send.                             *)
(***************************************************************************)
DamageConsistent ==
  \A t \in Threads : pc[t] = "send" =>
    /\ msg[t].sender = sender[t] /\ sender[t] # Nobody
    /\ msg[t].hp \in hpDuring[t] \ {0}

(***************************************************************************)
(* An answer to an "info" request does not mix two characters: its hp is   *)
(* one that the player it names had during the request, although the       *)
(* local player may change, unless the game released that player meanwhile *)
(* (functionality.cpp:161-166: the pointer is fetched once, and used       *)
(* without anything that keeps the character).                             *)
(***************************************************************************)
InfoConsistent ==
  infoPc = "answer" /\ info.player # Nobody /\ ~released =>
    info.hp \in infoDuring[info.player]

-----------------------------------------------------------------------------
(* The inductive invariant behind DamageConsistent and InfoConsistent.     *)

\* What the message of a call has, and where it has it from.
ThreadInv(t) ==
  /\ receiver[t] # Nobody => hp[receiver[t]] \in hpDuring[t]
  /\ pc[t] \in {"sender", "receiver", "check", "send", "sent"} =>
       receiver[t] # Nobody /\ damage[t] > 0
  /\ pc[t] \in {"receiver", "check", "send", "sent"} => msg[t].sender = sender[t]
  /\ pc[t] \in {"check", "send", "sent"} => msg[t].hp \in hpDuring[t]
  /\ pc[t] \in {"send", "sent"} => msg[t].hp # 0 /\ msg[t].sender # Nobody

\* What the io thread's pointer is worth: it leads to a character the game still
\* has, unless it was released after the pointer was fetched.
RequestInv ==
  /\ local \in alive \cup {Nobody}
  /\ infoPc # "run" => \A c \in Characters : hp[c] \in infoDuring[c]
  /\ infoPc = "hp" => info.player # Nobody /\ (released \/ info.player \in alive)
  /\ infoPc = "answer" /\ info.player # Nobody /\ ~released =>
       info.hp \in infoDuring[info.player]

IInv ==
  /\ TypeOK
  /\ RequestInv
  /\ \A t \in Threads : ThreadInv(t)

=============================================================================
