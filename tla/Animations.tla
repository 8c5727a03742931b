----------------------------- MODULE Animations -----------------------------
(***************************************************************************)
(* functionality.cpp: SetAnimationCallbackFunction, which the game's       *)
(* threads run in place of the game's SetAnimation (Hooking.tla shows how  *)
(* they get there), and the one variable it keeps, cur_player_anim_id.     *)
(*                                                                         *)
(* The variable is shared by all threads and all players, and is read and  *)
(* written without a lock.  Lines 130 and 131 may read it twice or, if the *)
(* compiler keeps the first value, once.                                   *)
(*                                                                         *)
(* Net_SendData is one step here: Networking.tla shows that the broadcasts *)
(* have one order.  Of the message the module keeps what it reports, of    *)
(* whom, and the death count.                                              *)
(***************************************************************************)
EXTENDS Naturals, Sequences

CONSTANTS
  Threads,    \* threads of the game that call SetAnimation
  Players,    \* the instances that Game_CharacterIsPlayer accepts
  Enemies,    \* the instances that it does not
  NoInstance, \* a null pointer
  LoadIn,     \* 0xF618
  EnterGame,  \* 0xFD2
  Deaths,     \* the ten animations of lines 141-145
  Others,     \* all other animations
  Zero,       \* animation 0x0, the first value of cur_player_anim_id
  Counts,     \* what Game_GetCurrentDeathCount may return
  MaxCalls    \* bound: calls of all threads together

Spawns == {LoadIn, EnterGame}
Ids == Spawns \cup Deaths \cup Others

ASSUME IdsAssumption ==
  /\ LoadIn # EnterGame
  /\ Spawns \cap Deaths = {}
  /\ Spawns \cap Others = {}
  /\ Deaths \cap Others = {}
  /\ Zero \in Others
ASSUME PlayersAssumption == NoInstance \notin Players /\ Enemies \cap Players = {}
ASSUME MaxCallsAssumption == MaxCalls \in Nat

VARIABLES
  cur_player_anim_id,
  pc,            \* per thread: where in the callback it is
  instance,      \* per thread: the instance its call is about
  anim_id,       \* per thread: the animation it sets
  prev_anim_id,  \* per thread: what it last read from cur_player_anim_id
  death_count,   \* per thread: the death count of its message
  sent,          \* the messages handed to Net_SendData, oldest first
  gameCount,     \* what Game_GetCurrentDeathCount would return now
  gameAnim,      \* per player: the animation the game shows, Zero before the first
  calls,         \* how many calls have begun
  answered       \* history: cur_player_anim_id has been reported since it was stored

threadVars == <<pc, instance, anim_id, prev_anim_id, death_count>>
sentVars == <<sent, answered>>
gameVars == <<gameCount, gameAnim, calls>>
vars == <<cur_player_anim_id, threadVars, sentVars, gameVars>>

Init ==
  /\ cur_player_anim_id = Zero
  /\ pc = [t \in Threads |-> "game"]
  /\ instance = [t \in Threads |-> NoInstance]
  /\ anim_id = [t \in Threads |-> Zero]
  /\ prev_anim_id = [t \in Threads |-> Zero]
  /\ gameCount \in Counts
  /\ death_count = [t \in Threads |-> gameCount]
  /\ sent = <<>>
  /\ gameAnim = [p \in Players |-> Zero]
  /\ calls = 0
  /\ answered = FALSE

-----------------------------------------------------------------------------

Goes(t, p) == pc' = [pc EXCEPT ![t] = p]

\* The game calls its hooked function.  A null module and everything that is
\* not a player have nothing to report.
Call(t, i, a) ==
  /\ pc[t] = "game"
  /\ calls < MaxCalls
  /\ calls' = calls + 1
  /\ instance' = [instance EXCEPT ![t] = i]
  /\ anim_id' = [anim_id EXCEPT ![t] = a]
  /\ Goes(t, IF i \in Players THEN "compare" ELSE "skip")
  /\ UNCHANGED <<cur_player_anim_id, prev_anim_id, death_count, sentVars, gameCount, gameAnim>>

\* if(cur_player_anim_id != anim_id)
Compare(t) ==
  /\ pc[t] = "compare"
  /\ prev_anim_id' = [prev_anim_id EXCEPT ![t] = cur_player_anim_id]
  /\ Goes(t, IF cur_player_anim_id # anim_id[t] THEN "save" ELSE "skip")
  /\ UNCHANGED <<cur_player_anim_id, instance, anim_id, death_count, sentVars, gameVars>>

\* prev_anim_id = cur_player_anim_id: the value compared, or read once more.
SavePrev(t) ==
  /\ pc[t] = "save"
  /\ \E v \in {prev_anim_id[t], cur_player_anim_id} :
       prev_anim_id' = [prev_anim_id EXCEPT ![t] = v]
  /\ Goes(t, "store")
  /\ UNCHANGED <<cur_player_anim_id, instance, anim_id, death_count, sentVars, gameVars>>

\* Mutant of Kind: each of the two spawn animations is a spawn of its own.
KindOfEach(b, a) ==
  CASE a \in Spawns -> "spawn"
    [] a \in Deaths -> "death"
    [] OTHER -> "nothing"

\* Mutant of Kind: `&&` for the `||` between the two spawns.  No animation is both.
KindNoSpawn(b, a) == IF a \in Deaths THEN "death" ELSE "nothing"

\* Mutant of Kind: a death straight after a death is the same one.
KindOfFirst(b, a) ==
  CASE (a = LoadIn /\ b # EnterGame) \/ (a = EnterGame /\ b # LoadIn) -> "spawn"
    [] a \in Deaths /\ b \notin Deaths -> "death"
    [] OTHER -> "nothing"

\* The conditions of lines 133 and 141-145.
Kind(b, a) ==
  CASE (a = LoadIn /\ b # EnterGame) \/ (a = EnterGame /\ b # LoadIn) -> "spawn"
    [] a \in Deaths -> "death"
    [] OTHER -> "nothing"

KindOf(t) == Kind(prev_anim_id[t], anim_id[t])

\* Mutant of Store: every new animation is reported.
StoreReportsAll(t) ==
  /\ pc[t] = "store"
  /\ cur_player_anim_id' = anim_id[t]
  /\ Goes(t, "count")
  /\ answered' = FALSE
  /\ UNCHANGED <<instance, anim_id, prev_anim_id, death_count, sent, gameVars>>

\* cur_player_anim_id = anim_id, and what this makes of the call.
Store(t) ==
  /\ pc[t] = "store"
  /\ cur_player_anim_id' = anim_id[t]
  /\ Goes(t, IF KindOf(t) = "nothing" THEN "skip" ELSE "count")
  /\ answered' = FALSE
  /\ UNCHANGED <<instance, anim_id, prev_anim_id, death_count, sent, gameVars>>

\* msg.death_count = Game_GetCurrentDeathCount()
ReadCount(t) ==
  /\ pc[t] = "count"
  /\ death_count' = [death_count EXCEPT ![t] = gameCount]
  /\ Goes(t, "send")
  /\ UNCHANGED <<cur_player_anim_id, instance, anim_id, prev_anim_id, sentVars, gameVars>>

\* Net_SendData(msg_json.dump())
Send(t) ==
  /\ pc[t] = "send"
  /\ sent' = Append(sent, [kind |-> KindOf(t), player |-> instance[t],
                           death_count |-> death_count[t]])
  /\ answered' = (answered \/ anim_id[t] = cur_player_anim_id)
  /\ Goes(t, "sent")
  /\ UNCHANGED <<cur_player_anim_id, instance, anim_id, prev_anim_id, death_count, gameVars>>

\* SetAnimationCallbackContinue: the game's function, which sets the animation.
Continue(t) ==
  /\ pc[t] \in {"skip", "sent"}
  /\ gameAnim' = [p \in Players |-> IF p = instance[t] THEN anim_id[t] ELSE gameAnim[p]]
  /\ Goes(t, "game")
  /\ UNCHANGED <<cur_player_anim_id, instance, anim_id, prev_anim_id, death_count,
                 sentVars, gameCount, calls>>

\* The game counts a death, or loads another character, or none.
GameSetsCount ==
  /\ gameCount' \in Counts \ {gameCount}
  /\ UNCHANGED <<cur_player_anim_id, threadVars, sentVars, gameAnim, calls>>

Callback(t) ==
  Compare(t) \/ SavePrev(t) \/ Store(t) \/ ReadCount(t) \/ Send(t) \/ Continue(t)

Next ==
  \/ \E t \in Threads :
       \/ Callback(t)
       \/ \E i \in Players \cup Enemies \cup {NoInstance}, a \in Ids : Call(t, i, a)
  \/ GameSetsCount

Spec == Init /\ [][Next]_vars

-----------------------------------------------------------------------------
(* Properties.                                                             *)

Message == [kind : {"spawn", "death"}, player : Players, death_count : Counts]

TypeOK ==
  /\ cur_player_anim_id \in Ids
  /\ pc \in [Threads -> {"game", "compare", "save", "store", "count", "send", "sent", "skip"}]
  /\ instance \in [Threads -> Players \cup Enemies \cup {NoInstance}]
  /\ anim_id \in [Threads -> Ids]
  /\ prev_anim_id \in [Threads -> Ids]
  /\ death_count \in [Threads -> Counts]
  /\ sent \in Seq(Message)
  /\ gameCount \in Counts
  /\ gameAnim \in [Players -> Ids]
  /\ calls \in 0..MaxCalls
  /\ answered \in BOOLEAN

\* The callback of t has something to report, and has not done so yet.
Pending(t) == pc[t] \in {"count", "send"}

(***************************************************************************)
(* However the threads race on the variable, no death is lost: a call is   *)
(* passed on as the repetition of a death (line 130) only if this death    *)
(* has been reported since it was stored, or a thread is about to.         *)
(***************************************************************************)
PassesOn(t) == Compare(t) /\ cur_player_anim_id = anim_id[t]
DeathsNotLost ==
  [][\A t \in Threads : PassesOn(t) /\ anim_id[t] \in Deaths =>
       answered \/ \E u \in Threads : Pending(u) /\ anim_id[u] = anim_id[t]]_vars

\* The call of t gave its player an animation that starts a spawn or a death.
Entering(t) ==
  LET b == gameAnim[instance[t]]
      a == anim_id[t]
  IN  (a \in Spawns /\ b \notin Spawns) \/ (a \in Deaths /\ b # a)

\* Animations that say the same of their player.
Alike(a, b) == a = b \/ {a, b} \subseteq Spawns

(***************************************************************************)
(* A player that enters the game, or dies, is reported (the comments of    *)
(* functionality.cpp:133-145): no call that sets such an animation to a    *)
(* player who was not in it is passed on without a message.  The code does *)
(* not have it, with a second player or a second thread.                   *)
(***************************************************************************)
EntriesReported ==
  \A t \in Threads : pc[t] = "skip" /\ instance[t] \in Players => ~Entering(t)

(***************************************************************************)
(* With one thread, what the code does have: a spawn or a death that is    *)
(* not reported was hidden by another player, who is in this animation,    *)
(* or in the other spawn animation, already.  One player misses none.      *)
(***************************************************************************)
MissedForAnother ==
  \A t \in Threads : pc[t] = "skip" /\ instance[t] \in Players /\ Entering(t) =>
    \E q \in Players \ {instance[t]} : Alike(gameAnim[q], anim_id[t])

(***************************************************************************)
(* With one thread, and any number of players, the callback reports what   *)
(* Lives would report if all the players were one: `party`.  The step of   *)
(* Lives is that in which the callback sends, or knows that it will not.   *)
(***************************************************************************)
Party == "party"
LastAnim == IF \E t \in Threads : Pending(t)
            THEN prev_anim_id[CHOOSE t \in Threads : Pending(t)]
            ELSE cur_player_anim_id

Merged == INSTANCE Lives WITH
  Players <- {Party},
  Unknown <- Zero,
  anim <- [p \in {Party} |-> LastAnim],
  reports <- [i \in DOMAIN sent |-> [kind |-> sent[i].kind, player |-> Party]]

ImplementsLives == Merged!Spec

-----------------------------------------------------------------------------
(* The invariants behind the properties above.                             *)

\* A thread past its comparison is about a player, and has something to report
\* from where it fills the message.
ThreadInv(t) ==
  /\ pc[t] \notin {"game", "skip"} => instance[t] \in Players
  /\ pc[t] \in {"count", "send", "sent"} => KindOf(t) # "nothing"

IInv == TypeOK /\ \A t \in Threads : ThreadInv(t)

\* A death in the variable that was not reported since has a thread that is about to, also
\* when several threads stored it, or others came and went in between.
DeathHasReporter ==
  cur_player_anim_id \in Deaths /\ ~answered =>
    \E u \in Threads : Pending(u) /\ anim_id[u] = cur_player_anim_id

\* When there is one thread, nobody comes between its accesses.
AloneInv(t) ==
  /\ pc[t] \in {"save", "store"} =>
       prev_anim_id[t] = cur_player_anim_id /\ cur_player_anim_id # anim_id[t]
  /\ pc[t] \in {"count", "send", "sent"} =>
       cur_player_anim_id = anim_id[t] /\ prev_anim_id[t] # anim_id[t]

\* Some player is in animation a, or it is none that is reported.
Held(a) == a \in Others \/ \E q \in Players : gameAnim[q] = a

\* When there is one thread, the animation it finds in the variable is held; past
\* the variable's change the callback knows whether there was something to report.
HeldInv(t) ==
  /\ pc[t] \in {"game", "compare", "save", "store"} => Held(cur_player_anim_id)
  /\ pc[t] = "skip" /\ instance[t] \notin Players => Held(cur_player_anim_id)
  /\ pc[t] = "skip" /\ instance[t] \in Players =>
       /\ cur_player_anim_id = anim_id[t]
       /\ \/ Held(anim_id[t])
          \/ Held(prev_anim_id[t]) /\ KindOf(t) = "nothing"

=============================================================================
