-------------------------- MODULE AnimationsProofs ---------------------------
(***************************************************************************)
(* Proofs about Animations.  For any number of threads: the types, and     *)
(* that no death is lost in their races.  For one thread: the reports      *)
(* are those of Lives, all players taken for one, and a spawn or a death   *)
(* goes unreported only because another player hides it; with one thread   *)
(* and one player none does.                                               *)
(***************************************************************************)
EXTENDS Animations, SequenceTheorems, TLAPS

(***************************************************************************)
(* The typing facts that the steps below use.                              *)
(***************************************************************************)
LEMMA Typing ==
  ASSUME TypeOK, NEW t \in Threads
  PROVE  /\ t \in DOMAIN pc
         /\ t \in DOMAIN instance
         /\ t \in DOMAIN anim_id
         /\ t \in DOMAIN prev_anim_id
         /\ t \in DOMAIN death_count
BY DEF TypeOK

(***************************************************************************)
(* Every step of a thread keeps the types; that a message is a spawn or a  *)
(* death of a player needs the invariant.                                  *)
(***************************************************************************)
LEMMA CallbackTypes ==
  ASSUME TypeOK, NEW t \in Threads, ThreadInv(t), Callback(t) PROVE TypeOK'
<1>1. CASE Compare(t)
  BY <1>1 DEF Compare, Goes, TypeOK, gameVars, sentVars
<1>2. CASE SavePrev(t)
  BY <1>2 DEF SavePrev, Goes, TypeOK, gameVars, sentVars
<1>3. CASE Store(t)
  BY <1>3 DEF Store, Goes, TypeOK, gameVars, sentVars
<1>4. CASE ReadCount(t)
  BY <1>4 DEF ReadCount, Goes, TypeOK, gameVars, sentVars
<1>5. CASE Send(t)
  <2> DEFINE m == [kind |-> KindOf(t), player |-> instance[t], death_count |-> death_count[t]]
  <2>1. KindOf(t) \in {"spawn", "death"}
    BY <1>5 DEF Send, ThreadInv, KindOf, Kind
  <2>2. instance[t] \in Players
    BY <1>5 DEF Send, ThreadInv
  <2>3. death_count[t] \in Counts /\ sent \in Seq(Message)
    BY DEF TypeOK
  <2>4. m \in Message
    BY <2>1, <2>2, <2>3 DEF Message
  <2>5. sent' = Append(sent, m)
    BY <1>5 DEF Send
  <2>6. sent' \in Seq(Message)
    <3> HIDE DEF m
    <3> QED BY <2>3, <2>4, <2>5
  <2>7. pc' = [pc EXCEPT ![t] = "sent"]
    BY <1>5 DEF Send, Goes
  <2> QED BY <1>5, <2>6, <2>7 DEF Send, TypeOK, gameVars, sentVars
<1>6. CASE Continue(t)
  BY <1>6 DEF Continue, Goes, TypeOK, sentVars
<1> QED BY <1>1, <1>2, <1>3, <1>4, <1>5, <1>6 DEF Callback

(***************************************************************************)
(* The beginning of a call keeps the types.                                *)
(***************************************************************************)
LEMMA CallTypes ==
  ASSUME TypeOK, NEW t \in Threads, NEW i \in Players \cup Enemies \cup {NoInstance},
         NEW a \in Ids, Call(t, i, a)
  PROVE  TypeOK'
<1>1. calls' \in 0..MaxCalls
  BY MaxCallsAssumption DEF Call, TypeOK
<1> QED BY <1>1 DEF Call, Goes, TypeOK, sentVars

(***************************************************************************)
(* The game's own step keeps the types.                                    *)
(***************************************************************************)
LEMMA GameTypes == ASSUME TypeOK, GameSetsCount PROVE TypeOK'
<1>1. gameCount' \in Counts
  BY DEF GameSetsCount
<1> QED BY <1>1 DEF GameSetsCount, TypeOK, threadVars, sentVars

(***************************************************************************)
(* What a step does to ThreadInv of any thread.                            *)
(***************************************************************************)
LEMMA ThreadStep ==
  ASSUME IInv, [Next]_vars, NEW u \in Threads PROVE ThreadInv(u)'
<1>1. TypeOK /\ ThreadInv(u)
  BY DEF IInv
<1>2. ASSUME NEW t \in Threads, Callback(t), t # u PROVE ThreadInv(u)'
  BY <1>1, <1>2 DEF Callback, Compare, SavePrev, Store, ReadCount, Send, Continue, Goes,
                    ThreadInv, KindOf, gameVars, sentVars, TypeOK
<1>3. CASE Compare(u)
  BY <1>1, <1>3 DEF Compare, Goes, ThreadInv, gameVars, sentVars, TypeOK
<1>4. CASE SavePrev(u)
  BY <1>1, <1>4 DEF SavePrev, Goes, ThreadInv, gameVars, sentVars, TypeOK
<1>5. CASE Store(u)
  BY <1>1, <1>5 DEF Store, Goes, ThreadInv, KindOf, gameVars, sentVars, TypeOK
<1>6. CASE ReadCount(u)
  BY <1>1, <1>6 DEF ReadCount, Goes, ThreadInv, KindOf, gameVars, sentVars, TypeOK
<1>7. CASE Send(u)
  BY <1>1, <1>7 DEF Send, Goes, ThreadInv, KindOf, gameVars, sentVars, TypeOK
<1>8. CASE Continue(u)
  BY <1>1, <1>8 DEF Continue, Goes, ThreadInv, TypeOK
<1>9. ASSUME NEW t \in Threads, NEW i \in Players \cup Enemies \cup {NoInstance}, NEW a \in Ids,
             Call(t, i, a)
      PROVE  ThreadInv(u)'
  <2>1. CASE t = u
    BY <1>1, <1>9, <2>1 DEF Call, Goes, ThreadInv, TypeOK
  <2>2. CASE t # u
    BY <1>1, <1>9, <2>2 DEF Call, Goes, ThreadInv, KindOf, TypeOK
  <2> QED BY <2>1, <2>2
<1>10. CASE GameSetsCount
  BY <1>1, <1>10 DEF GameSetsCount, ThreadInv, KindOf, threadVars, TypeOK
<1>11. CASE UNCHANGED vars
  BY <1>1, <1>11 DEF vars, threadVars, gameVars, sentVars, ThreadInv, KindOf
<1> QED BY <1>2, <1>3, <1>4, <1>5, <1>6, <1>7, <1>8, <1>9, <1>10, <1>11 DEF Next, Callback

(***************************************************************************)
(* IInv holds in every reachable state.                                    *)
(***************************************************************************)
THEOREM AnimationsInvariant == Spec => []IInv
<1>1. Init => IInv
  <2> SUFFICES ASSUME Init PROVE IInv
    OBVIOUS
  <2>1. answered \in BOOLEAN
    BY DEF Init
  <2>2. TypeOK
    BY <2>1, IdsAssumption, MaxCallsAssumption DEF Init, TypeOK, Ids
  <2> QED BY <2>2 DEF Init, IInv, ThreadInv
<1>2. IInv /\ [Next]_vars => IInv'
  <2> SUFFICES ASSUME IInv, [Next]_vars PROVE IInv'
    OBVIOUS
  <2>1. TypeOK'
    <3>1. CASE UNCHANGED vars
      BY <3>1 DEF vars, threadVars, gameVars, sentVars, IInv, TypeOK
    <3>2. CASE Next
      BY <3>2, CallbackTypes, CallTypes, GameTypes DEF Next, IInv
    <3> QED BY <3>1, <3>2
  <2> QED BY <2>1, ThreadStep DEF IInv
<1> QED BY <1>1, <1>2, PTL DEF Spec

(***************************************************************************)
(* The types of the variables.                                             *)
(***************************************************************************)
THEOREM AnimationsTypes == Spec => []TypeOK
<1>1. IInv => TypeOK
  BY DEF IInv
<1> QED BY <1>1, AnimationsInvariant, PTL

(***************************************************************************)
(* A thread that is not the one of the step goes on reporting what it was. *)
(***************************************************************************)
LEMMA ReporterStays ==
  ASSUME TypeOK, NEW t \in Threads, NEW u \in Threads, t # u, Pending(u),
         Callback(t) \/ \E i \in Players \cup Enemies \cup {NoInstance}, a \in Ids : Call(t, i, a)
  PROVE  Pending(u)' /\ anim_id'[u] = anim_id[u]
BY Typing DEF Callback, Compare, SavePrev, Store, ReadCount, Send, Continue, Call, Goes,
              Pending, TypeOK

(***************************************************************************)
(* A step of a thread that leaves the variable and its history alone: the  *)
(* thread that reports goes on doing so, also when it is this one.         *)
(***************************************************************************)
LEMMA ReporterGoesOn ==
  ASSUME TypeOK, DeathHasReporter, NEW t \in Threads,
         \/ Compare(t) \/ SavePrev(t) \/ ReadCount(t) \/ Continue(t)
         \/ \E i \in Players \cup Enemies \cup {NoInstance}, a \in Ids : Call(t, i, a)
  PROVE  DeathHasReporter'
<1>1. cur_player_anim_id' = cur_player_anim_id /\ answered' = answered
  BY DEF Compare, SavePrev, ReadCount, Continue, Call, sentVars
<1>2. SUFFICES ASSUME cur_player_anim_id \in Deaths, ~answered
               PROVE  \E u \in Threads : Pending(u)' /\ anim_id'[u] = cur_player_anim_id
  BY <1>1 DEF DeathHasReporter
<1>3. PICK u \in Threads : Pending(u) /\ anim_id[u] = cur_player_anim_id
  BY <1>2 DEF DeathHasReporter
<1>4. CASE t # u
  BY <1>3, <1>4, ReporterStays DEF Callback
<1>5. CASE t = u
  <2>1. ReadCount(u)
    BY <1>3, <1>5 DEF Compare, SavePrev, Continue, Call, Pending
  <2>2. Pending(u)' /\ anim_id'[u] = anim_id[u]
    BY <2>1, Typing DEF ReadCount, Goes, Pending
  <2> QED BY <1>3, <2>2
<1> QED BY <1>4, <1>5

(***************************************************************************)
(* Every step keeps DeathHasReporter: who stores a death reports it, and   *)
(* who stores something else leaves no death in the variable.              *)
(***************************************************************************)
LEMMA DeathHasReporterStep ==
  ASSUME TypeOK, DeathHasReporter, [Next]_vars PROVE DeathHasReporter'
<1>1. ASSUME NEW t \in Threads, Store(t) PROVE DeathHasReporter'
  <2>1. /\ pc[t] = "store" /\ cur_player_anim_id' = anim_id[t] /\ anim_id' = anim_id
        /\ pc'[t] = IF KindOf(t) = "nothing" THEN "skip" ELSE "count"
    BY <1>1, Typing DEF Store, Goes
  <2>2. ASSUME anim_id[t] \in Deaths PROVE KindOf(t) = "death"
    BY <2>2, IdsAssumption DEF KindOf, Kind, Spawns
  <2> QED BY <2>1, <2>2 DEF DeathHasReporter, Pending
<1>2. ASSUME NEW t \in Threads, Send(t) PROVE DeathHasReporter'
  <2>1. /\ cur_player_anim_id' = cur_player_anim_id
        /\ answered' = (answered \/ anim_id[t] = cur_player_anim_id)
    BY <1>2 DEF Send
  <2>2. SUFFICES ASSUME cur_player_anim_id \in Deaths, ~answered, anim_id[t] # cur_player_anim_id
                 PROVE  \E u \in Threads : Pending(u)' /\ anim_id'[u] = cur_player_anim_id
    BY <2>1 DEF DeathHasReporter
  <2>3. PICK u \in Threads : Pending(u) /\ anim_id[u] = cur_player_anim_id
    BY <2>2 DEF DeathHasReporter
  <2>4. Pending(u)' /\ anim_id'[u] = anim_id[u]
    BY <1>2, <2>2, <2>3, ReporterStays DEF Callback
  <2> QED BY <2>3, <2>4
<1>3. CASE GameSetsCount \/ UNCHANGED vars
  BY <1>3 DEF GameSetsCount, vars, threadVars, sentVars, DeathHasReporter, Pending
<1> QED BY <1>1, <1>2, <1>3, ReporterGoesOn DEF Next, Callback

(***************************************************************************)
(* Whatever threads race on cur_player_anim_id, a death is passed on as a  *)
(* repetition (functionality.cpp:130) only when it has been reported since *)
(* it was stored or a thread is about to report it.                        *)
(***************************************************************************)
THEOREM NoDeathIsLost == Spec => DeathsNotLost
<1>1. Init => DeathHasReporter
  BY IdsAssumption DEF Init, DeathHasReporter
<1>2. TypeOK /\ DeathHasReporter /\ [Next]_vars => DeathHasReporter'
  BY DeathHasReporterStep
<1>3. DeathHasReporter =>
        [\A t \in Threads : PassesOn(t) /\ anim_id[t] \in Deaths =>
           answered \/ \E u \in Threads : Pending(u) /\ anim_id[u] = anim_id[t]]_vars
  BY DEF DeathHasReporter, PassesOn
<1> QED BY <1>1, <1>2, <1>3, AnimationsTypes, PTL DEF Spec, DeathsNotLost

-----------------------------------------------------------------------------
(* One thread.                                                             *)

(***************************************************************************)
(* With one thread, a step keeps AloneInv: what the thread compared is     *)
(* still there when it saves and stores.                                   *)
(***************************************************************************)
LEMMA AloneStep ==
  ASSUME NEW g, Threads = {g}, TypeOK, AloneInv(g), [Next]_vars PROVE AloneInv(g)'
<1>1. g \in Threads
  OBVIOUS
<1>2. CASE Compare(g)
  BY <1>1, <1>2, Typing DEF Compare, Goes, AloneInv
<1>3. CASE SavePrev(g)
  BY <1>1, <1>3, Typing DEF SavePrev, Goes, AloneInv
<1>4. CASE Store(g)
  BY <1>1, <1>4, Typing DEF Store, Goes, AloneInv
<1>5. CASE ReadCount(g)
  BY <1>1, <1>5, Typing DEF ReadCount, Goes, AloneInv
<1>6. CASE Send(g)
  BY <1>1, <1>6, Typing DEF Send, Goes, AloneInv
<1>7. CASE Continue(g)
  BY <1>1, <1>7, Typing DEF Continue, Goes, AloneInv
<1>8. ASSUME NEW i, NEW a, Call(g, i, a) PROVE AloneInv(g)'
  BY <1>1, <1>8, Typing DEF Call, Goes, AloneInv
<1>9. CASE GameSetsCount \/ UNCHANGED vars
  BY <1>9 DEF GameSetsCount, vars, threadVars, AloneInv
<1> QED BY <1>2, <1>3, <1>4, <1>5, <1>6, <1>7, <1>8, <1>9 DEF Next, Callback

(***************************************************************************)
(* For one thread, AloneInv holds in every reachable state.                *)
(***************************************************************************)
LEMMA AloneInvariant ==
  ASSUME NEW g, Threads = {g} PROVE Spec => [](IInv /\ AloneInv(g))
<1>1. Init => AloneInv(g)
  BY DEF Init, AloneInv
<1>2. IInv /\ AloneInv(g) /\ [Next]_vars => AloneInv(g)'
  BY AloneStep DEF IInv
<1> QED BY <1>1, <1>2, AnimationsInvariant, PTL DEF Spec

(***************************************************************************)
(* For two different animations the conditions in the code say what Lives  *)
(* says: the second of two spawn animations in a row is no spawn.          *)
(***************************************************************************)
LEMMA KindsAgree ==
  ASSUME NEW b \in Ids, NEW a \in Ids, a # b PROVE Kind(b, a) = Merged!Kind(b, a)
<1>1. LoadIn # EnterGame /\ Spawns \cap Deaths = {}
  BY IdsAssumption
<1>2. CASE a \in Spawns
  BY <1>1, <1>2 DEF Kind, Merged!Kind, Spawns
<1>3. CASE a \in Deaths
  <2>1. a # LoadIn /\ a # EnterGame /\ a \notin Spawns
    BY <1>1, <1>3 DEF Spawns
  <2> QED BY <1>3, <2>1 DEF Kind, Merged!Kind
<1>4. CASE a \notin Spawns /\ a \notin Deaths
  BY <1>4 DEF Kind, Merged!Kind, Spawns
<1> QED BY <1>2, <1>3, <1>4

(***************************************************************************)
(* With one thread, LastAnim is what this thread makes of it.              *)
(***************************************************************************)
LEMMA LastAnimAlone ==
  ASSUME NEW g, Threads = {g}
  PROVE  /\ LastAnim = IF Pending(g) THEN prev_anim_id[g] ELSE cur_player_anim_id
         /\ LastAnim' = IF Pending(g)' THEN prev_anim_id'[g] ELSE cur_player_anim_id'
<1>1. /\ (\E t \in Threads : Pending(t)) <=> Pending(g)
      /\ Pending(g) => (CHOOSE t \in Threads : Pending(t)) = g
  OBVIOUS
<1>2. /\ (\E t \in Threads : Pending(t)') <=> Pending(g)'
      /\ Pending(g)' => (CHOOSE t \in Threads : Pending(t)') = g
  OBVIOUS
<1> QED BY <1>1, <1>2 DEF LastAnim

\* The reports of Lives that the messages of s stand for.
Reported(s) == [i \in DOMAIN s |-> [kind |-> s[i].kind, player |-> Party]]

(***************************************************************************)
(* One more message stands for one more report.                            *)
(***************************************************************************)
LEMMA ReportedAppend ==
  ASSUME NEW s \in Seq(Message), NEW m \in Message
  PROVE  Reported(Append(s, m)) = Append(Reported(s), [kind |-> m.kind, player |-> Party])
<1> DEFINE r(x) == [kind |-> x.kind, player |-> Party]
<1>1. Append(s, m) \in Seq(Message) /\ Len(Append(s, m)) = Len(s) + 1
  OBVIOUS
<1>2. \A i \in 1..Len(s) + 1 : Append(s, m)[i] = IF i = Len(s) + 1 THEN m ELSE s[i]
  OBVIOUS
<1>3. Reported(Append(s, m)) = [i \in 1..Len(s) + 1 |-> r(IF i = Len(s) + 1 THEN m ELSE s[i])]
  BY <1>1, <1>2 DEF Reported
<1>4. Reported(s) = [i \in 1..Len(s) |-> r(s[i])]
  BY DEF Reported
<1>5. Reported(s) \in Seq({r(x) : x \in Message}) /\ Len(Reported(s)) = Len(s)
  BY <1>4
<1>6. Append(Reported(s), r(m)) =
        [i \in 1..Len(s) + 1 |-> IF i = Len(s) + 1 THEN r(m) ELSE Reported(s)[i]]
  BY <1>5
<1> QED BY <1>3, <1>4, <1>6

(***************************************************************************)
(* One thread and any number of players: every step of the callback is a   *)
(* step of Lives, or none.                                                 *)
(***************************************************************************)
LEMMA LivesStep ==
  ASSUME NEW g, Threads = {g}, IInv, AloneInv(g), [Next]_vars
  PROVE  \/ Merged!Next
         \/ UNCHANGED <<[p \in {Party} |-> LastAnim], Reported(sent)>>
<1>1. g \in Threads /\ TypeOK /\ ThreadInv(g)
  BY DEF IInv
<1>2. /\ anim_id[g] \in Ids /\ prev_anim_id[g] \in Ids /\ cur_player_anim_id \in Ids
      /\ sent \in Seq(Message)
  BY <1>1 DEF TypeOK
<1>3. CASE Store(g)
  <2>1. /\ pc[g] = "store" /\ sent' = sent /\ cur_player_anim_id' = anim_id[g]
        /\ prev_anim_id' = prev_anim_id
        /\ pc'[g] = IF KindOf(g) = "nothing" THEN "skip" ELSE "count"
    BY <1>1, <1>3, Typing DEF Store, Goes
  <2>2. LastAnim = cur_player_anim_id
    BY <2>1, LastAnimAlone DEF Pending
  <2>3. prev_anim_id[g] = cur_player_anim_id /\ prev_anim_id[g] # anim_id[g]
    BY <2>1 DEF AloneInv
  <2>4. CASE KindOf(g) = "nothing"
    <3>1. LastAnim' = anim_id[g]
      BY <2>1, <2>4, LastAnimAlone DEF Pending
    <3>2. Merged!Kind(LastAnim, anim_id[g]) = "nothing"
      BY <1>2, <2>2, <2>3, <2>4, KindsAgree DEF KindOf
    <3>3. Merged!SetAnimation(Party, anim_id[g])
      BY <2>1, <3>1, <3>2 DEF Merged!SetAnimation
    <3>4. anim_id[g] \in Spawns \cup Deaths \cup Others
      BY <1>2 DEF Ids
    <3> QED BY <3>3, <3>4, Zenon DEF Merged!Next, Merged!SetAnimation
  <2>5. CASE KindOf(g) # "nothing"
    <3>1. LastAnim' = LastAnim
      BY <2>1, <2>2, <2>3, <2>5, LastAnimAlone DEF Pending
    <3> QED BY <2>1, <3>1
  <2> QED BY <2>4, <2>5
<1>4. CASE Send(g)
  <2> DEFINE m == [kind |-> KindOf(g), player |-> instance[g], death_count |-> death_count[g]]
  <2>1. /\ pc[g] = "send" /\ pc'[g] = "sent" /\ sent' = Append(sent, m)
        /\ cur_player_anim_id' = cur_player_anim_id
    BY <1>1, <1>4, Typing DEF Send, Goes
  <2>2. /\ KindOf(g) # "nothing" /\ cur_player_anim_id = anim_id[g]
        /\ prev_anim_id[g] # anim_id[g]
    BY <1>1, <2>1 DEF ThreadInv, AloneInv
  <2>3. LastAnim = prev_anim_id[g] /\ LastAnim' = anim_id[g]
    BY <2>1, <2>2, LastAnimAlone DEF Pending
  <2>4. KindOf(g) = Merged!Kind(LastAnim, anim_id[g])
    BY <1>2, <2>2, <2>3, KindsAgree DEF KindOf
  <2>5. m \in Message
    <3>1. KindOf(g) \in {"spawn", "death"}
      BY <2>2 DEF KindOf, Kind
    <3>2. instance[g] \in Players /\ death_count[g] \in Counts
      BY <1>1, <2>1 DEF ThreadInv, TypeOK
    <3> QED BY <3>1, <3>2 DEF Message
  <2>6. Reported(sent)' = Append(Reported(sent), [kind |-> KindOf(g), player |-> Party])
    BY <1>2, <2>1, <2>5, ReportedAppend
  <2>7. Merged!SetAnimation(Party, anim_id[g])
    BY <2>2, <2>3, <2>4, <2>6 DEF Merged!SetAnimation, Reported
  <2>8. anim_id[g] \in Spawns \cup Deaths \cup Others
    BY <1>2 DEF Ids
  <2> QED BY <2>7, <2>8, Zenon DEF Merged!Next, Merged!SetAnimation
<1>5. CASE Compare(g)
  BY <1>1, <1>5, Typing, LastAnimAlone DEF Compare, Goes, Pending, sentVars
<1>6. CASE SavePrev(g)
  BY <1>1, <1>6, Typing, LastAnimAlone DEF SavePrev, Goes, Pending, sentVars
<1>7. CASE ReadCount(g)
  BY <1>1, <1>7, Typing, LastAnimAlone DEF ReadCount, Goes, Pending, sentVars
<1>8. CASE Continue(g)
  BY <1>1, <1>8, Typing, LastAnimAlone DEF Continue, Goes, Pending, sentVars
<1>9. ASSUME NEW i, NEW a, Call(g, i, a)
      PROVE  UNCHANGED <<[p \in {Party} |-> LastAnim], Reported(sent)>>
  BY <1>1, <1>9, Typing, LastAnimAlone DEF Call, Goes, Pending, sentVars
<1>10. CASE GameSetsCount \/ UNCHANGED vars
  BY <1>10, LastAnimAlone DEF GameSetsCount, vars, threadVars, Pending, sentVars
<1> QED BY <1>3, <1>4, <1>5, <1>6, <1>7, <1>8, <1>9, <1>10 DEF Next, Callback

(***************************************************************************)
(* One thread and any number of players: the callback implements Lives for *)
(* the players taken as one.  It is as much as cur_player_anim_id, one     *)
(* variable for all of them, allows.                                       *)
(***************************************************************************)
THEOREM AloneImplementsLives ==
  ASSUME NEW g, Threads = {g} PROVE Spec => ImplementsLives
<1>1. Init => Merged!Init
  <2> SUFFICES ASSUME Init PROVE Merged!Init
    OBVIOUS
  <2>1. LastAnim = Zero
    BY LastAnimAlone DEF Init, Pending
  <2>2. [i \in DOMAIN sent |-> [kind |-> sent[i].kind, player |-> Party]] = <<>>
    BY DEF Init
  <2> QED BY <2>1, <2>2 DEF Merged!Init
<1>2. IInv /\ AloneInv(g) /\ [Next]_vars =>
        [Merged!Next]_<<[p \in {Party} |-> LastAnim],
                        [i \in DOMAIN sent |-> [kind |-> sent[i].kind, player |-> Party]]>>
  BY LivesStep DEF Reported
<1> QED BY <1>1, <1>2, AloneInvariant, PTL DEF Spec, ImplementsLives, Merged!Spec

-----------------------------------------------------------------------------
(* One thread: what hides a report.                                        *)

(***************************************************************************)
(* When the callback passes a call on, the game sets the animation that    *)
(* the variable has to the player of the call.                             *)
(***************************************************************************)
LEMMA HeldContinue ==
  ASSUME NEW g, Threads = {g}, IInv, AloneInv(g), HeldInv(g), Continue(g)
  PROVE  HeldInv(g)'
<1>1. g \in Threads /\ TypeOK /\ ThreadInv(g)
  BY DEF IInv
<1>2. /\ pc[g] \in {"skip", "sent"}
      /\ pc'[g] = "game" /\ cur_player_anim_id' = cur_player_anim_id
      /\ gameAnim' = [p \in Players |-> IF p = instance[g] THEN anim_id[g] ELSE gameAnim[p]]
  BY <1>1, Typing DEF Continue, Goes
<1>3. CASE instance[g] \in Players
  <2>1. cur_player_anim_id = anim_id[g]
    BY <1>2, <1>3 DEF HeldInv, AloneInv
  <2>2. gameAnim'[instance[g]] = anim_id[g]
    BY <1>2, <1>3
  <2> QED BY <1>2, <1>3, <2>1, <2>2 DEF HeldInv, Held
<1>4. CASE instance[g] \notin Players
  <2>1. Held(cur_player_anim_id)
    BY <1>1, <1>2, <1>4 DEF HeldInv, ThreadInv
  <2>2. \A q \in Players : gameAnim'[q] = gameAnim[q]
    BY <1>2, <1>4
  <2> QED BY <1>2, <2>1, <2>2 DEF HeldInv, Held
<1> QED BY <1>3, <1>4

(***************************************************************************)
(* Every step keeps HeldInv.                                               *)
(***************************************************************************)
LEMMA HeldStep ==
  ASSUME NEW g, Threads = {g}, IInv, AloneInv(g), HeldInv(g), [Next]_vars
  PROVE  HeldInv(g)'
<1>1. g \in Threads /\ TypeOK /\ ThreadInv(g)
  BY DEF IInv
<1>2. CASE Compare(g)
  BY <1>1, <1>2, Typing DEF Compare, Goes, HeldInv, Held, ThreadInv, gameVars, sentVars
<1>3. CASE SavePrev(g)
  BY <1>1, <1>3, Typing DEF SavePrev, Goes, HeldInv, Held, gameVars, sentVars
<1>4. CASE Store(g)
  <2>1. /\ pc[g] = "store" /\ cur_player_anim_id' = anim_id[g]
        /\ pc'[g] = IF KindOf(g) = "nothing" THEN "skip" ELSE "count"
        /\ UNCHANGED <<instance, anim_id, prev_anim_id, gameAnim>>
    BY <1>1, <1>4, Typing DEF Store, Goes, gameVars, sentVars
  <2>2. Held(prev_anim_id[g]) /\ instance[g] \in Players
    BY <1>1, <2>1 DEF HeldInv, AloneInv, ThreadInv
  <2>3. KindOf(g)' = KindOf(g) /\ (Held(prev_anim_id[g]))' = Held(prev_anim_id[g])
    BY <2>1 DEF KindOf, Held
  <2> QED BY <2>1, <2>2, <2>3 DEF HeldInv
<1>5. CASE ReadCount(g)
  BY <1>1, <1>5, Typing DEF ReadCount, Goes, HeldInv, gameVars, sentVars
<1>6. CASE Send(g)
  BY <1>1, <1>6, Typing DEF Send, Goes, HeldInv, gameVars, sentVars
<1>7. CASE Continue(g)
  BY <1>7, HeldContinue
<1>8. ASSUME NEW i, NEW a, Call(g, i, a) PROVE HeldInv(g)'
  BY <1>1, <1>8, Typing DEF Call, Goes, HeldInv, Held
<1>9. CASE GameSetsCount \/ UNCHANGED vars
  BY <1>9 DEF GameSetsCount, vars, threadVars, gameVars, sentVars, HeldInv, Held, KindOf
<1> QED BY <1>2, <1>3, <1>4, <1>5, <1>6, <1>7, <1>8, <1>9 DEF Next, Callback

(***************************************************************************)
(* One thread: a spawn or a death goes unreported only when another player *)
(* is in the animation already, so that a player alone misses none.        *)
(***************************************************************************)
THEOREM AloneMissedForAnother ==
  ASSUME NEW g, Threads = {g} PROVE Spec => []MissedForAnother
<1>1. Init => HeldInv(g)
  BY IdsAssumption DEF Init, HeldInv, Held
<1>2. IInv /\ AloneInv(g) /\ HeldInv(g) /\ [Next]_vars => HeldInv(g)'
  BY HeldStep
<1>3. IInv /\ HeldInv(g) => MissedForAnother
  <2> SUFFICES ASSUME IInv, HeldInv(g), pc[g] = "skip", instance[g] \in Players, Entering(g)
               PROVE  \E q \in Players \ {instance[g]} : Alike(gameAnim[q], anim_id[g])
    BY DEF MissedForAnother
  <2>1. CASE Held(anim_id[g])
    BY <2>1, IdsAssumption DEF Held, Entering, Alike, Spawns
  <2>2. CASE Held(prev_anim_id[g]) /\ KindOf(g) = "nothing"
    <3>1. anim_id[g] \in Spawns /\ prev_anim_id[g] \in Spawns
      BY <2>2 DEF Entering, KindOf, Kind, Spawns
    <3> QED BY <2>2, <3>1, IdsAssumption DEF Held, Entering, Alike, Spawns
  <2> QED BY <2>1, <2>2 DEF HeldInv
<1> QED BY <1>1, <1>2, <1>3, AloneInvariant, PTL DEF Spec

(***************************************************************************)
(* What the comments of functionality.cpp:133-145 say is so while the game *)
(* has one player and calls SetAnimation from one thread: no spawn and no  *)
(* death goes unreported, whatever the characters that are no players do.  *)
(***************************************************************************)
THEOREM LonePlayerMissesNone ==
  ASSUME NEW g, Threads = {g}, NEW p, Players = {p} PROVE Spec => []EntriesReported
<1>1. MissedForAnother => EntriesReported
  <2>1. \A q \in Players : Players \ {q} = {}
    OBVIOUS
  <2> QED BY <2>1 DEF MissedForAnother, EntriesReported
<1> QED BY <1>1, AloneMissedForAnother, PTL

=============================================================================
