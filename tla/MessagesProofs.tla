---------------------------- MODULE MessagesProofs ----------------------------
(***************************************************************************)
(* Proofs about Messages, for any number of threads and characters, and    *)
(* for any hp: the types, that a damage message shows an hp its receiver   *)
(* had during the call, and that an answer to a request does not mix two   *)
(* characters.                                                             *)
(***************************************************************************)
EXTENDS Messages, SequenceTheorems, TLAPS

(***************************************************************************)
(* The typing facts about one thread that the steps below use.             *)
(***************************************************************************)
LEMMA Typing ==
  ASSUME TypeOK, NEW t \in Threads
  PROVE  /\ t \in DOMAIN pc
         /\ t \in DOMAIN sender /\ sender[t] \in Pointers
         /\ t \in DOMAIN receiver /\ receiver[t] \in Pointers
         /\ t \in DOMAIN damage /\ damage[t] \in Damages
         /\ t \in DOMAIN msg /\ msg[t] \in [sender : Pointers, hp : Hps]
         /\ t \in DOMAIN hpDuring
BY DEF TypeOK

(***************************************************************************)
(* A thread of the game writes to the fields of its own message only.      *)
(***************************************************************************)
LEMMA FillSenderFields ==
  ASSUME TypeOK, NEW t \in Threads, FillSender(t)
  PROVE  /\ msg' \in [Threads -> [sender : Pointers, hp : Hps]]
         /\ msg'[t].sender = sender[t]
         /\ \A u \in Threads \ {t} : msg'[u] = msg[u]
<1>1. msg \in [Threads -> [sender : Pointers, hp : Hps]] /\ sender[t] \in Pointers
  BY DEF TypeOK
<1>2. msg' = [msg EXCEPT ![t].sender = sender[t]]
  BY DEF FillSender
<1> QED BY <1>1, <1>2

(***************************************************************************)
(* The hp of the message is the receiver's at that moment.                 *)
(***************************************************************************)
LEMMA FillReceiverFields ==
  ASSUME TypeOK, NEW t \in Threads, FillReceiver(t), receiver[t] # Nobody
  PROVE  /\ msg' \in [Threads -> [sender : Pointers, hp : Hps]]
         /\ msg'[t].sender = msg[t].sender
         /\ msg'[t].hp = hp[receiver[t]]
         /\ \A u \in Threads \ {t} : msg'[u] = msg[u]
<1>1. msg \in [Threads -> [sender : Pointers, hp : Hps]]
  BY DEF TypeOK
<1>2. hp[receiver[t]] \in Hps
  BY Typing DEF TypeOK, Pointers
<1>3. msg' = [msg EXCEPT ![t].hp = hp[receiver[t]]]
  BY DEF FillReceiver
<1> QED BY <1>1, <1>2, <1>3

(***************************************************************************)
(* Whoever changes an hp, the histories have the new value, and keep what  *)
(* they had.                                                               *)
(***************************************************************************)
LEMMA HpChange ==
  ASSUME TypeOK, NEW c \in Characters, NEW h \in Hps, HpBecomes(c, h)
  PROVE  /\ hp' \in [Characters -> Hps]
         /\ hpDuring' \in [Threads -> SUBSET Hps]
         /\ infoDuring' \in [Characters -> SUBSET Hps]
         /\ \A t \in Threads : hpDuring[t] \subseteq hpDuring'[t]
         /\ \A t \in Threads : receiver[t] # Nobody /\ hp[receiver[t]] \in hpDuring[t] =>
              hp'[receiver[t]] \in hpDuring'[t]
         /\ \A d \in Characters : infoDuring[d] \subseteq infoDuring'[d]
         /\ infoPc # "run" /\ (\A d \in Characters : hp[d] \in infoDuring[d]) =>
              \A d \in Characters : hp'[d] \in infoDuring'[d]
<1>1. /\ hp \in [Characters -> Hps] /\ hpDuring \in [Threads -> SUBSET Hps]
      /\ infoDuring \in [Characters -> SUBSET Hps]
      /\ \A t \in Threads : receiver[t] # Nobody => receiver[t] \in Characters
  BY DEF TypeOK, Pointers
<1>2. hp' = [hp EXCEPT ![c] = h]
  BY DEF HpBecomes
<1>3. \A t \in Threads :
        hpDuring'[t] = IF receiver[t] = c THEN hpDuring[t] \cup {h} ELSE hpDuring[t]
  BY DEF HpBecomes
<1>4. hpDuring' \in [Threads -> SUBSET Hps]
  <2>1. \A t \in Threads :
          (IF receiver[t] = c THEN hpDuring[t] \cup {h} ELSE hpDuring[t]) \in SUBSET Hps
    BY <1>1
  <2> QED BY <2>1 DEF HpBecomes
<1>5. infoPc = "run" => infoDuring' = infoDuring
  BY DEF HpBecomes
<1>6. infoPc # "run" => infoDuring' = [infoDuring EXCEPT ![c] = @ \cup {h}]
  BY DEF HpBecomes
<1>7. infoPc # "run" => infoDuring'[c] = infoDuring[c] \cup {h}
                        /\ \A d \in Characters \ {c} : infoDuring'[d] = infoDuring[d]
  BY <1>1, <1>6
<1>8. infoDuring' \in [Characters -> SUBSET Hps]
  BY <1>1, <1>5, <1>6
<1>9. \A d \in Characters : infoDuring[d] \subseteq infoDuring'[d]
  BY <1>5, <1>7
<1>10. \A t \in Threads : receiver[t] # Nobody /\ hp[receiver[t]] \in hpDuring[t] =>
         hp'[receiver[t]] \in hpDuring'[t]
  BY <1>1, <1>2, <1>3
<1>11. infoPc # "run" /\ (\A d \in Characters : hp[d] \in infoDuring[d]) =>
         \A d \in Characters : hp'[d] \in infoDuring'[d]
  BY <1>1, <1>2, <1>7
<1> QED BY <1>1, <1>2, <1>3, <1>4, <1>8, <1>9, <1>10, <1>11

(***************************************************************************)
(* What the game's function leaves of an hp is an hp.                      *)
(***************************************************************************)
LEMMA HpAfterHit ==
  ASSUME NEW x \in Hps, NEW d \in Damages
  PROVE  (IF x > d THEN x - d ELSE 0) \in Hps
BY MessageBoundsAssumption DEF Hps, Damages

-----------------------------------------------------------------------------
(* The types.                                                              *)

(***************************************************************************)
(* What is sent is a complete damage message.                              *)
(***************************************************************************)
LEMMA SendTypes ==
  ASSUME TypeOK, NEW t \in Threads, ThreadInv(t), Send(t) PROVE TypeOK'
<1> DEFINE m == [sender |-> msg[t].sender, receiver |-> receiver[t],
                 hp |-> msg[t].hp, damage_value |-> damage[t]]
           M == [sender : Characters, receiver : Characters, hp : Hps \ {0},
                 damage_value : Damages \ {0}]
<1>1. /\ receiver[t] # Nobody /\ damage[t] > 0
      /\ msg[t].hp # 0 /\ msg[t].sender # Nobody
  BY DEF Send, ThreadInv
<1>2. /\ msg[t].sender \in Pointers /\ msg[t].hp \in Hps
      /\ receiver[t] \in Pointers /\ damage[t] \in Damages
  BY Typing
<1>3. damage[t] # 0
  BY <1>1, <1>2, MessageBoundsAssumption DEF Damages
<1>4. m \in M
  BY <1>1, <1>2, <1>3 DEF Pointers
<1>5. damages \in Seq(M) /\ damages' = Append(damages, m)
  BY DEF TypeOK, Send
<1>6. damages' \in Seq(M)
  <2> HIDE DEF m, M
  <2> QED BY <1>4, <1>5
<1>7. pc' = [pc EXCEPT ![t] = "sent"]
  BY DEF Send, Goes
<1> QED BY <1>6, <1>7 DEF Send, TypeOK, gameVars, infoVars, histories

(***************************************************************************)
(* The end of a call keeps the types.                                      *)
(***************************************************************************)
LEMMA ContinueTypes ==
  ASSUME TypeOK, NEW t \in Threads, Continue(t) PROVE TypeOK'
<1>1. /\ pc' = [pc EXCEPT ![t] = "game"]
      /\ sender' = [sender EXCEPT ![t] = Nobody]
      /\ receiver' = [receiver EXCEPT ![t] = Nobody]
      /\ damage' = [damage EXCEPT ![t] = 0]
      /\ msg' = [msg EXCEPT ![t] = NoMessage]
      /\ UNCHANGED <<alive, local, damages, calls, infoVars, released>>
  BY DEF Continue, Goes
<1>2. /\ NoMessage \in [sender : Pointers, hp : Hps]
      /\ Nobody \in Pointers /\ 0 \in Damages
  BY MessageBoundsAssumption DEF NoMessage, Pointers, Hps, Damages
<1>3. /\ hp' \in [Characters -> Hps] /\ hpDuring' \in [Threads -> SUBSET Hps]
      /\ infoDuring' \in [Characters -> SUBSET Hps]
  <2>1. CASE receiver[t] = Nobody
    BY <2>1 DEF Continue, TypeOK
  <2>2. CASE receiver[t] # Nobody
    <3>1. receiver[t] \in Characters
      BY <2>2, Typing DEF Pointers
    <3>2. hp[receiver[t]] \in Hps /\ damage[t] \in Damages
      BY <3>1, Typing DEF TypeOK
    <3> DEFINE h == IF hp[receiver[t]] > damage[t] THEN hp[receiver[t]] - damage[t] ELSE 0
    <3>3. h \in Hps
      BY <3>2, HpAfterHit
    <3>4. HpBecomes(receiver[t], h)
      BY <2>2 DEF Continue
    <3> HIDE DEF h
    <3> QED BY <3>1, <3>3, <3>4, HpChange
  <2> QED BY <2>1, <2>2
<1> QED BY <1>1, <1>2, <1>3 DEF TypeOK, infoVars

(***************************************************************************)
(* Every step of a callback keeps the types.                               *)
(***************************************************************************)
LEMMA CallbackTypes ==
  ASSUME TypeOK, NEW t \in Threads, ThreadInv(t), Callback(t) PROVE TypeOK'
<1>1. CASE FillSender(t)
  BY <1>1, FillSenderFields DEF FillSender, Goes, TypeOK, gameVars, infoVars, histories
<1>2. CASE FillReceiver(t)
  <2>1. receiver[t] # Nobody
    BY <1>2 DEF FillReceiver, ThreadInv
  <2> QED BY <1>2, <2>1, FillReceiverFields
          DEF FillReceiver, Goes, TypeOK, gameVars, infoVars, histories
<1>3. CASE Check(t)
  BY <1>3 DEF Check, Goes, TypeOK, gameVars, infoVars, histories
<1>4. CASE Send(t)
  BY <1>4, SendTypes
<1>5. CASE Continue(t)
  BY <1>5, ContinueTypes
<1> QED BY <1>1, <1>2, <1>3, <1>4, <1>5 DEF Callback

(***************************************************************************)
(* The beginning of a call keeps the types.                                *)
(***************************************************************************)
LEMMA CallTypes ==
  ASSUME TypeOK, NEW t \in Threads, NEW s \in alive \cup {Nobody},
         NEW r \in alive \cup {Nobody}, NEW d \in Damages, Call(t, s, r, d)
  PROVE  TypeOK'
<1>1. s \in Pointers /\ r \in Pointers
  BY DEF TypeOK, Pointers
<1>2. calls' \in 0..MaxCalls
  <2>1. calls \in 0..MaxCalls /\ calls < MaxCalls /\ calls' = calls + 1
    BY DEF TypeOK, Call
  <2> QED BY <2>1, MessageBoundsAssumption
<1>3. hpDuring' \in [Threads -> SUBSET Hps]
  <2>1. (IF r = Nobody THEN {} ELSE {hp[r]}) \in SUBSET Hps
    BY <1>1 DEF TypeOK, Pointers
  <2>2. hpDuring' = [hpDuring EXCEPT ![t] = IF r = Nobody THEN {} ELSE {hp[r]}]
    BY DEF Call
  <2> QED BY <2>1, <2>2 DEF TypeOK
<1>4. pc' \in [Threads -> {"game", "sender", "receiver", "check", "send", "sent", "silent"}]
  BY DEF Call, Goes, TypeOK
<1> QED BY <1>1, <1>2, <1>3, <1>4 DEF Call, TypeOK, gameVars, infoVars

(***************************************************************************)
(* Every step of the io thread keeps the types.                            *)
(***************************************************************************)
LEMMA RequestTypes ==
  ASSUME TypeOK, RequestInv, OnMessage PROVE TypeOK'
<1>1. /\ info \in Info /\ info.player \in Pointers /\ info.hp \in Hps
      /\ local \in Pointers /\ answers \in Seq(Info)
      /\ hp \in [Characters -> Hps]
  BY DEF TypeOK, Info
<1>2. NoInfo \in Info
  BY MessageBoundsAssumption DEF NoInfo, Info, Pointers, Hps
<1>3. CASE Request
  BY <1>1, <1>3 DEF Request, TypeOK, gameVars, threadVars
<1>4. CASE GetLocal
  <2>1. info' \in Info
    BY <1>1, <1>2, <1>4 DEF GetLocal, Info, NoInfo
  <2> QED BY <1>4, <2>1 DEF GetLocal, TypeOK, gameVars, threadVars, histories
<1>5. CASE FillHp
  <2>1. \E h \in Hps : info' = [info EXCEPT !.hp = h]
    <3>1. CASE info.player \in alive
      BY <1>1, <1>5, <3>1 DEF FillHp, TypeOK
    <3>2. CASE info.player \notin alive
      BY <1>5, <3>2 DEF FillHp
    <3> QED BY <3>1, <3>2
  <2>2. info' \in Info
    BY <1>1, <2>1 DEF Info
  <2> QED BY <1>5, <2>2 DEF FillHp, TypeOK, gameVars, threadVars, histories
<1>6. CASE Answer
  <2>1. answers' \in Seq(Info)
    BY <1>1, <1>6 DEF Answer
  <2> QED BY <1>2, <1>6, <2>1 DEF Answer, TypeOK, gameVars, threadVars
<1> QED BY <1>3, <1>4, <1>5, <1>6 DEF OnMessage

(***************************************************************************)
(* What else the game does keeps the types.                                *)
(***************************************************************************)
LEMMA GameTypes ==
  ASSUME TypeOK, NEW c \in Characters \cup {Nobody},
         \/ c \in Characters /\ \E h \in Hps : GameSetsHp(c, h)
         \/ GameSetsLocal(c)
         \/ GameReleases(c)
  PROVE  TypeOK'
<1>1. CASE c \in Characters /\ \E h \in Hps : GameSetsHp(c, h)
  BY <1>1, HpChange DEF GameSetsHp, TypeOK, threadVars, infoVars
<1>2. CASE GameSetsLocal(c)
  BY <1>2 DEF GameSetsLocal, TypeOK, Pointers, threadVars, infoVars, histories
<1>3. CASE GameReleases(c)
  BY <1>3 DEF GameReleases, TypeOK, threadVars, infoVars
<1> QED BY <1>1, <1>2, <1>3

-----------------------------------------------------------------------------
(* The calls of the game's threads.                                        *)

(***************************************************************************)
(* A thread is not disturbed by a step that leaves its call alone, even if *)
(* the step changes the hp of its receiver.                                *)
(***************************************************************************)
LEMMA ThreadKept ==
  ASSUME NEW t \in Threads, ThreadInv(t),
         pc'[t] = pc[t], sender'[t] = sender[t], receiver'[t] = receiver[t],
         damage'[t] = damage[t], msg'[t] = msg[t],
         hpDuring[t] \subseteq hpDuring'[t],
         receiver[t] # Nobody => hp'[receiver[t]] \in hpDuring'[t]
  PROVE  ThreadInv(t)'
BY DEF ThreadInv

(***************************************************************************)
(* The steps of a callback keep its own invariant.                         *)
(***************************************************************************)
LEMMA OwnStep ==
  ASSUME TypeOK, NEW t \in Threads, ThreadInv(t), Callback(t) PROVE ThreadInv(t)'
<1>1. CASE FillSender(t)
  <2>1. /\ pc[t] = "sender" /\ pc'[t] = "receiver"
        /\ UNCHANGED <<sender, receiver, damage, hp, hpDuring>>
    BY <1>1, Typing DEF FillSender, Goes, gameVars, histories
  <2> QED BY <1>1, <2>1, FillSenderFields DEF ThreadInv
<1>2. CASE FillReceiver(t)
  <2>1. /\ pc[t] = "receiver" /\ pc'[t] = "check"
        /\ UNCHANGED <<sender, receiver, damage, hp, hpDuring>>
    BY <1>2, Typing DEF FillReceiver, Goes, gameVars, histories
  <2>2. receiver[t] # Nobody
    BY <2>1 DEF ThreadInv
  <2> QED BY <1>2, <2>1, <2>2, FillReceiverFields DEF ThreadInv
<1>3. CASE Check(t)
  <2>1. /\ pc[t] = "check"
        /\ pc'[t] = IF msg[t].hp # 0 /\ msg[t].sender # Nobody THEN "send" ELSE "silent"
        /\ UNCHANGED <<sender, receiver, damage, msg, hp, hpDuring>>
    BY <1>3, Typing DEF Check, Goes, gameVars, histories
  <2> QED BY <2>1 DEF ThreadInv
<1>4. CASE Send(t)
  <2>1. /\ pc[t] = "send" /\ pc'[t] = "sent"
        /\ UNCHANGED <<sender, receiver, damage, msg, hp, hpDuring>>
    BY <1>4, Typing DEF Send, Goes, gameVars, histories
  <2> QED BY <2>1 DEF ThreadInv
<1>5. CASE Continue(t)
  <2>1. pc'[t] = "game" /\ receiver'[t] = Nobody
    BY <1>5, Typing DEF Continue, Goes
  <2> QED BY <2>1 DEF ThreadInv
<1> QED BY <1>1, <1>2, <1>3, <1>4, <1>5 DEF Callback

(***************************************************************************)
(* A call begins with the hp that its receiver has.                        *)
(***************************************************************************)
LEMMA CallBegins ==
  ASSUME TypeOK, NEW t \in Threads, NEW s, NEW r, NEW d, Call(t, s, r, d)
  PROVE  ThreadInv(t)'
<1>1. /\ pc'[t] = IF r # Nobody /\ d > 0 THEN "sender" ELSE "silent"
      /\ receiver'[t] = r /\ damage'[t] = d /\ hp' = hp
      /\ hpDuring'[t] = IF r = Nobody THEN {} ELSE {hp[r]}
  BY Typing DEF Call, Goes, gameVars
<1> QED BY <1>1 DEF ThreadInv

(***************************************************************************)
(* The steps of the other threads leave a call as it is.                   *)
(***************************************************************************)
LEMMA OtherStep ==
  ASSUME TypeOK, NEW t \in Threads, ThreadInv(t), NEW u \in Threads \ {t},
         \/ Callback(u)
         \/ \E s, r \in alive \cup {Nobody}, d \in Damages : Call(u, s, r, d)
  PROVE  ThreadInv(t)'
<1>1. CASE FillSender(u)
  BY <1>1, Typing, FillSenderFields, ThreadKept
     DEF FillSender, Goes, gameVars, histories, ThreadInv
<1>2. CASE FillReceiver(u)
  BY <1>2, Typing, ThreadKept DEF FillReceiver, Goes, gameVars, histories, ThreadInv
<1>3. CASE Check(u)
  BY <1>3, Typing, ThreadKept DEF Check, Goes, gameVars, histories, ThreadInv
<1>4. CASE Send(u)
  BY <1>4, Typing, ThreadKept DEF Send, Goes, gameVars, histories, ThreadInv
<1>5. CASE Continue(u)
  <2>1. /\ pc'[t] = pc[t] /\ sender'[t] = sender[t] /\ receiver'[t] = receiver[t]
        /\ damage'[t] = damage[t] /\ msg'[t] = msg[t]
    BY <1>5, Typing DEF Continue, Goes
  <2>2. /\ hpDuring[t] \subseteq hpDuring'[t]
        /\ receiver[t] # Nobody => hp'[receiver[t]] \in hpDuring'[t]
    <3>1. CASE receiver[u] = Nobody
      BY <1>5, <3>1 DEF Continue, ThreadInv
    <3>2. CASE receiver[u] # Nobody
      <4>1. receiver[u] \in Characters
        BY <3>2, Typing DEF Pointers
      <4>2. hp[receiver[u]] \in Hps /\ damage[u] \in Damages
        BY <4>1, Typing DEF TypeOK
      <4> DEFINE h == IF hp[receiver[u]] > damage[u] THEN hp[receiver[u]] - damage[u] ELSE 0
      <4>3. h \in Hps
        BY <4>2, HpAfterHit
      <4>4. HpBecomes(receiver[u], h)
        BY <1>5, <3>2 DEF Continue
      <4> HIDE DEF h
      <4> QED BY <4>1, <4>3, <4>4, HpChange DEF ThreadInv
    <3> QED BY <3>1, <3>2
  <2> QED BY <2>1, <2>2, ThreadKept
<1>6. ASSUME NEW s, NEW r, NEW d, Call(u, s, r, d) PROVE ThreadInv(t)'
  BY <1>6, Typing, ThreadKept DEF Call, Goes, gameVars, ThreadInv
<1> QED BY <1>1, <1>2, <1>3, <1>4, <1>5, <1>6 DEF Callback

(***************************************************************************)
(* The io thread and the rest of the game leave a call as it is, but for   *)
(* the hp of its receiver.                                                 *)
(***************************************************************************)
LEMMA ElseStep ==
  ASSUME TypeOK, NEW t \in Threads, ThreadInv(t),
         OnMessage \/ Game \/ GameSetsLocal(Nobody) \/ UNCHANGED vars
  PROVE  ThreadInv(t)'
<1>1. ASSUME NEW c \in Characters, NEW h \in Hps, GameSetsHp(c, h) PROVE ThreadInv(t)'
  <2>1. HpBecomes(c, h) /\ UNCHANGED threadVars
    BY <1>1 DEF GameSetsHp
  <2> QED BY <2>1, HpChange, ThreadKept DEF threadVars, ThreadInv
<1>2. CASE UNCHANGED <<hp, hpDuring, threadVars>>
  BY <1>2, ThreadKept DEF threadVars, ThreadInv
<1>3. OnMessage \/ UNCHANGED vars => UNCHANGED <<hp, hpDuring, threadVars>>
  BY DEF OnMessage, Request, GetLocal, FillHp, Answer, vars, gameVars, histories
<1>4. ASSUME NEW c, GameSetsLocal(c) \/ GameReleases(c)
      PROVE  UNCHANGED <<hp, hpDuring, threadVars>>
  BY <1>4 DEF GameSetsLocal, GameReleases, histories
<1> QED BY <1>1, <1>2, <1>3, <1>4 DEF Game

-----------------------------------------------------------------------------
(* The request for information.                                            *)

(***************************************************************************)
(* The io thread keeps RequestInv: it uses the pointer it fetched.         *)
(***************************************************************************)
LEMMA RequestStep ==
  ASSUME TypeOK, RequestInv, OnMessage PROVE RequestInv'
<1>1. /\ local \in alive \cup {Nobody} /\ info \in Info /\ alive \subseteq Characters
      /\ hp \in [Characters -> Hps]
  BY DEF RequestInv, TypeOK
<1>2. CASE Request
  <2>1. infoPc' = "local" /\ infoDuring' = [c \in Characters |-> {hp[c]}]
        /\ UNCHANGED <<hp, alive, local>>
    BY <1>2 DEF Request, gameVars
  <2> QED BY <1>1, <2>1 DEF RequestInv
<1>3. CASE GetLocal
  <2>1. /\ infoPc = "local" /\ infoPc' = IF local = Nobody THEN "answer" ELSE "hp"
        /\ info' = [NoInfo EXCEPT !.player = local]
        /\ UNCHANGED <<hp, alive, local, infoDuring, released>>
    BY <1>3 DEF GetLocal, gameVars, histories
  <2>2. info'.player = local
    BY <2>1 DEF NoInfo
  <2> QED BY <1>1, <2>1, <2>2 DEF RequestInv
<1>4. CASE FillHp
  <2>1. /\ infoPc = "hp" /\ infoPc' = "answer"
        /\ UNCHANGED <<hp, alive, local, infoDuring, released>>
    BY <1>4 DEF FillHp, gameVars, histories
  <2>2. info'.player = info.player
    BY <1>1, <1>4 DEF FillHp, Info
  <2>3. info.player \in alive => info'.hp = hp[info.player]
    BY <1>1, <1>4 DEF FillHp, Info
  <2>4. /\ \A c \in Characters : hp[c] \in infoDuring[c]
        /\ released \/ info.player \in alive
    BY <2>1 DEF RequestInv
  <2> QED BY <1>1, <2>1, <2>2, <2>3, <2>4 DEF RequestInv
<1>5. CASE Answer
  <2>1. infoPc' = "run" /\ UNCHANGED <<alive, local>>
    BY <1>5 DEF Answer, gameVars
  <2> QED BY <1>1, <2>1 DEF RequestInv
<1> QED BY <1>2, <1>3, <1>4, <1>5 DEF OnMessage

(***************************************************************************)
(* A change of an hp keeps RequestInv: the history follows it.             *)
(***************************************************************************)
LEMMA RequestHp ==
  ASSUME TypeOK, RequestInv, NEW c \in Characters, NEW h \in Hps, HpBecomes(c, h),
         UNCHANGED <<alive, local, infoVars, released>>
  PROVE  RequestInv'
<1>1. info.player # Nobody => info.player \in Characters
  BY DEF TypeOK, Info, Pointers
<1>2. UNCHANGED <<infoPc, info>>
  BY DEF infoVars
<1> QED BY <1>1, <1>2, HpChange DEF RequestInv

(***************************************************************************)
(* The threads of the game, and all else the game does, keep RequestInv.   *)
(***************************************************************************)
LEMMA RequestKept ==
  ASSUME TypeOK, RequestInv,
         \/ \E t \in Threads :
              \/ Callback(t)
              \/ \E s, r \in alive \cup {Nobody}, d \in Damages : Call(t, s, r, d)
         \/ Game \/ GameSetsLocal(Nobody) \/ UNCHANGED vars
  PROVE  RequestInv'
<1>1. CASE UNCHANGED <<gameVars, infoVars, infoDuring, released>>
  BY <1>1 DEF RequestInv, gameVars, infoVars
<1>2. ASSUME NEW t \in Threads,
             FillSender(t) \/ FillReceiver(t) \/ Check(t) \/ Send(t)
      PROVE  RequestInv'
  BY <1>1, <1>2 DEF FillSender, FillReceiver, Check, Send, histories
<1>3. ASSUME NEW t \in Threads, Continue(t) PROVE RequestInv'
  <2>1. CASE receiver[t] = Nobody
    BY <1>1, <1>3, <2>1 DEF Continue, gameVars
  <2>2. CASE receiver[t] # Nobody
    <3>1. receiver[t] \in Characters
      BY <2>2, Typing DEF Pointers
    <3>2. hp[receiver[t]] \in Hps /\ damage[t] \in Damages
      BY <3>1, Typing DEF TypeOK
    <3> DEFINE h == IF hp[receiver[t]] > damage[t] THEN hp[receiver[t]] - damage[t] ELSE 0
    <3>3. h \in Hps
      BY <3>2, HpAfterHit
    <3>4. HpBecomes(receiver[t], h) /\ UNCHANGED <<alive, local, infoVars, released>>
      BY <1>3, <2>2 DEF Continue
    <3> HIDE DEF h
    <3> QED BY <3>1, <3>3, <3>4, RequestHp
  <2> QED BY <2>1, <2>2
<1>4. ASSUME NEW t, NEW s, NEW r, NEW d, Call(t, s, r, d) PROVE RequestInv'
  BY <1>1, <1>4 DEF Call
<1>5. ASSUME NEW c \in Characters, NEW h \in Hps, GameSetsHp(c, h) PROVE RequestInv'
  BY <1>5, RequestHp DEF GameSetsHp
<1>6. ASSUME NEW c \in Characters \cup {Nobody}, GameSetsLocal(c) PROVE RequestInv'
  BY <1>6 DEF GameSetsLocal, RequestInv, infoVars, histories
<1>7. ASSUME NEW c \in Characters, GameReleases(c) PROVE RequestInv'
  <2>1. /\ local # c /\ alive' = alive \ {c}
        /\ released' = (released \/ info.player = c)
        /\ UNCHANGED <<hp, local, infoPc, info, infoDuring>>
    BY <1>7 DEF GameReleases, infoVars
  <2>2. infoPc' = "hp" => released' \/ info'.player \in alive'
    BY <2>1, Zenon DEF RequestInv
  <2>3. released => released'
    BY <2>1
  <2> QED BY <2>1, <2>2, <2>3 DEF RequestInv
<1>8. UNCHANGED vars => UNCHANGED <<gameVars, infoVars, infoDuring, released>>
  BY DEF vars, histories
<1> QED BY <1>1, <1>2, <1>3, <1>4, <1>5, <1>6, <1>7, <1>8 DEF Callback, Game

-----------------------------------------------------------------------------
(* The theorems.                                                           *)

(***************************************************************************)
(* IInv holds in every reachable state.                                    *)
(***************************************************************************)
THEOREM MessagesInvariant == Spec => []IInv
<1>1. Init => IInv
  <2> SUFFICES ASSUME Init PROVE IInv
    OBVIOUS
  <2>1. TypeOK
    <3>1. 0 \in Hps /\ 0 \in Damages /\ 0 \in 0..MaxCalls /\ Nobody \in Pointers
      BY MessageBoundsAssumption DEF Hps, Damages, Pointers
    <3>2. NoMessage \in [sender : Pointers, hp : Hps] /\ NoInfo \in Info
      BY <3>1 DEF NoMessage, NoInfo, Info
    <3>3. /\ damages \in Seq([sender : Characters, receiver : Characters, hp : Hps \ {0},
                              damage_value : Damages \ {0}])
          /\ answers \in Seq(Info)
      BY DEF Init
    <3>4. /\ msg \in [Threads -> [sender : Pointers, hp : Hps]]
          /\ info \in Info
      BY <3>2 DEF Init
    <3> QED BY <3>1, <3>3, <3>4 DEF Init, TypeOK
  <2>2. RequestInv
    BY DEF Init, RequestInv
  <2>3. \A t \in Threads : ThreadInv(t)
    BY DEF Init, ThreadInv
  <2> QED BY <2>1, <2>2, <2>3 DEF IInv
<1>2. IInv /\ [Next]_vars => IInv'
  <2> SUFFICES ASSUME IInv, [Next]_vars PROVE IInv'
    OBVIOUS
  <2>1. TypeOK /\ RequestInv /\ \A t \in Threads : ThreadInv(t)
    BY DEF IInv
  <2>2. TypeOK'
    <3>1. CASE UNCHANGED vars
      BY <2>1, <3>1 DEF vars, gameVars, threadVars, infoVars, histories, TypeOK
    <3>2. CASE Next
      BY <2>1, <3>2, CallbackTypes, CallTypes, RequestTypes, GameTypes DEF Next, Game
    <3> QED BY <3>1, <3>2
  <2>3. RequestInv'
    BY <2>1, RequestStep, RequestKept DEF Next
  <2>4. ASSUME NEW t \in Threads PROVE ThreadInv(t)'
    <3>1. CASE OnMessage \/ Game \/ GameSetsLocal(Nobody) \/ UNCHANGED vars
      BY <2>1, <3>1, ElseStep
    <3>2. ASSUME NEW u \in Threads,
                 \/ Callback(u)
                 \/ \E s, r \in alive \cup {Nobody}, d \in Damages : Call(u, s, r, d)
          PROVE  ThreadInv(t)'
      <4>1. CASE u = t
        BY <2>1, <3>2, <4>1, OwnStep, CallBegins
      <4>2. CASE u # t
        BY <2>1, <3>2, <4>2, OtherStep
      <4> QED BY <4>1, <4>2
    <3> QED BY <3>1, <3>2 DEF Next
  <2> QED BY <2>2, <2>3, <2>4 DEF IInv
<1> QED BY <1>1, <1>2, PTL DEF Spec

(***************************************************************************)
(* The types of the variables; among them, that no damage message lacks    *)
(* its sender, its receiver, an hp or a damage (functionality.cpp:112-117).*)
(***************************************************************************)
THEOREM MessagesTypes == Spec => []TypeOK
<1>1. IInv => TypeOK
  BY DEF IInv
<1> QED BY <1>1, MessagesInvariant, PTL

(***************************************************************************)
(* A damage message shows an hp, not zero, that its receiver had during    *)
(* the call (functionality.cpp:113-119).                                   *)
(***************************************************************************)
THEOREM DamagesAreConsistent == Spec => []DamageConsistent
<1>1. IInv => DamageConsistent
  BY DEF IInv, ThreadInv, DamageConsistent
<1> QED BY <1>1, MessagesInvariant, PTL

(***************************************************************************)
(* The answer to a request has the hp of the character it names, unless    *)
(* the game released it (functionality.cpp:160-169).                       *)
(***************************************************************************)
THEOREM AnswersAreConsistent == Spec => []InfoConsistent
<1>1. IInv => InfoConsistent
  BY DEF IInv, RequestInv, InfoConsistent
<1> QED BY <1>1, MessagesInvariant, PTL

=============================================================================
