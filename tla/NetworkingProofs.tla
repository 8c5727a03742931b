-------------------------- MODULE NetworkingProofs --------------------------
(***************************************************************************)
(* Networking.tla for any number of game threads, listeners and events:    *)
(* IInv is inductive, the registry never changes under a running loop,     *)
(* a broadcast reaches every listener that stays open, and the whole       *)
(* implements the feed of Feed.tla.                                        *)
(***************************************************************************)
EXTENDS Networking, TLAPS

(***************************************************************************)
(* The types of single values, for steps that do arithmetic on them.       *)
(***************************************************************************)
LEMMA Typing ==
  ASSUME TypeOK
  PROVE  /\ entered \in Nat
         /\ \A t \in GameThreads : pos[t] \in Nat /\ msg[t] \in Nat
         /\ server_hdls \in Seq(Conns)
         /\ Len(server_hdls) \in Nat
         /\ DOMAIN server_hdls = 1..Len(server_hdls)
         /\ \A i \in 1..Len(server_hdls) : server_hdls[i] \in Conns
         /\ \A c \in Conns : m_send_queue[c] \in Seq(Nat)
<1>1. server_hdls \in Seq(Conns)
  BY DEF TypeOK
<1>2. /\ Len(server_hdls) \in Nat
      /\ DOMAIN server_hdls = 1..Len(server_hdls)
      /\ \A i \in 1..Len(server_hdls) : server_hdls[i] \in Conns
  BY <1>1
<1>3. entered \in Nat /\ \A t \in GameThreads : pos[t] \in Nat /\ msg[t] \in Nat
  BY DEF TypeOK
<1>4. \A c \in Conns : m_send_queue[c] \in Seq(Nat)
  BY DEF TypeOK
<1> QED
  BY <1>1, <1>2, <1>3, <1>4

(***************************************************************************)
(* A game thread that is at a handle is at one of a connection.            *)
(***************************************************************************)
LEMMA AtConnection ==
  ASSUME TypeOK, NEW t \in GameThreads, LoopOK(t),
         AtHandle(t) \/ pc[t] \in {"lookup", "check", "push"}
  PROVE  pos[t] \in 1..Len(server_hdls) /\ Handle(t) \in Conns
<1>1. pos[t] \in Nat /\ Len(server_hdls) \in Nat
  BY Typing
<1>2. pos[t] >= 1 /\ pos[t] <= Len(server_hdls)
  BY DEF LoopOK, AtHandle
<1>3. pos[t] \in 1..Len(server_hdls)
  BY <1>1, <1>2
<1> QED
  BY <1>3, Typing DEF Handle

(***************************************************************************)
(* connection_mutex admits one thread to the loop of Net_SendData.         *)
(***************************************************************************)
LEMMA Exclusion ==
  ASSUME MutexInv, NEW t \in GameThreads, NEW u \in GameThreads,
         Critical(t), Critical(u)
  PROVE  t = u
BY DEF MutexInv

-----------------------------------------------------------------------------
(* The abstract feed: its own steps give every listener a segment.  These   *)
(* are facts of Feed.tla, with the names that Networking gives its state.   *)

(***************************************************************************)
(* What appending one message to a queue does to its events.               *)
(***************************************************************************)
LEMMA EventsOfAppend ==
  ASSUME NEW S, NEW q \in Seq(S), NEW m \in S
  PROVE  Feed!Events(Append(q, m)) = Feed!Events(q) \cup ({m} \ {Feed!Reply})
<1>1. Len(Append(q, m)) = Len(q) + 1 /\ Len(q) \in Nat
  OBVIOUS
<1>2. \A i \in 1..Len(q) : Append(q, m)[i] = q[i]
  OBVIOUS
<1>3. Append(q, m)[Len(q) + 1] = m
  OBVIOUS
<1>4. 1..(Len(q) + 1) = 1..Len(q) \cup {Len(q) + 1}
  BY <1>1
<1> QED
  BY <1>1, <1>2, <1>3, <1>4 DEF Feed!Events

(***************************************************************************)
(* An answer adds no event to a queue.                                     *)
(***************************************************************************)
LEMMA EventsOfAnswer ==
  ASSUME NEW S, NEW q \in Seq(S), Feed!Reply \in S
  PROVE  Feed!Events(Append(q, Feed!Reply)) = Feed!Events(q)
<1>1. Feed!Events(Append(q, Feed!Reply)) = Feed!Events(q) \cup ({Feed!Reply} \ {Feed!Reply})
  BY EventsOfAppend
<1> QED
  BY <1>1

(***************************************************************************)
(* The feed's logs hold published events and answers only.                 *)
(***************************************************************************)
THEOREM FeedTypes == Feed!Spec => []Feed!TypeOK
<1>1. Feed!Init => Feed!TypeOK
  BY DEF Feed!Init, Feed!TypeOK
<1>2. Feed!TypeOK /\ [Feed!Next]_(Feed!vars) => Feed!TypeOK'
  <2> SUFFICES ASSUME Feed!TypeOK, [Feed!Next]_(Feed!vars) PROVE Feed!TypeOK'
    OBVIOUS
  <2> USE DEF Feed!TypeOK, Feed!Reply
  <2>1. CASE Feed!Publish
    <3>1. Seq(0..entered) \subseteq Seq(0..(entered + 1))
      OBVIOUS
    <3> QED
      BY <2>1, <3>1 DEF Feed!Publish
  <2>2. ASSUME NEW c \in Conns, Feed!Deliver(c) PROVE Feed!TypeOK'
    BY <2>2 DEF Feed!Deliver
  <2>3. ASSUME NEW c \in Conns, Feed!Answer(c) PROVE Feed!TypeOK'
    BY <2>3 DEF Feed!Answer
  <2>4. CASE UNCHANGED (Feed!vars)
    BY <2>4 DEF Feed!vars
  <2> QED
    BY <2>1, <2>2, <2>3, <2>4 DEF Feed!Next
<1> QED
  BY <1>1, <1>2, PTL DEF Feed!Spec

(***************************************************************************)
(* A delivered event goes after all those of the log, and next to the last.*)
(***************************************************************************)
LEMMA DeliverKeepsSegment ==
  ASSUME Feed!TypeOK, NEW c \in Conns, Feed!InOrder(c), Feed!NoGaps(c), Feed!Deliver(c)
  PROVE  Feed!InOrder(c)' /\ Feed!NoGaps(c)'
<1> DEFINE q == m_send_queue[c]
<1>1. PICK m \in 1..entered :
        /\ \A e \in Feed!Events(q) : e < m
        /\ Feed!Events(q) # {} => m - 1 \in Feed!Events(q)
        /\ m_send_queue' = [m_send_queue EXCEPT ![c] = Append(q, m)]
  BY DEF Feed!Deliver
<1>2. q \in Seq(0..entered) /\ m \in 0..entered /\ entered \in Nat /\ m # 0
  BY <1>1 DEF Feed!TypeOK
<1>3. m_send_queue'[c] = Append(q, m)
  BY <1>1 DEF Feed!TypeOK
<1>4. /\ Len(m_send_queue'[c]) = Len(q) + 1
      /\ Len(q) \in Nat
      /\ \A i \in 1..Len(q) : m_send_queue'[c][i] = q[i] /\ q[i] \in 0..entered
      /\ m_send_queue'[c][Len(q) + 1] = m
  BY <1>2, <1>3
<1>5. Feed!InOrder(c)'
  <2> SUFFICES ASSUME NEW i \in 1..Len(m_send_queue'[c]), NEW j \in 1..Len(m_send_queue'[c]),
                      i < j, m_send_queue'[c][i] # Feed!Reply, m_send_queue'[c][j] # Feed!Reply
               PROVE  m_send_queue'[c][i] < m_send_queue'[c][j]
    BY DEF Feed!InOrder
  <2>1. i \in 1..Len(q) /\ m_send_queue'[c][i] = q[i]
    BY <1>4
  <2>2. CASE j = Len(q) + 1
    <3>1. q[i] \in Feed!Events(q)
      BY <2>1 DEF Feed!Events
    <3> QED
      BY <1>1, <1>4, <2>1, <2>2, <3>1
  <2>3. CASE j # Len(q) + 1
    <3>1. j \in 1..Len(q) /\ m_send_queue'[c][j] = q[j]
      BY <1>4, <2>3
    <3> QED
      BY <2>1, <3>1 DEF Feed!InOrder
  <2> QED
    BY <2>2, <2>3
<1>6. Feed!NoGaps(c)'
  <2>1. Feed!Events(m_send_queue'[c]) = Feed!Events(q) \cup {m}
    BY <1>2, <1>3, EventsOfAppend DEF Feed!Reply
  <2>2. Feed!Events(q) \subseteq 1..entered
    BY <1>2 DEF Feed!Events, Feed!Reply
  <2> SUFFICES ASSUME NEW a \in Feed!Events(q) \cup {m}, NEW b \in Feed!Events(q) \cup {m},
                      NEW k \in a..b
               PROVE  k \in Feed!Events(q) \cup {m}
    BY <2>1 DEF Feed!NoGaps
  <2>3. CASE b = m /\ k # m
    <3>1. a \in Feed!Events(q)
      BY <1>2, <2>2, <2>3
    <3>2. m - 1 \in Feed!Events(q) /\ k \in a..(m - 1)
      BY <1>1, <1>2, <2>2, <2>3, <3>1
    <3> QED
      BY <3>1, <3>2 DEF Feed!NoGaps
  <2>4. CASE b # m
    <3>1. a \in Feed!Events(q) /\ b \in Feed!Events(q)
      BY <1>1, <1>2, <2>2, <2>4
    <3> QED
      BY <3>1 DEF Feed!NoGaps
  <2> QED
    BY <2>3, <2>4
<1> QED
  BY <1>5, <1>6

(***************************************************************************)
(* An answer has no position in the order: it moves no event.              *)
(***************************************************************************)
LEMMA AnswerKeepsSegment ==
  ASSUME Feed!TypeOK, NEW c \in Conns, Feed!InOrder(c), Feed!NoGaps(c), Feed!Answer(c)
  PROVE  Feed!InOrder(c)' /\ Feed!NoGaps(c)'
<1> DEFINE q == m_send_queue[c]
<1>1. m_send_queue'[c] = Append(q, Feed!Reply) /\ q \in Seq(0..entered) /\ Feed!Reply \in 0..entered
  BY DEF Feed!Answer, Feed!TypeOK, Feed!Reply
<1>2. /\ Len(m_send_queue'[c]) = Len(q) + 1
      /\ \A i \in 1..Len(q) : m_send_queue'[c][i] = q[i]
      /\ m_send_queue'[c][Len(q) + 1] = Feed!Reply
      /\ Len(q) \in Nat
  BY <1>1
<1>3. Feed!Events(m_send_queue'[c]) = Feed!Events(q)
  BY <1>1, EventsOfAnswer
<1>4. Feed!InOrder(c)'
  <2> SUFFICES ASSUME NEW i \in 1..Len(m_send_queue'[c]), NEW j \in 1..Len(m_send_queue'[c]),
                      i < j, m_send_queue'[c][i] # Feed!Reply, m_send_queue'[c][j] # Feed!Reply
               PROVE  m_send_queue'[c][i] < m_send_queue'[c][j]
    BY DEF Feed!InOrder
  <2>1. i \in 1..Len(q) /\ j \in 1..Len(q)
    BY <1>2
  <2> QED
    BY <1>2, <2>1 DEF Feed!InOrder
<1>5. Feed!NoGaps(c)'
  BY <1>3 DEF Feed!NoGaps
<1> QED
  BY <1>4, <1>5

(***************************************************************************)
(* Every listener is given a segment of one global order of events, for any*)
(* number of listeners and of events.                                      *)
(***************************************************************************)
THEOREM FeedSegments == Feed!Spec => []Feed!Segments
<1>1. Feed!Init => Feed!Segments
  <2> SUFFICES ASSUME Feed!Init, NEW c \in Conns PROVE Feed!InOrder(c) /\ Feed!NoGaps(c)
    BY DEF Feed!Segments
  <2>1. Len(m_send_queue[c]) = 0
    BY DEF Feed!Init
  <2> QED
    BY <2>1 DEF Feed!InOrder, Feed!NoGaps, Feed!Events
<1>2. Feed!TypeOK /\ Feed!Segments /\ [Feed!Next]_(Feed!vars) => Feed!Segments'
  <2> SUFFICES ASSUME Feed!TypeOK, Feed!Segments, [Feed!Next]_(Feed!vars),
                      NEW d \in Conns
               PROVE  Feed!InOrder(d)' /\ Feed!NoGaps(d)'
    BY DEF Feed!Segments
  <2>0. Feed!InOrder(d) /\ Feed!NoGaps(d)
    BY DEF Feed!Segments
  <2>1. CASE m_send_queue'[d] = m_send_queue[d]
    BY <2>0, <2>1 DEF Feed!InOrder, Feed!NoGaps, Feed!Events
  <2>2. CASE m_send_queue'[d] # m_send_queue[d]
    <3>1. CASE Feed!Deliver(d)
      BY <2>0, <3>1, DeliverKeepsSegment
    <3>2. CASE Feed!Answer(d)
      BY <2>0, <3>2, AnswerKeepsSegment
    <3>3. CASE \E c \in Conns : c # d /\ (Feed!Deliver(c) \/ Feed!Answer(c))
      BY <2>2, <3>3 DEF Feed!Deliver, Feed!Answer, Feed!TypeOK
    <3>4. CASE Feed!Publish \/ UNCHANGED (Feed!vars)
      BY <2>2, <3>4 DEF Feed!Publish, Feed!vars
    <3> QED
      BY <3>1, <3>2, <3>3, <3>4 DEF Feed!Next
  <2> QED
    BY <2>1, <2>2
<1> QED
  BY <1>1, <1>2, FeedTypes, PTL DEF Feed!Spec

-----------------------------------------------------------------------------
(* Types.                                                                  *)

(***************************************************************************)
(* The steps of Net_SendData keep the types.                               *)
(***************************************************************************)
LEMMA TypeCalls ==
  ASSUME TypeOK, NEW t \in GameThreads, LoopOK(t), Call(t) \/ Step(t)
  PROVE  TypeOK'
<1>1. CASE Call(t)
  BY <1>1 DEF TypeOK, Call, Locked, ioVars
<1>2. CASE Lock(t)
  <2>1. entered' = entered + 1 /\ entered \in Nat
    BY <1>2, Typing DEF Lock
  <2>2. entered' \in Nat
    BY <2>1
  <2>3. pos' \in [GameThreads -> Nat] /\ msg' \in [GameThreads -> Nat]
    BY <1>2, <2>1, <2>2 DEF Lock, TypeOK
  <2>4. openAtEntry' \in [GameThreads -> SUBSET Conns]
    BY <1>2 DEF Lock, TypeOK
  <2> QED
    BY <1>2, <2>2, <2>3, <2>4 DEF Lock, TypeOK, Locked, ioVars
<1>3. ASSUME NEW p, NextHandle(t, p) PROVE pos' \in [GameThreads -> Nat]
  <2>1. pos[t] + 1 \in Nat
    BY Typing
  <2> QED
    BY <1>3, <2>1 DEF NextHandle, TypeOK
<1>4. CASE SkipExpired(t)
  <2>1. pos' \in [GameThreads -> Nat]
    BY <1>3, <1>4 DEF SkipExpired
  <2>2. pc' \in [GameThreads -> Locked \cup {"idle", "lock", "escaped"}]
    BY <1>4 DEF SkipExpired, NextHandle, TypeOK, Locked
  <2> QED
    BY <1>4, <2>1, <2>2 DEF SkipExpired, TypeOK, ioVars
<1>5. CASE FindAlive(t)
  BY <1>5 DEF FindAlive, TypeOK, Locked, ioVars
<1>6. CASE Upgrade(t)
  <2>1. Handle(t) \in Conns
    BY <1>6, AtConnection DEF Upgrade
  <2> QED
    BY <1>6, <2>1 DEF Upgrade, TypeOK, Locked, ioVars
<1>7. CASE UpgradeThrows(t)
  BY <1>7 DEF UpgradeThrows, TypeOK, Locked, ioVars
<1>8. CASE SendChecks(t)
  BY <1>8 DEF SendChecks, TypeOK, Locked, ioVars
<1>9. CASE SendRefused(t)
  <2>1. pos' \in [GameThreads -> Nat]
    BY <1>3, <1>9 DEF SendRefused
  <2>2. pc' \in [GameThreads -> Locked \cup {"idle", "lock", "escaped"}]
    BY <1>9 DEF SendRefused, NextHandle, TypeOK, Locked
  <2> QED
    BY <1>9, <2>1, <2>2 DEF SendRefused, TypeOK, ioVars
<1>10. CASE SendPushes(t)
  <2>1. pos' \in [GameThreads -> Nat]
    BY <1>3, <1>10 DEF SendPushes
  <2>2. pc' \in [GameThreads -> Locked \cup {"idle", "lock", "escaped"}]
    BY <1>10 DEF SendPushes, NextHandle, TypeOK, Locked
  <2>3. conn_ptr[t] \in Conns
    BY <1>10, AtConnection DEF SendPushes, LoopOK
  <2>4. Append(m_send_queue[conn_ptr[t]], msg[t]) \in Seq(Nat)
    BY <2>3, Typing
  <2>5. m_send_queue' \in [Conns -> Seq(Nat)]
    BY <1>10, <2>4 DEF SendPushes, TypeOK
  <2> QED
    BY <1>10, <2>1, <2>2, <2>5 DEF SendPushes, TypeOK, ioVars
<1>11. CASE SendLogs(t)
  BY <1>11 DEF SendLogs, TypeOK, Locked, ioVars
<1>12. CASE Unlock(t)
  BY <1>12 DEF Unlock, TypeOK, Locked, ioVars
<1> QED
  BY <1>1, <1>2, <1>4, <1>5, <1>6, <1>7, <1>8, <1>9, <1>10, <1>11, <1>12 DEF Step

(***************************************************************************)
(* The steps of the io thread keep the types.                              *)
(***************************************************************************)
LEMMA TypeIo ==
  ASSUME TypeOK, RegistryInv,
         \/ PublishServer \/ Listen \/ ListenThrows
         \/ ValidateLock \/ ValidateRegister
         \/ \E c \in Conns : Session(c)
  PROVE  TypeOK'
<1>1. CASE PublishServer \/ Listen \/ ListenThrows
  BY <1>1 DEF PublishServer, Listen, ListenThrows, TypeOK, callVars, ioVars
<1>2. CASE ValidateLock
  BY <1>2 DEF ValidateLock, TypeOK, callVars
<1>3. CASE ValidateRegister
  <2>1. ioConn \in Conns
    BY <1>3 DEF ValidateRegister, RegistryInv
  <2>2. server_hdls' \in Seq(Conns)
    BY <1>3, <2>1, Typing DEF ValidateRegister
  <2> QED
    BY <1>3, <2>2 DEF ValidateRegister, TypeOK, callVars
<1>4. ASSUME NEW c \in Conns, NEW s \in States, Becomes(c, s) PROVE TypeOK'
  BY <1>4 DEF Becomes, TypeOK, callVars, ioVars
<1>5. ASSUME NEW c \in Conns, Session(c) PROVE TypeOK'
  <2>1. CASE Validate(c)
    BY <2>1 DEF Validate, TypeOK, callVars
  <2>2. CASE AnswerInfo(c)
    <3>1. Append(m_send_queue[c], Reply) \in Seq(Nat)
      BY Typing DEF Reply
    <3>2. m_send_queue' \in [Conns -> Seq(Nat)]
      BY <2>2, <3>1 DEF AnswerInfo, TypeOK
    <3> QED
      BY <2>2, <3>2 DEF AnswerInfo, TypeOK, callVars, ioVars
  <2> QED
    BY <1>4, <1>5, <2>1, <2>2
       DEF Session, States, Accept, Open, Fail, StartClose, Close, Expire
<1> QED
  BY <1>1, <1>2, <1>3, <1>5

-----------------------------------------------------------------------------
(* The mutex and the registry.                                             *)

(***************************************************************************)
(* connection_mutex is held where, and only where, the code holds it.      *)
(***************************************************************************)
LEMMA MutexStep == TypeOK /\ MutexInv /\ [Next]_vars => MutexInv'
<1> SUFFICES ASSUME TypeOK, MutexInv, [Next]_vars PROVE MutexInv'
  OBVIOUS
<1> USE ThreadsAssumption DEF MutexInv, Critical, Locked
<1>1. ASSUME NEW t \in GameThreads, Call(t) PROVE MutexInv'
  BY <1>1 DEF Call, TypeOK, ioVars
<1>2. ASSUME NEW t \in GameThreads, Lock(t) PROVE MutexInv'
  BY <1>2 DEF Lock, TypeOK, ioVars
<1>3. ASSUME NEW t \in GameThreads, Unlock(t) PROVE MutexInv'
  BY <1>3 DEF Unlock, LoopOver, TypeOK, ioVars
<1>4. ASSUME NEW t \in GameThreads, NEW p \in Locked \cup {"escaped"},
             Critical(t), pc' = [pc EXCEPT ![t] = p],
             UNCHANGED <<connection_mutex, ioPc>>
      PROVE  MutexInv'
  BY <1>4 DEF TypeOK
<1>5. ASSUME NEW t \in GameThreads, Step(t) PROVE MutexInv'
  BY <1>2, <1>3, <1>4, <1>5
     DEF Step, SkipExpired, FindAlive, Upgrade, UpgradeThrows, SendChecks,
         SendRefused, SendPushes, SendLogs, NextHandle, AtHandle, ioVars
<1>6. CASE PublishServer \/ Listen \/ ListenThrows
  BY <1>6 DEF PublishServer, Listen, ListenThrows, callVars, ioVars
<1>7. CASE ValidateLock
  BY <1>7 DEF ValidateLock, callVars
<1>8. CASE ValidateRegister
  BY <1>8 DEF ValidateRegister, callVars
<1>9. ASSUME NEW c \in Conns, Session(c) PROVE MutexInv'
  BY <1>9 DEF Session, Accept, Validate, Open, Fail, StartClose, Close, Expire,
              AnswerInfo, Ready, Becomes, callVars, ioVars
<1>10. CASE UNCHANGED vars
  BY <1>10 DEF vars, callVars, ioVars
<1> QED
  BY <1>1, <1>5, <1>6, <1>7, <1>8, <1>9, <1>10 DEF Next

(***************************************************************************)
(* Only validate changes the registry, and it does so with the mutex held. *)
(***************************************************************************)
LEMMA RegistryChange ==
  ASSUME [Next]_vars
  PROVE  \/ UNCHANGED server_hdls
         \/ ValidateRegister
BY DEF Next, Step, Session, vars, Call, Lock, SkipExpired, FindAlive, Upgrade,
       UpgradeThrows, SendChecks, SendRefused, SendPushes, SendLogs, Unlock, PublishServer,
       Listen, ListenThrows, ValidateLock, Accept, Validate, Open, Fail,
       StartClose, Close, Expire, Becomes, AnswerInfo

(***************************************************************************)
(* A session is registered once, before it opens.                          *)
(***************************************************************************)
LEMMA RegistryStep ==
  TypeOK /\ MutexInv /\ RegistryInv /\ [Next]_vars => RegistryInv'
<1> SUFFICES ASSUME TypeOK, MutexInv, RegistryInv, [Next]_vars PROVE RegistryInv'
  OBVIOUS
<1>1. CASE UNCHANGED <<server_hdls, m_state, ioPc, ioConn>>
           /\ (server = "running" => server' = "running")
  BY <1>1 DEF RegistryInv, RegisteredOnce, Registered
<1>2. ASSUME NEW c \in Conns, NEW s \in States, Becomes(c, s), ioPc = "run",
             s # "unborn", m_state[c] = "connecting" => s = "closed" \/ Registered(c),
             m_state[c] = "unborn" => s = "connecting",
             m_state[c] \in {"closed", "expired"} => s = "expired"
      PROVE  RegistryInv'
  BY <1>2 DEF Becomes, RegistryInv, RegisteredOnce, Registered, States, ioVars, TypeOK
<1>3. ASSUME NEW c \in Conns, Session(c) PROVE RegistryInv'
  <2>1. CASE Validate(c)
    BY <2>1 DEF Validate, Ready, RegistryInv, RegisteredOnce, Registered
  <2>2. CASE Expire(c)
    BY <2>2 DEF Expire, Becomes, RegistryInv, RegisteredOnce, Registered,
                ioVars, TypeOK
  <2> QED
    BY <1>1, <1>2, <1>3, <2>1, <2>2
       DEF Session, Accept, Open, Fail, StartClose, Close, AnswerInfo, Ready,
           States, ioVars
<1>4. CASE ValidateLock
  BY <1>4 DEF ValidateLock, RegistryInv, RegisteredOnce, Registered
<1>5. CASE ValidateRegister
  <2>1. ioConn \in Conns /\ m_state[ioConn] = "connecting" /\ ~Registered(ioConn)
    BY <1>5 DEF ValidateRegister, RegistryInv
  <2> DEFINE n == Len(server_hdls)
  <2>2. /\ DOMAIN server_hdls = 1..n
        /\ DOMAIN server_hdls' = 1..(n + 1)
        /\ n \in Nat
        /\ \A i \in 1..n : server_hdls'[i] = server_hdls[i]
        /\ server_hdls'[n + 1] = ioConn
    BY <1>5, <2>1, Typing DEF ValidateRegister
  <2>3. \A i \in 1..n : server_hdls[i] # ioConn
    BY <2>1, <2>2 DEF Registered, Range
  <2>4. RegisteredOnce'
    <3> SUFFICES ASSUME NEW i \in 1..(n + 1), NEW j \in 1..(n + 1),
                        server_hdls'[i] = server_hdls'[j]
                 PROVE  i = j
      BY <2>2 DEF RegisteredOnce
    <3>1. CASE i \in 1..n /\ j \in 1..n
      BY <2>2, <3>1 DEF RegisteredOnce, RegistryInv
    <3> QED
      BY <2>2, <2>3, <3>1
  <2>5. \A c \in Conns : Registered(c)' <=> Registered(c) \/ c = ioConn
    BY <2>2 DEF Registered, Range
  <2> QED
    BY <1>5, <2>1, <2>4, <2>5 DEF ValidateRegister, RegistryInv
<1>6. ASSUME NEW t \in GameThreads, Call(t) \/ Step(t) PROVE RegistryInv'
  BY <1>1, <1>6 DEF Call, Step, Lock, SkipExpired, FindAlive, Upgrade,
       UpgradeThrows, SendChecks, SendRefused, SendPushes, SendLogs, Unlock, ioVars
<1>7. CASE PublishServer \/ Listen \/ ListenThrows \/ UNCHANGED vars
  BY <1>1, <1>7 DEF PublishServer, Listen, ListenThrows, vars, ioVars
<1> QED
  BY <1>3, <1>4, <1>5, <1>6, <1>7 DEF Next

-----------------------------------------------------------------------------
(* The loop of a broadcast.                                                *)

(***************************************************************************)
(* A call that has the mutex keeps its event and its place in the registry.*)
(***************************************************************************)
LEMMA LoopStep ==
  ASSUME TypeOK, MutexInv, RegistryInv, \A t \in GameThreads : LoopOK(t),
         NEW u \in GameThreads, [Next]_vars
  PROVE  LoopOK(u)'
<1>0. LoopOK(u) /\ pos[u] \in Nat /\ Len(server_hdls) \in Nat
  BY Typing
<1>1. CASE UNCHANGED <<pos, msg, pc, conn_ptr, entered, server_hdls>>
           /\ (server = "running" => server' = "running")
  BY <1>0, <1>1 DEF LoopOK, Critical, Handle
<1>2. ASSUME NEW t \in GameThreads, Call(t) PROVE LoopOK(u)'
  BY <1>0, <1>2 DEF Call, LoopOK, Critical, Handle, Locked, TypeOK
<1>3. ASSUME NEW t \in GameThreads, Lock(t) PROVE LoopOK(u)'
  <2>1. CASE u = t
    <3>1. /\ pos'[u] = 1 /\ pc'[u] = "loop"
          /\ msg'[u] = entered + 1 /\ entered' = entered + 1
      BY <1>3, <2>1 DEF Lock, TypeOK
    <3>2. entered' >= 1
      BY <3>1, Typing
    <3> QED
      BY <3>1, <3>2 DEF LoopOK
  <2>2. CASE u # t
    <3>1. ~Critical(u) /\ pc'[u] = pc[u] /\ pos'[u] = pos[u]
      BY <1>3, <2>2, ThreadsAssumption DEF Lock, MutexInv, TypeOK
    <3> QED
      BY <1>0, <3>1 DEF LoopOK, Critical, Locked
  <2> QED
    BY <2>1, <2>2
<1>4. ASSUME NEW t \in GameThreads, NEW p \in {"loop", "log"}, NextHandle(t, p),
             Critical(t), p = "log" => server = "running",
             UNCHANGED <<msg, entered, server_hdls, server>>,
             \A v \in GameThreads : v # t => conn_ptr'[v] = conn_ptr[v]
      PROVE  LoopOK(u)'
  <2>1. CASE u = t
    <3>1. pc'[u] = p /\ pos'[u] = pos[u] + 1
      BY <1>4, <2>1 DEF NextHandle, TypeOK
    <3>2. pos'[u] >= 1
      BY <1>0, <3>1
    <3>3. msg'[u] = entered' /\ entered' >= 1
      BY <1>0, <1>4, <2>1 DEF LoopOK
    <3> QED
      BY <1>4, <3>1, <3>2, <3>3 DEF LoopOK
  <2>2. CASE u # t
    <3>1. pc'[u] = pc[u] /\ pos'[u] = pos[u] /\ conn_ptr'[u] = conn_ptr[u]
      BY <1>4, <2>2 DEF NextHandle, TypeOK
    <3> QED
      BY <1>0, <1>4, <3>1 DEF LoopOK, Critical, Handle
  <2> QED
    BY <2>1, <2>2
<1>5. ASSUME NEW t \in GameThreads, SkipExpired(t) PROVE LoopOK(u)'
  BY <1>4, <1>5 DEF SkipExpired, AtHandle, Critical, Locked
<1>6. ASSUME NEW t \in GameThreads, SendRefused(t) PROVE LoopOK(u)'
  BY <1>4, <1>6 DEF SendRefused, Critical, Locked, TypeOK
<1>7. ASSUME NEW t \in GameThreads, SendPushes(t) PROVE LoopOK(u)'
  BY <1>0, <1>4, <1>7 DEF SendPushes, Critical, Locked, LoopOK
<1>8. ASSUME NEW t \in GameThreads, FindAlive(t) PROVE LoopOK(u)'
  <2>1. server = "running"
    <3>1. pos[t] >= 1 /\ pos[t] <= Len(server_hdls) /\ pos[t] \in Nat
      BY <1>8, Typing DEF FindAlive, AtHandle, LoopOK
    <3>2. Len(server_hdls) # 0
      BY <1>0, <3>1
    <3> QED
      BY <3>2 DEF RegistryInv
  <2> QED
    BY <1>0, <1>8, <2>1
       DEF FindAlive, AtHandle, LoopOK, Critical, Handle, Locked, TypeOK
<1>9. ASSUME NEW t \in GameThreads, Upgrade(t) PROVE LoopOK(u)'
  BY <1>0, <1>9 DEF Upgrade, LoopOK, Critical, Handle, Locked, TypeOK
<1>10. ASSUME NEW t \in GameThreads, UpgradeThrows(t) PROVE LoopOK(u)'
  BY <1>0, <1>10 DEF UpgradeThrows, LoopOK, Critical, Handle, Locked, TypeOK
<1>11. ASSUME NEW t \in GameThreads, SendChecks(t) PROVE LoopOK(u)'
  BY <1>0, <1>11 DEF SendChecks, LoopOK, Critical, Handle, Locked, TypeOK
<1>12. ASSUME NEW t \in GameThreads, SendLogs(t) PROVE LoopOK(u)'
  BY <1>0, <1>12 DEF SendLogs, LoopOK, Critical, Handle, Locked, TypeOK
<1>13. ASSUME NEW t \in GameThreads, Unlock(t) PROVE LoopOK(u)'
  BY <1>0, <1>13 DEF Unlock, LoopOK, Critical, Handle, Locked, TypeOK
<1>14. CASE ValidateRegister
  <2>1. connection_mutex = Io
    BY <1>14 DEF ValidateRegister, MutexInv
  <2>2. ~Critical(u)
    BY <2>1, ThreadsAssumption DEF MutexInv
  <2> QED
    BY <1>0, <1>14, <2>2 DEF ValidateRegister, LoopOK, Critical, Locked, callVars
<1>15. CASE PublishServer \/ Listen \/ ListenThrows \/ ValidateLock \/ UNCHANGED vars
  BY <1>1, <1>15 DEF PublishServer, Listen, ListenThrows, ValidateLock, vars, callVars
<1>16. ASSUME NEW c \in Conns, Session(c) PROVE LoopOK(u)'
  BY <1>1, <1>16 DEF Session, Accept, Validate, Open, Fail, StartClose, Close,
                     Expire, AnswerInfo, Becomes, callVars
<1> QED
  BY <1>2, <1>3, <1>5, <1>6, <1>7, <1>8, <1>9, <1>10, <1>11, <1>12, <1>13, <1>14,
     <1>15, <1>16 DEF Next, Step

(***************************************************************************)
(* One turn of the loop takes one handle off what is still to come.        *)
(***************************************************************************)
LEMMA TurnOfLoop ==
  ASSUME TypeOK, MutexInv, RegisteredOnce, NEW t \in GameThreads, Critical(t),
         pos[t] \in 1..Len(server_hdls), NEW p \in {"loop", "log"}, NextHandle(t, p),
         UNCHANGED server_hdls,
         NEW h, h = Handle(t)
  PROVE  /\ ~StillToCome(h)'
         /\ StillToCome(h)
         /\ \A c : c # h => (StillToCome(c)' <=> StillToCome(c))
<1>1. /\ pos'[t] = pos[t] + 1 /\ pc'[t] = p
      /\ \A u \in GameThreads : u # t => pos'[u] = pos[u] /\ pc'[u] = pc[u]
  BY DEF NextHandle, TypeOK
<1>2. \A u \in GameThreads : /\ Critical(u) <=> u = t
                             /\ Critical(u)' <=> u = t
  BY <1>1, Exclusion DEF Critical, Locked
<1>3. DOMAIN server_hdls = 1..Len(server_hdls) /\ pos[t] \in Nat /\ Len(server_hdls) \in Nat
  BY Typing
<1>4. \A c : StillToCome(c) <=> \E i \in 1..Len(server_hdls) :
                                   i >= pos[t] /\ server_hdls[i] = c
  BY <1>2, <1>3 DEF StillToCome
<1>5. \A c : StillToCome(c)' <=> \E i \in 1..Len(server_hdls) :
                                    i >= pos[t] + 1 /\ server_hdls[i] = c
  BY <1>1, <1>2, <1>3 DEF StillToCome
<1>6. \A i \in 1..Len(server_hdls) : server_hdls[i] = h <=> i = pos[t]
  BY <1>3 DEF Handle, RegisteredOnce
<1>7. ~StillToCome(h)'
  BY <1>3, <1>5, <1>6
<1>8. StillToCome(h)
  BY <1>3, <1>4, <1>6
<1>9. ASSUME NEW c, c # h PROVE StillToCome(c)' <=> StillToCome(c)
  <2>1. \A i \in 1..Len(server_hdls) :
          server_hdls[i] = c => (i >= pos[t] <=> i >= pos[t] + 1)
    BY <1>3, <1>6, <1>9
  <2> QED
    BY <1>4, <1>5, <2>1
<1> QED
  BY <1>7, <1>8, <1>9

-----------------------------------------------------------------------------
(* What the listeners were given.                                          *)

(***************************************************************************)
(* A pushed event joins what its listener was given, an answer does not.   *)
(***************************************************************************)
LEMMA GivenPush ==
  ASSUME TypeOK, NEW c \in Conns, NEW m \in Nat,
         m_send_queue' = [m_send_queue EXCEPT ![c] = Append(@, m)]
  PROVE  /\ Given(c)' = Given(c) \cup ({m} \ {Reply})
         /\ \A d \in Conns : d # c => Given(d)' = Given(d)
<1>1. m_send_queue[c] \in Seq(Nat) /\ m_send_queue'[c] = Append(m_send_queue[c], m)
  BY DEF TypeOK
<1>2. \A q \in Seq(Nat) : Feed!Events(Append(q, m)) = Feed!Events(q) \cup ({m} \ {Reply})
  BY EventsOfAppend DEF Feed!Reply, Reply
<1>3. Given(c)' = Given(c) \cup ({m} \ {Reply})
  BY <1>1, <1>2 DEF Given
<1>4. \A d \in Conns : d # c => m_send_queue'[d] = m_send_queue[d]
  BY DEF TypeOK
<1> QED
  BY <1>3, <1>4 DEF Given

(***************************************************************************)
(* A step that leaves c's session and the broadcast to c alone.            *)
(***************************************************************************)
LEMMA QueueFrame ==
  ASSUME NEW c \in Conns, QueueOK(c), UNCHANGED entered,
         Given(c)' = Given(c), m_state'[c] = m_state[c],
         StillToCome(c)' <=> StillToCome(c), Receiving(c)' => Receiving(c)
  PROVE  QueueOK(c)'
BY DEF QueueOK

(***************************************************************************)
(* What is still to come depends on the loop, not on the sessions.         *)
(***************************************************************************)
LEMMA StillToComeFrame ==
  ASSUME UNCHANGED <<server_hdls, pos>>,
         \A t \in GameThreads : Critical(t)' <=> Critical(t)
  PROVE  \A c : StillToCome(c)' <=> StillToCome(c)
BY DEF StillToCome

(***************************************************************************)
(* The steps of Net_SendData keep what every listener has.                 *)
(***************************************************************************)
LEMMA QueueCalls ==
  ASSUME IInv, NEW t \in GameThreads, Call(t) \/ Step(t), NEW c \in Conns
  PROVE  QueueOK(c)'
<1>0. /\ TypeOK /\ MutexInv /\ RegistryInv /\ RegisteredOnce /\ LoopOK(t) /\ QueueOK(c)
      /\ entered \in Nat
      /\ pc \in [GameThreads -> Locked \cup {"idle", "lock", "escaped"}]
  BY Typing DEF IInv, RegistryInv, TypeOK
<1>1. UNCHANGED m_send_queue => Given(c)' = Given(c)
  BY DEF Given
<1>2. ASSUME NEW p \in Locked \cup {"lock", "escaped"}, pc' = [pc EXCEPT ![t] = p],
             pc[t] \in Locked <=> p \in Locked \cup {"escaped"},
             p = "push" => m_state[conn_ptr[t]] = "open",
             p = "push" => conn_ptr' = conn_ptr,
             \A u \in GameThreads : u # t => conn_ptr'[u] = conn_ptr[u],
             pc[t] # "escaped",
             UNCHANGED <<server_hdls, pos, m_send_queue, m_state, entered>>
      PROVE  QueueOK(c)'
  <2>1. \A u \in GameThreads : Critical(u)' <=> Critical(u)
    BY <1>0, <1>2 DEF Critical, Locked
  <2>2. StillToCome(c)' <=> StillToCome(c)
    BY <1>2, <2>1, StillToComeFrame
  <2>3. Receiving(c)' => Receiving(c)
    BY <1>0, <1>2 DEF Receiving
  <2> QED
    BY <1>0, <1>1, <1>2, <2>2, <2>3, QueueFrame
<1>3. CASE Call(t)
  BY <1>2, <1>3 DEF Call, Locked
<1>4. CASE FindAlive(t) \/ Upgrade(t) \/ UpgradeThrows(t) \/ SendChecks(t) \/ SendLogs(t)
  BY <1>0, <1>2, <1>4
     DEF FindAlive, Upgrade, UpgradeThrows, SendChecks, SendLogs, AtHandle, Locked,
         TypeOK
<1>5. CASE Lock(t)
  <2>1. \A u \in GameThreads : ~Critical(u)
    BY <1>0, <1>5, ThreadsAssumption DEF Lock, MutexInv
  <2>2. ~StillToCome(c)
    BY <2>1 DEF StillToCome
  <2>3. /\ pc'[t] = "loop" /\ pos'[t] = 1
        /\ entered' = entered + 1
        /\ \A u \in GameThreads : u # t => pc'[u] = pc[u]
        /\ UNCHANGED <<server_hdls, m_state, m_send_queue, conn_ptr>>
    BY <1>0, <1>5 DEF Lock, TypeOK
  <2>4. Receiving(c)' => m_state[c] = "open"
    BY <2>1, <2>3 DEF Receiving, Critical, Locked
  <2>5. ASSUME m_state[c] = "open" PROVE StillToCome(c)'
    <3>1. PICK i \in DOMAIN server_hdls : server_hdls[i] = c
      BY <1>0, <2>5 DEF RegistryInv, Registered, Range
    <3>2. i >= 1
      BY <3>1, <1>0, Typing
    <3> QED
      BY <2>3, <3>1, <3>2 DEF StillToCome, Critical, Locked
  <2>6. m_state[c] = "open" => Given(c) = {} \/ entered \in Given(c)
    BY <1>0, <2>2 DEF QueueOK, Receiving
  <2>7. m_state[c] \in {"unborn", "connecting"} => Given(c) = {}
    BY <1>0 DEF QueueOK
  <2>8. Given(c)' = Given(c) /\ Given(c) \subseteq 1..entered
    BY <1>0, <1>1, <2>3 DEF QueueOK
  <2>9. /\ Given(c) \subseteq 1..(entered + 1)
        /\ entered + 1 \notin Given(c)
        /\ (entered + 1) - 1 = entered
    BY <1>0, <2>8
  <2> QED
    BY <2>3, <2>4, <2>5, <2>6, <2>7, <2>8, <2>9 DEF QueueOK
<1>6. CASE Unlock(t)
  <2>1. /\ pc'[t] = "idle"
        /\ \A u \in GameThreads : u # t => pc'[u] = pc[u]
        /\ UNCHANGED <<server_hdls, m_state, m_send_queue, conn_ptr, pos, entered>>
    BY <1>0, <1>6 DEF Unlock, TypeOK
  <2>2. Critical(t) /\ \A u \in GameThreads : Critical(u) => u = t
    BY <1>0, <1>6, Exclusion DEF Unlock, LoopOver, Critical, Locked
  <2>3. ~StillToCome(c)
    <3>1. \A i \in DOMAIN server_hdls : ~(i >= pos[t])
      BY <1>0, <1>6, Typing DEF Unlock, LoopOver
    <3> QED
      BY <2>2, <3>1 DEF StillToCome
  <2>4. ~StillToCome(c)'
    BY <2>1, <2>2 DEF StillToCome, Critical, Locked
  <2>5. Receiving(c)' => Receiving(c)
    BY <2>1 DEF Receiving
  <2> QED
    BY <1>0, <1>1, <2>1, <2>3, <2>4, <2>5, QueueFrame
<1>7. ASSUME pos[t] \in 1..Len(server_hdls), Critical(t),
             NEW p \in {"loop", "log"}, NextHandle(t, p),
             UNCHANGED <<server_hdls, m_state, entered>>,
             \A u \in GameThreads : u # t => conn_ptr'[u] = conn_ptr[u]
      PROVE  /\ c # Handle(t) => (StillToCome(c)' <=> StillToCome(c))
             /\ c = Handle(t) => StillToCome(c) /\ ~StillToCome(c)'
             /\ Receiving(c)' => m_state[c] = "open"
  <2>1. /\ c # Handle(t) => (StillToCome(c)' <=> StillToCome(c))
        /\ c = Handle(t) => StillToCome(c) /\ ~StillToCome(c)'
    BY <1>0, <1>7, TurnOfLoop
  <2>2. \A u \in GameThreads : pc'[u] # "push"
    BY <1>0, <1>7, Exclusion DEF NextHandle, Critical, Locked
  <2> QED
    BY <1>7, <2>1, <2>2 DEF Receiving
<1>8. CASE SkipExpired(t) \/ SendRefused(t)
  <2>1. pos[t] \in 1..Len(server_hdls) /\ Critical(t) /\ NextHandle(t, "loop")
    BY <1>0, <1>8, AtConnection DEF SkipExpired, SendRefused, AtHandle, Critical, Locked
  <2>2. m_state[Handle(t)] # "open"
    BY <1>0, <1>8 DEF SkipExpired, SendRefused, LoopOK
  <2>3. /\ UNCHANGED <<server_hdls, m_state, m_send_queue, entered>>
        /\ \A u \in GameThreads : u # t => conn_ptr'[u] = conn_ptr[u]
    BY <1>0, <1>8 DEF SkipExpired, SendRefused, TypeOK
  <2>4. Receiving(c)' => m_state[c] = "open" /\ c # Handle(t)
    BY <1>7, <2>1, <2>2, <2>3
  <2>5. CASE c = Handle(t)
    BY <1>0, <1>1, <2>3, <2>4, <2>5 DEF QueueOK
  <2>6. CASE c # Handle(t)
    BY <1>0, <1>1, <1>7, <2>1, <2>3, <2>4, <2>6, QueueFrame DEF Receiving
  <2> QED
    BY <2>5, <2>6
<1>9. CASE SendPushes(t)
  <2>1. /\ pos[t] \in 1..Len(server_hdls) /\ Critical(t) /\ NextHandle(t, "log")
        /\ conn_ptr[t] = Handle(t) /\ Handle(t) \in Conns /\ msg[t] = entered
    BY <1>0, <1>9, AtConnection DEF SendPushes, Critical, Locked, LoopOK
  <2>2. /\ UNCHANGED <<server_hdls, m_state, entered>>
        /\ \A u \in GameThreads : u # t => conn_ptr'[u] = conn_ptr[u]
        /\ m_send_queue' = [m_send_queue EXCEPT ![Handle(t)] = Append(@, entered)]
    BY <1>0, <1>9, <2>1 DEF SendPushes, TypeOK
  <2>3. Receiving(Handle(t))
    BY <1>9, <2>1 DEF SendPushes, Receiving
  <2>4. Receiving(c)' => m_state[c] = "open"
    BY <1>7, <2>1, <2>2
  <2>5. CASE c = Handle(t)
    <3>1. m_state[c] \notin {"unborn", "connecting"}
      BY <1>0, <2>3, <2>5 DEF QueueOK
    <3>2. Given(c)' = Given(c) \cup ({entered} \ {Reply})
      BY <1>0, <2>1, <2>2, <2>5, GivenPush
    <3>3. ~StillToCome(c)'
      BY <1>7, <2>1, <2>2, <2>5
    <3>4. Given(c) \subseteq 1..entered
      BY <1>0 DEF QueueOK
    <3>5. Given(c)' \subseteq 1..entered /\ (Given(c)' = {} \/ entered \in Given(c)')
      BY <1>0, <3>2, <3>4 DEF Reply
    <3> QED
      BY <2>2, <3>1, <3>3, <3>5 DEF QueueOK
  <2>6. CASE c # Handle(t)
    <3>1. Given(c)' = Given(c)
      BY <1>0, <2>1, <2>2, <2>6, GivenPush
    <3>2. StillToCome(c)' <=> StillToCome(c)
      BY <1>7, <2>1, <2>2, <2>6
    <3> QED
      BY <1>0, <2>2, <2>4, <3>1, <3>2, QueueFrame DEF Receiving
  <2> QED
    BY <2>5, <2>6
<1> QED
  BY <1>3, <1>4, <1>5, <1>6, <1>8, <1>9 DEF Step

(***************************************************************************)
(* A change of one session leaves the broadcast alone.                     *)
(***************************************************************************)
LEMMA SessionFrame ==
  ASSUME TypeOK, NEW d \in Conns, NEW s, Becomes(d, s), NEW c \in Conns
  PROVE  /\ StillToCome(c)' <=> StillToCome(c)
         /\ Given(c)' = Given(c)
         /\ UNCHANGED entered
         /\ c # d => m_state'[c] = m_state[c] /\ (Receiving(c)' <=> Receiving(c))
         /\ m_state'[d] = s
<1>1. StillToCome(c)' <=> StillToCome(c)
  BY StillToComeFrame DEF Becomes, callVars, Critical
<1> QED
  BY <1>1 DEF Becomes, callVars, Given, Receiving, TypeOK

(***************************************************************************)
(* The steps of the io thread keep what every listener has.                *)
(***************************************************************************)
LEMMA QueueIo ==
  ASSUME IInv, NEW c \in Conns,
         \/ PublishServer \/ Listen \/ ListenThrows
         \/ ValidateLock \/ ValidateRegister
         \/ \E d \in Conns : Session(d)
  PROVE  QueueOK(c)'
<1>0. TypeOK /\ MutexInv /\ RegistryInv /\ QueueOK(c) /\ entered \in Nat
  BY Typing DEF IInv
<1>1. CASE UNCHANGED <<server_hdls, m_state, m_send_queue, callVars, entered>>
  <2>1. StillToCome(c)' <=> StillToCome(c)
    BY <1>1, StillToComeFrame DEF callVars, Critical
  <2> QED
    BY <1>0, <1>1, <2>1, QueueFrame DEF callVars, Given, Receiving
<1>2. CASE ValidateRegister
  <2>1. \A u \in GameThreads : ~Critical(u) /\ ~Critical(u)'
    BY <1>0, <1>2, ThreadsAssumption DEF ValidateRegister, MutexInv, callVars, Critical
  <2>2. ~StillToCome(c) /\ ~StillToCome(c)'
    BY <2>1 DEF StillToCome
  <2> QED
    BY <1>0, <1>2, <2>2, QueueFrame DEF ValidateRegister, callVars, Given, Receiving
<1>3. ASSUME NEW d \in Conns, NEW s \in States, Becomes(d, s),
             s = "open" => m_state[d] = "connecting",
             s \in {"unborn", "connecting"} => m_state[d] = "unborn"
      PROVE  QueueOK(c)'
  <2>1. CASE c # d
    BY <1>0, <1>3, <2>1, SessionFrame, QueueFrame
  <2>2. CASE c = d
    <3>1. /\ m_state'[c] = s /\ Given(c)' = Given(c) /\ UNCHANGED entered
          /\ StillToCome(c)' <=> StillToCome(c)
      BY <1>0, <1>3, <2>2, SessionFrame
    <3>2. Receiving(c)' => Receiving(c) \/ s = "open"
      BY <1>3, <3>1 DEF Receiving, Becomes, callVars
    <3>3. m_state[d] \in {"unborn", "connecting"} => Given(c) = {} /\ ~Receiving(c)
      BY <1>0, <2>2 DEF QueueOK
    <3> QED
      BY <1>0, <1>3, <3>1, <3>2, <3>3, <2>2 DEF QueueOK
  <2> QED
    BY <2>1, <2>2
<1>4. ASSUME NEW d \in Conns, AnswerInfo(d) PROVE QueueOK(c)'
  <2>1. Given(c)' = Given(c)
    <3>1. m_send_queue' = [m_send_queue EXCEPT ![d] = Append(@, Reply)] /\ Reply \in Nat
      BY <1>4 DEF AnswerInfo, Reply
    <3>2. Given(d)' = Given(d) \cup ({Reply} \ {Reply})
      BY <1>0, <3>1, GivenPush
    <3>3. \A e \in Conns : e # d => Given(e)' = Given(e)
      BY <1>0, <3>1, GivenPush
    <3> QED
      BY <3>2, <3>3
  <2>2. StillToCome(c)' <=> StillToCome(c)
    BY <1>4, StillToComeFrame DEF AnswerInfo, callVars, Critical
  <2> QED
    BY <1>0, <1>4, <2>1, <2>2, QueueFrame DEF AnswerInfo, callVars, Receiving
<1>5. ASSUME NEW d \in Conns, Session(d) PROVE QueueOK(c)'
  BY <1>1, <1>3, <1>4, <1>5
     DEF Session, Accept, Validate, Open, Fail, StartClose, Close, Expire, States
<1> QED
  BY <1>1, <1>2, <1>5 DEF PublishServer, Listen, ListenThrows, ValidateLock, ioVars

-----------------------------------------------------------------------------
(* What a broadcast has done for the listeners it found open.              *)

(***************************************************************************)
(* A step outside the broadcast of u, or one that gives no listener less.  *)
(***************************************************************************)
LEMMA EntryFrame ==
  ASSUME TypeOK, NEW u \in GameThreads, EntryOK(u), Critical(u)' => Critical(u),
         openAtEntry'[u] = openAtEntry[u], UNCHANGED entered,
         \A c \in Conns : /\ Given(c) \subseteq Given(c)'
                          /\ m_state'[c] = "open" =>
                               m_state[c] = "open" /\ (StillToCome(c)' <=> StillToCome(c))
                          /\ m_state[c] \notin {"unborn", "connecting"} =>
                               m_state'[c] \notin {"unborn", "connecting"}
  PROVE  EntryOK(u)'
<1>1. openAtEntry[u] \subseteq Conns
  BY DEF TypeOK
<1> QED
  BY <1>1 DEF EntryOK

(***************************************************************************)
(* The steps of Net_SendData keep what the running broadcast has done.     *)
(***************************************************************************)
LEMMA EntryCalls ==
  ASSUME IInv, NEW t \in GameThreads, Call(t) \/ Step(t), NEW u \in GameThreads
  PROVE  EntryOK(u)'
<1>0. /\ TypeOK /\ MutexInv /\ RegistryInv /\ RegisteredOnce
      /\ LoopOK(t) /\ EntryOK(u) /\ EntryOK(t) /\ entered \in Nat
      /\ pc \in [GameThreads -> Locked \cup {"idle", "lock", "escaped"}]
  BY Typing DEF IInv, RegistryInv, TypeOK
<1>1. ASSUME UNCHANGED <<server_hdls, pos, m_send_queue, m_state, entered, openAtEntry>>,
             \A v \in GameThreads : Critical(v)' <=> Critical(v)
      PROVE  EntryOK(u)'
  <2>1. \A c : StillToCome(c)' <=> StillToCome(c)
    BY <1>1, StillToComeFrame
  <2> QED
    BY <1>0, <1>1, <2>1, EntryFrame DEF Given
<1>2. ASSUME NEW p \in Locked \cup {"lock", "escaped"}, pc' = [pc EXCEPT ![t] = p],
             pc[t] \in Locked <=> p \in Locked \cup {"escaped"}, pc[t] # "escaped"
      PROVE  \A v \in GameThreads : Critical(v)' <=> Critical(v)
  BY <1>0, <1>2 DEF Critical, Locked
<1>3. CASE Call(t)
  BY <1>1, <1>2, <1>3 DEF Call, Locked
<1>4. CASE FindAlive(t) \/ Upgrade(t) \/ UpgradeThrows(t) \/ SendChecks(t) \/ SendLogs(t)
  BY <1>1, <1>2, <1>4
     DEF FindAlive, Upgrade, UpgradeThrows, SendChecks, SendLogs, AtHandle, Locked
<1>5. CASE Lock(t)
  <2>1. CASE u # t
    <3>1. ~Critical(u) /\ pc'[u] = pc[u]
      BY <1>0, <1>5, <2>1, ThreadsAssumption DEF Lock, MutexInv, TypeOK
    <3> QED
      BY <3>1 DEF EntryOK, Critical
  <2>2. CASE u = t
    <3> SUFFICES ASSUME NEW c \in openAtEntry'[t]
                 PROVE  m_state'[c] = "open" /\ StillToCome(c)'
      BY <2>2 DEF EntryOK
    <3>1. c \in Conns /\ m_state[c] = "open" /\ m_state' = m_state
      BY <1>0, <1>5 DEF Lock, TypeOK
    <3>2. PICK i \in DOMAIN server_hdls : server_hdls[i] = c
      BY <1>0, <3>1 DEF RegistryInv, Registered, Range
    <3>3. i >= 1
      BY <1>0, <3>2, Typing
    <3>4. pc'[t] = "loop" /\ pos'[t] = 1 /\ server_hdls' = server_hdls
      BY <1>0, <1>5 DEF Lock, TypeOK
    <3> QED
      BY <3>1, <3>2, <3>3, <3>4 DEF StillToCome, Critical, Locked
  <2> QED
    BY <2>1, <2>2
<1>6. CASE Unlock(t)
  <2>1. pc'[t] = "idle" /\ \A v \in GameThreads : v # t => pc'[v] = pc[v]
    BY <1>0, <1>6 DEF Unlock, TypeOK
  <2>2. \A v \in GameThreads : ~Critical(v)'
    BY <1>0, <1>6, <2>1, Exclusion DEF Unlock, LoopOver, Critical, Locked
  <2> QED
    BY <2>2 DEF EntryOK
<1>7. ASSUME pos[t] \in 1..Len(server_hdls), Critical(t),
             NEW p \in {"loop", "log"}, NextHandle(t, p),
             UNCHANGED <<server_hdls, m_state, entered, openAtEntry>>,
             \A c \in Conns : Given(c) \subseteq Given(c)',
             NEW h \in Conns, h = Handle(t), m_state[h] = "open" => entered \in Given(h)'
      PROVE  EntryOK(u)'
  <2>1. CASE u # t
    <3>1. ~Critical(u)'
      BY <1>0, <1>7, <2>1, Exclusion DEF NextHandle, Critical
    <3> QED
      BY <3>1 DEF EntryOK
  <2>2. CASE u = t
    <3> SUFFICES ASSUME NEW c \in openAtEntry[t]
                 PROVE  /\ m_state[c] \notin {"unborn", "connecting"}
                        /\ m_state[c] = "open" /\ ~StillToCome(c)' =>
                             entered \in Given(c)'
      BY <1>7, <2>2 DEF EntryOK
    <3>1. c \in Conns
      BY <1>0 DEF TypeOK
    <3>2. /\ m_state[c] \notin {"unborn", "connecting"}
          /\ m_state[c] = "open" /\ ~StillToCome(c) => entered \in Given(c)
      BY <1>0, <1>7 DEF EntryOK
    <3>3. c # h => (StillToCome(c)' <=> StillToCome(c))
      BY <1>0, <1>7, TurnOfLoop
    <3> QED
      BY <1>7, <3>1, <3>2, <3>3
  <2> QED
    BY <2>1, <2>2
<1>8. CASE SkipExpired(t) \/ SendRefused(t)
  <2>1. /\ pos[t] \in 1..Len(server_hdls) /\ Critical(t) /\ NextHandle(t, "loop")
        /\ Handle(t) \in Conns
    BY <1>0, <1>8, AtConnection DEF SkipExpired, SendRefused, AtHandle, Critical, Locked
  <2>2. m_state[Handle(t)] # "open"
    BY <1>0, <1>8 DEF SkipExpired, SendRefused, LoopOK
  <2>3. /\ UNCHANGED <<server_hdls, m_state, entered, openAtEntry>>
        /\ \A c \in Conns : Given(c)' = Given(c)
    BY <1>8 DEF SkipExpired, SendRefused, Given
  <2> QED
    BY <1>7, <2>1, <2>2, <2>3
<1>9. CASE SendPushes(t)
  <2>1. /\ pos[t] \in 1..Len(server_hdls) /\ Critical(t) /\ NextHandle(t, "log")
        /\ conn_ptr[t] = Handle(t) /\ Handle(t) \in Conns /\ msg[t] = entered
    BY <1>0, <1>9, AtConnection DEF SendPushes, Critical, Locked, LoopOK
  <2>2. /\ UNCHANGED <<server_hdls, m_state, entered, openAtEntry>>
        /\ m_send_queue' = [m_send_queue EXCEPT ![Handle(t)] = Append(@, entered)]
    BY <1>0, <1>9, <2>1 DEF SendPushes, TypeOK
  <2>3. entered >= 1
    BY <1>0, <2>1 DEF LoopOK
  <2> PICK h \in Conns : h = Handle(t)
    BY <2>1
  <2>4. /\ Given(h)' = Given(h) \cup ({entered} \ {Reply})
        /\ \A c \in Conns : c # h => Given(c)' = Given(c)
    BY <1>0, <2>2, GivenPush
  <2>5. entered \in Given(h)' /\ \A c \in Conns : Given(c) \subseteq Given(c)'
    BY <1>0, <2>3, <2>4 DEF Reply
  <2> QED
    BY <1>7, <2>1, <2>2, <2>5
<1> QED
  BY <1>3, <1>4, <1>5, <1>6, <1>8, <1>9 DEF Step

(***************************************************************************)
(* The steps of the io thread keep what the running broadcast has done.    *)
(***************************************************************************)
LEMMA EntryIo ==
  ASSUME IInv, NEW u \in GameThreads,
         \/ PublishServer \/ Listen \/ ListenThrows
         \/ ValidateLock \/ ValidateRegister
         \/ \E d \in Conns : Session(d)
  PROVE  EntryOK(u)'
<1>0. TypeOK /\ MutexInv /\ EntryOK(u)
  BY DEF IInv
<1>1. CASE UNCHANGED <<server_hdls, m_state, m_send_queue, callVars, entered>>
  <2>1. \A c : StillToCome(c)' <=> StillToCome(c)
    BY <1>1, StillToComeFrame DEF callVars, Critical
  <2> QED
    BY <1>0, <1>1, <2>1, EntryFrame DEF callVars, Critical, Given
<1>2. CASE ValidateRegister
  <2>1. ~Critical(u)'
    BY <1>0, <1>2, ThreadsAssumption DEF ValidateRegister, MutexInv, callVars, Critical
  <2> QED
    BY <2>1 DEF EntryOK
<1>3. ASSUME NEW d \in Conns, NEW s \in States, Becomes(d, s),
             s = "open" => m_state[d] = "connecting",
             s \in {"unborn", "connecting"} => m_state[d] = "unborn"
      PROVE  EntryOK(u)'
  <2> SUFFICES ASSUME Critical(u), NEW c \in openAtEntry[u]
               PROVE  /\ m_state'[c] \notin {"unborn", "connecting"}
                      /\ m_state'[c] = "open" /\ ~StillToCome(c)' => entered \in Given(c)'
    BY <1>3 DEF EntryOK, Becomes, callVars, Critical
  <2>1. c \in Conns
    BY <1>0 DEF TypeOK
  <2>2. /\ m_state[c] \notin {"unborn", "connecting"}
        /\ m_state[c] = "open" /\ ~StillToCome(c) => entered \in Given(c)
    BY <1>0 DEF EntryOK
  <2> QED
    BY <1>0, <1>3, <2>1, <2>2, SessionFrame
<1>4. ASSUME NEW d \in Conns, AnswerInfo(d) PROVE EntryOK(u)'
  <2>1. m_send_queue' = [m_send_queue EXCEPT ![d] = Append(@, Reply)] /\ Reply \in Nat
    BY <1>4 DEF AnswerInfo, Reply
  <2>2. \A c \in Conns : Given(c) \subseteq Given(c)'
    <3>1. Given(d)' = Given(d) \cup ({Reply} \ {Reply})
      BY <1>0, <2>1, GivenPush
    <3>2. \A c \in Conns : c # d => Given(c)' = Given(c)
      BY <1>0, <2>1, GivenPush
    <3> QED
      BY <3>1, <3>2
  <2>3. \A c : StillToCome(c)' <=> StillToCome(c)
    BY <1>4, StillToComeFrame DEF AnswerInfo, callVars, Critical
  <2> QED
    BY <1>0, <1>4, <2>2, <2>3, EntryFrame DEF AnswerInfo, callVars, Critical
<1>5. ASSUME NEW d \in Conns, Session(d) PROVE EntryOK(u)'
  BY <1>1, <1>3, <1>4, <1>5
     DEF Session, Accept, Validate, Open, Fail, StartClose, Close, Expire, States
<1> QED
  BY <1>1, <1>2, <1>5 DEF PublishServer, Listen, ListenThrows, ValidateLock, ioVars

-----------------------------------------------------------------------------
(* The theorems.                                                           *)

(***************************************************************************)
(* The inductive invariant holds at the start ...                          *)
(***************************************************************************)
LEMMA IInvInit == Init => IInv
<1> SUFFICES ASSUME Init PROVE IInv
  OBVIOUS
<1>1. TypeOK
  BY DEF Init, TypeOK, States, Locked
<1>2. MutexInv
  BY ThreadsAssumption DEF Init, MutexInv, Critical, Locked
<1>3. RegistryInv
  BY DEF Init, RegistryInv, RegisteredOnce, Registered, Range
<1>4. \A t \in GameThreads : LoopOK(t) /\ EntryOK(t)
  BY DEF Init, LoopOK, EntryOK, Critical, Locked
<1>5. ASSUME NEW c \in Conns PROVE QueueOK(c)
  <2>1. m_send_queue[c] = <<>> /\ entered = 0 /\ m_state[c] = "unborn"
    BY DEF Init
  <2>2. Given(c) = {}
    BY <2>1 DEF Given, Feed!Events
  <2>3. ~Receiving(c)
    BY DEF Init, Receiving
  <2> QED
    BY <2>1, <2>2, <2>3 DEF QueueOK
<1> QED
  BY <1>1, <1>2, <1>3, <1>4, <1>5 DEF IInv

(***************************************************************************)
(* ... and every step keeps it.                                            *)
(***************************************************************************)
LEMMA IInvStep == IInv /\ [Next]_vars => IInv'
<1> SUFFICES ASSUME IInv, [Next]_vars PROVE IInv'
  OBVIOUS
<1>1. TypeOK /\ MutexInv /\ RegistryInv /\ \A t \in GameThreads : LoopOK(t)
  BY DEF IInv
<1>2. MutexInv' /\ RegistryInv'
  BY <1>1, MutexStep, RegistryStep
<1>3. \A t \in GameThreads : LoopOK(t)'
  BY <1>1, LoopStep
<1>4. ASSUME UNCHANGED vars
      PROVE  /\ TypeOK'
             /\ \A t \in GameThreads : EntryOK(t)'
             /\ \A c \in Conns : QueueOK(c)'
  <2>1. TypeOK'
    BY <1>1, <1>4 DEF TypeOK, vars, callVars, ioVars
  <2>2. \A c : StillToCome(c)' <=> StillToCome(c)
    BY <1>4, StillToComeFrame DEF vars, callVars, Critical
  <2>3. ASSUME NEW t \in GameThreads PROVE EntryOK(t)'
    BY <1>1, <1>4, <2>2, EntryFrame DEF IInv, vars, callVars, Critical, Given
  <2>4. ASSUME NEW c \in Conns PROVE QueueOK(c)'
    BY <1>4, <2>2, QueueFrame DEF IInv, vars, callVars, Receiving, Given
  <2> QED
    BY <2>1, <2>3, <2>4
<1>5. TypeOK' /\ (\A t \in GameThreads : EntryOK(t)') /\ (\A c \in Conns : QueueOK(c)')
  BY <1>1, <1>4, TypeCalls, TypeIo, EntryCalls, EntryIo, QueueCalls, QueueIo DEF Next
<1> QED
  BY <1>2, <1>3, <1>5 DEF IInv

(***************************************************************************)
(* The inductive invariant holds in every reachable state.                 *)
(***************************************************************************)
THEOREM NetworkingInvariant == Spec => []IInv
BY IInvInit, IInvStep, PTL DEF Spec

(***************************************************************************)
(* Type correctness.                                                       *)
(***************************************************************************)
THEOREM NetworkingTypes == Spec => []TypeOK
<1>1. IInv => TypeOK
  BY DEF IInv
<1> QED
  BY <1>1, NetworkingInvariant, PTL

(***************************************************************************)
(* No step changes server_hdls while a game thread iterates over it.       *)
(***************************************************************************)
THEOREM RegistryIsStable == Spec => RegistryStable
<1>1. IInv /\ [Next]_vars =>
        [(\E t \in GameThreads : pc[t] \in Locked) => UNCHANGED server_hdls]_vars
  <2> SUFFICES ASSUME IInv, [Next]_vars, NEW t \in GameThreads, pc[t] \in Locked
               PROVE  UNCHANGED server_hdls
    OBVIOUS
  <2>1. connection_mutex = t
    BY DEF IInv, MutexInv, Critical
  <2>2. ~ValidateRegister
    BY <2>1, ThreadsAssumption DEF ValidateRegister, IInv, MutexInv
  <2> QED
    BY <2>2, RegistryChange
<1> QED
  BY <1>1, NetworkingInvariant, PTL DEF Spec, RegistryStable

(***************************************************************************)
(* A broadcast that is about to return has reached every listener that was *)
(* open when it began and still is.                                        *)
(***************************************************************************)
THEOREM BroadcastIsComplete == Spec => []BroadcastReachesOpen
<1>1. IInv => BroadcastReachesOpen
  <2> SUFFICES ASSUME IInv, NEW t \in GameThreads, LoopOver(t),
                      NEW c \in openAtEntry[t], m_state[c] = "open"
               PROVE  msg[t] \in Range(m_send_queue[c])
    BY DEF BroadcastReachesOpen
  <2>1. TypeOK /\ MutexInv /\ LoopOK(t) /\ EntryOK(t) /\ Critical(t)
    BY DEF IInv, LoopOver, Critical, Locked
  <2>2. c \in Conns /\ m_send_queue[c] \in Seq(Nat)
    BY <2>1, Typing DEF TypeOK
  <2>3. ~StillToCome(c)
    <3>1. \A i \in DOMAIN server_hdls : ~(i >= pos[t])
      BY <2>1, Typing DEF LoopOver
    <3> QED
      BY <2>1, <3>1, Exclusion DEF StillToCome
  <2>4. msg[t] = entered /\ entered \in Given(c)
    BY <2>1, <2>3 DEF LoopOK, EntryOK
  <2> QED
    BY <2>2, <2>4 DEF Given, Feed!Events, Range
<1> QED
  BY <1>1, NetworkingInvariant, PTL

(***************************************************************************)
(* No two threads are in Log at once, although Log locks nothing.          *)
(***************************************************************************)
THEOREM LogIsExclusive == Spec => []LogExclusive
<1>1. IInv => LogExclusive
  BY Exclusion DEF IInv, LoopOK, LogExclusive, Critical, Locked
<1> QED
  BY <1>1, NetworkingInvariant, PTL

(***************************************************************************)
(* A push gives its listener the event next to the last one it was given.  *)
(***************************************************************************)
LEMMA PushDelivers ==
  ASSUME IInv, NEW t \in GameThreads, SendPushes(t)
  PROVE  Feed!Deliver(conn_ptr[t])
<1> DEFINE c == conn_ptr[t]
<1>0. TypeOK /\ MutexInv /\ RegistryInv /\ LoopOK(t) /\ entered \in Nat
  BY Typing DEF IInv
<1>1. /\ c = Handle(t) /\ Handle(t) \in Conns /\ msg[t] = entered /\ entered >= 1
      /\ pos[t] \in 1..Len(server_hdls)
  BY <1>0, AtConnection DEF SendPushes, LoopOK, Critical, Locked
<1>2. QueueOK(c) /\ Receiving(c)
  BY <1>1 DEF IInv, SendPushes, Receiving
<1>3. StillToCome(c)
  <2>1. Critical(t) /\ DOMAIN server_hdls = 1..Len(server_hdls) /\ pos[t] >= pos[t]
    BY <1>0, Typing DEF SendPushes, Critical, Locked
  <2> QED
    BY <1>1, <2>1 DEF StillToCome, Handle
<1>4. /\ Given(c) \subseteq 1..entered
      /\ entered \notin Given(c)
      /\ Given(c) # {} => entered - 1 \in Given(c)
  BY <1>2, <1>3 DEF QueueOK
<1>5. \A e \in Given(c) : e < entered
  BY <1>0, <1>4
<1>6. /\ m_send_queue' = [m_send_queue EXCEPT ![c] = Append(@, entered)]
      /\ UNCHANGED entered
      /\ entered \in 1..entered
  BY <1>0, <1>1 DEF SendPushes
<1> QED
  BY <1>4, <1>5, <1>6 DEF Feed!Deliver, Given

(***************************************************************************)
(* The registry and the broadcasts implement the feed.                     *)
(***************************************************************************)
THEOREM NetworkingImplementsFeed == Spec => ImplementsFeed
<1>1. Init => Feed!Init
  BY DEF Init, Feed!Init
<1>2. IInv /\ [Next]_vars => [Feed!Next]_(Feed!vars)
  <2> SUFFICES ASSUME IInv, [Next]_vars PROVE [Feed!Next]_(Feed!vars)
    OBVIOUS
  <2>1. ASSUME NEW t \in GameThreads, Lock(t) PROVE Feed!Next
    BY <2>1 DEF Lock, Feed!Next, Feed!Publish
  <2>2. ASSUME NEW t \in GameThreads, SendPushes(t) PROVE Feed!Next
    <3>1. conn_ptr[t] \in Conns
      BY <2>2, AtConnection DEF IInv, SendPushes, LoopOK
    <3> QED
      BY <2>2, <3>1, PushDelivers DEF Feed!Next
  <2>3. ASSUME NEW c \in Conns, AnswerInfo(c) PROVE Feed!Next
    BY <2>3 DEF AnswerInfo, Reply, Feed!Reply, Feed!Next, Feed!Answer
  <2>4. ASSUME UNCHANGED <<entered, m_send_queue>> PROVE UNCHANGED Feed!vars
    BY <2>4 DEF Feed!vars
  <2>5. ASSUME NEW t \in GameThreads, Call(t) \/ Step(t) PROVE [Feed!Next]_(Feed!vars)
    BY <2>1, <2>2, <2>4, <2>5
       DEF Call, Step, SkipExpired, FindAlive, Upgrade, UpgradeThrows, SendChecks,
           SendRefused, SendLogs, Unlock
  <2>6. ASSUME NEW c \in Conns, Session(c) PROVE [Feed!Next]_(Feed!vars)
    BY <2>3, <2>4, <2>6
       DEF Session, Accept, Validate, Open, Fail, StartClose, Close, Expire, Becomes
  <2>7. CASE PublishServer \/ Listen \/ ListenThrows \/ ValidateLock
             \/ ValidateRegister \/ UNCHANGED vars
    BY <2>4, <2>7 DEF PublishServer, Listen, ListenThrows, ValidateLock,
                      ValidateRegister, vars
  <2> QED
    BY <2>5, <2>6, <2>7 DEF Next
<1> QED
  BY <1>1, <1>2, NetworkingInvariant, PTL DEF Spec, ImplementsFeed, Feed!Spec

(***************************************************************************)
(* So every listener of the tracker is given a segment of one order.       *)
(***************************************************************************)
THEOREM ListenersGetSegments == Spec => []Feed!Segments
BY NetworkingImplementsFeed, FeedSegments DEF ImplementsFeed

-----------------------------------------------------------------------------
(* The end of a broadcast.                                                 *)

(***************************************************************************)
(* Who holds the mutex for a broadcast is moved by nobody else, and the    *)
(* vector stays as it is.                                                  *)
(***************************************************************************)
LEMMA HolderAlone ==
  ASSUME IInv, [Next]_vars, NEW t \in GameThreads, Critical(t), ~Step(t)
  PROVE  /\ pc'[t] = pc[t] /\ pos'[t] = pos[t]
         /\ UNCHANGED <<connection_mutex, server_hdls, entered>>
<1>1. TypeOK /\ MutexInv /\ connection_mutex = t /\ connection_mutex # Io
      /\ connection_mutex # Nobody
  BY ThreadsAssumption DEF IInv, MutexInv
<1>2. CASE UNCHANGED vars
  BY <1>2 DEF vars, callVars
<1>3. ASSUME NEW u \in GameThreads, Call(u)
      PROVE  /\ pc'[t] = pc[t] /\ pos'[t] = pos[t]
             /\ UNCHANGED <<connection_mutex, server_hdls, entered>>
  BY <1>1, <1>3 DEF Call, TypeOK, Critical, Locked
<1>4. ASSUME NEW u \in GameThreads, Step(u) PROVE FALSE
  <2>1. u # t
    BY <1>4
  <2>2. ~Critical(u)
    BY <1>1, <2>1, Exclusion
  <2>3. pc[u] = "lock"
    BY <1>4, <2>2
       DEF Step, AtHandle, LoopOver, SkipExpired, FindAlive, Upgrade, UpgradeThrows,
           SendChecks, SendRefused, SendPushes, SendLogs, Unlock, Lock, Critical, Locked
  <2>4. ~Lock(u)
    BY <1>1 DEF Lock
  <2> QED
    BY <1>4, <2>3, <2>4
       DEF Step, AtHandle, LoopOver, SkipExpired, FindAlive, Upgrade, UpgradeThrows,
           SendChecks, SendRefused, SendPushes, SendLogs, Unlock
<1>5. CASE PublishServer \/ Listen \/ ListenThrows
  BY <1>5 DEF PublishServer, Listen, ListenThrows, callVars
<1>6. CASE ValidateLock \/ ValidateRegister
  BY <1>1, <1>6 DEF ValidateLock, ValidateRegister, MutexInv
<1>7. ASSUME NEW c \in Conns, Session(c)
      PROVE  /\ pc'[t] = pc[t] /\ pos'[t] = pos[t]
             /\ UNCHANGED <<connection_mutex, server_hdls, entered>>
  BY <1>7 DEF Session, Accept, Validate, Open, Fail, StartClose, Close, Expire, Becomes,
              AnswerInfo, callVars
<1> QED
  BY <1>2, <1>3, <1>4, <1>5, <1>6, <1>7 DEF Next

(***************************************************************************)
(* The arithmetic of the count: k is what is left of a turn at handle p of *)
(* a vector of n handles.                                                  *)
(***************************************************************************)
LEMMA CountDown ==
  ASSUME NEW n \in Nat, NEW p \in Nat, NEW k \in 0..4, NEW l \in 0..4
  PROVE  /\ p <= n \/ (p <= n + 1 /\ k >= 3) =>
              (5 * ((n + 1) - p) + k) - 2 \in Nat
         /\ l < k => (5 * ((n + 1) - p) + l) - 2 < (5 * ((n + 1) - p) + k) - 2
         /\ l < k + 5 => (5 * ((n + 1) - (p + 1)) + l) - 2 < (5 * ((n + 1) - p) + k) - 2
OBVIOUS

(***************************************************************************)
(* What is left of a turn of the loop.                                     *)
(***************************************************************************)
TurnLeft(p) ==
  CASE p = "log" -> 4 [] p = "loop" -> 3 [] p = "lookup" -> 2
    [] p = "check" -> 1 [] OTHER -> 0

(***************************************************************************)
(* The turn goes through lookup, check, push and log; then it is over.     *)
(***************************************************************************)
LEMMA TurnOrder ==
  /\ TurnLeft("log") = 4 /\ TurnLeft("loop") = 3 /\ TurnLeft("lookup") = 2
  /\ TurnLeft("check") = 1 /\ TurnLeft("push") = 0
  /\ \A p : TurnLeft(p) \in 0..4
BY DEF TurnLeft

(***************************************************************************)
(* The count in terms of the place and of what is left of the turn.        *)
(***************************************************************************)
LEMMA StepsAreTurns ==
  ASSUME NEW t \in GameThreads
  PROVE  /\ StepsToUnlock(t) =
              (5 * ((Len(server_hdls) + 1) - pos[t]) + TurnLeft(pc[t])) - 2
         /\ StepsToUnlock(t)' =
              (5 * ((Len(server_hdls') + 1) - pos'[t]) + TurnLeft(pc'[t])) - 2
BY DEF StepsToUnlock, TurnLeft

(***************************************************************************)
(* A step of the broadcast goes on in the turn, or to the next one, and    *)
(* passes no handle that is not there.                                     *)
(***************************************************************************)
LEMMA TurnGoesOn ==
  ASSUME IInv, NEW t \in GameThreads, Step(t), pc[t] \in Locked
  PROVE  /\ server_hdls' = server_hdls
         /\ \/ pc'[t] \in {"idle", "escaped"}
            \/ /\ pc'[t] \in Locked /\ pos'[t] = pos[t]
               /\ TurnLeft(pc'[t]) < TurnLeft(pc[t])
            \/ /\ pc'[t] \in {"loop", "log"} /\ pos'[t] = pos[t] + 1
               /\ pos[t] <= Len(server_hdls)
               /\ TurnLeft(pc'[t]) < TurnLeft(pc[t]) + 5
<1>0. TypeOK /\ LoopOK(t) /\ pc[t] # "lock" /\ pos[t] \in Nat
  BY Typing DEF IInv, Locked
<1>1. CASE SkipExpired(t)
  <2>1. /\ pc[t] = "loop" /\ pc'[t] = "loop" /\ server_hdls' = server_hdls
        /\ pos'[t] = pos[t] + 1 /\ pos[t] <= Len(server_hdls)
    BY <1>0, <1>1 DEF SkipExpired, AtHandle, NextHandle, TypeOK
  <2> QED
    BY <2>1, TurnOrder DEF Locked
<1>2. CASE FindAlive(t)
  <2>1. /\ pc[t] = "loop" /\ pc'[t] = "lookup" /\ server_hdls' = server_hdls
        /\ pos'[t] = pos[t]
    BY <1>0, <1>2 DEF FindAlive, AtHandle, TypeOK
  <2> QED
    BY <2>1, TurnOrder DEF Locked
<1>3. CASE Upgrade(t)
  <2>1. /\ pc[t] = "lookup" /\ pc'[t] = "check" /\ server_hdls' = server_hdls
        /\ pos'[t] = pos[t]
    BY <1>0, <1>3 DEF Upgrade, TypeOK
  <2> QED
    BY <2>1, TurnOrder DEF Locked
<1>4. CASE UpgradeThrows(t)
  BY <1>0, <1>4 DEF UpgradeThrows, TypeOK
<1>5. CASE SendChecks(t)
  <2>1. /\ pc[t] = "check" /\ pc'[t] = "push" /\ server_hdls' = server_hdls
        /\ pos'[t] = pos[t]
    BY <1>0, <1>5 DEF SendChecks, TypeOK
  <2> QED
    BY <2>1, TurnOrder DEF Locked
<1>6. CASE SendRefused(t)
  <2>1. /\ pc[t] = "check" /\ pc'[t] = "loop" /\ server_hdls' = server_hdls
        /\ pos'[t] = pos[t] + 1 /\ pos[t] <= Len(server_hdls)
    BY <1>0, <1>6 DEF SendRefused, NextHandle, TypeOK, LoopOK
  <2> QED
    BY <2>1, TurnOrder DEF Locked
<1>7. CASE SendPushes(t)
  <2>1. /\ pc[t] = "push" /\ pc'[t] = "log" /\ server_hdls' = server_hdls
        /\ pos'[t] = pos[t] + 1 /\ pos[t] <= Len(server_hdls)
    BY <1>0, <1>7 DEF SendPushes, NextHandle, TypeOK, LoopOK
  <2> QED
    BY <2>1, TurnOrder DEF Locked
<1>8. CASE SendLogs(t)
  <2>1. /\ pc[t] = "log" /\ pc'[t] = "loop" /\ server_hdls' = server_hdls
        /\ pos'[t] = pos[t]
    BY <1>0, <1>8 DEF SendLogs, TypeOK
  <2> QED
    BY <2>1, TurnOrder DEF Locked
<1>9. CASE Unlock(t)
  BY <1>0, <1>9 DEF Unlock, LoopOver, TypeOK
<1> QED
  BY <1>0, <1>1, <1>2, <1>3, <1>4, <1>5, <1>6, <1>7, <1>8, <1>9 DEF Step, Lock

(***************************************************************************)
(* A thread gets to the loop of Net_SendData with the mutex it waited for. *)
(***************************************************************************)
LEMMA EntersByLock ==
  ASSUME TypeOK, [Next]_vars, NEW t \in GameThreads, pc[t] \notin Locked, pc'[t] \in Locked
  PROVE  Lock(t)
<1>1. ~(UNCHANGED vars) /\ ~PublishServer /\ ~Listen /\ ~ListenThrows /\ ~ValidateLock
      /\ ~ValidateRegister
  BY DEF vars, callVars, PublishServer, Listen, ListenThrows, ValidateLock, ValidateRegister
<1>2. \A c \in Conns : ~Session(c)
  BY DEF Session, Accept, Validate, Open, Fail, StartClose, Close, Expire, Becomes,
         AnswerInfo, callVars
<1>3. \A u \in GameThreads : ~Call(u)
  BY DEF Call, TypeOK, Locked
<1>4. ASSUME NEW u \in GameThreads, Step(u), ~Lock(t) PROVE FALSE
  <2>1. CASE u = t
    BY <1>4, <2>1
       DEF Step, AtHandle, LoopOver, SkipExpired, FindAlive, Upgrade, UpgradeThrows,
           SendChecks, SendRefused, SendPushes, SendLogs, Unlock, Locked
  <2>2. CASE u # t
    BY <1>4, <2>2
       DEF Step, SkipExpired, FindAlive, Upgrade, UpgradeThrows, NextHandle, TypeOK,
           SendChecks, SendRefused, SendPushes, SendLogs, Unlock, Lock
  <2> QED
    BY <2>1, <2>2
<1> QED
  BY <1>1, <1>2, <1>3, <1>4 DEF Next

(***************************************************************************)
(* Only a broadcast gives events: the answers of the io thread are none.   *)
(***************************************************************************)
LEMMA OnlyPushesGive ==
  ASSUME TypeOK, [Next]_vars, \A u \in GameThreads : ~SendPushes(u)
  PROVE  \A c \in Conns : Given(c)' = Given(c)
<1>1. CASE UNCHANGED m_send_queue
  BY <1>1 DEF Given, Feed!Events
<1>2. ASSUME NEW c \in Conns, AnswerInfo(c) PROVE \A d \in Conns : Given(d)' = Given(d)
  <2>1. m_send_queue' = [m_send_queue EXCEPT ![c] = Append(@, Reply)] /\ Reply \in Nat
    BY <1>2 DEF AnswerInfo, Reply
  <2> QED
    BY <2>1, GivenPush
<1> QED
  BY <1>1, <1>2
     DEF Next, vars, Call, Step, SkipExpired, FindAlive, Upgrade, UpgradeThrows, SendChecks,
         SendRefused, SendLogs, Unlock, Lock, PublishServer, Listen, ListenThrows,
         ValidateLock, ValidateRegister, Session, Accept, Validate, Open, Fail, StartClose,
         Close, Expire, Becomes

(***************************************************************************)
(* The loop passes no handle that is not there: what StepsToUnlock counts  *)
(* are steps.                                                              *)
(***************************************************************************)
THEOREM StepsCounted == Spec => []StepsAreCounted
<1> DEFINE InVector == \A t \in GameThreads : pc[t] \in Locked => pos[t] <= Len(server_hdls) + 1
<1>1. Init => InVector
  BY DEF Init, Locked
<1>2. IInv /\ InVector /\ [Next]_vars => InVector'
  <2> SUFFICES ASSUME IInv, InVector, [Next]_vars, NEW t \in GameThreads, pc'[t] \in Locked
               PROVE  pos'[t] <= Len(server_hdls') + 1
    OBVIOUS
  <2>0. TypeOK /\ Len(server_hdls) \in Nat /\ pos[t] \in Nat
    BY Typing DEF IInv
  <2>1. CASE pc[t] \in Locked /\ Step(t)
    <3>1. pos[t] <= Len(server_hdls) + 1
      BY <2>1
    <3> QED
      BY <2>0, <2>1, <3>1, TurnGoesOn DEF Locked
  <2>2. CASE pc[t] \in Locked /\ ~Step(t)
    <3>1. Critical(t)
      BY <2>2 DEF Critical
    <3>2. pos'[t] = pos[t] /\ server_hdls' = server_hdls
      BY <2>2, <3>1, HolderAlone
    <3> QED
      BY <2>2, <3>2
  <2>3. CASE pc[t] \notin Locked
    <3>1. Lock(t)
      BY <2>0, <2>3, EntersByLock
    <3>2. pos'[t] = 1 /\ server_hdls' = server_hdls
      BY <2>0, <3>1 DEF Lock, TypeOK
    <3> QED
      BY <2>0, <3>2
  <2> QED
    BY <2>1, <2>2, <2>3
<1>3. IInv /\ InVector => StepsAreCounted
  <2> SUFFICES ASSUME IInv, InVector, NEW t \in GameThreads, pc[t] \in Locked
               PROVE  pos[t] <= Len(server_hdls) + 1 /\ StepsToUnlock(t) \in Nat
    BY DEF StepsAreCounted
  <2>1. /\ Len(server_hdls) \in Nat /\ pos[t] \in Nat
        /\ pos[t] <= Len(server_hdls) + 1
    BY Typing DEF IInv
  <2>2. pos[t] <= Len(server_hdls) \/ TurnLeft(pc[t]) >= 3
    <3>1. pc[t] \in {"lookup", "check", "push"} => pos[t] <= Len(server_hdls)
      BY DEF IInv, LoopOK
    <3> QED
      BY <3>1, TurnOrder DEF Locked
  <2>3. TurnLeft(pc[t]) \in 0..4
    BY TurnOrder
  <2> QED
    BY <2>1, <2>2, <2>3, CountDown, StepsAreTurns
<1> HIDE DEF InVector
<1> QED
  BY <1>1, <1>2, <1>3, NetworkingInvariant, PTL DEF Spec

(***************************************************************************)
(* Every step of a broadcast brings it nearer to its end and nobody else   *)
(* sets it back: with the fairness of its steps it ends.                   *)
(***************************************************************************)
THEOREM BroadcastsAdvance == Spec => BroadcastAdvances
<1>1. IInv /\ [Next]_vars =>
        [\A t \in GameThreads : pc[t] \in Locked =>
           \/ pc'[t] = pc[t] /\ StepsToUnlock(t)' = StepsToUnlock(t) /\ ~Step(t)
           \/ pc'[t] \in Locked /\ StepsToUnlock(t)' < StepsToUnlock(t) /\ Step(t)
           \/ pc'[t] \in {"idle", "escaped"} /\ Step(t)]_vars
  <2> SUFFICES ASSUME IInv, [Next]_vars, NEW t \in GameThreads, pc[t] \in Locked
               PROVE  \/ pc'[t] = pc[t] /\ StepsToUnlock(t)' = StepsToUnlock(t) /\ ~Step(t)
                      \/ pc'[t] \in Locked /\ StepsToUnlock(t)' < StepsToUnlock(t) /\ Step(t)
                      \/ pc'[t] \in {"idle", "escaped"} /\ Step(t)
    OBVIOUS
  <2>0. /\ Len(server_hdls) \in Nat /\ pos[t] \in Nat
        /\ TurnLeft(pc[t]) \in 0..4 /\ TurnLeft(pc'[t]) \in 0..4
    BY Typing, TurnOrder DEF IInv
  <2>1. CASE ~Step(t)
    <3>1. Critical(t)
      BY DEF Critical
    <3>2. pc'[t] = pc[t] /\ pos'[t] = pos[t] /\ server_hdls' = server_hdls
      BY <2>1, <3>1, HolderAlone
    <3>3. StepsToUnlock(t)' = StepsToUnlock(t)
      BY <3>2, StepsAreTurns
    <3> QED
      BY <2>1, <3>2, <3>3
  <2>2. CASE Step(t)
    <3>1. ASSUME pc'[t] \in Locked, pos'[t] = pos[t],
                 TurnLeft(pc'[t]) < TurnLeft(pc[t])
          PROVE  StepsToUnlock(t)' < StepsToUnlock(t)
      BY <2>0, <2>2, <3>1, TurnGoesOn, StepsAreTurns, CountDown
    <3>2. ASSUME pos'[t] = pos[t] + 1, TurnLeft(pc'[t]) < TurnLeft(pc[t]) + 5
          PROVE  StepsToUnlock(t)' < StepsToUnlock(t)
      <4>1. server_hdls' = server_hdls
        BY <2>2, TurnGoesOn
      <4>2. StepsToUnlock(t)' =
              (5 * ((Len(server_hdls) + 1) - (pos[t] + 1)) + TurnLeft(pc'[t])) - 2
        BY <3>2, <4>1, StepsAreTurns
      <4>3. StepsToUnlock(t) =
              (5 * ((Len(server_hdls) + 1) - pos[t]) + TurnLeft(pc[t])) - 2
        BY StepsAreTurns
      <4> QED
        BY <2>0, <3>2, <4>2, <4>3, CountDown
    <3> QED
      BY <2>2, <3>1, <3>2, TurnGoesOn DEF Locked
  <2> QED
    BY <2>1, <2>2
<1> QED
  BY <1>1, NetworkingInvariant, PTL DEF Spec, BroadcastAdvances

(***************************************************************************)
(* After an exception left Net_SendData no broadcast begins, no listener is*)
(* registered and none is given another event.                             *)
(***************************************************************************)
THEOREM EscapesAreFinal == Spec => EscapeIsFinal
<1>1. IInv /\ [Next]_vars =>
        [\A t \in GameThreads : pc[t] = "escaped" =>
           /\ pc'[t] = "escaped"
           /\ UNCHANGED <<connection_mutex, server_hdls, entered>>
           /\ \A c \in Conns : Given(c)' = Given(c)]_vars
  <2> SUFFICES ASSUME IInv, [Next]_vars, NEW t \in GameThreads, pc[t] = "escaped"
               PROVE  /\ pc'[t] = "escaped"
                      /\ UNCHANGED <<connection_mutex, server_hdls, entered>>
                      /\ \A c \in Conns : Given(c)' = Given(c)
    OBVIOUS
  <2>1. Critical(t)
    BY DEF Critical
  <2>2. ~Step(t)
    BY DEF Step, AtHandle, LoopOver, SkipExpired, FindAlive, Upgrade, UpgradeThrows,
           SendChecks, SendRefused, SendPushes, SendLogs, Unlock, Lock
  <2>3. \A u \in GameThreads : ~SendPushes(u)
    <3> SUFFICES ASSUME NEW u \in GameThreads, SendPushes(u) PROVE FALSE
      OBVIOUS
    <3>1. Critical(u) /\ pc[u] = "push"
      BY DEF SendPushes, Critical, Locked
    <3> QED
      BY <2>1, <3>1, Exclusion DEF IInv
  <2>4. \A c \in Conns : Given(c)' = Given(c)
    BY <2>3, OnlyPushesGive DEF IInv
  <2> QED
    BY <2>1, <2>2, <2>4, HolderAlone
<1> QED
  BY <1>1, NetworkingInvariant, PTL DEF Spec, EscapeIsFinal

=============================================================================
