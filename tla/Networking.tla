----------------------------- MODULE Networking -----------------------------
(***************************************************************************)
(* networking.cpp: the registry of websocket listeners and the broadcast   *)
(* of a game event to all of them.                                         *)
(*                                                                         *)
(* Two kinds of threads meet here.  Game threads run the hooked game       *)
(* functions, and each of them calls Net_SendData with the event it saw.   *)
(* One thread, the one that called Net_StartListening, runs the io_service *)
(* and with it every handler of every connection.  They share              *)
(* connection_mutex, server_hdls, server, and the connections themselves.  *)
(*                                                                         *)
(* A connection is a heap object that dies when the last shared_ptr to it  *)
(* goes; server_hdls holds weak_ptrs only.  Of its session the module      *)
(* keeps the m_state that send() reads, and of its handshake the validate  *)
(* handler; what else websocketpp does with a connection is left out.      *)
(*                                                                         *)
(* The client side (connections, Net_ConnectToWebsocket) is not here: the  *)
(* program's only call of it is commented out in main.cpp, so connections  *)
(* is empty and the first loop of Net_SendData does nothing.               *)
(***************************************************************************)
EXTENDS Naturals, Sequences, Functions, FiniteSets

CONSTANTS
  GameThreads,     \* threads that may run a hooked game function
  Conns,           \* the connections that may ever be accepted
  Io,              \* the thread that runs the io_service
  Nobody,          \* no thread, no connection
  MaxBroadcasts,   \* bound: no call of Net_SendData starts after so many
  Askers,          \* bound: the connections that send "info" requests
  MaxReplies       \* bound: "info" requests answered per connection

ASSUME ThreadsAssumption == Io \notin GameThreads /\ Nobody \notin GameThreads /\ Io # Nobody
ASSUME ConnsAssumption == Nobody \notin Conns
ASSUME BoundsAssumption == MaxBroadcasts \in Nat /\ MaxReplies \in Nat

VARIABLES
  connection_mutex,  \* the thread that holds it, or Nobody
  server,            \* what the static pointer `server` points to
  server_hdls,       \* the weak handles, oldest first
  m_state,           \* per connection: its session state, or the state of its storage
  m_send_queue,      \* per connection: every data message send() accepted, oldest first
  pc,                \* per game thread: where in Net_SendData it is
  pos,               \* per game thread: the handle its loop is at
  msg,               \* per game thread: the event it is sending
  conn_ptr,          \* per game thread: the shared_ptr it got from the handle, or Nobody
  entered,           \* how many broadcasts have taken the mutex; the last one is event `entered`
  openAtEntry,       \* history: per game thread, the connections open when it took the mutex
  ioPc,              \* what the io thread is in the middle of
  ioConn             \* the connection whose validate handler it runs, or Nobody

callVars == <<pc, pos, msg, conn_ptr, openAtEntry>>
ioVars == <<ioPc, ioConn>>
vars == <<connection_mutex, server, server_hdls, m_state, m_send_queue,
          callVars, entered, ioVars>>

Reply == 0   \* stands for the answer to an "info" request in m_send_queue

\* "unborn" and "expired" frame the session states: no object yet, object destroyed.
States == {"unborn", "connecting", "open", "closing", "closed", "expired"}

\* Where a call of Net_SendData holds connection_mutex.
Locked == {"loop", "lookup", "check", "push", "log"}

Init ==
  /\ connection_mutex = Nobody
  /\ server = "null"
  /\ server_hdls = <<>>
  /\ m_state = [c \in Conns |-> "unborn"]
  /\ m_send_queue = [c \in Conns |-> <<>>]
  /\ pc = [t \in GameThreads |-> "idle"]
  /\ pos = [t \in GameThreads |-> 1]
  /\ msg = [t \in GameThreads |-> 0]
  /\ conn_ptr = [t \in GameThreads |-> Nobody]
  /\ entered = 0
  /\ openAtEntry = [t \in GameThreads |-> {}]
  /\ ioPc = "run"
  /\ ioConn = Nobody

-----------------------------------------------------------------------------
(* Net_SendData, run by a game thread t.                                   *)

\* A hooked function has an event to report.
Call(t) ==
  /\ pc[t] = "idle"
  /\ entered < MaxBroadcasts
  /\ pc' = [pc EXCEPT ![t] = "lock"]
  /\ UNCHANGED <<connection_mutex, server, server_hdls, m_state, m_send_queue,
                 pos, msg, conn_ptr, entered, openAtEntry, ioVars>>

\* Mutant of Lock: the lock is forgotten.
LockNotTaken(t) ==
  /\ pc[t] = "lock"
  /\ connection_mutex' = t
  /\ entered' = entered + 1
  /\ msg' = [msg EXCEPT ![t] = entered + 1]
  /\ pos' = [pos EXCEPT ![t] = 1]
  /\ pc' = [pc EXCEPT ![t] = "loop"]
  /\ openAtEntry' = [openAtEntry EXCEPT ![t] = {c \in Conns : m_state[c] = "open"}]
  /\ UNCHANGED <<server, server_hdls, m_state, m_send_queue, conn_ptr, ioVars>>

\* connection_mutex.lock(), and the start of the loop over server_hdls.
Lock(t) ==
  /\ pc[t] = "lock"
  /\ connection_mutex = Nobody
  /\ connection_mutex' = t
  /\ entered' = entered + 1
  /\ msg' = [msg EXCEPT ![t] = entered + 1]
  /\ pos' = [pos EXCEPT ![t] = 1]
  /\ pc' = [pc EXCEPT ![t] = "loop"]
  /\ openAtEntry' = [openAtEntry EXCEPT ![t] = {c \in Conns : m_state[c] = "open"}]
  /\ UNCHANGED <<server, server_hdls, m_state, m_send_queue, conn_ptr, ioVars>>

AtHandle(t) == pc[t] = "loop" /\ pos[t] <= Len(server_hdls)
Handle(t) == server_hdls[pos[t]]

\* The handle of this turn of the loop is done with.
NextHandle(t, p) ==
  /\ pos' = [pos EXCEPT ![t] = @ + 1]
  /\ pc' = [pc EXCEPT ![t] = p]

\* Mutant of SkipExpired: `break` where the code goes on with the next handle.
BreakAtExpired(t) ==
  /\ AtHandle(t)
  /\ m_state[Handle(t)] = "expired"
  /\ pos' = [pos EXCEPT ![t] = Len(server_hdls) + 1]
  /\ UNCHANGED <<connection_mutex, server, server_hdls, m_state, m_send_queue,
                 pc, msg, conn_ptr, entered, openAtEntry, ioVars>>

\* Mutant of SkipExpired: a while loop whose `continue` forgets the increment.
StayAtExpired(t) ==
  /\ AtHandle(t)
  /\ m_state[Handle(t)] = "expired"
  /\ UNCHANGED vars

\* hdl.expired() is true: the handle is passed over.
SkipExpired(t) ==
  /\ AtHandle(t)
  /\ m_state[Handle(t)] = "expired"
  /\ NextHandle(t, "loop")
  /\ UNCHANGED <<connection_mutex, server, server_hdls, m_state, m_send_queue,
                 msg, conn_ptr, entered, openAtEntry, ioVars>>

\* hdl.expired() is false.
FindAlive(t) ==
  /\ AtHandle(t)
  /\ m_state[Handle(t)] # "expired"
  /\ pc' = [pc EXCEPT ![t] = "lookup"]
  /\ UNCHANGED <<connection_mutex, server, server_hdls, m_state, m_send_queue,
                 pos, msg, conn_ptr, entered, openAtEntry, ioVars>>

\* server->get_con_from_hdl(hdl): hdl.lock() gives the connection ...
Upgrade(t) ==
  /\ pc[t] = "lookup"
  /\ m_state[Handle(t)] # "expired"
  /\ conn_ptr' = [conn_ptr EXCEPT ![t] = Handle(t)]
  /\ pc' = [pc EXCEPT ![t] = "check"]
  /\ UNCHANGED <<connection_mutex, server, server_hdls, m_state, m_send_queue,
                 pos, msg, entered, openAtEntry, ioVars>>

\* ... or nothing, and the overload without an error_code throws bad_connection.
\* Nothing in Net_SendData or above it catches; the mutex is not released.
UpgradeThrows(t) ==
  /\ pc[t] = "lookup"
  /\ m_state[Handle(t)] = "expired"
  /\ pc' = [pc EXCEPT ![t] = "escaped"]
  /\ UNCHANGED <<connection_mutex, server, server_hdls, m_state, m_send_queue,
                 pos, msg, conn_ptr, entered, openAtEntry, ioVars>>

\* connection::send() reads m_state: the session is open ...
SendChecks(t) ==
  /\ pc[t] = "check"
  /\ m_state[conn_ptr[t]] = "open"
  /\ pc' = [pc EXCEPT ![t] = "push"]
  /\ UNCHANGED <<connection_mutex, server, server_hdls, m_state, m_send_queue,
                 pos, msg, conn_ptr, entered, openAtEntry, ioVars>>

\* ... or it is not, and send() returns invalid_state.
SendRefused(t) ==
  /\ pc[t] = "check"
  /\ m_state[conn_ptr[t]] # "open"
  /\ conn_ptr' = [conn_ptr EXCEPT ![t] = Nobody]
  /\ NextHandle(t, "loop")
  /\ UNCHANGED <<connection_mutex, server, server_hdls, m_state, m_send_queue,
                 msg, entered, openAtEntry, ioVars>>

\* The message goes into the queue, whatever became of the session meanwhile.
SendPushes(t) ==
  /\ pc[t] = "push"
  /\ m_send_queue' = [m_send_queue EXCEPT ![conn_ptr[t]] = Append(@, msg[t])]
  /\ NextHandle(t, "log")
  /\ UNCHANGED <<connection_mutex, server, server_hdls, m_state,
                 msg, conn_ptr, entered, openAtEntry, ioVars>>

\* send() returned no error, and it is then that the code calls Log.  With the
\* end of this turn of the loop conn_ptr goes.
SendLogs(t) ==
  /\ pc[t] = "log"
  /\ pc' = [pc EXCEPT ![t] = "loop"]
  /\ conn_ptr' = [conn_ptr EXCEPT ![t] = Nobody]
  /\ UNCHANGED <<connection_mutex, server, server_hdls, m_state, m_send_queue,
                 pos, msg, entered, openAtEntry, ioVars>>

\* The loop is over: connection_mutex.unlock().
LoopOver(t) == pc[t] = "loop" /\ pos[t] > Len(server_hdls)

Unlock(t) ==
  /\ LoopOver(t)
  /\ connection_mutex' = Nobody
  /\ pc' = [pc EXCEPT ![t] = "idle"]
  /\ UNCHANGED <<server, server_hdls, m_state, m_send_queue,
                 pos, msg, conn_ptr, entered, openAtEntry, ioVars>>

Step(t) ==
  \/ Lock(t) \/ SkipExpired(t) \/ FindAlive(t) \/ Upgrade(t) \/ UpgradeThrows(t)
  \/ SendChecks(t) \/ SendRefused(t) \/ SendPushes(t) \/ SendLogs(t) \/ Unlock(t)

-----------------------------------------------------------------------------
(* Net_StartListening and the handlers, run by the io thread.              *)

\* server = &s, and the Log call after it.
PublishServer ==
  /\ server = "null"
  /\ server' = "set up"
  /\ UNCHANGED <<connection_mutex, server_hdls, m_state, m_send_queue,
                 callVars, entered, ioVars>>

\* listen() and start_accept() succeed and run() starts.
Listen ==
  /\ server = "set up"
  /\ server' = "running"
  /\ UNCHANGED <<connection_mutex, server_hdls, m_state, m_send_queue,
                 callVars, entered, ioVars>>

\* One of them throws (the port is taken): caught, and the function returns,
\* leaving the pointer at a destroyed local.
ListenThrows ==
  /\ server = "set up"
  /\ server' = "dangling"
  /\ UNCHANGED <<connection_mutex, server_hdls, m_state, m_send_queue,
                 callVars, entered, ioVars>>

\* The io thread picks up another handler.
Ready == server = "running" /\ ioPc = "run"

Becomes(c, s) ==
  /\ m_state' = [m_state EXCEPT ![c] = s]
  /\ UNCHANGED <<connection_mutex, server, server_hdls, m_send_queue,
                 callVars, entered, ioVars>>

Registered(c) == c \in Range(server_hdls)

\* A TCP connection is accepted: the endpoint makes the connection object.
Accept(c) == Ready /\ m_state[c] = "unborn" /\ Becomes(c, "connecting")

\* The handshake request is complete and valid: the validate handler is called ...
Validate(c) ==
  /\ Ready
  /\ m_state[c] = "connecting"
  /\ ~Registered(c)
  /\ ioPc' = "validate"
  /\ ioConn' = c
  /\ UNCHANGED <<connection_mutex, server, server_hdls, m_state, m_send_queue,
                 callVars, entered>>

\* Mutant of ValidateLock: validate does not lock.
ValidateNotLocked ==
  /\ ioPc = "validate"
  /\ ioPc' = "register"
  /\ UNCHANGED <<connection_mutex, server, server_hdls, m_state, m_send_queue,
                 callVars, entered, ioConn>>

\* ... it waits for the mutex ...
ValidateLock ==
  /\ ioPc = "validate"
  /\ connection_mutex = Nobody
  /\ connection_mutex' = Io
  /\ ioPc' = "register"
  /\ UNCHANGED <<server, server_hdls, m_state, m_send_queue,
                 callVars, entered, ioConn>>

\* Mutant of ValidateRegister: the handle is registered after it was let go.
RegisterNobody ==
  /\ ioPc = "register"
  /\ server_hdls' = Append(server_hdls, Nobody)
  /\ connection_mutex' = Nobody
  /\ ioPc' = "run"
  /\ ioConn' = Nobody
  /\ UNCHANGED <<server, m_state, m_send_queue, callVars, entered>>

\* ... and registers the handle.
ValidateRegister ==
  /\ ioPc = "register"
  /\ server_hdls' = Append(server_hdls, ioConn)
  /\ connection_mutex' = Nobody
  /\ ioPc' = "run"
  /\ ioConn' = Nobody
  /\ UNCHANGED <<server, m_state, m_send_queue, callVars, entered>>

\* The handshake response was written.
Open(c) == Ready /\ m_state[c] = "connecting" /\ Registered(c) /\ Becomes(c, "open")

\* The handshake ended some other way: a plain HTTP request, a bad request,
\* a read or write error, the handshake timer.
Fail(c) == Ready /\ m_state[c] = "connecting" /\ Becomes(c, "closed")

\* A close frame is being sent, in answer to the peer's or for a protocol error.
StartClose(c) == Ready /\ m_state[c] = "open" /\ Becomes(c, "closing")

\* The connection terminates.
Close(c) == Ready /\ m_state[c] \in {"open", "closing"} /\ Becomes(c, "closed")

\* The last shared_ptr goes.  The io_service gives up its own at any time after
\* the session is closed; a game thread in the middle of send() still has one.
Expire(c) ==
  /\ m_state[c] = "closed"
  /\ \A t \in GameThreads : conn_ptr[t] # c
  /\ Becomes(c, "expired")

\* on_message_server: an "info" request is answered on the same connection,
\* without connection_mutex.  The io thread itself is the only one to change
\* m_state, so send() finds the session as the message handler did.
AnswerInfo(c) ==
  /\ Ready
  /\ m_state[c] = "open"
  /\ c \in Askers
  /\ Cardinality({i \in DOMAIN m_send_queue[c] : m_send_queue[c][i] = Reply}) < MaxReplies
  /\ m_send_queue' = [m_send_queue EXCEPT ![c] = Append(@, Reply)]
  /\ UNCHANGED <<connection_mutex, server, server_hdls, m_state,
                 callVars, entered, ioVars>>

-----------------------------------------------------------------------------

Session(c) ==
  \/ Accept(c) \/ Validate(c) \/ Open(c) \/ Fail(c)
  \/ StartClose(c) \/ Close(c) \/ Expire(c) \/ AnswerInfo(c)

Next ==
  \/ \E t \in GameThreads : Call(t) \/ Step(t)
  \/ PublishServer \/ Listen \/ ListenThrows
  \/ ValidateLock \/ ValidateRegister
  \/ \E c \in Conns : Session(c)

Spec == Init /\ [][Next]_vars

\* A started call goes on as long as it can.  Nothing is assumed of the game
\* (Call), of the listeners (Session), or of who gets a mutex both want.
FairSpec == Spec /\ \A t \in GameThreads : WF_vars(Step(t))

-----------------------------------------------------------------------------
(* Properties.                                                             *)

TypeOK ==
  /\ connection_mutex \in GameThreads \cup {Io, Nobody}
  /\ server \in {"null", "set up", "running", "dangling"}
  /\ server_hdls \in Seq(Conns)
  /\ m_state \in [Conns -> States]
  /\ m_send_queue \in [Conns -> Seq(Nat)]
  /\ pc \in [GameThreads -> Locked \cup {"idle", "lock", "escaped"}]
  /\ pos \in [GameThreads -> Nat]
  /\ msg \in [GameThreads -> Nat]
  /\ conn_ptr \in [GameThreads -> Conns \cup {Nobody}]
  /\ entered \in Nat
  /\ openAtEntry \in [GameThreads -> SUBSET Conns]
  /\ ioPc \in {"run", "validate", "register"}
  /\ ioConn \in Conns \cup {Nobody}

(***************************************************************************)
(* While a game thread iterates over server_hdls (networking.cpp:168-178)  *)
(* the vector does not change: push_back in validate would invalidate the  *)
(* iterators of the loop.                                                  *)
(***************************************************************************)
RegistryStable ==
  [][(\E t \in GameThreads : pc[t] \in Locked) => UNCHANGED server_hdls]_vars

(***************************************************************************)
(* A handle is registered once, whatever the order of handshakes and       *)
(* failures; a second copy would send every event twice to its listener.   *)
(***************************************************************************)
RegisteredOnce ==
  \A i, j \in DOMAIN server_hdls : server_hdls[i] = server_hdls[j] => i = j

(***************************************************************************)
(* When a broadcast is about to return, it has reached every listener that *)
(* was open when it began and still is: the loop misses no handle, although*)
(* sessions open, close and expire while it runs.                          *)
(***************************************************************************)
BroadcastReachesOpen ==
  \A t \in GameThreads : LoopOver(t) =>
    \A c \in openAtEntry[t] :
      m_state[c] = "open" => msg[t] \in Range(m_send_queue[c])

(***************************************************************************)
(* Log (logger.cpp:13-22) opens and writes one static stream and locks     *)
(* nothing.  It is called by broadcasts, and by the listening thread up to *)
(* networking.cpp:122; still no two threads are in it at once.             *)
(***************************************************************************)
LogExclusive ==
  \A t \in GameThreads : pc[t] = "log" =>
    /\ server \notin {"null", "set up"}
    /\ \A u \in GameThreads : pc[u] = "log" => u = t

(***************************************************************************)
(* The registry and the broadcasts implement the feed of Feed.tla: every   *)
(* listener is given a gapless segment of one global order of events,      *)
(* although several game threads send and sessions come and go.            *)
(***************************************************************************)
Feed == INSTANCE Feed WITH published <- entered, log <- m_send_queue

ImplementsFeed == Feed!Spec

(***************************************************************************)
(* A broadcast that has the mutex gives it back, unless some call of       *)
(* get_con_from_hdl throws: the loop ends whatever the sessions do.        *)
(***************************************************************************)
BroadcastsEnd ==
  [](\A t \in GameThreads : pc[t] # "escaped") =>
    \A t \in GameThreads : pc[t] \in Locked ~> pc[t] = "idle"

(***************************************************************************)
(* A handle that networking.cpp:169 found alive can be upgraded at line    *)
(* 170, so that no exception leaves Net_SendData with the mutex locked.    *)
(* websocketpp documents that a connection obtained this way is not safe   *)
(* to use outside the handler loop (endpoint.hpp:634-637).                 *)
(***************************************************************************)
HandleUpgradeSafe == \A t \in GameThreads : pc[t] # "escaped"

-----------------------------------------------------------------------------
(* The inductive invariant behind the properties above.                    *)

Critical(t) == pc[t] \in Locked \cup {"escaped"}

\* connection_mutex is held by the thread that is where it should be held,
\* and for ever by a thread that left Net_SendData with an exception.
MutexInv ==
  /\ \A t \in GameThreads : Critical(t) <=> connection_mutex = t
  /\ ioPc = "register" <=> connection_mutex = Io

\* A session goes through validate before it opens, and goes through it once.
RegistryInv ==
  /\ RegisteredOnce
  /\ ioPc # "run" => /\ ioConn \in Conns
                     /\ m_state[ioConn] = "connecting"
                     /\ ~Registered(ioConn)
                     /\ server = "running"
  /\ server # "running" => server_hdls = <<>>
  /\ \A c \in Conns : m_state[c] = "unborn" => ~Registered(c)
  /\ \A c \in Conns : m_state[c] \in {"open", "closing"} => Registered(c)

\* The loop of a call is at one of the handles, with the event it entered with.
LoopOK(t) ==
  /\ pos[t] >= 1
  /\ Critical(t) => msg[t] = entered /\ entered >= 1
  /\ pc[t] \in {"lookup", "check", "push"} => pos[t] <= Len(server_hdls)
  /\ pc[t] \in {"check", "push"} => conn_ptr[t] = Handle(t)
  /\ pc[t] \in {"lookup", "check", "push", "log"} => server = "running"

\* The events that c was given.
Given(c) == Feed!Events(m_send_queue[c])

\* The current broadcast has still to come to c.
StillToCome(c) ==
  \E t \in GameThreads :
    Critical(t) /\ \E i \in DOMAIN server_hdls : i >= pos[t] /\ server_hdls[i] = c

\* c is given the events that come to it.
Receiving(c) ==
  \/ m_state[c] = "open"
  \/ \E t \in GameThreads : pc[t] = "push" /\ conn_ptr[t] = c

\* What c has: nothing before it opened; later all up to the last event, or up
\* to the one before when the current broadcast has still to come to it.
QueueOK(c) ==
  /\ Given(c) \subseteq 1..entered
  /\ m_state[c] \in {"unborn", "connecting"} => Given(c) = {} /\ ~Receiving(c)
  /\ Receiving(c) /\ StillToCome(c) =>
       entered \notin Given(c) /\ (Given(c) = {} \/ entered - 1 \in Given(c))
  /\ Receiving(c) /\ ~StillToCome(c) =>
       Given(c) = {} \/ entered \in Given(c)

\* What the running broadcast has done for the listeners it found open.
EntryOK(t) ==
  Critical(t) => \A c \in openAtEntry[t] :
    /\ m_state[c] \notin {"unborn", "connecting"}
    /\ m_state[c] = "open" /\ ~StillToCome(c) => entered \in Given(c)

IInv ==
  /\ TypeOK
  /\ MutexInv
  /\ RegistryInv
  /\ \A t \in GameThreads : LoopOK(t) /\ EntryOK(t)
  /\ \A c \in Conns : QueueOK(c)

-----------------------------------------------------------------------------
(* What the invariant says of the end of a broadcast.                      *)

\* How many steps the broadcast of t makes at most until it lets the mutex go: for every
\* handle loop, lookup, check, push and log, and the unlock.
StepsToUnlock(t) ==
  (5 * ((Len(server_hdls) + 1) - pos[t]) +
     CASE pc[t] = "log" -> 4 [] pc[t] = "loop" -> 3 [] pc[t] = "lookup" -> 2
       [] pc[t] = "check" -> 1 [] OTHER -> 0) - 2

\* The loop stays in the vector, so the count above is one.
StepsAreCounted ==
  \A t \in GameThreads : pc[t] \in Locked =>
    pos[t] <= Len(server_hdls) + 1 /\ StepsToUnlock(t) \in Nat

(***************************************************************************)
(* A broadcast is nearer to its end after each of its own steps, and no    *)
(* step of another thread, handshake or session sets it back.              *)
(***************************************************************************)
BroadcastAdvances ==
  [][\A t \in GameThreads : pc[t] \in Locked =>
       \/ pc'[t] = pc[t] /\ StepsToUnlock(t)' = StepsToUnlock(t) /\ ~Step(t)
       \/ pc'[t] \in Locked /\ StepsToUnlock(t)' < StepsToUnlock(t) /\ Step(t)
       \/ pc'[t] \in {"idle", "escaped"} /\ Step(t)]_vars

(***************************************************************************)
(* After an exception left Net_SendData (HandleUpgradeSafe) the mutex is   *)
(* never free again: no handle is registered, no broadcast begins, and no  *)
(* listener is given another event, whatever the sessions do.              *)
(***************************************************************************)
EscapeIsFinal ==
  [][\A t \in GameThreads : pc[t] = "escaped" =>
       /\ pc'[t] = "escaped"
       /\ UNCHANGED <<connection_mutex, server_hdls, entered>>
       /\ \A c \in Conns : Given(c)' = Given(c)]_vars

=============================================================================
