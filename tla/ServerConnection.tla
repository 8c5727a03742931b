-------------------------- MODULE ServerConnection --------------------------
(***************************************************************************)
(* One connection of the server, as websocketpp runs it for the tracker:   *)
(* impl/connection_impl.hpp over transport/asio/connection.hpp with the    *)
(* configuration debug_asio (a strand, timeouts of 5 s, no silent_close,   *)
(* no drop_on_protocol_error).                                             *)
(*                                                                         *)
(* Every handler of a connection runs on the io thread, wrapped in the     *)
(* connection's strand, so one handler is one action.  The exception is    *)
(* handle_read_frame, whose loop over the bytes it was given is one action *)
(* per frame.  Only send() is also called by other threads, the game       *)
(* threads in Net_SendData: it tests m_state under one lock, appends to    *)
(* m_send_queue under another, and posts write_frame under none.           *)
(*                                                                         *)
(* The peer sends any frames, closes or resets its end, or stops reading;  *)
(* timers may expire at any moment after they are set.  Messages are       *)
(* abstracted to what the server does about them, frames to their kind.    *)
(***************************************************************************)
EXTENDS Naturals, Sequences

CONSTANTS
  Senders,     \* the game threads that call send()
  MaxSends,    \* bound: the sends of all game threads together
  MaxFrames    \* bound: the frames of the peer that the server reads

ASSUME BoundsAssumption == MaxSends \in Nat /\ MaxFrames \in Nat

VARIABLES
  m_state,            \* the session state that send() and close() look at
  m_internal_state,   \* the stage of the handshake
  m_was_clean,        \* a close frame of the peer was acknowledged
  m_handshake_timer,  \* which timer the pointer holds: "open", "close" or "none"
  waiting,            \* the timers that are set and have not expired
  expired,            \* the timers whose handler is queued, with success
  reading,            \* the outstanding read: of the "request", of "frames", or "none"
  consuming,          \* handle_read_frame: "no", at its first frame, or at the "rest"
  frames,             \* how many frames of the peer were read
  response,           \* the status of the response to the handshake
  writing,            \* the outstanding write: the "response", "frames", or "none"
  m_send_queue,       \* the frames that wait to be written
  m_current_msgs,     \* the frames of the outstanding write
  taken,              \* how many of these the transport took
  wire,               \* every frame the transport took, oldest first
  m_write_flag,       \* a write of frames is outstanding
  posted,             \* how many calls of write_frame are queued
  told,               \* history: the calls of the fail and the close handler
  pc,                 \* per game thread: where in send() it is
  msg,                \* per game thread: the message of its send()
  sends,              \* how many calls of send() found the session open
  peer                \* "up", or "gone"

timerVars == <<m_handshake_timer, waiting, expired>>
sessionVars == <<m_state, m_internal_state, m_was_clean, told, timerVars>>
readVars == <<reading, consuming, frames, response>>
currentVars == <<m_current_msgs, taken, wire>>
queueVars == <<m_send_queue, posted>>
writeVars == <<writing, currentVars, m_write_flag>>
sendVars == <<pc, msg, sends>>
vars == <<sessionVars, readVars, writeVars, queueVars, sendVars, peer>>

Close == <<"close", 0>>
Pong == <<"pong", 0>>
Reply == <<"reply", 0>>
Data(n) == <<"data", n>>
Frames == {Close, Pong, Reply} \cup {Data(n) : n \in 1..MaxSends}

\* Every close frame of a server is terminal: an acknowledgement, or a protocol error.
Terminal(f) == f = Close

Init ==
  /\ m_state = "connecting"
  /\ m_internal_state = "USER_INIT"
  /\ m_was_clean = FALSE
  /\ m_handshake_timer = "none"
  /\ waiting = {}
  /\ expired = {}
  /\ reading = "none"
  /\ consuming = "no"
  /\ frames = 0
  /\ response = "none"
  /\ writing = "none"
  /\ m_send_queue = <<>>
  /\ m_current_msgs = <<>>
  /\ taken = 0
  /\ wire = <<>>
  /\ m_write_flag = FALSE
  /\ posted = 0
  /\ told = <<>>
  /\ pc = [s \in Senders |-> "idle"]
  /\ msg = [s \in Senders |-> 0]
  /\ sends = 0
  /\ peer = "up"

-----------------------------------------------------------------------------
(* What the handlers have in common.                                       *)

\* The io thread is not inside handle_read_frame: it may start a handler.
IoFree == consuming = "no"

\* set_timer: the pointer moves on; a timer it held before goes on waiting.
\* A timer is known by its handler: when a second bad close frame sets the close timer over
\* the first, the two are one here, and are cancelled together.  In the code the first waits
\* on, keeps the connection for the rest of its five seconds, and finds it closed.
SetTimer(t) ==
  /\ m_handshake_timer' = t
  /\ waiting' = waiting \cup {t}

\* cancel() and reset(): a handler that is already queued stays queued.
CancelTimer ==
  /\ m_handshake_timer' = "none"
  /\ waiting' = waiting \ {m_handshake_timer}

\* Mutant of Hears: terminate() does not test for a connection that is closed.
HearsAgain(http) ==
  IF m_state = "connecting" THEN (IF http THEN <<>> ELSE <<"fail">>) ELSE <<"close">>

\* Mutant of Hears: a connection that ends while closing counts as failed.
HearsFailUnlessOpen(http) ==
  CASE m_state = "closed" -> <<>>
    [] m_state = "open" -> <<"close">>
    [] OTHER -> IF http THEN <<>> ELSE <<"fail">>

\* handle_terminate: the handler of the program that hears of the end, if any.
Hears(http) ==
  CASE m_state = "closed" -> <<>>
    [] m_state = "connecting" -> IF http THEN <<>> ELSE <<"fail">>
    [] OTHER -> <<"close">>

\* terminate(ec), where `http` says that ec is http_connection_ended: the timer is
\* cancelled, the socket shut down, and handle_terminate called at once.
Terminate(http) ==
  /\ CancelTimer
  /\ m_state' = "closed"
  /\ told' = told \o Hears(http)

\* write_push, and dispatch(write_frame) if no write is outstanding.
Push(f) ==
  /\ m_send_queue' = Append(m_send_queue, f)
  /\ posted' = IF m_write_flag THEN posted ELSE posted + 1

\* Mutant of SendCloseFrame: no timer for the answer.
SendCloseFrameUntimed(ack) ==
  /\ m_state' = "closing"
  /\ m_was_clean' = (m_was_clean \/ ack)
  /\ Push(Close)
  /\ UNCHANGED <<m_internal_state, told, timerVars>>

\* send_close_frame: the state, the timer for the answer, the frame.
SendCloseFrame(ack) ==
  /\ m_state' = "closing"
  /\ m_was_clean' = (m_was_clean \/ ack)
  /\ SetTimer("close")
  /\ Push(Close)
  /\ UNCHANGED <<m_internal_state, told, expired>>

-----------------------------------------------------------------------------
(* The opening handshake.                                                  *)

\* start(): read_handshake(1), with the timer for the whole handshake.
Start ==
  /\ m_internal_state = "USER_INIT"
  /\ m_internal_state' = "READ_HTTP_REQUEST"
  /\ SetTimer("open")
  /\ reading' = "request"
  /\ UNCHANGED <<m_state, m_was_clean, expired, told, consuming, frames, response,
                 writeVars, queueVars, sendVars, peer>>

\* handle_read_handshake with the end of the request: a websocket handshake that
\* is accepted (101), another HTTP request (200), or a request with an error (400).
\* Bytes without the end of the request are followed by another read: no change.
ReadRequest(status) ==
  /\ IoFree /\ reading = "request" /\ m_state = "connecting"
  /\ reading' = "none"
  /\ m_internal_state' = "PROCESS_HTTP_REQUEST"
  /\ response' = status
  /\ writing' = "response"
  /\ UNCHANGED <<m_state, m_was_clean, told, timerVars, consuming, frames,
                 currentVars, m_write_flag, queueVars, sendVars, peer>>

\* handle_read_handshake with an error, unless it comes after the end: then it is ignored.
ReadRequestFails ==
  /\ IoFree /\ reading = "request" /\ (peer = "gone" \/ m_state = "closed")
  /\ reading' = "none"
  /\ Terminate(FALSE)
  /\ UNCHANGED <<m_internal_state, m_was_clean, expired, consuming, frames, response,
                 writeVars, queueVars, sendVars, peer>>

\* handle_write_http_response: the session is open, and the bytes that came
\* after the request are the first ones to be consumed.
Open ==
  /\ IoFree /\ writing = "response" /\ response = "101"
  /\ m_state = "connecting"
  /\ CancelTimer
  /\ m_internal_state' = "PROCESS_CONNECTION"
  /\ m_state' = "open"
  /\ writing' = "none"
  /\ consuming' = "rest"
  /\ UNCHANGED <<m_was_clean, told, expired, reading, frames, response, currentVars,
                 m_write_flag, queueVars, sendVars, peer>>

\* handle_write_http_response after any other response: the end of the connection.
EndOfHttp ==
  /\ IoFree /\ writing = "response" /\ response # "101"
  /\ m_state = "connecting"
  /\ Terminate(response = "200")
  /\ writing' = "none"
  /\ UNCHANGED <<m_internal_state, m_was_clean, expired, readVars, currentVars,
                 m_write_flag, queueVars, sendVars, peer>>

\* handle_write_http_response with an error, or after the end, when it is ignored.
ResponseFails ==
  /\ IoFree /\ writing = "response" /\ (peer = "gone" \/ m_state = "closed")
  /\ Terminate(FALSE)
  /\ writing' = "none"
  /\ UNCHANGED <<m_internal_state, m_was_clean, expired, readVars, currentVars,
                 m_write_flag, queueVars, sendVars, peer>>

-----------------------------------------------------------------------------
(* Reading: handle_read_frame and its loop over the frames of one read.    *)

\* A read brings bytes that complete at least one frame; they may have come before
\* the socket was shut down.  Bytes that complete none are followed by another read.
ReadFrames ==
  /\ IoFree /\ reading = "frames" /\ frames < MaxFrames
  /\ reading' = "none"
  /\ consuming' = "first"
  /\ UNCHANGED <<sessionVars, frames, response, writeVars, queueVars, sendVars, peer>>

\* Mutant of ReadFails: the end of the stream is expected, whatever the state.
ReadFailsIgnored ==
  /\ IoFree /\ reading = "frames" /\ (peer = "gone" \/ m_state = "closed")
  /\ reading' = "none"
  /\ UNCHANGED <<sessionVars, consuming, frames, response, writeVars, queueVars,
                 sendVars, peer>>

\* Mutant of ReadFails: the handler asks for more after an error too.
ReadFailsAgain ==
  /\ IoFree /\ reading = "frames" /\ (peer = "gone" \/ m_state = "closed")
  /\ Terminate(FALSE)
  /\ UNCHANGED <<m_internal_state, m_was_clean, expired, readVars, writeVars,
                 queueVars, sendVars, peer>>

\* A read ends with an error or the end of the stream: terminate, or nothing after the end.
ReadFails ==
  /\ IoFree /\ reading = "frames" /\ (peer = "gone" \/ m_state = "closed")
  /\ reading' = "none"
  /\ Terminate(FALSE)
  /\ UNCHANGED <<m_internal_state, m_was_clean, expired, consuming, frames, response,
                 writeVars, queueVars, sendVars, peer>>

\* consume() reaches the end of one more frame; the loop goes on to the next.
Frame ==
  /\ consuming # "no" /\ frames < MaxFrames
  /\ frames' = frames + 1
  /\ UNCHANGED <<reading, response, writeVars, sendVars, peer>>

\* A data message: on_message_server answers it or not; it is dropped unless open.
ConsumeData ==
  /\ Frame
  /\ consuming' = "rest"
  /\ \/ m_state = "open" /\ Push(Reply)
     \/ UNCHANGED queueVars
  /\ UNCHANGED sessionVars

\* process_control_frame, a ping: pong() while open, nothing otherwise.
ConsumePing ==
  /\ Frame
  /\ consuming' = "rest"
  /\ IF m_state = "open" THEN Push(Pong) ELSE UNCHANGED queueVars
  /\ UNCHANGED sessionVars

\* process_control_frame, a close frame: acknowledged while open.  One with a bad
\* code or reason is acknowledged again, with an error, while closing.
ConsumeClose(valid) ==
  /\ Frame
  /\ consuming' = "rest"
  /\ m_state = "open" \/ (m_state = "closing" /\ ~valid)
  /\ SendCloseFrame(TRUE)

\* process_control_frame, a close frame that comes too late.  (The branch for the
\* answer to a close frame of the server is out of reach: see NoAnswerAwaited.)
ConsumeLateClose ==
  /\ Frame
  /\ consuming' = "rest"
  /\ m_state = "closed" \/ (m_state = "closing" /\ m_was_clean)
  /\ UNCHANGED <<sessionVars, queueVars>>

\* Mutant of ConsumeError: the handler asks for more bytes.
ConsumeErrorReads ==
  /\ Frame
  /\ consuming' = "rest"
  /\ IF m_state = "open"
     THEN SendCloseFrame(FALSE)
     ELSE Terminate(FALSE) /\ UNCHANGED <<m_internal_state, m_was_clean, expired, queueVars>>

\* Mutant of ConsumeError: as with drop_on_protocol_error.
ConsumeErrorDrops ==
  /\ Frame
  /\ consuming' = "no"
  /\ Terminate(FALSE)
  /\ UNCHANGED <<m_internal_state, m_was_clean, expired, queueVars>>

\* consume() reports an error: close(), or terminate() if that comes too late.
\* Either way the handler returns without asking for more bytes.
ConsumeError ==
  /\ Frame
  /\ consuming' = "no"
  /\ IF m_state = "open"
     THEN SendCloseFrame(FALSE)
     ELSE Terminate(FALSE) /\ UNCHANGED <<m_internal_state, m_was_clean, expired, queueVars>>

\* The bytes are used up: read_frame().
AskForMore ==
  /\ consuming = "rest"
  /\ consuming' = "no"
  /\ reading' = "frames"
  /\ UNCHANGED <<sessionVars, frames, response, writeVars, queueVars, sendVars, peer>>

-----------------------------------------------------------------------------
(* Writing: write_frame, the transport, handle_write_frame.                *)

\* Mutant of OneWrite: a write takes all there is.
WholeQueue(q, n) == n = Len(q)

\* One write takes the first n frames of q: all up to the first terminal one.
OneWrite(q, n) ==
  /\ \A i \in 1..(n - 1) : ~Terminal(q[i])
  /\ Terminal(q[n]) \/ n = Len(q)

\* write_frame: nothing, if a write is outstanding or no frame waits.
WriteNothing ==
  /\ IoFree /\ posted > 0
  /\ m_write_flag \/ m_send_queue = <<>>
  /\ posted' = posted - 1
  /\ UNCHANGED <<sessionVars, readVars, writeVars, m_send_queue, sendVars, peer>>

\* write_frame: the next write.
WriteFrame ==
  /\ IoFree /\ posted > 0
  /\ ~m_write_flag
  /\ posted' = posted - 1
  /\ \E n \in 1..Len(m_send_queue) :
       /\ OneWrite(m_send_queue, n)
       /\ m_current_msgs' = SubSeq(m_send_queue, 1, n)
       /\ m_send_queue' = SubSeq(m_send_queue, n + 1, Len(m_send_queue))
  /\ taken' = 0
  /\ m_write_flag' = TRUE
  /\ writing' = "frames"
  /\ UNCHANGED <<sessionVars, readVars, wire, sendVars, peer>>

\* The transport takes the next frame of the write; a socket shut down takes none.
Transmit ==
  /\ writing = "frames" /\ taken < Len(m_current_msgs)
  /\ m_state # "closed"
  /\ taken' = taken + 1
  /\ wire' = Append(wire, m_current_msgs[taken + 1])
  /\ UNCHANGED <<sessionVars, readVars, writing, m_current_msgs, m_write_flag,
                 queueVars, sendVars, peer>>

\* handle_write_frame is called: m_current_msgs is cleared.
WriteReturns ==
  /\ IoFree /\ writing = "frames"
  /\ writing' = "none"
  /\ m_current_msgs' = <<>>
  /\ taken' = 0
  /\ UNCHANGED <<m_internal_state, m_was_clean, expired, readVars, wire, m_send_queue,
                 sendVars, peer>>

LastWritten == m_current_msgs[Len(m_current_msgs)]

\* Mutant of FramesWritten: the frames that came in the meantime are forgotten.
FramesWrittenOnly ==
  /\ WriteReturns
  /\ taken = Len(m_current_msgs) /\ ~Terminal(LastWritten)
  /\ m_write_flag' = FALSE
  /\ UNCHANGED <<m_state, told, m_handshake_timer, waiting, posted>>

\* A success, and the last frame was not terminal: the next write, if frames wait.
FramesWritten ==
  /\ WriteReturns
  /\ taken = Len(m_current_msgs) /\ ~Terminal(LastWritten)
  /\ m_write_flag' = FALSE
  /\ posted' = IF m_send_queue = <<>> THEN posted ELSE posted + 1
  /\ UNCHANGED <<m_state, told, m_handshake_timer, waiting>>

\* A success, and the last frame was terminal: m_write_flag stays set.
CloseWritten ==
  /\ WriteReturns
  /\ taken = Len(m_current_msgs) /\ Terminal(LastWritten)
  /\ Terminate(FALSE)
  /\ UNCHANGED <<m_write_flag, posted>>

\* An error: m_write_flag stays set.
WriteFails ==
  /\ WriteReturns
  /\ taken < Len(m_current_msgs) /\ (peer = "gone" \/ m_state = "closed")
  /\ Terminate(FALSE)
  /\ UNCHANGED <<m_write_flag, posted>>

-----------------------------------------------------------------------------
(* Timers.                                                                 *)

\* A timer expires: its handler is queued, with success.
Expire(t) ==
  /\ t \in waiting
  /\ waiting' = waiting \ {t}
  /\ expired' = expired \cup {t}
  /\ UNCHANGED <<m_state, m_internal_state, m_was_clean, told, m_handshake_timer,
                 readVars, writeVars, queueVars, sendVars, peer>>

\* handle_open_handshake_timeout, handle_close_handshake_timeout: terminate,
\* whatever became of the handshake since.
HandleTimeout(t) ==
  /\ IoFree /\ t \in expired
  /\ expired' = expired \ {t}
  /\ Terminate(FALSE)
  /\ UNCHANGED <<m_internal_state, m_was_clean, readVars, writeVars, queueVars,
                 sendVars, peer>>

-----------------------------------------------------------------------------
(* send() by a game thread, and the peer.                                  *)

\* m_state is open; in any other state send() returns an error, and nothing changes.
SendCheck(s) ==
  /\ pc[s] = "idle" /\ sends < MaxSends
  /\ m_state = "open"
  /\ sends' = sends + 1
  /\ msg' = [msg EXCEPT ![s] = sends + 1]
  /\ pc' = [pc EXCEPT ![s] = "checked"]
  /\ UNCHANGED <<sessionVars, readVars, writeVars, queueVars, peer>>

\* write_push under m_write_lock, where needs_writing is decided too.
SendPush(s) ==
  /\ pc[s] = "checked"
  /\ m_send_queue' = Append(m_send_queue, Data(msg[s]))
  /\ pc' = [pc EXCEPT ![s] = IF m_write_flag THEN "idle" ELSE "pushed"]
  /\ UNCHANGED <<sessionVars, readVars, writeVars, posted, msg, sends, peer>>

\* dispatch(write_frame).
SendPost(s) ==
  /\ pc[s] = "pushed"
  /\ posted' = posted + 1
  /\ pc' = [pc EXCEPT ![s] = "idle"]
  /\ UNCHANGED <<sessionVars, readVars, writeVars, m_send_queue, msg, sends, peer>>

\* The peer closes or resets its end.  A host that vanishes without a word stays "up".
PeerLeaves ==
  /\ peer = "up"
  /\ peer' = "gone"
  /\ UNCHANGED <<sessionVars, readVars, writeVars, queueVars, sendVars>>

-----------------------------------------------------------------------------

Statuses == {"101", "200", "400"}
Timers == {"open", "close"}

Handshake ==
  \/ Start
  \/ \E status \in Statuses : ReadRequest(status)
  \/ ReadRequestFails \/ Open \/ EndOfHttp \/ ResponseFails

Consume ==
  \/ ConsumeData \/ ConsumePing \/ ConsumeLateClose \/ ConsumeError
  \/ \E valid \in BOOLEAN : ConsumeClose(valid)

Read == ReadFrames \/ ReadFails \/ Consume \/ AskForMore

Write ==
  WriteNothing \/ WriteFrame \/ Transmit \/ FramesWritten \/ CloseWritten \/ WriteFails

Send == \E s \in Senders : SendCheck(s) \/ SendPush(s) \/ SendPost(s)

Time == \E t \in Timers : Expire(t) \/ HandleTimeout(t)

Next == Handshake \/ Read \/ Write \/ Send \/ Time \/ PeerLeaves

Spec == Init /\ [][Next]_vars

(***************************************************************************)
(* The io thread runs every handler that is queued, a timer that is set    *)
(* expires, a socket that is shut down, here or there, fails what it was   *)
(* asked for, and a thread inside send() goes on.  Nothing makes the peer  *)
(* send or read.                                                           *)
(***************************************************************************)
Fairness ==
  /\ WF_vars(Start) /\ WF_vars(Consume) /\ WF_vars(AskForMore)
  /\ WF_vars(ReadRequestFails) /\ WF_vars(ResponseFails)
  /\ WF_vars(ReadFails) /\ WF_vars(WriteFails)
  /\ WF_vars(WriteNothing \/ WriteFrame)
  /\ WF_vars(FramesWritten) /\ WF_vars(CloseWritten)
  /\ \A t \in Timers : WF_vars(Expire(t)) /\ WF_vars(HandleTimeout(t))
  /\ \A s \in Senders : WF_vars(SendPush(s) \/ SendPost(s))

FairSpec == Spec /\ Fairness

-----------------------------------------------------------------------------
(* What holds of every connection.                                         *)

\* Types.
TypeOK ==
  /\ m_state \in {"connecting", "open", "closing", "closed"}
  /\ m_internal_state \in {"USER_INIT", "READ_HTTP_REQUEST", "PROCESS_HTTP_REQUEST",
                           "PROCESS_CONNECTION"}
  /\ m_was_clean \in BOOLEAN
  /\ m_handshake_timer \in Timers \cup {"none"}
  /\ waiting \subseteq Timers
  /\ expired \subseteq Timers
  /\ reading \in {"none", "request", "frames"}
  /\ consuming \in {"no", "first", "rest"}
  /\ frames \in 0..MaxFrames
  /\ response \in Statuses \cup {"none"}
  /\ writing \in {"none", "response", "frames"}
  /\ m_send_queue \in Seq(Frames)
  /\ m_current_msgs \in Seq(Frames)
  /\ taken \in 0..Len(m_current_msgs)
  /\ wire \in Seq(Frames)
  /\ m_write_flag \in BOOLEAN
  /\ posted \in Nat
  /\ told \in {<<>>, <<"fail">>, <<"close">>}
  /\ pc \in [Senders -> {"idle", "checked", "pushed"}]
  /\ msg \in [Senders -> 0..MaxSends]
  /\ sends \in 0..MaxSends
  /\ peer \in {"up", "gone"}

(***************************************************************************)
(* terminate() is reached from reads, writes, timers and frames, often     *)
(* from several of them.  The program hears of the end exactly once: from  *)
(* the close handler if the session was open, otherwise from the fail      *)
(* handler, and from neither if it was an HTTP request and got its answer. *)
(***************************************************************************)
EndHeard ==
  /\ m_state # "closed" => told = <<>>
  /\ m_state = "closed" =>
       IF m_internal_state = "PROCESS_CONNECTION" THEN told = <<"close">>
       ELSE told = <<"fail">> \/ (told = <<>> /\ response = "200")

(***************************************************************************)
(* send() decides under m_write_lock whether to post write_frame, and      *)
(* handle_write_frame decides it again: a frame that waits while no write  *)
(* is outstanding has a write_frame posted for it, or about to be posted.  *)
(***************************************************************************)
NoLostWakeup ==
  (m_send_queue # <<>> /\ ~m_write_flag) =>
    posted > 0 \/ \E s \in Senders : pc[s] = "pushed"

(***************************************************************************)
(* A close frame that the server sends of its own, for an error, is        *)
(* terminal; the server reads nothing more, so the branch of               *)
(* process_control_frame for the answer to it is never taken.              *)
(***************************************************************************)
NoAnswerAwaited ==
  (m_state = "closing" /\ ~m_was_clean) => consuming = "no" /\ reading = "none"

\* The stages of the handshake, and what may be outstanding in each.
StagesInv ==
  /\ m_state \in {"open", "closing"} => m_internal_state = "PROCESS_CONNECTION"
  /\ m_internal_state = "PROCESS_CONNECTION" => m_state # "connecting"
  /\ reading = "request" => m_internal_state = "READ_HTTP_REQUEST"
  /\ writing = "response" => m_internal_state = "PROCESS_HTTP_REQUEST"
  /\ reading = "frames" => m_internal_state = "PROCESS_CONNECTION" /\ consuming = "no"
  /\ consuming # "no" => m_internal_state = "PROCESS_CONNECTION" /\ reading = "none"
  /\ m_internal_state = "USER_INIT" => m_state = "connecting" /\ expired = {} /\ waiting = {}

\* Until the session is open there is nothing to write.
QuietInv ==
  m_internal_state # "PROCESS_CONNECTION" =>
    /\ m_send_queue = <<>> /\ m_current_msgs = <<>> /\ wire = <<>>
    /\ ~m_write_flag /\ posted = 0
    /\ \A s \in Senders : pc[s] = "idle"

\* One write at a time, of at least one frame, none but the last one terminal.
WriterInv ==
  /\ writing = "frames" <=> m_current_msgs # <<>>
  /\ writing = "frames" => m_write_flag
  /\ m_write_flag => writing = "frames" \/ m_state = "closed"
  /\ \A i \in 1..(Len(m_current_msgs) - 1) : ~Terminal(m_current_msgs[i])

\* A terminal frame on the wire was the last one of its write, and that write was the last.
TerminalInv ==
  (\E i \in 1..Len(wire) : Terminal(wire[i])) =>
    \/ m_state = "closed"
    \/ /\ writing = "frames" /\ taken = Len(m_current_msgs)
       /\ Terminal(LastWritten)

\* Before the session closes there is no close frame, and no timer for its answer.
ClosingInv ==
  m_state \in {"connecting", "open"} =>
    /\ \A i \in 1..Len(m_send_queue) : ~Terminal(m_send_queue[i])
    /\ \A i \in 1..Len(m_current_msgs) : ~Terminal(m_current_msgs[i])
    /\ m_handshake_timer # "close" /\ "close" \notin waiting \cup expired

\* A game thread that is about to push has a message.
SendersInv == \A s \in Senders : pc[s] = "checked" => msg[s] # 0

\* The inductive invariant of the proofs.
IInv == StagesInv /\ QuietInv /\ WriterInv /\ TerminalInv /\ ClosingInv /\ SendersInv

(***************************************************************************)
(* A session that is open ends at once only for a reason: the peer is      *)
(* gone, or the timer of the opening handshake had expired before it was   *)
(* cancelled, and its handler comes late.  An error of the peer and its    *)
(* close frame lead through closing, with a close frame.                   *)
(***************************************************************************)
EndsExplained ==
  [][m_state = "open" /\ m_state' = "closed" => peer = "gone" \/ "open" \in expired]_vars

-----------------------------------------------------------------------------
(* The frames that are accepted are the ones that are written: Session.    *)

\* The frames that were accepted and not written yet.
Unsent == SubSeq(m_current_msgs, taken + 1, Len(m_current_msgs)) \o m_send_queue

AbstractSession == INSTANCE Session WITH phase <- m_state, pending <- Unsent

\* Frames are written in the order they were accepted in, none after a close frame,
\* whatever game threads and the io thread push meanwhile.
ImplementsSession == AbstractSession!Spec

-----------------------------------------------------------------------------
(* What must happen in the end, though the peer need not do anything.      *)

\* A peer that does not finish the opening handshake is given up, and a session that is
\* closing is closed, even if the peer does not take the close frame.
PhasesEnd ==
  /\ m_state = "connecting" ~> m_state # "connecting"
  /\ m_state = "closing" ~> m_state = "closed"

\* A peer that left is noticed, though the server has nothing to say.
PeerGoneEnds == peer = "gone" ~> m_state = "closed"

\* No handler holds the connection any more: it is destroyed, and its weak_ptrs expire.
Released ==
  /\ reading = "none" /\ consuming = "no" /\ writing = "none"
  /\ posted = 0 /\ waiting = {} /\ expired = {}
  /\ \A s \in Senders : pc[s] = "idle"

\* After the end every handler that is left runs out, and none sets up another.
ReleasedAtEnd == m_state = "closed" ~> []Released

-----------------------------------------------------------------------------
(* Why it must happen, step by step.                                       *)

(***************************************************************************)
(* At no moment does a session that is not closed wait for nothing: the    *)
(* opening handshake and the closing one have a timer that will end them,  *)
(* the handshake has its read or its write outstanding, and an open        *)
(* session reads, so that it notices that its peer left.                   *)
(***************************************************************************)
Attended ==
  /\ m_state = "connecting" =>
       \/ m_internal_state = "USER_INIT"
       \/ /\ "open" \in waiting \cup expired
          /\ \/ m_internal_state = "READ_HTTP_REQUEST" /\ reading = "request"
             \/ m_internal_state = "PROCESS_HTTP_REQUEST" /\ writing = "response"
  /\ m_state = "open" => reading = "frames" \/ consuming # "no"
  /\ m_state = "closing" => "close" \in waiting \cup expired

\* So no connection is destroyed before its program heard of the end.
DestroyedAtEnd == Released => m_state = "closed" \/ m_internal_state = "USER_INIT"

\* How much of a call of send() there is still to do.
SendLeft(p) == CASE p = "checked" -> 2 [] p = "pushed" -> 1 [] OTHER -> 0

\* How many handlers there are still to run, at most: for the frames that were read, the
\* frames that are being written and the calls of write_frame, the timers.
ReadLeft ==
  4 * (MaxFrames - frames) +
    CASE consuming = "rest" -> 3 [] consuming = "first" -> 1
      [] OTHER -> (CASE reading = "frames" -> 2 [] reading = "request" -> 1 [] OTHER -> 0)
WriteLeft ==
  2 * posted +
    CASE writing = "none" -> 0 [] writing = "frames" /\ taken = Len(m_current_msgs) -> 3
      [] OTHER -> 1
TimerLeft(t) == (IF t \in waiting THEN 2 ELSE 0) + (IF t \in expired THEN 1 ELSE 0)
HandlersLeft == ReadLeft + WriteLeft + TimerLeft("open") + TimerLeft("close")

\* A step after the end: a call of send() that came in time goes on, or a handler runs
\* and sets up less than it was.
GoesOnAfterTheEnd ==
  /\ m_state' = "closed" /\ HandlersLeft \in Nat
  /\ \/ PeerLeaves
     \/ pc' = pc /\ HandlersLeft' < HandlersLeft
     \/ \E s \in Senders : /\ SendLeft(pc'[s]) < SendLeft(pc[s])
                           /\ pc' = [pc EXCEPT ![s] = pc'[s]]

\* After the end the session stays closed, and every step but the peer's brings nearer
\* the moment when nothing holds the connection.
ReleaseAdvances == [][m_state = "closed" => GoesOnAfterTheEnd]_vars

=============================================================================
