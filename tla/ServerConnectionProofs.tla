----------------------- MODULE ServerConnectionProofs -----------------------
(***************************************************************************)
(* ServerConnection.tla for any number of game threads, sends and frames:  *)
(* IInv is inductive, the program hears of the end of a connection once,   *)
(* no frame waits for a write that nobody starts, no answer to a close     *)
(* frame is awaited, an open session ends only for a reason, and the       *)
(* frames are those of Session.tla.  At the end, that a connection never   *)
(* waits in vain: before its end something will end it, after its end      *)
(* every handler leaves less to run.                                       *)
(***************************************************************************)
EXTENDS ServerConnection, SequenceTheorems, TLAPS

-----------------------------------------------------------------------------
(* Types.                                                                  *)

\* The kinds of frames are frames.
LEMMA FrameTypes ==
  /\ Close \in Frames /\ Pong \in Frames /\ Reply \in Frames
  /\ \A n \in 1..MaxSends : Data(n) \in Frames
BY DEF Frames

\* The program hears of one end at most.
LEMMA HearsType ==
  ASSUME TypeOK, EndHeard, NEW http \in BOOLEAN
  PROVE  told \o Hears(http) \in {<<>>, <<"fail">>, <<"close">>}
<1>1. \A q \in {<<>>, <<"fail">>, <<"close">>} : q \o <<>> = q /\ <<>> \o q = q
  OBVIOUS
<1>2. Hears(http) \in {<<>>, <<"fail">>, <<"close">>}
  BY DEF Hears, TypeOK
<1>3. told \in {<<>>, <<"fail">>, <<"close">>}
  BY DEF TypeOK
<1>4. CASE m_state = "closed"
  <2>1. Hears(http) = <<>>
    BY <1>4 DEF Hears
  <2> QED BY <2>1, <1>1, <1>3
<1>5. CASE m_state # "closed"
  <2>1. told = <<>>
    BY <1>5 DEF EndHeard
  <2> QED BY <2>1, <1>1, <1>2
<1> QED BY <1>4, <1>5

\* A frame that is pushed keeps the types of the queue.
LEMMA PushTypes ==
  ASSUME TypeOK, NEW f \in Frames, Push(f)
  PROVE  m_send_queue' \in Seq(Frames) /\ posted' \in Nat
<1>1. m_send_queue \in Seq(Frames) /\ posted \in Nat
  BY DEF TypeOK
<1>2. m_send_queue' = Append(m_send_queue, f)
  BY DEF Push
<1>3. posted' = posted \/ posted' = posted + 1
  BY DEF Push
<1> QED
  BY <1>1, <1>2, <1>3

\* terminate() keeps the types.
LEMMA TerminateTypes ==
  ASSUME TypeOK, EndHeard, NEW http \in BOOLEAN, Terminate(http)
  PROVE  /\ m_state' = "closed"
         /\ m_handshake_timer' \in Timers \cup {"none"}
         /\ waiting' \subseteq Timers
         /\ told' \in {<<>>, <<"fail">>, <<"close">>}
<1>1. told' \in {<<>>, <<"fail">>, <<"close">>}
  BY HearsType DEF Terminate
<1> QED
  BY <1>1 DEF Terminate, CancelTimer, TypeOK

\* The opening handshake keeps the types.
LEMMA TypeHandshake ==
  ASSUME TypeOK, EndHeard, Handshake
  PROVE  TypeOK'
<1> USE DEF TypeOK, vars, sessionVars, readVars, writeVars, currentVars, queueVars, sendVars, timerVars
<1>1. CASE Start
  BY <1>1 DEF Start, SetTimer, Timers
<1>2. ASSUME NEW status \in Statuses, ReadRequest(status)
      PROVE  TypeOK'
  BY <1>2 DEF ReadRequest, Statuses
<1>3. CASE ReadRequestFails
  BY <1>3, TerminateTypes DEF ReadRequestFails
<1>4. CASE Open
  BY <1>4 DEF Open, CancelTimer
<1>5. CASE EndOfHttp
  BY <1>5, TerminateTypes DEF EndOfHttp
<1>6. CASE ResponseFails
  BY <1>6, TerminateTypes DEF ResponseFails
<1> QED
  BY <1>1, <1>2, <1>3, <1>4, <1>5, <1>6 DEF Handshake

\* send_close_frame keeps the types.
LEMMA SendCloseTypes ==
  ASSUME TypeOK, NEW ack \in BOOLEAN, SendCloseFrame(ack)
  PROVE  /\ m_state' = "closing" /\ m_was_clean' \in BOOLEAN
         /\ m_handshake_timer' \in Timers \cup {"none"}
         /\ waiting' \subseteq Timers
         /\ m_send_queue' \in Seq(Frames) /\ posted' \in Nat
         /\ UNCHANGED <<m_internal_state, told, expired>>
<1>1. m_send_queue' \in Seq(Frames) /\ posted' \in Nat
  BY PushTypes, FrameTypes DEF SendCloseFrame
<1> QED
  BY <1>1 DEF SendCloseFrame, SetTimer, Timers, TypeOK

\* The loop of handle_read_frame keeps the types.
LEMMA FrameTypesOK ==
  ASSUME TypeOK, Frame
  PROVE  /\ frames' \in 0..MaxFrames
         /\ UNCHANGED <<reading, response, writeVars, sendVars, peer>>
BY BoundsAssumption DEF TypeOK, Frame

\* Reading keeps the types.
LEMMA TypeRead ==
  ASSUME TypeOK, EndHeard, Read
  PROVE  TypeOK'
<1> USE DEF TypeOK, vars, sessionVars, readVars, writeVars, currentVars, queueVars, sendVars, timerVars
<1>1. CASE ReadFrames
  BY <1>1 DEF ReadFrames
<1>2. CASE ReadFails
  BY <1>2, TerminateTypes DEF ReadFails
<1>3. CASE AskForMore
  BY <1>3 DEF AskForMore
<1>4. CASE ConsumeData
  BY <1>4, FrameTypesOK, FrameTypes, PushTypes DEF ConsumeData
<1>5. CASE ConsumePing
  BY <1>5, FrameTypesOK, FrameTypes, PushTypes DEF ConsumePing
<1>6. CASE ConsumeLateClose
  BY <1>6, FrameTypesOK DEF ConsumeLateClose
<1>7. CASE ConsumeError
  <2>1. CASE m_state = "open"
    BY <2>1, <1>7, FrameTypesOK, SendCloseTypes DEF ConsumeError
  <2>2. CASE m_state # "open"
    BY <2>2, <1>7, FrameTypesOK, TerminateTypes DEF ConsumeError
  <2> QED
    BY <2>1, <2>2
<1>8. ASSUME NEW valid \in BOOLEAN, ConsumeClose(valid)
      PROVE  TypeOK'
  BY <1>8, FrameTypesOK, SendCloseTypes DEF ConsumeClose
<1> QED
  BY <1>1, <1>2, <1>3, <1>4, <1>5, <1>6, <1>7, <1>8 DEF Read, Consume

\* A queue that is cut after its first n frames.
LEMMA CutTypes ==
  ASSUME NEW q \in Seq(Frames), NEW n \in 1..Len(q)
  PROVE  /\ SubSeq(q, 1, n) \in Seq(Frames) /\ Len(SubSeq(q, 1, n)) = n
         /\ \A i \in 1..n : SubSeq(q, 1, n)[i] = q[i]
         /\ SubSeq(q, n + 1, Len(q)) \in Seq(Frames)
         /\ Len(SubSeq(q, n + 1, Len(q))) = Len(q) - n
         /\ \A i \in 1..(Len(q) - n) : SubSeq(q, n + 1, Len(q))[i] = q[n + i]
         /\ SubSeq(q, 1, n) \o SubSeq(q, n + 1, Len(q)) = q
OBVIOUS

\* Writing keeps the types.
LEMMA TypeWrite ==
  ASSUME TypeOK, EndHeard, Write
  PROVE  TypeOK'
<1> USE DEF TypeOK, vars, sessionVars, readVars, writeVars, currentVars, queueVars, sendVars, timerVars
<1>1. CASE WriteNothing
  BY <1>1 DEF WriteNothing
<1>2. CASE WriteFrame
  <2>1. PICK n \in 1..Len(m_send_queue) :
          /\ m_current_msgs' = SubSeq(m_send_queue, 1, n)
          /\ m_send_queue' = SubSeq(m_send_queue, n + 1, Len(m_send_queue))
    BY <1>2 DEF WriteFrame
  <2>2. m_current_msgs' \in Seq(Frames) /\ m_send_queue' \in Seq(Frames)
    BY <2>1, CutTypes
  <2>3. posted' \in Nat
    BY <1>2 DEF WriteFrame
  <2>4. taken' \in 0..Len(m_current_msgs')
    BY <1>2, <2>2 DEF WriteFrame
  <2> QED
    BY <1>2, <2>2, <2>3, <2>4 DEF WriteFrame
<1>3. CASE Transmit
  <2>1. taken' \in 0..Len(m_current_msgs') /\ taken + 1 \in 1..Len(m_current_msgs)
    BY <1>3 DEF Transmit
  <2>2. m_current_msgs[taken + 1] \in Frames
    BY <2>1
  <2>3. wire' \in Seq(Frames)
    BY <1>3, <2>2 DEF Transmit
  <2> QED
    BY <1>3, <2>1, <2>3 DEF Transmit
<1>4. ASSUME WriteReturns
      PROVE  /\ m_current_msgs' \in Seq(Frames) /\ taken' \in 0..Len(m_current_msgs')
             /\ writing' = "none"
  BY <1>4 DEF WriteReturns
<1>5. CASE FramesWritten
  <2>1. posted' \in Nat
    BY <1>5 DEF FramesWritten
  <2>2. m_write_flag' \in BOOLEAN
    BY <1>5 DEF FramesWritten
  <2>3. m_current_msgs' \in Seq(Frames) /\ taken' \in 0..Len(m_current_msgs')
    BY <1>5, <1>4 DEF FramesWritten
  <2>4. writing' = "none" /\ told' = told /\ m_state' = m_state
    BY <1>5 DEF FramesWritten, WriteReturns
  <2> QED
    BY <1>5, <2>1, <2>2, <2>3, <2>4 DEF FramesWritten, WriteReturns
<1>6. CASE CloseWritten
  BY <1>6, <1>4, TerminateTypes DEF CloseWritten, WriteReturns
<1>7. CASE WriteFails
  BY <1>7, <1>4, TerminateTypes DEF WriteFails, WriteReturns
<1> QED
  BY <1>1, <1>2, <1>3, <1>5, <1>6, <1>7 DEF Write

\* send(), the timers and the peer keep the types.
LEMMA TypeOthers ==
  ASSUME TypeOK, EndHeard, SendersInv, Send \/ Time \/ PeerLeaves
  PROVE  TypeOK'
<1> USE DEF TypeOK, vars, sessionVars, readVars, writeVars, currentVars, queueVars, sendVars, timerVars
<1>1. ASSUME NEW s \in Senders, SendCheck(s)
      PROVE  TypeOK'
  <2>1. sends + 1 \in 0..MaxSends
    BY <1>1, BoundsAssumption DEF SendCheck
  <2> QED
    BY <1>1, <2>1 DEF SendCheck
<1>2. ASSUME NEW s \in Senders, SendPush(s)
      PROVE  TypeOK'
  <2>1. msg[s] \in 1..MaxSends
    BY <1>2, BoundsAssumption DEF SendPush, SendersInv
  <2>2. Data(msg[s]) \in Frames
    BY <2>1, FrameTypes
  <2>3. m_send_queue' \in Seq(Frames)
    BY <1>2, <2>2 DEF SendPush
  <2> QED
    BY <1>2, <2>3 DEF SendPush
<1>3. ASSUME NEW s \in Senders, SendPost(s)
      PROVE  TypeOK'
  BY <1>3 DEF SendPost
<1>4. ASSUME NEW t \in Timers, Expire(t)
      PROVE  TypeOK'
  BY <1>4 DEF Expire
<1>5. ASSUME NEW t \in Timers, HandleTimeout(t)
      PROVE  TypeOK'
  <2>1. expired' \subseteq Timers
    BY <1>5 DEF HandleTimeout
  <2>2. /\ m_state' = "closed"
        /\ m_handshake_timer' \in Timers \cup {"none"}
        /\ waiting' \subseteq Timers
        /\ told' \in {<<>>, <<"fail">>, <<"close">>}
    BY <1>5, TerminateTypes DEF HandleTimeout
  <2> QED
    BY <1>5, <2>1, <2>2 DEF HandleTimeout
<1>6. CASE PeerLeaves
  BY <1>6 DEF PeerLeaves
<1> QED
  BY <1>1, <1>2, <1>3, <1>4, <1>5, <1>6 DEF Send, Time

-----------------------------------------------------------------------------
(* The end is heard once.                                                  *)

(***************************************************************************)
(* Whatever ends the connection, the program hears of it once: EndHeard is *)
(* kept.                                                                   *)
(***************************************************************************)
LEMMA EndHeardStep ==
  ASSUME TypeOK, StagesInv, EndHeard, [Next]_vars
  PROVE  EndHeard'
<1> USE DEF vars, sessionVars, readVars, timerVars
<1>1. ASSUME NEW http \in BOOLEAN, Terminate(http), UNCHANGED <<m_internal_state, response>>,
             http => response = "200"
      PROVE  EndHeard'
  <2>1. m_state' = "closed" /\ told' = told \o Hears(http)
    BY <1>1 DEF Terminate
  <2>2. CASE m_state = "closed"
    <3>1. told' = told
      BY <2>1, <2>2 DEF Hears, TypeOK
    <3> QED
      BY <2>1, <2>2, <3>1, <1>1 DEF EndHeard
  <2>3. CASE m_state = "connecting"
    <3>1. told' = IF http THEN <<>> ELSE <<"fail">>
      BY <2>1, <2>3 DEF Hears, EndHeard
    <3>2. m_internal_state # "PROCESS_CONNECTION"
      BY <2>3 DEF StagesInv
    <3> QED
      BY <2>1, <3>1, <3>2, <1>1 DEF EndHeard
  <2>4. CASE m_state \in {"open", "closing"}
    <3>a. told = <<>> /\ Hears(http) = <<"close">>
      BY <2>4 DEF Hears, EndHeard
    <3>1. told' = <<"close">>
      BY <2>1, <3>a
    <3>2. m_internal_state = "PROCESS_CONNECTION"
      BY <2>4 DEF StagesInv
    <3> QED
      BY <2>1, <3>1, <3>2, <1>1 DEF EndHeard
  <2> QED
    BY <2>2, <2>3, <2>4 DEF TypeOK
<1>2. ASSUME NEW ack \in BOOLEAN, SendCloseFrame(ack), m_state # "closed"
      PROVE  EndHeard'
  BY <1>2 DEF SendCloseFrame, EndHeard
<1>3. ASSUME UNCHANGED <<m_state, m_internal_state, told, response>>
      PROVE  EndHeard'
  BY <1>3 DEF EndHeard
<1>4. CASE Start
  BY <1>4 DEF Start, EndHeard, StagesInv
<1>5. ASSUME NEW status \in Statuses, ReadRequest(status)
      PROVE  EndHeard'
  BY <1>5 DEF ReadRequest, EndHeard
<1>6. CASE Open
  BY <1>6 DEF Open, EndHeard
<1>7. CASE EndOfHttp
  BY <1>7, <1>1 DEF EndOfHttp
<1>8. CASE ReadRequestFails \/ ResponseFails \/ ReadFails
  BY <1>8, <1>1 DEF ReadRequestFails, ResponseFails, ReadFails
<1>9. CASE CloseWritten \/ WriteFails \/ \E t \in Timers : HandleTimeout(t)
  BY <1>9, <1>1 DEF CloseWritten, WriteFails, WriteReturns, HandleTimeout
<1>10. CASE ReadFrames \/ AskForMore
  BY <1>10, <1>3 DEF ReadFrames, AskForMore
<1>11. CASE ConsumeData \/ ConsumePing \/ ConsumeLateClose
  BY <1>11, <1>3 DEF ConsumeData, ConsumePing, ConsumeLateClose, Frame
<1>12. CASE ConsumeError
  BY <1>12, <1>1, <1>2 DEF ConsumeError, Frame
<1>13. CASE \E valid \in BOOLEAN : ConsumeClose(valid)
  BY <1>13, <1>2 DEF ConsumeClose
<1>14. CASE WriteNothing \/ WriteFrame \/ Transmit \/ FramesWritten
  BY <1>14, <1>3 DEF WriteNothing, WriteFrame, Transmit, FramesWritten, WriteReturns
<1>15. CASE Send \/ PeerLeaves
  BY <1>15, <1>3 DEF Send, SendCheck, SendPush, SendPost, PeerLeaves
<1>16. CASE \E t \in Timers : Expire(t)
  BY <1>16, <1>3 DEF Expire
<1>17. CASE UNCHANGED vars
  BY <1>17, <1>3
<1> QED
  BY <1>4, <1>5, <1>6, <1>7, <1>8, <1>9, <1>10, <1>11, <1>12, <1>13, <1>14, <1>15,
     <1>16, <1>17
  DEF Next, Handshake, Read, Consume, Write, Time

-----------------------------------------------------------------------------
(* The inductive invariant.                                                *)

\* Frames are written by an open session, or one that was open.
LEMMA QuietFacts ==
  ASSUME QuietInv, WriterInv, WriteReturns
  PROVE  m_internal_state = "PROCESS_CONNECTION"
BY DEF QuietInv, WriterInv, WriteReturns

\* Every step keeps the stages.
LEMMA StagesStep ==
  ASSUME TypeOK, StagesInv, QuietInv, WriterInv, [Next]_vars
  PROVE  StagesInv'
<1> USE DEF StagesInv, vars, sessionVars, readVars, writeVars, timerVars
<1>1. ASSUME Terminate(TRUE) \/ Terminate(FALSE),
             m_internal_state # "USER_INIT",
             UNCHANGED m_internal_state,
             reading' \in {reading, "none"}, consuming' \in {consuming, "no"},
             writing' \in {writing, "none"}
      PROVE  StagesInv'
  BY <1>1 DEF Terminate, CancelTimer
<1>2. ASSUME NEW ack \in BOOLEAN, SendCloseFrame(ack), m_internal_state = "PROCESS_CONNECTION",
             reading = "none", reading' = reading, writing' = writing
      PROVE  StagesInv'
  BY <1>2 DEF SendCloseFrame, SetTimer
<1>3. ASSUME UNCHANGED <<m_state, m_internal_state, reading, expired, waiting>>,
             writing' \in {writing, "none", "frames"},
             consuming' \in {consuming, "no"} \/ consuming # "no"
      PROVE  StagesInv'
  BY <1>3
<1>4. CASE Start
  BY <1>4 DEF Start, SetTimer
<1>5. ASSUME NEW status \in Statuses, ReadRequest(status)
      PROVE  StagesInv'
  BY <1>5 DEF ReadRequest
<1>6. CASE Open
  <2>1. reading = "none" /\ m_internal_state # "USER_INIT"
    BY <1>6 DEF Open, TypeOK
  <2> QED
    BY <1>6, <2>1 DEF Open, CancelTimer
<1>7. CASE EndOfHttp
  BY <1>7, <1>1 DEF EndOfHttp
<1>8. CASE ReadRequestFails
  BY <1>8, <1>1 DEF ReadRequestFails
<1>9. CASE ResponseFails
  BY <1>9, <1>1 DEF ResponseFails
<1>10. CASE ReadFails
  BY <1>10, <1>1 DEF ReadFails
<1>11. CASE ReadFrames \/ AskForMore
  BY <1>11 DEF ReadFrames, AskForMore
<1>12. CASE ConsumeData \/ ConsumePing \/ ConsumeLateClose
  BY <1>12, <1>3 DEF ConsumeData, ConsumePing, ConsumeLateClose, Frame
<1>13. CASE ConsumeError
  BY <1>13, <1>1, <1>2 DEF ConsumeError, Frame
<1>14. CASE \E valid \in BOOLEAN : ConsumeClose(valid)
  BY <1>14, <1>2 DEF ConsumeClose, Frame
<1>15. CASE WriteNothing \/ WriteFrame \/ Transmit \/ FramesWritten
  BY <1>15, <1>3 DEF WriteNothing, WriteFrame, Transmit, FramesWritten, WriteReturns
<1>16. CASE CloseWritten \/ WriteFails
  <2>1. m_internal_state # "USER_INIT"
    BY <1>16, QuietFacts DEF CloseWritten, WriteFails
  <2> QED
    BY <1>16, <2>1, <1>1 DEF CloseWritten, WriteFails, WriteReturns
<1>17. ASSUME NEW t \in Timers, HandleTimeout(t)
       PROVE  StagesInv'
  <2>1. expired # {} /\ expired' \subseteq expired
    BY <1>17 DEF HandleTimeout
  <2> QED
    BY <1>17, <2>1 DEF HandleTimeout, Terminate, CancelTimer
<1>18. ASSUME NEW t \in Timers, Expire(t)
       PROVE  StagesInv'
  BY <1>18 DEF Expire
<1>19. CASE Send \/ PeerLeaves
  BY <1>19, <1>3 DEF Send, SendCheck, SendPush, SendPost, PeerLeaves
<1>20. CASE UNCHANGED vars
  BY <1>20, <1>3
<1> QED
  BY <1>4, <1>5, <1>6, <1>7, <1>8, <1>9, <1>10, <1>11, <1>12, <1>13, <1>14, <1>15,
     <1>16, <1>17, <1>18, <1>19, <1>20
  DEF Next, Handshake, Read, Consume, Write, Time

\* Every step keeps a session silent until it is open.
LEMMA QuietStep ==
  ASSUME TypeOK, StagesInv, QuietInv, WriterInv, [Next]_vars
  PROVE  QuietInv'
<1> USE DEF vars, sessionVars, readVars, writeVars, currentVars, queueVars, sendVars, timerVars
<1>1. CASE m_internal_state' = "PROCESS_CONNECTION"
  BY <1>1 DEF QuietInv
<1>2. ASSUME UNCHANGED <<m_internal_state, writeVars, queueVars, pc>>
      PROVE  QuietInv'
  BY <1>2 DEF QuietInv
<1>3. ASSUME m_internal_state = "PROCESS_CONNECTION", UNCHANGED m_internal_state
      PROVE  QuietInv'
  BY <1>3 DEF QuietInv
<1>4. CASE Handshake
  <2>1. CASE Start
    BY <2>1 DEF Start, QuietInv
  <2>2. ASSUME NEW status \in Statuses, ReadRequest(status)
        PROVE  QuietInv'
    BY <2>2 DEF ReadRequest, QuietInv, StagesInv
  <2>3. CASE Open
    BY <2>3, <1>1 DEF Open
  <2>4. CASE ReadRequestFails
    BY <2>4, <1>2 DEF ReadRequestFails
  <2>5. CASE EndOfHttp \/ ResponseFails
    BY <2>5 DEF EndOfHttp, ResponseFails, QuietInv
  <2> QED
    BY <1>4, <2>1, <2>2, <2>3, <2>4, <2>5 DEF Handshake
<1>5. CASE ReadFrames \/ ReadFails \/ AskForMore
  BY <1>5, <1>3 DEF ReadFrames, ReadFails, AskForMore, StagesInv
<1>6. CASE Consume
  <2>1. m_internal_state = "PROCESS_CONNECTION"
    BY <1>6 DEF Consume, ConsumeData, ConsumePing, ConsumeLateClose, ConsumeError,
                ConsumeClose, Frame, StagesInv
  <2>2. UNCHANGED m_internal_state
    BY <1>6 DEF Consume, ConsumeData, ConsumePing, ConsumeLateClose, ConsumeError,
                ConsumeClose, SendCloseFrame
  <2> QED
    BY <2>1, <2>2, <1>3
<1>7. CASE Write
  <2>1. writing = "frames" \/ posted > 0
    BY <1>7 DEF Write, WriteNothing, WriteFrame, Transmit, FramesWritten, CloseWritten,
                WriteFails, WriteReturns
  <2>2. m_internal_state = "PROCESS_CONNECTION"
    BY <2>1 DEF QuietInv, WriterInv
  <2>3. UNCHANGED m_internal_state
    BY <1>7 DEF Write, WriteNothing, WriteFrame, Transmit, FramesWritten, CloseWritten,
                WriteFails, WriteReturns
  <2> QED
    BY <2>2, <2>3, <1>3
<1>8. CASE Send
  <2>1. m_internal_state = "PROCESS_CONNECTION"
    BY <1>8 DEF Send, SendCheck, SendPush, SendPost, StagesInv, QuietInv
  <2>2. UNCHANGED m_internal_state
    BY <1>8 DEF Send, SendCheck, SendPush, SendPost
  <2> QED
    BY <2>1, <2>2, <1>3
<1>9. CASE Time \/ PeerLeaves \/ UNCHANGED vars
  BY <1>9, <1>2 DEF Time, Expire, HandleTimeout, PeerLeaves
<1> QED
  BY <1>4, <1>5, <1>6, <1>7, <1>8, <1>9 DEF Next, Read

\* Every step keeps to one write at a time.
LEMMA WriterStep ==
  ASSUME TypeOK, StagesInv, QuietInv, WriterInv, [Next]_vars
  PROVE  WriterInv'
<1> USE DEF vars, sessionVars, readVars, writeVars, currentVars, queueVars, sendVars, timerVars
<1>1. ASSUME UNCHANGED <<m_current_msgs, m_write_flag>>,
             \/ UNCHANGED writing
             \/ writing # "frames" /\ writing' # "frames",
             m_state = "closed" => m_state' = "closed"
      PROVE  WriterInv'
  BY <1>1 DEF WriterInv
<1>2. CASE Handshake
  <2>1. CASE Start
    BY <2>1, <1>1 DEF Start
  <2>2. ASSUME NEW status \in Statuses, ReadRequest(status)
        PROVE  WriterInv'
    <3>1. writing # "frames"
      BY <2>2 DEF ReadRequest, StagesInv, QuietInv, WriterInv
    <3> QED
      BY <2>2, <3>1, <1>1 DEF ReadRequest
  <2>3. CASE Open
    BY <2>3, <1>1 DEF Open
  <2>4. CASE ReadRequestFails
    BY <2>4, <1>1 DEF ReadRequestFails, Terminate
  <2>5. CASE EndOfHttp \/ ResponseFails
    BY <2>5, <1>1 DEF EndOfHttp, ResponseFails, Terminate
  <2> QED
    BY <1>2, <2>1, <2>2, <2>3, <2>4, <2>5 DEF Handshake
<1>3. CASE ReadFrames \/ ReadFails \/ AskForMore
  BY <1>3, <1>1 DEF ReadFrames, ReadFails, AskForMore, Terminate
<1>4. CASE Consume
  BY <1>4, <1>1 DEF Consume, ConsumeData, ConsumePing, ConsumeLateClose, ConsumeError,
     ConsumeClose, Frame, SendCloseFrame, Terminate
<1>5. CASE WriteNothing \/ Transmit
  BY <1>5, <1>1 DEF WriteNothing, Transmit
<1>6. CASE WriteFrame
  <2>1. PICK n \in 1..Len(m_send_queue) :
          /\ OneWrite(m_send_queue, n)
          /\ m_current_msgs' = SubSeq(m_send_queue, 1, n)
    BY <1>6 DEF WriteFrame
  <2>2. m_send_queue \in Seq(Frames)
    BY DEF TypeOK
  <2>3. /\ m_current_msgs' \in Seq(Frames) /\ Len(m_current_msgs') = n
        /\ \A i \in 1..n : m_current_msgs'[i] = m_send_queue[i]
    BY <2>1, <2>2, CutTypes
  <2>4. m_current_msgs' # <<>>
    BY <2>3
  <2>5. \A i \in 1..(Len(m_current_msgs') - 1) : ~Terminal(m_current_msgs'[i])
    BY <2>1, <2>3 DEF OneWrite
  <2> QED
    BY <1>6, <2>4, <2>5 DEF WriteFrame, WriterInv
<1>7. CASE FramesWritten
  BY <1>7 DEF FramesWritten, WriteReturns, WriterInv
<1>8. CASE CloseWritten \/ WriteFails
  <2>1. m_state' = "closed" /\ m_current_msgs' = <<>> /\ writing' = "none"
    BY <1>8 DEF CloseWritten, WriteFails, WriteReturns, Terminate
  <2>2. \A i \in 1..(Len(m_current_msgs') - 1) : ~Terminal(m_current_msgs'[i])
    BY <2>1
  <2> QED
    BY <2>1, <2>2 DEF WriterInv
<1>9. CASE Send \/ PeerLeaves \/ UNCHANGED vars
  BY <1>9, <1>1 DEF Send, SendCheck, SendPush, SendPost, PeerLeaves
<1>10. CASE Time
  BY <1>10, <1>1 DEF Time, Expire, HandleTimeout, Terminate
<1> QED
  BY <1>2, <1>3, <1>4, <1>5, <1>6, <1>7, <1>8, <1>9, <1>10 DEF Next, Read, Write

\* Every step keeps a terminal frame the last one.
LEMMA TerminalStep ==
  ASSUME TypeOK, StagesInv, QuietInv, WriterInv, TerminalInv, [Next]_vars
  PROVE  TerminalInv'
<1> USE DEF vars, sessionVars, readVars, writeVars, currentVars, queueVars, sendVars, timerVars
<1>1. ASSUME UNCHANGED <<wire, currentVars, writing>>,
             m_state = "closed" => m_state' = "closed"
      PROVE  TerminalInv'
  BY <1>1 DEF TerminalInv, LastWritten
<1>2. ASSUME m_state' = "closed"
      PROVE  TerminalInv'
  BY <1>2 DEF TerminalInv
<1>3. ASSUME wire = <<>>, UNCHANGED wire
      PROVE  TerminalInv'
  BY <1>3 DEF TerminalInv
<1>4. CASE Handshake
  <2>1. m_internal_state # "PROCESS_CONNECTION" \/ m_state' = "closed"
    BY <1>4 DEF Handshake, Start, ReadRequest, ReadRequestFails, Open, EndOfHttp,
       ResponseFails, Terminate, StagesInv
  <2>2. UNCHANGED wire
    BY <1>4 DEF Handshake, Start, ReadRequest, ReadRequestFails, Open, EndOfHttp,
       ResponseFails
  <2> QED
    BY <2>1, <2>2, <1>2, <1>3 DEF QuietInv
<1>5. CASE ReadFrames \/ ReadFails \/ AskForMore
  BY <1>5, <1>1 DEF ReadFrames, ReadFails, AskForMore, Terminate
<1>6. CASE Consume
  <2>1. UNCHANGED <<wire, currentVars, writing>>
    BY <1>6 DEF Consume, ConsumeData, ConsumePing, ConsumeLateClose, ConsumeError,
       ConsumeClose, Frame
  <2>2. m_state = "closed" => m_state' = "closed"
    BY <1>6 DEF Consume, ConsumeData, ConsumePing, ConsumeLateClose, ConsumeError,
       ConsumeClose, Terminate
  <2> QED
    BY <2>1, <2>2, <1>1
<1>7. CASE WriteNothing
  BY <1>7, <1>1 DEF WriteNothing
<1>8. CASE WriteFrame
  <2>1. writing # "frames" /\ UNCHANGED <<wire, m_state>>
    BY <1>8 DEF WriteFrame, WriterInv
  <2> QED
    BY <2>1 DEF TerminalInv
<1>9. CASE Transmit
  <2>1. /\ taken + 1 \in 1..Len(m_current_msgs) /\ m_state # "closed"
        /\ wire' = Append(wire, m_current_msgs[taken + 1]) /\ taken' = taken + 1
        /\ m_current_msgs' = m_current_msgs /\ writing' = writing /\ writing = "frames"
        /\ wire \in Seq(Frames)
    BY <1>9 DEF Transmit, TypeOK
  <2>2. \A i \in 1..Len(wire) : ~Terminal(wire[i])
    BY <2>1 DEF TerminalInv
  <2>3. SUFFICES ASSUME NEW i \in 1..Len(wire'), Terminal(wire'[i])
                 PROVE  taken' = Len(m_current_msgs') /\ Terminal(LastWritten')
    BY <2>1 DEF TerminalInv
  <2>4. i = Len(wire) + 1 /\ wire'[i] = m_current_msgs[taken + 1]
    BY <2>1, <2>2, <2>3
  <2>5. ~(taken + 1 \in 1..(Len(m_current_msgs) - 1))
    BY <2>3, <2>4 DEF WriterInv
  <2>6. taken + 1 = Len(m_current_msgs)
    BY <2>1, <2>5 DEF TypeOK
  <2> QED
    BY <2>1, <2>3, <2>4, <2>6 DEF LastWritten
<1>10. CASE FramesWritten
  <2>1. UNCHANGED <<wire, m_state>> /\ ~Terminal(LastWritten)
    BY <1>10 DEF FramesWritten, WriteReturns
  <2> QED
    BY <2>1 DEF TerminalInv
<1>11. CASE CloseWritten \/ WriteFails
  BY <1>11, <1>2 DEF CloseWritten, WriteFails, Terminate
<1>12. CASE Send \/ PeerLeaves \/ UNCHANGED vars
  BY <1>12, <1>1 DEF Send, SendCheck, SendPush, SendPost, PeerLeaves
<1>13. CASE Time
  BY <1>13, <1>1 DEF Time, Expire, HandleTimeout, Terminate
<1> QED
  BY <1>4, <1>5, <1>6, <1>7, <1>8, <1>9, <1>10, <1>11, <1>12, <1>13 DEF Next, Read, Write

(***************************************************************************)
(* Before the session closes, no step pushes a close frame or sets its     *)
(* timer.                                                                  *)
(***************************************************************************)
LEMMA ClosingStep ==
  ASSUME TypeOK, StagesInv, QuietInv, ClosingInv, SendersInv, [Next]_vars
  PROVE  ClosingInv'
<1> USE DEF vars, sessionVars, readVars, writeVars, currentVars, queueVars, sendVars, timerVars
<1>1. ASSUME m_state' \in {"closing", "closed"}
      PROVE  ClosingInv'
  BY <1>1 DEF ClosingInv
<1>2. ASSUME m_state \in {"connecting", "open"},
             m_handshake_timer' \in {m_handshake_timer, "open", "none"},
             waiting' \subseteq waiting \cup {"open"},
             expired' \subseteq expired \cup {"open"},
             UNCHANGED <<m_send_queue, m_current_msgs>>
      PROVE  ClosingInv'
  BY <1>2 DEF ClosingInv
<1>3. ASSUME UNCHANGED <<m_state, timerVars, m_current_msgs>>,
             NEW f \in Frames \ {Close},
             m_send_queue' = Append(m_send_queue, f)
      PROVE  ClosingInv'
  <2>1. m_send_queue \in Seq(Frames)
    BY DEF TypeOK
  <2>2. \A i \in 1..Len(m_send_queue') :
          \/ i \in 1..Len(m_send_queue) /\ m_send_queue'[i] = m_send_queue[i]
          \/ m_send_queue'[i] = f
    BY <2>1, <1>3
  <2>3. ~Terminal(f)
    BY <1>3 DEF Terminal
  <2> QED
    BY <1>3, <2>2, <2>3 DEF ClosingInv
<1>4. ASSUME UNCHANGED <<m_state, timerVars, m_send_queue, m_current_msgs>>
      PROVE  ClosingInv'
  BY <1>4 DEF ClosingInv
<1>5. Pong \in Frames \ {Close} /\ Reply \in Frames \ {Close}
      /\ \A n \in 1..MaxSends : Data(n) \in Frames \ {Close}
  BY FrameTypes DEF Pong, Reply, Data, Close
<1>6. CASE Handshake
  <2>1. CASE Start
    BY <2>1, <1>2 DEF Start, SetTimer, StagesInv
  <2>2. ASSUME NEW status \in Statuses, ReadRequest(status)
        PROVE  ClosingInv'
    BY <2>2, <1>4 DEF ReadRequest
  <2>3. CASE Open
    BY <2>3, <1>2 DEF Open, CancelTimer
  <2>4. CASE ReadRequestFails \/ EndOfHttp \/ ResponseFails
    BY <2>4, <1>1 DEF ReadRequestFails, EndOfHttp, ResponseFails, Terminate
  <2> QED
    BY <1>6, <2>1, <2>2, <2>3, <2>4 DEF Handshake
<1>7. CASE ReadFrames \/ AskForMore
  BY <1>7, <1>4 DEF ReadFrames, AskForMore
<1>8. CASE ReadFails
  BY <1>8, <1>1 DEF ReadFails, Terminate
<1>9. CASE ConsumeData
  <2>1. UNCHANGED <<m_state, timerVars, m_current_msgs>>
    BY <1>9 DEF ConsumeData, Frame
  <2>2. m_send_queue' = Append(m_send_queue, Reply) \/ UNCHANGED m_send_queue
    BY <1>9 DEF ConsumeData, Push
  <2> QED
    BY <2>1, <2>2, <1>3, <1>4, <1>5
<1>10. CASE ConsumePing
  <2>1. UNCHANGED <<m_state, timerVars, m_current_msgs>>
    BY <1>10 DEF ConsumePing, Frame
  <2>2. m_send_queue' = Append(m_send_queue, Pong) \/ UNCHANGED m_send_queue
    BY <1>10 DEF ConsumePing, Push
  <2> QED
    BY <2>1, <2>2, <1>3, <1>4, <1>5
<1>11. CASE ConsumeLateClose
  BY <1>11, <1>4 DEF ConsumeLateClose, Frame
<1>12. CASE ConsumeError \/ \E valid \in BOOLEAN : ConsumeClose(valid)
  BY <1>12, <1>1 DEF ConsumeError, ConsumeClose, SendCloseFrame, Terminate
<1>13. CASE WriteNothing \/ Transmit
  BY <1>13, <1>4 DEF WriteNothing, Transmit
<1>14. CASE WriteFrame
  <2>1. PICK n \in 1..Len(m_send_queue) :
          /\ m_current_msgs' = SubSeq(m_send_queue, 1, n)
          /\ m_send_queue' = SubSeq(m_send_queue, n + 1, Len(m_send_queue))
    BY <1>14 DEF WriteFrame
  <2>2. m_send_queue \in Seq(Frames) /\ Len(m_send_queue) \in Nat
    BY DEF TypeOK
  <2>3. /\ Len(m_current_msgs') = n
        /\ \A i \in 1..n : m_current_msgs'[i] = m_send_queue[i]
        /\ Len(m_send_queue') = Len(m_send_queue) - n
        /\ \A i \in 1..(Len(m_send_queue) - n) : m_send_queue'[i] = m_send_queue[n + i]
    BY <2>1, <2>2, CutTypes
  <2>4. ASSUME m_state \in {"connecting", "open"}
        PROVE  /\ \A i \in 1..Len(m_current_msgs') : ~Terminal(m_current_msgs'[i])
               /\ \A i \in 1..Len(m_send_queue') : ~Terminal(m_send_queue'[i])
    <3>1. \A i \in 1..Len(m_send_queue) : ~Terminal(m_send_queue[i])
      BY <2>4 DEF ClosingInv
    <3>2. \A i \in 1..n : i \in 1..Len(m_send_queue)
      BY <2>2
    <3>3. \A i \in 1..(Len(m_send_queue) - n) : n + i \in 1..Len(m_send_queue)
      BY <2>2
    <3> QED
      BY <2>3, <3>1, <3>2, <3>3
  <2>5. UNCHANGED <<m_state, timerVars>>
    BY <1>14 DEF WriteFrame
  <2> QED
    BY <2>4, <2>5 DEF ClosingInv
<1>15. CASE FramesWritten
  <2>1. UNCHANGED <<m_state, timerVars, m_send_queue>> /\ m_current_msgs' = <<>>
    BY <1>15 DEF FramesWritten, WriteReturns
  <2> QED
    BY <2>1 DEF ClosingInv
<1>16. CASE CloseWritten \/ WriteFails \/ \E t \in Timers : HandleTimeout(t)
  BY <1>16, <1>1 DEF CloseWritten, WriteFails, HandleTimeout, Terminate
<1>17. ASSUME NEW t \in Timers, Expire(t)
       PROVE  ClosingInv'
  BY <1>17 DEF Expire, ClosingInv
<1>18. ASSUME NEW s \in Senders, SendPush(s)
       PROVE  ClosingInv'
  <2>1. msg[s] \in 1..MaxSends
    BY <1>18, BoundsAssumption DEF SendPush, SendersInv, TypeOK
  <2>2. m_send_queue' = Append(m_send_queue, Data(msg[s]))
    BY <1>18 DEF SendPush
  <2>3. UNCHANGED <<m_state, timerVars, m_current_msgs>>
    BY <1>18 DEF SendPush
  <2> QED
    BY <2>1, <2>2, <2>3, <1>3, <1>5
<1>19. CASE (\E s \in Senders : SendCheck(s) \/ SendPost(s)) \/ PeerLeaves \/ UNCHANGED vars
  BY <1>19, <1>4 DEF SendCheck, SendPost, PeerLeaves
<1> QED
  BY <1>6, <1>7, <1>8, <1>9, <1>10, <1>11, <1>12, <1>13, <1>14, <1>15, <1>16, <1>17,
     <1>18, <1>19
  DEF Next, Read, Consume, Write, Send, Time

\* Every step leaves a message to a thread that is about to push it.
LEMMA SendersStep ==
  ASSUME TypeOK, SendersInv, [Next]_vars
  PROVE  SendersInv'
<1> USE DEF vars, sessionVars, readVars, writeVars, currentVars, queueVars, sendVars, timerVars
<1>1. ASSUME UNCHANGED <<pc, msg>>
      PROVE  SendersInv'
  BY <1>1 DEF SendersInv
<1>2. ASSUME NEW s \in Senders, SendCheck(s)
      PROVE  SendersInv'
  <2>1. sends + 1 # 0
    BY DEF TypeOK
  <2> QED
    BY <1>2, <2>1 DEF SendCheck, SendersInv, TypeOK
<1>3. ASSUME NEW s \in Senders, SendPush(s) \/ SendPost(s)
      PROVE  SendersInv'
  BY <1>3 DEF SendPush, SendPost, SendersInv, TypeOK
<1>4. CASE Handshake
  BY <1>4, <1>1 DEF Handshake, Start, ReadRequest, ReadRequestFails, Open, EndOfHttp,
     ResponseFails
<1>5. CASE Read
  BY <1>5, <1>1 DEF Read, ReadFrames, ReadFails, AskForMore, Consume, ConsumeData,
     ConsumePing, ConsumeLateClose, ConsumeError, ConsumeClose, Frame
<1>6. CASE Write
  BY <1>6, <1>1 DEF Write, WriteNothing, WriteFrame, Transmit, FramesWritten,
     CloseWritten, WriteFails, WriteReturns
<1>7. CASE Time \/ PeerLeaves \/ UNCHANGED vars
  BY <1>7, <1>1 DEF Time, Expire, HandleTimeout, PeerLeaves
<1> QED
  BY <1>2, <1>3, <1>4, <1>5, <1>6, <1>7 DEF Next, Send

-----------------------------------------------------------------------------
(* No lost wakeup, no awaited answer.                                      *)

\* Every step keeps a write_frame posted for the frames that wait.
LEMMA WakeupStep ==
  ASSUME TypeOK, IInv, NoLostWakeup, [Next]_vars
  PROVE  NoLostWakeup'
<1> USE DEF vars, sessionVars, readVars, writeVars, currentVars, queueVars, sendVars, timerVars
<1>1. ASSUME UNCHANGED <<queueVars, m_write_flag, pc>>
      PROVE  NoLostWakeup'
  BY <1>1 DEF NoLostWakeup
<1>2. ASSUME NEW f, Push(f), UNCHANGED <<m_write_flag, pc>>
      PROVE  NoLostWakeup'
  <2>1. CASE m_write_flag
    BY <1>2, <2>1 DEF NoLostWakeup
  <2>2. CASE ~m_write_flag
    <3>1. posted' = posted + 1 /\ posted \in Nat
      BY <1>2, <2>2 DEF Push, TypeOK
    <3>2. posted' > 0
      BY <3>1
    <3> QED
      BY <3>2 DEF NoLostWakeup
  <2> QED
    BY <2>1, <2>2
<1>3. CASE Handshake
  <2>1. CASE Start
    BY <2>1, <1>1 DEF Start
  <2>2. ASSUME NEW status \in Statuses, ReadRequest(status)
        PROVE  NoLostWakeup'
    BY <2>2, <1>1 DEF ReadRequest
  <2>3. CASE Open
    BY <2>3, <1>1 DEF Open
  <2>4. CASE ReadRequestFails
    BY <2>4, <1>1 DEF ReadRequestFails
  <2>5. CASE EndOfHttp \/ ResponseFails
    BY <2>5, <1>1 DEF EndOfHttp, ResponseFails
  <2> QED
    BY <1>3, <2>1, <2>2, <2>3, <2>4, <2>5 DEF Handshake
<1>4. CASE ReadFrames \/ ReadFails \/ AskForMore
  BY <1>4, <1>1 DEF ReadFrames, ReadFails, AskForMore
<1>5. CASE Consume
  <2>1. UNCHANGED <<m_write_flag, pc>>
    BY <1>5 DEF Consume, ConsumeData, ConsumePing, ConsumeLateClose, ConsumeError,
       ConsumeClose, Frame
  <2>2. UNCHANGED queueVars \/ Push(Reply) \/ Push(Pong) \/ Push(Close)
    BY <1>5 DEF Consume, ConsumeData, ConsumePing, ConsumeLateClose, ConsumeError,
       ConsumeClose, SendCloseFrame
  <2> QED
    BY <2>1, <2>2, <1>1, <1>2
<1>6. CASE WriteNothing
  BY <1>6 DEF WriteNothing, NoLostWakeup
<1>7. CASE WriteFrame
  BY <1>7 DEF WriteFrame, NoLostWakeup
<1>8. CASE Transmit
  BY <1>8, <1>1 DEF Transmit
<1>9. CASE FramesWritten
  <2>1. CASE m_send_queue = <<>>
    BY <1>9, <2>1 DEF FramesWritten, WriteReturns, NoLostWakeup
  <2>2. CASE m_send_queue # <<>>
    <3>1. posted' = posted + 1 /\ posted \in Nat
      BY <1>9, <2>2 DEF FramesWritten, TypeOK
    <3>2. posted' > 0
      BY <3>1
    <3> QED
      BY <3>2 DEF NoLostWakeup
  <2> QED
    BY <2>1, <2>2
<1>10. CASE CloseWritten \/ WriteFails
  BY <1>10, <1>1 DEF CloseWritten, WriteFails, WriteReturns
<1>11. ASSUME NEW s \in Senders, SendCheck(s)
       PROVE  NoLostWakeup'
  BY <1>11 DEF SendCheck, NoLostWakeup, TypeOK
<1>12. ASSUME NEW s \in Senders, SendPush(s)
       PROVE  NoLostWakeup'
  <2>1. CASE m_write_flag
    BY <1>12, <2>1 DEF SendPush, NoLostWakeup
  <2>2. CASE ~m_write_flag
    <3>1. pc'[s] = "pushed"
      BY <1>12, <2>2 DEF SendPush, TypeOK
    <3> QED
      BY <3>1 DEF NoLostWakeup
  <2> QED
    BY <2>1, <2>2
<1>13. ASSUME NEW s \in Senders, SendPost(s)
       PROVE  NoLostWakeup'
  <2>1. posted' = posted + 1 /\ posted \in Nat
    BY <1>13 DEF SendPost, TypeOK
  <2>2. posted' > 0
    BY <2>1
  <2> QED
    BY <2>2 DEF NoLostWakeup
<1>14. CASE Time \/ PeerLeaves \/ UNCHANGED vars
  BY <1>14, <1>1 DEF Time, Expire, HandleTimeout, PeerLeaves
<1> QED
  BY <1>3, <1>4, <1>5, <1>6, <1>7, <1>8, <1>9, <1>10, <1>11, <1>12, <1>13, <1>14
  DEF Next, Read, Write, Send

(***************************************************************************)
(* Every step keeps the server from reading after a close frame of its     *)
(* own.                                                                    *)
(***************************************************************************)
LEMMA AwaitStep ==
  ASSUME TypeOK, IInv, NoAnswerAwaited, [Next]_vars
  PROVE  NoAnswerAwaited'
<1> USE DEF vars, sessionVars, readVars, writeVars, currentVars, queueVars, sendVars, timerVars
<1>1. ASSUME UNCHANGED <<m_state, m_was_clean>>,
             consuming' \in {consuming, "no"} \/ consuming # "no",
             reading' \in {reading, "none"}
      PROVE  NoAnswerAwaited'
  BY <1>1 DEF NoAnswerAwaited
<1>2. ASSUME m_state' # "closing" \/ m_was_clean'
      PROVE  NoAnswerAwaited'
  BY <1>2 DEF NoAnswerAwaited
<1>3. CASE Handshake
  <2>1. CASE Start
    BY <2>1, <1>2 DEF Start, IInv, StagesInv
  <2>2. ASSUME NEW status \in Statuses, ReadRequest(status)
        PROVE  NoAnswerAwaited'
    BY <2>2, <1>2 DEF ReadRequest
  <2>3. CASE Open \/ ReadRequestFails \/ EndOfHttp \/ ResponseFails
    BY <2>3, <1>2 DEF Open, ReadRequestFails, EndOfHttp, ResponseFails, Terminate
  <2> QED
    BY <1>3, <2>1, <2>2, <2>3 DEF Handshake
<1>4. CASE ReadFrames \/ AskForMore
  BY <1>4 DEF ReadFrames, AskForMore, NoAnswerAwaited
<1>5. CASE ReadFails
  BY <1>5, <1>2 DEF ReadFails, Terminate
<1>6. CASE ConsumeData \/ ConsumePing \/ ConsumeLateClose
  BY <1>6, <1>1 DEF ConsumeData, ConsumePing, ConsumeLateClose, Frame
<1>7. CASE \E valid \in BOOLEAN : ConsumeClose(valid)
  BY <1>7, <1>2 DEF ConsumeClose, SendCloseFrame
<1>8. CASE ConsumeError
  <2>1. consuming' = "no" /\ reading' = "none"
    BY <1>8 DEF ConsumeError, Frame, IInv, StagesInv
  <2> QED
    BY <2>1 DEF NoAnswerAwaited
<1>9. CASE WriteNothing \/ WriteFrame \/ Transmit \/ FramesWritten
  BY <1>9, <1>1 DEF WriteNothing, WriteFrame, Transmit, FramesWritten, WriteReturns
<1>10. CASE CloseWritten \/ WriteFails \/ \E t \in Timers : HandleTimeout(t)
  BY <1>10, <1>2 DEF CloseWritten, WriteFails, HandleTimeout, Terminate
<1>11. CASE Send \/ PeerLeaves \/ UNCHANGED vars \/ \E t \in Timers : Expire(t)
  BY <1>11, <1>1 DEF Send, SendCheck, SendPush, SendPost, PeerLeaves, Expire
<1> QED
  BY <1>3, <1>4, <1>5, <1>6, <1>7, <1>8, <1>9, <1>10, <1>11
  DEF Next, Read, Consume, Write, Time

-----------------------------------------------------------------------------
(* All together.                                                           *)

\* The invariants hold when the connection is made.
LEMMA InitHolds ==
  ASSUME Init
  PROVE  TypeOK /\ IInv /\ EndHeard /\ NoLostWakeup /\ NoAnswerAwaited
<1>1. TypeOK
  <2>1. taken \in 0..Len(m_current_msgs) /\ posted \in Nat
    BY DEF Init
  <2>2. sends \in 0..MaxSends /\ frames \in 0..MaxFrames /\ 0 \in 0..MaxSends
    BY BoundsAssumption DEF Init
  <2>3. /\ pc \in [Senders -> {"idle", "checked", "pushed"}]
        /\ msg \in [Senders -> 0..MaxSends]
    BY <2>2 DEF Init
  <2>4. m_send_queue \in Seq(Frames) /\ m_current_msgs \in Seq(Frames) /\ wire \in Seq(Frames)
    BY DEF Init
  <2> QED
    BY <2>1, <2>2, <2>3, <2>4 DEF Init, TypeOK
<1>2. IInv
  BY DEF Init, IInv, StagesInv, QuietInv, WriterInv, TerminalInv, ClosingInv, SendersInv
<1>3. EndHeard /\ NoLostWakeup /\ NoAnswerAwaited
  BY DEF Init, EndHeard, NoLostWakeup, NoAnswerAwaited
<1> QED
  BY <1>1, <1>2, <1>3

\* Every step keeps all invariants.
LEMMA StepHolds ==
  ASSUME TypeOK, IInv, EndHeard, NoLostWakeup, NoAnswerAwaited, [Next]_vars
  PROVE  TypeOK' /\ IInv' /\ EndHeard' /\ NoLostWakeup' /\ NoAnswerAwaited'
<1>1. StagesInv /\ QuietInv /\ WriterInv /\ TerminalInv /\ ClosingInv /\ SendersInv
  BY DEF IInv
<1>2. TypeOK'
  <2>1. CASE UNCHANGED vars
    BY <2>1 DEF vars, sessionVars, readVars, writeVars, currentVars, queueVars, sendVars,
       timerVars, TypeOK
  <2> QED
    BY <2>1, <1>1, TypeHandshake, TypeRead, TypeWrite, TypeOthers DEF Next
<1>3. IInv'
  BY <1>1, StagesStep, QuietStep, WriterStep, TerminalStep, ClosingStep, SendersStep DEF IInv
<1>4. EndHeard' /\ NoLostWakeup' /\ NoAnswerAwaited'
  BY <1>1, EndHeardStep, WakeupStep, AwaitStep
<1> QED
  BY <1>2, <1>3, <1>4

\* All invariants of a connection hold throughout.
THEOREM ConnectionInvariants ==
  Spec => [](TypeOK /\ IInv /\ EndHeard /\ NoLostWakeup /\ NoAnswerAwaited)
<1>1. Init => TypeOK /\ IInv /\ EndHeard /\ NoLostWakeup /\ NoAnswerAwaited
  BY InitHolds
<1>2. (TypeOK /\ IInv /\ EndHeard /\ NoLostWakeup /\ NoAnswerAwaited) /\ [Next]_vars
        => (TypeOK /\ IInv /\ EndHeard /\ NoLostWakeup /\ NoAnswerAwaited)'
  BY StepHolds
<1> QED
  BY <1>1, <1>2, PTL DEF Spec

\* The inductive invariant holds.
THEOREM ConnectionInvariant == Spec => []IInv
BY ConnectionInvariants, PTL

\* The variables keep their types; told records one end at most.
THEOREM ConnectionTypes == Spec => []TypeOK
BY ConnectionInvariants, PTL

\* terminate() and handle_terminate call one handler of the program, once.
THEOREM EndIsHeardOnce == Spec => []EndHeard
BY ConnectionInvariants, PTL

\* Frames that wait have a write_frame coming, whoever pushed them and when.
THEOREM NoWakeupIsLost == Spec => []NoLostWakeup
BY ConnectionInvariants, PTL

\* The server reads nothing after a close frame that it sent for an error.
THEOREM NoAnswerIsAwaited == Spec => []NoAnswerAwaited
BY ConnectionInvariants, PTL

-----------------------------------------------------------------------------
(* An open session ends for a reason.                                      *)

\* The step that ends an open session has a reason.
LEMMA EndStep ==
  ASSUME TypeOK, IInv, [Next]_vars, m_state = "open", m_state' = "closed"
  PROVE  peer = "gone" \/ "open" \in expired
<1> USE DEF vars, sessionVars, readVars, writeVars, currentVars, queueVars, sendVars, timerVars
<1>0. m_internal_state = "PROCESS_CONNECTION" /\ reading # "request" /\ writing # "response"
  BY DEF IInv, StagesInv
<1>1. CASE Handshake
  BY <1>1, <1>0 DEF Handshake, Start, ReadRequest, ReadRequestFails, Open, EndOfHttp,
     ResponseFails
<1>2. CASE ReadFails
  BY <1>2 DEF ReadFails
<1>3. CASE ReadFrames \/ AskForMore \/ Consume
  BY <1>3 DEF ReadFrames, AskForMore, Consume, ConsumeData, ConsumePing, ConsumeLateClose,
     ConsumeError, ConsumeClose, SendCloseFrame
<1>4. CASE WriteNothing \/ WriteFrame \/ Transmit \/ FramesWritten
  BY <1>4 DEF WriteNothing, WriteFrame, Transmit, FramesWritten
<1>5. CASE CloseWritten
  <2>1. m_current_msgs \in Seq(Frames) /\ m_current_msgs # <<>> /\ Terminal(LastWritten)
    BY <1>5 DEF CloseWritten, WriteReturns, IInv, WriterInv, TypeOK
  <2>2. Len(m_current_msgs) \in 1..Len(m_current_msgs)
    BY <2>1
  <2> QED
    BY <2>1, <2>2 DEF IInv, ClosingInv, LastWritten
<1>6. CASE WriteFails
  BY <1>6 DEF WriteFails
<1>7. CASE Send \/ PeerLeaves \/ UNCHANGED vars
  BY <1>7 DEF Send, SendCheck, SendPush, SendPost, PeerLeaves
<1>8. ASSUME NEW t \in Timers, Expire(t) \/ HandleTimeout(t)
      PROVE  "open" \in expired
  <2>1. t \in expired
    BY <1>8 DEF Expire, HandleTimeout
  <2>2. t # "close"
    BY <2>1 DEF IInv, ClosingInv
  <2> QED
    BY <2>1, <2>2 DEF Timers
<1> QED
  BY <1>1, <1>2, <1>3, <1>4, <1>5, <1>6, <1>7, <1>8 DEF Next, Read, Write, Time

(***************************************************************************)
(* An open session ends only if the peer is gone or the timer of the       *)
(* opening handshake had expired before it was cancelled (terminate,       *)
(* handle_open_handshake_timeout).                                         *)
(***************************************************************************)
THEOREM EndsAreExplained == Spec => EndsExplained
<1>1. TypeOK /\ IInv /\ [Next]_vars
        => [m_state = "open" /\ m_state' = "closed" => peer = "gone" \/ "open" \in expired]_vars
  BY EndStep
<1> QED
  BY <1>1, ConnectionInvariants, PTL DEF Spec, EndsExplained

-----------------------------------------------------------------------------
(* Session.                                                                *)

\* The frames that are not written yet are frames.
LEMMA UnsentType ==
  ASSUME TypeOK
  PROVE  Unsent \in Seq(Frames)
<1>1. /\ m_current_msgs \in Seq(Frames) /\ m_send_queue \in Seq(Frames)
      /\ taken \in 0..Len(m_current_msgs)
  BY DEF TypeOK
<1>2. SubSeq(m_current_msgs, taken + 1, Len(m_current_msgs)) \in Seq(Frames)
  BY <1>1
<1> QED
  BY <1>1, <1>2 DEF Unsent

\* A frame that is pushed is the last one to be written.
LEMMA UnsentAppend ==
  ASSUME TypeOK, NEW f \in Frames, UNCHANGED <<m_current_msgs, taken>>,
         m_send_queue' = Append(m_send_queue, f)
  PROVE  Unsent' = Append(Unsent, f)
<1> DEFINE rest == SubSeq(m_current_msgs, taken + 1, Len(m_current_msgs))
<1>1. /\ m_current_msgs \in Seq(Frames) /\ m_send_queue \in Seq(Frames)
      /\ taken \in 0..Len(m_current_msgs)
  BY DEF TypeOK
<1>2. rest \in Seq(Frames)
  BY <1>1
<1>3. Unsent' = rest \o Append(m_send_queue, f) /\ Unsent = rest \o m_send_queue
  BY DEF Unsent
<1> HIDE DEF rest
<1> QED
  BY <1>1, <1>2, <1>3

\* write_frame takes frames from the queue and gives up none.
LEMMA UnsentCut ==
  ASSUME TypeOK, writing # "frames", WriterInv, WriteFrame
  PROVE  Unsent' = Unsent
<1>1. PICK n \in 1..Len(m_send_queue) :
        /\ m_current_msgs' = SubSeq(m_send_queue, 1, n)
        /\ m_send_queue' = SubSeq(m_send_queue, n + 1, Len(m_send_queue))
  BY DEF WriteFrame
<1>2. m_send_queue \in Seq(Frames) /\ m_current_msgs = <<>> /\ taken = 0 /\ taken' = 0
  BY DEF TypeOK, WriterInv, WriteFrame
<1>3. Unsent = m_send_queue
  BY <1>2 DEF Unsent
<1>4. m_current_msgs' \in Seq(Frames)
  BY <1>1, <1>2, CutTypes
<1>5. SubSeq(m_current_msgs', taken' + 1, Len(m_current_msgs')) = m_current_msgs'
  BY <1>2, <1>4
<1>6. Unsent' = m_current_msgs' \o m_send_queue'
  BY <1>5 DEF Unsent
<1> QED
  BY <1>1, <1>2, <1>3, <1>6, CutTypes

\* The transport takes the oldest frame.
LEMMA UnsentTransmit ==
  ASSUME TypeOK, Transmit
  PROVE  /\ Unsent # <<>>
         /\ wire' = Append(wire, Head(Unsent))
         /\ Unsent' = Tail(Unsent)
<1> DEFINE rest == SubSeq(m_current_msgs, taken + 1, Len(m_current_msgs))
           rest1 == SubSeq(m_current_msgs, taken + 2, Len(m_current_msgs))
<1>1. /\ m_current_msgs \in Seq(Frames) /\ m_send_queue \in Seq(Frames)
      /\ taken \in 0..Len(m_current_msgs) /\ taken < Len(m_current_msgs)
      /\ taken' = taken + 1 /\ m_current_msgs' = m_current_msgs
      /\ m_send_queue' = m_send_queue /\ wire' = Append(wire, m_current_msgs[taken + 1])
  BY DEF TypeOK, Transmit, currentVars, queueVars
<1>2. /\ rest \in Seq(Frames) /\ rest # <<>> /\ Head(rest) = m_current_msgs[taken + 1]
      /\ Tail(rest) = rest1
  BY <1>1
<1>3. taken' + 1 = taken + 2
  BY <1>1
<1>4. Unsent = rest \o m_send_queue /\ Unsent' = rest1 \o m_send_queue
  BY <1>1, <1>3 DEF Unsent
<1> HIDE DEF rest, rest1
<1>5. /\ Unsent # <<>> /\ Head(Unsent) = Head(rest) /\ Tail(Unsent) = Tail(rest) \o m_send_queue
  BY <1>1, <1>2, <1>4
<1> QED
  BY <1>1, <1>2, <1>4, <1>5

(***************************************************************************)
(* handle_write_frame gives up the frames of the write that were not       *)
(* taken.                                                                  *)
(***************************************************************************)
LEMMA UnsentReturns ==
  ASSUME TypeOK, WriteReturns
  PROVE  \E k \in 0..Len(Unsent) :
           /\ Unsent' = SubSeq(Unsent, k + 1, Len(Unsent))
           /\ taken = Len(m_current_msgs) => Unsent' = Unsent
<1> DEFINE rest == SubSeq(m_current_msgs, taken + 1, Len(m_current_msgs))
<1>1. /\ m_current_msgs \in Seq(Frames) /\ m_send_queue \in Seq(Frames)
      /\ taken \in 0..Len(m_current_msgs)
      /\ m_current_msgs' = <<>> /\ taken' = 0 /\ m_send_queue' = m_send_queue
  BY DEF TypeOK, WriteReturns
<1>2. rest \in Seq(Frames) /\ (taken = Len(m_current_msgs) => rest = <<>>)
  BY <1>1
<1>3. SubSeq(<<>>, 1, 0) = <<>> /\ Len(<<>>) = 0 /\ 0 + 1 = 1
  OBVIOUS
<1>4. Unsent' = <<>> \o m_send_queue
  BY <1>1, <1>3 DEF Unsent
<1>5. Unsent' = m_send_queue
  BY <1>1, <1>4
<1>6. Unsent = rest \o m_send_queue
  BY DEF Unsent
<1> HIDE DEF rest
<1>7. /\ Len(rest) \in 0..Len(Unsent)
      /\ SubSeq(Unsent, Len(rest) + 1, Len(Unsent)) = m_send_queue
  BY <1>1, <1>2, <1>6
<1>8. taken = Len(m_current_msgs) => Unsent = m_send_queue
  BY <1>1, <1>2, <1>6
<1> QED
  BY <1>5, <1>7, <1>8

\* A step that leaves the frames and the state alone is none of Session.
LEMMA SessionUnchanged ==
  ASSUME UNCHANGED <<m_state, m_send_queue, m_current_msgs, taken, wire>>
  PROVE  UNCHANGED AbstractSession!vars
BY DEF Unsent, AbstractSession!vars

\* A push is Accept.
LEMMA SessionAccepts ==
  ASSUME TypeOK, NEW f \in Frames, m_send_queue' = Append(m_send_queue, f),
         m_state # "connecting", UNCHANGED <<m_state, m_current_msgs, taken, wire>>
  PROVE  AbstractSession!Next
<1>1. Unsent' = Append(Unsent, f)
  BY UnsentAppend
<1>2. AbstractSession!Accept
  BY <1>1 DEF AbstractSession!Accept
<1> QED
  BY <1>2 DEF AbstractSession!Next

(***************************************************************************)
(* send_close_frame is StartClosing, or Accept when it comes a second      *)
(* time.                                                                   *)
(***************************************************************************)
LEMMA SessionCloses ==
  ASSUME TypeOK, NEW ack \in BOOLEAN, SendCloseFrame(ack), m_state \in {"open", "closing"},
         UNCHANGED <<m_current_msgs, taken, wire>>
  PROVE  AbstractSession!Next
<1>1. m_send_queue' = Append(m_send_queue, Close) /\ m_state' = "closing"
  BY DEF SendCloseFrame, Push
<1>2. Unsent' = Append(Unsent, Close)
  BY <1>1, UnsentAppend, FrameTypes
<1>3. CASE m_state = "open"
  BY <1>1, <1>2, <1>3 DEF AbstractSession!StartClosing, AbstractSession!Close, Close,
     AbstractSession!Next
<1>4. CASE m_state = "closing"
  BY <1>1, <1>4, SessionAccepts, FrameTypes
<1> QED
  BY <1>3, <1>4

\* terminate() is End.
LEMMA SessionEnds ==
  ASSUME TypeOK, m_state' = "closed", UNCHANGED <<m_send_queue, m_current_msgs, taken, wire>>
  PROVE  AbstractSession!Next
<1>1. Unsent \in Seq(Frames) /\ Unsent' = Unsent
  BY UnsentType DEF Unsent
<1>2. 0 \in 0..Len(Unsent) /\ Unsent' = SubSeq(Unsent, 0 + 1, Len(Unsent))
  BY <1>1
<1>3. AbstractSession!End
  BY <1>2 DEF AbstractSession!End
<1> QED
  BY <1>3 DEF AbstractSession!Next

\* Every step of the connection is a step of Session, or none.
LEMMA SessionStep ==
  ASSUME TypeOK, IInv, [Next]_vars
  PROVE  AbstractSession!Next \/ UNCHANGED AbstractSession!vars
<1> USE DEF vars, sessionVars, readVars, writeVars, currentVars, queueVars, sendVars, timerVars
<1>0. StagesInv /\ QuietInv /\ WriterInv /\ TerminalInv /\ ClosingInv /\ SendersInv
  BY DEF IInv
<1>1. CASE Start
  BY <1>1, SessionUnchanged DEF Start
<1>2. ASSUME NEW status \in Statuses, ReadRequest(status)
      PROVE  UNCHANGED AbstractSession!vars
  BY <1>2, SessionUnchanged DEF ReadRequest
<1>3. CASE Open
  <2>1. m_state = "connecting" /\ m_state' = "open" /\ wire' = wire /\ Unsent' = Unsent
    BY <1>3 DEF Open, Unsent
  <2> QED
    BY <2>1 DEF AbstractSession!Next, AbstractSession!Establish
<1>4. CASE ReadRequestFails \/ EndOfHttp \/ ResponseFails \/ ReadFails
  BY <1>4, SessionEnds DEF ReadRequestFails, EndOfHttp, ResponseFails, ReadFails, Terminate
<1>5. CASE ReadFrames \/ AskForMore
  BY <1>5, SessionUnchanged DEF ReadFrames, AskForMore
<1>6. CASE ConsumeData \/ ConsumePing
  <2>1. UNCHANGED <<m_state, m_current_msgs, taken, wire>>
    BY <1>6 DEF ConsumeData, ConsumePing, Frame
  <2>2. \/ UNCHANGED m_send_queue
        \/ /\ m_state = "open"
           /\ \/ m_send_queue' = Append(m_send_queue, Reply)
              \/ m_send_queue' = Append(m_send_queue, Pong)
    BY <1>6 DEF ConsumeData, ConsumePing, Push
  <2> QED
    BY <2>1, <2>2, SessionUnchanged, SessionAccepts, FrameTypes
<1>7. CASE ConsumeLateClose
  BY <1>7, SessionUnchanged DEF ConsumeLateClose, Frame
<1>8. ASSUME NEW valid \in BOOLEAN, ConsumeClose(valid)
      PROVE  AbstractSession!Next
  BY <1>8, SessionCloses DEF ConsumeClose, Frame
<1>9. CASE ConsumeError
  <2>1. UNCHANGED <<m_current_msgs, taken, wire>>
    BY <1>9 DEF ConsumeError, Frame
  <2>2. CASE m_state = "open"
    BY <1>9, <2>1, <2>2, SessionCloses DEF ConsumeError
  <2>3. CASE m_state # "open"
    BY <1>9, <2>1, <2>3, SessionEnds DEF ConsumeError, Terminate
  <2> QED
    BY <2>2, <2>3
<1>10. CASE WriteNothing
  BY <1>10, SessionUnchanged DEF WriteNothing
<1>11. CASE WriteFrame
  <2>1. writing # "frames" /\ UNCHANGED <<m_state, wire>>
    BY <1>11, <1>0 DEF WriteFrame, WriterInv
  <2>2. Unsent' = Unsent
    BY <2>1, <1>11, <1>0, UnsentCut
  <2> QED
    BY <2>1, <2>2 DEF AbstractSession!vars
<1>12. CASE Transmit
  <2>1. m_state \in {"open", "closing"} /\ m_state' = m_state
    BY <1>12, <1>0 DEF Transmit, TypeOK, WriterInv, QuietInv, StagesInv
  <2>2. \A i \in 1..Len(wire) : wire[i] # Close
    <3>1. taken # Len(m_current_msgs)
      BY <1>12 DEF Transmit, TypeOK
    <3> QED
      BY <2>1, <3>1, <1>0 DEF TerminalInv, Terminal
  <2>3. Unsent # <<>> /\ wire' = Append(wire, Head(Unsent)) /\ Unsent' = Tail(Unsent)
    BY <1>12, UnsentTransmit
  <2> QED
    BY <2>1, <2>2, <2>3 DEF AbstractSession!Next, AbstractSession!Write,
       AbstractSession!Close, Close
<1>13. CASE FramesWritten
  <2>1. Unsent' = Unsent
    BY <1>13, UnsentReturns DEF FramesWritten
  <2>2. UNCHANGED <<m_state, wire>>
    BY <1>13 DEF FramesWritten, WriteReturns
  <2> QED
    BY <2>1, <2>2 DEF AbstractSession!vars
<1>14. CASE CloseWritten \/ WriteFails
  <2>1. m_state' = "closed" /\ wire' = wire /\ WriteReturns
    BY <1>14 DEF CloseWritten, WriteFails, WriteReturns, Terminate
  <2>2. \E k \in 0..Len(Unsent) : Unsent' = SubSeq(Unsent, k + 1, Len(Unsent))
    BY <2>1, UnsentReturns
  <2> QED
    BY <2>1, <2>2 DEF AbstractSession!Next, AbstractSession!End
<1>15. ASSUME NEW s \in Senders, SendPush(s)
       PROVE  AbstractSession!Next
  <2>1. msg[s] \in 1..MaxSends
    BY <1>15, <1>0, BoundsAssumption DEF SendPush, SendersInv, TypeOK
  <2>2. m_state # "connecting" /\ UNCHANGED <<m_state, m_current_msgs, taken, wire>>
    BY <1>15, <1>0 DEF SendPush, QuietInv, StagesInv
  <2>3. m_send_queue' = Append(m_send_queue, Data(msg[s]))
    BY <1>15 DEF SendPush
  <2> QED
    BY <2>1, <2>2, <2>3, SessionAccepts, FrameTypes
<1>16. CASE (\E s \in Senders : SendCheck(s) \/ SendPost(s)) \/ PeerLeaves \/ UNCHANGED vars
  BY <1>16, SessionUnchanged DEF SendCheck, SendPost, PeerLeaves
<1>17. CASE \E t \in Timers : Expire(t)
  BY <1>17, SessionUnchanged DEF Expire
<1>18. CASE \E t \in Timers : HandleTimeout(t)
  BY <1>18, SessionEnds DEF HandleTimeout, Terminate
<1> QED
  BY <1>1, <1>2, <1>3, <1>4, <1>5, <1>6, <1>7, <1>8, <1>9, <1>10, <1>11, <1>12, <1>13,
     <1>14, <1>15, <1>16, <1>17, <1>18
  DEF Next, Handshake, Read, Consume, Write, Send, Time

(***************************************************************************)
(* The connection implements Session: frames are written in the order they *)
(* were accepted in (write_push, write_pop), none after a close frame.     *)
(***************************************************************************)
THEOREM ConnectionImplementsSession == Spec => ImplementsSession
<1>1. Init => AbstractSession!Init
  <2>1. SubSeq(<<>>, 1, 0) = <<>> /\ <<>> \o <<>> = <<>> /\ Len(<<>>) = 0 /\ 0 + 1 = 1
    OBVIOUS
  <2>2. Init => Unsent = <<>>
    BY <2>1 DEF Init, Unsent
  <2> QED
    BY <2>2 DEF Init, AbstractSession!Init
<1>2. TypeOK /\ IInv /\ [Next]_vars => [AbstractSession!Next]_(AbstractSession!vars)
  BY SessionStep
<1> QED
  BY <1>1, <1>2, ConnectionInvariants, PTL
  DEF Spec, ImplementsSession, AbstractSession!Spec

-----------------------------------------------------------------------------

\* Every step of Session keeps the close frame the last one.
LEMMA SessionKeepsCloseLast ==
  ASSUME wire \in Seq(Frames), AbstractSession!CloseIsLast,
         AbstractSession!Next \/ UNCHANGED AbstractSession!vars
  PROVE  AbstractSession!CloseIsLast'
<1>1. CASE wire' = wire
  BY <1>1 DEF AbstractSession!CloseIsLast
<1>2. CASE AbstractSession!Write
  <2>1. wire' = Append(wire, Head(Unsent)) /\ \A i \in 1..Len(wire) : wire[i] # AbstractSession!Close
    BY <1>2 DEF AbstractSession!Write
  <2>2. Len(wire') = Len(wire) + 1 /\ \A i \in 1..Len(wire) : wire'[i] = wire[i]
    BY <2>1
  <2>3. \A i \in 1..Len(wire') : i \in 1..Len(wire) \/ i = Len(wire')
    BY <2>2
  <2> QED
    BY <2>1, <2>2, <2>3 DEF AbstractSession!CloseIsLast
<1> QED
  BY <1>1, <1>2 DEF AbstractSession!Next, AbstractSession!Establish, AbstractSession!Accept,
     AbstractSession!StartClosing, AbstractSession!End, AbstractSession!vars

(***************************************************************************)
(* Nothing follows a close frame on the wire, though send() and a second   *)
(* acknowledgement may be queued after it.                                 *)
(***************************************************************************)
THEOREM CloseIsTheLastFrame == Spec => []AbstractSession!CloseIsLast
<1>1. Init => AbstractSession!CloseIsLast
  BY DEF Init, AbstractSession!CloseIsLast
<1>2. TypeOK /\ IInv /\ AbstractSession!CloseIsLast /\ [Next]_vars => AbstractSession!CloseIsLast'
  BY SessionStep, SessionKeepsCloseLast DEF TypeOK
<1> QED
  BY <1>1, <1>2, ConnectionInvariants, PTL DEF Spec

-----------------------------------------------------------------------------
(* Nothing is waited for in vain.                                          *)

\* Every step leaves a session that is not closed attended.
LEMMA AttendedStep ==
  ASSUME TypeOK, IInv, Attended, [Next]_vars
  PROVE  Attended'
<1> USE DEF Attended, vars, sessionVars, readVars, writeVars, currentVars, queueVars, sendVars, timerVars
<1>0. StagesInv /\ QuietInv /\ WriterInv
  BY DEF IInv
<1>1. ASSUME m_state' = "closed"
      PROVE  Attended'
  BY <1>1
<1>2. ASSUME NEW ack \in BOOLEAN, SendCloseFrame(ack)
      PROVE  Attended'
  BY <1>2 DEF SendCloseFrame, SetTimer
<1>3. ASSUME UNCHANGED <<m_state, m_internal_state, waiting, expired, reading, writing>>,
             consuming' = consuming \/ consuming' = "rest"
      PROVE  Attended'
  BY <1>3
<1>4. CASE Start
  <2>1. m_state' = "connecting" /\ "open" \in waiting' /\ reading' = "request"
    BY <1>4, <1>0 DEF Start, SetTimer, StagesInv
  <2> QED
    BY <1>4, <2>1 DEF Start
<1>5. ASSUME NEW status \in Statuses, ReadRequest(status)
      PROVE  Attended'
  <2>1. m_internal_state = "READ_HTTP_REQUEST"
    BY <1>5, <1>0 DEF ReadRequest, StagesInv
  <2> QED
    BY <1>5, <2>1 DEF ReadRequest
<1>6. CASE Open
  BY <1>6 DEF Open
<1>7. CASE ReadRequestFails \/ EndOfHttp \/ ResponseFails \/ ReadFails \/ CloseWritten \/ WriteFails
  BY <1>7, <1>1 DEF ReadRequestFails, EndOfHttp, ResponseFails, ReadFails, CloseWritten,
     WriteFails, Terminate
<1>8. CASE \E t \in Timers : HandleTimeout(t)
  BY <1>8, <1>1 DEF HandleTimeout, Terminate
<1>9. CASE \E t \in Timers : Expire(t)
  <2>1. waiting' \cup expired' = waiting \cup expired
    BY <1>9 DEF Expire
  <2>2. UNCHANGED <<m_state, m_internal_state, reading, writing, consuming>>
    BY <1>9 DEF Expire
  <2> QED
    BY <2>1, <2>2
<1>10. CASE ReadFrames \/ AskForMore
  <2>1. m_state # "connecting" /\ m_internal_state # "USER_INIT"
    BY <1>10, <1>0 DEF ReadFrames, AskForMore, StagesInv
  <2>2. /\ UNCHANGED <<m_state, waiting, expired>>
        /\ reading' = "frames" \/ consuming' # "no"
    BY <1>10 DEF ReadFrames, AskForMore
  <2> QED
    BY <2>1, <2>2
<1>11. CASE ConsumeData \/ ConsumePing \/ ConsumeLateClose
  BY <1>11, <1>3 DEF ConsumeData, ConsumePing, ConsumeLateClose, Frame
<1>12. CASE ConsumeError
  BY <1>12, <1>1, <1>2 DEF ConsumeError, Terminate
<1>13. CASE \E valid \in BOOLEAN : ConsumeClose(valid)
  BY <1>13, <1>2 DEF ConsumeClose
<1>14. CASE WriteNothing \/ Transmit
  BY <1>14, <1>3 DEF WriteNothing, Transmit
<1>15. CASE WriteFrame \/ FramesWritten
  <2>1. m_state # "connecting"
    BY <1>15, <1>0, QuietFacts DEF WriteFrame, FramesWritten, QuietInv, StagesInv, TypeOK
  <2>2. UNCHANGED <<m_state, waiting, expired, reading, consuming>>
    BY <1>15 DEF WriteFrame, FramesWritten, WriteReturns
  <2> QED
    BY <2>1, <2>2
<1>16. CASE Send \/ PeerLeaves
  BY <1>16, <1>3 DEF Send, SendCheck, SendPush, SendPost, PeerLeaves
<1>17. CASE UNCHANGED vars
  BY <1>17, <1>3
<1> QED
  BY <1>4, <1>5, <1>6, <1>7, <1>8, <1>9, <1>10, <1>11, <1>12, <1>13, <1>14, <1>15, <1>16,
     <1>17
  DEF Next, Handshake, Read, Consume, Write, Time

(***************************************************************************)
(* Every session that is not closed has something outstanding that will    *)
(* end its phase: set_timer comes before every wait for the peer, and the  *)
(* pointer to the timer that is overwritten does not cancel it.            *)
(***************************************************************************)
THEOREM SessionsAreAttended == Spec => []Attended
<1>1. Init => Attended
  BY DEF Init, Attended
<1>2. TypeOK /\ IInv /\ Attended /\ [Next]_vars => Attended'
  BY AttendedStep
<1> QED
  BY <1>1, <1>2, ConnectionInvariants, PTL DEF Spec

(***************************************************************************)
(* The handlers are what keeps a connection alive (they hold a shared_ptr  *)
(* to it): it is not destroyed before its end, of which the program heard. *)
(***************************************************************************)
THEOREM ConnectionsLastToTheirEnd == Spec => []DestroyedAtEnd
<1>1. TypeOK /\ Attended => DestroyedAtEnd
  BY DEF TypeOK, Attended, DestroyedAtEnd, Released
<1> QED
  BY <1>1, SessionsAreAttended, ConnectionInvariants, PTL

-----------------------------------------------------------------------------
(* After the end.                                                          *)

\* What is left of a read and of a write beside the frames and the calls.
ReadRank ==
  CASE consuming = "rest" -> 3 [] consuming = "first" -> 1
    [] OTHER -> (CASE reading = "frames" -> 2 [] reading = "request" -> 1 [] OTHER -> 0)
WriteRank ==
  CASE writing = "none" -> 0 [] writing = "frames" /\ taken = Len(m_current_msgs) -> 3
    [] OTHER -> 1

\* The ranks are small numbers.
LEMMA RankTypes == ReadRank \in 0..3 /\ WriteRank \in {0, 1, 3}
BY DEF ReadRank, WriteRank

\* The measures in terms of the ranks.
LEMMA LeftByRank ==
  /\ ReadLeft = 4 * (MaxFrames - frames) + ReadRank
  /\ WriteLeft = 2 * posted + WriteRank
BY DEF ReadLeft, WriteLeft, ReadRank, WriteRank

\* Never more frames are read than MaxFrames.
LEMMA LeftIsNat ==
  ASSUME NEW f \in 0..MaxFrames, NEW r \in 0..3, NEW n \in Nat, NEW w \in {0, 1, 3}
  PROVE  4 * (MaxFrames - f) + r \in Nat /\ 2 * n + w \in Nat
BY BoundsAssumption

\* The measures are natural numbers.
LEMMA LeftTypes ==
  ASSUME TypeOK
  PROVE  ReadLeft \in Nat /\ WriteLeft \in Nat /\ \A t \in Timers : TimerLeft(t) \in Nat
<1>1. frames \in 0..MaxFrames /\ posted \in Nat
  BY DEF TypeOK
<1>2. \A t \in Timers : TimerLeft(t) \in Nat
  BY DEF TimerLeft
<1> QED
  BY <1>1, <1>2, RankTypes, LeftByRank, LeftIsNat

\* A timer that is cancelled, or is not touched, has no more to do.
LEMMA FewerTimers ==
  ASSUME waiting' \subseteq waiting, expired' \subseteq expired
  PROVE  \A t \in Timers : TimerLeft(t)' <= TimerLeft(t)
BY DEF TimerLeft

\* A timer that expires, or whose handler runs, has less to do, the other one no more.
LEMMA TimerStep ==
  ASSUME NEW t \in Timers,
         \/ t \in waiting /\ waiting' = waiting \ {t} /\ expired' = expired \cup {t}
         \/ t \in expired /\ waiting' \subseteq waiting /\ expired' = expired \ {t}
  PROVE  TimerLeft(t)' < TimerLeft(t) /\ \A u \in Timers : TimerLeft(u)' <= TimerLeft(u)
BY DEF TimerLeft

\* The io thread may read, write and time out: each has no more to do, and one less.
NoMore ==
  /\ ReadLeft' <= ReadLeft /\ WriteLeft' <= WriteLeft
  /\ \A t \in Timers : TimerLeft(t)' <= TimerLeft(t)
OneLess ==
  \/ ReadLeft' < ReadLeft \/ WriteLeft' < WriteLeft
  \/ \E t \in Timers : TimerLeft(t)' < TimerLeft(t)

\* So there is less to do in all.
LEMMA SumGoesDown ==
  ASSUME TypeOK, TypeOK', NoMore, OneLess
  PROVE  HandlersLeft' < HandlersLeft
<1>1. /\ ReadLeft \in Nat /\ WriteLeft \in Nat
      /\ \A t \in Timers : TimerLeft(t) \in Nat
  BY LeftTypes
<1>2. /\ ReadLeft' \in Nat /\ WriteLeft' \in Nat
      /\ \A t \in Timers : TimerLeft(t)' \in Nat
  <2>1. frames' \in 0..MaxFrames /\ posted' \in Nat
    BY DEF TypeOK
  <2>2. \A t \in Timers : TimerLeft(t)' \in Nat
    BY DEF TimerLeft
  <2>3. ReadRank' \in 0..3 /\ WriteRank' \in {0, 1, 3}
    BY DEF ReadRank, WriteRank
  <2>4. /\ ReadLeft' = 4 * (MaxFrames - frames') + ReadRank'
        /\ WriteLeft' = 2 * posted' + WriteRank'
    BY DEF ReadLeft, WriteLeft, ReadRank, WriteRank
  <2> QED
    BY <2>1, <2>2, <2>3, <2>4, LeftIsNat
<1>3. Timers = {"open", "close"}
  BY DEF Timers
<1>4. /\ HandlersLeft = ReadLeft + WriteLeft + TimerLeft("open") + TimerLeft("close")
      /\ HandlersLeft' = ReadLeft' + WriteLeft' + TimerLeft("open")' + TimerLeft("close")'
  BY DEF HandlersLeft
<1> QED
  BY <1>1, <1>2, <1>3, <1>4 DEF NoMore, OneLess

\* A frame weighs more than what is left of a read, whatever it is.
LEMMA FrameWeighsMore ==
  ASSUME NEW f \in 0..MaxFrames, NEW g \in 0..MaxFrames, NEW r \in 0..3, NEW q \in 0..3,
         g = f + 1 \/ (g = f /\ q < r)
  PROVE  /\ 4 * (MaxFrames - g) + q < 4 * (MaxFrames - f) + r
         /\ 4 * (MaxFrames - g) + q <= 4 * (MaxFrames - f) + r
BY BoundsAssumption

\* One more frame of the peer, or less to do for the read.
LEMMA ReadGoesOn ==
  ASSUME TypeOK, TypeOK',
         frames' = frames + 1 \/ (frames' = frames /\ ReadRank' < ReadRank)
  PROVE  ReadLeft' < ReadLeft /\ ReadLeft' <= ReadLeft
<1>1. frames \in 0..MaxFrames /\ frames' \in 0..MaxFrames
  BY DEF TypeOK
<1>2. ReadLeft' = 4 * (MaxFrames - frames') + ReadRank' /\ ReadRank' \in 0..3
  BY DEF ReadLeft, ReadRank
<1>3. ReadLeft = 4 * (MaxFrames - frames) + ReadRank /\ ReadRank \in 0..3
  BY RankTypes, LeftByRank
<1> QED
  BY <1>1, <1>2, <1>3, FrameWeighsMore

\* A call of write_frame weighs more than the write it sets up, a write of all frames
\* more than the call that follows it.
LEMMA CallWeighsMore ==
  ASSUME NEW p \in Nat, NEW c \in Nat, NEW w \in {0, 1, 3}, NEW v \in {0, 1, 3},
         \/ c = p - 1 /\ v <= w + 1
         \/ c = p /\ v < w
         \/ c = p + 1 /\ w = 3 /\ v = 0
  PROVE  2 * c + v < 2 * p + w /\ 2 * c + v <= 2 * p + w
OBVIOUS

\* One call of write_frame less, or less to do for the write.
LEMMA WriteGoesOn ==
  ASSUME TypeOK, TypeOK',
         \/ posted' = posted - 1 /\ WriteRank' <= WriteRank + 1
         \/ posted' = posted /\ WriteRank' < WriteRank
         \/ posted' = posted + 1 /\ WriteRank = 3 /\ WriteRank' = 0
  PROVE  WriteLeft' < WriteLeft /\ WriteLeft' <= WriteLeft
<1>1. posted \in Nat /\ posted' \in Nat
  BY DEF TypeOK
<1>2. WriteLeft' = 2 * posted' + WriteRank' /\ WriteRank' \in {0, 1, 3}
  BY DEF WriteLeft, WriteRank
<1>3. WriteLeft = 2 * posted + WriteRank /\ WriteRank \in {0, 1, 3}
  BY RankTypes, LeftByRank
<1> QED
  BY <1>1, <1>2, <1>3, CallWeighsMore

\* What is left of a read, of a write and of the timers depends on these variables only.
LEMMA LeftUnchanged ==
  /\ TypeOK /\ UNCHANGED <<frames, consuming, reading>> => ReadLeft' <= ReadLeft
  /\ TypeOK /\ UNCHANGED <<posted, writing, taken, m_current_msgs>> => WriteLeft' <= WriteLeft
<1>1. UNCHANGED <<frames, consuming, reading>> => ReadLeft' = ReadLeft
  BY DEF ReadLeft
<1>2. UNCHANGED <<posted, writing, taken, m_current_msgs>> => WriteLeft' = WriteLeft
  BY DEF WriteLeft
<1> QED
  BY <1>1, <1>2, LeftTypes

\* A handler that has to do with the peer's bytes leaves less to read.
LEMMA ClosedRead ==
  ASSUME TypeOK, TypeOK', m_state = "closed", ReadRequestFails \/ Read
  PROVE  m_state' = "closed" /\ pc' = pc /\ NoMore /\ OneLess
<1> USE DEF vars, sessionVars, readVars, writeVars, currentVars, queueVars, sendVars, timerVars
<1>2. CASE ReadRequestFails \/ ReadFails
  <2>1. m_state' = "closed" /\ pc' = pc /\ frames' = frames
    BY <1>2 DEF ReadRequestFails, ReadFails, Terminate
  <2>2. consuming = "no" /\ consuming' = "no" /\ reading # "none" /\ reading' = "none"
    BY <1>2 DEF ReadRequestFails, ReadFails, IoFree
  <2>a. ReadRank' = 0
    BY <2>2 DEF ReadRank
  <2>b. ReadRank \in {1, 2}
    BY <2>2 DEF ReadRank, TypeOK
  <2>3. ReadLeft' < ReadLeft /\ ReadLeft' <= ReadLeft
    BY <2>1, <2>a, <2>b, ReadGoesOn
  <2>4. WriteLeft' <= WriteLeft
    BY <1>2, LeftUnchanged DEF ReadRequestFails, ReadFails
  <2>5. \A t \in Timers : TimerLeft(t)' <= TimerLeft(t)
    BY <1>2, FewerTimers DEF ReadRequestFails, ReadFails, Terminate, CancelTimer
  <2> QED
    BY <2>1, <2>3, <2>4, <2>5 DEF NoMore, OneLess
<1>3. CASE ReadFrames \/ AskForMore
  <2>1. m_state' = "closed" /\ pc' = pc /\ frames' = frames
    BY <1>3 DEF ReadFrames, AskForMore
  <2>2. \/ /\ consuming = "no" /\ reading = "frames"
           /\ consuming' = "first" /\ reading' = "none"
        \/ consuming = "rest" /\ consuming' = "no" /\ reading' = "frames"
    BY <1>3 DEF ReadFrames, AskForMore, IoFree
  <2>a. \/ ReadRank = 2 /\ ReadRank' = 1
        \/ ReadRank = 3 /\ ReadRank' = 2
    <3>1. ASSUME consuming = "no", reading = "frames", consuming' = "first", reading' = "none"
          PROVE  ReadRank = 2 /\ ReadRank' = 1
      BY <3>1 DEF ReadRank
    <3>2. ASSUME consuming = "rest", consuming' = "no", reading' = "frames"
          PROVE  ReadRank = 3 /\ ReadRank' = 2
      <4>1. ReadRank = 3
        BY <3>2 DEF ReadRank
      <4>2. ReadRank' = 2
        BY <3>2 DEF ReadRank
      <4> QED
        BY <4>1, <4>2
    <3> QED
      BY <2>2, <3>1, <3>2
  <2>3. ReadLeft' < ReadLeft /\ ReadLeft' <= ReadLeft
    BY <2>1, <2>a, ReadGoesOn
  <2>4. WriteLeft' <= WriteLeft
    BY <1>3, LeftUnchanged DEF ReadFrames, AskForMore
  <2>5. \A t \in Timers : TimerLeft(t)' <= TimerLeft(t)
    BY <1>3, FewerTimers DEF ReadFrames, AskForMore
  <2> QED
    BY <2>1, <2>3, <2>4, <2>5 DEF NoMore, OneLess
<1>4. CASE Consume
  <2>1. frames' = frames + 1 /\ UNCHANGED <<writing, taken, m_current_msgs, pc>>
    BY <1>4 DEF Consume, ConsumeData, ConsumePing, ConsumeLateClose, ConsumeError,
       ConsumeClose, Frame
  <2>2. m_state' = "closed" /\ posted' = posted
    BY <1>4 DEF Consume, ConsumeData, ConsumePing, ConsumeLateClose, ConsumeError,
       ConsumeClose, Terminate
  <2>3. waiting' \subseteq waiting /\ expired' = expired
    BY <1>4 DEF Consume, ConsumeData, ConsumePing, ConsumeLateClose, ConsumeError,
       ConsumeClose, Terminate, CancelTimer
  <2>4. ReadLeft' < ReadLeft /\ ReadLeft' <= ReadLeft
    BY <2>1, ReadGoesOn
  <2>5. WriteLeft' <= WriteLeft
    BY <2>1, <2>2, LeftUnchanged
  <2>6. \A t \in Timers : TimerLeft(t)' <= TimerLeft(t)
    BY <2>3, FewerTimers
  <2> QED
    BY <2>1, <2>2, <2>4, <2>5, <2>6 DEF NoMore, OneLess
<1> QED
  BY <1>2, <1>3, <1>4 DEF Read

\* A handler that has to do with a write leaves less to write.
LEMMA ClosedWrite ==
  ASSUME TypeOK, TypeOK', IInv, m_state = "closed", ResponseFails \/ Write
  PROVE  m_state' = "closed" /\ pc' = pc /\ NoMore /\ OneLess
<1> USE DEF vars, sessionVars, readVars, writeVars, currentVars, queueVars, sendVars, timerVars
<1>1. /\ m_state' = "closed" /\ pc' = pc
      /\ UNCHANGED <<frames, consuming, reading>>
      /\ waiting' \subseteq waiting /\ expired' = expired
  BY DEF ResponseFails, Write, WriteNothing, WriteFrame, Transmit, FramesWritten,
     CloseWritten, WriteFails, WriteReturns, Terminate, CancelTimer
<1>2. ReadLeft' <= ReadLeft /\ \A t \in Timers : TimerLeft(t)' <= TimerLeft(t)
  BY <1>1, LeftUnchanged, FewerTimers
<1>3. ASSUME ResponseFails
      PROVE  WriteLeft' < WriteLeft /\ WriteLeft' <= WriteLeft
  <2>1. WriteRank = 1 /\ WriteRank' = 0 /\ posted' = posted
    BY <1>3 DEF ResponseFails, WriteRank
  <2> QED
    BY <2>1, WriteGoesOn
<1>4. ASSUME WriteNothing
      PROVE  WriteLeft' < WriteLeft /\ WriteLeft' <= WriteLeft
  <2>1. WriteRank' = WriteRank /\ posted' = posted - 1
    BY <1>4 DEF WriteNothing, WriteRank
  <2>2. WriteRank' <= WriteRank + 1
    BY <2>1, RankTypes
  <2> QED
    BY <2>1, <2>2, WriteGoesOn
<1>5. ASSUME WriteFrame
      PROVE  WriteLeft' < WriteLeft /\ WriteLeft' <= WriteLeft
  <2>1. WriteRank \in {0, 1}
    BY <1>5 DEF WriteFrame, IInv, WriterInv, WriteRank
  <2>2. PICK n \in 1..Len(m_send_queue) : m_current_msgs' = SubSeq(m_send_queue, 1, n)
    BY <1>5 DEF WriteFrame
  <2>3. Len(m_current_msgs') # 0
    BY <2>2, CutTypes DEF TypeOK
  <2>4. writing' = "frames" /\ taken' = 0 /\ posted' = posted - 1
    BY <1>5 DEF WriteFrame
  <2>5. WriteRank' = 1
    BY <2>3, <2>4 DEF WriteRank
  <2>6. WriteRank' <= WriteRank + 1
    BY <2>1, <2>5
  <2> QED
    BY <2>4, <2>6, WriteGoesOn
<1>6. ASSUME FramesWritten \/ CloseWritten \/ WriteFails
      PROVE  WriteLeft' < WriteLeft /\ WriteLeft' <= WriteLeft
  <2>1. WriteReturns /\ (FramesWritten => taken = Len(m_current_msgs))
    BY <1>6 DEF FramesWritten, CloseWritten, WriteFails
  <2>2. writing = "frames" /\ writing' = "none"
    BY <2>1 DEF WriteReturns
  <2>3. WriteRank' = 0
    BY <2>2 DEF WriteRank
  <2>4. WriteRank # 0 /\ (FramesWritten => WriteRank = 3)
    BY <2>1, <2>2 DEF WriteRank
  <2>5. posted' = posted \/ (posted' = posted + 1 /\ FramesWritten)
    BY <1>6 DEF FramesWritten, CloseWritten, WriteFails
  <2>6. WriteRank' < WriteRank
    BY <2>3, <2>4, RankTypes
  <2> QED
    BY <2>3, <2>4, <2>5, <2>6, WriteGoesOn
<1>7. WriteLeft' < WriteLeft /\ WriteLeft' <= WriteLeft
  <2>1. ~Transmit
    BY DEF Transmit
  <2> QED
    BY <1>3, <1>4, <1>5, <1>6, <2>1 DEF Write
<1> QED
  BY <1>1, <1>2, <1>7 DEF NoMore, OneLess

\* A timer that expires has its handler to run, and a handler that ran is gone.
LEMMA ClosedTime ==
  ASSUME TypeOK, m_state = "closed", NEW t \in Timers, Expire(t) \/ HandleTimeout(t)
  PROVE  m_state' = "closed" /\ pc' = pc /\ NoMore /\ OneLess
<1> USE DEF vars, sessionVars, readVars, writeVars, currentVars, queueVars, sendVars, timerVars
<1>1. /\ m_state' = "closed" /\ pc' = pc
      /\ UNCHANGED <<frames, consuming, reading, posted, writing, taken, m_current_msgs>>
  BY DEF Expire, HandleTimeout, Terminate
<1>2. ReadLeft' <= ReadLeft /\ WriteLeft' <= WriteLeft
  BY <1>1, LeftUnchanged
<1>3. \/ t \in waiting /\ waiting' = waiting \ {t} /\ expired' = expired \cup {t}
      \/ t \in expired /\ waiting' \subseteq waiting /\ expired' = expired \ {t}
  BY DEF Expire, HandleTimeout, Terminate, CancelTimer
<1>4. TimerLeft(t)' < TimerLeft(t) /\ \A u \in Timers : TimerLeft(u)' <= TimerLeft(u)
  BY <1>3, TimerStep
<1> QED
  BY <1>1, <1>2, <1>4 DEF NoMore, OneLess

\* A call of send() that came in time goes on, and no other one with it.
LEMMA ClosedSend ==
  ASSUME TypeOK, m_state = "closed", NEW s \in Senders, SendPush(s) \/ SendPost(s)
  PROVE  /\ m_state' = "closed"
         /\ SendLeft(pc'[s]) < SendLeft(pc[s])
         /\ pc' = [pc EXCEPT ![s] = pc'[s]]
<1> USE DEF vars, sessionVars
<1>0. SendLeft("idle") = 0 /\ SendLeft("pushed") = 1 /\ SendLeft("checked") = 2
  BY DEF SendLeft
<1>1. m_state' = "closed"
  BY DEF SendPush, SendPost
<1>2. PICK p \in {"idle", "pushed"} :
        /\ pc' = [pc EXCEPT ![s] = p]
        /\ pc[s] = "checked" \/ (pc[s] = "pushed" /\ p = "idle")
  BY DEF SendPush, SendPost
<1>3. pc'[s] = p
  BY <1>2 DEF TypeOK
<1>4. \/ SendLeft(pc[s]) = 2 /\ SendLeft(pc'[s]) \in {0, 1}
      \/ SendLeft(pc[s]) = 1 /\ SendLeft(pc'[s]) = 0
  BY <1>0, <1>2, <1>3
<1>5. SendLeft(pc'[s]) < SendLeft(pc[s])
  BY <1>4
<1> QED
  BY <1>1, <1>2, <1>3, <1>5

\* Every step after the end is one of these.
LEMMA ReleaseStep ==
  ASSUME TypeOK, TypeOK', IInv, Next, m_state = "closed"
  PROVE  GoesOnAfterTheEnd
<1> USE DEF GoesOnAfterTheEnd
<1>0. HandlersLeft \in Nat
  <2>1. ReadLeft \in Nat /\ WriteLeft \in Nat /\ \A t \in Timers : TimerLeft(t) \in Nat
    BY LeftTypes
  <2>2. "open" \in Timers /\ "close" \in Timers
    BY DEF Timers
  <2> QED
    BY <2>1, <2>2 DEF HandlersLeft
<1>1. ~Start /\ ~Open /\ ~EndOfHttp /\ \A status \in Statuses : ~ReadRequest(status)
  BY DEF Start, Open, EndOfHttp, ReadRequest, IInv, StagesInv
<1>2. \A s \in Senders : ~SendCheck(s)
  BY DEF SendCheck
<1>3. CASE ReadRequestFails \/ Read
  BY <1>0, <1>3, ClosedRead, SumGoesDown
<1>4. CASE ResponseFails \/ Write
  BY <1>0, <1>4, ClosedWrite, SumGoesDown
<1>5. CASE Time
  BY <1>0, <1>5, ClosedTime, SumGoesDown DEF Time
<1>6. CASE Send
  BY <1>0, <1>2, <1>6, ClosedSend DEF Send
<1>7. CASE PeerLeaves
  BY <1>0, <1>7 DEF PeerLeaves, sessionVars
<1> QED
  BY <1>1, <1>3, <1>4, <1>5, <1>6, <1>7 DEF Next, Handshake

(***************************************************************************)
(* After terminate() no handler sets up as much as it was itself: a read   *)
(* that fails is not repeated, the frames of one read are used up, a timer *)
(* is cancelled or expires, handle_write_frame after an error starts no    *)
(* write, and send() finds the session closed.  So a connection that ended *)
(* comes nearer to its destruction with every step but the peer's own.     *)
(***************************************************************************)
THEOREM ReleasesAdvance == Spec => ReleaseAdvances
<1>1. TypeOK /\ TypeOK' /\ IInv /\ [Next]_vars
        => [m_state = "closed" => GoesOnAfterTheEnd]_vars
  BY ReleaseStep
<1> QED
  BY <1>1, ConnectionInvariants, PTL DEF Spec, ReleaseAdvances
=============================================================================
