----------------------------- MODULE FrameReader -----------------------------
(***************************************************************************)
(* How websocketpp reads the frames of a peer (processors/hybi13.hpp, with *)
(* the loop of handle_read_frame around it): a read brings some bytes, not *)
(* whole frames, and consume() goes through them with a state that says    *)
(* which field is being read and how many bytes it still needs.            *)
(*                                                                         *)
(* One step is one round of the loop of consume().  A byte is not          *)
(* represented but by its place: the reader is at byte `at` of `frame`.    *)
(* Payloads are those of MessageStream, which the reader implements; an    *)
(* unmasked byte is "junk" unless the right byte of the right key was      *)
(* applied to it.  There is no permessage_deflate in this configuration.   *)
(*                                                                         *)
(* The size of a message is a size_t, and the sum that is compared with    *)
(* max_message_size wraps: a frame may announce nearly 2^64 bytes.  Its    *)
(* bytes are then read until one is refused or memory ends, so no message  *)
(* comes of it, but what is kept of it meanwhile has no limit.             *)
(***************************************************************************)
EXTENDS Naturals, Sequences

CONSTANTS
  BasicMax, ExtMax, MaxMessage,   \* as in MessageStream
  KeyLen,      \* the length of a masking key (4)
  Ext16,       \* the extra length bytes of code "16" (2)
  Ext64,       \* the extra length bytes of code "64" (8)
  SizeSpace,   \* the number of values of a size_t, and of a 64-bit length (2^64)
  MaxString,   \* the longest payload there is memory for
  MaxRead,     \* the most bytes of one read: connection_read_buffer_size
  Inputs       \* bound: the frames the peer sends

VARIABLES
  frame,            \* the frame whose bytes come next
  at,               \* how many of its bytes were consumed
  avail,            \* how many bytes of the last read are left: len - p
  m_state,          \* which field is being read
  m_bytes_needed,   \* how many bytes of it are missing
  m_cursor,         \* how many bytes of the extended header were read
  m_data_msg,       \* the data message under way: its msg_ptr, key and validator
  m_control_msg,    \* the control message under way
  m_current_msg,    \* which of the two the frame belongs to
  failed            \* consume() has reported an error, or has thrown

inputVars == <<frame, at, avail>>
headerVars == <<m_state, m_bytes_needed, m_cursor>>
messageVars == <<m_data_msg, m_control_msg, m_current_msg>>
vars == <<inputVars, headerVars, messageVars, failed>>

-----------------------------------------------------------------------------

(* What MessageStream sees of the variables.                               *)

Current == IF m_current_msg = "data" THEN m_data_msg ELSE m_control_msg

OfFrame == Len(frame.payload) - m_bytes_needed   \* bytes of the frame in its message

Sent(m) == [op |-> m.op, payload |-> m.payload]
NoData == [op |-> "none", payload |-> <<>>]

\* The data message under way has the bytes of the frames before this one.
UnderWay ==
  IF failed \/ m_data_msg.op = "none" \/ (m_state = "READY" /\ m_current_msg = "data")
  THEN NoData
  ELSE IF m_state # "APPLICATION" \/ m_current_msg # "data" THEN Sent(m_data_msg)
  ELSE IF frame.op # "continuation" THEN NoData
  ELSE [op |-> m_data_msg.op,
        payload |-> SubSeq(m_data_msg.payload, 1, Len(m_data_msg.payload) - OfFrame)]

Heard == IF m_state = "READY" /\ ~failed THEN Sent(Current) ELSE NoData

Stream == INSTANCE MessageStream WITH message <- UnderWay, heard <- Heard

Control(f) == Stream!Control(f)

ASSUME ReaderAssumption ==
  /\ BasicMax \in Nat /\ ExtMax \in Nat /\ MaxMessage \in Nat /\ BasicMax <= ExtMax
  /\ KeyLen \in Nat \ {0} /\ Ext16 \in Nat /\ Ext64 \in Nat /\ MaxRead \in Nat
  /\ MaxString \in Nat /\ SizeSpace \in Nat /\ MaxMessage <= MaxString /\ MaxString < SizeSpace
  /\ Inputs \subseteq Stream!Frames
  /\ \A f \in Inputs : Len(f.payload) < SizeSpace

\* get_header_len: the basic header, the extended length, the masking key.
LengthBytes(f) == CASE f.code = "basic" -> 0 [] f.code = "16" -> Ext16 [] f.code = "64" -> Ext64
HeaderLen(f) == 2 + LengthBytes(f) + (IF f.masked THEN KeyLen ELSE 0)
FrameLen(f) == HeaderLen(f) + Len(f.payload)

\* msg_metadata: a message, the key of its frame and by how many bytes it was shifted
\* (circshift: modulo its length), the validator.
NoMsg == [op |-> "none", payload |-> <<>>, key |-> 0, turn |-> 0, validator |-> "accept"]
NewMsg(f) == [NoMsg EXCEPT !.op = f.op, !.key = f.key]

Init ==
  /\ frame \in Inputs
  /\ at = 0
  /\ avail = 0
  /\ m_state = "HEADER_BASIC"
  /\ m_bytes_needed = 2
  /\ m_cursor = 0
  /\ m_data_msg = NoMsg
  /\ m_control_msg = NoMsg
  /\ m_current_msg = "data"
  /\ failed = FALSE

Least(m, n) == IF m < n THEN m ELSE n

-----------------------------------------------------------------------------
(* The rounds of the loop.                                                 *)

\* consume() goes on: no message is ready, and there are bytes, or none are needed.
Consuming == ~failed /\ m_state # "READY" /\ (avail > 0 \/ m_bytes_needed = 0)

\* A round uses up the next n bytes, within the frame.
Use(n) ==
  /\ avail' = avail - n
  /\ at' = at + n
  /\ UNCHANGED frame

\* copy_..._bytes: as many as are there, but not all that the field needs.
CopyPart ==
  /\ avail < m_bytes_needed
  /\ Use(avail)
  /\ m_bytes_needed' = m_bytes_needed - avail

\* Part of the basic header.
CopyBasicPart ==
  /\ Consuming /\ m_state = "HEADER_BASIC"
  /\ CopyPart
  /\ UNCHANGED <<m_state, m_cursor, messageVars, failed>>

\* The rest of the basic header: it is validated.
BasicHeader ==
  /\ Consuming /\ m_state = "HEADER_BASIC"
  /\ avail >= m_bytes_needed
  /\ Use(m_bytes_needed)
  /\ IF Stream!BasicOK(frame, m_data_msg.op # "none")
     THEN /\ m_state' = "HEADER_EXTENDED"
          /\ m_cursor' = 0
          /\ m_bytes_needed' = HeaderLen(frame) - 2
          /\ UNCHANGED failed
     ELSE failed' = TRUE /\ m_bytes_needed' = 0 /\ UNCHANGED <<m_state, m_cursor>>
  /\ UNCHANGED messageVars

\* Mutant: the bytes that come next overwrite these.
CopyExtendedPartAnew ==
  /\ Consuming /\ m_state = "HEADER_EXTENDED"
  /\ CopyPart
  /\ UNCHANGED <<m_state, m_cursor, messageVars, failed>>

\* Part of the extended header.
CopyExtendedPart ==
  /\ Consuming /\ m_state = "HEADER_EXTENDED"
  /\ CopyPart
  /\ m_cursor' = m_cursor + avail
  /\ UNCHANGED <<m_state, messageVars, failed>>

\* Mutant: the message goes on with the key of its first frame.
GoesOnInKey(m, f) == m

\* The data message goes on with the next frame, which has a key of its own.
GoesOn(m, f) == [m EXCEPT !.key = f.key, !.turn = 0]

\* The size that is compared with max_message_size: that of the first frame, or the sum of
\* two size_t, which wraps.
Announced ==
  IF m_data_msg.op = "none" THEN Len(frame.payload)
  ELSE (Len(m_data_msg.payload) + Len(frame.payload)) % SizeSpace

\* The rest of it: the length is validated, and the message is set up, or goes on
\* with the key of this frame.
ExtendedHeader ==
  /\ Consuming /\ m_state = "HEADER_EXTENDED"
  /\ avail >= m_bytes_needed
  /\ Use(m_bytes_needed)
  /\ m_cursor' = m_cursor + m_bytes_needed
  /\ m_bytes_needed' = Len(frame.payload)
  /\ \/ /\ Stream!LengthOK(frame) /\ Control(frame)
        /\ m_control_msg' = NewMsg(frame)
        /\ m_current_msg' = "control"
        /\ m_state' = "APPLICATION"
        /\ UNCHANGED <<m_data_msg, failed>>
     \/ /\ Stream!LengthOK(frame) /\ ~Control(frame)
        /\ Announced <= MaxMessage
        /\ m_data_msg' = IF m_data_msg.op = "none" THEN NewMsg(frame)
                         ELSE GoesOn(m_data_msg, frame)
        /\ m_current_msg' = "data"
        /\ m_state' = "APPLICATION"
        /\ UNCHANGED <<m_control_msg, failed>>
     \/ /\ ~Stream!LengthOK(frame) \/ (~Control(frame) /\ Announced > MaxMessage)
        /\ failed' = TRUE
        /\ UNCHANGED <<m_state, messageVars>>

\* byte_mask_circ: the i-th byte of the frame with the byte of the key whose turn it is.
Unmask(i, key, turn) ==
  IF /\ i \in (HeaderLen(frame) + 1)..FrameLen(frame)
     /\ key = frame.key
     /\ turn % KeyLen = (i - HeaderLen(frame) - 1) % KeyLen
  THEN frame.payload[i - HeaderLen(frame)] ELSE "junk"

\* utf8_validator: the state after a byte, and after several; "reject" is final.
After(byte) == IF byte = "lead" THEN "wait" ELSE "accept"
Decode(validator, s) ==
  IF \A i \in 1..Len(s) :
       /\ s[i] # "junk"
       /\ s[i] = "tail" <=> (IF i = 1 THEN validator ELSE After(s[i - 1])) = "wait"
  THEN (IF s = <<>> THEN validator ELSE After(s[Len(s)]))
  ELSE "reject"

\* process_payload_bytes: the message with n more bytes.
Longer(m, n) ==
  LET bytes == [i \in 1..n |-> Unmask(at + i, m.key, m.turn + i - 1)]
  IN  [m EXCEPT !.payload = @ \o bytes,
                !.turn = @ + n,
                !.validator = IF m.op = "text" THEN Decode(@, bytes) ELSE @]

SetCurrent(m) ==
  IF m_current_msg = "data" THEN m_data_msg' = m /\ UNCHANGED m_control_msg
  ELSE m_control_msg' = m /\ UNCHANGED m_data_msg

\* Some bytes of the payload, all that are needed or all that are there.
Payload(n) ==
  /\ Consuming /\ m_state = "APPLICATION"
  /\ n = Least(m_bytes_needed, avail)
  /\ SetCurrent(Longer(Current, n))
  /\ avail' = avail - n
  /\ UNCHANGED <<m_cursor, m_current_msg>>

\* append finds memory for n more bytes, as it always does for a control frame.  Where it
\* finds none it throws, and nothing in handle_read_frame catches that.
Room(n) == m_current_msg = "data" => Len(m_data_msg.payload) + n <= MaxString

\* The bytes fit, and go on with the text.
Valid(n) == Room(n) /\ Longer(Current, n).validator # "reject"

\* They are not all, or they are not a text, or do not fit.
PayloadPart ==
  /\ \E n \in 0..MaxRead :
       /\ Payload(n)
       /\ at' = at + n
       /\ n < m_bytes_needed \/ ~Valid(n)
       /\ IF Valid(n) THEN m_bytes_needed' = m_bytes_needed - n /\ UNCHANGED failed
          ELSE UNCHANGED m_bytes_needed /\ failed' = TRUE
  /\ UNCHANGED <<frame, m_state>>

\* The next frame of the peer.
NextFrame ==
  /\ frame' \in Inputs
  /\ at' = 0

\* reset_headers.
ResetHeaders ==
  /\ m_state' = "HEADER_BASIC"
  /\ m_bytes_needed' = 2

\* Mutant: the headers are not reset.
FrameEndsInPlace ==
  /\ Payload(m_bytes_needed)
  /\ Valid(m_bytes_needed) /\ ~frame.fin
  /\ m_bytes_needed' = 0
  /\ NextFrame
  /\ UNCHANGED <<m_state, failed>>

\* They are all, and more frames follow.
FrameEnds ==
  /\ Payload(m_bytes_needed)
  /\ Valid(m_bytes_needed) /\ ~frame.fin
  /\ ResetHeaders
  /\ NextFrame
  /\ UNCHANGED failed

\* They are all, and the message is finished: finalize_message.  It looks at the opcode of
\* this frame, so that the last character of a message in several frames may be cut.
MessageEnds ==
  /\ Payload(m_bytes_needed)
  /\ Valid(m_bytes_needed) /\ frame.fin
  /\ m_bytes_needed' = 0
  /\ IF frame.op = "text" /\ Longer(Current, m_bytes_needed).validator # "accept"
     THEN failed' = TRUE /\ at' = at + m_bytes_needed /\ UNCHANGED <<frame, m_state>>
     ELSE m_state' = "READY" /\ NextFrame /\ UNCHANGED failed

\* Mutant: both messages are given up.
GetMessageResets ==
  /\ m_state = "READY" /\ ~failed
  /\ m_data_msg' = NoMsg /\ m_control_msg' = NoMsg
  /\ ResetHeaders
  /\ UNCHANGED <<inputVars, m_cursor, m_current_msg, failed>>

\* get_message, and the call of the program, or of process_control_frame.
GetMessage ==
  /\ m_state = "READY" /\ ~failed
  /\ IF m_current_msg = "data" THEN m_data_msg' = NoMsg /\ UNCHANGED m_control_msg
     ELSE m_control_msg' = NoMsg /\ UNCHANGED m_data_msg
  /\ ResetHeaders
  /\ UNCHANGED <<inputVars, m_cursor, m_current_msg, failed>>

\* The bytes are used up: read_frame, and the transport brings more.
ReadMore ==
  /\ ~failed /\ m_state # "READY" /\ ~Consuming
  /\ avail' \in 1..MaxRead
  /\ UNCHANGED <<frame, at, headerVars, messageVars, failed>>

Consume ==
  \/ CopyBasicPart \/ BasicHeader \/ CopyExtendedPart \/ ExtendedHeader
  \/ PayloadPart \/ FrameEnds \/ MessageEnds \/ GetMessage

Next == Consume \/ ReadMore

Spec == Init /\ [][Next]_vars

\* The loop runs on until its bytes are used up; nothing makes the peer send more.
FairSpec == Spec /\ WF_vars(Consume)

-----------------------------------------------------------------------------

Message ==
  [op : Stream!Opcodes \cup {"none"}, payload : Seq(Stream!Bytes), key : Nat,
   turn : Nat, validator : {"accept", "wait", "reject"}]

\* Types; the payload of a message holds no byte that was unmasked wrongly.
TypeOK ==
  /\ frame \in Inputs
  /\ at \in 0..FrameLen(frame)
  /\ avail \in 0..MaxRead
  /\ m_state \in {"HEADER_BASIC", "HEADER_EXTENDED", "APPLICATION", "READY"}
  /\ m_bytes_needed \in Nat
  /\ m_cursor \in Nat
  /\ m_data_msg \in Message
  /\ m_control_msg \in Message
  /\ m_current_msg \in {"data", "control"}
  /\ failed \in BOOLEAN

\* The reader is where the frame is: fields begin and end with it.
Aligned ==
  CASE m_state = "HEADER_BASIC" -> at + m_bytes_needed = 2 /\ m_bytes_needed > 0
    [] m_state = "HEADER_EXTENDED" -> /\ at = 2 + m_cursor
                                      /\ at + m_bytes_needed = HeaderLen(frame)
    [] m_state = "APPLICATION" -> /\ at >= HeaderLen(frame)
                                  /\ at + m_bytes_needed = FrameLen(frame)
    [] m_state = "READY" -> at = 0 /\ m_bytes_needed = 0

\* The payload is read into a message of its kind, with the key of this frame, shifted
\* by the bytes that were read.
InKey ==
  m_state = "APPLICATION" =>
    /\ m_current_msg = "control" <=> Control(frame)
    /\ Current.op # "none"
    /\ Current.key = frame.key
    /\ Current.turn = OfFrame

\* A sum of sizes that is not refused.
Passes(size) == size <= MaxMessage \/ size >= SizeSpace

\* A message that is ready is there.  Between its frames a data message is within
\* max_message_size.  With all of the frame that is being read it is too, or it has so many
\* bytes that their number wrapped.
Kept ==
  /\ m_state = "READY" => Current.op # "none"
  /\ IF m_state = "APPLICATION" /\ m_current_msg = "data"
     THEN Passes(Len(m_data_msg.payload) + m_bytes_needed)
     ELSE Len(m_data_msg.payload) <= MaxMessage

\* Until an error is reported.  With TypeOK, this is inductive.
IInv == ~failed => Aligned /\ InKey /\ Kept

\* Whatever the reads, the messages are those of the frames.
ImplementsStream == Stream!Spec

\* What finalize_message says it ensures: "text messages end on a valid UTF8 code point".
\* It looks at the opcode of the last frame, which is that of a continuation in a text of
\* several frames (hybi13.hpp:537).
TextEndsOnCodePoint ==
  m_state = "READY" /\ ~failed /\ Current.op = "text" => Stream!Uncut(Current.payload)

\* How many rounds the loop makes at most with the bytes it has: four for every byte, for
\* an empty frame takes no bytes but those of its header.
RoundsLeft ==
  4 * avail + (CASE m_state = "HEADER_EXTENDED" -> 3 [] m_state = "APPLICATION" -> 2
                 [] m_state = "READY" -> 1 [] OTHER -> 0)

\* Every round brings the loop nearer to its end, also one that takes no byte, and more
\* bytes come only after the last of these.
ReadsAdvance ==
  [][/\ Consume => failed' \/ RoundsLeft' < RoundsLeft
     /\ avail' > avail => avail = 0]_vars

\* The loop ends: the bytes of every read are used up, or an error is reported.
ReadsEnd == avail > 0 ~> avail = 0 \/ failed

=============================================================================
