-------------------------- MODULE FrameReaderProofs --------------------------
(***************************************************************************)
(* Theorems about FrameReader, for all frames, limits and sizes of reads.  *)
(***************************************************************************)
EXTENDS FrameReader, SequenceTheorems, TLAPS

-----------------------------------------------------------------------------
(* Typing.                                                                 *)

\* What a frame of the peer is, and how long it is.
LEMMA FrameFacts ==
  ASSUME NEW f \in Inputs
  PROVE  /\ f.op \in Stream!Opcodes
         /\ f.fin \in BOOLEAN /\ f.masked \in BOOLEAN /\ f.rsv \in BOOLEAN
         /\ f.key \in Nat
         /\ f.payload \in Seq(Stream!Bytes)
         /\ Len(f.payload) \in Nat
         /\ HeaderLen(f) \in Nat /\ HeaderLen(f) >= 2
         /\ FrameLen(f) \in Nat
         /\ FrameLen(f) = HeaderLen(f) + Len(f.payload)
<1>1. f \in Stream!Frames
  BY ReaderAssumption
<1>2. /\ f.op \in Stream!Opcodes
      /\ f.fin \in BOOLEAN /\ f.masked \in BOOLEAN /\ f.rsv \in BOOLEAN
      /\ f.key \in Nat
      /\ f.code \in Stream!Codes
      /\ f.payload \in Seq(Stream!Bytes)
  BY <1>1 DEF Stream!Frames
<1>3. Len(f.payload) \in Nat
  BY <1>2, LenProperties
<1>4. LengthBytes(f) \in Nat
  BY <1>2, ReaderAssumption DEF LengthBytes, Stream!Codes
<1>5. HeaderLen(f) \in Nat /\ HeaderLen(f) >= 2
  BY <1>2, <1>4, ReaderAssumption DEF HeaderLen
<1> QED
  BY <1>2, <1>3, <1>5 DEF FrameLen

\* A message that has just begun.
LEMMA NewMsgFacts ==
  ASSUME NEW f \in Inputs
  PROVE  /\ NewMsg(f) \in Message
         /\ NewMsg(f).op = f.op /\ NewMsg(f).key = f.key
         /\ NewMsg(f).turn = 0 /\ NewMsg(f).payload = <<>>
         /\ NewMsg(f).validator = "accept"
<1>1. f.op \in Stream!Opcodes /\ f.key \in Nat
  BY FrameFacts
<1>2. <<>> \in Seq(Stream!Bytes)
  BY EmptySeq
<1> QED
  BY <1>1, <1>2 DEF NewMsg, NoMsg, Message

\* No message is a message.
LEMMA NoMsgFacts ==
  /\ NoMsg \in Message
  /\ NoMsg.op = "none" /\ NoMsg.payload = <<>> /\ Len(NoMsg.payload) = 0
<1>1. <<>> \in Seq(Stream!Bytes)
  BY EmptySeq
<1> QED
  BY <1>1 DEF NoMsg, Message

\* What a message is.
LEMMA MessageFacts ==
  ASSUME NEW m \in Message
  PROVE  /\ m.op \in Stream!Opcodes \cup {"none"}
         /\ m.payload \in Seq(Stream!Bytes) /\ Len(m.payload) \in Nat
         /\ m.key \in Nat /\ m.turn \in Nat
         /\ m.validator \in {"accept", "wait", "reject"}
BY LenProperties DEF Message

-----------------------------------------------------------------------------
(* Reading a payload.                                                      *)

\* The next n bytes of the payload of the frame.
Piece(n) == [i \in 1..n |-> frame.payload[OfFrame + i]]

\* The next bytes are there, and they are bytes.
LEMMA PieceFacts ==
  ASSUME frame \in Inputs, OfFrame \in Nat, NEW n \in Nat,
         OfFrame + n <= Len(frame.payload)
  PROVE  Piece(n) \in Seq(Stream!Bytes) /\ Len(Piece(n)) = n
<1>1. /\ frame.payload \in Seq(Stream!Bytes)
      /\ Len(frame.payload) \in Nat
  BY FrameFacts
<1>2. ASSUME NEW i \in 1..n
      PROVE  frame.payload[OfFrame + i] \in Stream!Bytes
  <2>1. OfFrame + i \in 1..Len(frame.payload)
    BY <1>1
  <2> QED
    BY <1>1, <2>1, ElementOfSeq
<1>3. Piece(n) \in [1..n -> Stream!Bytes]
  BY <1>2 DEF Piece
<1>4. Piece(n) \in Seq(Stream!Bytes)
  BY <1>3, SeqDef
<1> QED
  BY <1>3, <1>4, LenProperties

\* Where a payload is read, the reader is in the payload of the frame.
LEMMA InPayload ==
  ASSUME TypeOK, Aligned, m_state = "APPLICATION"
  PROVE  /\ OfFrame \in Nat
         /\ at = HeaderLen(frame) + OfFrame
         /\ OfFrame + m_bytes_needed = Len(frame.payload)
<1>1. frame \in Inputs /\ m_bytes_needed \in Nat /\ at \in Nat
  <2>1. frame \in Inputs /\ m_bytes_needed \in Nat /\ at \in 0..FrameLen(frame)
    BY DEF TypeOK
  <2> QED
    BY <2>1, FrameFacts
<1>2. at >= HeaderLen(frame) /\ at + m_bytes_needed = FrameLen(frame)
  BY DEF Aligned
<1> QED
  BY <1>1, <1>2, FrameFacts DEF OfFrame

\* The bytes are unmasked with the right bytes of the right key.
LEMMA UnmaskRight ==
  ASSUME TypeOK, Aligned, InKey, m_state = "APPLICATION",
         NEW n \in Nat, n <= m_bytes_needed
  PROVE  [i \in 1..n |-> Unmask(at + i, Current.key, Current.turn + i - 1)] = Piece(n)
<1>1. frame \in Inputs /\ m_bytes_needed \in Nat
  BY DEF TypeOK
<1>2. /\ HeaderLen(frame) \in Nat
      /\ Len(frame.payload) \in Nat
      /\ FrameLen(frame) = HeaderLen(frame) + Len(frame.payload)
  BY <1>1, FrameFacts
<1>3. /\ OfFrame \in Nat
      /\ at = HeaderLen(frame) + OfFrame
      /\ OfFrame + m_bytes_needed = Len(frame.payload)
  BY InPayload
<1>4. Current.key = frame.key /\ Current.turn = OfFrame
  BY DEF InKey
<1>5. ASSUME NEW i \in 1..n
      PROVE  Unmask(at + i, Current.key, Current.turn + i - 1) = frame.payload[OfFrame + i]
  <2>1. at + i \in (HeaderLen(frame) + 1)..FrameLen(frame)
    BY <1>1, <1>2, <1>3
  <2>2. Current.turn + i - 1 = (at + i) - HeaderLen(frame) - 1
    BY <1>2, <1>3, <1>4
  <2>3. (at + i) - HeaderLen(frame) = OfFrame + i
    BY <1>2, <1>3
  <2>4. (Current.turn + i - 1) % KeyLen = ((at + i) - HeaderLen(frame) - 1) % KeyLen
    BY <2>2, Zenon
  <2>5. Unmask(at + i, Current.key, Current.turn + i - 1) =
          frame.payload[(at + i) - HeaderLen(frame)]
    BY <1>4, <2>1, <2>4, Zenon DEF Unmask
  <2> QED
    BY <2>3, <2>5
<1> QED
  BY <1>5 DEF Piece

\* The message with n more bytes of the payload.
LEMMA LongerFacts ==
  ASSUME TypeOK, Aligned, InKey, m_state = "APPLICATION",
         NEW n \in Nat, n <= m_bytes_needed
  PROVE  /\ Longer(Current, n) \in Message
         /\ Longer(Current, n).op = Current.op
         /\ Longer(Current, n).key = Current.key
         /\ Longer(Current, n).turn = Current.turn + n
         /\ Longer(Current, n).payload = Current.payload \o Piece(n)
         /\ Longer(Current, n).validator =
              IF Current.op = "text" THEN Decode(Current.validator, Piece(n))
              ELSE Current.validator
<1>1. Current \in Message
  BY DEF TypeOK, Current
<1>2. Longer(Current, n) =
        [Current EXCEPT !.payload = @ \o Piece(n), !.turn = @ + n,
                        !.validator = IF Current.op = "text" THEN Decode(@, Piece(n)) ELSE @]
  BY UnmaskRight DEF Longer
<1>3. Piece(n) \in Seq(Stream!Bytes)
  BY InPayload, PieceFacts DEF TypeOK
<1>4. Current.payload \o Piece(n) \in Seq(Stream!Bytes)
  BY <1>1, <1>3, MessageFacts, ConcatProperties
<1>5. Decode(Current.validator, Piece(n)) \in {"accept", "wait", "reject"}
  BY <1>1, MessageFacts DEF Decode, After
<1>6. Current.turn + n \in Nat
  BY <1>1, MessageFacts
<1> QED
  BY <1>1, <1>2, <1>4, <1>5, <1>6 DEF Message

\* The message the bytes go to is the current one; the other one stays.
LEMMA SetCurrentFacts ==
  ASSUME NEW m, SetCurrent(m), m_current_msg' = m_current_msg
  PROVE  /\ Current' = m
         /\ m_current_msg = "data" => m_data_msg' = m /\ m_control_msg' = m_control_msg
         /\ m_current_msg # "data" => m_control_msg' = m /\ m_data_msg' = m_data_msg
BY DEF SetCurrent, Current

-----------------------------------------------------------------------------
(* The reader keeps its place.                                             *)

\* The numbers, and what else the steps say of the types.
Numbers ==
  /\ frame \in Inputs
  /\ at \in Nat /\ avail \in Nat /\ avail <= MaxRead
  /\ m_bytes_needed \in Nat /\ m_cursor \in Nat
  /\ HeaderLen(frame) \in Nat /\ HeaderLen(frame) >= 2
  /\ Len(frame.payload) \in Nat
  /\ FrameLen(frame) = HeaderLen(frame) + Len(frame.payload)
  /\ at <= FrameLen(frame)
  /\ m_data_msg \in Message /\ m_control_msg \in Message
  /\ Len(m_data_msg.payload) \in Nat
  /\ m_current_msg \in {"data", "control"}
  /\ Current \in Message
  /\ MaxRead \in Nat /\ MaxMessage \in Nat
  /\ MaxString \in Nat /\ MaxMessage <= MaxString
  /\ SizeSpace \in Nat /\ MaxString < SizeSpace

\* A sum that wraps is less than it was, and it wraps from SizeSpace on.
LEMMA WrappedSum ==
  ASSUME NEW k \in Nat
  PROVE  /\ k % SizeSpace <= MaxMessage => Passes(k)
         /\ k % SizeSpace > MaxMessage => k > MaxMessage
<1>1. SizeSpace \in Nat /\ SizeSpace > 0 /\ MaxMessage \in Nat
  BY ReaderAssumption
<1>2. k % SizeSpace \in 0..(SizeSpace - 1)
  BY <1>1
<1>3. CASE k < SizeSpace
  <2>1. k % SizeSpace = k
    BY <1>1, <1>3
  <2> QED
    BY <1>1, <2>1 DEF Passes
<1>4. CASE k >= SizeSpace
  BY <1>1, <1>2, <1>4 DEF Passes
<1> QED
  BY <1>1, <1>3, <1>4

\* A size within max_message_size passes, with all of it announced or with none.
LEMMA PassesWithin ==
  ASSUME NEW k \in Nat, k <= MaxMessage
  PROVE  Passes(k) /\ Passes(k + 0)
BY DEF Passes

\* The data message with the rest of this frame is within max_message_size.
Sized == m_current_msg = "data" => Len(m_data_msg.payload) + m_bytes_needed <= MaxMessage

\* The numbers follow from TypeOK.
LEMMA NumberTypes ==
  ASSUME TypeOK
  PROVE  Numbers
<1>1. frame \in Inputs
  BY DEF TypeOK
<1>2. /\ HeaderLen(frame) \in Nat /\ HeaderLen(frame) >= 2
      /\ Len(frame.payload) \in Nat
      /\ FrameLen(frame) = HeaderLen(frame) + Len(frame.payload)
  BY <1>1, FrameFacts
<1>3. /\ at \in 0..FrameLen(frame) /\ avail \in 0..MaxRead
      /\ m_bytes_needed \in Nat /\ m_cursor \in Nat
      /\ m_data_msg \in Message /\ m_control_msg \in Message
      /\ m_current_msg \in {"data", "control"}
  BY DEF TypeOK
<1>4. Len(m_data_msg.payload) \in Nat
  BY <1>3, MessageFacts
<1> QED
  BY <1>1, <1>2, <1>3, <1>4, ReaderAssumption DEF Current, Numbers

\* Part of the basic header.
LEMMA CopyBasicPartStep ==
  ASSUME TypeOK, IInv, CopyBasicPart
  PROVE  TypeOK' /\ IInv'
<1>0. Numbers
  BY NumberTypes
<1>1. /\ ~failed /\ m_state = "HEADER_BASIC" /\ avail < m_bytes_needed
      /\ avail' = avail - avail /\ at' = at + avail /\ frame' = frame
      /\ m_bytes_needed' = m_bytes_needed - avail
  BY DEF CopyBasicPart, CopyPart, Use, Consuming
<1>2. UNCHANGED <<m_state, m_cursor, m_data_msg, m_control_msg, m_current_msg, failed>>
  BY DEF CopyBasicPart, messageVars
<1>3. at + m_bytes_needed = 2
  BY <1>1 DEF IInv, Aligned
<1>4. /\ at' \in 0..FrameLen(frame') /\ avail' \in 0..MaxRead /\ m_bytes_needed' \in Nat
      /\ at' + m_bytes_needed' = 2 /\ m_bytes_needed' > 0
  BY <1>1, <1>3, <1>0 DEF Numbers
<1>5. TypeOK'
  BY <1>1, <1>2, <1>4 DEF TypeOK
<1>6. Aligned' /\ InKey'
  BY <1>1, <1>2, <1>4 DEF Aligned, InKey
<1>7. Kept'
  BY <1>1, <1>2 DEF IInv, Kept
<1> QED
  BY <1>5, <1>6, <1>7 DEF IInv

\* The rest of the basic header.
LEMMA BasicHeaderStep ==
  ASSUME TypeOK, IInv, BasicHeader
  PROVE  TypeOK' /\ IInv'
<1>0. Numbers
  BY NumberTypes
<1>1. /\ ~failed /\ m_state = "HEADER_BASIC" /\ avail >= m_bytes_needed
      /\ avail' = avail - m_bytes_needed /\ at' = at + m_bytes_needed /\ frame' = frame
  BY DEF BasicHeader, Use, Consuming
<1>2. UNCHANGED <<m_data_msg, m_control_msg, m_current_msg>>
  BY DEF BasicHeader, messageVars
<1>3. at + m_bytes_needed = 2
  BY <1>1 DEF IInv, Aligned
<1>4. at' \in 0..FrameLen(frame') /\ avail' \in 0..MaxRead
  BY <1>1, <1>3, <1>0 DEF Numbers
<1>5. CASE failed' = TRUE
  <2>1. m_bytes_needed' \in Nat /\ m_cursor' \in Nat /\ m_state' \in {"HEADER_BASIC", "HEADER_EXTENDED"}
    BY <1>1, <1>3, <1>0 DEF Numbers, BasicHeader
  <2>2. TypeOK'
    BY <1>1, <1>2, <1>4, <1>5, <2>1 DEF TypeOK
  <2> QED
    BY <1>5, <2>2 DEF IInv
<1>6. CASE failed' # TRUE
  <2>1. /\ m_state' = "HEADER_EXTENDED" /\ m_cursor' = 0
        /\ m_bytes_needed' = HeaderLen(frame) - 2 /\ failed' = failed
    BY <1>6 DEF BasicHeader
  <2>2. m_bytes_needed' \in Nat /\ at' = 2 + m_cursor' /\ at' + m_bytes_needed' = HeaderLen(frame')
    BY <1>1, <1>3, <2>1, <1>0 DEF Numbers
  <2>3. TypeOK'
    BY <1>1, <1>2, <1>4, <2>1, <2>2 DEF TypeOK
  <2>4. Aligned' /\ InKey'
    BY <2>1, <2>2 DEF Aligned, InKey
  <2>5. Kept'
    BY <1>1, <1>2, <2>1 DEF IInv, Kept
  <2> QED
    BY <2>3, <2>4, <2>5 DEF IInv
<1> QED
  BY <1>5, <1>6

\* Part of the extended header.
LEMMA CopyExtendedPartStep ==
  ASSUME TypeOK, IInv, CopyExtendedPart
  PROVE  TypeOK' /\ IInv'
<1>0. Numbers
  BY NumberTypes
<1>1. /\ ~failed /\ m_state = "HEADER_EXTENDED" /\ avail < m_bytes_needed
      /\ avail' = avail - avail /\ at' = at + avail /\ frame' = frame
      /\ m_bytes_needed' = m_bytes_needed - avail /\ m_cursor' = m_cursor + avail
  BY DEF CopyExtendedPart, CopyPart, Use, Consuming
<1>2. UNCHANGED <<m_state, m_data_msg, m_control_msg, m_current_msg, failed>>
  BY DEF CopyExtendedPart, messageVars
<1>3. at = 2 + m_cursor /\ at + m_bytes_needed = HeaderLen(frame)
  BY <1>1 DEF IInv, Aligned
<1>4. /\ at' \in 0..FrameLen(frame') /\ avail' \in 0..MaxRead
      /\ m_bytes_needed' \in Nat /\ m_cursor' \in Nat
      /\ at' = 2 + m_cursor' /\ at' + m_bytes_needed' = HeaderLen(frame')
  BY <1>1, <1>3, <1>0 DEF Numbers
<1>5. TypeOK'
  BY <1>1, <1>2, <1>4 DEF TypeOK
<1>6. Aligned' /\ InKey'
  BY <1>1, <1>2, <1>4 DEF Aligned, InKey
<1>7. Kept'
  BY <1>1, <1>2 DEF IInv, Kept
<1> QED
  BY <1>5, <1>6, <1>7 DEF IInv

\* The rest of the extended header.
LEMMA ExtendedHeaderStep ==
  ASSUME TypeOK, IInv, ExtendedHeader
  PROVE  TypeOK' /\ IInv'
<1>0. Numbers
  BY NumberTypes
<1>1. /\ ~failed /\ m_state = "HEADER_EXTENDED" /\ avail >= m_bytes_needed
      /\ avail' = avail - m_bytes_needed /\ at' = at + m_bytes_needed /\ frame' = frame
      /\ m_cursor' = m_cursor + m_bytes_needed
      /\ m_bytes_needed' = Len(frame.payload)
  BY DEF ExtendedHeader, Use, Consuming
<1>2. at + m_bytes_needed = HeaderLen(frame)
  BY <1>1 DEF IInv, Aligned
<1>3. /\ at' \in Nat /\ at' = HeaderLen(frame) /\ at' + m_bytes_needed' = FrameLen(frame)
      /\ at' <= FrameLen(frame)
      /\ avail' \in 0..MaxRead /\ m_cursor' \in Nat /\ m_bytes_needed' \in Nat
  <2>1. at' = HeaderLen(frame)
    BY <1>1, <1>2
  <2>2. FrameLen(frame) = HeaderLen(frame) + Len(frame.payload)
    BY <1>0 DEF Numbers
  <2>3. at' + m_bytes_needed' = FrameLen(frame)
    BY <1>1, <2>1, <2>2
  <2>4. HeaderLen(frame) \in Nat /\ Len(frame.payload) \in Nat /\ m_bytes_needed' \in Nat
    BY <1>0, <1>1 DEF Numbers
  <2>5. at' <= FrameLen(frame)
    BY <2>1, <2>2, <2>4
  <2>6. avail' \in 0..MaxRead /\ m_cursor' \in Nat
    BY <1>0, <1>1 DEF Numbers
  <2> QED
    BY <2>1, <2>3, <2>4, <2>5, <2>6
<1>4. at' \in 0..FrameLen(frame')
  BY <1>1, <1>3, <1>0 DEF Numbers
<1>5. OfFrame' = 0
  BY <1>1, <1>0 DEF OfFrame, Numbers
<1>6. Len(m_data_msg.payload) <= MaxMessage
  BY <1>1 DEF IInv, Kept
<1>7. CASE failed' = TRUE
  <2>1. UNCHANGED <<m_state, m_data_msg, m_control_msg, m_current_msg>>
    BY <1>1, <1>7 DEF ExtendedHeader, messageVars
  <2>2. TypeOK'
    BY <1>1, <1>3, <1>4, <1>7, <2>1 DEF TypeOK
  <2> QED
    BY <1>7, <2>2 DEF IInv
<1>8. CASE failed' # TRUE /\ Control(frame)
  <2>1. /\ m_control_msg' = NewMsg(frame) /\ m_current_msg' = "control"
        /\ m_state' = "APPLICATION" /\ m_data_msg' = m_data_msg /\ failed' = failed
    BY <1>8 DEF ExtendedHeader
  <2>2. TypeOK'
    BY <1>0, <1>1, <1>3, <1>4, <2>1, NewMsgFacts DEF TypeOK, Numbers
  <2>3. Aligned'
    BY <1>1, <1>3, <2>1 DEF Aligned
  <2>4. Control(frame)' /\ frame.op # "none"
    BY <1>1, <1>8 DEF Control, Stream!Control
  <2>5. InKey'
    BY <1>0, <1>1, <1>5, <2>1, <2>4, NewMsgFacts DEF InKey, Current, Numbers
  <2>6. Kept'
    BY <1>6, <2>1 DEF Kept
  <2> QED
    BY <2>2, <2>3, <2>5, <2>6 DEF IInv
<1>9. CASE failed' # TRUE /\ ~Control(frame)
  <2>1. /\ Announced <= MaxMessage
        /\ m_data_msg' = IF m_data_msg.op = "none" THEN NewMsg(frame) ELSE GoesOn(m_data_msg, frame)
        /\ m_current_msg' = "data" /\ m_state' = "APPLICATION"
        /\ m_control_msg' = m_control_msg /\ failed' = failed
    BY <1>9 DEF ExtendedHeader
  <2>2. /\ m_data_msg' \in Message
        /\ m_data_msg'.op # "none"
        /\ m_data_msg'.key = frame.key /\ m_data_msg'.turn = 0
        /\ Len(m_data_msg'.payload) \in Nat
        /\ Len(m_data_msg'.payload) = IF m_data_msg.op = "none" THEN 0 ELSE Len(m_data_msg.payload)
    <3>1. CASE m_data_msg.op = "none"
      <4>1. Len(m_data_msg'.payload) = 0
        BY <1>0, <2>1, <3>1, NewMsgFacts, EmptySeq DEF Numbers
      <4>2. frame.op # "none"
        BY <1>0, FrameFacts DEF Numbers, Stream!Opcodes
      <4> QED
        BY <1>0, <2>1, <3>1, <4>1, <4>2, NewMsgFacts DEF Numbers
    <3>2. CASE m_data_msg.op # "none"
      <4>1. m_data_msg' = [m_data_msg EXCEPT !.key = frame.key, !.turn = 0]
        BY <2>1, <3>2 DEF GoesOn
      <4>2. frame.key \in Nat /\ m_data_msg \in Message
        BY <1>0, FrameFacts DEF Numbers
      <4>3. m_data_msg' \in Message
        BY <4>1, <4>2 DEF Message
      <4>4. /\ m_data_msg'.op = m_data_msg.op /\ m_data_msg'.payload = m_data_msg.payload
            /\ m_data_msg'.key = frame.key /\ m_data_msg'.turn = 0
        BY <4>1, <4>2 DEF Message
      <4> QED
        BY <1>0, <3>2, <4>3, <4>4 DEF Numbers
    <3> QED
      BY <3>1, <3>2
  <2>3. TypeOK'
    BY <1>0, <1>1, <1>3, <1>4, <2>1, <2>2 DEF TypeOK, Numbers
  <2>4. Aligned'
    BY <1>1, <1>3, <2>1 DEF Aligned
  <2>5. ~Control(frame)'
    BY <1>1, <1>9 DEF Control, Stream!Control
  <2>6. InKey'
    BY <1>1, <1>5, <2>1, <2>2, <2>5 DEF InKey, Current
  <2>7. Passes(Len(m_data_msg'.payload) + m_bytes_needed')
    <3> DEFINE k == Len(m_data_msg.payload)
               n == Len(frame.payload)
    <3>1. k \in Nat /\ n \in Nat /\ MaxMessage \in Nat
      BY <1>0 DEF Numbers
    <3>2. Announced = IF m_data_msg.op = "none" THEN n ELSE (k + n) % SizeSpace
      BY DEF Announced
    <3>3. /\ Announced <= MaxMessage /\ m_bytes_needed' = n
          /\ Len(m_data_msg'.payload) = IF m_data_msg.op = "none" THEN 0 ELSE k
      BY <1>1, <2>1, <2>2
    <3> HIDE DEF k, n
    <3>4. CASE m_data_msg.op = "none"
      <4>1. n <= MaxMessage /\ Len(m_data_msg'.payload) = 0
        BY <3>2, <3>3, <3>4
      <4>2. Passes(n) /\ 0 + n = n
        BY <3>1, <4>1, PassesWithin
      <4> QED
        BY <3>3, <4>1, <4>2
    <3>5. CASE m_data_msg.op # "none"
      <4>1. (k + n) % SizeSpace <= MaxMessage /\ Len(m_data_msg'.payload) = k
        BY <3>2, <3>3, <3>5
      <4>2. k + n \in Nat
        BY <3>1
      <4>3. Passes(k + n)
        BY <4>1, <4>2, WrappedSum
      <4> QED
        BY <3>3, <4>1, <4>3
    <3> QED
      BY <3>4, <3>5
  <2>8. Kept'
    BY <2>1, <2>7, Zenon DEF Kept
  <2> QED
    BY <2>3, <2>4, <2>6, <2>8 DEF IInv
<1> QED
  BY <1>7, <1>8, <1>9

\* What a step with n bytes of the payload does to the messages.
LEMMA PayloadFacts ==
  ASSUME TypeOK, IInv, NEW n \in Nat, Payload(n)
  PROVE  /\ ~failed /\ m_state = "APPLICATION"
         /\ n <= m_bytes_needed /\ n <= avail
         /\ avail' = avail - n /\ avail' \in 0..MaxRead
         /\ m_cursor' = m_cursor /\ m_current_msg' = m_current_msg
         /\ Current' = Longer(Current, n)
         /\ m_data_msg' \in Message /\ m_control_msg' \in Message
         /\ Current'.op = Current.op /\ Current'.key = Current.key
         /\ Current'.turn = Current.turn + n
         /\ Current'.payload = Current.payload \o Piece(n)
         /\ m_current_msg = "data" => m_data_msg' = Current' /\ m_control_msg' = m_control_msg
         /\ m_current_msg # "data" => m_control_msg' = Current' /\ m_data_msg' = m_data_msg
         /\ Piece(n) \in Seq(Stream!Bytes) /\ Len(Piece(n)) = n
         /\ Len(Current'.payload) = Len(Current.payload) + n
<1>0. Numbers
  BY NumberTypes
<1>1. /\ ~failed /\ m_state = "APPLICATION"
      /\ n = Least(m_bytes_needed, avail)
      /\ SetCurrent(Longer(Current, n))
      /\ avail' = avail - n
      /\ m_cursor' = m_cursor /\ m_current_msg' = m_current_msg
  BY DEF Payload, Consuming
<1>2. n <= m_bytes_needed /\ n <= avail
  BY <1>0, <1>1 DEF Least, Numbers
<1>3. avail' \in 0..MaxRead
  BY <1>0, <1>1, <1>2 DEF Numbers
<1>4. Aligned /\ InKey
  BY <1>1 DEF IInv
<1>5. /\ Current' = Longer(Current, n)
      /\ m_current_msg = "data" => m_data_msg' = Longer(Current, n) /\ m_control_msg' = m_control_msg
      /\ m_current_msg # "data" => m_control_msg' = Longer(Current, n) /\ m_data_msg' = m_data_msg
  BY <1>1, SetCurrentFacts
<1>6. /\ Longer(Current, n) \in Message
      /\ Longer(Current, n).op = Current.op
      /\ Longer(Current, n).key = Current.key
      /\ Longer(Current, n).turn = Current.turn + n
      /\ Longer(Current, n).payload = Current.payload \o Piece(n)
  BY <1>1, <1>2, <1>4, LongerFacts
<1>7. OfFrame \in Nat /\ OfFrame + m_bytes_needed = Len(frame.payload)
  BY <1>1, <1>4, InPayload
<1>8. Piece(n) \in Seq(Stream!Bytes) /\ Len(Piece(n)) = n
  <2>1. OfFrame + n <= Len(frame.payload)
    BY <1>0, <1>2, <1>7 DEF Numbers
  <2> QED
    BY <1>0, <1>7, <2>1, PieceFacts DEF Numbers
<1>9. Len(Current.payload \o Piece(n)) = Len(Current.payload) + n
  <2>1. Current.payload \in Seq(Stream!Bytes)
    BY <1>0, MessageFacts DEF Numbers
  <2>2. Len(Current.payload \o Piece(n)) = Len(Current.payload) + Len(Piece(n))
    BY <1>8, <2>1, ConcatProperties
  <2> QED
    BY <1>8, <2>2
<1> QED
  BY <1>0, <1>1, <1>2, <1>3, <1>5, <1>6, <1>8, <1>9 DEF Numbers

\* The bytes that were needed for the data message are now in it.
LEMMA PayloadKept ==
  ASSUME TypeOK, IInv, NEW n \in Nat, Payload(n)
  PROVE  /\ m_current_msg = "data" =>
              /\ Passes(Len(m_data_msg'.payload) + (m_bytes_needed - n))
              /\ Len(m_data_msg'.payload) + (m_bytes_needed - n)
                   = Len(m_data_msg.payload) + m_bytes_needed
         /\ m_current_msg # "data" => Len(m_data_msg'.payload) <= MaxMessage
         /\ Len(m_data_msg'.payload) \in Nat
<1>0. Numbers
  BY NumberTypes
<1>1. /\ ~failed /\ m_state = "APPLICATION"
      /\ n <= m_bytes_needed
      /\ m_current_msg = "data" => m_data_msg' = Current'
      /\ m_current_msg # "data" => m_data_msg' = m_data_msg
      /\ Len(Current'.payload) = Len(Current.payload) + n
  BY PayloadFacts
<1>2. Kept
  BY <1>1 DEF IInv
<1>3. CASE m_current_msg = "data"
  <2>1. Passes(Len(m_data_msg.payload) + m_bytes_needed)
    BY <1>1, <1>2, <1>3 DEF Kept
  <2>2. Len(m_data_msg'.payload) = Len(m_data_msg.payload) + n
    BY <1>1, <1>3 DEF Current
  <2>3. Len(m_data_msg.payload) \in Nat /\ m_bytes_needed \in Nat
    BY <1>0 DEF Numbers
  <2>4. Len(m_data_msg'.payload) + (m_bytes_needed - n) = Len(m_data_msg.payload) + m_bytes_needed
    BY <2>2, <2>3
  <2>5. Len(m_data_msg'.payload) \in Nat
    BY <2>2, <2>3
  <2> QED
    BY <1>3, <2>1, <2>4, <2>5, Zenon
<1>4. CASE m_current_msg # "data"
  <2>1. Len(m_data_msg.payload) <= MaxMessage
    BY <1>1, <1>2, <1>4 DEF Kept
  <2> QED
    BY <1>0, <1>1, <1>4, <2>1 DEF Numbers
<1> QED
  BY <1>3, <1>4

\* A frame all of whose bytes fit is one of a message within max_message_size: what wraps
\* does not fit.
LEMMA WhatFitsIsSized ==
  ASSUME TypeOK, IInv, ~failed, m_state = "APPLICATION", Room(m_bytes_needed)
  PROVE  Sized
<1>0. Numbers
  BY NumberTypes
<1> SUFFICES ASSUME m_current_msg = "data"
             PROVE  Len(m_data_msg.payload) + m_bytes_needed <= MaxMessage
  BY DEF Sized
<1>1. Passes(Len(m_data_msg.payload) + m_bytes_needed)
  BY DEF IInv, Kept
<1>2. Len(m_data_msg.payload) + m_bytes_needed <= MaxString
  BY DEF Room
<1> QED
  BY <1>0, <1>1, <1>2 DEF Passes, Numbers

\* When all of a frame is in, its message is within max_message_size.
LEMMA FrameKept ==
  ASSUME TypeOK, IInv, Payload(m_bytes_needed), Valid(m_bytes_needed)
  PROVE  Len(m_data_msg'.payload) <= MaxMessage /\ Len(m_data_msg'.payload) \in Nat
<1>0. Numbers
  BY NumberTypes
<1>1. m_bytes_needed \in Nat /\ MaxMessage \in Nat
  BY <1>0 DEF Numbers
<1>2. ~failed /\ m_state = "APPLICATION"
  BY <1>1, PayloadFacts
<1>3. Sized
  BY <1>2, WhatFitsIsSized DEF Valid
<1>4. /\ m_current_msg = "data" =>
           Len(m_data_msg'.payload) + (m_bytes_needed - m_bytes_needed)
             = Len(m_data_msg.payload) + m_bytes_needed
      /\ m_current_msg # "data" => Len(m_data_msg'.payload) <= MaxMessage
      /\ Len(m_data_msg'.payload) \in Nat
  BY <1>1, PayloadKept
<1>5. CASE m_current_msg = "data"
  <2>1. Len(m_data_msg.payload) + m_bytes_needed <= MaxMessage
    BY <1>3, <1>5 DEF Sized
  <2> QED
    BY <1>1, <1>4, <1>5, <2>1
<1> QED
  BY <1>4, <1>5

\* Part of the payload, or bytes that are not a text or do not fit.
LEMMA PayloadPartStep ==
  ASSUME TypeOK, IInv, PayloadPart
  PROVE  TypeOK' /\ IInv'
<1>0. Numbers
  BY NumberTypes
<1>1. PICK n \in 0..MaxRead :
        /\ Payload(n)
        /\ at' = at + n
        /\ IF Valid(n) THEN m_bytes_needed' = m_bytes_needed - n /\ UNCHANGED failed
           ELSE UNCHANGED m_bytes_needed /\ failed' = TRUE
  BY DEF PayloadPart
<1>2. frame' = frame /\ m_state' = m_state
  BY DEF PayloadPart
<1>3. n \in Nat
  BY <1>0 DEF Numbers
<1>4. /\ ~failed /\ m_state = "APPLICATION"
      /\ n <= m_bytes_needed
      /\ avail' \in 0..MaxRead
      /\ m_cursor' = m_cursor /\ m_current_msg' = m_current_msg
      /\ m_data_msg' \in Message /\ m_control_msg' \in Message
      /\ Current'.op = Current.op /\ Current'.key = Current.key
      /\ Current'.turn = Current.turn + n
  BY <1>1, <1>3, PayloadFacts
<1>5. at >= HeaderLen(frame) /\ at + m_bytes_needed = FrameLen(frame)
  BY <1>4 DEF IInv, Aligned
<1>6. at' \in Nat /\ at' >= HeaderLen(frame) /\ at' <= FrameLen(frame)
  BY <1>0, <1>1, <1>3, <1>4, <1>5 DEF Numbers
<1>7. at' \in 0..FrameLen(frame')
  BY <1>0, <1>2, <1>6 DEF Numbers
<1>8. m_bytes_needed' \in Nat
  BY <1>0, <1>1, <1>3, <1>4 DEF Numbers
<1>9. TypeOK'
  <2>1. failed' \in BOOLEAN
    BY <1>1 DEF TypeOK
  <2> QED
    BY <1>0, <1>2, <1>4, <1>7, <1>8, <2>1 DEF TypeOK, Numbers
<1>10. ASSUME ~failed'
       PROVE  Aligned' /\ InKey' /\ Kept'
  <2>1. m_bytes_needed' = m_bytes_needed - n
    BY <1>1, <1>10
  <2>2. at' + m_bytes_needed' = FrameLen(frame)
    BY <1>0, <1>1, <1>3, <1>5, <2>1 DEF Numbers
  <2>3. Aligned'
    BY <1>2, <1>4, <1>6, <2>2 DEF Aligned
  <2>4. InKey
    BY <1>4 DEF IInv
  <2>5. OfFrame' = OfFrame + n
    BY <1>0, <1>2, <1>3, <2>1 DEF OfFrame, Numbers
  <2>6. Control(frame)' <=> Control(frame)
    BY <1>2 DEF Control, Stream!Control
  <2>7. InKey'
    BY <1>2, <1>4, <2>4, <2>5, <2>6 DEF InKey
  <2>8. Kept'
    <3>1. /\ m_current_msg = "data" => Passes(Len(m_data_msg'.payload) + m_bytes_needed')
          /\ m_current_msg # "data" => Len(m_data_msg'.payload) <= MaxMessage
      BY <1>1, <1>3, <2>1, PayloadKept
    <3> QED
      BY <1>2, <1>4, <3>1 DEF Kept
  <2> QED
    BY <2>3, <2>7, <2>8
<1> QED
  BY <1>9, <1>10 DEF IInv

\* The last byte of a frame that does not finish its message.
LEMMA FrameEndsStep ==
  ASSUME TypeOK, IInv, FrameEnds
  PROVE  TypeOK' /\ IInv'
<1>0. Numbers
  BY NumberTypes
<1>1. /\ Payload(m_bytes_needed) /\ Valid(m_bytes_needed)
      /\ m_state' = "HEADER_BASIC" /\ m_bytes_needed' = 2
      /\ frame' \in Inputs /\ at' = 0 /\ failed' = failed
  BY DEF FrameEnds, ResetHeaders, NextFrame
<1>2. m_bytes_needed \in Nat
  BY <1>0 DEF Numbers
<1>3. /\ avail' \in 0..MaxRead
      /\ m_cursor' = m_cursor /\ m_current_msg' = m_current_msg
      /\ m_data_msg' \in Message /\ m_control_msg' \in Message
  BY <1>1, <1>2, PayloadFacts
<1>4. Len(m_data_msg'.payload) <= MaxMessage
  BY <1>1, FrameKept
<1>5. 0 \in 0..FrameLen(frame')
  BY <1>1, FrameFacts
<1>6. TypeOK'
  BY <1>0, <1>1, <1>3, <1>5 DEF TypeOK, Numbers
<1>7. Aligned' /\ InKey'
  BY <1>1 DEF Aligned, InKey
<1>8. Kept'
  BY <1>1, <1>4 DEF Kept
<1> QED
  BY <1>6, <1>7, <1>8 DEF IInv

\* The last byte of a message.
LEMMA MessageEndsStep ==
  ASSUME TypeOK, IInv, MessageEnds
  PROVE  TypeOK' /\ IInv'
<1>0. Numbers
  BY NumberTypes
<1>1. Payload(m_bytes_needed) /\ Valid(m_bytes_needed) /\ m_bytes_needed' = 0
  BY DEF MessageEnds
<1>2. m_bytes_needed \in Nat
  BY <1>0 DEF Numbers
<1>3. /\ ~failed /\ m_state = "APPLICATION"
      /\ avail' \in 0..MaxRead
      /\ m_cursor' = m_cursor /\ m_current_msg' = m_current_msg
      /\ m_data_msg' \in Message /\ m_control_msg' \in Message
      /\ Current'.op = Current.op
  BY <1>1, <1>2, PayloadFacts
<1>4. Len(m_data_msg'.payload) <= MaxMessage
  BY <1>1, FrameKept
<1>5. CASE failed' = TRUE /\ at' = at + m_bytes_needed /\ UNCHANGED <<frame, m_state>>
  <2>1. at + m_bytes_needed = FrameLen(frame)
    BY <1>3 DEF IInv, Aligned
  <2>2. at' \in 0..FrameLen(frame')
    BY <1>0, <1>5, <2>1 DEF Numbers
  <2>3. TypeOK'
    BY <1>0, <1>1, <1>3, <1>5, <2>2 DEF TypeOK, Numbers
  <2> QED
    BY <1>5, <2>3 DEF IInv
<1>6. CASE m_state' = "READY" /\ NextFrame /\ UNCHANGED failed
  <2>1. frame' \in Inputs /\ at' = 0
    BY <1>6 DEF NextFrame
  <2>2. 0 \in 0..FrameLen(frame')
    BY <2>1, FrameFacts
  <2>3. TypeOK'
    BY <1>0, <1>1, <1>3, <1>6, <2>1, <2>2 DEF TypeOK, Numbers
  <2>4. Aligned' /\ InKey'
    BY <1>1, <1>6, <2>1 DEF Aligned, InKey
  <2>5. Current'.op # "none"
    BY <1>3 DEF IInv, InKey
  <2>6. Kept'
    BY <1>4, <1>6, <2>5 DEF Kept
  <2> QED
    BY <2>3, <2>4, <2>6 DEF IInv
<1> QED
  BY <1>5, <1>6 DEF MessageEnds

\* The message is handed over.
LEMMA GetMessageStep ==
  ASSUME TypeOK, IInv, GetMessage
  PROVE  TypeOK' /\ IInv'
<1>0. Numbers
  BY NumberTypes
<1>1. /\ m_state = "READY" /\ ~failed
      /\ m_state' = "HEADER_BASIC" /\ m_bytes_needed' = 2
      /\ UNCHANGED <<frame, at, avail, m_cursor, m_current_msg, failed>>
  BY DEF GetMessage, ResetHeaders, inputVars
<1>2. /\ m_data_msg' = m_data_msg \/ m_data_msg' = NoMsg
      /\ m_control_msg' = m_control_msg \/ m_control_msg' = NoMsg
  BY DEF GetMessage
<1>3. at = 0 /\ Len(m_data_msg.payload) <= MaxMessage
  <2>1. Aligned /\ Kept
    BY <1>1 DEF IInv
  <2> QED
    BY <1>1, <2>1 DEF Aligned, Kept
<1>4. m_data_msg' \in Message /\ m_control_msg' \in Message
  BY <1>0, <1>2, NoMsgFacts DEF Numbers
<1>5. Len(m_data_msg'.payload) <= MaxMessage
  BY <1>0, <1>2, <1>3, NoMsgFacts DEF Numbers
<1>6. TypeOK'
  BY <1>1, <1>4 DEF TypeOK
<1>7. Aligned' /\ InKey'
  BY <1>1, <1>3 DEF Aligned, InKey
<1>8. Kept'
  BY <1>1, <1>5 DEF Kept
<1> QED
  BY <1>6, <1>7, <1>8 DEF IInv

\* What the invariant is about besides the bytes that are there.
LEMMA ReaderUnchanged ==
  ASSUME IInv, UNCHANGED <<frame, at, headerVars, messageVars, failed>>
  PROVE  IInv'
BY DEF IInv, Aligned, InKey, Kept, Passes, Current, OfFrame, Control, Stream!Control,
       headerVars, messageVars

\* More bytes.
LEMMA ReadMoreStep ==
  ASSUME TypeOK, IInv, ReadMore
  PROVE  TypeOK' /\ IInv'
<1>1. avail' \in 1..MaxRead /\ UNCHANGED <<frame, at, headerVars, messageVars, failed>>
  BY DEF ReadMore
<1>2. IInv'
  BY <1>1, ReaderUnchanged
<1>3. avail' \in 0..MaxRead
  BY <1>1, ReaderAssumption
<1>4. TypeOK'
  BY <1>1, <1>3 DEF TypeOK, headerVars, messageVars
<1> QED
  BY <1>2, <1>4

\* The reader begins at a frame.
LEMMA ReaderInit ==
  ASSUME Init
  PROVE  TypeOK /\ IInv
<1>1. /\ frame \in Inputs /\ at = 0 /\ avail = 0 /\ m_state = "HEADER_BASIC"
      /\ m_bytes_needed = 2 /\ m_cursor = 0 /\ m_data_msg = NoMsg /\ m_control_msg = NoMsg
      /\ m_current_msg = "data" /\ failed = FALSE
  BY DEF Init
<1>2. 0 \in 0..FrameLen(frame) /\ 0 \in 0..MaxRead
  BY <1>1, FrameFacts, ReaderAssumption
<1>3. TypeOK
  BY <1>1, <1>2, NoMsgFacts DEF TypeOK
<1>4. Aligned /\ InKey
  BY <1>1 DEF Aligned, InKey
<1>5. Kept
  BY <1>1, NoMsgFacts, ReaderAssumption DEF Kept
<1> QED
  BY <1>3, <1>4, <1>5 DEF IInv

\* Every step keeps the invariant.
LEMMA ReaderStep ==
  ASSUME TypeOK, IInv, [Next]_vars
  PROVE  TypeOK' /\ IInv'
<1>1. CASE UNCHANGED vars
  <2>1. IInv'
    BY <1>1, ReaderUnchanged DEF vars, inputVars
  <2>2. TypeOK'
    BY <1>1 DEF TypeOK, vars, inputVars, headerVars, messageVars
  <2> QED
    BY <2>1, <2>2
<1> QED
  BY <1>1, CopyBasicPartStep, BasicHeaderStep, CopyExtendedPartStep, ExtendedHeaderStep,
     PayloadPartStep, FrameEndsStep, MessageEndsStep, GetMessageStep, ReadMoreStep
     DEF Next, Consume

\* The reader is at the field of the frame that m_state says, and unmasks with the key of
\* this frame; types.  Between its frames a data message is within max_message_size.  While
\* a frame is read the message is too when the frame is complete, or its size has wrapped,
\* which the sum of hybi13.hpp:457 allows for any SizeSpace.
THEOREM ReaderInvariants == Spec => [](TypeOK /\ IInv)
<1>1. Init => TypeOK /\ IInv
  BY ReaderInit
<1>2. TypeOK /\ IInv /\ [Next]_vars => (TypeOK /\ IInv)'
  BY ReaderStep
<1> QED
  BY <1>1, <1>2, PTL DEF Spec

\* The reader keeps its types.
THEOREM ReaderTypes == Spec => []TypeOK
BY ReaderInvariants, PTL

\* The reader keeps its place, and what is kept between frames is within max_message_size.
THEOREM ReaderKeepsPlace == Spec => []IInv
BY ReaderInvariants, PTL

-----------------------------------------------------------------------------
(* The end of the loop.                                                    *)

\* What a field costs besides the bytes it takes.
Rank(s) ==
  CASE s = "HEADER_EXTENDED" -> 3 [] s = "APPLICATION" -> 2 [] s = "READY" -> 1 [] OTHER -> 0

\* The order of the fields.
LEMMA RankFacts ==
  /\ Rank("HEADER_BASIC") = 0 /\ Rank("HEADER_EXTENDED") = 3
  /\ Rank("APPLICATION") = 2 /\ Rank("READY") = 1
  /\ \A s : Rank(s) \in 0..3
BY DEF Rank

\* RoundsLeft before and after a step.
LEMMA RoundsAreRanks ==
  /\ RoundsLeft = 4 * avail + Rank(m_state)
  /\ RoundsLeft' = 4 * avail' + Rank(m_state')
BY DEF RoundsLeft, Rank

\* Fewer bytes outweigh any field, and a field is outweighed by the one before.
LEMMA FewerRounds ==
  ASSUME NEW a \in Nat, NEW b \in Nat, NEW k \in 0..3, NEW l \in 0..3,
         b < a \/ (b = a /\ l < k)
  PROVE  4 * b + l < 4 * a + k
OBVIOUS

\* Every round takes a byte, or goes on to a later field of the frame; or it fails.
LEMMA RoundTakesByte ==
  ASSUME TypeOK, IInv, Consume, ~failed'
  PROVE  /\ avail \in Nat /\ avail' \in Nat
         /\ \/ avail' < avail
            \/ avail' = avail /\ Rank(m_state') < Rank(m_state)
<1>0. Numbers /\ avail \in Nat /\ m_bytes_needed \in Nat
  BY NumberTypes DEF Numbers, TypeOK
<1>1. CASE CopyBasicPart \/ CopyExtendedPart
  <2>1. avail > 0 /\ avail' = avail - avail
    BY <1>0, <1>1 DEF CopyBasicPart, CopyExtendedPart, CopyPart, Use, Consuming
  <2> QED
    BY <1>0, <2>1
<1>2. CASE BasicHeader
  <2>1. /\ m_bytes_needed > 0 /\ avail >= m_bytes_needed
        /\ avail' = avail - m_bytes_needed
    BY <1>2 DEF BasicHeader, Consuming, Use, IInv, Aligned
  <2> QED
    BY <1>0, <2>1
<1>3. CASE ExtendedHeader
  <2>1. /\ avail >= m_bytes_needed /\ avail' = avail - m_bytes_needed
        /\ m_state = "HEADER_EXTENDED"
    BY <1>3 DEF ExtendedHeader, Use
  <2>2. m_state' = "APPLICATION"
    BY <1>3 DEF ExtendedHeader
  <2> QED
    BY <1>0, <2>1, <2>2, RankFacts
<1>4. CASE PayloadPart
  <2>1. PICK n \in 0..MaxRead :
          /\ Payload(n)
          /\ n < m_bytes_needed \/ ~Valid(n)
          /\ ~Valid(n) => failed' = TRUE
    BY <1>4 DEF PayloadPart
  <2>2. Valid(n)
    BY <2>1, Zenon
  <2>3. n < m_bytes_needed /\ Payload(n)
    BY <2>1, <2>2, Zenon
  <2>4. /\ n = Least(m_bytes_needed, avail) /\ avail' = avail - n
        /\ avail > 0 \/ m_bytes_needed = 0
    BY <2>3, Zenon DEF Payload, Consuming
  <2>5. n = avail /\ avail > 0
    BY <1>0, <2>3, <2>4 DEF Least
  <2> QED
    BY <1>0, <2>4, <2>5
<1>5. CASE FrameEnds \/ MessageEnds
  <2>1. /\ m_state = "APPLICATION" /\ m_bytes_needed = Least(m_bytes_needed, avail)
        /\ avail' = avail - m_bytes_needed
    BY <1>5 DEF FrameEnds, MessageEnds, Payload
  <2>2. m_bytes_needed <= avail
    BY <1>0, <2>1 DEF Least
  <2>3. m_state' \in {"HEADER_BASIC", "READY"}
    BY <1>5 DEF FrameEnds, MessageEnds, ResetHeaders
  <2> QED
    BY <1>0, <2>1, <2>2, <2>3, RankFacts
<1>6. CASE GetMessage
  <2>1. /\ m_state = "READY" /\ m_state' = "HEADER_BASIC" /\ avail' = avail
    BY <1>6 DEF GetMessage, ResetHeaders, inputVars
  <2> QED
    BY <1>0, <2>1, RankFacts
<1> QED
  BY <1>1, <1>2, <1>3, <1>4, <1>5, <1>6 DEF Consume

\* A round brings no bytes.
LEMMA BytesAreTaken ==
  ASSUME TypeOK, Consume
  PROVE  ~(avail' > avail)
<1>0. Numbers /\ avail \in Nat /\ m_bytes_needed \in Nat
  BY NumberTypes DEF Numbers, TypeOK
<1>1. CASE CopyBasicPart \/ BasicHeader \/ CopyExtendedPart \/ ExtendedHeader
  <2>1. avail' = avail - avail \/ avail' = avail - m_bytes_needed
    BY <1>1 DEF CopyBasicPart, BasicHeader, CopyExtendedPart, ExtendedHeader, CopyPart, Use
  <2> QED
    BY <1>0, <2>1
<1>2. CASE PayloadPart
  BY <1>0, <1>2 DEF PayloadPart, Payload
<1>3. CASE FrameEnds \/ MessageEnds
  BY <1>0, <1>3 DEF FrameEnds, MessageEnds, Payload
<1>4. CASE GetMessage
  BY <1>0, <1>4 DEF GetMessage, inputVars
<1> QED
  BY <1>1, <1>2, <1>3, <1>4 DEF Consume

\* consume() gets to the end of the bytes of every read, and says so or fails: no round
\* leaves the loop where it was, and no bytes are read before the last are used up.
THEOREM ReadersAdvance == Spec => ReadsAdvance
<1>1. TypeOK /\ IInv /\ [Next]_vars =>
        [/\ Consume => failed' \/ RoundsLeft' < RoundsLeft
         /\ avail' > avail => avail = 0]_vars
  <2> SUFFICES ASSUME TypeOK, IInv, Next
               PROVE  /\ Consume => failed' \/ RoundsLeft' < RoundsLeft
                      /\ avail' > avail => avail = 0
    OBVIOUS
  <2>0. Rank(m_state) \in 0..3 /\ Rank(m_state') \in 0..3
    BY RankFacts
  <2>1. ASSUME Consume, ~failed' PROVE RoundsLeft' < RoundsLeft
    <3>1. /\ avail \in Nat /\ avail' \in Nat
          /\ avail' < avail \/ (avail' = avail /\ Rank(m_state') < Rank(m_state))
      BY <2>1, RoundTakesByte
    <3>2. 4 * avail' + Rank(m_state') < 4 * avail + Rank(m_state)
      BY <2>0, <3>1, FewerRounds
    <3> QED
      BY <3>2, RoundsAreRanks
  <2>2. ASSUME avail' > avail PROVE avail = 0
    <3>1. CASE ReadMore
      BY <3>1, NumberTypes DEF ReadMore, Consuming, TypeOK
    <3>2. CASE Consume
      BY <2>2, <3>2, BytesAreTaken
    <3> QED
      BY <3>1, <3>2 DEF Next
  <2> QED
    BY <2>1, <2>2
<1> QED
  BY <1>1, ReaderInvariants, PTL DEF Spec, ReadsAdvance

-----------------------------------------------------------------------------
(* Sequences: c is a message whose last k bytes are the first k of f, and  *)
(* d is c with the next ones of f.                                         *)

\* The part of a sequence before its last k elements.
LEMMA FrontFacts ==
  ASSUME NEW S, NEW c \in Seq(S), NEW k \in Nat, k <= Len(c)
  PROVE  /\ SubSeq(c, 1, Len(c) - k) \in Seq(S)
         /\ Len(SubSeq(c, 1, Len(c) - k)) = Len(c) - k
         /\ \A i \in 1..(Len(c) - k) : SubSeq(c, 1, Len(c) - k)[i] = c[i]
<1> DEFINE l == Len(c) - k
<1>1. l \in Nat /\ l <= Len(c)
  BY LenProperties
<1> HIDE DEF l
<1>2. \A i \in 1..l : c[i] \in S
  <2>1. Len(c) \in Nat
    BY LenProperties
  <2>2. \A i \in 1..l : i \in 1..Len(c)
    BY <1>1, <2>1
  <2> QED
    BY <2>2, ElementOfSeq
<1>3. /\ SubSeq(c, 1, l) \in Seq(S)
      /\ Len(SubSeq(c, 1, l)) = IF 1 <= l THEN l - 1 + 1 ELSE 0
      /\ \A i \in 1..(l - 1 + 1) : SubSeq(c, 1, l)[i] = c[1 + i - 1]
  BY <1>1, <1>2, SubSeqProperties
<1>4. Len(SubSeq(c, 1, l)) = l
  BY <1>1, <1>3
<1>5. \A i \in 1..l : SubSeq(c, 1, l)[i] = c[i]
  <2>1. l - 1 + 1 = l /\ \A i \in 1..l : 1 + i - 1 = i
    BY <1>1
  <2> QED
    BY <1>3, <2>1
<1> QED
  BY <1>3, <1>4, <1>5 DEF l

\* A difference, the other way round.
LEMMA Back ==
  ASSUME NEW d \in Nat, NEW f \in Nat, NEW l \in Nat, d - f = l
  PROVE  d = l + f
OBVIOUS

\* The elements of p go on in f where those of c end.
Joins(S, c, f, p, k) ==
  /\ c \in Seq(S) /\ f \in Seq(S) /\ p \in Seq(S)
  /\ k \in Nat /\ k <= Len(c) /\ k + Len(p) <= Len(f)
  /\ \A i \in 1..k : c[(Len(c) - k) + i] = f[i]
  /\ \A i \in 1..Len(p) : p[i] = f[k + i]

\* What c and d have in common with f.
Grows(S, c, f, p, k) ==
  LET d == c \o p
      j == k + Len(p)
      w == SubSeq(c, 1, Len(c) - k) \o f
  IN  /\ d \in Seq(S) /\ w \in Seq(S)
      /\ j \in Nat /\ j <= Len(d)
      /\ Len(d) - j = Len(c) - k
      /\ \A i \in 1..j : d[(Len(d) - j) + i] = f[i]
      /\ SubSeq(d, 1, Len(d) - j) = SubSeq(c, 1, Len(c) - k)
      /\ Len(d) <= Len(w) /\ \A i \in 1..Len(d) : w[i] = d[i]
      /\ j = Len(f) => d = w

\* The elements of p are the next ones of f.
LEMMA Growing ==
  ASSUME NEW S, NEW c, NEW f, NEW p, NEW k, Joins(S, c, f, p, k)
  PROVE  Grows(S, c, f, p, k)
<1>0. /\ c \in Seq(S) /\ f \in Seq(S) /\ p \in Seq(S)
      /\ k \in Nat /\ k <= Len(c) /\ k + Len(p) <= Len(f)
      /\ \A i \in 1..k : c[(Len(c) - k) + i] = f[i]
      /\ \A i \in 1..Len(p) : p[i] = f[k + i]
  BY DEF Joins
<1> DEFINE d == c \o p
           j == k + Len(p)
           l == Len(c) - k
           w == SubSeq(c, 1, l) \o f
<1>1. Len(c) \in Nat /\ Len(p) \in Nat /\ Len(f) \in Nat
  BY <1>0, LenProperties
<1>2. /\ d \in Seq(S)
      /\ Len(d) = Len(c) + Len(p)
      /\ \A i \in 1..(Len(c) + Len(p)) : d[i] = IF i <= Len(c) THEN c[i] ELSE p[i - Len(c)]
  BY <1>0, ConcatProperties
<1>3. /\ SubSeq(c, 1, l) \in Seq(S)
      /\ Len(SubSeq(c, 1, l)) = l
      /\ \A i \in 1..l : SubSeq(c, 1, l)[i] = c[i]
  BY <1>0, FrontFacts
<1>4. l \in Nat /\ l <= Len(c) /\ Len(c) = l + k
  BY <1>0, <1>1
<1>6. j \in Nat /\ j <= Len(d) /\ Len(d) - j = l
  BY <1>0, <1>1, <1>2, <1>4
<1> HIDE DEF l
<1>5. /\ w \in Seq(S)
      /\ Len(w) = l + Len(f)
      /\ \A i \in 1..(l + Len(f)) : w[i] = IF i <= l THEN SubSeq(c, 1, l)[i] ELSE f[i - l]
  <2> DEFINE h == SubSeq(c, 1, l)
  <2>1. h \in Seq(S) /\ Len(h) = l
    BY <1>3
  <2> HIDE DEF h
  <2>2. /\ h \o f \in Seq(S)
        /\ Len(h \o f) = Len(h) + Len(f)
        /\ \A i \in 1..(Len(h) + Len(f)) : (h \o f)[i] = IF i <= Len(h) THEN h[i] ELSE f[i - Len(h)]
    BY <1>0, <2>1, ConcatProperties
  <2> QED
    BY <2>1, <2>2 DEF h
<1> HIDE DEF d, w, j
<1>7. ASSUME NEW i \in 1..j
      PROVE  d[l + i] = f[i]
  <2>1. CASE i <= k
    <3>1. l + i \in 1..(Len(c) + Len(p)) /\ l + i <= Len(c) /\ i \in 1..k
      BY <1>0, <1>1, <1>4, <2>1
    <3>2. d[l + i] = c[l + i]
      BY <1>0, <1>2, <3>1
    <3> QED
      BY <1>0, <3>1, <3>2 DEF l
  <2>2. CASE i > k
    <3>1. /\ l + i \in 1..(Len(c) + Len(p)) /\ ~(l + i <= Len(c))
          /\ (l + i) - Len(c) = i - k /\ i - k \in 1..Len(p) /\ k + (i - k) = i
      BY <1>0, <1>1, <1>4, <2>2 DEF j
    <3>2. d[l + i] = p[(l + i) - Len(c)]
      BY <1>0, <1>2, <3>1
    <3>3. p[i - k] = f[k + (i - k)]
      BY <1>0, <3>1
    <3> QED
      BY <3>1, <3>2, <3>3
  <2> QED
    BY <1>0, <1>4, <2>1, <2>2
<1>8. ASSUME NEW i \in 1..l
      PROVE  d[i] = c[i]
  BY <1>0, <1>1, <1>2, <1>4
<1>9. SubSeq(d, 1, l) = SubSeq(c, 1, l)
  <2>1. /\ SubSeq(d, 1, l) \in Seq(S)
        /\ Len(SubSeq(d, 1, l)) = l
        /\ \A i \in 1..l : SubSeq(d, 1, l)[i] = d[i]
    BY <1>2, <1>6, FrontFacts
  <2> QED
    BY <1>3, <1>8, <2>1, SeqEqual
<1>10. Len(d) <= Len(w)
  BY <1>0, <1>1, <1>2, <1>4, <1>5
<1>11. ASSUME NEW i \in 1..Len(d)
       PROVE  w[i] = d[i]
  <2>1. i \in 1..(l + Len(f))
    BY <1>0, <1>1, <1>2, <1>4
  <2>2. CASE i <= l
    BY <1>3, <1>4, <1>5, <1>8, <2>1, <2>2
  <2>3. CASE i > l
    <3>1. i - l \in 1..j /\ l + (i - l) = i
      BY <1>0, <1>1, <1>2, <1>4, <2>3 DEF j
    <3>2. d[l + (i - l)] = f[i - l]
      BY <1>7, <3>1
    <3>3. w[i] = f[i - l]
      BY <1>4, <1>5, <2>1, <2>3
    <3> QED
      BY <3>1, <3>2, <3>3
  <2> QED
    BY <1>4, <2>2, <2>3
<1>12. ASSUME j = Len(f)
       PROVE  d = w
  <2>0. Len(d) \in Nat /\ Len(f) \in Nat /\ Len(d) - Len(f) = l
    BY <1>1, <1>2, <1>6, <1>12
  <2>1. Len(d) = Len(w)
    BY <1>4, <1>5, <2>0, Back
  <2> QED
    BY <1>2, <1>5, <1>11, <2>1, SeqEqual
<1> QED
  BY <1>2, <1>5, <1>6, <1>7, <1>9, <1>10, <1>11, <1>12 DEF d, w, l, j, Grows

-----------------------------------------------------------------------------
(* Texts: the state of the validator is what the last byte made it.        *)

\* The state of the validator after the bytes of s, from its first state.
StateOf(s) == IF s = <<>> THEN "accept" ELSE After(s[Len(s)])

\* The i-th byte of s is a second byte exactly if one is due.
InPlace(s, i) == s[i] = "tail" <=> (i > 1 /\ s[i - 1] = "lead")

\* The i-th byte that comes after a state of the validator is one it allows.
Allowed(v, p, i) == p[i] = "tail" <=> (IF i = 1 THEN v ELSE After(p[i - 1])) = "wait"

\* A text is one of which every byte is in its place.
LEMMA Utf8InPlace ==
  ASSUME NEW s
  PROVE  Stream!Utf8(s) <=> \A i \in 1..Len(s) : InPlace(s, i)
BY Zenon DEF Stream!Utf8, InPlace

\* The validator rejects bytes exactly if one of them is not allowed.
LEMMA DecodeAllowed ==
  ASSUME NEW v, v # "reject", NEW p \in Seq(Stream!Bytes)
  PROVE  /\ (\A i \in 1..Len(p) : Allowed(v, p, i)) =>
              Decode(v, p) = (IF p = <<>> THEN v ELSE After(p[Len(p)]))
         /\ ~(\A i \in 1..Len(p) : Allowed(v, p, i)) => Decode(v, p) = "reject"
         /\ Decode(v, p) = "reject" => ~(\A i \in 1..Len(p) : Allowed(v, p, i))
<1>1. \A i \in 1..Len(p) : p[i] # "junk"
  BY ElementOfSeq DEF Stream!Bytes
<1>2. (\A i \in 1..Len(p) : Allowed(v, p, i)) <=>
        (\A i \in 1..Len(p) : p[i] # "junk" /\ (p[i] = "tail" <=> (IF i = 1 THEN v ELSE After(p[i - 1])) = "wait"))
  BY <1>1, Zenon DEF Allowed
<1>3. (IF p = <<>> THEN v ELSE After(p[Len(p)])) # "reject"
  BY DEF After
<1> QED
  BY <1>2, <1>3, Zenon DEF Decode

\* More bytes of a text.
LEMMA Utf8Longer ==
  ASSUME NEW s \in Seq(Stream!Bytes), NEW p \in Seq(Stream!Bytes), Stream!Utf8(s)
  PROVE  /\ Decode(StateOf(s), p) # "reject" =>
              Stream!Utf8(s \o p) /\ StateOf(s \o p) = Decode(StateOf(s), p)
         /\ Decode(StateOf(s), p) = "reject" => ~Stream!Utf8(s \o p)
<1> DEFINE d == s \o p
           v == StateOf(s)
<1>1. Len(s) \in Nat /\ Len(p) \in Nat
  BY LenProperties
<1>2. /\ d \in Seq(Stream!Bytes)
      /\ Len(d) = Len(s) + Len(p)
      /\ \A i \in 1..(Len(s) + Len(p)) : d[i] = IF i <= Len(s) THEN s[i] ELSE p[i - Len(s)]
  BY ConcatProperties
<1>3. v # "reject" /\ (v = "wait" <=> (s # <<>> /\ s[Len(s)] = "lead"))
  BY DEF StateOf, After
<1>4. s # <<>> <=> Len(s) > 0
  BY <1>1, EmptySeq
<1> HIDE DEF d, v
<1>5. ASSUME NEW i \in 1..Len(s)
      PROVE  InPlace(d, i)
  <2>1. InPlace(s, i)
    BY Utf8InPlace
  <2>2. i \in 1..(Len(s) + Len(p)) /\ i <= Len(s)
    BY <1>1
  <2>3. d[i] = s[i]
    BY <1>2, <2>2
  <2>4. CASE i = 1
    BY <2>1, <2>3, <2>4 DEF InPlace
  <2>5. CASE i > 1
    <3>1. i - 1 \in 1..(Len(s) + Len(p)) /\ i - 1 <= Len(s)
      BY <1>1, <2>5
    <3>2. d[i - 1] = s[i - 1]
      BY <1>2, <3>1
    <3> QED
      BY <2>1, <2>3, <3>2 DEF InPlace
  <2> QED
    BY <2>4, <2>5
<1>6. ASSUME NEW i \in 1..Len(p)
      PROVE  InPlace(d, Len(s) + i) <=> Allowed(v, p, i)
  <2>1. Len(s) + i \in 1..(Len(s) + Len(p)) /\ ~(Len(s) + i <= Len(s)) /\ (Len(s) + i) - Len(s) = i
    BY <1>1
  <2>2. d[Len(s) + i] = p[i]
    BY <1>2, <2>1
  <2>3. CASE i = 1 /\ s = <<>>
    <3>1. ~(Len(s) + i > 1)
      BY <1>1, <1>4, <2>3
    <3>2. v # "wait"
      BY <1>3, <2>3
    <3> QED
      BY <2>2, <2>3, <3>1, <3>2 DEF InPlace, Allowed
  <2>4. CASE i = 1 /\ s # <<>>
    <3>1. /\ Len(s) + i > 1 /\ (Len(s) + i) - 1 = Len(s)
          /\ Len(s) \in 1..(Len(s) + Len(p)) /\ Len(s) <= Len(s)
      BY <1>1, <1>4, <2>4
    <3>2. d[Len(s)] = s[Len(s)]
      BY <1>2, <3>1
    <3>3. d[(Len(s) + i) - 1] = "lead" <=> v = "wait"
      BY <1>3, <2>4, <3>1, <3>2
    <3> QED
      BY <2>2, <2>4, <3>1, <3>3 DEF InPlace, Allowed
  <2>5. CASE i > 1
    <3>1. /\ Len(s) + i > 1 /\ (Len(s) + i) - 1 \in 1..(Len(s) + Len(p))
          /\ ~((Len(s) + i) - 1 <= Len(s)) /\ ((Len(s) + i) - 1) - Len(s) = i - 1
      BY <1>1, <2>5
    <3>2. d[(Len(s) + i) - 1] = p[i - 1]
      BY <1>2, <3>1
    <3>3. After(p[i - 1]) = "wait" <=> p[i - 1] = "lead"
      BY DEF After
    <3> QED
      BY <2>2, <2>5, <3>1, <3>2, <3>3 DEF InPlace, Allowed
  <2> QED
    BY <2>3, <2>4, <2>5
<1>7. Stream!Utf8(d) <=> \A i \in 1..Len(p) : Allowed(v, p, i)
  <2>1. ASSUME Stream!Utf8(d), NEW i \in 1..Len(p)
        PROVE  Allowed(v, p, i)
    <3>1. Len(s) + i \in 1..Len(d)
      BY <1>1, <1>2
    <3> QED
      BY <1>6, <2>1, <3>1, Utf8InPlace
  <2>2. ASSUME \A i \in 1..Len(p) : Allowed(v, p, i), NEW i \in 1..Len(d)
        PROVE  InPlace(d, i)
    <3>1. CASE i <= Len(s)
      BY <1>1, <1>5, <3>1
    <3>2. CASE i > Len(s)
      <4>1. i - Len(s) \in 1..Len(p) /\ Len(s) + (i - Len(s)) = i
        BY <1>1, <1>2, <3>2
      <4>2. InPlace(d, Len(s) + (i - Len(s)))
        BY <1>6, <2>2, <4>1
      <4> QED
        BY <4>1, <4>2
    <3> QED
      BY <1>1, <3>1, <3>2
  <2> QED
    BY <2>1, <2>2, Utf8InPlace
<1>8. StateOf(d) = IF p = <<>> THEN v ELSE After(p[Len(p)])
  <2>1. CASE p = <<>>
    <3>1. d = s
      BY <2>1, ConcatEmptySeq DEF d
    <3> QED
      BY <2>1, <3>1 DEF v
  <2>2. CASE p # <<>>
    <3>1. Len(p) > 0
      BY <1>1, <2>2, EmptySeq
    <3>2. /\ Len(d) \in 1..(Len(s) + Len(p)) /\ ~(Len(d) <= Len(s)) /\ Len(d) - Len(s) = Len(p)
          /\ Len(d) # 0
      BY <1>1, <1>2, <3>1
    <3>3. d[Len(d)] = p[Len(p)] /\ d # <<>>
      BY <1>2, <3>2, EmptySeq
    <3> QED
      BY <2>2, <3>3 DEF StateOf
  <2> QED
    BY <2>1, <2>2
<1> QED
  BY <1>3, <1>7, <1>8, DecodeAllowed DEF d, v

\* The beginning of a text is a text.
LEMMA Utf8Beginning ==
  ASSUME NEW S, NEW d \in Seq(S), NEW w \in Seq(S),
         Len(d) <= Len(w), \A i \in 1..Len(d) : w[i] = d[i], Stream!Utf8(w)
  PROVE  Stream!Utf8(d)
<1>1. Len(d) \in Nat /\ Len(w) \in Nat
  BY LenProperties
<1>2. ASSUME NEW i \in 1..Len(d)
      PROVE  InPlace(d, i)
  <2>1. i \in 1..Len(w) /\ (i > 1 => i - 1 \in 1..Len(d))
    BY <1>1
  <2>2. InPlace(w, i)
    BY <2>1, Utf8InPlace
  <2> QED
    BY <2>1, <2>2 DEF InPlace
<1> QED
  BY <1>2, Utf8InPlace

-----------------------------------------------------------------------------
(* The messages are those of the frames.                                   *)

\* A message up to now: a text is one so far, and the validator knows where it ends.
WellRead(m) ==
  IF m.op = "text" THEN Stream!Utf8(m.payload) /\ m.validator = StateOf(m.payload)
  ELSE m.validator = "accept"

\* What the data message holds.
DataInv ==
  /\ m_data_msg.op \in {"none", "text", "binary"}
  /\ m_data_msg.op = "none" => m_data_msg.payload = <<>>
  /\ WellRead(m_data_msg)

\* Behind the basic header, that header is right.
HeaderInv == m_state = "HEADER_EXTENDED" => Stream!BasicOK(frame, m_data_msg.op # "none")

\* In the payload, the header is right, and the message is that of the frame.
FrameInv ==
  m_state = "APPLICATION" =>
    /\ Stream!BasicOK(frame, frame.op = "continuation")
    /\ Stream!LengthOK(frame)
    /\ WellRead(Current)
    /\ frame.op # "continuation" => Current.op = frame.op /\ Len(Current.payload) = OfFrame

\* The message ends with the bytes of the frame that were read.
TailInv ==
  m_state = "APPLICATION" =>
    /\ OfFrame <= Len(Current.payload)
    /\ \A i \in 1..OfFrame :
         Current.payload[(Len(Current.payload) - OfFrame) + i] = frame.payload[i]

Meaning == ~failed => DataInv /\ HeaderInv /\ FrameInv /\ TailInv

\* The message without this frame, and with all of it.
Before == SubSeq(Current.payload, 1, Len(Current.payload) - OfFrame)
Whole == Before \o frame.payload

\* What a step with n bytes of the payload has read, of what the message will be.
Grown(n) ==
  /\ Current'.payload \in Seq(Stream!Bytes) /\ Whole \in Seq(Stream!Bytes)
  /\ OfFrame + n \in Nat /\ OfFrame + n <= Len(Current'.payload)
  /\ Len(Current'.payload) - (OfFrame + n) = Len(Current.payload) - OfFrame
  /\ \A i \in 1..(OfFrame + n) :
       Current'.payload[(Len(Current'.payload) - (OfFrame + n)) + i] = frame.payload[i]
  /\ SubSeq(Current'.payload, 1, Len(Current'.payload) - (OfFrame + n)) = Before
  /\ Len(Current'.payload) <= Len(Whole)
  /\ \A i \in 1..Len(Current'.payload) : Whole[i] = Current'.payload[i]
  /\ n = m_bytes_needed => Current'.payload = Whole

\* The bytes go to the end of the message.
LEMMA GrownFacts ==
  ASSUME TypeOK, IInv, Meaning, NEW n \in Nat, Payload(n)
  PROVE  Grown(n)
<1>0. Numbers
  BY NumberTypes
<1>1. /\ ~failed /\ m_state = "APPLICATION" /\ n <= m_bytes_needed
      /\ Current'.payload = Current.payload \o Piece(n)
      /\ Piece(n) \in Seq(Stream!Bytes) /\ Len(Piece(n)) = n
  BY PayloadFacts
<1>2. OfFrame \in Nat /\ OfFrame + m_bytes_needed = Len(frame.payload)
  BY <1>1, InPayload DEF IInv
<1>3. /\ OfFrame <= Len(Current.payload)
      /\ \A i \in 1..OfFrame :
           Current.payload[(Len(Current.payload) - OfFrame) + i] = frame.payload[i]
  BY <1>1, Zenon DEF Meaning, TailInv
<1>4. Current.payload \in Seq(Stream!Bytes) /\ frame.payload \in Seq(Stream!Bytes)
  BY <1>0, MessageFacts, FrameFacts DEF Numbers
<1>5. OfFrame + Len(Piece(n)) <= Len(frame.payload)
  BY <1>0, <1>1, <1>2 DEF Numbers
<1>6. \A i \in 1..Len(Piece(n)) : Piece(n)[i] = frame.payload[OfFrame + i]
  BY <1>1 DEF Piece
<1>7. n = m_bytes_needed => OfFrame + n = Len(frame.payload)
  BY <1>2
<1> DEFINE c == Current.payload
           f == frame.payload
           p == Piece(n)
           k == OfFrame
<1>8. Joins(Stream!Bytes, c, f, p, k)
  BY <1>1, <1>2, <1>3, <1>4, <1>5, <1>6, Zenon DEF Joins
<1> HIDE DEF c, f, p, k
<1>9. Grows(Stream!Bytes, c, f, p, k)
  BY <1>8, Growing, Zenon
<1>10. /\ Current'.payload = c \o p
       /\ k + Len(p) = OfFrame + n
       /\ Before = SubSeq(c, 1, Len(c) - k)
       /\ Whole = SubSeq(c, 1, Len(c) - k) \o f
       /\ n = m_bytes_needed => k + Len(p) = Len(f)
  BY <1>1, <1>7, Zenon DEF c, f, p, k, Before, Whole
<1> QED
  BY <1>9, <1>10, Zenon DEF Grown, Grows, c, f, k

\* Bytes that are accepted keep a text one; bytes that are rejected are those of a message
\* that is no text; and what does not fit is longer than max_message_size.
LEMMA ReadRight ==
  ASSUME TypeOK, IInv, Meaning, NEW n \in Nat, Payload(n)
  PROVE  /\ Valid(n) => WellRead(Current')
         /\ ~Valid(n) => ~Sized \/ (Current.op = "text" /\ ~Stream!Utf8(Whole))
<1>0. Numbers
  BY NumberTypes
<1>1. /\ ~failed /\ m_state = "APPLICATION" /\ n <= m_bytes_needed
      /\ Current' = Longer(Current, n)
      /\ Current'.op = Current.op
      /\ Current'.payload = Current.payload \o Piece(n)
      /\ Piece(n) \in Seq(Stream!Bytes)
  BY PayloadFacts
<1>2. Current'.validator = IF Current.op = "text" THEN Decode(Current.validator, Piece(n))
                           ELSE Current.validator
  BY <1>1, LongerFacts DEF IInv
<1>3. WellRead(Current)
  BY <1>1 DEF Meaning, FrameInv
<1>4. CASE Room(n) /\ Current.op # "text"
  BY <1>1, <1>2, <1>3, <1>4 DEF WellRead, Valid
<1>5. CASE Room(n) /\ Current.op = "text"
  <2> DEFINE s == Current.payload
             p == Piece(n)
  <2>1. s \in Seq(Stream!Bytes) /\ p \in Seq(Stream!Bytes) /\ Stream!Utf8(s)
    BY <1>0, <1>1, <1>3, <1>5, MessageFacts DEF WellRead, Numbers
  <2>2. Current.validator = StateOf(s)
    BY <1>3, <1>5 DEF WellRead
  <2> HIDE DEF s, p
  <2>3. /\ Decode(StateOf(s), p) # "reject" =>
             Stream!Utf8(s \o p) /\ StateOf(s \o p) = Decode(StateOf(s), p)
        /\ Decode(StateOf(s), p) = "reject" => ~Stream!Utf8(s \o p)
    BY <2>1, Utf8Longer
  <2>4. Current'.payload = s \o p /\ Current'.validator = Decode(StateOf(s), p)
    BY <1>1, <1>2, <1>5, <2>2 DEF s, p
  <2>5. ASSUME Valid(n)
        PROVE  WellRead(Current')
    <3>1. Current'.validator # "reject"
      BY <1>1, <2>5 DEF Valid
    <3>2. Stream!Utf8(Current'.payload) /\ Current'.validator = StateOf(Current'.payload)
      BY <2>3, <2>4, <3>1
    <3> QED
      BY <1>1, <1>5, <3>2 DEF WellRead
  <2>6. ASSUME ~Valid(n)
        PROVE  ~Stream!Utf8(Whole)
    <3>1. Current'.validator = "reject"
      BY <1>1, <1>5, <2>6 DEF Valid
    <3>2. ~Stream!Utf8(Current'.payload)
      BY <2>3, <2>4, <3>1
    <3>3. /\ Current'.payload \in Seq(Stream!Bytes) /\ Whole \in Seq(Stream!Bytes)
          /\ Len(Current'.payload) <= Len(Whole)
          /\ \A i \in 1..Len(Current'.payload) : Whole[i] = Current'.payload[i]
      BY GrownFacts DEF Grown
    <3> QED
      BY <3>2, <3>3, Utf8Beginning
  <2> QED
    BY <1>5, <2>5, <2>6
<1>6. CASE ~Room(n)
  <2>1. m_current_msg = "data" /\ ~(Len(m_data_msg.payload) + n <= MaxString)
    BY <1>6 DEF Room
  <2>2. ~(Len(m_data_msg.payload) + m_bytes_needed <= MaxMessage)
    BY <1>0, <1>1, <2>1 DEF Numbers
  <2> QED
    BY <1>6, <2>1, <2>2 DEF Sized, Valid
<1> QED
  BY <1>4, <1>5, <1>6

\* The part of a sequence before nothing, and before all of it.
LEMMA FrontEnds ==
  ASSUME NEW S, NEW c \in Seq(S)
  PROVE  /\ SubSeq(c, 1, Len(c) - 0) = c
         /\ SubSeq(c, 1, Len(c) - Len(c)) = <<>>
<1>1. Len(c) \in Nat /\ Len(c) - 0 = Len(c) /\ Len(c) - Len(c) = 0
  BY LenProperties
<1>2. SubSeq(c, 1, Len(c) - 0) = c
  <2>1. /\ SubSeq(c, 1, Len(c) - 0) \in Seq(S)
        /\ Len(SubSeq(c, 1, Len(c) - 0)) = Len(c) - 0
        /\ \A i \in 1..(Len(c) - 0) : SubSeq(c, 1, Len(c) - 0)[i] = c[i]
    BY <1>1, FrontFacts
  <2> QED
    BY <1>1, <2>1, SeqEqual
<1>3. SubSeq(c, 1, Len(c) - Len(c)) = <<>>
  <2>1. /\ SubSeq(c, 1, Len(c) - Len(c)) \in Seq(S)
        /\ Len(SubSeq(c, 1, Len(c) - Len(c))) = Len(c) - Len(c)
    BY <1>1, FrontFacts
  <2> QED
    BY <1>1, <2>1, EmptySeq
<1> QED
  BY <1>2, <1>3

\* What the stream knows while the payload of a frame is read: the message without it.
LEMMA InPayloadStream ==
  ASSUME TypeOK, IInv, Meaning, ~failed, m_state = "APPLICATION"
  PROVE  /\ Heard = NoData
         /\ m_current_msg = "data" <=> ~Control(frame)
         /\ frame.op = "continuation" => m_current_msg = "data"
         /\ m_current_msg = "data" =>
              UnderWay = IF frame.op = "continuation" THEN [op |-> Current.op, payload |-> Before]
                         ELSE NoData
         /\ m_current_msg # "data" =>
              UnderWay = IF m_data_msg.op = "none" THEN NoData ELSE Sent(m_data_msg)
<1>0. Numbers
  BY NumberTypes
<1>1. InKey
  BY DEF IInv
<1>2. (m_current_msg = "data") <=> ~Control(frame)
  BY <1>0, <1>1 DEF InKey, Numbers
<1>3. frame.op = "continuation" => ~Control(frame)
  BY DEF Control, Stream!Control
<1>4. m_current_msg = "data" => m_data_msg.op # "none" /\ Current = m_data_msg
  BY <1>1 DEF InKey, Current
<1> QED
  BY <1>2, <1>3, <1>4 DEF UnderWay, Heard, Before

\* What the frame makes of the message, and what is left to decide about it.
LEMMA WholeFrame ==
  ASSUME TypeOK, IInv, Meaning, ~failed, m_state = "APPLICATION"
  PROVE  /\ Stream!With(frame) = [op |-> Current.op, payload |-> Whole]
         /\ frame.op # "continuation" => Whole = frame.payload
         /\ Stream!Acceptable(frame) <=>
              /\ Sized
              /\ Current.op = "text" => Stream!Utf8(Whole)
              /\ frame.fin /\ frame.op = "text" => Stream!Uncut(Whole)
<1>0. Numbers
  BY NumberTypes
<1>1. /\ (m_current_msg = "data") <=> ~Control(frame)
      /\ frame.op = "continuation" => m_current_msg = "data"
      /\ m_current_msg = "data" =>
           UnderWay = IF frame.op = "continuation" THEN [op |-> Current.op, payload |-> Before]
                      ELSE NoData
  BY InPayloadStream
<1>2. /\ Stream!BasicOK(frame, frame.op = "continuation")
      /\ Stream!LengthOK(frame)
      /\ frame.op # "continuation" => Current.op = frame.op /\ Len(Current.payload) = OfFrame
      /\ OfFrame <= Len(Current.payload)
  BY DEF Meaning, FrameInv, TailInv
<1>3. Current.payload \in Seq(Stream!Bytes) /\ frame.payload \in Seq(Stream!Bytes)
  BY <1>0, MessageFacts, FrameFacts DEF Numbers
<1>4. OfFrame \in Nat /\ OfFrame + m_bytes_needed = Len(frame.payload)
  BY InPayload DEF IInv
<1>5. ASSUME frame.op # "continuation"
      PROVE  Whole = frame.payload
  <2>1. Before = <<>>
    BY <1>2, <1>3, <1>5, FrontEnds DEF Before
  <2> QED
    BY <1>3, <2>1, ConcatEmptySeq DEF Whole
<1>6. Stream!With(frame) = [op |-> Current.op, payload |-> Whole]
  <2>1. CASE frame.op = "continuation"
    <3>1. UnderWay = [op |-> Current.op, payload |-> Before]
      BY <1>1, <2>1
    <3>2. UnderWay.op = Current.op /\ UnderWay.payload = Before
      BY <3>1
    <3> QED
      BY <2>1, <3>2, Zenon DEF Stream!With, Stream!Data, Whole
  <2>2. CASE frame.op # "continuation"
    BY <1>2, <1>5, <2>2 DEF Stream!With, Stream!Data
  <2> QED
    BY <2>1, <2>2
<1>7. (~Control(frame) => Len(Whole) <= MaxMessage) <=> Sized
  <2>1. Before \in Seq(Stream!Bytes) /\ Len(Before) = Len(Current.payload) - OfFrame
    BY <1>2, <1>3, <1>4, FrontFacts DEF Before
  <2>2. Len(Whole) = Len(Before) + Len(frame.payload)
    BY <1>3, <2>1, ConcatProperties DEF Whole
  <2>3. Len(Current.payload) \in Nat /\ Len(frame.payload) \in Nat /\ m_bytes_needed \in Nat
    BY <1>0, <1>3, LenProperties DEF Numbers
  <2>4. Len(Whole) = Len(Current.payload) + m_bytes_needed
    <3> DEFINE c == Len(Current.payload)
               k == OfFrame
               f == Len(frame.payload)
               b == Len(Before)
               w == Len(Whole)
    <3>1. /\ c \in Nat /\ k \in Nat /\ m_bytes_needed \in Nat /\ f \in Nat
          /\ k + m_bytes_needed = f /\ b = c - k /\ w = b + f
      BY <1>4, <2>1, <2>2, <2>3
    <3> HIDE DEF c, k, f, b, w
    <3>2. w = c + m_bytes_needed
      BY <3>1
    <3> QED
      BY <3>2 DEF c, w
  <2> QED
    BY <1>1, <2>4 DEF Sized, Current
<1>8. Stream!BasicOK(frame, UnderWay # Stream!None)
  <2>1. Current.op # "none"
    BY DEF IInv, InKey
  <2>2. ~Control(frame) => (UnderWay # Stream!None <=> frame.op = "continuation")
    BY <1>1, <2>1 DEF NoData, Stream!None
  <2> QED
    BY <1>2, <2>2 DEF Stream!BasicOK, Control
<1>9. (~Control(frame) => (Current.op = "text" => Stream!Utf8(Whole))) <=>
        (Current.op = "text" => Stream!Utf8(Whole))
  BY <1>2 DEF Control, Stream!Control
<1>10. Stream!Acceptable(frame) <=>
         /\ ~Control(frame) => Len(Whole) <= MaxMessage
         /\ ~Control(frame) => (Current.op = "text" => Stream!Utf8(Whole))
         /\ frame.fin /\ frame.op = "text" => Stream!Uncut(frame.payload)
  BY <1>2, <1>6, <1>8 DEF Stream!Acceptable, Control
<1> QED
  BY <1>5, <1>6, <1>7, <1>9, <1>10

\* What the stream knows while a header is read: the message under way.
LEMMA InHeaderStream ==
  ASSUME TypeOK, Meaning, ~failed, m_state \in {"HEADER_BASIC", "HEADER_EXTENDED"}
  PROVE  /\ Heard = NoData
         /\ UnderWay = Sent(m_data_msg)
         /\ UnderWay # Stream!None <=> m_data_msg.op # "none"
<1>1. m_data_msg.op = "none" => m_data_msg.payload = <<>>
  BY DEF Meaning, DataInv
<1> QED
  BY <1>1 DEF UnderWay, Heard, Sent, NoData, Stream!None

\* A step that the stream does not see.
Unseen == UNCHANGED <<UnderWay, Heard, failed>>

\* A frame that is refused.
LEMMA RefuseStep ==
  ASSUME frame \in Inputs, ~failed, Heard = NoData, ~Stream!Acceptable(frame), failed' = TRUE
  PROVE  Meaning' /\ Stream!Next
<1>1. UnderWay' = NoData /\ Heard' = NoData
  BY DEF UnderWay, Heard
<1>2. Stream!Refuse(frame)
  BY <1>1 DEF Stream!Refuse, Stream!None, NoData
<1>3. Meaning'
  BY DEF Meaning
<1> QED
  BY <1>2, <1>3 DEF Stream!Next

\* A header that goes on is not seen.
LEMMA HeaderGoesOn ==
  ASSUME TypeOK, Meaning, ~failed, ~failed', m_state \in {"HEADER_BASIC", "HEADER_EXTENDED"},
         m_state' = m_state, UNCHANGED <<frame, m_data_msg, failed>>
  PROVE  Meaning' /\ Unseen
<1>1. DataInv /\ HeaderInv
  BY DEF Meaning
<1>2. DataInv' /\ HeaderInv'
  BY <1>1 DEF DataInv, HeaderInv, WellRead, Stream!Utf8, Stream!BasicOK, Stream!Control
<1>3. FrameInv' /\ TailInv'
  BY DEF FrameInv, TailInv
<1>4. Unseen
  BY DEF Unseen, UnderWay, Heard, Sent
<1> QED
  BY <1>2, <1>3, <1>4 DEF Meaning

\* Part of a header, or more bytes in one.
LEMMA CopyPartMeans ==
  ASSUME TypeOK, Meaning, CopyBasicPart \/ CopyExtendedPart
  PROVE  Meaning' /\ Unseen
<1>1. /\ ~failed /\ m_state \in {"HEADER_BASIC", "HEADER_EXTENDED"}
      /\ m_state' = m_state /\ UNCHANGED <<frame, m_data_msg, failed>>
  BY DEF CopyBasicPart, CopyExtendedPart, CopyPart, Use, Consuming, messageVars
<1> QED
  BY <1>1, HeaderGoesOn

\* The rest of the basic header: a frame that is refused, or a header that is right.
LEMMA BasicHeaderMeans ==
  ASSUME TypeOK, Meaning, BasicHeader
  PROVE  Meaning' /\ (Unseen \/ Stream!Next)
<1>1. ~failed /\ m_state = "HEADER_BASIC" /\ frame' = frame /\ m_data_msg' = m_data_msg
  BY DEF BasicHeader, Consuming, Use, messageVars
<1>2. frame \in Inputs
  BY DEF TypeOK
<1>3. CASE Stream!BasicOK(frame, m_data_msg.op # "none")
  <2>1. m_state' = "HEADER_EXTENDED" /\ failed' = failed
    BY <1>3 DEF BasicHeader
  <2>2. Unseen
    BY <1>1, <2>1 DEF Unseen, UnderWay, Heard, Sent
  <2>3. DataInv'
    BY <1>1 DEF Meaning, DataInv, WellRead, Stream!Utf8
  <2>4. HeaderInv'
    BY <1>1, <1>3 DEF HeaderInv, Stream!BasicOK, Stream!Control
  <2>5. FrameInv' /\ TailInv'
    BY <2>1 DEF FrameInv, TailInv
  <2> QED
    BY <2>2, <2>3, <2>4, <2>5 DEF Meaning
<1>4. CASE ~Stream!BasicOK(frame, m_data_msg.op # "none")
  <2>1. failed' = TRUE
    BY <1>4 DEF BasicHeader
  <2>2. Heard = NoData /\ (UnderWay # Stream!None <=> m_data_msg.op # "none")
    BY <1>1, InHeaderStream
  <2>3. ~Stream!Acceptable(frame)
    BY <1>4, <2>2 DEF Stream!Acceptable, Stream!BasicOK
  <2> QED
    BY <1>1, <1>2, <2>1, <2>2, <2>3, RefuseStep
<1> QED
  BY <1>3, <1>4

\* The rest of the header of a control frame.
LEMMA ControlHeaderMeans ==
  ASSUME TypeOK, IInv, Meaning, ExtendedHeader, failed' # TRUE, Control(frame)
  PROVE  Meaning' /\ Unseen
<1>0. Numbers
  BY NumberTypes
<1>1. /\ ~failed /\ m_state = "HEADER_EXTENDED" /\ frame' = frame
      /\ m_bytes_needed' = Len(frame.payload)
      /\ Stream!LengthOK(frame)
      /\ m_control_msg' = NewMsg(frame) /\ m_current_msg' = "control"
      /\ m_state' = "APPLICATION" /\ m_data_msg' = m_data_msg /\ failed' = failed
  BY DEF ExtendedHeader, Consuming, Use
<1>2. Stream!BasicOK(frame, m_data_msg.op # "none")
  BY <1>1 DEF Meaning, HeaderInv
<1>3. OfFrame' = 0
  BY <1>0, <1>1 DEF OfFrame, Numbers
<1>4. /\ Current' = NewMsg(frame)
      /\ Current'.op = frame.op /\ Current'.payload = <<>> /\ Current'.validator = "accept"
      /\ Len(Current'.payload) = 0
  BY <1>0, <1>1, NewMsgFacts, EmptySeq DEF Current, Numbers
<1>5. frame.op = "control"
  BY DEF Control, Stream!Control
<1>6. DataInv'
  BY <1>1 DEF Meaning, DataInv, WellRead, Stream!Utf8
<1>7. HeaderInv'
  BY <1>1 DEF HeaderInv
<1>8. FrameInv'
  <2>1. Stream!BasicOK(frame, frame.op = "continuation")'
    BY <1>1, <1>2, <1>5 DEF Stream!BasicOK, Stream!Control
  <2>2. Stream!LengthOK(frame)'
    BY <1>1 DEF Stream!LengthOK
  <2>3. WellRead(Current)'
    BY <1>4, <1>5 DEF WellRead
  <2> QED
    BY <1>1, <1>3, <1>4, <2>1, <2>2, <2>3 DEF FrameInv
<1>9. TailInv'
  BY <1>3, <1>4 DEF TailInv
<1>10. Unseen
  BY <1>1 DEF Unseen, UnderWay, Heard, Sent
<1> QED
  BY <1>6, <1>7, <1>8, <1>9, <1>10 DEF Meaning

\* The rest of the header of a data frame that is accepted so far.
LEMMA DataHeaderMeans ==
  ASSUME TypeOK, IInv, Meaning, ExtendedHeader, failed' # TRUE, ~Control(frame)
  PROVE  Meaning' /\ Unseen
<1>0. Numbers
  BY NumberTypes
<1>1. /\ ~failed /\ m_state = "HEADER_EXTENDED" /\ frame' = frame
      /\ m_bytes_needed' = Len(frame.payload)
      /\ Stream!LengthOK(frame)
      /\ m_data_msg' = IF m_data_msg.op = "none" THEN NewMsg(frame) ELSE GoesOn(m_data_msg, frame)
      /\ m_current_msg' = "data" /\ m_state' = "APPLICATION" /\ failed' = failed
  BY DEF ExtendedHeader, Consuming, Use
<1>2. Stream!BasicOK(frame, m_data_msg.op # "none") /\ DataInv
  BY <1>1 DEF Meaning, HeaderInv
<1>3. OfFrame' = 0
  BY <1>0, <1>1 DEF OfFrame, Numbers
<1>4. Heard = NoData /\ UnderWay = Sent(m_data_msg)
  BY <1>1, InHeaderStream
<1>5. Heard' = NoData /\ Current' = m_data_msg'
  BY <1>1 DEF Heard, Current
<1>6. frame.op = "continuation" <=> m_data_msg.op # "none"
  BY <1>2 DEF Stream!BasicOK, Control
<1>7. (Stream!BasicOK(frame, frame.op = "continuation") /\ Stream!LengthOK(frame))'
  BY <1>1, <1>2, <1>6 DEF Stream!BasicOK, Stream!LengthOK, Stream!Control
<1>8. CASE m_data_msg.op = "none"
  <2>1. /\ m_data_msg' = NewMsg(frame)
        /\ m_data_msg'.op = frame.op /\ m_data_msg'.payload = <<>>
        /\ m_data_msg'.validator = "accept"
        /\ Len(m_data_msg'.payload) = 0
    BY <1>0, <1>1, <1>8, NewMsgFacts, EmptySeq DEF Numbers
  <2>2. frame.op \in {"text", "binary"}
    <3>1. frame.op \in Stream!Opcodes
      BY <1>0, FrameFacts DEF Numbers
    <3> QED
      BY <1>2, <1>6, <1>8, <3>1 DEF Stream!BasicOK, Control, Stream!Control, Stream!Opcodes
  <2>3. WellRead(m_data_msg')
    BY <2>1 DEF WellRead, Stream!Utf8, StateOf
  <2>4. WellRead(m_data_msg)' /\ WellRead(Current)'
    BY <1>5, <2>3 DEF WellRead, Stream!Utf8
  <2>5. DataInv' /\ HeaderInv'
    BY <1>1, <2>1, <2>2, <2>4 DEF DataInv, HeaderInv
  <2>6. FrameInv'
    BY <1>1, <1>3, <1>5, <1>7, <2>1, <2>4 DEF FrameInv
  <2>7. TailInv'
    BY <1>3, <1>5, <2>1 DEF TailInv
  <2>8. UnderWay' = NoData
    BY <1>1, <1>6, <1>8 DEF UnderWay
  <2>9. UnderWay = NoData
    BY <1>2, <1>4, <1>8 DEF DataInv, Sent, NoData
  <2> QED
    BY <1>1, <1>4, <1>5, <2>5, <2>6, <2>7, <2>8, <2>9 DEF Meaning, Unseen
<1>9. CASE m_data_msg.op # "none"
  <2>1. m_data_msg' = [m_data_msg EXCEPT !.key = frame.key, !.turn = 0]
    BY <1>1, <1>9 DEF GoesOn
  <2>2. m_data_msg \in Message
    BY <1>0 DEF Numbers
  <2>3. /\ m_data_msg'.op = m_data_msg.op /\ m_data_msg'.payload = m_data_msg.payload
        /\ m_data_msg'.validator = m_data_msg.validator
    BY <2>1, <2>2 DEF Message
  <2>4. WellRead(m_data_msg')
    BY <1>2, <2>3 DEF DataInv, WellRead
  <2>5. WellRead(m_data_msg)' /\ WellRead(Current)'
    BY <1>5, <2>4 DEF WellRead, Stream!Utf8
  <2>6. DataInv' /\ HeaderInv'
    BY <1>1, <1>2, <2>3, <2>5 DEF DataInv, HeaderInv
  <2>7. FrameInv'
    BY <1>1, <1>6, <1>7, <1>9, <2>5 DEF FrameInv
  <2>8. m_data_msg.payload \in Seq(Stream!Bytes) /\ Len(m_data_msg.payload) \in Nat
    BY <2>2, MessageFacts
  <2>9. TailInv'
    BY <1>3, <1>5, <2>3, <2>8 DEF TailInv
  <2>10. UnderWay' = Sent(m_data_msg)
    <3>1. UnderWay' = [op |-> m_data_msg'.op,
                       payload |-> SubSeq(m_data_msg'.payload, 1, Len(m_data_msg'.payload) - OfFrame')]
      BY <1>1, <1>6, <1>9, <2>3 DEF UnderWay
    <3>2. SubSeq(m_data_msg.payload, 1, Len(m_data_msg.payload) - 0) = m_data_msg.payload
      BY <2>8, FrontEnds
    <3> QED
      BY <1>3, <2>3, <3>1, <3>2, Zenon DEF Sent
  <2> QED
    BY <1>1, <1>4, <1>5, <2>6, <2>7, <2>9, <2>10 DEF Meaning, Unseen
<1> QED
  BY <1>8, <1>9

\* The rest of the header of a frame that is refused.
LEMMA WrongHeaderMeans ==
  ASSUME TypeOK, IInv, Meaning, ExtendedHeader, failed' = TRUE
  PROVE  Meaning' /\ Stream!Next
<1>0. Numbers
  BY NumberTypes
<1>1. /\ ~failed /\ m_state = "HEADER_EXTENDED"
      /\ \/ ~Stream!LengthOK(frame)
         \/ ~Control(frame) /\ Announced > MaxMessage
  BY DEF ExtendedHeader, Consuming
<1>2. Stream!BasicOK(frame, m_data_msg.op # "none") /\ DataInv
  BY <1>1 DEF Meaning, HeaderInv
<1>3. Heard = NoData /\ UnderWay = Sent(m_data_msg)
  BY <1>1, InHeaderStream
<1>4. ~Stream!Acceptable(frame)
  <2>1. CASE ~Stream!LengthOK(frame)
    BY <2>1 DEF Stream!Acceptable
  <2>2. CASE ~Control(frame) /\ Announced > MaxMessage
    <3>1. m_data_msg.payload \in Seq(Stream!Bytes) /\ frame.payload \in Seq(Stream!Bytes)
      BY <1>0, MessageFacts, FrameFacts DEF Numbers
    <3>2. frame.op = "continuation" <=> m_data_msg.op # "none"
      BY <1>2, <2>2 DEF Stream!BasicOK, Control
    <3>3. ~(Len(Stream!With(frame).payload) <= MaxMessage)
      <4>1. CASE frame.op = "continuation"
        <5> DEFINE a == Len(m_data_msg.payload)
                   b == Len(frame.payload)
                   k == a + b
        <5>1. Stream!With(frame).payload = m_data_msg.payload \o frame.payload
          BY <1>3, <4>1 DEF Stream!With, Stream!Data, Sent
        <5>2. Len(Stream!With(frame).payload) = k
          BY <3>1, <5>1, ConcatProperties
        <5>3. k \in Nat
          <6>1. a \in Nat /\ b \in Nat
            BY <1>0 DEF Numbers
          <6> HIDE DEF a, b
          <6> QED
            BY <6>1
        <5>4. k % SizeSpace > MaxMessage
          BY <2>2, <3>2, <4>1 DEF Announced
        <5> HIDE DEF k
        <5>5. k > MaxMessage /\ MaxMessage \in Nat
          BY <5>3, <5>4, WrappedSum, ReaderAssumption
        <5>6. ~(k <= MaxMessage)
          BY <5>3, <5>5
        <5> QED
          BY <5>2, <5>6
      <4>2. CASE frame.op # "continuation"
        <5>1. Len(frame.payload) > MaxMessage
          BY <2>2, <3>2, <4>2 DEF Announced
        <5>2. Stream!With(frame).payload = frame.payload
          BY <4>2 DEF Stream!With, Stream!Data
        <5> QED
          BY <1>0, <5>1, <5>2 DEF Numbers
      <4> QED
        BY <4>1, <4>2
    <3> QED
      BY <2>2, <3>3 DEF Stream!Acceptable, Control
  <2> QED
    BY <1>1, <2>1, <2>2
<1> QED
  BY <1>0, <1>1, <1>3, <1>4, RefuseStep DEF Numbers

\* Part of the payload: it is not seen, unless it is not a text or does not fit.
LEMMA PayloadPartMeans ==
  ASSUME TypeOK, IInv, Meaning, PayloadPart
  PROVE  Meaning' /\ (Unseen \/ Stream!Next)
<1>0. Numbers
  BY NumberTypes
<1>1. PICK n \in 0..MaxRead :
        /\ Payload(n)
        /\ IF Valid(n) THEN m_bytes_needed' = m_bytes_needed - n /\ UNCHANGED failed
           ELSE failed' = TRUE
  BY DEF PayloadPart
<1>2. frame' = frame /\ m_state' = m_state
  BY DEF PayloadPart
<1>3. n \in Nat
  BY <1>0 DEF Numbers
<1>4. /\ ~failed /\ m_state = "APPLICATION"
      /\ m_current_msg' = m_current_msg
      /\ Current'.op = Current.op
      /\ m_current_msg = "data" => m_data_msg' = Current'
      /\ m_current_msg # "data" => m_data_msg' = m_data_msg
  BY <1>1, <1>3, PayloadFacts
<1>5. /\ Valid(n) => WellRead(Current')
      /\ ~Valid(n) => ~Sized \/ (Current.op = "text" /\ ~Stream!Utf8(Whole))
  BY <1>1, <1>3, ReadRight
<1>6. CASE ~Valid(n)
  <2>1. ~Stream!Acceptable(frame)
    BY <1>4, <1>5, <1>6, WholeFrame
  <2>2. Heard = NoData
    BY <1>4, InPayloadStream
  <2>3. failed' = TRUE
    BY <1>1, <1>6
  <2> QED
    BY <1>0, <1>4, <2>1, <2>2, <2>3, RefuseStep DEF Numbers
<1>7. CASE Valid(n)
  <2>1. m_bytes_needed' = m_bytes_needed - n /\ failed' = failed
    BY <1>1, <1>7
  <2>2. OfFrame' = OfFrame + n
    BY <1>0, <1>2, <1>3, <2>1 DEF OfFrame, Numbers
  <2>3. /\ OfFrame + n <= Len(Current'.payload)
        /\ Len(Current'.payload) - (OfFrame + n) = Len(Current.payload) - OfFrame
        /\ \A i \in 1..(OfFrame + n) :
             Current'.payload[(Len(Current'.payload) - (OfFrame + n)) + i] = frame.payload[i]
        /\ SubSeq(Current'.payload, 1, Len(Current'.payload) - (OfFrame + n)) = Before
    BY <1>1, <1>3, GrownFacts, Zenon DEF Grown
  <2>4. DataInv /\ FrameInv /\ InKey
    BY <1>4 DEF Meaning, IInv
  <2>5. DataInv'
    <3>1. CASE m_current_msg = "data"
      <4>1. m_data_msg' = Current' /\ m_data_msg'.op = m_data_msg.op /\ m_data_msg.op # "none"
        BY <1>4, <2>4, <3>1 DEF InKey, Current
      <4>2. WellRead(m_data_msg)'
        BY <1>5, <1>7, <4>1 DEF WellRead, Stream!Utf8
      <4> QED
        BY <2>4, <4>1, <4>2 DEF DataInv
    <3>2. CASE m_current_msg # "data"
      BY <1>4, <2>4, <3>2 DEF DataInv, WellRead, Stream!Utf8
    <3> QED
      BY <3>1, <3>2
  <2>6. HeaderInv'
    BY <1>2, <1>4 DEF HeaderInv
  <2>7. FrameInv'
    <3>1. (Stream!BasicOK(frame, frame.op = "continuation") /\ Stream!LengthOK(frame))'
      BY <1>2, <1>4, <2>4 DEF FrameInv, Stream!BasicOK, Stream!LengthOK, Stream!Control
    <3>2. WellRead(Current)'
      BY <1>5, <1>7 DEF WellRead, Stream!Utf8
    <3>3. ASSUME frame.op # "continuation"
          PROVE  Current'.op = frame.op /\ Len(Current'.payload) = OfFrame + n
      <4>1. Current.op = frame.op /\ Len(Current.payload) = OfFrame
        BY <1>4, <2>4, <3>3 DEF FrameInv
      <4>2. Current'.payload \in Seq(Stream!Bytes) /\ OfFrame + n \in Nat
        BY <1>1, <1>3, GrownFacts DEF Grown
      <4>3. Len(Current'.payload) \in Nat /\ OfFrame \in Nat
        BY <1>4, <4>2, LenProperties, InPayload DEF IInv
      <4>4. Len(Current'.payload) - (OfFrame + n) = 0
        BY <2>3, <4>1, <4>3
      <4> QED
        BY <1>4, <4>1, <4>2, <4>3, <4>4
    <3> QED
      BY <1>2, <2>2, <3>1, <3>2, <3>3 DEF FrameInv
  <2>8. TailInv'
    BY <1>2, <2>2, <2>3, Zenon DEF TailInv
  <2>9. Unseen
    <3>1. /\ Heard = NoData
          /\ m_current_msg = "data" =>
               UnderWay = IF frame.op = "continuation" THEN [op |-> Current.op, payload |-> Before]
                          ELSE NoData
          /\ m_current_msg # "data" =>
               UnderWay = IF m_data_msg.op = "none" THEN NoData ELSE Sent(m_data_msg)
      BY <1>4, InPayloadStream
    <3>2. Heard' = NoData
      BY <1>2, <1>4 DEF Heard
    <3>3. CASE m_current_msg = "data"
      <4>1. m_data_msg' = Current' /\ Current'.op = Current.op /\ Current.op # "none"
        BY <1>4, <2>4, <3>3 DEF InKey
      <4>2. UnderWay' = IF frame.op = "continuation"
                        THEN [op |-> m_data_msg'.op,
                              payload |-> SubSeq(m_data_msg'.payload, 1,
                                                 Len(m_data_msg'.payload) - OfFrame')]
                        ELSE NoData
        BY <1>2, <1>4, <2>1, <3>3, <4>1 DEF UnderWay
      <4>3. UnderWay' = IF frame.op = "continuation" THEN [op |-> Current.op, payload |-> Before]
                        ELSE NoData
        BY <2>2, <2>3, <4>1, <4>2, Zenon
      <4> QED
        BY <2>1, <3>1, <3>2, <3>3, <4>3 DEF Unseen
    <3>4. CASE m_current_msg # "data"
      <4>1. UnderWay' = IF m_data_msg.op = "none" THEN NoData ELSE Sent(m_data_msg)
        BY <1>2, <1>4, <2>1, <3>4 DEF UnderWay, Sent
      <4> QED
        BY <2>1, <3>1, <3>2, <3>4, <4>1 DEF Unseen
    <3> QED
      BY <3>3, <3>4
  <2> QED
    BY <2>5, <2>6, <2>7, <2>8, <2>9 DEF Meaning
<1> QED
  BY <1>6, <1>7

\* What the last byte of a frame makes of its message, when its bytes are accepted.
LEMMA FrameRead ==
  ASSUME TypeOK, IInv, Meaning, Payload(m_bytes_needed), Valid(m_bytes_needed)
  PROVE  /\ Current'.op = Current.op /\ Current'.payload = Whole
         /\ Stream!With(frame) = Sent(Current')
         /\ WellRead(Current')
         /\ Current.op = "text" => Stream!Utf8(Whole)
         /\ Sized
         /\ DataInv'
<1>1. m_bytes_needed \in Nat
  BY NumberTypes DEF Numbers
<1>2. /\ ~failed /\ m_state = "APPLICATION"
      /\ Current'.op = Current.op
      /\ m_current_msg = "data" => m_data_msg' = Current'
      /\ m_current_msg # "data" => m_data_msg' = m_data_msg
  BY <1>1, PayloadFacts
<1>3. Current'.payload = Whole
  BY <1>1, GrownFacts DEF Grown
<1>4. WellRead(Current')
  BY <1>1, ReadRight
<1>5. Stream!With(frame) = [op |-> Current.op, payload |-> Whole]
  BY <1>2, WholeFrame
<1>6. Current.op = "text" => Stream!Utf8(Whole)
  BY <1>2, <1>3, <1>4 DEF WellRead
<1>7. DataInv /\ InKey
  BY <1>2 DEF Meaning, IInv
<1>8. DataInv'
  <2>1. CASE m_current_msg = "data"
    <3>1. m_data_msg' = Current' /\ m_data_msg'.op = m_data_msg.op /\ m_data_msg.op # "none"
      BY <1>2, <1>7, <2>1 DEF InKey, Current
    <3>2. WellRead(m_data_msg)'
      BY <1>4, <3>1 DEF WellRead, Stream!Utf8
    <3> QED
      BY <1>7, <3>1, <3>2 DEF DataInv
  <2>2. CASE m_current_msg # "data"
    BY <1>2, <1>7, <2>2 DEF DataInv, WellRead, Stream!Utf8
  <2> QED
    BY <2>1, <2>2
<1>9. Sized
  BY <1>2, WhatFitsIsSized DEF Valid
<1> QED
  BY <1>2, <1>3, <1>4, <1>5, <1>6, <1>8, <1>9 DEF Sent

\* The last byte of a frame that does not finish its message: the frame is accepted.
LEMMA FrameEndsMeans ==
  ASSUME TypeOK, IInv, Meaning, FrameEnds
  PROVE  Meaning' /\ Stream!Next
<1>0. Numbers
  BY NumberTypes
<1>1. /\ Payload(m_bytes_needed) /\ Valid(m_bytes_needed) /\ ~frame.fin
      /\ m_state' = "HEADER_BASIC" /\ failed' = failed
  BY DEF FrameEnds, ResetHeaders
<1>2. m_bytes_needed \in Nat
  BY <1>0 DEF Numbers
<1>3. /\ ~failed /\ m_state = "APPLICATION"
      /\ m_current_msg = "data" => m_data_msg' = Current'
  BY <1>1, <1>2, PayloadFacts
<1>4. /\ Current'.op = Current.op
      /\ Stream!With(frame) = Sent(Current')
      /\ Current.op = "text" => Stream!Utf8(Whole)
      /\ Sized
      /\ DataInv'
  BY <1>1, FrameRead
<1>5. Stream!Acceptable(frame)
  BY <1>1, <1>3, <1>4, WholeFrame
<1>6. ~Control(frame)
  BY <1>1, <1>5 DEF Stream!Acceptable, Stream!BasicOK, Control
<1>7. m_current_msg = "data" /\ Heard = NoData
  BY <1>3, <1>6, InPayloadStream
<1>8. Current.op # "none"
  BY <1>3 DEF IInv, InKey
<1>9. Heard' = NoData /\ UnderWay' = Stream!With(frame)
  BY <1>1, <1>3, <1>4, <1>7, <1>8 DEF Heard, UnderWay, Sent
<1>10. Stream!Accept(frame)
  BY <1>1, <1>3, <1>5, <1>6, <1>7, <1>9 DEF Stream!Accept, Stream!None, NoData, Control
<1>11. Meaning'
  BY <1>1, <1>4 DEF Meaning, HeaderInv, FrameInv, TailInv
<1> QED
  BY <1>0, <1>10, <1>11 DEF Stream!Next, Numbers

\* The last byte of a message: it is heard, or its last character is cut.
LEMMA MessageEndsMeans ==
  ASSUME TypeOK, IInv, Meaning, MessageEnds
  PROVE  Meaning' /\ Stream!Next
<1>0. Numbers
  BY NumberTypes
<1>1. Payload(m_bytes_needed) /\ Valid(m_bytes_needed) /\ frame.fin
  BY DEF MessageEnds
<1>2. m_bytes_needed \in Nat
  BY <1>0 DEF Numbers
<1>3. /\ ~failed /\ m_state = "APPLICATION"
      /\ m_current_msg' = m_current_msg
      /\ Current' = Longer(Current, m_bytes_needed)
      /\ m_current_msg = "data" => m_data_msg' = Current'
      /\ m_current_msg # "data" => m_data_msg' = m_data_msg
  BY <1>1, <1>2, PayloadFacts
<1>4. /\ Current'.op = Current.op /\ Current'.payload = Whole
      /\ Stream!With(frame) = Sent(Current')
      /\ WellRead(Current')
      /\ Current.op = "text" => Stream!Utf8(Whole)
      /\ Sized
      /\ DataInv'
  BY <1>1, FrameRead
<1>5. /\ Heard = NoData
      /\ (m_current_msg = "data") <=> ~Control(frame)
      /\ m_current_msg # "data" =>
           UnderWay = IF m_data_msg.op = "none" THEN NoData ELSE Sent(m_data_msg)
  BY <1>3, InPayloadStream
<1>6. Current.op # "none"
  BY <1>3 DEF IInv, InKey
<1>7. frame.op # "continuation" => Current.op = frame.op
  BY <1>3 DEF Meaning, FrameInv
<1>8. frame.op = "text" => (Stream!Uncut(Whole) <=> Current'.validator = "accept")
  BY <1>4, <1>7 DEF WellRead, StateOf, After, Stream!Uncut
<1>9. CASE frame.op = "text" /\ Longer(Current, m_bytes_needed).validator # "accept"
  <2>1. failed' = TRUE
    BY <1>9 DEF MessageEnds
  <2>2. ~Stream!Acceptable(frame)
    BY <1>1, <1>3, <1>8, <1>9, WholeFrame
  <2> QED
    BY <1>0, <1>3, <1>5, <2>1, <2>2, RefuseStep DEF Numbers
<1>10. CASE ~(frame.op = "text" /\ Longer(Current, m_bytes_needed).validator # "accept")
  <2>1. m_state' = "READY" /\ failed' = failed
    BY <1>10 DEF MessageEnds
  <2>2. Stream!Acceptable(frame)
    BY <1>1, <1>3, <1>4, <1>8, <1>10, WholeFrame
  <2>3. Heard' = Stream!With(frame)
    BY <1>3, <1>4, <2>1 DEF Heard, Sent
  <2>4. m_current_msg = "data" => UnderWay' = NoData
    BY <1>3, <2>1 DEF UnderWay
  <2>5. m_current_msg # "data" => UnderWay' = UnderWay
    BY <1>3, <1>5, <2>1 DEF UnderWay, Sent
  <2>6. Stream!Accept(frame)
    BY <1>1, <1>3, <1>5, <2>1, <2>2, <2>3, <2>4, <2>5
       DEF Stream!Accept, Stream!None, NoData, Control
  <2>7. Meaning'
    BY <1>4, <2>1 DEF Meaning, HeaderInv, FrameInv, TailInv
  <2> QED
    BY <1>0, <2>6, <2>7 DEF Stream!Next, Numbers
<1> QED
  BY <1>9, <1>10

\* The message is handed over.
LEMMA GetMessageMeans ==
  ASSUME TypeOK, IInv, Meaning, GetMessage
  PROVE  Meaning' /\ Stream!Next
<1>1. /\ m_state = "READY" /\ ~failed /\ m_state' = "HEADER_BASIC"
      /\ m_current_msg' = m_current_msg /\ failed' = failed
      /\ m_current_msg = "data" => m_data_msg' = NoMsg
      /\ m_current_msg # "data" => m_data_msg' = m_data_msg
  BY DEF GetMessage, ResetHeaders
<1>2. Current.op # "none"
  BY <1>1 DEF IInv, Kept
<1>3. NoMsg.op = "none" /\ NoMsg.payload = <<>> /\ NoMsg.validator = "accept"
  BY DEF NoMsg
<1>4. Heard # NoData /\ Heard' = NoData
  BY <1>1, <1>2 DEF Heard, Sent, NoData
<1>5. UnderWay' = UnderWay
  <2>1. CASE m_current_msg = "data"
    BY <1>1, <1>3, <2>1 DEF UnderWay
  <2>2. CASE m_current_msg # "data"
    BY <1>1, <2>2 DEF UnderWay, Sent
  <2> QED
    BY <2>1, <2>2
<1>6. Stream!Take
  BY <1>1, <1>4, <1>5 DEF Stream!Take, Stream!None, NoData
<1>7. DataInv'
  <2>1. DataInv
    BY <1>1 DEF Meaning
  <2> QED
    BY <1>1, <1>3, <2>1 DEF DataInv, WellRead, Stream!Utf8
<1>8. Meaning'
  BY <1>1, <1>7 DEF Meaning, HeaderInv, FrameInv, TailInv
<1> QED
  BY <1>6, <1>8 DEF Stream!Next

\* What the meaning is about besides the place and the bytes that are there.
LEMMA SameMeaning ==
  ASSUME Meaning, UNCHANGED <<frame, m_state, m_bytes_needed, m_data_msg, m_control_msg,
                              m_current_msg, failed>>
  PROVE  Meaning' /\ Unseen
<1>1. Current' = Current /\ OfFrame' = OfFrame
  BY DEF Current, OfFrame
<1>2. DataInv => DataInv'
  BY DEF DataInv, WellRead, Stream!Utf8
<1>3. HeaderInv => HeaderInv'
  BY DEF HeaderInv, Stream!BasicOK, Stream!Control
<1>4. FrameInv => FrameInv'
  BY <1>1 DEF FrameInv, WellRead, Stream!Utf8, Stream!BasicOK, Stream!LengthOK, Stream!Control
<1>5. TailInv => TailInv'
  BY <1>1, Zenon DEF TailInv
<1>6. Unseen
  BY <1>1 DEF Unseen, UnderWay, Heard, Sent
<1> QED
  BY <1>2, <1>3, <1>4, <1>5, <1>6 DEF Meaning

\* The reader begins as the stream does.
LEMMA MeaningInit ==
  ASSUME Init
  PROVE  Meaning /\ Stream!Init
<1>1. /\ m_state = "HEADER_BASIC" /\ m_data_msg = NoMsg /\ failed = FALSE
  BY DEF Init
<1>2. NoMsg.op = "none" /\ NoMsg.payload = <<>> /\ NoMsg.validator = "accept"
  BY DEF NoMsg
<1>3. Meaning
  BY <1>1, <1>2 DEF Meaning, DataInv, HeaderInv, FrameInv, TailInv, WellRead
<1>4. Stream!Init
  BY <1>1, <1>2 DEF Stream!Init, Stream!None, NoData, UnderWay, Heard
<1> QED
  BY <1>3, <1>4

\* Every step of the reader is one of the stream, or is not seen.
LEMMA MeaningStep ==
  ASSUME TypeOK, IInv, Meaning, [Next]_vars
  PROVE  Meaning' /\ [Stream!Next]_Stream!vars
<1>1. CASE CopyBasicPart \/ CopyExtendedPart
  BY <1>1, CopyPartMeans DEF Unseen, Stream!vars
<1>2. CASE BasicHeader
  BY <1>2, BasicHeaderMeans DEF Unseen, Stream!vars
<1>3. CASE ExtendedHeader
  BY <1>3, ControlHeaderMeans, DataHeaderMeans, WrongHeaderMeans DEF Unseen, Stream!vars
<1>4. CASE PayloadPart
  BY <1>4, PayloadPartMeans DEF Unseen, Stream!vars
<1>5. CASE FrameEnds \/ MessageEnds \/ GetMessage
  BY <1>5, FrameEndsMeans, MessageEndsMeans, GetMessageMeans
<1>6. CASE ReadMore \/ UNCHANGED vars
  <2>1. UNCHANGED <<frame, m_state, m_bytes_needed, m_data_msg, m_control_msg, m_current_msg, failed>>
    BY <1>6 DEF ReadMore, vars, inputVars, headerVars, messageVars
  <2> QED
    BY <2>1, SameMeaning DEF Unseen, Stream!vars
<1> QED
  BY <1>1, <1>2, <1>3, <1>4, <1>5, <1>6 DEF Next, Consume

\* Whatever the sizes of the reads, the messages that are handed over and the frames that
\* are refused are those MessageStream says of the whole frames.  A continuation whose size
\* wraps passes ExtendedHeader, and is refused at the first byte that is no text or for which
\* there is no memory: it has more bytes than MaxString.
THEOREM ReaderImplementsStream == Spec => ImplementsStream
<1>1. Init => Meaning /\ Stream!Init
  BY MeaningInit
<1>2. TypeOK /\ IInv /\ Meaning /\ [Next]_vars => Meaning' /\ [Stream!Next]_Stream!vars
  BY MeaningStep
<1>3. Spec => [](TypeOK /\ IInv)
  BY ReaderInvariants
<1> QED
  BY <1>1, <1>2, <1>3, PTL DEF Spec, ImplementsStream, Stream!Spec

\* What is promised of the messages holds whichever frame comes next.
LEMMA StreamStep ==
  ASSUME Stream!TextIsUtf8, Stream!SizeIsLimited, [Stream!Next]_Stream!vars
  PROVE  Stream!TextIsUtf8' /\ Stream!SizeIsLimited'
<1>1. ASSUME NEW f \in Inputs, Stream!Accept(f)
      PROVE  Stream!TextIsUtf8' /\ Stream!SizeIsLimited'
  <2>1. /\ Heard' = Stream!With(f) \/ Heard' = Heard
        /\ UnderWay' = UnderWay \/ UnderWay' = Stream!None
           \/ (~Stream!Control(f) /\ UnderWay' = Stream!With(f))
    BY <1>1 DEF Stream!Accept
  <2>2. Stream!Acceptable(f)
    BY <1>1 DEF Stream!Accept
  <2>3. Stream!Control(f) => Stream!With(f).op = "control"
    BY DEF Stream!Control, Stream!With, Stream!Data
  <2>4. ~Stream!Control(f) =>
          /\ Len(Stream!With(f).payload) <= MaxMessage
          /\ Stream!With(f).op = "text" => Stream!Utf8(Stream!With(f).payload)
    BY <2>2 DEF Stream!Acceptable
  <2>5. Stream!TextIsUtf8'
    BY <2>1, <2>3, <2>4 DEF Stream!TextIsUtf8, Stream!Utf8
  <2>6. Len(Stream!None.payload) <= MaxMessage
    BY ReaderAssumption, EmptySeq DEF Stream!None
  <2>7. Stream!SizeIsLimited'
    BY <2>1, <2>3, <2>4, <2>6 DEF Stream!SizeIsLimited
  <2> QED
    BY <2>5, <2>7
<1>2. ASSUME NEW f \in Inputs, Stream!Refuse(f)
      PROVE  Stream!TextIsUtf8' /\ Stream!SizeIsLimited'
  <2>1. UnderWay' = Stream!None /\ Heard' = Heard
    BY <1>2 DEF Stream!Refuse
  <2>2. Len(Stream!None.payload) <= MaxMessage
    BY ReaderAssumption, EmptySeq DEF Stream!None
  <2> QED
    BY <2>1, <2>2 DEF Stream!TextIsUtf8, Stream!SizeIsLimited, Stream!Utf8
<1>3. ASSUME Stream!Take
      PROVE  Stream!TextIsUtf8' /\ Stream!SizeIsLimited'
  <2>1. UnderWay' = UnderWay /\ Heard' = Stream!None
    BY <1>3 DEF Stream!Take
  <2>2. Len(Stream!None.payload) <= MaxMessage
    BY ReaderAssumption, EmptySeq DEF Stream!None
  <2> QED
    BY <2>1, <2>2 DEF Stream!TextIsUtf8, Stream!SizeIsLimited, Stream!Utf8, Stream!None
<1>4. CASE UNCHANGED Stream!vars
  BY <1>4 DEF Stream!vars, Stream!TextIsUtf8, Stream!SizeIsLimited, Stream!Utf8
<1> QED
  BY <1>1, <1>2, <1>3, <1>4 DEF Stream!Next

\* A text that is handed over is UTF-8 up to its last character.  No data message that is
\* handed over is longer than max_message_size, nor are the whole frames of one under way,
\* although a size may wrap: the frame that does it does not come to its end.
THEOREM HeardIsSound == Spec => [](Stream!TextIsUtf8 /\ Stream!SizeIsLimited)
<1>1. Stream!Init => Stream!TextIsUtf8 /\ Stream!SizeIsLimited
  BY ReaderAssumption, EmptySeq
     DEF Stream!Init, Stream!TextIsUtf8, Stream!SizeIsLimited, Stream!None
<1>2. Stream!TextIsUtf8 /\ Stream!SizeIsLimited /\ [Stream!Next]_Stream!vars =>
        Stream!TextIsUtf8' /\ Stream!SizeIsLimited'
  BY StreamStep
<1> QED
  BY <1>1, <1>2, ReaderImplementsStream, PTL DEF ImplementsStream, Stream!Spec

=============================================================================
