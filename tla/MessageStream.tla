---------------------------- MODULE MessageStream ----------------------------
(***************************************************************************)
(* What the frames of a peer mean, one whole frame at a time: the messages *)
(* the program is given, and which frames end the reading.                 *)
(*                                                                         *)
(* Of a payload only its division into characters matters: "single" is a   *)
(* character of one byte, "lead" and "tail" the bytes of one of two.       *)
(*                                                                         *)
(* Two rules are those of the code and not of its comments.  A text in     *)
(* several frames may end inside a character: FrameReader has the comment  *)
(* that denies it as TextEndsOnCodePoint, which is violated.  And a frame  *)
(* with which the message would be too long is refused, but the reader     *)
(* need not see that by its length: it may do so only where memory ends.   *)
(***************************************************************************)
EXTENDS Naturals, Sequences

CONSTANTS
  BasicMax,     \* the longest payload whose length fits the basic header (125)
  ExtMax,       \* the longest one whose length fits two bytes (65535)
  MaxMessage,   \* max_message_size
  Inputs        \* the frames of the peer

VARIABLES
  message,   \* the data message whose last frame has not come yet, or None
  heard,     \* the message that is handed to the program, or None
  failed     \* a frame was refused: nothing is read any more

vars == <<message, heard, failed>>

Bytes == {"single", "lead", "tail"}
Opcodes == {"text", "binary", "continuation", "control", "reserved"}
Codes == {"basic", "16", "64"}

\* A frame as its sender made it; `code` says where its length stands.
Frames ==
  {f \in [op : Opcodes, fin : BOOLEAN, rsv : BOOLEAN, masked : BOOLEAN,
          code : Codes, key : Nat, payload : Seq(Bytes)] :
     /\ f.code = "basic" => Len(f.payload) <= BasicMax
     /\ f.code = "16" => Len(f.payload) <= ExtMax}

None == [op |-> "none", payload |-> <<>>]
Data(op, payload) == [op |-> op, payload |-> payload]

-----------------------------------------------------------------------------
(* Which frames are accepted.                                              *)

Control(f) == f.op = "control"

\* validate_incoming_basic_header: begun says that a data message is under way.
BasicOK(f, begun) ==
  /\ Control(f) => f.code = "basic" /\ f.fin
  /\ ~f.rsv
  /\ f.op # "reserved"
  /\ ~Control(f) => (f.op = "continuation" <=> begun)
  /\ f.masked

\* validate_incoming_extended_header: the length stands in as few bytes as it can.
LengthOK(f) ==
  /\ f.code = "16" => Len(f.payload) > BasicMax
  /\ f.code = "64" => Len(f.payload) > ExtMax

\* The message with this frame, whole or not.
With(f) ==
  IF f.op = "continuation" THEN Data(message.op, message.payload \o f.payload)
  ELSE Data(f.op, f.payload)

\* A text up to its last character, which may be cut.
Utf8(s) == \A i \in 1..Len(s) : s[i] = "tail" <=> (i > 1 /\ s[i - 1] = "lead")

\* The last character is not cut.
Uncut(s) == s = <<>> \/ s[Len(s)] # "lead"

\* The last line asks for the opcode of this frame, not for that of the message: of a text
\* in several frames the last is a continuation.
Acceptable(f) ==
  /\ BasicOK(f, message # None)
  /\ LengthOK(f)
  /\ ~Control(f) =>
       /\ Len(With(f).payload) <= MaxMessage
       /\ With(f).op = "text" => Utf8(With(f).payload)
  /\ f.fin /\ f.op = "text" => Uncut(f.payload)

-----------------------------------------------------------------------------

Init == message = None /\ heard = None /\ failed = FALSE

\* A frame that is accepted ends a message, begins one, or adds to one; a control
\* frame is a message of its own, also between the frames of another.
Accept(f) ==
  /\ ~failed /\ heard = None
  /\ Acceptable(f)
  /\ IF f.fin THEN heard' = With(f) ELSE UNCHANGED heard
  /\ IF Control(f) THEN UNCHANGED message
     ELSE message' = IF f.fin THEN None ELSE With(f)
  /\ UNCHANGED failed

\* A frame that is not accepted is the last one; the message under way is given up.
Refuse(f) ==
  /\ ~failed /\ heard = None
  /\ ~Acceptable(f)
  /\ failed' = TRUE
  /\ message' = None
  /\ UNCHANGED heard

\* The program is called with the message.
Take ==
  /\ heard # None
  /\ heard' = None
  /\ UNCHANGED <<message, failed>>

Next == (\E f \in Inputs : Accept(f) \/ Refuse(f)) \/ Take

Spec == Init /\ [][Next]_vars

-----------------------------------------------------------------------------

\* A text the program is given is UTF-8, but its last character may be cut.
TextIsUtf8 == heard.op = "text" => Utf8(heard.payload)

\* No message is longer than max_message_size: neither one that is handed over, nor the
\* whole frames of one under way.  Of a frame that is still being read it says nothing.
SizeIsLimited ==
  /\ Len(message.payload) <= MaxMessage
  /\ heard.op # "control" => Len(heard.payload) <= MaxMessage

=============================================================================
