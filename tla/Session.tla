------------------------------- MODULE Session -------------------------------
(***************************************************************************)
(* What one websocket session promises to the code that sends on it.       *)
(* Frames are accepted in one order and reach the wire in that order; the  *)
(* session only ever moves forward; a close frame is the last frame on the *)
(* wire; and accepted frames are given up only when the session ends.      *)
(*                                                                         *)
(* A frame is a pair: its kind, and a number that tells apart the data     *)
(* frames of the game threads.                                             *)
(***************************************************************************)
EXTENDS Naturals, Sequences

CONSTANTS Frames   \* what may be sent

VARIABLES
  phase,     \* where the session is
  wire,      \* the frames the transport took, oldest first
  pending    \* the accepted frames that are still to be written

vars == <<phase, wire, pending>>

Phases == {"connecting", "open", "closing", "closed"}

Close == <<"close", 0>>

Init ==
  /\ phase = "connecting"
  /\ wire = <<>>
  /\ pending = <<>>

\* The opening handshake succeeded.
Establish ==
  /\ phase = "connecting"
  /\ phase' = "open"
  /\ UNCHANGED <<wire, pending>>

\* A frame is accepted.  One that was promised in time may come after the end.
Accept ==
  /\ phase # "connecting"
  /\ \E f \in Frames : pending' = Append(pending, f)
  /\ UNCHANGED <<phase, wire>>

\* The closing handshake starts, with the server's close frame.
StartClosing ==
  /\ phase = "open"
  /\ phase' = "closing"
  /\ pending' = Append(pending, Close)
  /\ UNCHANGED wire

\* The transport takes the next frame.
Write ==
  /\ phase \in {"open", "closing"}
  /\ pending # <<>>
  /\ \A i \in 1..Len(wire) : wire[i] # Close
  /\ wire' = Append(wire, Head(pending))
  /\ pending' = Tail(pending)
  /\ UNCHANGED phase

\* The session ends, or has ended; frames that were not written may be given up.
End ==
  /\ phase' = "closed"
  /\ \E k \in 0..Len(pending) : pending' = SubSeq(pending, k + 1, Len(pending))
  /\ UNCHANGED wire

Next == Establish \/ Accept \/ StartClosing \/ Write \/ End

Spec == Init /\ [][Next]_vars

-----------------------------------------------------------------------------

\* Nothing is written after a close frame.
CloseIsLast == \A i \in 1..Len(wire) : wire[i] = Close => i = Len(wire)

=============================================================================
