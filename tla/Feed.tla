-------------------------------- MODULE Feed --------------------------------
(***************************************************************************)
(* What the tracker promises its listeners.  Game events are published in  *)
(* one global order, and every listener is given a segment of that order:  *)
(* from the event it joined at, each next one without a gap or a           *)
(* repetition, up to the event it left at.                                 *)
(*                                                                         *)
(* An event is named by its position in the global order, 1, 2, ...  The   *)
(* answers to a listener's own "info" requests are interleaved with the    *)
(* events it gets; they have no position and are written as Reply.         *)
(***************************************************************************)
EXTENDS Naturals, Sequences

CONSTANTS Conns

VARIABLES
  published,   \* how many events were published so far
  log          \* per listener, what it was given, oldest first

vars == <<published, log>>

Reply == 0

\* The events among the messages of q.
Events(q) == {q[i] : i \in 1..Len(q)} \ {Reply}

Init ==
  /\ published = 0
  /\ log = [c \in Conns |-> <<>>]

Publish ==
  /\ published' = published + 1
  /\ UNCHANGED log

\* The first event a listener is given is any published one, then it is the next.
Deliver(c) ==
  /\ \E m \in 1..published :
       /\ \A e \in Events(log[c]) : e < m
       /\ Events(log[c]) # {} => m - 1 \in Events(log[c])
       /\ log' = [log EXCEPT ![c] = Append(@, m)]
  /\ UNCHANGED published

Answer(c) ==
  /\ log' = [log EXCEPT ![c] = Append(@, Reply)]
  /\ UNCHANGED published

Next ==
  \/ Publish
  \/ \E c \in Conns : Deliver(c) \/ Answer(c)

Spec == Init /\ [][Next]_vars

-----------------------------------------------------------------------------

TypeOK ==
  /\ published \in Nat
  /\ log \in [Conns -> Seq(0..published)]

\* The events of one log are in the order they were published, none twice.
InOrder(c) ==
  \A i, j \in 1..Len(log[c]) :
    (i < j /\ log[c][i] # Reply /\ log[c][j] # Reply) => log[c][i] < log[c][j]

\* No event between two events of one log is missing from it.
NoGaps(c) ==
  \A m, n \in Events(log[c]) : \A k \in m..n : k \in Events(log[c])

(***************************************************************************)
(* Each listener has a segment of the global order.  So no two listeners   *)
(* see two events in opposite orders, and none gets an event twice.        *)
(***************************************************************************)
Segments == \A c \in Conns : InOrder(c) /\ NoGaps(c)

=============================================================================
