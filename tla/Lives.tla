-------------------------------- MODULE Lives --------------------------------
(***************************************************************************)
(* What the tracker promises about the players, in the words of the        *)
(* comments of functionality.cpp:133-145: a player that enters the game is *)
(* reported as spawned, a player that dies is reported as dead.            *)
(*                                                                         *)
(* Two animations belong to entering the game, and the second may follow   *)
(* the first; together they are one spawn.  Every change to an animation   *)
(* of dying is a death.                                                    *)
(***************************************************************************)
EXTENDS Sequences

CONSTANTS
  Players,  \* the players that are in the game
  Spawns,   \* the animations of entering the game
  Deaths,   \* the animations of dying
  Others,   \* every other animation
  Unknown   \* the animation of a player of whom the tracker has seen none

VARIABLES
  anim,     \* per player: its last animation
  reports   \* what was reported, oldest first

Report == [kind : {"spawn", "death"}, player : Players]

Init ==
  /\ anim = [p \in Players |-> Unknown]
  /\ reports = <<>>

\* What the change from animation b to animation a is reported as.
Kind(b, a) ==
  CASE a \in Spawns /\ b \notin Spawns -> "spawn"
    [] a \in Deaths /\ b # a -> "death"
    [] OTHER -> "nothing"

SetAnimation(p, a) ==
  /\ anim' = [anim EXCEPT ![p] = a]
  /\ reports' = IF Kind(anim[p], a) = "nothing"
                THEN reports
                ELSE Append(reports, [kind |-> Kind(anim[p], a), player |-> p])

Next == \E p \in Players, a \in Spawns \cup Deaths \cup Others : SetAnimation(p, a)

Spec == Init /\ [][Next]_<<anim, reports>>

=============================================================================
