----------------------------- MODULE PatternScan -----------------------------
(***************************************************************************)
(* mem.cpp: FindPattern, the search of the game's image for a signature,   *)
(* byte by byte, by the tracker's thread, while the game goes on writing to*)
(* its data, which are part of the image.                                  *)
(*                                                                         *)
(* A signature is a sequence of bytes and wildcards; `pattern` and `mask`  *)
(* of the code are one sequence here.  Addresses count from the beginning  *)
(* of the image, bytes of the pattern from 0.                              *)
(***************************************************************************)
EXTENDS Integers, Sequences

CONSTANTS
  Size,        \* SizeOfImage
  Bytes,       \* the values of a byte
  Wild,        \* "??" in a signature
  Code,        \* the addresses that the game does not write to
  Signatures,  \* the signatures that may be looked for
  Modulus,     \* 2^64: what a size_t counts up to
  NotFound     \* the result 0

ASSUME SizesAssumption ==
  /\ Size \in Nat /\ Modulus \in Nat /\ Size < Modulus
  /\ NotFound \notin Nat
ASSUME CodeAssumption == Code \subseteq 0..Size-1
ASSUME SignaturesAssumption ==
  \A s \in Signatures : s \in Seq(Bytes \cup {Wild}) /\ Len(s) < Modulus
ASSUME WildAssumption == Wild \notin Bytes

VARIABLES
  image,    \* the bytes of the image
  pattern,  \* the signature that is looked for
  pc,       \* where FindPattern is
  i,        \* the place it tries
  j,        \* the byte of the pattern it compares
  found,    \* "true" as long as the place agrees with the pattern
  result    \* what it returns

vars == <<image, pattern, pc, i, j, found, result>>

Image == 0..Size-1

\* size - pattern.size(), in unsigned arithmetic.
Limit == IF Len(pattern) <= Size THEN Size - Len(pattern) ELSE Size - Len(pattern) + Modulus

At(n) == pattern[n + 1]

Init ==
  /\ image \in [Image -> Bytes]
  /\ pattern \in Signatures
  /\ pc = "module"
  /\ i = 0
  /\ j = 0
  /\ found = "true"
  /\ result = NotFound

-----------------------------------------------------------------------------

\* GetModuleInformation fails.
NoModule ==
  /\ pc = "module"
  /\ pc' = "no module"
  /\ UNCHANGED <<image, pattern, i, j, found, result>>

Begin ==
  /\ pc = "module"
  /\ pc' = "place"
  /\ UNCHANGED <<image, pattern, i, j, found, result>>

\* Mutant of MorePlaces: `i` may run past the end.
MorePlacesToEnd == i < Size

\* Mutant of MorePlaces: `<=` for `<`.
MorePlacesOrEqual == i <= Limit

MorePlaces == i < Limit

\* Mutant of TryPlace: `found` is declared outside the loop.
TryPlaceAsBefore ==
  /\ pc = "place"
  /\ MorePlaces
  /\ pc' = "byte"
  /\ j' = 0
  /\ UNCHANGED <<image, pattern, i, found, result>>

\* The body of the outer loop begins: found = true, j = 0.
TryPlace ==
  /\ pc = "place"
  /\ MorePlaces
  /\ pc' = "byte"
  /\ j' = 0
  /\ found' = "true"
  /\ UNCHANGED <<image, pattern, i, result>>

\* The outer loop is over.
Exhausted ==
  /\ pc = "place"
  /\ ~MorePlaces
  /\ pc' = "done"
  /\ UNCHANGED <<image, pattern, i, j, found, result>>

MoreBytes == pc = "byte" /\ j < Len(pattern)

\* A wildcard: `||` does not read the image.
SkipByte ==
  /\ MoreBytes
  /\ At(j) = Wild
  /\ j' = j + 1
  /\ UNCHANGED <<image, pattern, pc, i, found, result>>

\* Mutant of CompareByte: `=` for `&=`.
CompareLastByte ==
  /\ MoreBytes
  /\ At(j) # Wild
  /\ i + j \in Image
  /\ found' = IF image[i + j] = At(j) THEN "true" ELSE "false"
  /\ j' = j + 1
  /\ UNCHANGED <<image, pattern, pc, i, result>>

CompareByte ==
  /\ MoreBytes
  /\ At(j) # Wild
  /\ i + j \in Image
  /\ found' = IF image[i + j] = At(j) THEN found ELSE "false"
  /\ j' = j + 1
  /\ UNCHANGED <<image, pattern, pc, i, result>>

\* A read behind the image faults, or gives whatever is there.
ReadOutside ==
  /\ MoreBytes
  /\ At(j) # Wild
  /\ i + j \notin Image
  /\ \/ pc' = "fault" /\ UNCHANGED <<j, found>>
     \/ j' = j + 1 /\ found' \in {found, "false"} /\ UNCHANGED pc
  /\ UNCHANGED <<image, pattern, i, result>>

\* The inner loop is over, and the place is the one.
Return ==
  /\ pc = "byte" /\ j = Len(pattern)
  /\ found = "true"
  /\ result' = i
  /\ pc' = "done"
  /\ UNCHANGED <<image, pattern, i, j, found>>

\* Mutant of NextPlace: `i` is not counted up.
SamePlace ==
  /\ pc = "byte" /\ j = Len(pattern)
  /\ found = "false"
  /\ pc' = "place"
  /\ UNCHANGED <<image, pattern, i, j, found, result>>

\* The inner loop is over, and the place is not the one.
NextPlace ==
  /\ pc = "byte" /\ j = Len(pattern)
  /\ found = "false"
  /\ i' = i + 1
  /\ pc' = "place"
  /\ UNCHANGED <<image, pattern, j, found, result>>

FindPattern ==
  \/ NoModule \/ Begin \/ TryPlace \/ Exhausted
  \/ SkipByte \/ CompareByte \/ ReadOutside \/ Return \/ NextPlace

\* The game writes to its data.
GameWrites ==
  /\ \E a \in Image \ Code, b \in Bytes : image' = [image EXCEPT ![a] = b]
  /\ UNCHANGED <<pattern, pc, i, j, found, result>>

Next == FindPattern \/ GameWrites

Spec == Init /\ [][Next]_vars

\* The tracker's thread goes on executing.
FairSpec == Spec /\ WF_vars(FindPattern)

-----------------------------------------------------------------------------
(* Properties.                                                             *)

\* The first n bytes of the pattern agree with the code at place k; what the game
\* may write to does not count against them ...
Agrees(k, n) ==
  \A m \in 0..n-1 : At(m) # Wild /\ k + m \in Code => image[k + m] = At(m)

\* ... and whatever it writes, the pattern is at place k.
Matches(k) == \A m \in 0..Len(pattern)-1 : At(m) # Wild => k + m \in Code /\ image[k + m] = At(m)

TypeOK ==
  /\ image \in [Image -> Bytes]
  /\ pattern \in Signatures
  /\ pc \in {"module", "no module", "place", "byte", "done", "fault"}
  /\ i \in 0..Limit
  /\ j \in 0..Len(pattern)
  /\ found \in {"true", "false"}
  /\ result \in Nat \cup {NotFound}

(***************************************************************************)
(* FindPattern does not return a place where the code is not the pattern,  *)
(* however the bytes of data in between change (mem.cpp:92-97): a hook at  *)
(* such a place would destroy the game.                                    *)
(***************************************************************************)
ResultAgrees == result # NotFound => Agrees(result, Len(pattern))

(***************************************************************************)
(* FindPattern does not miss the pattern: when it is in the code, at a     *)
(* place before the last one where it fits, the result is this place or an *)
(* earlier one.  The loop of mem.cpp:90 does not try the last one.         *)
(***************************************************************************)
MatchFound ==
  pc = "done" => \A k \in Image :
    k + Len(pattern) < Size /\ Matches(k) => result # NotFound /\ result <= k

(***************************************************************************)
(* A signature that is not longer than the image is looked for inside the  *)
(* image only; with a longer one the unsigned subtraction of mem.cpp:90    *)
(* wraps around.                                                           *)
(***************************************************************************)
ReadsInside ==
  Len(pattern) <= Size => /\ pc # "fault"
                          /\ MoreBytes => i + j \in Image

(***************************************************************************)
(* The search comes to an end.                                             *)
(***************************************************************************)
ScanEnds == pc = "module" ~> pc \in {"no module", "done", "fault"}

-----------------------------------------------------------------------------
(* The inductive invariant behind the safety properties.                   *)

\* No place before n has the pattern.
NoneBefore(n) == \A k \in 0..n-1 : k + Len(pattern) < Size => ~Matches(k)

LoopInv ==
  /\ pc \in {"module", "no module"} => i = 0 /\ result = NotFound
  /\ pc \in {"place", "byte"} => NoneBefore(i) /\ result = NotFound
  /\ pc = "byte" =>
       /\ i < Limit
       /\ found = "true" => Agrees(i, j)
       /\ found = "false" /\ i + Len(pattern) < Size => ~Matches(i)
  /\ pc = "fault" => Len(pattern) > Size /\ result = NotFound

ResultInv ==
  pc = "done" =>
    IF result = NotFound THEN NoneBefore(Limit)
                         ELSE NoneBefore(result) /\ Agrees(result, Len(pattern))

IInv == TypeOK /\ LoopInv /\ ResultInv

-----------------------------------------------------------------------------
(* What the invariant says of the end of the search.                       *)

\* How many steps the search makes at most from here: at every place before Limit it
\* begins, goes through the whole pattern, matching or not, and goes on.
StepsLeft ==
  CASE pc = "module" -> Limit * (Len(pattern) + 2) + 2
    [] pc = "place"  -> (Limit - i) * (Len(pattern) + 2) + 1
    [] pc = "byte"   -> (Limit - i) * (Len(pattern) + 2) - j
    [] OTHER         -> 0

(***************************************************************************)
(* The search is over after so many steps, also with the limit of a        *)
(* signature that is too long, and nothing the game writes prolongs it.    *)
(***************************************************************************)
ScanAdvances ==
  [][/\ StepsLeft \in Nat
     /\ FindPattern => StepsLeft' < StepsLeft
     /\ ~FindPattern => StepsLeft' = StepsLeft]_vars

=============================================================================
