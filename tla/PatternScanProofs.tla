-------------------------- MODULE PatternScanProofs ---------------------------
(***************************************************************************)
(* Proofs about PatternScan, for every image, every set of signatures and  *)
(* whatever the game writes: the loop invariant, that a result is a match, *)
(* that no match is missed but at the last place, and that the image is    *)
(* not left.                                                               *)
(***************************************************************************)
EXTENDS PatternScan, TLAPS

(***************************************************************************)
(* The bound of the outer loop.                                            *)
(***************************************************************************)
LEMMA LimitFacts ==
  ASSUME pattern \in Signatures
  PROVE  /\ Len(pattern) \in Nat
         /\ Limit \in Nat
         /\ Len(pattern) <= Size => Limit = Size - Len(pattern)
<1>1. pattern \in Seq(Bytes \cup {Wild}) /\ Len(pattern) < Modulus
  BY SignaturesAssumption
<1>2. Len(pattern) \in Nat
  BY <1>1
<1>3. Size \in Nat /\ Modulus \in Nat
  BY SizesAssumption
<1> QED BY <1>1, <1>2, <1>3 DEF Limit

(***************************************************************************)
(* What the game writes does not change what the code says.                *)
(***************************************************************************)
LEMMA CodeIsStable ==
  ASSUME TypeOK, GameWrites
  PROVE  /\ \A a \in Code : image'[a] = image[a]
         /\ image' \in [Image -> Bytes]
BY CodeAssumption DEF GameWrites, TypeOK, Image

(***************************************************************************)
(* So a place agrees, or matches, after the game's write as before it.     *)
(***************************************************************************)
LEMMA PlacesAreStable ==
  ASSUME TypeOK, GameWrites
  PROVE  /\ \A k, n : Agrees(k, n) => Agrees(k, n)'
         /\ \A k : Matches(k)' => Matches(k)
<1>1. /\ \A a \in Code : image'[a] = image[a]
      /\ pattern' = pattern
  BY CodeIsStable DEF GameWrites
<1>2. ASSUME NEW k, NEW n, Agrees(k, n) PROVE Agrees(k, n)'
  BY <1>1, <1>2 DEF Agrees, At
<1>3. ASSUME NEW k, Matches(k)' PROVE Matches(k)
  BY <1>1, <1>3 DEF Matches, At
<1> QED BY <1>2, <1>3

-----------------------------------------------------------------------------
(* Each step keeps the invariant.                                          *)

(***************************************************************************)
(* The outer loop: a place is tried, or there is none left.                *)
(***************************************************************************)
LEMMA OuterStep ==
  ASSUME IInv, NoModule \/ Begin \/ TryPlace \/ Exhausted PROVE IInv'
<1>1. /\ TypeOK /\ LoopInv /\ ResultInv
      /\ Limit \in Nat /\ Len(pattern) \in Nat
      /\ i \in 0..Limit
  BY LimitFacts DEF IInv, TypeOK
<1>2. UNCHANGED <<image, pattern, i, result>>
  BY DEF NoModule, Begin, TryPlace, Exhausted
<1>3. Limit' = Limit /\ (\A n : NoneBefore(n)' <=> NoneBefore(n))
  BY <1>2 DEF Limit, NoneBefore, Matches, At
<1>4. TypeOK'
  <2>1. /\ pc' \in {"module", "no module", "place", "byte", "done", "fault"}
        /\ j' \in {j, 0}
        /\ found' \in {found, "true"}
    BY DEF NoModule, Begin, TryPlace, Exhausted
  <2>2. 0 \in 0..Len(pattern)
    BY <1>1
  <2> QED BY <1>1, <1>2, <1>3, <2>1, <2>2 DEF TypeOK
<1>5. CASE NoModule
  BY <1>1, <1>2, <1>4, <1>5 DEF NoModule, IInv, LoopInv, ResultInv
<1>6. CASE Begin
  <2>1. i = 0
    BY <1>1, <1>6 DEF Begin, LoopInv
  <2>2. NoneBefore(0)
    BY DEF NoneBefore
  <2> QED BY <1>1, <1>2, <1>3, <1>4, <1>6, <2>1, <2>2 DEF Begin, IInv, LoopInv, ResultInv
<1>7. CASE TryPlace
  <2>1. Agrees(i, 0)'
    BY DEF Agrees
  <2>2. j' = 0 /\ found' = "true" /\ pc' = "byte" /\ pc = "place" /\ i < Limit
    BY <1>7 DEF TryPlace, MorePlaces
  <2>3. Agrees(i, j)'
    BY <2>1, <2>2 DEF Agrees
  <2> QED BY <1>1, <1>2, <1>3, <1>4, <2>2, <2>3 DEF IInv, LoopInv, ResultInv
<1>8. CASE Exhausted
  <2>1. i = Limit /\ pc = "place" /\ pc' = "done"
    BY <1>1, <1>8 DEF Exhausted, MorePlaces
  <2> QED BY <1>1, <1>2, <1>3, <1>4, <2>1 DEF IInv, LoopInv, ResultInv
<1> QED BY <1>5, <1>6, <1>7, <1>8

(***************************************************************************)
(* The inner loop: one byte more agrees, or the place is given up.         *)
(***************************************************************************)
LEMMA InnerStep ==
  ASSUME IInv, SkipByte \/ CompareByte \/ ReadOutside PROVE IInv'
<1>1. /\ TypeOK /\ LoopInv /\ pc = "byte"
      /\ Limit \in Nat /\ Len(pattern) \in Nat /\ Size \in Nat
      /\ i \in 0..Limit /\ j \in 0..Len(pattern) /\ j < Len(pattern)
      /\ i < Limit /\ result = NotFound /\ NoneBefore(i)
  BY LimitFacts, SizesAssumption
     DEF IInv, TypeOK, LoopInv, SkipByte, CompareByte, ReadOutside, MoreBytes
<1>2. UNCHANGED <<image, pattern, i, result>>
  BY DEF SkipByte, CompareByte, ReadOutside
<1>3. /\ Limit' = Limit /\ (\A n : NoneBefore(n)' <=> NoneBefore(n))
      /\ \A k : Matches(k)' <=> Matches(k)
      /\ \A k, n : Agrees(k, n)' <=> Agrees(k, n)
  BY <1>2 DEF Limit, NoneBefore, Matches, Agrees, At
<1>4. /\ found = "true" => Agrees(i, j)
      /\ found = "false" /\ i + Len(pattern) < Size => ~Matches(i)
  BY <1>1 DEF LoopInv
<1>5. CASE ReadOutside
  <2>1. Len(pattern) > Size
    <3> SUFFICES ASSUME Len(pattern) <= Size PROVE FALSE
      BY <1>1
    <3>1. Limit = Size - Len(pattern)
      BY <1>1, LimitFacts DEF TypeOK
    <3>2. i + j \notin 0..Size-1
      BY <1>5 DEF ReadOutside, Image
    <3> QED BY <1>1, <3>1, <3>2
  <2>2. ~(i + Len(pattern) < Size)
    BY <1>1, <2>1
  <2>3. CASE pc' = "fault" /\ UNCHANGED <<j, found>>
    <3>1. TypeOK'
      BY <1>1, <1>2, <1>3, <2>3 DEF TypeOK
    <3> QED BY <1>1, <1>2, <2>1, <2>3, <3>1 DEF IInv, LoopInv, ResultInv
  <2>4. CASE pc' = pc /\ j' = j + 1 /\ found' \in {found, "false"}
    <3>1. j' \in 0..Len(pattern)
      BY <1>1, <2>4
    <3>2. found' \in {"true", "false"}
      BY <1>1, <2>4 DEF TypeOK
    <3>3. TypeOK'
      BY <1>1, <1>2, <1>3, <2>4, <3>1, <3>2 DEF TypeOK
    <3>4. found' = "true" => Agrees(i, j')
      <4> SUFFICES ASSUME found' = "true", NEW m \in 0..j'-1, At(m) # Wild, i + m \in Code
                   PROVE  image[i + m] = At(m)
        BY DEF Agrees
      <4>1. i + m \in 0..Size-1 /\ i + j \notin 0..Size-1
        BY <1>5, CodeAssumption DEF ReadOutside, Image
      <4>2. m \in 0..j-1
        BY <1>1, <2>4, <4>1
      <4>3. found = "true"
        BY <2>4
      <4> QED BY <1>4, <4>2, <4>3 DEF Agrees
    <3>5. (found = "true" => Agrees(i, j))'
      BY <1>2, <1>3, <3>4
    <3> QED BY <1>1, <1>2, <1>3, <2>2, <2>4, <3>3, <3>5 DEF IInv, LoopInv, ResultInv
  <2> QED BY <1>5, <2>3, <2>4 DEF ReadOutside
<1>6. CASE SkipByte \/ CompareByte
  <2>1. pc' = pc /\ j' = j + 1 /\ j' \in 0..Len(pattern)
    BY <1>1, <1>6 DEF SkipByte, CompareByte
  <2>2. /\ found' \in {"true", "false"}
        /\ found' = "true" => (found = "true" /\ (At(j) # Wild => image[i + j] = At(j)))
        /\ found' = "false" => (found = "false" \/ (At(j) # Wild /\ image[i + j] # At(j)))
    <3>1. found \in {"true", "false"}
      BY <1>1 DEF TypeOK
    <3>2. CASE SkipByte
      <4>1. At(j) = Wild /\ found' = found
        BY <3>2 DEF SkipByte
      <4> QED BY <3>1, <4>1
    <3>3. CASE CompareByte
      <4>1. At(j) # Wild /\ found' = IF image[i + j] = At(j) THEN found ELSE "false"
        BY <3>3 DEF CompareByte
      <4>2. CASE image[i + j] = At(j)
        <5>1. found' = found
          BY <4>1, <4>2
        <5> QED BY <3>1, <4>1, <4>2, <5>1
      <4>3. CASE image[i + j] # At(j)
        <5>1. found' = "false"
          BY <4>1, <4>3
        <5> QED BY <4>1, <4>3, <5>1
      <4> QED BY <4>2, <4>3
    <3> QED BY <1>6, <3>2, <3>3
  <2>3. TypeOK'
    BY <1>1, <1>2, <1>3, <2>1, <2>2 DEF TypeOK
  <2>4. found' = "true" => Agrees(i, j')
    <3> SUFFICES ASSUME found' = "true", NEW m \in 0..j'-1, At(m) # Wild, i + m \in Code
                 PROVE  image[i + m] = At(m)
      BY DEF Agrees
    <3>1. m = j \/ m \in 0..j-1
      BY <1>1, <2>1
    <3> QED BY <1>4, <2>2, <3>1 DEF Agrees
  <2>5. found' = "false" /\ i + Len(pattern) < Size => ~Matches(i)
    <3>1. j \in 0..Len(pattern)-1
      BY <1>1
    <3> QED BY <1>4, <2>2, <3>1 DEF Matches
  <2>6. /\ (found = "true" => Agrees(i, j))'
        /\ (found = "false" /\ i + Len(pattern) < Size => ~Matches(i))'
    BY <1>2, <1>3, <2>4, <2>5
  <2> QED BY <1>1, <1>2, <1>3, <2>1, <2>3, <2>6 DEF IInv, LoopInv, ResultInv
<1> QED BY <1>5, <1>6

(***************************************************************************)
(* The end of the inner loop: the place is the result, or the next one is  *)
(* tried.                                                                  *)
(***************************************************************************)
LEMMA PlaceStep ==
  ASSUME IInv, Return \/ NextPlace PROVE IInv'
<1>1. /\ TypeOK /\ LoopInv /\ pc = "byte" /\ j = Len(pattern)
      /\ Limit \in Nat /\ Len(pattern) \in Nat /\ Size \in Nat
      /\ i \in 0..Limit /\ i < Limit /\ result = NotFound /\ NoneBefore(i)
  BY LimitFacts, SizesAssumption DEF IInv, TypeOK, LoopInv, Return, NextPlace
<1>2. UNCHANGED <<image, pattern, j, found>>
  BY DEF Return, NextPlace
<1>3. /\ Limit' = Limit /\ (\A n : NoneBefore(n)' <=> NoneBefore(n))
      /\ \A k, n : Agrees(k, n)' <=> Agrees(k, n)
  BY <1>2 DEF Limit, NoneBefore, Matches, Agrees, At
<1>4. CASE Return
  <2>1. result' = i /\ pc' = "done" /\ i' = i /\ Agrees(i, Len(pattern))
    BY <1>1, <1>4 DEF Return, LoopInv
  <2>2. result' \in Nat /\ result' # NotFound
    BY <1>1, <2>1, SizesAssumption
  <2>3. TypeOK'
    BY <1>1, <1>2, <1>3, <2>1, <2>2 DEF TypeOK
  <2>4. NoneBefore(result)' /\ Agrees(result, Len(pattern))'
    BY <1>1, <1>2, <2>1 DEF NoneBefore, Matches, Agrees, At
  <2> QED BY <2>1, <2>2, <2>3, <2>4 DEF IInv, LoopInv, ResultInv
<1>5. CASE NextPlace
  <2>1. i' = i + 1 /\ pc' = "place" /\ result' = result /\ i' \in 0..Limit
    BY <1>1, <1>5 DEF NextPlace
  <2>2. i + Len(pattern) < Size => ~Matches(i)
    BY <1>1, <1>5 DEF NextPlace, LoopInv
  <2>3. NoneBefore(i + 1)
    <3> SUFFICES ASSUME NEW k \in 0..i, k + Len(pattern) < Size PROVE ~Matches(k)
      BY <1>1 DEF NoneBefore
    <3>1. k = i \/ k \in 0..i-1
      BY <1>1
    <3> QED BY <1>1, <2>2, <3>1 DEF NoneBefore
  <2>4. NoneBefore(i)'
    BY <1>2, <2>1, <2>3 DEF NoneBefore, Matches, At
  <2>5. TypeOK'
    BY <1>1, <1>2, <1>3, <2>1 DEF TypeOK
  <2> QED BY <1>1, <2>1, <2>4, <2>5 DEF IInv, LoopInv, ResultInv
<1> QED BY <1>4, <1>5

(***************************************************************************)
(* The game's writes keep the invariant.                                   *)
(***************************************************************************)
LEMMA WriteStep ==
  ASSUME IInv, GameWrites PROVE IInv'
<1>1. TypeOK /\ LoopInv /\ ResultInv
  BY DEF IInv
<1>2. UNCHANGED <<pattern, pc, i, j, found, result>> /\ Limit' = Limit
  BY DEF GameWrites, Limit
<1>3. TypeOK'
  BY <1>1, <1>2, CodeIsStable DEF TypeOK
<1>4. \A n : NoneBefore(n) => NoneBefore(n)'
  BY <1>1, <1>2, PlacesAreStable DEF NoneBefore
<1>5. Agrees(i, j) => Agrees(i, j)'
  BY <1>1, <1>2, PlacesAreStable DEF Agrees, At
<1>6. Agrees(result, Len(pattern)) => Agrees(result, Len(pattern))'
  BY <1>1, <1>2, PlacesAreStable DEF Agrees, At
<1>7. Matches(i)' => Matches(i)
  BY <1>1, <1>2, PlacesAreStable DEF Matches, At
<1>8. NoneBefore(i) => NoneBefore(i)'
  BY <1>2, <1>4 DEF NoneBefore, Matches, At
<1>9. /\ NoneBefore(Limit) => NoneBefore(Limit)'
      /\ NoneBefore(result) => NoneBefore(result)'
  BY <1>2, <1>4 DEF NoneBefore, Matches, At
<1> QED BY <1>1, <1>2, <1>3, <1>5, <1>6, <1>7, <1>8, <1>9 DEF IInv, LoopInv, ResultInv

-----------------------------------------------------------------------------
(* The theorems.                                                           *)

(***************************************************************************)
(* IInv holds in every reachable state.                                    *)
(***************************************************************************)
THEOREM PatternScanInvariant == Spec => []IInv
<1>1. Init => IInv
  BY LimitFacts DEF Init, IInv, TypeOK, LoopInv, ResultInv
<1>2. IInv /\ UNCHANGED vars => IInv'
  <2> SUFFICES ASSUME IInv, UNCHANGED vars PROVE IInv'
    OBVIOUS
  <2>1. UNCHANGED <<image, pattern, pc, i, j, found, result>>
    BY DEF vars
  <2>2. TypeOK'
    BY <2>1 DEF IInv, TypeOK, Limit
  <2>3. LoopInv'
    BY <2>1 DEF IInv, LoopInv, Limit, NoneBefore, Matches, Agrees, At
  <2>4. ResultInv'
    BY <2>1 DEF IInv, ResultInv, Limit, NoneBefore, Matches, Agrees, At
  <2> QED BY <2>2, <2>3, <2>4 DEF IInv
<1>3. IInv /\ Next => IInv'
  BY OuterStep, InnerStep, PlaceStep, WriteStep DEF Next, FindPattern
<1> QED BY <1>1, <1>2, <1>3, PTL DEF Spec

(***************************************************************************)
(* The types of the variables: i and j stay within their loops.            *)
(***************************************************************************)
THEOREM PatternScanTypes == Spec => []TypeOK
<1>1. IInv => TypeOK
  BY DEF IInv
<1> QED BY <1>1, PatternScanInvariant, PTL

(***************************************************************************)
(* What FindPattern returns agrees with the pattern (mem.cpp:92-97).       *)
(***************************************************************************)
THEOREM ResultsAgree == Spec => []ResultAgrees
<1>1. IInv => ResultAgrees
  BY DEF IInv, TypeOK, LoopInv, ResultInv, ResultAgrees
<1> QED BY <1>1, PatternScanInvariant, PTL

(***************************************************************************)
(* FindPattern returns the first match, if there is one before the last    *)
(* place where the pattern fits (mem.cpp:90-101).                          *)
(***************************************************************************)
THEOREM MatchesAreFound == Spec => []MatchFound
<1>1. IInv => MatchFound
  <2> SUFFICES ASSUME IInv, pc = "done", NEW k \in Image, k + Len(pattern) < Size, Matches(k)
               PROVE  result # NotFound /\ result <= k
    BY DEF MatchFound
  <2>1. /\ Len(pattern) \in Nat /\ Size \in Nat /\ k \in Nat
        /\ Limit = Size - Len(pattern)
    BY LimitFacts, SizesAssumption DEF IInv, TypeOK, Image
  <2>2. k \in 0..Limit-1
    BY <2>1
  <2>3. result # NotFound
    BY <2>2 DEF IInv, ResultInv, NoneBefore
  <2>4. result \in Nat /\ NoneBefore(result)
    BY <2>3 DEF IInv, TypeOK, ResultInv
  <2> QED BY <2>1, <2>3, <2>4 DEF NoneBefore
<1> QED BY <1>1, PatternScanInvariant, PTL

(***************************************************************************)
(* FindPattern reads the image only, if the signature is not longer.       *)
(***************************************************************************)
THEOREM ReadsAreInside == Spec => []ReadsInside
<1>1. IInv => ReadsInside
  <2> SUFFICES ASSUME IInv, Len(pattern) <= Size
               PROVE  pc # "fault" /\ (MoreBytes => i + j \in Image)
    BY DEF ReadsInside
  <2>1. /\ Len(pattern) \in Nat /\ Size \in Nat /\ Limit = Size - Len(pattern)
        /\ i \in 0..Limit /\ j \in 0..Len(pattern)
    BY LimitFacts, SizesAssumption DEF IInv, TypeOK
  <2>2. pc # "fault"
    <3>1. pc = "fault" => Len(pattern) > Size
      BY DEF IInv, LoopInv
    <3> QED BY <2>1, <3>1
  <2>3. MoreBytes => i < Limit /\ j < Len(pattern)
    BY DEF IInv, LoopInv, MoreBytes
  <2> QED BY <2>1, <2>2, <2>3 DEF Image
<1> QED BY <1>1, PatternScanInvariant, PTL

-----------------------------------------------------------------------------
(* The end of the search.                                                  *)

(***************************************************************************)
(* The arithmetic of the count: n places left of w steps each, j bytes of  *)
(* the pattern compared.                                                   *)
(***************************************************************************)
LEMMA PlacesLeft ==
  ASSUME NEW n \in Nat, NEW m \in Nat, NEW k \in 0..m
  PROVE  /\ n * (m + 2) \in Nat
         /\ n > 0 => /\ (n - 1) * (m + 2) = n * (m + 2) - (m + 2)
                     /\ n * (m + 2) - k \in Nat
                     /\ n * (m + 2) - k >= 2
<1>1. n * (m + 2) \in Nat
  OBVIOUS
<1>2. ASSUME n > 0
      PROVE  (n - 1) * (m + 2) = n * (m + 2) - (m + 2) /\ (n - 1) * (m + 2) \in Nat
  BY <1>2
<1>3. ASSUME NEW p \in Nat, NEW q \in Nat, q = p - (m + 2)
      PROVE  p - k \in Nat /\ p - k >= 2
  <2>1. p = q + (m + 2) /\ k <= m /\ k \in Nat
    BY <1>3
  <2> QED
    BY <2>1
<1> DEFINE p == n * (m + 2)
           q == (n - 1) * (m + 2)
<1>4. ASSUME n > 0
      PROVE  p - k \in Nat /\ p - k >= 2
  <2>1. p \in Nat /\ q \in Nat /\ q = p - (m + 2)
    BY <1>1, <1>2, <1>4
  <2> HIDE DEF p, q
  <2> QED
    BY <1>3, <2>1
<1> QED
  BY <1>1, <1>2, <1>4

(***************************************************************************)
(* The count is a number of steps, and it is at least one as long as       *)
(* FindPattern runs.                                                       *)
(***************************************************************************)
LEMMA CountIsNat ==
  ASSUME IInv
  PROVE  StepsLeft \in Nat
<1>1. Limit \in Nat /\ Len(pattern) \in Nat /\ i \in 0..Limit /\ j \in 0..Len(pattern)
  BY LimitFacts DEF IInv, TypeOK
<1>2. Limit - i \in Nat /\ (i < Limit => Limit - i > 0)
  BY <1>1
<1>3. /\ Limit * (Len(pattern) + 2) + 2 \in Nat
      /\ (Limit - i) * (Len(pattern) + 2) + 1 \in Nat
  <2>1. Limit * (Len(pattern) + 2) \in Nat /\ (Limit - i) * (Len(pattern) + 2) \in Nat
    BY <1>1, <1>2, PlacesLeft
  <2> QED
    BY <2>1
<1>4. i < Limit => (Limit - i) * (Len(pattern) + 2) - j \in Nat
  BY <1>1, <1>2, PlacesLeft
<1>5. pc = "byte" => i < Limit
  BY DEF IInv, LoopInv
<1>6. 0 \in Nat
  OBVIOUS
<1> QED
  BY <1>3, <1>4, <1>5, <1>6, Zenon DEF StepsLeft

(***************************************************************************)
(* A step of the search at the place it tries.                             *)
(***************************************************************************)
LEMMA CountGoesDown ==
  ASSUME IInv, FindPattern
  PROVE  StepsLeft' < StepsLeft
<1> DEFINE w == Len(pattern) + 2
           r == (Limit - i) * w
<1>0. /\ Limit \in Nat /\ Len(pattern) \in Nat
      /\ i \in 0..Limit /\ j \in 0..Len(pattern)
      /\ pc = "byte" => i < Limit
  BY LimitFacts DEF IInv, TypeOK, LoopInv
<1>1. pattern' = pattern /\ Limit' = Limit
  BY DEF FindPattern, NoModule, Begin, TryPlace, Exhausted, SkipByte, CompareByte,
         ReadOutside, Return, NextPlace, Limit
<1>2. /\ r \in Nat /\ w \in Nat
      /\ pc = "byte" => /\ r - j \in Nat /\ r - j >= 2
                        /\ (Limit - (i + 1)) * w = r - w
  <2>1. /\ Limit - i \in Nat
        /\ pc = "byte" => Limit - i > 0 /\ (Limit - i) - 1 = Limit - (i + 1)
    BY <1>0
  <2> QED
    BY <1>0, <2>1, PlacesLeft
<1>3. /\ pc = "place" => StepsLeft = r + 1
      /\ pc = "byte" => StepsLeft = r - j
      /\ i' = i => /\ pc' = "place" => StepsLeft' = r + 1
                   /\ pc' = "byte" => StepsLeft' = r - j'
      /\ i' = i + 1 => (pc' = "place" => StepsLeft' = (Limit - (i + 1)) * w + 1)
      /\ pc' \in {"no module", "done", "fault"} => StepsLeft' = 0
  BY <1>1 DEF StepsLeft
<1>4. CASE NoModule \/ Begin
  <2>1. /\ pc = "module" /\ i = 0 /\ i' = i /\ pc' \in {"no module", "place"}
        /\ StepsLeft = Limit * w + 2
    BY <1>4 DEF NoModule, Begin, StepsLeft, IInv, LoopInv
  <2>2. Limit - i = Limit
    <3>1. i = 0
      BY <2>1
    <3>2. \A n \in Nat : n - 0 = n
      OBVIOUS
    <3> QED
      BY <1>0, <3>1, <3>2, Zenon
  <2>3. StepsLeft = r + 2
    BY <2>1, <2>2
  <2> HIDE DEF r, w
  <2>4. StepsLeft' = r + 1 \/ StepsLeft' = 0
    BY <1>3, <2>1
  <2> QED
    BY <1>2, <2>3, <2>4
<1> HIDE DEF r, w
<1>5. CASE TryPlace
  <2>1. pc = "place" /\ pc' = "byte" /\ i' = i /\ j' = 0
    BY <1>5 DEF TryPlace
  <2> QED
    BY <1>2, <1>3, <2>1
<1>6. CASE Exhausted
  <2>1. pc = "place" /\ pc' = "done"
    BY <1>6 DEF Exhausted
  <2> QED
    BY <1>2, <1>3, <2>1
<1>7. CASE SkipByte \/ CompareByte \/ ReadOutside
  <2>1. /\ pc = "byte" /\ i' = i
        /\ (pc' = "byte" /\ j' = j + 1) \/ pc' = "fault"
    BY <1>7 DEF SkipByte, CompareByte, ReadOutside, MoreBytes
  <2>2. StepsLeft = r - j /\ (StepsLeft' = r - (j + 1) \/ StepsLeft' = 0)
    BY <1>3, <2>1
  <2>3. r \in Nat /\ j \in Nat /\ r - j >= 2
    BY <1>0, <1>2, <2>1
  <2> QED
    BY <2>2, <2>3
<1>8. CASE Return
  <2>1. pc = "byte" /\ pc' = "done"
    BY <1>8 DEF Return
  <2> QED
    BY <1>2, <1>3, <2>1
<1>9. CASE NextPlace
  <2>1. pc = "byte" /\ pc' = "place" /\ i' = i + 1 /\ j = Len(pattern)
    BY <1>9 DEF NextPlace
  <2>2. StepsLeft' = (r - w) + 1 /\ StepsLeft = r - j /\ w = j + 2
    BY <1>2, <1>3, <2>1 DEF w
  <2> QED
    BY <1>0, <1>2, <2>2
<1> QED
  BY <1>4, <1>5, <1>6, <1>7, <1>8, <1>9 DEF FindPattern

(***************************************************************************)
(* FindPattern returns after at most Limit * (Len(pattern) + 2) + 2 steps, *)
(* with the limit of the code, whatever the game writes meanwhile.         *)
(***************************************************************************)
THEOREM ScansAdvance == Spec => ScanAdvances
<1>1. IInv /\ [Next]_vars =>
        [/\ StepsLeft \in Nat
         /\ FindPattern => StepsLeft' < StepsLeft
         /\ ~FindPattern => StepsLeft' = StepsLeft]_vars
  <2> SUFFICES ASSUME IInv, Next
               PROVE  /\ StepsLeft \in Nat
                      /\ FindPattern => StepsLeft' < StepsLeft
                      /\ ~FindPattern => StepsLeft' = StepsLeft
    OBVIOUS
  <2>1. ASSUME ~FindPattern PROVE StepsLeft' = StepsLeft
    BY <2>1 DEF Next, GameWrites, StepsLeft, Limit
  <2> QED
    BY <2>1, CountIsNat, CountGoesDown
<1> QED
  BY <1>1, PatternScanInvariant, PTL DEF Spec, ScanAdvances

=============================================================================
