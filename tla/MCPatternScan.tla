---------------------------- MODULE MCPatternScan ----------------------------
(* PatternScan for all signatures up to length 3, and one that is too long. *)
EXTENDS PatternScan

MCBytes == 0..1
MCSignatures ==
  UNION {[1..n -> MCBytes \cup {Wild}] : n \in 1..3} \cup {<<0, Wild, Wild, Wild, Wild, 1>>}

=============================================================================
