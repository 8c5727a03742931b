SPECIFICATION FairSpec
CONSTANTS
  Senders = {t1}
  MaxSends = 2
  MaxFrames = 2
CHECK_DEADLOCK FALSE
INVARIANTS TypeOK EndHeard NoLostWakeup NoAnswerAwaited
PROPERTIES EndsExplained ImplementsSession PhasesEnd PeerGoneEnds ReleasedAtEnd
