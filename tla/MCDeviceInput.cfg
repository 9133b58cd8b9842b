SPECIFICATION FairSpec
CONSTANTS
  Digests = {d1, d2}
  NoDigest = none
  FreshFor = 1
  NoEffectTimeout = 2
  MaxAttempts = 2
  Hosted = TRUE
INVARIANTS OneInputPerAnswer UnansweredIsOnDisk
PROPERTIES AnswersCome
