\* Two requests at a time, one replica, one fault; one submission with one
\* rebuild, or uploads of up to three.
SPECIFICATION Spec
CONSTRAINT UploadsOnly
CONSTANTS
  Submission = {s1, s2, s3}
  Worker = {w1, w2}
  Monitor = {m1}
  None = None
  Quota = 1
  MaxRetryCount = 1
  MaxFaults = 1
INVARIANTS
  TypeOK
  VersionsConsecutive
  QuotaOverrunBounded
  ActiveIsFlagged
  ActiveHasImage
  QueuedIsReady
PROPERTIES
  SuccessIsRecorded
