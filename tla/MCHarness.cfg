SPECIFICATION MCFairSpec
CONSTANTS
  Runs = {r1}
  Callers = {c1}
  Requests = {q1, q2}
  Answers = {a1, a2}
  MaxResumeAttempts = 1
  NoRun = NoRun
  MaxCalls = 4
CHECK_DEADLOCK FALSE
INVARIANTS
  LiveTokenIsOwners
  InterruptHitsItsOwner
  StoppedHasNoAuthority
  StopReleasesClaim
  WithinResumeBudget
  DoorbellKept
  ClaimCoversDrain
PROPERTIES
  IntentIsServed
  CallersReturn
  ResumesOnlyOrphans
  StaleTokensDoNothing
  AnswersServedOnce
  AnswersKeptUntilDrained
