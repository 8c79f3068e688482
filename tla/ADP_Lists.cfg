SPECIFICATION AdaptiveSpec
CONSTANTS
  NumFrames = 2
  Pages = {1, 2, 3}
  Pinnable = {0}
CONSTRAINT FewGhosts
INVARIANTS
  TargetKept
  TrackedOnce
  ListedOnce
  NoCandidateSkipped
