SPECIFICATION Spec
CONSTANT
  NumConns = 2
INVARIANT DependenciesFirst
INVARIANT NothingLostSilently
INVARIANT FailuresExplained
INVARIANT PrivilegesKept
INVARIANT IndexBatches
