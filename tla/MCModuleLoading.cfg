\* Main and two modules: cycles, picked names, private and untyped constants.
SPECIFICATION FairSpec
CONSTANTS
  Projects <- MCProjects
INVARIANTS
  TypeOK
  AcceptedRuns
  ScopesAgree
  PrivateHidden
PROPERTIES
  LoadingEnds
