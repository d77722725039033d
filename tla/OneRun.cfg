SPECIFICATION Spec
CONSTANTS
  Text <- MCText
  Doc <- MCDoc
  Torn = torn
  Transform <- MCTransform
  InputTrees <- OneRunTrees
  Targets = {"v2", "v3"}
  Modes = {FALSE}
  MeshFilters = {"", "default"}
  IOMayFail = TRUE
  MaxRuns = 1
  Alphabetical <- MCAlphabetical
  Words <- MCWords
  Meta <- MCMeta
INVARIANT TypeOK
INVARIANT CountersAddUp
INVARIANT ApplyListAcceptable
INVARIANT NothingLost
INVARIANT LabelTellsTheTruth
INVARIANT DeletionsTruthful
INVARIANT DeletesAreReplaced
INVARIANT ManualListComplete
INVARIANT DirectoryApplyIsListed
INVARIANT RewritesAreReplaced
INVARIANT ApplyOrderSound
CHECK_DEADLOCK FALSE
