SPECIFICATION Spec
CONSTANTS
  MaxMarks = 2
INVARIANT HigherModesOnlyAdd
INVARIANT TagsNeverReject
INVARIANT SshNoWeaker
