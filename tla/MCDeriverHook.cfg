CONSTANTS
  Header <- Headers
  Replaced <- ReplacedNames
  NewValue <- ReplacedBy
  MaxLines = 3
SPECIFICATION HookSpec
INVARIANTS
  DecidesByWholeMessage
  ReceiverAgrees
