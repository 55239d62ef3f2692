CONSTANTS
  Scripts <- MCScripts
  Lines <- MCLines
  Configs <- MCConfigs
SPECIFICATION Spec
CHECK_DEADLOCK FALSE
INVARIANTS
  RecordsConserved
  RoutedByHello
  DialsWhatIsNamed
  FirstRouteThatFits
PROPERTY RecordsComeOut
