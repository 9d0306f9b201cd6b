SPECIFICATION FairSpec
CONSTANTS
  t1 = t1
  t2 = t2
  Setups <- SafeSetups
INVARIANTS TypeOK OneTabKeepsEdits SecretIsReal
PROPERTIES EditsSurviveInTurn SecretSurvives EditsAreSaved EditorOpens
CHECK_DEADLOCK FALSE
