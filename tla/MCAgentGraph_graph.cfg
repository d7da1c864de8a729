SPECIFICATION Spec
CONSTANTS
  MaxAttempts = 1
  Configs <- SomeConfigs
INVARIANTS StepsBounded UiAsAsked NoFailureSucceeds
PROPERTY ApiNotAfterUi
CHECK_DEADLOCK FALSE
