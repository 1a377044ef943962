\* Every input of up to six events.
CONSTANTS
  Tags <- TagsTwo
  MaxEvents = 6
SPECIFICATION Spec
CHECK_DEADLOCK FALSE
INVARIANT OutputIsExact
