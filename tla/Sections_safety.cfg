\* Two calls on nested, missing and differently written sections, and one edited heading.
CONSTANTS
  a = a
  b = b
  Notes = Notes
  NOTES = NOTES
  Tasks = Tasks
  Sub = Sub
  Other = Other
  p = p
  None = None
  Calls <- CallsTwo
  Texts <- AllTexts
  Canon <- Lower
  Names <- NamesThree
  Sizes <- Sizes01
  NewLevel = 3
  Doc0 <- TheDoc
  Edits = 1
SPECIFICATION Spec
CHECK_DEADLOCK FALSE
SYMMETRY SymTwo
INVARIANT TypeOK
INVARIANT FrameIsKept
INVARIANT NoDuplicateSection
PROPERTY SectionIsExact
