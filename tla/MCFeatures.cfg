\* %feature entries at every level of the cascade, set, removed and looked
\* up in every order, with templates declared before or after.
CONSTANTS
  NONE = NONE
  StartKey = StartKey
  FNodes <- OrderNodes
  FNode <- OrderNode
  Directives <- OrderDirectives
  TemplateNames = {"bar"}
  DefaultArgs <- MCDefaultArgs
  TemplateArgs <- MCTemplateArgs
  OneCharAtoms <- MCOneCharAtoms
  PercentAtoms <- MCPercentAtoms
  MaxGets = 1

SPECIFICATION Spec
INVARIANT TypeOK
PROPERTY MostSpecificWins
CHECK_DEADLOCK FALSE
