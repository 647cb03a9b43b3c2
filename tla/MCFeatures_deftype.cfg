\* A global feature and a member-template feature set before the
\* template is declared; the node looked up after.
CONSTANTS
  NONE = NONE
  StartKey = StartKey
  FNodes <- DeftypeNodes
  FNode <- OrderNode
  Directives <- DeftypeDirectives
  TemplateNames = {"bar"}
  DefaultArgs <- MCDefaultArgs
  TemplateArgs <- MCTemplateArgs
  OneCharAtoms <- MCOneCharAtoms
  PercentAtoms <- MCPercentAtoms
  MaxGets = 1

SPECIFICATION Spec
PROPERTY MostSpecificWins
CHECK_DEADLOCK FALSE
