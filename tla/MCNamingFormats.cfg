\* Format registry and name builders under every register/unregister order.
CONSTANTS
  NONE = NONE
  Roles <- MCRoles
  Formats <- MCFormats
  IdentAtoms <- MCIdentAtoms
  TemplateText <- MCTemplateText
  FuncNames <- MCFuncNames
  ClassNames <- MCClassNames
  MemberNames <- MCMemberNames

SPECIFICATION Spec
INVARIANTS
  TypeOK
  WrapperIsIdentifier
PROPERTY
  BuildersMatchSpec
