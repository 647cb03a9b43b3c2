\* The "___" mark of name_mangle after a "::" replacement.
CONSTANTS
  NONE = NONE
  Roles <- MCRoles
  Formats <- MCFormats
  IdentAtoms <- MCIdentAtoms
  TemplateText <- MCTemplateText
  FuncNames <- MCFuncNames
  ClassNames <- MCClassNames
  MemberNames <- MCMemberNames

SPECIFICATION Spec
INVARIANT MangleMarksSubstitution
