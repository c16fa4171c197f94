SPECIFICATION Spec
CONSTANTS
  ValueOf <- MCValueOf
  HasShape <- MCHasShape
  Managed <- MCManaged
  ToLower <- MCToLower
  Templates <- MCTemplates
  ParameterOptions <- MCParameterOptions
  SeedOptions <- MCSeedOptions
  Contents <- MCContents
  Broken = Broken
  Compiling <- MCCompiling
  MaxSaves = 1
  Written <- MCWritten
INVARIANTS ReferencesBind OrderDoesNotMatter StartupCheckForesees AliasesHaveOneOwner
CHECK_DEADLOCK FALSE
