CONSTANTS
  Instances = {"axiosRef", "child"}
  Root = "axiosRef"
  Methods = {"get"}
  Names = {"Accept", "accept", "encoding"}
  Lower <- LowerCase
  Values = {"v", "w"}
  ModuleConfigs <- SomeModuleConfigs
  Accept <- AcceptHeader
  AcceptEncoding <- EncodingHeader
  Overrides <- SomeOverrides
  EditedNames = {"Accept", "accept"}
  EditedValues = {"w"}
  MaxEdits = 2
SPECIFICATION Spec
CHECK_DEADLOCK FALSE
INVARIANT DefaultsAreTheSource
