CONSTANTS
  Hosts <- HostNames
  IsSubdomainName <- ProperSuffix
  Ports = {"", "8443"}
  Statuses = {300, 301, 302, 303, 307, 308}
  Starts <- SomeStarts
  HookResults <- SomeHookResults
SPECIFICATION Spec
CHECK_DEADLOCK FALSE
INVARIANTS SecretsStayHome BodyAndMethodAgree ResentBodyIsFresh
