SPECIFICATION Spec
CONSTANTS
  VarName <- MCVarName
  VarChars <- MCVarChars
  Method = {"GET", "POST", "CONNECT"}
  BasePaths <- MCBasePaths
  Patterns <- MCPatterns
  Paths <- MCPaths
  Target <- MCTarget
  GotalkPath <- MCGotalkPath
  Lines <- MCLines
  MaxRoutes = 2
  MaxCalls = 4
INVARIANTS TypeOK HandlerSeesCleanPath RedirectedOnce ServedByFirst VarsMakePath BasePathSettles CookiesByName
PROPERTIES MethodAsPromised
