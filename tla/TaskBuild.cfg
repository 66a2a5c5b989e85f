SPECIFICATION TaskSpec
CONSTANTS
  a = a
  b = b
  c = c
  d = d
  g = g
  h = h
  Absent = Absent
  Names <- MCNames
  FileOrder <- MCFileOrder
  Groups <- MCGroups
  NoGroup = NoGroup
  Broken = Broken
  Directories <- MCDirectories
  Requests <- MCRequests
  BuildsOf <- MCBuildsOf
  Misnamed <- MCMisnamed
  BadGroups <- MCBadGroups
  Junk = Junk
  Requirement <- MCRequirement
  Package <- MCPackage
  PackageOf <- MCPackageOf
  Sqlalchemy = "sql2"
  Fallback <- MCFallback
  Contents <- MCContents
  MaxDeploys = 1
INVARIANTS AllAsked EdgesDeclared TasksApart OneEnvironment
