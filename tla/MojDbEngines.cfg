CONSTANTS
  Kinds = {"k1", "k2", "Quota:1"}
  QuotaKind = "Quota:1"
  Builtin = {"k1", "Quota:1"}
  KindOwner <- MCKindOwner
  Super <- MCSuper
  QuotaOwners = {"a", "*"}
  Covers <- MCCovers
  NoKind = "none"
  NoQuota = "no quota"
  Requests = {1, 2}
  Sizes = {1}
  MaxBytes = 2
  PermKinds = {"k1", "k2"}
  SuperOf <- MCSuperOf
  OwnerOf <- MCOwnerOf
  Callers <- MCCallers
  Names <- MCNames
  Config <- MCConfig
  Operations <- MCOperations
  PutKeys <- MCPutKeys
  Putters = {1, 2}
  Props = {1, 2, 3}
  Objects = {{1, 2}, {1, 3}, {2, 3}}
  Schemas = {{}, {2}}
  TokenMax = 2
  MaxLog = 4
  MaxKind = 2
  Readers = {"r1", "r2"}
  LocKinds = {"k1", "k2"}
  Locales = {"en", "de"}
  NoLocale = "none"
SPECIFICATION Spec
INVARIANTS PermissionsKept SharedStateKept
PROPERTIES OvershootExplained OpenSettles
CHECK_DEADLOCK FALSE
