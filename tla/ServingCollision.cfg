SPECIFICATION Spec
CONSTANTS
  Clients = {c1, c2}
  Static <- MCStatic
  Nonced <- MCNonced
  Index = "/index.html"
  Enabled <- MCEnabled
  Identity = "identity"
  CacheKey <- MCCacheKey
  Permanent <- MCPermanent
  CacheControl <- MCCacheControl
  Requests <- MCRequests
  Nonces = {n1, n2}
  MaxVersion = 2
  None = None
  Collide = TRUE
INVARIANT BodyIsOfRoute
