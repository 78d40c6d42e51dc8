SPECIFICATION Spec
CONSTANTS
  SPAM = SPAM
  TRASH = TRASH
  INBOX = INBOX
  promo = promo
  unread = unread
  Unlisted = Unlisted
  None = None
  mcp = mcp
  admin = admin
  m1 = m1
  m2 = m2
  q1 = q1
  Category <- MCCategory
  PlainSystem <- MCPlainSystem
  UserLabel = {}
  Name <- MCName
  Message = {m1, m2}
  MetadataCached = TRUE
  ContentCached = TRUE
  ListingCached = TRUE
  SearchCached = TRUE
  Placement <- MCPlacement
  FirstListings <- MCFirstListings
  OwnerName = {}
  MaxMoves = 1
  Client = {mcp, admin}
  Query = {q1}
  Requests <- MCRequests
  Configs <- MCConfigs
  Found <- MCFound
  MaxTime = 1
  MaxWrites = 1
  MaxChanges = 1
INVARIANTS
  TypeOK
  ContentBounded
  OutOfDateOnlyIfCrossed
PROPERTY
  Contract
