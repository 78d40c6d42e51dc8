SPECIFICATION Spec
CONSTANTS
  SPAM = SPAM
  TRASH = TRASH
  INBOX = INBOX
  promo = promo
  personal = personal
  unread = unread
  news = news
  secret = secret
  NewsName = NewsName
  SecretName = SecretName
  OtherName = OtherName
  Unlisted = Unlisted
  Category <- MCCategory
  PlainSystem <- MCPlainSystem
  UserLabel <- MCUserLabel
  Name <- MCName
  Message = {m1, m2}
  MetadataCached = TRUE
  ContentCached = TRUE
  ListingCached = TRUE
  SearchCached = FALSE
  Placement <- MCPlacement
  FirstListings <- MCFirstListings
  OwnerName <- MCOwnerName
  MaxMoves = 1
  Worker = {w1}
  Policies <- MCPolicies
  Request <- ToolsRequest
  Tools <- Tool
  MaxQueries = 1
  MaxWrites = 1
  UNREAD = unread
  topic = topic
  malformed = malformed
  Spelling <- MCSpelling
  Value <- MCValue
  Legal <- MCLegal
  PageSize = 1
  Listings <- MCListings
  Carryable <- MCCarryable
  Boxes <- MCBoxes
SYMMETRY MessageSymmetry
INVARIANTS
  TypeOK
  ServedInScope
  ActsInScope
  QuerySound
  QueryComplete
  CountIsExact
PROPERTIES
  OnlyMutableLabelsChange
  BlockedLabelsUntouched
  NoSmuggling
  GrantsUntouched
  RevertUndoes
