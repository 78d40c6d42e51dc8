SPECIFICATION Spec
CONSTANTS
  SPAM = SPAM
  TRASH = TRASH
  INBOX = INBOX
  promo = promo
  personal = personal
  unread = unread
  news = news
  secret = secret
  NewsName = NewsName
  SecretName = SecretName
  OtherName = OtherName
  Unlisted = Unlisted
  Category <- MCCategory
  PlainSystem <- MCPlainSystem
  UserLabel <- MCUserLabel
  Name <- MCName
  Message = {m1}
  MetadataCached = FALSE
  ContentCached = TRUE
  ListingCached = FALSE
  SearchCached = FALSE
  Placement <- RacePlacement
  FirstListings <- MCFirstListings
  OwnerName <- MCOwnerName
  MaxMoves = 1
  Worker = {w1, w2}
  Policies <- MCPolicies
  Request <- RaceRequest
  Tools <- RaceTools
  MaxQueries = 1
  MaxWrites = 2
INVARIANT
  MutationEndsInScope
PROPERTIES
  OnlyMutableLabelsChange
  NoSmuggling
CHECK_DEADLOCK FALSE
