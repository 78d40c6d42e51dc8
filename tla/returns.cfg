SPECIFICATION Spec
CONSTANTS
  SPAM = SPAM
  TRASH = TRASH
  INBOX = INBOX
  promo = promo
  personal = personal
  unread = unread
  news = news
  secret = secret
  NewsName = NewsName
  SecretName = SecretName
  OtherName = OtherName
  Unlisted = Unlisted
  Category <- MCCategory
  PlainSystem <- MCPlainSystem
  UserLabel <- MCUserLabel
  Name <- MCName
  Message = {m1, m2}
  MetadataCached = TRUE
  ContentCached = FALSE
  ListingCached = FALSE
  SearchCached = FALSE
  Placement <- CategoryPlacement
  FirstListings <- MCFirstListings
  OwnerName = {SecretName}
  MaxMoves = 1
  Worker = {w1}
  Policies <- MixPolicies
  Request <- RaceRequest
  Tools <- Tool
  MaxQueries = 2
  MaxWrites = 1
PROPERTIES
  EveryCallReturns
  StepsForward
  Confined
