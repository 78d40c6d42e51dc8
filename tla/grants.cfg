SPECIFICATION Spec
CONSTANTS
  SPAM = SPAM
  TRASH = TRASH
  INBOX = INBOX
  promo = promo
  personal = personal
  unread = unread
  news = news
  secret = secret
  NewsName = NewsName
  SecretName = SecretName
  OtherName = OtherName
  Unlisted = Unlisted
  Category <- MCCategory
  PlainSystem <- MCPlainSystem
  UserLabel <- MCUserLabel
  Name <- MCName
  Message = {m1}
  MetadataCached = FALSE
  ContentCached = FALSE
  ListingCached = TRUE
  SearchCached = FALSE
  Placement <- MCPlacement
  FirstListings <- MCFirstListings
  OwnerName <- MCOwnerName
  MaxMoves = 1
  Worker = {w1}
  Policies <- OnePolicy
  Request <- MCRequest
  Tools <- Tool
  MaxQueries = 1
  MaxWrites = 1
PROPERTY
  AllowedLabelsUntouched
