SPECIFICATION Spec
CONSTANTS
  u = u
  v = v
  a = a
  b = b
  z = z
  word = word
  x = x
  y = y
  None = None
  User = {u, v}
  PostId = {1, 2}
  CommentId = {1, 2}
  TagId = {1, 2}
  Text = {a, b, z}
  Make <- Slugs
  Emoji = {"heart"}
  Content = {x, y}
  Key = {1, 2, 9}
  Outside = {9}
  Word = {word}
  Words <- TitleWords
  PageSize = 1
  SimilarLimit = 1
  FeedLimit = 2
  Anyone <- VisitorAndAdministrator
  Scopes <- Everywhere
  TagsOnCreation = TRUE
  Searches <- ListedSearches
CHECK_DEADLOCK FALSE
INVARIANTS TypeOK IndexesForeseen OriginalsLive PrivateTagsHidden ListsAgree FilesKeepContent
PROPERTIES DeletedIsFinal
