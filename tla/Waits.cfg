SPECIFICATION FairSpec
CONSTANTS
  a = a
  x = x
  arya = arya
  jon = jon
  None = None
  User = {1, 2, 3}
  PostId = {1}
  CommentId = {1, 2}
  TagId = {1}
  Text = {a}
  Make <- Slugs
  Emoji = {"heart"}
  Content = {x}
  Key = {1}
  Outside = {1}
  Word = {}
  Words <- NoWords
  PageSize = 1
  SimilarLimit = 1
  FeedLimit = 1
  Anyone = {}
  Scopes <- Waiting
  TagsOnCreation = FALSE
  Searches = {}
  Hook = {11}
  Name = {arya, jon}
  Changeable = {"change_status"}
  Responses = {"open", "started"}
  MaxTasks = 1
CHECK_DEADLOCK FALSE
PROPERTIES WaitsEnd
