-------------------------- MODULE DiscussionSearch --------------------------
(***************************************************************************)
(* What the lists of posts show: the home page and the search API with     *)
(* their filters and pages, similar posts, the CSV export and the feeds.   *)
(* Relevance is left open: every order of equally ranked posts is allowed  *)
(* unless the query's own order forbids it.                                *)
(***************************************************************************)
EXTENDS DiscussionStore

CONSTANTS
  Word, Words,       \* the words searched for, and those of each title; noise words are none
  PageSize,          \* 25 by default
  SimilarLimit,      \* 5
  FeedLimit          \* 30, for posts and comments

ASSUME WordsAssumption == Words \in [Text -> SUBSET Word]
ASSUME LimitsAssumption == PageSize \in Nat \ {0} /\ SimilarLimit \in Nat /\ FeedLimit \in Nat

View == {"recent", "most-discussed", "planned", "started", "completed", "declined", "all"}

\* An unknown view gets the home page's default.
NormalizePostView(view) == IF view \in View THEN view ELSE "recent"

\* An unknown name of a status is read as open; "pending" is ignored.
UnmarshalText(name) == IF name \in Status THEN name ELSE "open"
SetStatusesFromStrings(names) == {UnmarshalText(n) : n \in names \ {"pending"}}

Everything == {"open", "started", "planned", "completed", "declined"}

\* A search: text is a word or None, tags are slugs.
getViewData(q) ==
  [statuses |-> CASE q.view = "all" -> Everything
                  [] q.view \in {"planned", "started", "completed", "declined"} -> {q.view}
                  [] OTHER -> IF q.statuses = {} THEN {"open", "started", "planned"}
                              ELSE q.statuses,
   sort |-> CASE q.view = "most-discussed" -> "comments_count"
              [] q.view \in {"planned", "started", "completed", "declined"} -> "response_date"
              [] OTHER -> "id",
   condition |-> IF q.untagged THEN "untagged" ELSE IF q.tags # {} THEN "tagged" ELSE "any"]

\* The predicates the count and the page share.
filteredQuery(d, viewer, q) ==
  LET tags(p) == ToModel(d, viewer, p).tags
      view == getViewData(q)
  IN {p \in posts(d) :
        /\ d.posts[p].status \in view.statuses
        /\ q.text = None \/ q.text \in Words[d.posts[p].title]
        /\ CASE view.condition = "untagged" -> tags(p) = {}
             [] view.condition = "tagged" -> tags(p) \cap q.tags # {}
             [] OTHER -> TRUE
        /\ q.mine /\ viewer # None => d.posts[p].author = viewer}

\* Mutation of precedes: equal posts come in any order.
precedesByRank(d, q, a, b) ==
  IF q.text # None \/ getViewData(q).sort = "response_date" THEN FALSE
  ELSE IF getViewData(q).sort = "id" THEN a > b
  ELSE agg_comments(d, a) > agg_comments(d, b)

\* Searched posts, and those of one status, are ranked by what is not
\* modelled, as if all were equal.
precedes(d, q, a, b) ==
  IF q.text = None /\ getViewData(q).sort = "comments_count"
     /\ agg_comments(d, a) # agg_comments(d, b)
  THEN agg_comments(d, a) > agg_comments(d, b)
  ELSE a > b

\* ORDER BY: any sequence of the rows that contradicts no comparison.
orderBy(d, q, rows) ==
  {s \in SetToSeqs(rows) : \A i, j \in DOMAIN s : i < j => ~precedes(d, q, s[j], s[i])}

lastPage(total) == IF total = 0 THEN 1 ELSE ((total - 1) \div PageSize) + 1
pageNumber(asked, total) == Min({Max({asked, 1}), lastPage(total)})

\* The sequences of posts one page may show.
searchPage(d, viewer, q, asked) ==
  LET rows == filteredQuery(d, viewer, q)
      offset == (pageNumber(asked, Cardinality(rows)) - 1) * PageSize
  IN {SubSeq(s, offset + 1, Min({offset + PageSize, Len(s)})) : s \in orderBy(d, q, rows)}

TotalCount(d, viewer, q) == Cardinality(filteredQuery(d, viewer, q))

\* Without pages, all posts or the first few.
searchPosts(d, viewer, q, limit) ==
  {SubSeq(s, 1, Min({limit, Len(s)})) : s \in orderBy(d, q, filteredQuery(d, viewer, q))}

EveryPost == [view |-> "all", statuses |-> {}, tags |-> {}, untagged |-> FALSE, mine |-> FALSE,
              text |-> None]

getAllPosts(d, viewer) ==
  CHOOSE s \in searchPosts(d, viewer, EveryPost, Cardinality(PostId)) : TRUE

\* Any of the best matches: every one is listed unless there are too many.
findSimilarPosts(d, words) ==
  LET found == {p \in posts(d) : /\ d.posts[p].status \in Everything
                                 /\ words # {} /\ words \subseteq Words[d.posts[p].title]}
  IN {S \in SUBSET found : Cardinality(S) = Min({SimilarLimit, Cardinality(found)})}

(***************************************************************************)
(* Pages, files and feeds made from them.                                  *)
(***************************************************************************)
Told(d, viewer, s) == [i \in DOMAIN s |-> ToModel(d, viewer, s[i])]

FindSimilarPosts(d, viewer, words) ==
  {{ToModel(d, viewer, p) : p \in S} : S \in findSimilarPosts(d, words)}

ListTags(d, viewer) == {d.tags[t] : t \in getAllTags(d, viewer)}

\* The home page: posts of a page, the tags to choose from, the counts.
Index(d, viewer, q, asked) ==
  [posts |-> {Told(d, viewer, s) : s \in searchPage(d, viewer, q, asked)},
   total |-> TotalCount(d, viewer, q),
   tags |-> ListTags(d, viewer),
   countPerStatus |-> countPostPerStatus(d)]

PostDetails(d, viewer, number) ==
  LET p == getPostByNumber(d, number)
  IN IF p = None THEN None
     ELSE [post |-> ToModel(d, viewer, p), comments |-> getCommentsByPost(d, viewer, p),
           tags |-> ListTags(d, viewer), subscribed |-> userSubscribedTo(d, p, viewer)]

\* The same, piece by piece, for the API.
GetPost(d, viewer, number) ==
  LET p == getPostByNumber(d, number) IN IF p = None THEN None ELSE ToModel(d, viewer, p)

ListComments(d, viewer, number) == getCommentsByPost(d, viewer, getPostByNumber(d, number))
GetComment(d, id) == IF getCommentByID(d, id) = None THEN None ELSE d.comments[id]

ExportPostsToCSV(d, viewer) == Told(d, viewer, getAllPosts(d, viewer))

\* Mutation of appendTags: all tags are categories of the entry.
appendAllTags(d, p) == {d.tags[t].name : t \in getAssignedTags(d, p)}

appendTags(d, p) == {d.tags[t].name : t \in {x \in getAssignedTags(d, p) : d.tags[x].public}}

GlobalFeed(d, viewer, q) ==
  {[i \in DOMAIN s |-> [post |-> s[i], categories |-> appendTags(d, s[i])]] :
     s \in searchPosts(d, viewer, [q EXCEPT !.view = "all"], FeedLimit)}

\* The post first, then comments cut from the end of the list of them.
CommentFeed(d, number) ==
  LET p == getPostByNumber(d, number)
      comments == getCommentsByPost(d, None, p)
  IN IF p = None THEN None
     ELSE [post |-> p, categories |-> appendTags(d, p),
           comments |-> SubSeq(comments, Max({0, Len(comments) - FeedLimit}) + 1,
                               Len(comments))]
=============================================================================
