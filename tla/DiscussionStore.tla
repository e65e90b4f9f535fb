--------------------------- MODULE DiscussionStore ---------------------------
(***************************************************************************)
(* The tables behind a site's posts, comments, reactions, tags, files and  *)
(* subscriptions, and the commands and queries of the SQL store on them.   *)
(* A command takes the tables, in a record, to the tables after it; one    *)
(* tenant is modelled, to whose rows every statement restricts itself.     *)
(***************************************************************************)
EXTENDS Integers, Sequences, FiniteSets, SequencesExt, FiniteSetsExt

CONSTANTS
  User,
  PostId, CommentId,     \* bounds: ids are handed out in this order
  TagId,
  Text,                  \* titles of posts and names of tags
  Make,                  \* slug.Make: the slug of a text
  Emoji,
  Content, Key,          \* what a stored file shows, and blob keys, in the order they are drawn
  None

ASSUME IdsAssumption ==
  /\ PostId \subseteq Nat /\ CommentId \subseteq Nat /\ TagId \subseteq Nat /\ Key \subseteq Nat
  /\ IsFiniteSet(PostId) /\ IsFiniteSet(CommentId)
ASSUME MakeAssumption == DOMAIN Make = Text
ASSUME NoneIsNothing ==
  None \notin User \cup PostId \cup CommentId \cup TagId \cup Content \cup Key

Role == {"visitor", "collaborator", "administrator"}

Status == {"open", "started", "completed", "declined", "planned", "duplicate", "deleted"}
LiveStatus == Status \ {"deleted"}

Post == [number : Nat \ {0}, title : Text, author : User, status : Status,
         original : PostId \cup {None},
         recent : BOOLEAN]                 \* created within the last hour
Comment == [post : PostId, author : User, editor : User \cup {None}, deleted : BOOLEAN]
Tag == [name : Text, public : BOOLEAN]
Attachment == [post : PostId, comment : CommentId \cup {None}, key : Key,
               shows : Content \cup {None}] \* not a column: what the blob held when it was attached

ASSUME NoneIsNoRow == None \notin Post \cup Comment \cup Tag

\* The status of a subscription; no row is None.
Subscription == {"active", "inactive", None}

Tables == [role : [User -> Role],
           posts : [PostId -> Post \cup {None}],
           comments : [CommentId -> Comment \cup {None}],
           tags : [TagId -> Tag \cup {None}],
           postTags : SUBSET (PostId \X TagId),
           reactions : SUBSET (CommentId \X User \X Emoji),
           attachments : SUBSET Attachment,
           subscribers : [PostId -> [User -> Subscription]]]

NoRows(role) ==
  [role |-> role, posts |-> [p \in PostId |-> None], comments |-> [c \in CommentId |-> None],
   tags |-> [t \in TagId |-> None], postTags |-> {}, reactions |-> {}, attachments |-> {},
   subscribers |-> [p \in PostId |-> [u \in User |-> None]]]

rowsOf(table) == {id \in DOMAIN table : table[id] # None}
freeIds(table) == DOMAIN table \ rowsOf(table)

\* An anonymous visitor is None.
IsCollaborator(d, u) == u # None /\ d.role[u] \in {"collaborator", "administrator"}
IsAdministrator(d, u) == u # None /\ d.role[u] = "administrator"

(***************************************************************************)
(* Queries on posts.                                                       *)
(***************************************************************************)

\* The posts every query starts from.
posts(d) == {p \in rowsOf(d.posts) : d.posts[p].status # "deleted"}

tagCondition(d, viewer, t) == d.tags[t].public \/ IsCollaborator(d, viewer)

agg_tags(d, viewer, p) ==
  {t \in TagId : <<p, t>> \in d.postTags /\ tagCondition(d, viewer, t)}

\* Mutation of agg_comments: deleted comments count.
agg_commentsAll(d, p) ==
  Cardinality({c \in rowsOf(d.comments) : d.comments[c].post = p})

agg_comments(d, p) ==
  Cardinality({c \in rowsOf(d.comments) : d.comments[c].post = p /\ ~d.comments[c].deleted})

\* What a query tells of a post.
ToModel(d, viewer, p) ==
  [id |-> p, number |-> d.posts[p].number, title |-> d.posts[p].title,
   slug |-> Make[d.posts[p].title],
   status |-> d.posts[p].status, comments |-> agg_comments(d, p),
   original |-> IF d.posts[p].original = None THEN None
                ELSE d.posts[d.posts[p].original].number,
   tags |-> {Make[d.tags[t].name] : t \in agg_tags(d, viewer, p)}]

\* A query for one row takes the first; None is app.ErrNotFound.
querySinglePost(found) == IF found = {} THEN None ELSE Min(found)

getPostByID(d, id) == querySinglePost({p \in posts(d) : p = id})
getPostBySlug(d, slug) == querySinglePost({p \in posts(d) : Make[d.posts[p].title] = slug})

\* Mutation of getPostByNumber: deleted posts are found as well.
getPostByNumberAny(d, number) ==
  querySinglePost({p \in rowsOf(d.posts) : d.posts[p].number = number})

getPostByNumber(d, number) == querySinglePost({p \in posts(d) : d.posts[p].number = number})

\* Deleted posts refer to nothing: setPostResponse resets what they referred to.
postIsReferenced(d, post) == \E p \in rowsOf(d.posts) : d.posts[p].original = post

countPostPerStatus(d) ==
  [s \in Status |-> Cardinality({p \in rowsOf(d.posts) : d.posts[p].status = s})]

(***************************************************************************)
(* Commands on posts.                                                      *)
(***************************************************************************)
numbers(d) == {d.posts[p].number : p \in rowsOf(d.posts)}

\* Mutation of nextNumber: deleted posts are not looked at.
nextNumberOfLive(d) == Max({0} \cup {d.posts[p].number : p \in posts(d)}) + 1

\* Mutation of nextNumber: numbers start with zero.
nextNumberFromZero(d) == Max({-1} \cup numbers(d)) + 1

nextNumber(d) == Max({0} \cup numbers(d)) + 1

\* The partial unique index of posts on (tenant, slug).
slugTaken(d, title, except) ==
  \E p \in posts(d) \ {except} : Make[d.posts[p].title] = Make[title]

\* Whoever creates a post follows it, unless a row says otherwise.
internalAddSubscriber(d, p, u, force) ==
  IF force \/ d.subscribers[p][u] = None
  THEN [d EXCEPT !.subscribers[p][u] = "active"] ELSE d

addNewPost(d, p, u, title) ==
  internalAddSubscriber(
    [d EXCEPT !.posts[p] = [number |-> nextNumber(d), title |-> title, author |-> u,
                            status |-> "open", original |-> None, recent |-> TRUE]],
    p, u, FALSE)

updatePost(d, p, title) == [d EXCEPT !.posts[p].title = title]

\* Mutation of setPostResponse: the reference to the original stays.
setPostResponseOnly(d, p, status) == [d EXCEPT !.posts[p].status = status]

setPostResponse(d, p, status) ==
  [d EXCEPT !.posts[p].status = status, !.posts[p].original = None]

markPostAsDuplicate(d, p, original) ==
  [d EXCEPT !.posts[p].status = "duplicate", !.posts[p].original = original]

(***************************************************************************)
(* Comments and reactions.                                                 *)
(***************************************************************************)

\* A comment is found whatever became of its post.
getCommentByID(d, id) == IF d.comments[id] = None \/ d.comments[id].deleted THEN None ELSE id

\* A file of a comment is listed under the comment's own post.
agg_attachments(d, c) ==
  {a.key : a \in {x \in d.attachments : x.comment = c /\ x.post = d.comments[c].post}}

agg_reactions(d, c, viewer) ==
  [e \in Emoji |-> [count |-> Cardinality({u \in User : <<c, u, e>> \in d.reactions}),
                    includesMe |-> <<c, viewer, e>> \in d.reactions]]

\* ORDER BY created_at DESC: ids are handed out in the order of creation.
newestFirst(ids) ==
  CHOOSE s \in SetToSeqs(ids) : \A i, j \in DOMAIN s : i < j => s[i] > s[j]

getCommentsByPost(d, viewer, p) ==
  LET found == {c \in rowsOf(d.comments) : d.comments[c].post = p /\ ~d.comments[c].deleted}
      newest == newestFirst(found)
  IN [i \in DOMAIN newest |-> [id |-> newest[i], attachments |-> agg_attachments(d, newest[i]),
                               reactions |-> agg_reactions(d, newest[i], viewer)]]

addNewComment(d, c, p, u) ==
  [d EXCEPT !.comments[c] = [post |-> p, author |-> u, editor |-> None, deleted |-> FALSE]]

updateComment(d, c, u) == [d EXCEPT !.comments[c].editor = u]

deleteComment(d, c) == [d EXCEPT !.comments[c].deleted = TRUE]

\* One statement inserts the row or, where it finds it, deletes it.
toggleCommentReaction(d, c, u, e) ==
  IF <<c, u, e>> \in d.reactions
  THEN [d EXCEPT !.reactions = @ \ {<<c, u, e>>}]
  ELSE [d EXCEPT !.reactions = @ \cup {<<c, u, e>>}]

(***************************************************************************)
(* Tags.                                                                   *)
(***************************************************************************)
queryTagBySlug(d, slug) ==
  LET found == {t \in rowsOf(d.tags) : Make[d.tags[t].name] = slug}
  IN IF found = {} THEN None ELSE Min(found)

getAllTags(d, viewer) == {t \in rowsOf(d.tags) : tagCondition(d, viewer, t)}
getAssignedTags(d, p) == {t \in rowsOf(d.tags) : <<p, t>> \in d.postTags}

\* The unique index of tags on (tenant, slug).
tagTaken(d, name, except) ==
  \E t \in rowsOf(d.tags) \ {except} : Make[d.tags[t].name] = Make[name]

addNewTag(d, t, name, public) == [d EXCEPT !.tags[t] = [name |-> name, public |-> public]]
updateTag(d, t, name, public) == [d EXCEPT !.tags[t] = [name |-> name, public |-> public]]

deleteTag(d, t) ==
  [d EXCEPT !.postTags = {pt \in @ : pt[2] # t}, !.tags[t] = None]

assignTag(d, p, t) == [d EXCEPT !.postTags = @ \cup {<<p, t>>}]
unassignTag(d, p, t) == [d EXCEPT !.postTags = @ \ {<<p, t>>}]

(***************************************************************************)
(* Subscriptions.                                                          *)
(***************************************************************************)
addSubscriber(d, p, u) == internalAddSubscriber(d, p, u, TRUE)
removeSubscriber(d, p, u) == [d EXCEPT !.subscribers[p][u] = "inactive"]

\* Without a row, those follow a post whom no event requires to subscribe.
userSubscribedTo(d, p, u) ==
  /\ u # None
  /\ d.subscribers[p][u] = "active" \/ (d.subscribers[p][u] = None /\ d.role[u] # "visitor")
=============================================================================
