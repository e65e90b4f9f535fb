------------------------------ MODULE Discussion ------------------------------
(***************************************************************************)
(* The posts of a site and what is said about them.  Every operation that  *)
(* writes holds the tenant's row until its transaction ends (see           *)
(* PasswordRequests), so each is one step on the tables; the blobs it      *)
(* stores stay when it is rolled back.  The tasks it leaves behind are in  *)
(* Notifications, which extends this module.                               *)
(***************************************************************************)
EXTENDS Attachments, DiscussionSearch

CONSTANTS
  Anyone,               \* who may be asked to do what: a set of functions User -> Role
  Scopes,               \* bound: what behaviours are about
  TagsOnCreation        \* POST_CREATION_WITH_TAGS_ENABLED

ASSUME ScopesAssumption == \A s \in Scopes :
  /\ s.files \subseteq Seq(File)
  /\ s.posts \in 0 .. Cardinality(PostId) /\ s.comments \in 0 .. Cardinality(CommentId)
ASSUME AnyoneAssumption == Anyone \subseteq [User -> Role] /\ TagsOnCreation \in BOOLEAN

VARIABLES
  db, blobs,
  unchecked,            \* the keys whose lookup failed before an upload to them
  scope                 \* the operations, files and numbers of texts of this behaviour

vars == <<db, blobs, unchecked, scope>>

\* Blobs outside the attachments' folder were stored by other parts.
Init ==
  /\ \E role \in Anyone : db = NoRows(role)
  /\ \E c \in Content : blobs = [k \in Key |-> IF k \in Outside THEN c ELSE None]
  /\ unchecked = {}
  /\ scope \in Scopes

asks(operation) == operation \in scope.operations /\ UNCHANGED scope

\* The blobs and rows a request leaves behind whose lookups of failing failed.
stores(b, files, failing) ==
  blobs' = b /\ unchecked' = unchecked \cup {files[i].key : i \in failing}
commits(rows, b, files, failing) == db' = rows /\ stores(b, files, failing)

(***************************************************************************)
(* Posts.  A post is named by its number, and looked up first.             *)
(***************************************************************************)
\* The tags of a new post are looked up, where the site lets them be chosen.
CreateNewPostOnPreExecute(tags) ==
  tags \subseteq rowsOf(db.tags) /\ (TagsOnCreation \/ tags = {})

CreateNewPostIsAuthorized(u, tags) ==
  TagsOnCreation /\ ~IsCollaborator(db, u) => \A t \in tags : db.tags[t].public

CreateNewPostValidate(title, files) ==
  /\ getPostBySlug(db, Make[title]) = None
  /\ MultiImageUpload({}, files, 3)

assignTags(d, p, tags) == [d EXCEPT !.postTags = @ \cup ({p} \X tags)]

newPost == Min(freeIds(db.posts))

CreatePost(u, title, tags, files) ==
  /\ asks("CreatePost") /\ Cardinality(rowsOf(db.posts)) < scope.posts
  /\ wellFormed(files) /\ CreateNewPostOnPreExecute(tags)
  /\ CreateNewPostIsAuthorized(u, tags) /\ CreateNewPostValidate(title, files)
  /\ ~slugTaken(db, title, newPost)
  /\ \E failing \in SUBSET named(files) : \E key \in uploadImages(db, blobs, files, failing) :
       LET now == stored(blobs, files, key)
           rows == setAttachments(addNewPost(db, newPost, u, title), now, newPost, None, files, key)
       IN commits(assignTags(rows, newPost, tags), now, files, failing)

UpdatePostIsAuthorized(u, p) ==
  IsCollaborator(db, u) \/ (db.posts[p].author = u /\ db.posts[p].recent)

\* Mutation of UpdatePostValidate: another post may have the title.
UpdatePostValidateFilesOnly(p, title, files) ==
  files # << >> => MultiImageUpload(getAttachments(db, p, None), files, 3)

UpdatePostValidate(p, title, files) ==
  /\ getPostBySlug(db, Make[title]) \in {None, p}
  /\ files # << >> => MultiImageUpload(getAttachments(db, p, None), files, 3)

UpdatePost(u, n, title, files) ==
  /\ asks("UpdatePost")
  /\ LET p == getPostByNumber(db, n)
     IN /\ p # None /\ wellFormed(files)
        /\ UpdatePostIsAuthorized(u, p) /\ UpdatePostValidate(p, title, files)
        /\ ~slugTaken(db, title, p)
        /\ \E failing \in SUBSET named(files) : \E key \in uploadImages(db, blobs, files, failing) :
             LET now == stored(blobs, files, key)
             IN commits(setAttachments(updatePost(db, p, title), now, p, None, files, key),
                        now, files, failing)

\* An hour passes, and the authors of older posts can no longer edit them.
HourPasses ==
  /\ "UpdatePost" \in scope.operations
  /\ \E p \in rowsOf(db.posts) : db.posts[p].recent
  /\ db' = [db EXCEPT !.posts = [p \in PostId |->
              IF db.posts[p] = None THEN None ELSE [db.posts[p] EXCEPT !.recent = FALSE]]]
  /\ UNCHANGED <<blobs, unchecked, scope>>

\* A post is a duplicate of any other that is found, duplicates included.
SetResponseValidate(n, status, originalNumber) ==
  /\ status \in LiveStatus
  /\ status = "duplicate" =>
       originalNumber # n /\ getPostByNumber(db, originalNumber) # None

respond(p, status, originalNumber) ==
  IF status = "duplicate" THEN markPostAsDuplicate(db, p, getPostByNumber(db, originalNumber))
  ELSE setPostResponse(db, p, status)

\* Only staff responds; a status the server does not know is "open".  The
\* original's number is read for duplicates only.
SetResponse(u, n, status, originalNumber) ==
  /\ asks("SetResponse") /\ IsCollaborator(db, u)
  /\ SetResponseValidate(n, status, originalNumber)
  /\ getPostByNumber(db, n) # None
  /\ db' = respond(getPostByNumber(db, n), status, originalNumber)
  /\ UNCHANGED <<blobs, unchecked>>

DeletePostValidate(p) == p # None /\ ~postIsReferenced(db, p)

DeletePost(u, n) ==
  /\ asks("DeletePost") /\ IsAdministrator(db, u)
  /\ DeletePostValidate(getPostByNumber(db, n))
  /\ db' = setPostResponse(db, getPostByNumber(db, n), "deleted")
  /\ UNCHANGED <<blobs, unchecked>>

(***************************************************************************)
(* Comments.                                                               *)
(***************************************************************************)
AddNewCommentValidate(files) == MultiImageUpload({}, files, 2)

newComment == Min(freeIds(db.comments))

PostComment(u, n, files) ==
  /\ asks("PostComment") /\ Cardinality(rowsOf(db.comments)) < scope.comments
  /\ LET p == getPostByNumber(db, n)
     IN /\ p # None
        /\ wellFormed(files) /\ AddNewCommentValidate(files)
        /\ \E failing \in SUBSET named(files) : \E key \in uploadImages(db, blobs, files, failing) :
             LET now == stored(blobs, files, key)
             IN commits(setAttachments(addNewComment(db, newComment, p, u),
                                       now, p, newComment, files, key), now, files, failing)

\* The post of the address and the comment are looked up independently.
EditCommentIsAuthorized(u, p, c) ==
  p # None /\ c # None /\ (db.comments[c].author = u \/ IsCollaborator(db, u))

\* Only the files of the request are counted.
EditCommentValidate(files) == Len(SelectSeq(files, LAMBDA f : ~f.remove)) <= 2

UpdateComment(u, n, id, files) ==
  /\ asks("UpdateComment")
  /\ LET p == getPostByNumber(db, n)
         c == getCommentByID(db, id)
     IN /\ EditCommentIsAuthorized(u, p, c)
        /\ wellFormed(files) /\ EditCommentValidate(files)
        /\ \E failing \in SUBSET named(files) : \E key \in uploadImages(db, blobs, files, failing) :
             LET now == stored(blobs, files, key)
             IN commits(setAttachments(updateComment(db, c, u),
                                       now, getPostByID(db, p), c, files, key), now, files, failing)

DeleteCommentIsAuthorized(u, c) ==
  c # None /\ (db.comments[c].author = u \/ IsCollaborator(db, u))

DeleteComment(u, id) ==
  /\ asks("DeleteComment")
  /\ DeleteCommentIsAuthorized(u, getCommentByID(db, id))
  /\ db' = deleteComment(db, id)
  /\ UNCHANGED <<blobs, unchecked>>

ToggleCommentReactionValidate(emoji) == emoji \in Emoji

\* Any member may; the post is not looked at.
ToggleReaction(u, id, emoji) ==
  /\ asks("ToggleReaction") /\ ToggleCommentReactionValidate(emoji)
  /\ getCommentByID(db, id) # None
  /\ db' = toggleCommentReaction(db, id, u, emoji)
  /\ UNCHANGED <<blobs, unchecked>>

\* The transaction fails after the files were stored, and takes back the rows.
FailAfterUpload(files) ==
  /\ files # << >> /\ wellFormed(files)
  /\ \E failing \in SUBSET named(files) : \E key \in uploadImages(db, blobs, files, failing) :
       stores(stored(blobs, files, key), files, failing)
  /\ UNCHANGED <<db, scope>>

(***************************************************************************)
(* Subscriptions and tags.                                                 *)
(***************************************************************************)
\* changed: the rows with the command applied to the post.
addOrRemove(n, changed) ==
  /\ getPostByNumber(db, n) # None
  /\ db' = changed
  /\ UNCHANGED <<blobs, unchecked>>

Subscribe(u, n) == asks("Subscribe") /\ addOrRemove(n, addSubscriber(db, getPostByNumber(db, n), u))
Unsubscribe(u, n) == asks("Unsubscribe") /\ addOrRemove(n, removeSubscriber(db, getPostByNumber(db, n), u))

AssignUnassignTagIsAuthorized(u) == IsCollaborator(db, u)

AssignTag(u, n, t) ==
  /\ asks("AssignTag") /\ AssignUnassignTagIsAuthorized(u)
  /\ t \in rowsOf(db.tags) /\ addOrRemove(n, assignTag(db, getPostByNumber(db, n), t))

UnassignTag(u, n, t) ==
  /\ asks("UnassignTag") /\ AssignUnassignTagIsAuthorized(u)
  /\ t \in rowsOf(db.tags) /\ addOrRemove(n, unassignTag(db, getPostByNumber(db, n), t))

\* tag is the one being edited, None for a new one.
CreateEditTagValidate(tag, name) == queryTagBySlug(db, Make[name]) \in {None, tag}

CreateTag(u, name, public) ==
  /\ asks("CreateTag") /\ IsAdministrator(db, u) /\ freeIds(db.tags) # {}
  /\ CreateEditTagValidate(None, name) /\ ~tagTaken(db, name, None)
  /\ db' = addNewTag(db, Min(freeIds(db.tags)), name, public)
  /\ UNCHANGED <<blobs, unchecked>>

EditTag(u, t, name, public) ==
  /\ asks("EditTag") /\ IsAdministrator(db, u) /\ t \in rowsOf(db.tags)
  /\ CreateEditTagValidate(t, name) /\ ~tagTaken(db, name, t)
  /\ db' = updateTag(db, t, name, public)
  /\ UNCHANGED <<blobs, unchecked>>

DeleteTag(u, t) ==
  /\ asks("DeleteTag") /\ IsAdministrator(db, u) /\ t \in rowsOf(db.tags)
  /\ db' = deleteTag(db, t)
  /\ UNCHANGED <<blobs, unchecked>>

\* A name that is there, or came before, is skipped.
created(entries) ==
  {i \in DOMAIN entries : /\ \A t \in rowsOf(db.tags) : db.tags[t].name # entries[i].name
                          /\ \A j \in 1 .. i - 1 : entries[j].name # entries[i].name}

\* The first insert that meets another name with the same slug aborts the
\* transaction, and every later one with it.
aborts(entries) ==
  \E i \in created(entries) :
    \/ tagTaken(db, entries[i].name, None)
    \/ \E j \in created(entries) \ {i} : Make[entries[j].name] = Make[entries[i].name]

ImportTags(u, entries) ==
  /\ asks("ImportTags") /\ IsAdministrator(db, u)
  /\ entries # << >> /\ ~aborts(entries)
  /\ \E id \in Injection(created(entries), freeIds(db.tags)) :
       db' = [db EXCEPT !.tags = [t \in TagId |->
                LET here == {i \in created(entries) : id[i] = t}
                IN IF here = {} THEN @[t] ELSE entries[CHOOSE i \in here : TRUE]]]
  /\ UNCHANGED <<blobs, unchecked>>

Next ==
  \/ HourPasses
  \/ \E files \in scope.files : FailAfterUpload(files)
  \/ \E u \in User, title \in Text, tags \in SUBSET TagId, files \in scope.files :
       CreatePost(u, title, tags, files)
  \/ \E u \in User, n \in numbers(db), files \in scope.files :
       \/ PostComment(u, n, files)
       \/ \E title \in Text : UpdatePost(u, n, title, files)
       \/ \E id \in CommentId : UpdateComment(u, n, id, files)
  \/ \E u \in User, n \in numbers(db) :
       \/ \E status \in Status \ {"duplicate"} : SetResponse(u, n, status, 0)
       \/ \E original \in numbers(db) : SetResponse(u, n, "duplicate", original)
       \/ DeletePost(u, n) \/ Subscribe(u, n) \/ Unsubscribe(u, n)
       \/ \E t \in TagId : AssignTag(u, n, t) \/ UnassignTag(u, n, t)
  \/ \E u \in User, id \in CommentId :
       DeleteComment(u, id) \/ \E emoji \in Emoji : ToggleReaction(u, id, emoji)
  \/ \E u \in User, name \in Text, public \in BOOLEAN :
       CreateTag(u, name, public) \/ \E t \in TagId : EditTag(u, t, name, public)
  \/ \E u \in User, t \in TagId : DeleteTag(u, t)
  \/ \E u \in User, entries \in BoundedSeq(Tag, 2) : ImportTags(u, entries)

Spec == Init /\ [][Next]_vars

(***************************************************************************)
(* Properties.                                                             *)
(***************************************************************************)

\* Searches the list properties are checked for.
CONSTANT Searches
ASSUME SearchesAssumption ==
  Searches \subseteq [view : View, statuses : SUBSET Status, tags : SUBSET Range(Make),
                      untagged : BOOLEAN, mine : BOOLEAN, text : Word \cup {None}]

TypeOK ==
  /\ db \in Tables
  /\ blobs \in Blobs
  /\ unchecked \subseteq Key

\* A number names one post for good: it is not handed out again when its post
\* is deleted, so an old address never leads to another post (addNewPost).
NumbersUnique ==
  \A p, q \in rowsOf(db.posts) : db.posts[p].number = db.posts[q].number => p = q

\* What the actions let through never runs into a unique index, which would
\* turn the answer into a server error: the checks of titles and of names of
\* tags look at what the indexes look at.
ValidationForeseesIndexes ==
  \A text \in Text :
    /\ CreateNewPostValidate(text, << >>) => ~slugTaken(db, text, None)
    /\ \A p \in posts(db) : UpdatePostValidate(p, text, << >>) => ~slugTaken(db, text, p)
    /\ \A t \in rowsOf(db.tags) \cup {None} :
         CreateEditTagValidate(t, text) => ~tagTaken(db, text, t)

\* The unique indexes of numbers, slugs and tags are never run into: numbers
\* are not handed out twice, and validation turns away what would collide.
IndexesForeseen == NumbersUnique /\ ValidationForeseesIndexes

\* A post is a duplicate if and only if it refers to another post, and what it
\* refers to can still be read (SetResponse, DeletePost).
OriginalsLive ==
  \A p \in rowsOf(db.posts) :
    /\ db.posts[p].status = "duplicate" <=> db.posts[p].original # None
    /\ db.posts[p].original # None => db.posts[p].original \in posts(db) \ {p}

\* A file of a post or comment is never lost, and keeps showing what it showed
\* when it was attached, whatever is uploaded later under whichever key; only a
\* lookup that fails lets an upload replace it, and none touches the blobs of
\* other folders (UploadImage).
FilesKeepContent ==
  \A a \in db.attachments : a.shows # None =>
    /\ blobs[a.key] # None
    /\ blobs[a.key] = a.shows \/ a.key \in unchecked \ Outside

\* The database without the private tags.
publicOnly(d) ==
  LET private == {t \in rowsOf(d.tags) : ~d.tags[t].public}
  IN [d EXCEPT !.tags = [t \in TagId |-> IF t \in private THEN None ELSE d.tags[t]],
               !.postTags = {pt \in @ : pt[2] \notin private}]

\* Whatever a visitor looks at (pages of search results, a post, the feeds) is
\* what it would be if there were no private tags (buildPostQuery, appendTags).
PrivateTagsHidden ==
  \A viewer \in {None} \cup {u \in User : db.role[u] = "visitor"} :
    /\ \A q \in Searches :
         /\ Index(db, viewer, q, 1) = Index(publicOnly(db), viewer, q, 1)
         /\ GlobalFeed(db, viewer, q) = GlobalFeed(publicOnly(db), viewer, q)
    /\ \A n \in numbers(db) :
         /\ PostDetails(db, viewer, n) = PostDetails(publicOnly(db), viewer, n)
         /\ CommentFeed(db, n) = CommentFeed(publicOnly(db), n)
         /\ GetPost(db, viewer, n) = GetPost(publicOnly(db), viewer, n)
    /\ \A words \in SUBSET Word : FindSimilarPosts(db, viewer, words)
                                    = FindSimilarPosts(publicOnly(db), viewer, words)
    /\ ListTags(db, viewer) = ListTags(publicOnly(db), viewer)

\* Someone who turns the pages of a search meets every post of it once, also
\* posts that are equal in what the search sorts by (searchPosts).
PagesPartition ==
  \A viewer \in User, q \in Searches :
    LET rows == filteredQuery(db, viewer, q)
        page(i) == searchPage(db, viewer, q, i)
        pages == 1 .. lastPage(Cardinality(rows))
    IN \A shown \in [pages -> UNION {page(i) : i \in pages}] :
         (\A i \in pages : shown[i] \in page(i)) =>
           /\ UNION {ToSet(shown[i]) : i \in pages} = rows
           /\ \A i, j \in pages : ToSet(shown[i]) \cap ToSet(shown[j]) # {} => i = j

\* The numbers beside posts and statuses are those of what is found with them,
\* and a comment is found by its id if and only if its post lists it: the
\* queries are written independently.
CountsAgree ==
  /\ \A p \in posts(db) :
       LET listed == ListComments(db, None, db.posts[p].number)
       IN /\ ToModel(db, None, p).comments = Len(listed)
          /\ {listed[i].id : i \in DOMAIN listed}
               = {c \in rowsOf(db.comments) : GetComment(db, c) # None /\ db.comments[c].post = p}
  /\ \A s \in LiveStatus, viewer \in User :
       countPostPerStatus(db)[s]
         = TotalCount(db, viewer, [EveryPost EXCEPT !.view = "recent", !.statuses = {s}])
  /\ \A viewer \in User :
       LET count == countPostPerStatus(db)
       IN Len(ExportPostsToCSV(db, viewer))
            = count["open"] + count["started"] + count["planned"]
                + count["completed"] + count["declined"]

\* Lists show everything once, and the numbers beside them are theirs
\* (searchPosts, countPostPerStatus).
ListsAgree == PagesPartition /\ CountsAgree

\* Nothing more happens to a post that was deleted: nobody comments on it,
\* tags it, follows it, attaches files to it or brings it back, also by an
\* address that was opened before (GetPostByNumber in every action).
DeletedIsFinal ==
  [][\A p \in rowsOf(db.posts) \ posts(db) :
       /\ db'.posts[p] \in {db.posts[p], [db.posts[p] EXCEPT !.recent = FALSE]}
       /\ db'.subscribers[p] = db.subscribers[p]
       /\ \A c \in freeIds(db.comments) : db'.comments[c] # None => db'.comments[c].post # p
       /\ \A t \in TagId : <<p, t>> \in db'.postTags => <<p, t>> \in db.postTags
       /\ \A a \in db'.attachments : a.post = p => a \in db.attachments]_vars
=============================================================================
