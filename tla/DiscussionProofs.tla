-------------------------- MODULE DiscussionProofs --------------------------
(***************************************************************************)
(* Proofs about Discussion, for any number of members, posts, comments,    *)
(* tags, texts and files: what the unique indexes demand is foreseen, the  *)
(* originals of duplicates can be read, attached files keep their content, *)
(* deleted posts are left alone, visitors see no private tags, and the     *)
(* pages of a search show everything once.                                 *)
(*                                                                         *)
(* Every operation is first taken down to its effect on the tables, one    *)
(* lemma each; the invariants then look at effects only.                   *)
(***************************************************************************)
EXTENDS Discussion, FiniteSetTheorems, SequenceTheorems, WellFoundedInduction, TLAPS

\* No two tags have one slug.
TagSlugsUnique ==
  \A s, t \in rowsOf(db.tags) : Make[db.tags[s].name] = Make[db.tags[t].name] => s = t

\* No two live posts have one slug.
SlugsUnique ==
  \A p, q \in posts(db) : Make[db.posts[p].title] = Make[db.posts[q].title] => p = q

\* A tag that is deleted is taken off every post first.
AssignedTagsExist == \A pt \in db.postTags : db.tags[pt[2]] # None

\* What every operation's effect rests on.
Basics == TypeOK /\ scope \in Scopes /\ TagSlugsUnique

PostsInv == NumbersUnique /\ SlugsUnique /\ OriginalsLive

\* The inductive invariant.
DiscussionInv == Basics /\ PostsInv /\ AssignedTagsExist /\ FilesKeepContent

(***************************************************************************)
(* Numbers, rows and queries.                                              *)
(***************************************************************************)
\* A set of numbers that is not empty has a least one.
LEMMA NatHasLeast ==
  ASSUME NEW S \in SUBSET Nat, S # {}
  PROVE  \E x \in S : \A y \in S : x <= y
<1>1. IsWellFoundedOn(OpToRel(<, Nat), Nat)
  BY NatLessThanWellFounded
<1>2. PICK x \in S : \A y \in S : ~(<<y, x>> \in OpToRel(<, Nat))
  BY <1>1, WFMin
<1>3. \A y \in S : ~(y < x)
  BY <1>2 DEF OpToRel
<1> QED BY <1>3

\* The least number of a set that has one is in it, and below all others.
LEMMA MinIsLeast ==
  ASSUME NEW S \in SUBSET Nat, S # {}
  PROVE  Min(S) \in S /\ \A y \in S : Min(S) <= y
BY NatHasLeast DEF Min

\* The greatest number of a finite set is the least of its bounds.
LEMMA MaxIsGreatest ==
  ASSUME NEW S \in SUBSET Nat, IsFiniteSet(S), S # {}
  PROVE  Max(S) \in S /\ \A y \in S : y <= Max(S)
<1> DEFINE Sizes == {n \in Nat : \E T \in SUBSET Nat : /\ IsFiniteSet(T) /\ T # {} /\ Cardinality(T) = n
                                                       /\ \A x \in T : \E y \in T : ~(y <= x)}
<1>1. Sizes = {}
  <2> SUFFICES ASSUME Sizes # {} PROVE FALSE
    OBVIOUS
  <2>1. PICK n \in Sizes : \A k \in Sizes : n <= k
    BY NatHasLeast
  <2>2. PICK T \in SUBSET Nat : /\ IsFiniteSet(T) /\ T # {} /\ Cardinality(T) = n
                                /\ \A x \in T : \E y \in T : ~(y <= x)
    BY <2>1
  <2>3. PICK x \in T : TRUE
    BY <2>2
  <2> DEFINE U == T \ {x}
  <2>4. IsFiniteSet(U) /\ Cardinality(U) = n - 1 /\ n \in Nat
    BY <2>1, <2>2, <2>3, FS_RemoveElement
  <2>5. CASE U = {}
    <3>1. T = {x} /\ x \in Nat
      BY <2>2, <2>3, <2>5
    <3> QED BY <2>2, <3>1
  <2>6. CASE U # {}
    <3>1. \A u \in U : \E y \in U : ~(y <= u)
      <4> SUFFICES ASSUME NEW u \in U, \A y \in U : y <= u PROVE FALSE
        OBVIOUS
      <4>1. u \in T /\ u \in Nat /\ x \in Nat /\ u # x
        BY <2>2, <2>3
      <4>2. ~(x <= u)
        BY <4>1, <2>2, <2>3
      <4>3. \A y \in T : y <= x
        BY <4>1, <4>2
      <4> QED BY <2>2, <2>3, <4>3
    <3>2. Cardinality(U) \in Nat
      BY <2>4, FS_CardinalityType
    <3>3. n - 1 \in Sizes
      BY <2>4, <2>6, <3>1, <3>2
    <3> QED BY <2>1, <2>4, <3>3
  <2> QED BY <2>5, <2>6
<1>2. Cardinality(S) \in Nat
  BY FS_CardinalityType
<1>3. \E x \in S : \A y \in S : y <= x
  BY <1>1, <1>2
<1>4. \E x \in S : \A y \in S : x >= y
  BY <1>3
<1>5. Max(S) \in S /\ \A y \in S : Max(S) >= y
  BY <1>4 DEF Max
<1> QED BY <1>5

\* A query for one row finds one of the rows, if there are any.
LEMMA FoundIsARow ==
  ASSUME NEW S \in SUBSET PostId
  PROVE  /\ querySinglePost(S) = None <=> S = {}
         /\ S # {} => querySinglePost(S) \in S
<1>1. CASE S = {}
  BY <1>1 DEF querySinglePost
<1>2. CASE S # {}
  BY <1>2, MinIsLeast, IdsAssumption, NoneIsNothing DEF querySinglePost
<1> QED BY <1>1, <1>2

\* A post found by its number is live and has that number.
LEMMA FoundByNumber ==
  ASSUME NEW d \in Tables, NEW n
  PROVE  /\ getPostByNumber(d, n) # None =>
              getPostByNumber(d, n) \in posts(d) /\ d.posts[getPostByNumber(d, n)].number = n
         /\ posts(d) \subseteq rowsOf(d.posts) /\ rowsOf(d.posts) \subseteq PostId
<1>1. posts(d) \subseteq rowsOf(d.posts) /\ rowsOf(d.posts) \subseteq PostId
  BY DEF posts, rowsOf, Tables
<1> DEFINE S == {p \in posts(d) : d.posts[p].number = n}
<1>2. S \in SUBSET PostId
  BY <1>1
<1>3. S # {} => querySinglePost(S) \in S
  BY <1>2, FoundIsARow
<1>4. S = {} => querySinglePost(S) = None
  BY <1>2, FoundIsARow
<1>5. getPostByNumber(d, n) = querySinglePost(S)
  BY DEF getPostByNumber
<1> QED BY <1>1, <1>3, <1>4, <1>5

\* A live post is found by its id.
LEMMA FoundById ==
  ASSUME NEW d \in Tables, NEW p \in posts(d)
  PROVE  getPostByID(d, p) = p
<1>1. p \in PostId /\ {q \in posts(d) : q = p} = {p}
  BY FoundByNumber
<1>2. querySinglePost({p}) \in {p}
  BY <1>1, FoundIsARow
<1> QED BY <1>1, <1>2 DEF getPostByID

\* A comment that is found is a row of its own id.
LEMMA FoundComment ==
  ASSUME NEW d \in Tables, NEW id \in CommentId, getCommentByID(d, id) # None
  PROVE  getCommentByID(d, id) = id /\ id \in rowsOf(d.comments) /\ d.comments[id] \in Comment
BY DEF getCommentByID, rowsOf, Tables

\* The next id is one that no row has.
LEMMA NextId ==
  ASSUME NEW S \in SUBSET Nat, NEW T, NEW table \in [S -> T], freeIds(table) # {}
  PROVE  Min(freeIds(table)) \in S /\ Min(freeIds(table)) \in freeIds(table)
<1>1. freeIds(table) \in SUBSET S
  BY DEF freeIds, rowsOf
<1> QED BY <1>1, MinIsLeast

\* While fewer rows are there than the bound allows, an id is left.
LEMMA BelowTheBound ==
  ASSUME NEW S, IsFiniteSet(S), NEW T, NEW table \in [S -> T], NEW n \in 0 .. Cardinality(S),
         Cardinality(rowsOf(table)) < n
  PROVE  freeIds(table) # {}
<1>1. DOMAIN table = S /\ rowsOf(table) \subseteq S
  BY DEF rowsOf
<1>2. Cardinality(S) \in Nat
  BY FS_CardinalityType
<1>3. rowsOf(table) # S
  BY <1>2
<1> QED BY <1>1, <1>3 DEF freeIds

\* The next number is greater than every number, those of deleted posts included.
LEMMA FreshNumber ==
  ASSUME NEW d \in Tables
  PROVE  nextNumber(d) \in Nat \ {0} /\ \A p \in rowsOf(d.posts) : d.posts[p].number < nextNumber(d)
<1> DEFINE R == rowsOf(d.posts)  N == numbers(d)
<1>1. R \subseteq PostId /\ \A p \in R : d.posts[p] \in Post
  BY DEF rowsOf, Tables
<1>2. N \in SUBSET Nat
  BY <1>1 DEF numbers, Post
<1>3. IsFiniteSet(R)
  BY <1>1, IdsAssumption, FS_Subset
<1>4. [p \in R |-> d.posts[p].number] \in Surjection(R, N)
  BY DEF Surjection, numbers
<1>5. IsFiniteSet(N)
  <2> HIDE DEF R, N
  <2> QED BY <1>3, <1>4, FS_Surjection
<1>6. IsFiniteSet({0} \cup N)
  BY <1>5, FS_Union, FS_Singleton
<1> DEFINE M == {0} \cup N
<1>7. Max(M) \in M /\ \A y \in M : y <= Max(M)
  <2>1. M \in SUBSET Nat /\ M # {} /\ IsFiniteSet(M)
    BY <1>2, <1>6
  <2> HIDE DEF M
  <2> QED BY <2>1, MaxIsGreatest
<1>8. Max(M) \in Nat
  BY <1>2, <1>7
<1>9. nextNumber(d) = Max(M) + 1
  BY DEF nextNumber
<1>10. \A p \in R : d.posts[p].number \in M /\ d.posts[p].number \in Nat
  BY <1>1 DEF numbers, Post
<1> HIDE DEF M, R
<1> QED BY <1>7, <1>8, <1>9, <1>10 DEF R

(***************************************************************************)
(* What each command writes.                                               *)
(***************************************************************************)
\* What addNewPost writes: one row, one subscription, and nothing else.
LEMMA AddedPost ==
  ASSUME NEW d \in Tables, NEW p \in PostId, NEW u \in User, NEW title \in Text
  PROVE  LET e == addNewPost(d, p, u, title)
         IN /\ e \in Tables
            /\ e.posts = [d.posts EXCEPT ![p] = [number |-> nextNumber(d), title |-> title, author |-> u,
                            status |-> "open", original |-> None, recent |-> TRUE]]
            /\ e.role = d.role /\ e.comments = d.comments /\ e.tags = d.tags
            /\ e.postTags = d.postTags /\ e.reactions = d.reactions /\ e.attachments = d.attachments
            /\ \A q \in PostId \ {p} : e.subscribers[q] = d.subscribers[q]
<1> DEFINE row == [number |-> nextNumber(d), title |-> title, author |-> u,
                   status |-> "open", original |-> None, recent |-> TRUE]
           e == [d EXCEPT !.posts[p] = row]
<1>1. row \in Post
  BY FreshNumber DEF Post, Status
<1> HIDE DEF row
<1>2. e \in Tables
  BY <1>1 DEF Tables
<1>3. /\ e.posts = [d.posts EXCEPT ![p] = row]
      /\ e.role = d.role /\ e.comments = d.comments /\ e.tags = d.tags
      /\ e.postTags = d.postTags /\ e.reactions = d.reactions /\ e.attachments = d.attachments
      /\ e.subscribers = d.subscribers
  BY DEF Tables
<1> HIDE DEF e
<1> DEFINE f == [e EXCEPT !.subscribers[p][u] = "active"]
<1>4. /\ f \in Tables
      /\ f.posts = e.posts /\ f.role = e.role /\ f.comments = e.comments /\ f.tags = e.tags
      /\ f.postTags = e.postTags /\ f.reactions = e.reactions /\ f.attachments = e.attachments
      /\ \A q \in PostId \ {p} : f.subscribers[q] = e.subscribers[q]
  BY <1>2 DEF Tables, Subscription
<1>5. addNewPost(d, p, u, title) = IF e.subscribers[p][u] = None THEN f ELSE e
  BY DEF addNewPost, internalAddSubscriber, row, e
<1> HIDE DEF f
<1> QED BY <1>2, <1>3, <1>4, <1>5 DEF row

\* What updatePost writes.
LEMMA UpdatedPost ==
  ASSUME NEW d \in Tables, NEW p \in rowsOf(d.posts), NEW title \in Text
  PROVE  LET e == updatePost(d, p, title)
         IN /\ e \in Tables
            /\ e.posts = [d.posts EXCEPT ![p] = [@ EXCEPT !.title = title]]
            /\ e.role = d.role /\ e.comments = d.comments /\ e.tags = d.tags
            /\ e.postTags = d.postTags /\ e.reactions = d.reactions /\ e.attachments = d.attachments
            /\ e.subscribers = d.subscribers
<1> DEFINE row == [d.posts[p] EXCEPT !.title = title]
           table == [d.posts EXCEPT ![p] = row]
<1>1. p \in PostId /\ d.posts[p] \in Post
  BY DEF rowsOf, Tables
<1>2. row \in Post
  BY <1>1 DEF Post
<1> HIDE DEF row
<1>3. table \in [PostId -> Post \cup {None}]
  BY <1>1, <1>2 DEF Tables
<1>4. updatePost(d, p, title) = [d EXCEPT !.posts = table]
  BY DEF updatePost, row
<1> HIDE DEF table
<1>5. LET e == [d EXCEPT !.posts = table]
      IN /\ e \in Tables /\ e.posts = table
         /\ e.role = d.role /\ e.comments = d.comments /\ e.tags = d.tags
         /\ e.postTags = d.postTags /\ e.reactions = d.reactions /\ e.attachments = d.attachments
         /\ e.subscribers = d.subscribers
  BY <1>3 DEF Tables
<1>6. table = [d.posts EXCEPT ![p] = [@ EXCEPT !.title = title]]
  BY DEF table, row
<1> QED BY <1>4, <1>5, <1>6

\* A post with another status and reference, in the tables and as a row.
answered(d, p, status, original) ==
  [d EXCEPT !.posts[p].status = status, !.posts[p].original = original]

answer(row, status, original) == [row EXCEPT !.status = status, !.original = original]

\* What a response writes: the status and the reference.
LEMMA RespondedPost ==
  ASSUME NEW d \in Tables, NEW p \in rowsOf(d.posts), NEW status \in Status,
         NEW original \in PostId \cup {None}
  PROVE  LET e == answered(d, p, status, original)
         IN /\ e \in Tables
            /\ e.posts = [d.posts EXCEPT ![p] = answer(@, status, original)]
            /\ e.role = d.role /\ e.comments = d.comments /\ e.tags = d.tags
            /\ e.postTags = d.postTags /\ e.reactions = d.reactions /\ e.attachments = d.attachments
            /\ e.subscribers = d.subscribers
<1>1. p \in PostId /\ d.posts[p] \in Post
  BY DEF rowsOf, Tables
<1> DEFINE row == [d.posts[p] EXCEPT !.status = status, !.original = original]
<1>2. row \in Post
  BY <1>1 DEF Post
<1>3. answered(d, p, status, original) = [d EXCEPT !.posts = [d.posts EXCEPT ![p] = row]]
  <2> DEFINE one == [d EXCEPT !.posts[p].status = status]
  <2>1. one.posts = [d.posts EXCEPT ![p] = [d.posts[p] EXCEPT !.status = status]]
    BY DEF Tables
  <2>2. one.posts[p] = [d.posts[p] EXCEPT !.status = status]
    BY <2>1, <1>1 DEF Tables
  <2>3. [one.posts EXCEPT ![p] = [one.posts[p] EXCEPT !.original = original]] = [d.posts EXCEPT ![p] = row]
    BY <2>1, <2>2, <1>1 DEF Tables, Post
  <2> QED BY <2>1, <2>2, <2>3, <1>1 DEF Tables, answered
<1> HIDE DEF row
<1>4. [d EXCEPT !.posts = [d.posts EXCEPT ![p] = row]] \in Tables
  BY <1>1, <1>2 DEF Tables
<1> QED BY <1>1, <1>3, <1>4 DEF Tables, row, answer

\* What addNewComment writes.
LEMMA AddedComment ==
  ASSUME NEW d \in Tables, NEW c \in CommentId, NEW p \in PostId, NEW u \in User
  PROVE  LET e == addNewComment(d, c, p, u)
         IN /\ e \in Tables
            /\ e.comments = [d.comments EXCEPT ![c] = [post |-> p, author |-> u, editor |-> None, deleted |-> FALSE]]
            /\ e.role = d.role /\ e.posts = d.posts /\ e.tags = d.tags
            /\ e.postTags = d.postTags /\ e.reactions = d.reactions /\ e.attachments = d.attachments
            /\ e.subscribers = d.subscribers
BY DEF addNewComment, Tables, Comment

\* An edit or a deletion of a comment leaves it where it is.
LEMMA ChangedComment ==
  ASSUME NEW d \in Tables, NEW c \in rowsOf(d.comments), NEW u \in User,
         NEW e \in {updateComment(d, c, u), deleteComment(d, c)}
  PROVE  /\ e \in Tables
         /\ \A k \in CommentId : k # c => e.comments[k] = d.comments[k]
         /\ e.comments[c] \in Comment /\ e.comments[c].post = d.comments[c].post
         /\ e.role = d.role /\ e.posts = d.posts /\ e.tags = d.tags
         /\ e.postTags = d.postTags /\ e.reactions = d.reactions /\ e.attachments = d.attachments
         /\ e.subscribers = d.subscribers
<1>1. c \in CommentId /\ d.comments[c] \in Comment
  BY DEF rowsOf, Tables
<1> DEFINE edited == [d.comments[c] EXCEPT !.editor = u]  gone == [d.comments[c] EXCEPT !.deleted = TRUE]
<1>2. edited \in Comment /\ edited.post = d.comments[c].post
  BY <1>1 DEF Comment
<1>3. gone \in Comment /\ gone.post = d.comments[c].post
  BY <1>1 DEF Comment
<1>4. e = [d EXCEPT !.comments = [d.comments EXCEPT ![c] = edited]]
      \/ e = [d EXCEPT !.comments = [d.comments EXCEPT ![c] = gone]]
  BY DEF updateComment, deleteComment
<1> HIDE DEF edited, gone
<1> QED BY <1>1, <1>2, <1>3, <1>4 DEF Tables

\* File i replaces a blob only under the key the request names, whose lookup failed.
ReplacesUnchecked(b, files, failing, key, i) ==
  b[key[i]] # None => i \in failing /\ key[i] = files[i].key /\ key[i] \notin Outside

\* A file with content is stored under a key of the folder that holds no blob, unless
\* the lookup of the key the request names failed.
LEMMA KeysAreFree ==
  ASSUME NEW d, NEW b \in Blobs, NEW files \in Seq(File), wellFormed(files),
         NEW failing, NEW key \in uploadImages(d, b, files, failing)
  PROVE  /\ key \in [DOMAIN files -> Key]
         /\ \A i \in withContent(files) : ReplacesUnchecked(b, files, failing, key, i)
<1>1. key \in [DOMAIN files -> Key \cup {None}]
  BY DEF uploadImages
<1>2. ASSUME NEW i \in DOMAIN files PROVE key[i] \in Key /\ (i \in withContent(files) => ReplacesUnchecked(b, files, failing, key, i))
  <2> DEFINE before == {key[j] : j \in {k \in withContent(files) : k < i}}
             there == {k \in Key : b[k] # None} \cup before
             drawn == i \in withContent(files) /\ ~keepsKey(there, files[i], i \in failing)
  <2>1. IF drawn THEN key[i] \in unseen(d, b, files) \ before ELSE key[i] = files[i].key
    BY DEF uploadImages
  <2>2. files[i] \in File
    OBVIOUS
  <2>3. CASE drawn
    BY <2>1, <2>3 DEF unseen, ReplacesUnchecked
  <2>4. CASE ~drawn /\ i \in withContent(files)
    <3>1. keepsKey(there, files[i], i \in failing) /\ key[i] = files[i].key
      BY <2>1, <2>4
    <3>2. key[i] \in Key /\ key[i] \notin Outside
      BY <3>1, <2>2 DEF keepsKey, File
    <3>3. b[key[i]] # None => key[i] \in there
      BY <3>2
    <3>4. key[i] \in there => i \in failing
      BY <3>1 DEF keepsKey
    <3> QED BY <3>1, <3>2, <3>3, <3>4 DEF ReplacesUnchecked
  <2>5. CASE i \notin withContent(files)
    <3>1. key[i] = files[i].key
      BY <2>1, <2>5
    <3>2. files[i].key # None
      BY <2>5 DEF wellFormed, withContent
    <3> QED BY <3>1, <3>2, <2>2, <2>5 DEF File
  <2> QED BY <2>3, <2>4, <2>5
<1>3. \A i \in withContent(files) : i \in DOMAIN files
  BY DEF withContent
<1> QED BY <1>1, <1>2, <1>3

\* What is stored goes beside the blobs there are, or replaces one whose lookup failed.
LEMMA StoredBeside ==
  ASSUME NEW d, NEW b \in Blobs, NEW files \in Seq(File), wellFormed(files),
         NEW failing, NEW key \in uploadImages(d, b, files, failing)
  PROVE  /\ stored(b, files, key) \in Blobs
         /\ \A k \in Key : b[k] # None => stored(b, files, key)[k] # None
         /\ \A k \in Key : b[k] # None =>
              \/ stored(b, files, key)[k] = b[k]
              \/ k \in {files[i].key : i \in failing} \ Outside
<1>0. key \in [DOMAIN files -> Key]
  BY KeysAreFree
<1>a. \A i \in withContent(files) : ReplacesUnchecked(b, files, failing, key, i)
  BY KeysAreFree
<1> DEFINE here(k) == {i \in withContent(files) : key[i] = k}
           replaced == {files[i].key : i \in failing} \ Outside
<1>1. ASSUME NEW k \in Key
      PROVE  /\ stored(b, files, key)[k] \in Content \cup {None}
             /\ b[k] # None => stored(b, files, key)[k] # None
             /\ b[k] # None => stored(b, files, key)[k] = b[k] \/ k \in replaced
  <2>1. stored(b, files, key)[k] = IF here(k) = {} THEN b[k] ELSE files[Max(here(k))].content
    BY DEF stored
  <2>2. b[k] \in Content \cup {None}
    BY DEF Blobs
  <2>3. CASE here(k) = {}
    BY <2>1, <2>2, <2>3
  <2>4. CASE here(k) # {}
    <3>1. PICK i \in here(k) : i = Max(here(k))
      <4>1. here(k) \subseteq 1 .. Len(files)
        BY DEF withContent
      <4>2. here(k) \in SUBSET Nat /\ IsFiniteSet(here(k))
        BY <4>1, FS_Interval, FS_Subset
      <4>3. Max(here(k)) \in here(k)
        BY <2>4, <4>2, MaxIsGreatest
      <4> QED BY <4>3
    <3>2. i \in withContent(files) /\ key[i] = k /\ i \in DOMAIN files /\ files[i].content # None
      BY <3>1 DEF withContent
    <3>3. b[k] # None => i \in failing /\ k = files[i].key /\ k \notin Outside
      BY <1>a, <3>2 DEF ReplacesUnchecked
    <3>4. files[i] \in File
      BY <3>2
    <3>5. stored(b, files, key)[k] = files[i].content
      BY <2>1, <2>4, <3>1
    <3> QED BY <3>2, <3>3, <3>4, <3>5 DEF File
  <2> QED BY <2>3, <2>4
<1>2. DOMAIN stored(b, files, key) = Key /\ stored(b, files, key) = [k \in Key |-> stored(b, files, key)[k]]
  BY DEF stored
<1> QED BY <1>1, <1>2 DEF Blobs

\* setAttachments writes rows of one text, which show what their blobs hold.
LEMMA Attached ==
  ASSUME NEW d \in Tables, NEW b \in Blobs, NEW files \in Seq(File), NEW p \in PostId,
         NEW c \in CommentId \cup {None}, NEW key \in [DOMAIN files -> Key]
  PROVE  LET e == setAttachments(d, b, p, c, files, key)
         IN /\ e \in Tables
            /\ \A a \in e.attachments : a \in d.attachments \/ (a.post = p /\ a.shows = b[a.key])
            /\ e.role = d.role /\ e.posts = d.posts /\ e.comments = d.comments /\ e.tags = d.tags
            /\ e.postTags = d.postTags /\ e.reactions = d.reactions /\ e.subscribers = d.subscribers
<1> DEFINE deleted == {key[i] : i \in {j \in DOMAIN files : files[j].remove}}
           inserted == {key[i] : i \in {j \in DOMAIN files :
                          \A l \in DOMAIN files : l >= j /\ key[l] = key[j] => ~files[l].remove}}
           kept == {a \in d.attachments : ~(a.post = p /\ a.comment = c /\ a.key \in deleted)}
           there == {a.key : a \in {x \in kept : x.post = p /\ x.comment = c}}
           row(k) == [post |-> p, comment |-> c, key |-> k, shows |-> b[k]]
           rows == kept \cup {row(k) : k \in inserted \ there}
<1>1. setAttachments(d, b, p, c, files, key) = [d EXCEPT !.attachments = rows]
  BY DEF setAttachments
<1>2. inserted \subseteq Key /\ kept \subseteq d.attachments
  OBVIOUS
<1>3. \A k \in Key : row(k) \in Attachment /\ row(k).post = p /\ row(k).shows = b[row(k).key]
  BY DEF Attachment, Blobs
<1>4. d.attachments \subseteq Attachment
  BY DEF Tables
<1>5. rows \subseteq Attachment
  BY <1>2, <1>3, <1>4
<1>6. \A a \in rows : a \in d.attachments \/ (a.post = p /\ a.shows = b[a.key])
  BY <1>2, <1>3
<1> HIDE DEF rows
<1> QED BY <1>1, <1>5, <1>6 DEF Tables

\* What assignTags writes.
LEMMA TaggedPost ==
  ASSUME NEW d \in Tables, NEW p \in PostId, NEW ts \in SUBSET TagId
  PROVE  LET e == assignTags(d, p, ts)
         IN /\ e \in Tables
            /\ e.postTags = d.postTags \cup ({p} \X ts)
            /\ e.role = d.role /\ e.posts = d.posts /\ e.comments = d.comments /\ e.tags = d.tags
            /\ e.attachments = d.attachments /\ e.reactions = d.reactions
            /\ e.subscribers = d.subscribers
BY DEF assignTags, Tables

\* What assigning or unassigning one tag writes.
LEMMA TagChanged ==
  ASSUME NEW d \in Tables, NEW p \in PostId, NEW t \in TagId,
         NEW e \in {assignTag(d, p, t), unassignTag(d, p, t)}
  PROVE  /\ e \in Tables
         /\ e.postTags \subseteq d.postTags \cup {<<p, t>>}
         /\ e.role = d.role /\ e.posts = d.posts /\ e.comments = d.comments /\ e.tags = d.tags
         /\ e.attachments = d.attachments /\ e.reactions = d.reactions
         /\ e.subscribers = d.subscribers
<1>1. PICK pts \in SUBSET (PostId \X TagId) :
        e = [d EXCEPT !.postTags = pts] /\ pts \subseteq d.postTags \cup {<<p, t>>}
  <2>1. CASE e = assignTag(d, p, t)
    <3>1. d.postTags \cup {<<p, t>>} \in SUBSET (PostId \X TagId)
      BY DEF Tables
    <3>2. e = [d EXCEPT !.postTags = d.postTags \cup {<<p, t>>}]
      BY <2>1 DEF assignTag
    <3> QED BY <3>1, <3>2
  <2>2. CASE e = unassignTag(d, p, t)
    <3>1. d.postTags \ {<<p, t>>} \in SUBSET (PostId \X TagId)
      BY DEF Tables
    <3>2. e = [d EXCEPT !.postTags = d.postTags \ {<<p, t>>}]
      BY <2>2 DEF unassignTag
    <3>3. d.postTags \ {<<p, t>>} \subseteq d.postTags \cup {<<p, t>>}
      OBVIOUS
    <3> QED BY <3>1, <3>2, <3>3
  <2> QED BY <2>1, <2>2
<1> QED BY <1>1 DEF Tables

\* Tables with other tags and assignments.
retagged(d, pts, table) == [d EXCEPT !.postTags = pts, !.tags = table]

\* What a step that writes the tags, and takes assignments off, leaves as it is.
LEMMA TagsWritten ==
  ASSUME NEW d \in Tables, NEW table \in [TagId -> Tag \cup {None}], NEW pts \in SUBSET d.postTags
  PROVE  LET e == retagged(d, pts, table)
         IN /\ e \in Tables
            /\ e.postTags = pts /\ e.tags = table
            /\ e.role = d.role /\ e.posts = d.posts /\ e.comments = d.comments
            /\ e.attachments = d.attachments /\ e.reactions = d.reactions
            /\ e.subscribers = d.subscribers
BY DEF Tables, retagged

\* What a subscription writes.
LEMMA SubscriptionChanged ==
  ASSUME NEW d \in Tables, NEW p \in PostId, NEW u \in User,
         NEW e \in {addSubscriber(d, p, u), removeSubscriber(d, p, u)}
  PROVE  /\ e \in Tables
         /\ \A q \in PostId \ {p} : e.subscribers[q] = d.subscribers[q]
         /\ e.role = d.role /\ e.posts = d.posts /\ e.comments = d.comments /\ e.tags = d.tags
         /\ e.attachments = d.attachments /\ e.reactions = d.reactions /\ e.postTags = d.postTags
<1>1. PICK status \in {"active", "inactive"} : e = [d EXCEPT !.subscribers[p][u] = status]
  BY DEF addSubscriber, internalAddSubscriber, removeSubscriber
<1>2. [d EXCEPT !.subscribers[p][u] = status]
        = [d EXCEPT !.subscribers = [d.subscribers EXCEPT ![p] = [d.subscribers[p] EXCEPT ![u] = status]]]
  OBVIOUS
<1>3. [d.subscribers EXCEPT ![p] = [d.subscribers[p] EXCEPT ![u] = status]]
        \in [PostId -> [User -> Subscription]]
  BY DEF Tables, Subscription
<1> QED BY <1>1, <1>2, <1>3 DEF Tables

\* What a reaction writes.
LEMMA ReactionToggled ==
  ASSUME NEW d \in Tables, NEW c \in CommentId, NEW u \in User, NEW m \in Emoji
  PROVE  LET e == toggleCommentReaction(d, c, u, m)
         IN /\ e \in Tables
            /\ e.role = d.role /\ e.posts = d.posts /\ e.comments = d.comments /\ e.tags = d.tags
            /\ e.attachments = d.attachments /\ e.subscribers = d.subscribers
            /\ e.postTags = d.postTags
<1>1. PICK rs \in SUBSET (CommentId \X User \X Emoji) :
        toggleCommentReaction(d, c, u, m) = [d EXCEPT !.reactions = rs]
  <2>1. d.reactions \in SUBSET (CommentId \X User \X Emoji)
    BY DEF Tables
  <2>2. /\ d.reactions \ {<<c, u, m>>} \in SUBSET (CommentId \X User \X Emoji)
        /\ d.reactions \cup {<<c, u, m>>} \in SUBSET (CommentId \X User \X Emoji)
    BY <2>1
  <2>3. \/ toggleCommentReaction(d, c, u, m) = [d EXCEPT !.reactions = d.reactions \ {<<c, u, m>>}]
        \/ toggleCommentReaction(d, c, u, m) = [d EXCEPT !.reactions = d.reactions \cup {<<c, u, m>>}]
    BY DEF toggleCommentReaction
  <2> QED BY <2>2, <2>3
<1> QED BY <1>1 DEF Tables

(***************************************************************************)
(* What a step does to each table.                                         *)
(***************************************************************************)
\* The posts that were deleted.
Gone == rowsOf(db.posts) \ posts(db)

\* What a step may do to the posts.
PostAdded ==
  \E u \in User, title \in Text :
    /\ newPost \in freeIds(db.posts) /\ newPost \in PostId /\ ~slugTaken(db, title, newPost)
    /\ db'.posts = [db.posts EXCEPT ![newPost] =
         [number |-> nextNumber(db), title |-> title, author |-> u,
          status |-> "open", original |-> None, recent |-> TRUE]]

PostEdited ==
  \E p \in posts(db), title \in Text :
    /\ ~slugTaken(db, title, p)
    /\ db'.posts = [db.posts EXCEPT ![p] = [@ EXCEPT !.title = title]]

PostAnswered ==
  \E p \in posts(db), status \in Status, original \in PostId \cup {None} :
    /\ status = "duplicate" <=> original # None
    /\ original # None => original \in posts(db) \ {p}
    /\ status = "deleted" => ~postIsReferenced(db, p)
    /\ db'.posts = [db.posts EXCEPT ![p] = answer(@, status, original)]

PostsAged ==
  db'.posts = [p \in PostId |-> IF db.posts[p] = None THEN None ELSE [db.posts[p] EXCEPT !.recent = FALSE]]

PostsEffect == db'.posts = db.posts \/ PostAdded \/ PostEdited \/ PostAnswered \/ PostsAged

CommentsEffect ==
  \A c \in freeIds(db.comments) : db'.comments[c] # None => db'.comments[c].post \notin Gone

TagsEffect ==
  /\ \A pt \in db'.postTags : pt \in db.postTags \/ (pt[1] \notin Gone /\ db.tags[pt[2]] # None)
  /\ \A t \in TagId : db.tags[t] # None /\ db'.tags[t] = None => \A pt \in db'.postTags : pt[2] # t

FilesEffect ==
  /\ \A k \in unchecked : k \in unchecked'
  /\ \A k \in Key : blobs[k] # None => blobs'[k] # None
  /\ \A k \in Key : blobs[k] # None => blobs'[k] = blobs[k] \/ k \in unchecked' \ Outside
  /\ \A a \in db'.attachments : a \in db.attachments \/ (a.post \notin Gone /\ a.shows = blobs'[a.key])

FollowersEffect == \A p \in Gone : db'.subscribers[p] = db.subscribers[p]

Effect ==
  /\ Basics'
  /\ PostsEffect /\ CommentsEffect /\ TagsEffect /\ FilesEffect /\ FollowersEffect

\* The files a request may bring are a sequence of files.
LEMMA FilesOfScope ==
  ASSUME Basics, NEW files \in scope.files
  PROVE  files \in Seq(File)
BY ScopesAssumption DEF Basics

\* The keys of files that are looked up are keys.
LEMMA NamedKeys ==
  ASSUME NEW files \in Seq(File), NEW failing \in SUBSET named(files)
  PROVE  {files[i].key : i \in failing} \subseteq Key
<1>1. ASSUME NEW i \in failing PROVE files[i].key \in Key
  <2>1. i \in DOMAIN files /\ files[i].key # None
    BY DEF named, withContent
  <2>2. files[i] \in File
    BY <2>1
  <2> QED BY <2>1, <2>2 DEF File
<1> QED BY <1>1

\* An upload of a text that is not of a deleted post: every operation with files does this.
LEMMA Uploaded ==
  ASSUME Basics, NEW files \in scope.files, wellFormed(files), NEW failing \in SUBSET named(files),
         NEW key \in uploadImages(db, blobs, files, failing),
         NEW rows \in Tables, NEW p \in PostId, p \notin Gone, NEW c \in CommentId \cup {None},
         rows.attachments = db.attachments
  PROVE  LET b == stored(blobs, files, key)
             e == setAttachments(rows, b, p, c, files, key)
         IN /\ e \in Tables
            /\ stores(b, files, failing) => blobs' \in Blobs /\ unchecked' \subseteq Key
            /\ stores(b, files, failing) /\ db'.attachments = e.attachments => FilesEffect
            /\ e.role = rows.role /\ e.posts = rows.posts /\ e.comments = rows.comments
            /\ e.tags = rows.tags /\ e.postTags = rows.postTags /\ e.reactions = rows.reactions
            /\ e.subscribers = rows.subscribers
<1> DEFINE b == stored(blobs, files, key)
           e == setAttachments(rows, b, p, c, files, key)
           replaced == {files[i].key : i \in failing}
<1>1. files \in Seq(File) /\ blobs \in Blobs /\ unchecked \subseteq Key
  BY FilesOfScope DEF Basics, TypeOK
<1>2. /\ b \in Blobs
      /\ \A k \in Key : blobs[k] # None => b[k] # None
      /\ \A k \in Key : blobs[k] # None => b[k] = blobs[k] \/ k \in replaced \ Outside
  BY <1>1, StoredBeside
<1>3. key \in [DOMAIN files -> Key]
  BY <1>1, KeysAreFree
<1>4. replaced \subseteq Key
  BY <1>1, NamedKeys
<1> HIDE DEF b
<1>5. /\ e \in Tables
      /\ \A a \in e.attachments : a \in rows.attachments \/ (a.post = p /\ a.shows = b[a.key])
      /\ e.role = rows.role /\ e.posts = rows.posts /\ e.comments = rows.comments
      /\ e.tags = rows.tags /\ e.postTags = rows.postTags /\ e.reactions = rows.reactions
      /\ e.subscribers = rows.subscribers
  BY <1>1, <1>2, <1>3, Attached
<1> HIDE DEF e
<1>6. stores(b, files, failing) => blobs' = b /\ unchecked' = unchecked \cup replaced
  BY DEF stores
<1> HIDE DEF replaced
<1>7. stores(b, files, failing) => blobs' \in Blobs /\ unchecked' \subseteq Key
  BY <1>1, <1>2, <1>4, <1>6
<1>8. stores(b, files, failing) /\ db'.attachments = e.attachments => FilesEffect
  BY <1>2, <1>5, <1>6 DEF FilesEffect
<1> QED BY <1>5, <1>7, <1>8 DEF b, e

\* A step that leaves the blobs, and rows of files, as they are.
LEMMA NoFilesMoved ==
  ASSUME blobs' = blobs, unchecked' = unchecked, db'.attachments = db.attachments
  PROVE  FilesEffect
BY DEF FilesEffect

\* A step that leaves tags and assignments as they are.
LEMMA NoTagsMoved ==
  ASSUME db'.tags = db.tags, db'.postTags = db.postTags
  PROVE  TagsEffect
BY DEF TagsEffect

\* A step that leaves comments as they are.
LEMMA NoCommentsMoved ==
  ASSUME db'.comments = db.comments
  PROVE  CommentsEffect
BY DEF CommentsEffect, freeIds, rowsOf

\* A step that keeps the types and leaves the tags as they are.
LEMMA BasicsKept ==
  ASSUME Basics, db' \in Tables, blobs' \in Blobs, unchecked' = unchecked \/ unchecked' \subseteq Key,
         scope' = scope, db'.tags = db.tags
  PROVE  Basics'
BY DEF Basics, TypeOK, TagSlugsUnique

(***************************************************************************)
(* The operations, one lemma each.                                         *)
(***************************************************************************)
LEMMA CreatePostDoes ==
  ASSUME Basics, NEW u \in User, NEW title \in Text, NEW ts \in SUBSET TagId, NEW files \in scope.files,
         CreatePost(u, title, ts, files)
  PROVE  Effect
<1>1. /\ db \in Tables /\ blobs \in Blobs /\ scope.posts \in 0 .. Cardinality(PostId)
  BY ScopesAssumption DEF Basics, TypeOK
<1>2. freeIds(db.posts) # {}
  BY <1>1, BelowTheBound, IdsAssumption DEF CreatePost, Tables
<1>3. newPost \in PostId /\ newPost \in freeIds(db.posts) /\ newPost \notin Gone
  <2>1. db.posts \in [PostId -> Post \cup {None}] /\ PostId \subseteq Nat
    BY <1>1, IdsAssumption DEF Tables
  <2>2. newPost \in PostId /\ newPost \in freeIds(db.posts)
    BY <1>2, <2>1, NextId DEF newPost
  <2> QED BY <2>2 DEF freeIds, Gone
<1> DEFINE rows == addNewPost(db, newPost, u, title)
<1>4. /\ rows \in Tables
      /\ rows.posts = [db.posts EXCEPT ![newPost] = [number |-> nextNumber(db), title |-> title, author |-> u,
                            status |-> "open", original |-> None, recent |-> TRUE]]
      /\ rows.role = db.role /\ rows.comments = db.comments /\ rows.tags = db.tags
      /\ rows.postTags = db.postTags /\ rows.reactions = db.reactions /\ rows.attachments = db.attachments
      /\ \A q \in PostId \ {newPost} : rows.subscribers[q] = db.subscribers[q]
  BY <1>1, <1>3, AddedPost
<1> HIDE DEF rows
<1>5a. PICK failing \in SUBSET named(files) :
           \E key \in uploadImages(db, blobs, files, failing) :
             LET b == stored(blobs, files, key)
             IN db' = assignTags(setAttachments(rows, b, newPost, None, files, key), newPost, ts) /\ stores(b, files, failing)
  BY DEF CreatePost, commits, rows
<1>5. PICK key \in uploadImages(db, blobs, files, failing) :
        LET b == stored(blobs, files, key)
        IN db' = assignTags(setAttachments(rows, b, newPost, None, files, key), newPost, ts) /\ stores(b, files, failing)
  BY <1>5a
<1>6. wellFormed(files) /\ ts \subseteq rowsOf(db.tags) /\ ~slugTaken(db, title, newPost) /\ scope' = scope
  BY DEF CreatePost, CreateNewPostOnPreExecute, asks
<1> DEFINE b == stored(blobs, files, key)
           e == setAttachments(rows, b, newPost, None, files, key)
<1>7. /\ e \in Tables
      /\ stores(b, files, failing) => blobs' \in Blobs /\ unchecked' \subseteq Key
      /\ stores(b, files, failing) /\ db'.attachments = e.attachments => FilesEffect
      /\ e.role = rows.role /\ e.posts = rows.posts /\ e.comments = rows.comments
      /\ e.tags = rows.tags /\ e.postTags = rows.postTags /\ e.reactions = rows.reactions
      /\ e.subscribers = rows.subscribers
  BY <1>3, <1>4, <1>6, Uploaded
<1>8. stores(b, files, failing) /\ db' = assignTags(e, newPost, ts)
  BY <1>5
<1> HIDE DEF b, e
<1>9. /\ db' \in Tables
      /\ db'.postTags = e.postTags \cup ({newPost} \X ts)
      /\ db'.posts = e.posts /\ db'.comments = e.comments /\ db'.tags = e.tags
      /\ db'.attachments = e.attachments /\ db'.subscribers = e.subscribers
  BY <1>3, <1>7, <1>8, TaggedPost
<1>10. Basics'
  BY <1>4, <1>6, <1>7, <1>8, <1>9, BasicsKept
<1>11. PostsEffect
  <2>1. db'.posts = [db.posts EXCEPT ![newPost] = [number |-> nextNumber(db), title |-> title, author |-> u,
                            status |-> "open", original |-> None, recent |-> TRUE]]
    BY <1>4, <1>7, <1>9
  <2>2. PostAdded
    BY <1>3, <1>6, <2>1, Zenon DEF PostAdded
  <2> QED BY <2>2 DEF PostsEffect
<1>12. CommentsEffect
  BY <1>4, <1>7, <1>9, NoCommentsMoved
<1>13. TagsEffect
  <2>1. db'.tags = db.tags /\ db'.postTags = db.postTags \cup ({newPost} \X ts)
    BY <1>4, <1>7, <1>9
  <2>2. \A pt \in {newPost} \X ts : pt[1] = newPost /\ pt[2] \in ts
    OBVIOUS
  <2>3. \A t \in ts : db.tags[t] # None
    BY <1>6 DEF rowsOf
  <2>4. \A pt \in db'.postTags : pt \in db.postTags \/ pt \in {newPost} \X ts
    BY <2>1
  <2>5. \A pt \in db'.postTags : pt \in db.postTags \/ (pt[1] \notin Gone /\ db.tags[pt[2]] # None)
    BY <2>2, <2>3, <2>4, <1>3
  <2> QED BY <2>1, <2>5 DEF TagsEffect
<1>14. FilesEffect
  BY <1>7, <1>8, <1>9
<1>15. FollowersEffect
  <2>1. Gone \subseteq PostId \ {newPost}
    BY <1>1, <1>3 DEF Gone, rowsOf, Tables
  <2> QED BY <2>1, <1>4, <1>7, <1>9 DEF FollowersEffect
<1> QED BY <1>10, <1>11, <1>12, <1>13, <1>14, <1>15 DEF Effect

\* A post that is found is not among the deleted ones.
LEMMA Live ==
  ASSUME Basics, NEW n, getPostByNumber(db, n) # None
  PROVE  LET p == getPostByNumber(db, n)
         IN /\ p \in posts(db) /\ p \in rowsOf(db.posts) /\ p \in PostId /\ p \notin Gone
            /\ db.posts[p].number = n
BY FoundByNumber DEF Basics, TypeOK, Gone

LEMMA UpdatePostDoes ==
  ASSUME Basics, NEW u \in User, NEW n, NEW title \in Text, NEW files \in scope.files,
         UpdatePost(u, n, title, files)
  PROVE  Effect
<1> DEFINE p == getPostByNumber(db, n)
<1>1. /\ p # None /\ wellFormed(files) /\ ~slugTaken(db, title, p) /\ scope' = scope
      /\ \E failing \in SUBSET named(files) : \E key \in uploadImages(db, blobs, files, failing) :
           LET b == stored(blobs, files, key)
           IN db' = setAttachments(updatePost(db, p, title), b, p, None, files, key) /\ stores(b, files, failing)
  BY DEF UpdatePost, asks, commits
<1>2. p \in posts(db) /\ p \in rowsOf(db.posts) /\ p \in PostId /\ p \notin Gone /\ db \in Tables
  BY <1>1, Live DEF Basics, TypeOK
<1> HIDE DEF p
<1> DEFINE rows == updatePost(db, p, title)
<1>3. /\ rows \in Tables
      /\ rows.posts = [db.posts EXCEPT ![p] = [@ EXCEPT !.title = title]]
      /\ rows.comments = db.comments /\ rows.tags = db.tags
      /\ rows.postTags = db.postTags /\ rows.attachments = db.attachments
      /\ rows.subscribers = db.subscribers
  BY <1>2, UpdatedPost
<1> HIDE DEF rows
<1>4a. PICK failing \in SUBSET named(files) :
           \E key \in uploadImages(db, blobs, files, failing) :
             LET b == stored(blobs, files, key)
             IN db' = setAttachments(rows, b, p, None, files, key) /\ stores(b, files, failing)
  BY <1>1 DEF rows
<1>4. PICK key \in uploadImages(db, blobs, files, failing) :
        LET b == stored(blobs, files, key)
        IN db' = setAttachments(rows, b, p, None, files, key) /\ stores(b, files, failing)
  BY <1>4a
<1> DEFINE b == stored(blobs, files, key)
           e == setAttachments(rows, b, p, None, files, key)
<1>5. /\ e \in Tables
      /\ stores(b, files, failing) => blobs' \in Blobs /\ unchecked' \subseteq Key
      /\ stores(b, files, failing) /\ db'.attachments = e.attachments => FilesEffect
      /\ e.posts = rows.posts /\ e.comments = rows.comments
      /\ e.tags = rows.tags /\ e.postTags = rows.postTags
      /\ e.subscribers = rows.subscribers
  BY <1>1, <1>2, <1>3, Uploaded
<1>6. stores(b, files, failing) /\ db' = e
  BY <1>4
<1> HIDE DEF b, e
<1>7. Basics'
  BY <1>1, <1>3, <1>5, <1>6, BasicsKept
<1>8. PostsEffect
  BY <1>1, <1>2, <1>3, <1>5, <1>6 DEF PostsEffect, PostEdited
<1>9. CommentsEffect /\ TagsEffect /\ FilesEffect
  BY <1>3, <1>5, <1>6, NoCommentsMoved, NoTagsMoved
<1>10. FollowersEffect
  BY <1>3, <1>5, <1>6 DEF FollowersEffect
<1> QED BY <1>7, <1>8, <1>9, <1>10 DEF Effect

LEMMA HourPassesDoes ==
  ASSUME Basics, HourPasses
  PROVE  Effect
<1> DEFINE aged == [p \in PostId |-> IF db.posts[p] = None THEN None ELSE [db.posts[p] EXCEPT !.recent = FALSE]]
<1>1. db \in Tables /\ blobs \in Blobs /\ db' = [db EXCEPT !.posts = aged] /\ blobs' = blobs /\ unchecked' = unchecked /\ scope' = scope
  BY DEF HourPasses, Basics, TypeOK
<1>2. aged \in [PostId -> Post \cup {None}]
  <2>1. ASSUME NEW p \in PostId, db.posts[p] # None PROVE [db.posts[p] EXCEPT !.recent = FALSE] \in Post
    <3>1. db.posts[p] \in Post
      BY <1>1, <2>1 DEF Tables
    <3> QED BY <3>1 DEF Post
  <2> QED BY <2>1
<1>3. PostsAged <=> db'.posts = aged
  BY DEF PostsAged
<1> HIDE DEF aged
<1>4. /\ db' \in Tables /\ db'.posts = aged
      /\ db'.comments = db.comments /\ db'.tags = db.tags /\ db'.postTags = db.postTags
      /\ db'.attachments = db.attachments /\ db'.subscribers = db.subscribers
  BY <1>1, <1>2 DEF Tables
<1>5. Basics'
  BY <1>1, <1>4, BasicsKept
<1>6. CommentsEffect /\ TagsEffect /\ FilesEffect
  BY <1>1, <1>4, NoCommentsMoved, NoTagsMoved, NoFilesMoved
<1> QED BY <1>3, <1>4, <1>5, <1>6 DEF Effect, PostsEffect, FollowersEffect

\* An answer, or a deletion, of a post.
LEMMA AnsweredDoes ==
  ASSUME Basics, NEW p \in posts(db), NEW status \in Status, NEW original \in PostId \cup {None},
         status = "duplicate" <=> original # None,
         original # None => original \in posts(db) \ {p},
         status = "deleted" => ~postIsReferenced(db, p),
         db' = answered(db, p, status, original),
         blobs' = blobs, unchecked' = unchecked, scope' = scope
  PROVE  Effect
<1>1. db \in Tables /\ blobs \in Blobs /\ p \in rowsOf(db.posts)
  BY DEF Basics, TypeOK, posts
<1>2. /\ db' \in Tables
      /\ db'.posts = [db.posts EXCEPT ![p] = answer(@, status, original)]
      /\ db'.comments = db.comments /\ db'.tags = db.tags /\ db'.postTags = db.postTags
      /\ db'.attachments = db.attachments /\ db'.subscribers = db.subscribers
  BY <1>1, RespondedPost
<1>3. PostAnswered
  BY <1>2 DEF PostAnswered
<1>4. Basics'
  BY <1>1, <1>2, BasicsKept
<1>5. CommentsEffect /\ TagsEffect /\ FilesEffect
  BY <1>1, <1>2, NoCommentsMoved, NoTagsMoved, NoFilesMoved
<1> QED BY <1>2, <1>3, <1>4, <1>5 DEF Effect, PostsEffect, FollowersEffect

LEMMA SetResponseDoes ==
  ASSUME Basics, NEW u \in User, NEW n, NEW status, NEW originalNumber,
         SetResponse(u, n, status, originalNumber)
  PROVE  Effect
<1> DEFINE p == getPostByNumber(db, n)  o == getPostByNumber(db, originalNumber)
<1>1. /\ p # None /\ status \in LiveStatus /\ db' = respond(p, status, originalNumber)
      /\ status = "duplicate" => originalNumber # n /\ o # None
      /\ blobs' = blobs /\ unchecked' = unchecked /\ scope' = scope
  BY DEF SetResponse, SetResponseValidate, asks
<1>2. p \in posts(db) /\ db.posts[p].number = n
  BY <1>1, Live
<1>3. status \in Status /\ status # "deleted"
  BY <1>1 DEF LiveStatus
<1>4. CASE status = "duplicate"
  <2>1. o \in posts(db) /\ o \in PostId /\ db.posts[o].number = originalNumber /\ o # None
    BY <1>1, <1>4, Live
  <2>2. o # p
    BY <1>1, <1>2, <1>4, <2>1
  <2>3. db' = answered(db, p, status, o)
    BY <1>1, <1>4 DEF respond, markPostAsDuplicate, answered
  <2> HIDE DEF p, o
  <2> QED BY <1>1, <1>2, <1>3, <1>4, <2>1, <2>2, <2>3, AnsweredDoes
<1>5. CASE status # "duplicate"
  <2>1. db' = answered(db, p, status, None)
    BY <1>1, <1>5 DEF respond, setPostResponse, answered
  <2> HIDE DEF p, o
  <2> QED BY <1>1, <1>2, <1>3, <1>5, <2>1, AnsweredDoes
<1> QED BY <1>4, <1>5

LEMMA DeletePostDoes ==
  ASSUME Basics, NEW u \in User, NEW n, DeletePost(u, n)
  PROVE  Effect
<1> DEFINE p == getPostByNumber(db, n)
<1>1. p # None /\ ~postIsReferenced(db, p) /\ db' = setPostResponse(db, p, "deleted")
      /\ blobs' = blobs /\ unchecked' = unchecked /\ scope' = scope
  BY DEF DeletePost, DeletePostValidate, asks
<1>2. p \in posts(db)
  BY <1>1, Live
<1>3. db' = answered(db, p, "deleted", None)
  BY <1>1 DEF setPostResponse, answered
<1> HIDE DEF p
<1> QED BY <1>1, <1>2, <1>3, AnsweredDoes DEF Status

LEMMA PostCommentDoes ==
  ASSUME Basics, NEW u \in User, NEW n, NEW files \in scope.files, PostComment(u, n, files)
  PROVE  Effect
<1> DEFINE p == getPostByNumber(db, n)
<1>1. /\ Cardinality(rowsOf(db.comments)) < scope.comments
      /\ p # None /\ wellFormed(files) /\ scope' = scope
      /\ \E failing \in SUBSET named(files) : \E key \in uploadImages(db, blobs, files, failing) :
           LET b == stored(blobs, files, key)
           IN db' = setAttachments(addNewComment(db, newComment, p, u), b, p, newComment, files, key)
              /\ stores(b, files, failing)
  BY DEF PostComment, asks, commits
<1>2. p \in posts(db) /\ p \in PostId /\ p \notin Gone /\ db \in Tables
  BY <1>1, Live DEF Basics, TypeOK
<1> HIDE DEF p
<1>3. newComment \in CommentId
  <2>1. scope.comments \in 0 .. Cardinality(CommentId)
    BY ScopesAssumption DEF Basics
  <2>2. db.comments \in [CommentId -> Comment \cup {None}] /\ CommentId \subseteq Nat
    BY <1>2, IdsAssumption DEF Tables
  <2>3. freeIds(db.comments) # {}
    BY <1>1, <2>1, <2>2, BelowTheBound, IdsAssumption
  <2> QED BY <2>2, <2>3, NextId DEF newComment
<1> DEFINE rows == addNewComment(db, newComment, p, u)
<1>4. /\ rows \in Tables
      /\ rows.comments = [db.comments EXCEPT ![newComment] =
                            [post |-> p, author |-> u, editor |-> None, deleted |-> FALSE]]
      /\ rows.posts = db.posts /\ rows.tags = db.tags
      /\ rows.postTags = db.postTags /\ rows.attachments = db.attachments
      /\ rows.subscribers = db.subscribers
  BY <1>2, <1>3, AddedComment
<1> HIDE DEF rows
<1>5a. PICK failing \in SUBSET named(files) :
           \E key \in uploadImages(db, blobs, files, failing) :
             LET b == stored(blobs, files, key)
             IN db' = setAttachments(rows, b, p, newComment, files, key) /\ stores(b, files, failing)
  BY <1>1 DEF rows
<1>5. PICK key \in uploadImages(db, blobs, files, failing) :
        LET b == stored(blobs, files, key)
        IN db' = setAttachments(rows, b, p, newComment, files, key) /\ stores(b, files, failing)
  BY <1>5a
<1> DEFINE b == stored(blobs, files, key)
           e == setAttachments(rows, b, p, newComment, files, key)
<1>6. /\ e \in Tables
      /\ stores(b, files, failing) => blobs' \in Blobs /\ unchecked' \subseteq Key
      /\ stores(b, files, failing) /\ db'.attachments = e.attachments => FilesEffect
      /\ e.posts = rows.posts /\ e.comments = rows.comments
      /\ e.tags = rows.tags /\ e.postTags = rows.postTags
      /\ e.subscribers = rows.subscribers
  BY <1>1, <1>2, <1>3, <1>4, Uploaded
<1>7. stores(b, files, failing) /\ db' = e
  BY <1>5
<1> HIDE DEF b, e
<1>8. Basics'
  BY <1>1, <1>4, <1>6, <1>7, BasicsKept
<1>9. CommentsEffect
  <2>1. db'.comments = [db.comments EXCEPT ![newComment] =
                          [post |-> p, author |-> u, editor |-> None, deleted |-> FALSE]]
    BY <1>4, <1>6, <1>7
  <2>2. DOMAIN db.comments = CommentId /\ freeIds(db.comments) \subseteq CommentId
    BY <1>2 DEF Tables, freeIds
  <2>3. \A c \in freeIds(db.comments) : db.comments[c] = None
    BY DEF freeIds, rowsOf
  <2>4. \A c \in freeIds(db.comments) : db'.comments[c] # None => db'.comments[c].post = p
    BY <1>3, <2>1, <2>2, <2>3
  <2> QED BY <1>2, <2>4 DEF CommentsEffect
<1>10. TagsEffect /\ FilesEffect
  BY <1>4, <1>6, <1>7, NoTagsMoved
<1>11. PostsEffect /\ FollowersEffect
  BY <1>4, <1>6, <1>7 DEF PostsEffect, FollowersEffect
<1> QED BY <1>8, <1>9, <1>10, <1>11 DEF Effect

\* An edit or a deletion of a comment writes no new row.
LEMMA NoNewComment ==
  ASSUME Basics, NEW c \in rowsOf(db.comments),
         \A k \in CommentId : k # c => db'.comments[k] = db.comments[k]
  PROVE  CommentsEffect
BY DEF CommentsEffect, freeIds, rowsOf, Basics, TypeOK, Tables

LEMMA UpdateCommentDoes ==
  ASSUME Basics, NEW u \in User, NEW n, NEW id \in CommentId, NEW files \in scope.files,
         UpdateComment(u, n, id, files)
  PROVE  Effect
<1> DEFINE p == getPostByNumber(db, n)  c == getCommentByID(db, id)
<1>1. /\ p # None /\ c # None /\ wellFormed(files) /\ scope' = scope
      /\ \E failing \in SUBSET named(files) : \E key \in uploadImages(db, blobs, files, failing) :
           LET b == stored(blobs, files, key)
           IN db' = setAttachments(updateComment(db, c, u), b, getPostByID(db, p), c, files, key)
              /\ stores(b, files, failing)
  BY DEF UpdateComment, EditCommentIsAuthorized, asks, commits
<1>2. p \in posts(db) /\ p \in PostId /\ p \notin Gone /\ db \in Tables
  BY <1>1, Live DEF Basics, TypeOK
<1>3. getPostByID(db, p) = p
  BY <1>2, FoundById
<1>4. c = id /\ c \in rowsOf(db.comments)
  BY <1>1, <1>2, FoundComment
<1> HIDE DEF p, c
<1> DEFINE rows == updateComment(db, c, u)
<1>5. /\ rows \in Tables
      /\ \A k \in CommentId : k # c => rows.comments[k] = db.comments[k]
      /\ rows.posts = db.posts /\ rows.tags = db.tags
      /\ rows.postTags = db.postTags /\ rows.attachments = db.attachments
      /\ rows.subscribers = db.subscribers
  BY <1>2, <1>4, ChangedComment
<1> HIDE DEF rows
<1>6a. PICK failing \in SUBSET named(files) :
           \E key \in uploadImages(db, blobs, files, failing) :
             LET b == stored(blobs, files, key)
             IN db' = setAttachments(rows, b, p, c, files, key) /\ stores(b, files, failing)
  BY <1>1, <1>3 DEF rows
<1>6. PICK key \in uploadImages(db, blobs, files, failing) :
        LET b == stored(blobs, files, key)
        IN db' = setAttachments(rows, b, p, c, files, key) /\ stores(b, files, failing)
  BY <1>6a
<1> DEFINE b == stored(blobs, files, key)
           e == setAttachments(rows, b, p, c, files, key)
<1>7. /\ e \in Tables
      /\ stores(b, files, failing) => blobs' \in Blobs /\ unchecked' \subseteq Key
      /\ stores(b, files, failing) /\ db'.attachments = e.attachments => FilesEffect
      /\ e.posts = rows.posts /\ e.comments = rows.comments
      /\ e.tags = rows.tags /\ e.postTags = rows.postTags
      /\ e.subscribers = rows.subscribers
  BY <1>1, <1>2, <1>4, <1>5, Uploaded
<1>8. stores(b, files, failing) /\ db' = e
  BY <1>6
<1> HIDE DEF b, e
<1>9. Basics'
  BY <1>1, <1>5, <1>7, <1>8, BasicsKept
<1>10. CommentsEffect
  BY <1>4, <1>5, <1>7, <1>8, NoNewComment
<1>11. TagsEffect /\ FilesEffect
  BY <1>5, <1>7, <1>8, NoTagsMoved
<1>12. PostsEffect /\ FollowersEffect
  BY <1>5, <1>7, <1>8 DEF PostsEffect, FollowersEffect
<1> QED BY <1>9, <1>10, <1>11, <1>12 DEF Effect

LEMMA DeleteCommentDoes ==
  ASSUME Basics, NEW u \in User, NEW id \in CommentId, DeleteComment(u, id)
  PROVE  Effect
<1>1. /\ getCommentByID(db, id) # None /\ db' = deleteComment(db, id)
      /\ blobs' = blobs /\ unchecked' = unchecked /\ scope' = scope /\ db \in Tables /\ blobs \in Blobs
  BY DEF DeleteComment, DeleteCommentIsAuthorized, asks, Basics, TypeOK
<1>2. id \in rowsOf(db.comments)
  BY <1>1, FoundComment
<1>3. /\ db' \in Tables
      /\ \A k \in CommentId : k # id => db'.comments[k] = db.comments[k]
      /\ db'.posts = db.posts /\ db'.tags = db.tags
      /\ db'.postTags = db.postTags /\ db'.attachments = db.attachments
      /\ db'.subscribers = db.subscribers
  BY <1>1, <1>2, ChangedComment
<1>4. Basics' /\ CommentsEffect /\ TagsEffect /\ FilesEffect
  BY <1>1, <1>2, <1>3, BasicsKept, NoNewComment, NoTagsMoved, NoFilesMoved
<1> QED BY <1>3, <1>4 DEF Effect, PostsEffect, FollowersEffect

LEMMA ToggleReactionDoes ==
  ASSUME Basics, NEW u \in User, NEW id \in CommentId, NEW m \in Emoji, ToggleReaction(u, id, m)
  PROVE  Effect
<1>1. /\ db' = toggleCommentReaction(db, id, u, m)
      /\ blobs' = blobs /\ unchecked' = unchecked /\ scope' = scope /\ db \in Tables /\ blobs \in Blobs
  BY DEF ToggleReaction, asks, Basics, TypeOK
<1>2. /\ db' \in Tables /\ db'.comments = db.comments
      /\ db'.posts = db.posts /\ db'.tags = db.tags
      /\ db'.postTags = db.postTags /\ db'.attachments = db.attachments
      /\ db'.subscribers = db.subscribers
  BY <1>1, ReactionToggled
<1>3. Basics' /\ CommentsEffect /\ TagsEffect /\ FilesEffect
  BY <1>1, <1>2, BasicsKept, NoCommentsMoved, NoTagsMoved, NoFilesMoved
<1> QED BY <1>2, <1>3 DEF Effect, PostsEffect, FollowersEffect

LEMMA FailAfterUploadDoes ==
  ASSUME Basics, NEW files \in scope.files, FailAfterUpload(files)
  PROVE  Effect
<1>1a. PICK failing \in SUBSET named(files) :
           \E key \in uploadImages(db, blobs, files, failing) :
             stores(stored(blobs, files, key), files, failing)
  BY DEF FailAfterUpload
<1>1. PICK key \in uploadImages(db, blobs, files, failing) :
        stores(stored(blobs, files, key), files, failing)
  BY <1>1a
<1>2. wellFormed(files) /\ db' = db /\ scope' = scope /\ db \in Tables /\ blobs \in Blobs
      /\ unchecked \subseteq Key /\ files \in Seq(File)
  BY FilesOfScope DEF FailAfterUpload, Basics, TypeOK
<1>a. key \in uploadImages(db, blobs, files, failing) /\ wellFormed(files)
      /\ blobs \in Blobs /\ files \in Seq(File)
  BY <1>1, <1>2
<1> DEFINE b == stored(blobs, files, key)
           replaced == {files[i].key : i \in failing}
<1>3. /\ b \in Blobs
      /\ \A k \in Key : blobs[k] # None => b[k] # None
      /\ \A k \in Key : blobs[k] # None => b[k] = blobs[k] \/ k \in replaced \ Outside
  BY <1>a, StoredBeside
<1>4. replaced \subseteq Key /\ blobs' = b /\ unchecked' = unchecked \cup replaced
  BY <1>1, <1>2, NamedKeys DEF stores
<1> HIDE DEF b, replaced
<1>5. blobs' \in Blobs /\ unchecked' \subseteq Key
  BY <1>2, <1>3, <1>4
<1>6. FilesEffect
  BY <1>2, <1>3, <1>4 DEF FilesEffect
<1>7. Basics' /\ CommentsEffect /\ TagsEffect
  BY <1>2, <1>5, BasicsKept, NoCommentsMoved, NoTagsMoved
<1> QED BY <1>2, <1>6, <1>7 DEF Effect, PostsEffect, FollowersEffect

LEMMA SubscribeDoes ==
  ASSUME Basics, NEW u \in User, NEW n, Subscribe(u, n) \/ Unsubscribe(u, n)
  PROVE  Effect
<1> DEFINE p == getPostByNumber(db, n)
<1>1. /\ p # None /\ db' \in {addSubscriber(db, p, u), removeSubscriber(db, p, u)}
      /\ blobs' = blobs /\ unchecked' = unchecked /\ scope' = scope /\ db \in Tables /\ blobs \in Blobs
  BY DEF Subscribe, Unsubscribe, addOrRemove, asks, Basics, TypeOK
<1>2. p \in PostId /\ p \notin Gone
  BY <1>1, Live
<1> HIDE DEF p
<1>3. /\ db' \in Tables /\ db'.comments = db.comments
      /\ \A q \in PostId \ {p} : db'.subscribers[q] = db.subscribers[q]
      /\ db'.posts = db.posts /\ db'.tags = db.tags
      /\ db'.postTags = db.postTags /\ db'.attachments = db.attachments
  BY <1>1, <1>2, SubscriptionChanged
<1>4. Basics' /\ CommentsEffect /\ TagsEffect /\ FilesEffect
  BY <1>1, <1>3, BasicsKept, NoCommentsMoved, NoTagsMoved, NoFilesMoved
<1>5. Gone \subseteq PostId \ {p}
  BY <1>1, <1>2 DEF Gone, rowsOf, Tables
<1> QED BY <1>3, <1>4, <1>5 DEF Effect, PostsEffect, FollowersEffect

LEMMA AssignTagDoes ==
  ASSUME Basics, NEW u \in User, NEW n, NEW t \in TagId, AssignTag(u, n, t) \/ UnassignTag(u, n, t)
  PROVE  Effect
<1> DEFINE p == getPostByNumber(db, n)
<1>1. /\ p # None /\ db' \in {assignTag(db, p, t), unassignTag(db, p, t)} /\ t \in rowsOf(db.tags)
      /\ blobs' = blobs /\ unchecked' = unchecked /\ scope' = scope /\ db \in Tables /\ blobs \in Blobs
  BY DEF AssignTag, UnassignTag, addOrRemove, asks, Basics, TypeOK
<1>2. p \in PostId /\ p \notin Gone
  BY <1>1, Live
<1> HIDE DEF p
<1>3. /\ db' \in Tables /\ db'.comments = db.comments
      /\ db'.posts = db.posts /\ db'.tags = db.tags
      /\ db'.postTags \subseteq db.postTags \cup {<<p, t>>} /\ db'.attachments = db.attachments
      /\ db'.subscribers = db.subscribers
  BY <1>1, <1>2, TagChanged
<1>4. Basics' /\ CommentsEffect /\ FilesEffect
  BY <1>1, <1>3, BasicsKept, NoCommentsMoved, NoFilesMoved
<1>5. TagsEffect
  <2>1. db.tags[t] # None
    BY <1>1 DEF rowsOf
  <2> QED BY <1>2, <1>3, <2>1 DEF TagsEffect
<1> QED BY <1>3, <1>4, <1>5 DEF Effect, PostsEffect, FollowersEffect

\* A tag found by its slug has the slug, and if none is found no tag has it.
LEMMA NoTagFound ==
  ASSUME Basics, NEW slug
  PROVE  LET found == queryTagBySlug(db, slug)
         IN /\ found = None => \A t \in rowsOf(db.tags) : Make[db.tags[t].name] # slug
            /\ found # None => found \in rowsOf(db.tags) /\ Make[db.tags[found].name] = slug
<1> DEFINE S == {t \in rowsOf(db.tags) : Make[db.tags[t].name] = slug}
<1>1. S \in SUBSET Nat /\ S \subseteq TagId
  BY IdsAssumption DEF Basics, TypeOK, Tables, rowsOf
<1>2. queryTagBySlug(db, slug) = IF S = {} THEN None ELSE Min(S)
  BY DEF queryTagBySlug
<1>3. S # {} => Min(S) \in S
  <2> HIDE DEF S
  <2> QED BY <1>1, MinIsLeast
<1>4. None \notin TagId
  BY NoneIsNothing
<1> QED BY <1>1, <1>2, <1>3, <1>4

\* A step that writes tags and keeps the rest.
LEMMA TagsWrittenDoes ==
  ASSUME Basics, NEW table \in [TagId -> Tag \cup {None}], NEW pts \in SUBSET db.postTags,
         db' = retagged(db, pts, table), blobs' = blobs, unchecked' = unchecked, scope' = scope,
         \A t \in TagId : db.tags[t] # None /\ table[t] = None => \A pt \in pts : pt[2] # t,
         \A s, t \in rowsOf(table) : Make[table[s].name] = Make[table[t].name] => s = t
  PROVE  Effect
<1>1. db \in Tables /\ blobs \in Blobs
  BY DEF Basics, TypeOK
<1>2. /\ db' \in Tables /\ db'.comments = db.comments
      /\ db'.posts = db.posts /\ db'.tags = table
      /\ db'.postTags = pts /\ db'.attachments = db.attachments
      /\ db'.subscribers = db.subscribers
  BY <1>1, TagsWritten
<1>3. Basics'
  <2>1. TypeOK' /\ scope' \in Scopes
    BY <1>1, <1>2 DEF Basics, TypeOK
  <2>2. rowsOf(db'.tags) = rowsOf(table)
    BY <1>2
  <2>3. TagSlugsUnique'
    BY <1>2, <2>2 DEF TagSlugsUnique
  <2> QED BY <2>1, <2>3 DEF Basics
<1>4. TagsEffect /\ CommentsEffect /\ FilesEffect
  BY <1>1, <1>2, NoCommentsMoved, NoFilesMoved DEF TagsEffect
<1> QED BY <1>2, <1>3, <1>4 DEF Effect, PostsEffect, FollowersEffect

\* A new or edited tag whose slug no other tag has.
LEMMA OneTagWritten ==
  ASSUME Basics, NEW t \in TagId, NEW name \in Text, NEW public \in BOOLEAN,
         NEW except, ~tagTaken(db, name, except), except = t \/ (except = None /\ t \in freeIds(db.tags)),
         db' = [db EXCEPT !.tags[t] = [name |-> name, public |-> public]],
         blobs' = blobs, unchecked' = unchecked, scope' = scope
  PROVE  Effect
<1> DEFINE row == [name |-> name, public |-> public]
           table == [db.tags EXCEPT ![t] = row]
<1>1. db \in Tables /\ None \notin TagId /\ row \in Tag /\ row.name = name
  BY NoneIsNothing DEF Basics, TypeOK, Tag
<1>2. row # None
  BY <1>1, NoneIsNoRow
<1> HIDE DEF row
<1>3. db.tags \in [TagId -> Tag \cup {None}] /\ table \in [TagId -> Tag \cup {None}] /\ table[t] = row
      /\ \A s \in TagId \ {t} : table[s] = db.tags[s]
  BY <1>1 DEF Tables
<1>4. db' = retagged(db, db.postTags, table)
  <2>1. db' = [db EXCEPT !.tags = table]
    BY DEF row
  <2>2. [db EXCEPT !.tags = table] = retagged(db, db.postTags, table)
    BY <1>1 DEF retagged, Tables
  <2> QED BY <2>1, <2>2
<1>5. \A s \in TagId : db.tags[s] # None /\ table[s] = None => \A pt \in db.postTags : pt[2] # s
  BY <1>2, <1>3
<1> HIDE DEF table
<1>7. ASSUME NEW s \in rowsOf(table), NEW r \in rowsOf(table),
             Make[table[s].name] = Make[table[r].name]
      PROVE  s = r
  <2>1. s \in TagId /\ r \in TagId /\ table[s] # None /\ table[r] # None
    BY <1>3 DEF rowsOf
  <2>2. \A q \in TagId \ {t} : table[q] # None => q \in rowsOf(db.tags) \ {except}
    BY <1>1, <1>3 DEF rowsOf
  <2>3. \A q \in TagId \ {t} : table[q] # None => Make[table[q].name] # Make[table[t].name]
    BY <1>1, <1>3, <2>2 DEF tagTaken
  <2>4. CASE s # t /\ r # t
    BY <1>3, <2>1, <2>2, <2>4, <1>7 DEF Basics, TagSlugsUnique
  <2>5. CASE s = t /\ r # t
    BY <2>1, <2>3, <2>5, <1>7, Zenon
  <2>6. CASE s # t /\ r = t
    BY <2>1, <2>3, <2>6, <1>7, Zenon
  <2>7. CASE s = t /\ r = t
    BY <2>7
  <2> QED BY <2>4, <2>5, <2>6, <2>7
<1> QED BY <1>3, <1>4, <1>5, <1>7, TagsWrittenDoes

LEMMA CreateTagDoes ==
  ASSUME Basics, NEW u \in User, NEW name \in Text, NEW public \in BOOLEAN,
         CreateTag(u, name, public)
  PROVE  Effect
<1> DEFINE t == Min(freeIds(db.tags))
<1>1. /\ freeIds(db.tags) # {} /\ ~tagTaken(db, name, None)
      /\ db' = [db EXCEPT !.tags[t] = [name |-> name, public |-> public]]
      /\ blobs' = blobs /\ unchecked' = unchecked /\ scope' = scope
  BY DEF CreateTag, asks, addNewTag
<1>2. db.tags \in [TagId -> Tag \cup {None}] /\ TagId \subseteq Nat
  BY IdsAssumption DEF Basics, TypeOK, Tables
<1>3. t \in TagId /\ t \in freeIds(db.tags)
  BY <1>1, <1>2, NextId
<1> HIDE DEF t
<1> QED BY <1>1, <1>3, OneTagWritten

LEMMA EditTagDoes ==
  ASSUME Basics, NEW u \in User, NEW t \in TagId, NEW name \in Text,
         NEW public \in BOOLEAN, EditTag(u, t, name, public)
  PROVE  Effect
<1>1. /\ ~tagTaken(db, name, t) /\ db' = [db EXCEPT !.tags[t] = [name |-> name, public |-> public]]
      /\ blobs' = blobs /\ unchecked' = unchecked /\ scope' = scope
  BY DEF EditTag, asks, updateTag
<1> QED BY <1>1, OneTagWritten

LEMMA DeleteTagDoes ==
  ASSUME Basics, NEW u \in User, NEW t \in TagId, DeleteTag(u, t)
  PROVE  Effect
<1> DEFINE table == [db.tags EXCEPT ![t] = None]
           pts == {pt \in db.postTags : pt[2] # t}
<1>1. /\ db' = [db EXCEPT !.postTags = pts, !.tags[t] = None]
      /\ blobs' = blobs /\ unchecked' = unchecked /\ scope' = scope /\ db \in Tables
  BY DEF DeleteTag, asks, deleteTag, Basics, TypeOK
<1>2. table \in [TagId -> Tag \cup {None}] /\ table[t] = None
      /\ \A s \in TagId \ {t} : table[s] = db.tags[s]
  BY <1>1 DEF Tables
<1>3. db' = retagged(db, pts, table)
  BY <1>1 DEF retagged, Tables
<1>4. \A s \in TagId : db.tags[s] # None /\ table[s] = None => \A pt \in pts : pt[2] # s
  BY <1>2
<1>5. pts \in SUBSET db.postTags
  OBVIOUS
<1> HIDE DEF table, pts
<1>6. \A s \in rowsOf(table) : s \in rowsOf(db.tags) /\ table[s] = db.tags[s]
  BY <1>1, <1>2 DEF rowsOf, Tables
<1>7. \A s, r \in rowsOf(table) : Make[table[s].name] = Make[table[r].name] => s = r
  BY <1>6 DEF Basics, TagSlugsUnique
<1> QED BY <1>1, <1>2, <1>3, <1>4, <1>5, <1>7, TagsWrittenDoes

LEMMA ImportTagsDoes ==
  ASSUME Basics, NEW u \in User, NEW entries \in Seq(Tag), ImportTags(u, entries)
  PROVE  Effect
<1> DEFINE new == created(entries)
<1>1. new \subseteq DOMAIN entries
  BY DEF created
<1>2. ~aborts(entries) /\ blobs' = blobs /\ unchecked' = unchecked /\ scope' = scope /\ db \in Tables
  BY DEF ImportTags, asks, Basics, TypeOK
<1>3. PICK id \in Injection(new, freeIds(db.tags)) :
        db' = [db EXCEPT !.tags = [t \in TagId |->
                 LET here == {i \in new : id[i] = t}
                 IN IF here = {} THEN @[t] ELSE entries[CHOOSE i \in here : TRUE]]]
  BY DEF ImportTags
<1> DEFINE table == [t \in TagId |-> LET here == {i \in new : id[i] = t}
                                    IN IF here = {} THEN db.tags[t] ELSE entries[CHOOSE i \in here : TRUE]]
<1>4. db' = retagged(db, db.postTags, table)
  <2>1. db' = [db EXCEPT !.tags = table]
    BY <1>3
  <2> HIDE DEF table
  <2> QED BY <2>1, <1>2 DEF retagged, Tables
<1> HIDE DEF new
<1>5. \A i \in new : entries[i] \in Tag /\ entries[i] # None
  BY <1>1, NoneIsNoRow
<1>6. \A t \in TagId : \/ table[t] = db.tags[t]
                       \/ /\ t \in freeIds(db.tags)
                          /\ \E i \in new : table[t] = entries[i] /\ id[i] = t
  <2> SUFFICES ASSUME NEW t \in TagId
               PROVE  \/ table[t] = db.tags[t]
                      \/ t \in freeIds(db.tags) /\ \E i \in new : table[t] = entries[i] /\ id[i] = t
    OBVIOUS
  <2> DEFINE here == {i \in new : id[i] = t}
  <2>1. table[t] = IF here = {} THEN db.tags[t] ELSE entries[CHOOSE i \in here : TRUE]
    OBVIOUS
  <2>2. \A i \in new : id[i] \in freeIds(db.tags)
    BY <1>3 DEF Injection
  <2>3. here # {} => (CHOOSE i \in here : TRUE) \in here
    OBVIOUS
  <2> QED BY <2>1, <2>2, <2>3
<1>7. db.tags \in [TagId -> Tag \cup {None}] /\ DOMAIN table = TagId /\ table = [t \in TagId |-> table[t]]
  BY <1>2 DEF Tables
<1> HIDE DEF table
<1>8. table \in [TagId -> Tag \cup {None}]
  BY <1>5, <1>6, <1>7
<1>9. \A t \in TagId : db.tags[t] # None => table[t] = db.tags[t]
  BY <1>6, <1>7 DEF freeIds, rowsOf
<1>10. \A s \in TagId : db.tags[s] # None /\ table[s] = None => \A pt \in db.postTags : pt[2] # s
  BY <1>9
<1>11. ASSUME NEW s \in rowsOf(table), NEW r \in rowsOf(table),
              Make[table[s].name] = Make[table[r].name]
       PROVE  s = r
  <2>1. s \in TagId /\ r \in TagId /\ table[s] # None /\ table[r] # None
    BY <1>7 DEF rowsOf
  <2>2. \A i \in new : \A t \in rowsOf(db.tags) : Make[db.tags[t].name] # Make[entries[i].name]
    <3>1. None \notin rowsOf(db.tags)
      BY <1>7, NoneIsNothing DEF rowsOf
    <3> QED BY <1>2, <3>1 DEF aborts, tagTaken, new
  <2>3. \A i, j \in new : Make[entries[i].name] = Make[entries[j].name] => i = j
    BY <1>2 DEF aborts, new
  <2>4. \A t \in TagId : table[t] # None /\ table[t] = db.tags[t] => t \in rowsOf(db.tags)
    BY <1>7 DEF rowsOf
  <2>5. CASE table[s] = db.tags[s] /\ table[r] = db.tags[r]
    BY <2>1, <2>4, <2>5, <1>11 DEF Basics, TagSlugsUnique
  <2>6. CASE table[s] # db.tags[s] /\ table[r] = db.tags[r]
    BY <2>1, <2>2, <2>4, <2>6, <1>6, <1>11
  <2>7. CASE table[s] = db.tags[s] /\ table[r] # db.tags[r]
    BY <2>1, <2>2, <2>4, <2>7, <1>6, <1>11
  <2>8. CASE table[s] # db.tags[s] /\ table[r] # db.tags[r]
    <3>1. PICK i \in new : table[s] = entries[i] /\ id[i] = s
      BY <2>1, <2>8, <1>6
    <3>2. PICK j \in new : table[r] = entries[j] /\ id[j] = r
      BY <2>1, <2>8, <1>6
    <3> QED BY <2>3, <3>1, <3>2, <1>11
  <2> QED BY <2>5, <2>6, <2>7, <2>8
<1>12. \A s, r \in rowsOf(table) : Make[table[s].name] = Make[table[r].name] => s = r
  BY <1>11
<1> QED BY <1>2, <1>4, <1>8, <1>10, <1>12, TagsWrittenDoes

\* Every step has its effect.
LEMMA StepEffect ==
  ASSUME Basics, Next
  PROVE  Effect
<1>1. CASE HourPasses
  BY <1>1, HourPassesDoes
<1>2. CASE \E files \in scope.files : FailAfterUpload(files)
  BY <1>2, FailAfterUploadDoes
<1>3. CASE \E u \in User, title \in Text, tags \in SUBSET TagId, files \in scope.files :
             CreatePost(u, title, tags, files)
  BY <1>3, CreatePostDoes
<1>4. CASE \E u \in User, n \in numbers(db), files \in scope.files :
             \/ PostComment(u, n, files)
             \/ \E title \in Text : UpdatePost(u, n, title, files)
             \/ \E id \in CommentId : UpdateComment(u, n, id, files)
  BY <1>4, PostCommentDoes, UpdatePostDoes, UpdateCommentDoes
<1>5. CASE \E u \in User, n \in numbers(db) :
             \/ \E status \in Status \ {"duplicate"} : SetResponse(u, n, status, 0)
             \/ \E original \in numbers(db) : SetResponse(u, n, "duplicate", original)
             \/ DeletePost(u, n) \/ Subscribe(u, n) \/ Unsubscribe(u, n)
             \/ \E t \in TagId : AssignTag(u, n, t) \/ UnassignTag(u, n, t)
  BY <1>5, SetResponseDoes, DeletePostDoes, SubscribeDoes, AssignTagDoes
<1>6. CASE \E u \in User, id \in CommentId :
             DeleteComment(u, id) \/ \E emoji \in Emoji : ToggleReaction(u, id, emoji)
  BY <1>6, DeleteCommentDoes, ToggleReactionDoes
<1>7. CASE \E u \in User, name \in Text, public \in BOOLEAN :
             CreateTag(u, name, public) \/ \E t \in TagId : EditTag(u, t, name, public)
  BY <1>7, CreateTagDoes, EditTagDoes
<1>8. CASE \E u \in User, t \in TagId : DeleteTag(u, t)
  BY <1>8, DeleteTagDoes
<1>9. CASE \E u \in User, entries \in BoundedSeq(Tag, 2) : ImportTags(u, entries)
  <2>1. BoundedSeq(Tag, 2) \subseteq Seq(Tag)
    <3>1. ASSUME NEW m \in 0 .. 2, NEW s \in [1 .. m -> Tag] PROVE s \in Seq(Tag)
      OBVIOUS
    <3> QED BY <3>1 DEF BoundedSeq, SeqOf
  <2> QED BY <1>9, <2>1, ImportTagsDoes
<1> QED BY <1>1, <1>2, <1>3, <1>4, <1>5, <1>6, <1>7, <1>8, <1>9 DEF Next

\* So has a step that changes nothing.
LEMMA StutterEffect ==
  ASSUME Basics, UNCHANGED vars
  PROVE  Effect
<1>1. db' = db /\ blobs' = blobs /\ unchecked' = unchecked /\ scope' = scope /\ db \in Tables /\ blobs \in Blobs
  BY DEF vars, Basics, TypeOK
<1> QED BY <1>1, BasicsKept, NoCommentsMoved, NoTagsMoved, NoFilesMoved
        DEF Effect, PostsEffect, FollowersEffect

(***************************************************************************)
(* The inductive invariant.                                                *)
(***************************************************************************)
\* The invariant holds of an empty site.
LEMMA DiscussionInit == Init => DiscussionInv
<1> SUFFICES ASSUME Init PROVE DiscussionInv
  OBVIOUS
<1>1. PICK role \in Anyone : db = NoRows(role)
  BY DEF Init
<1>2. PICK c \in Content : blobs = [k \in Key |-> IF k \in Outside THEN c ELSE None]
  BY DEF Init
<1>3. scope \in Scopes
  BY DEF Init
<1>4. db \in Tables
  BY <1>1, AnyoneAssumption DEF NoRows, Tables, Subscription
<1>5. blobs \in Blobs /\ unchecked \subseteq Key
  BY <1>2 DEF Blobs, Init
<1>6. rowsOf(db.posts) = {} /\ rowsOf(db.tags) = {} /\ posts(db) = {} /\ db.postTags = {} /\ db.attachments = {}
  BY <1>1 DEF NoRows, rowsOf, posts
<1> QED BY <1>3, <1>4, <1>5, <1>6
        DEF DiscussionInv, Basics, TypeOK, TagSlugsUnique, PostsInv, NumbersUnique, SlugsUnique,
            OriginalsLive, AssignedTagsExist, FilesKeepContent

\* Attached files keep showing what they showed: rows are new, or their blob is.
LEMMA FilesKept ==
  ASSUME FilesKeepContent, FilesEffect, db \in Tables, (db \in Tables)'
  PROVE  FilesKeepContent'
<1>1. \A a \in db.attachments : a.key \in Key
  BY DEF Tables, Attachment
<1>2. ASSUME NEW a \in db'.attachments, a.shows # None
      PROVE  blobs'[a.key] # None /\ (blobs'[a.key] = a.shows \/ a.key \in unchecked' \ Outside)
  <2>1. CASE a \notin db.attachments
    BY <1>2, <2>1 DEF FilesEffect
  <2>2. CASE a \in db.attachments
    <3>1. blobs[a.key] # None /\ (blobs[a.key] = a.shows \/ a.key \in unchecked \ Outside)
      BY <1>2, <2>2 DEF FilesKeepContent
    <3>2. /\ blobs'[a.key] # None
          /\ blobs'[a.key] = blobs[a.key] \/ a.key \in unchecked' \ Outside
          /\ a.key \in unchecked => a.key \in unchecked'
      BY <1>1, <2>2, <3>1 DEF FilesEffect
    <3> QED BY <3>1, <3>2
  <2> QED BY <2>1, <2>2
<1> QED BY <1>2 DEF FilesKeepContent

\* A tag that is assigned exists.
LEMMA TagsKept ==
  ASSUME AssignedTagsExist, TagsEffect, db \in Tables, (db \in Tables)'
  PROVE  AssignedTagsExist'
<1>1. \A pt \in db'.postTags : pt[2] \in TagId /\ db.tags[pt[2]] # None
  BY DEF AssignedTagsExist, TagsEffect, Tables
<1> QED BY <1>1 DEF AssignedTagsExist, TagsEffect

\* What the invariants of posts ask of a table of posts.
Sound(table) ==
  LET rows == rowsOf(table)
      live == {p \in rows : table[p].status # "deleted"}
  IN /\ \A p, q \in rows : table[p].number = table[q].number => p = q
     /\ \A p, q \in live : Make[table[p].title] = Make[table[q].title] => p = q
     /\ \A p \in rows : /\ table[p].status = "duplicate" <=> table[p].original # None
                        /\ table[p].original # None => table[p].original \in live \ {p}

\* The invariants of posts look at the table of posts alone.
LEMMA PostsAreSound ==
  /\ PostsInv <=> Sound(db.posts)
  /\ PostsInv' <=> Sound(db'.posts)
BY DEF PostsInv, Sound, NumbersUnique, SlugsUnique, OriginalsLive, posts

\* A new post has a new number and, as the index demands, a new slug.
LEMMA PostAddedSound ==
  ASSUME db \in Tables, Sound(db.posts), PostAdded
  PROVE  Sound(db'.posts)
<1>1. PICK u \in User, title \in Text :
        /\ newPost \in freeIds(db.posts) /\ newPost \in PostId /\ ~slugTaken(db, title, newPost)
        /\ db'.posts = [db.posts EXCEPT ![newPost] =
             [number |-> nextNumber(db), title |-> title, author |-> u,
              status |-> "open", original |-> None, recent |-> TRUE]]
  BY DEF PostAdded
<1> DEFINE n == newPost
           row == [number |-> nextNumber(db), title |-> title, author |-> u,
                   status |-> "open", original |-> None, recent |-> TRUE]
           old == db.posts
           new == db'.posts
<1>2. /\ row.number = nextNumber(db) /\ row.title = title /\ row.status = "open" /\ row.original = None
      /\ row \in Post /\ row # None
  <2>1. row \in Post
    BY FreshNumber DEF Post, Status
  <2> QED BY <2>1, NoneIsNoRow
<1> HIDE DEF row, n
<1>3. old \in [PostId -> Post \cup {None}] /\ new = [old EXCEPT ![n] = row] /\ n \in PostId /\ old[n] = None
  BY <1>1 DEF Tables, freeIds, rowsOf, n, row
<1>4. /\ rowsOf(new) = rowsOf(old) \cup {n} /\ n \notin rowsOf(old) /\ new[n] = row
      /\ \A p \in rowsOf(old) : new[p] = old[p] /\ p # n
  BY <1>2, <1>3 DEF rowsOf
<1>5. \A p \in rowsOf(old) : old[p].number # row.number
  BY <1>2, FreshNumber DEF Tables, Post, rowsOf
<1>6. \A p \in rowsOf(old) : old[p].status # "deleted" => Make[old[p].title] # Make[row.title]
  BY <1>1, <1>2, <1>4 DEF slugTaken, posts, n
<1> HIDE DEF old, new
<1>7. Sound(old)
  BY DEF old
<1>8. Sound(new)
  BY <1>2, <1>4, <1>5, <1>6, <1>7 DEF Sound
<1> QED BY <1>8 DEF new

\* An edited post keeps its number, and its new slug is free.
LEMMA PostEditedSound ==
  ASSUME db \in Tables, Sound(db.posts), PostEdited
  PROVE  Sound(db'.posts)
<1>1. PICK n \in posts(db), title \in Text :
        /\ ~slugTaken(db, title, n)
        /\ db'.posts = [db.posts EXCEPT ![n] = [@ EXCEPT !.title = title]]
  BY DEF PostEdited
<1> DEFINE old == db.posts
           new == db'.posts
           row == [old[n] EXCEPT !.title = title]
<1>2. old \in [PostId -> Post \cup {None}] /\ n \in PostId /\ old[n] # None /\ old[n].status # "deleted"
  BY DEF Tables, posts, rowsOf
<1>3. /\ row.number = old[n].number /\ row.title = title /\ row.status = old[n].status
      /\ row.original = old[n].original /\ row \in Post /\ row # None
  <2>1. old[n] \in Post
    BY <1>2
  <2>2. row \in Post /\ row.number = old[n].number /\ row.title = title /\ row.status = old[n].status
        /\ row.original = old[n].original
    BY <2>1 DEF Post
  <2> QED BY <2>2, NoneIsNoRow
<1>4. new = [old EXCEPT ![n] = row]
  BY <1>1
<1> HIDE DEF row
<1>5. rowsOf(new) = rowsOf(old) /\ n \in rowsOf(old) /\ new[n] = row
      /\ \A p \in rowsOf(old) : p # n => new[p] = old[p]
  BY <1>2, <1>3, <1>4 DEF rowsOf
<1>6. \A p \in rowsOf(old) : p # n /\ old[p].status # "deleted" => Make[old[p].title] # Make[row.title]
  BY <1>1, <1>3 DEF slugTaken, posts
<1> HIDE DEF old, new
<1>7. Sound(old)
  BY DEF old
<1>8. Sound(new)
  BY <1>2, <1>3, <1>5, <1>6, <1>7 DEF Sound
<1> QED BY <1>8 DEF new

\* A response refers to a live post other than its own, and what is referred to is not
\* deleted.
LEMMA PostAnsweredSound ==
  ASSUME db \in Tables, Sound(db.posts), PostAnswered
  PROVE  Sound(db'.posts)
<1>1. PICK n \in posts(db), status \in Status, original \in PostId \cup {None} :
        /\ status = "duplicate" <=> original # None
        /\ original # None => original \in posts(db) \ {n}
        /\ status = "deleted" => ~postIsReferenced(db, n)
        /\ db'.posts = [db.posts EXCEPT ![n] = answer(@, status, original)]
  BY DEF PostAnswered
<1> DEFINE old == db.posts
           new == db'.posts
           row == answer(old[n], status, original)
<1>2. old \in [PostId -> Post \cup {None}] /\ n \in PostId /\ old[n] # None /\ old[n].status # "deleted"
  BY DEF Tables, posts, rowsOf
<1>3. /\ row.number = old[n].number /\ row.title = old[n].title /\ row.status = status
      /\ row.original = original /\ row \in Post /\ row # None
  <2>1. old[n] \in Post
    BY <1>2
  <2>2. row \in Post /\ row.number = old[n].number /\ row.title = old[n].title /\ row.status = status
        /\ row.original = original
    BY <2>1 DEF Post, answer
  <2> QED BY <2>2, NoneIsNoRow
<1>4. new = [old EXCEPT ![n] = row]
  BY <1>1
<1> HIDE DEF row
<1>5. rowsOf(new) = rowsOf(old) /\ n \in rowsOf(old) /\ new[n] = row
      /\ \A p \in rowsOf(old) : p # n => new[p] = old[p]
  BY <1>2, <1>3, <1>4 DEF rowsOf
<1>6. status = "deleted" => \A p \in rowsOf(old) : old[p].original # n
  BY <1>1 DEF postIsReferenced
<1>7. original # None => original \in rowsOf(old) \ {n} /\ old[original].status # "deleted"
  BY <1>1 DEF posts
<1> HIDE DEF old, new
<1>8. Sound(old)
  BY DEF old
<1> DEFINE live == {p \in rowsOf(old) : old[p].status # "deleted"}
           liveThen == {p \in rowsOf(new) : new[p].status # "deleted"}
<1>9. \A p, q \in rowsOf(new) : new[p].number = new[q].number => p = q
  <2>1. \A p \in rowsOf(old) : new[p].number = old[p].number
    BY <1>3, <1>5
  <2>2. \A p, q \in rowsOf(old) : old[p].number = old[q].number => p = q
    BY <1>8 DEF Sound
  <2> QED BY <1>5, <2>1, <2>2
<1>10. \A p, q \in liveThen : Make[new[p].title] = Make[new[q].title] => p = q
  <2>1. \A p \in liveThen : p \in live /\ new[p].title = old[p].title
    BY <1>2, <1>3, <1>5
  <2>2. \A p, q \in live : Make[old[p].title] = Make[old[q].title] => p = q
    BY <1>8 DEF Sound
  <2> QED BY <2>1, <2>2
<1>11. \A p \in rowsOf(new) : /\ new[p].status = "duplicate" <=> new[p].original # None
                              /\ new[p].original # None => new[p].original \in liveThen \ {p}
  <2> SUFFICES ASSUME NEW p \in rowsOf(old)
               PROVE  /\ new[p].status = "duplicate" <=> new[p].original # None
                      /\ new[p].original # None => new[p].original \in liveThen \ {p}
    BY <1>5
  <2>1. CASE p = n
    <3>1. new[p].status = status /\ new[p].original = original
      BY <1>3, <1>5, <2>1
    <3>2. original # None => original \in liveThen
      BY <1>5, <1>7
    <3> QED BY <1>1, <1>7, <2>1, <3>1, <3>2
  <2>2. CASE p # n
    <3>1. /\ new[p] = old[p]
          /\ old[p].status = "duplicate" <=> old[p].original # None
          /\ old[p].original # None => old[p].original \in live \ {p}
      BY <1>5, <1>8, <2>2 DEF Sound
    <3>2. ASSUME old[p].original # None PROVE old[p].original \in liveThen
      <4>1. old[p].original \in live
        BY <3>1, <3>2
      <4>2. CASE old[p].original = n
        BY <1>3, <1>5, <1>6, <4>2
      <4>3. CASE old[p].original # n
        BY <1>5, <4>1, <4>3
      <4> QED BY <4>2, <4>3
    <3> QED BY <3>1, <3>2
  <2> QED BY <2>1, <2>2
<1>12. Sound(new)
  BY <1>9, <1>10, <1>11 DEF Sound
<1> QED BY <1>12 DEF new

\* Age does not matter.
LEMMA PostsAgedSound ==
  ASSUME db \in Tables, Sound(db.posts), PostsAged
  PROVE  Sound(db'.posts)
<1> DEFINE old == db.posts
           new == db'.posts
<1>1. old \in [PostId -> Post \cup {None}]
      /\ new = [p \in PostId |-> IF old[p] = None THEN None ELSE [old[p] EXCEPT !.recent = FALSE]]
  BY DEF Tables, PostsAged
<1>2. ASSUME NEW p \in PostId, old[p] # None
      PROVE  /\ new[p] # None /\ new[p].number = old[p].number /\ new[p].title = old[p].title
             /\ new[p].status = old[p].status /\ new[p].original = old[p].original
  <2>1. old[p] \in Post /\ new[p] = [old[p] EXCEPT !.recent = FALSE]
    BY <1>1, <1>2
  <2>2. new[p] \in Post /\ new[p].number = old[p].number /\ new[p].title = old[p].title
        /\ new[p].status = old[p].status /\ new[p].original = old[p].original
    BY <2>1 DEF Post
  <2> QED BY <2>2, NoneIsNoRow
<1>3. rowsOf(new) = rowsOf(old)
      /\ \A p \in rowsOf(old) : /\ new[p].number = old[p].number /\ new[p].title = old[p].title
                                /\ new[p].status = old[p].status /\ new[p].original = old[p].original
  BY <1>1, <1>2 DEF rowsOf
<1> HIDE DEF old, new
<1>4. Sound(old)
  BY DEF old
<1>5. Sound(new)
  BY <1>3, <1>4 DEF Sound
<1> QED BY <1>5 DEF new

\* So the invariants of posts are kept.
LEMMA PostsKept ==
  ASSUME db \in Tables, PostsInv, PostsEffect
  PROVE  PostsInv'
<1>1. Sound(db.posts)
  BY PostsAreSound
<1>2. Sound(db'.posts)
  BY <1>1, PostAddedSound, PostEditedSound, PostAnsweredSound, PostsAgedSound DEF PostsEffect
<1> QED BY <1>2, PostsAreSound

\* The invariant is inductive.
LEMMA DiscussionStep == DiscussionInv /\ [Next]_vars => DiscussionInv' /\ Effect
<1> SUFFICES ASSUME DiscussionInv, [Next]_vars PROVE DiscussionInv' /\ Effect
  OBVIOUS
<1>1. Basics /\ db \in Tables
  BY DEF DiscussionInv, Basics, TypeOK
<1>2. Effect
  BY <1>1, StepEffect, StutterEffect
<1>3. Basics' /\ (db \in Tables)'
  BY <1>2 DEF Effect, Basics, TypeOK
<1>4. PostsInv'
  BY <1>1, <1>2, PostsKept DEF DiscussionInv, Effect
<1>5. AssignedTagsExist' /\ FilesKeepContent'
  BY <1>1, <1>2, <1>3, TagsKept, FilesKept DEF DiscussionInv, Effect
<1> QED BY <1>2, <1>3, <1>4, <1>5 DEF DiscussionInv

(***************************************************************************)
(* The theorems that follow.                                               *)
(***************************************************************************)
\* The invariant holds of every reachable state.
LEMMA DiscussionAlways == Spec => []DiscussionInv
<1>1. DiscussionInv /\ [Next]_vars => DiscussionInv'
  BY DiscussionStep
<1> QED BY DiscussionInit, <1>1, PTL DEF Spec

\* Every variable keeps its type: each operation writes rows of the tables (Next).
THEOREM DiscussionTypes == Spec => []TypeOK
<1>1. DiscussionInv => TypeOK
  BY DEF DiscussionInv, Basics
<1> QED BY DiscussionAlways, <1>1, PTL

\* A post is a duplicate exactly if it refers to another, which can be read: responses look
\* for the original, and a post that is referred to is not deleted (SetResponse, DeletePost).
THEOREM OriginalsCanBeRead == Spec => []OriginalsLive
<1>1. DiscussionInv => OriginalsLive
  BY DEF DiscussionInv, PostsInv
<1> QED BY DiscussionAlways, <1>1, PTL

\* The blob of an attached file stays, and shows for good what it showed when the file was
\* attached, because uploads draw keys that hold nothing: all but the keys of the folder that
\* were uploaded to after their lookup had failed (uploadImages, setAttachments).
THEOREM FilesShowWhatTheyShowed == Spec => []FilesKeepContent
<1>1. DiscussionInv => FilesKeepContent
  BY DEF DiscussionInv
<1> QED BY DiscussionAlways, <1>1, PTL

\* What getPostBySlug finds has the slug, and it finds what has it.
LEMMA FoundBySlug ==
  ASSUME NEW d \in Tables, NEW slug
  PROVE  LET found == getPostBySlug(d, slug)
         IN /\ found = None => \A p \in posts(d) : Make[d.posts[p].title] # slug
            /\ found # None => found \in posts(d) /\ Make[d.posts[found].title] = slug
<1> DEFINE S == {p \in posts(d) : Make[d.posts[p].title] = slug}
<1>1. S \in SUBSET PostId
  BY FoundByNumber
<1>2. (S # {} => querySinglePost(S) \in S) /\ (S = {} => querySinglePost(S) = None)
  BY <1>1, FoundIsARow
<1>3. getPostBySlug(d, slug) = querySinglePost(S)
  BY DEF getPostBySlug
<1>4. None \notin S
  BY <1>1, NoneIsNothing
<1> QED BY <1>2, <1>3, <1>4

\* Where slugs are unique, the posts and tags validation finds are those of the indexes.
LEMMA IndexesAreForeseen == DiscussionInv => ValidationForeseesIndexes
<1> SUFFICES ASSUME DiscussionInv, NEW text \in Text
             PROVE  /\ CreateNewPostValidate(text, << >>) => ~slugTaken(db, text, None)
                    /\ \A p \in posts(db) : UpdatePostValidate(p, text, << >>) => ~slugTaken(db, text, p)
                    /\ \A t \in rowsOf(db.tags) \cup {None} :
                         CreateEditTagValidate(t, text) => ~tagTaken(db, text, t)
  BY DEF ValidationForeseesIndexes
<1>1. db \in Tables /\ SlugsUnique /\ TagSlugsUnique /\ Basics
  BY DEF DiscussionInv, PostsInv, Basics, TypeOK
<1>2. CreateNewPostValidate(text, << >>) => ~slugTaken(db, text, None)
  BY <1>1, FoundBySlug DEF CreateNewPostValidate, slugTaken
<1>3. ASSUME NEW p \in posts(db), UpdatePostValidate(p, text, << >>) PROVE ~slugTaken(db, text, p)
  <2> DEFINE found == getPostBySlug(db, Make[text])
  <2>1. /\ found = None => \A q \in posts(db) : Make[db.posts[q].title] # Make[text]
        /\ found # None => found \in posts(db) /\ Make[db.posts[found].title] = Make[text]
    BY <1>1, FoundBySlug
  <2>2. found \in {None, p}
    BY <1>3 DEF UpdatePostValidate
  <2> HIDE DEF found
  <2>3. ASSUME NEW q \in posts(db) \ {p}, Make[db.posts[q].title] = Make[text] PROVE FALSE
    BY <1>1, <2>1, <2>2, <2>3 DEF SlugsUnique
  <2> QED BY <2>3 DEF slugTaken
<1>4. ASSUME NEW t \in rowsOf(db.tags) \cup {None}, CreateEditTagValidate(t, text)
      PROVE  ~tagTaken(db, text, t)
  <2> DEFINE found == queryTagBySlug(db, Make[text])
  <2>1. /\ found = None => \A s \in rowsOf(db.tags) : Make[db.tags[s].name] # Make[text]
        /\ found # None => found \in rowsOf(db.tags) /\ Make[db.tags[found].name] = Make[text]
    BY <1>1, NoTagFound
  <2>2. found \in {None, t}
    BY <1>4 DEF CreateEditTagValidate
  <2> HIDE DEF found
  <2>3. ASSUME NEW s \in rowsOf(db.tags) \ {t}, Make[db.tags[s].name] = Make[text] PROVE FALSE
    BY <1>1, <2>1, <2>2, <2>3 DEF TagSlugsUnique
  <2> QED BY <2>3 DEF tagTaken
<1> QED BY <1>2, <1>3, <1>4

\* What validation lets through violates no unique index, and numbers are not handed out twice
\* (CreateNewPostValidate, UpdatePostValidate, CreateEditTagValidate, nextNumber).
THEOREM IndexesNeverHit == Spec => []IndexesForeseen
<1>1. DiscussionInv => IndexesForeseen
  BY IndexesAreForeseen DEF DiscussionInv, PostsInv, IndexesForeseen
<1> QED BY DiscussionAlways, <1>1, PTL

\* A row of a deleted post only grows old.
LEMMA GoneStays ==
  ASSUME db \in Tables, PostsEffect, NEW p \in Gone
  PROVE  db'.posts[p] \in {db.posts[p], [db.posts[p] EXCEPT !.recent = FALSE]}
<1>1. db.posts \in [PostId -> Post \cup {None}] /\ p \in PostId /\ db.posts[p] # None /\ p \notin posts(db)
      /\ p \notin freeIds(db.posts)
  BY DEF Tables, Gone, rowsOf, freeIds
<1>2. CASE db'.posts = db.posts
  BY <1>2
<1>3. CASE PostAdded
  BY <1>1, <1>3 DEF PostAdded
<1>4. CASE PostEdited
  BY <1>1, <1>4 DEF PostEdited
<1>5. CASE PostAnswered
  BY <1>1, <1>5 DEF PostAnswered
<1>6. CASE PostsAged
  BY <1>1, <1>6 DEF PostsAged
<1> QED BY <1>2, <1>3, <1>4, <1>5, <1>6 DEF PostsEffect

\* A deleted post gets no comments, tags, followers or files any more, and never comes back:
\* every operation looks its post up among the live ones, and its number is never found again.
THEOREM DeletedForGood == Spec => DeletedIsFinal
<1> DEFINE Still == \A p \in rowsOf(db.posts) \ posts(db) :
       /\ db'.posts[p] \in {db.posts[p], [db.posts[p] EXCEPT !.recent = FALSE]}
       /\ db'.subscribers[p] = db.subscribers[p]
       /\ \A c \in freeIds(db.comments) : db'.comments[c] # None => db'.comments[c].post # p
       /\ \A t \in TagId : <<p, t>> \in db'.postTags => <<p, t>> \in db.postTags
       /\ \A a \in db'.attachments : a.post = p => a \in db.attachments
<1>1. DiscussionInv /\ [Next]_vars => Still
  <2> SUFFICES ASSUME DiscussionInv, [Next]_vars, NEW p \in Gone
               PROVE  /\ db'.posts[p] \in {db.posts[p], [db.posts[p] EXCEPT !.recent = FALSE]}
                      /\ db'.subscribers[p] = db.subscribers[p]
                      /\ \A c \in freeIds(db.comments) : db'.comments[c] # None => db'.comments[c].post # p
                      /\ \A t \in TagId : <<p, t>> \in db'.postTags => <<p, t>> \in db.postTags
                      /\ \A a \in db'.attachments : a.post = p => a \in db.attachments
    BY DEF Gone
  <2>1. Effect /\ db \in Tables
    BY DiscussionStep DEF DiscussionInv, Basics, TypeOK
  <2>2. db'.posts[p] \in {db.posts[p], [db.posts[p] EXCEPT !.recent = FALSE]}
    BY <2>1, GoneStays DEF Effect
  <2>3. db'.subscribers[p] = db.subscribers[p]
    BY <2>1 DEF Effect, FollowersEffect
  <2>4. \A c \in freeIds(db.comments) : db'.comments[c] # None => db'.comments[c].post # p
    BY <2>1 DEF Effect, CommentsEffect
  <2>5. ASSUME NEW t \in TagId, <<p, t>> \in db'.postTags PROVE <<p, t>> \in db.postTags
    <3>1. <<p, t>> \in db.postTags \/ <<p, t>>[1] \notin Gone
      BY <2>1, <2>5 DEF Effect, TagsEffect
    <3> QED BY <3>1
  <2>6. \A a \in db'.attachments : a.post = p => a \in db.attachments
    BY <2>1 DEF Effect, FilesEffect
  <2> QED BY <2>2, <2>3, <2>4, <2>5, <2>6
<1>2. DiscussionInv /\ [Next]_vars => [Still]_vars
  BY <1>1
<1> QED BY DiscussionAlways, <1>2, PTL DEF Spec, DeletedIsFinal

(***************************************************************************)
(* Private tags.  A visitor's queries see the same tables without them.    *)
(***************************************************************************)
\* What the two databases have in common, and how their tags differ.
LEMMA WithoutPrivate ==
  ASSUME db \in Tables
  PROVE  LET e == publicOnly(db)
         IN /\ e.role = db.role /\ e.posts = db.posts /\ e.comments = db.comments
            /\ e.reactions = db.reactions /\ e.attachments = db.attachments /\ e.subscribers = db.subscribers
            /\ \A t \in TagId : e.tags[t] = IF db.tags[t] # None /\ ~db.tags[t].public THEN None ELSE db.tags[t]
            /\ DOMAIN e.tags = TagId
            /\ \A pt : pt \in e.postTags <=>
                 pt \in db.postTags /\ ~(pt[2] \in TagId /\ db.tags[pt[2]] # None /\ ~db.tags[pt[2]].public)
BY DEF publicOnly, Tables, rowsOf

\* Posts, comments and their counts are the same.
LEMMA SamePosts ==
  ASSUME db \in Tables
  PROVE  /\ posts(publicOnly(db)) = posts(db)
         /\ rowsOf(publicOnly(db).posts) = rowsOf(db.posts)
         /\ \A p : agg_comments(publicOnly(db), p) = agg_comments(db, p)
         /\ \A n : getPostByNumber(publicOnly(db), n) = getPostByNumber(db, n)
         /\ countPostPerStatus(publicOnly(db)) = countPostPerStatus(db)
<1>1. publicOnly(db).posts = db.posts /\ publicOnly(db).comments = db.comments
  BY WithoutPrivate
<1>2. posts(publicOnly(db)) = posts(db) /\ rowsOf(publicOnly(db).posts) = rowsOf(db.posts)
  BY <1>1 DEF posts
<1>3. \A p : agg_comments(publicOnly(db), p) = agg_comments(db, p)
  BY <1>1 DEF agg_comments
<1>4. \A n : getPostByNumber(publicOnly(db), n) = getPostByNumber(db, n)
  BY <1>1, <1>2 DEF getPostByNumber
<1>5. countPostPerStatus(publicOnly(db)) = countPostPerStatus(db)
  BY <1>1, <1>2 DEF countPostPerStatus
<1> QED BY <1>2, <1>3, <1>4, <1>5

\* A visitor sees the same tags on a post: assigned tags exist, and private ones are cut off.
LEMMA SameTags ==
  ASSUME db \in Tables, AssignedTagsExist, NEW viewer, ~IsCollaborator(db, viewer), NEW p
  PROVE  LET e == publicOnly(db)
         IN /\ agg_tags(e, viewer, p) = agg_tags(db, viewer, p)
            /\ \A t \in agg_tags(db, viewer, p) : e.tags[t] = db.tags[t]
<1> DEFINE e == publicOnly(db)
<1>1. ~IsCollaborator(e, viewer)
  BY WithoutPrivate DEF IsCollaborator
<1>2. \A t \in TagId : e.tags[t] = IF db.tags[t] # None /\ ~db.tags[t].public THEN None ELSE db.tags[t]
  BY WithoutPrivate
<1>3. \A pt : pt \in e.postTags <=>
        pt \in db.postTags /\ ~(pt[2] \in TagId /\ db.tags[pt[2]] # None /\ ~db.tags[pt[2]].public)
  BY WithoutPrivate
<1> HIDE DEF e
<1>4. ASSUME NEW t \in TagId, <<p, t>> \in db.postTags PROVE db.tags[t] # None
  <2>1. db.tags[<<p, t>>[2]] # None
    BY <1>4 DEF AssignedTagsExist
  <2> QED BY <2>1
<1>5. ASSUME NEW t \in TagId
      PROVE  <<p, t>> \in e.postTags <=> <<p, t>> \in db.postTags /\ ~(db.tags[t] # None /\ ~db.tags[t].public)
  <2>1. <<p, t>>[2] = t
    OBVIOUS
  <2> QED BY <1>3, <2>1
<1>6. ASSUME NEW t \in TagId
      PROVE  /\ t \in agg_tags(e, viewer, p) <=> t \in agg_tags(db, viewer, p)
             /\ t \in agg_tags(db, viewer, p) => e.tags[t] = db.tags[t]
  <2>1. t \in agg_tags(db, viewer, p) <=> <<p, t>> \in db.postTags /\ db.tags[t].public
    BY DEF agg_tags, tagCondition
  <2>2. t \in agg_tags(e, viewer, p) <=> <<p, t>> \in e.postTags /\ e.tags[t].public
    BY <1>1 DEF agg_tags, tagCondition
  <2> QED BY <1>2, <1>4, <1>5, <2>1, <2>2
<1>7. agg_tags(e, viewer, p) \subseteq TagId /\ agg_tags(db, viewer, p) \subseteq TagId
  BY DEF agg_tags
<1>8. agg_tags(e, viewer, p) = agg_tags(db, viewer, p)
  BY <1>6, <1>7
<1> QED BY <1>6, <1>7, <1>8 DEF e

\* So a post is told the same way.
LEMMA SameModel ==
  ASSUME db \in Tables, AssignedTagsExist, NEW viewer, ~IsCollaborator(db, viewer), NEW p
  PROVE  ToModel(publicOnly(db), viewer, p) = ToModel(db, viewer, p)
<1> DEFINE e == publicOnly(db)
<1>1. e.posts = db.posts /\ agg_comments(e, p) = agg_comments(db, p)
  BY WithoutPrivate, SamePosts
<1>2. agg_tags(e, viewer, p) = agg_tags(db, viewer, p)
      /\ \A t \in agg_tags(db, viewer, p) : e.tags[t] = db.tags[t]
  BY SameTags
<1> HIDE DEF e
<1>3. {Make[e.tags[t].name] : t \in agg_tags(e, viewer, p)} = {Make[db.tags[t].name] : t \in agg_tags(db, viewer, p)}
  BY <1>2
<1>4. ToModel(e, viewer, p) = ToModel(db, viewer, p)
  BY <1>1, <1>3 DEF ToModel
<1> QED BY <1>4 DEF e

\* The same posts match a search, in the same order.
LEMMA SameSearch ==
  ASSUME db \in Tables, AssignedTagsExist, NEW viewer, ~IsCollaborator(db, viewer), NEW q
  PROVE  LET e == publicOnly(db)
         IN /\ filteredQuery(e, viewer, q) = filteredQuery(db, viewer, q)
            /\ \A rows : orderBy(e, q, rows) = orderBy(db, q, rows)
<1> DEFINE e == publicOnly(db)
<1>1. posts(e) = posts(db) /\ e.posts = db.posts /\ \A p : agg_comments(e, p) = agg_comments(db, p)
  BY WithoutPrivate, SamePosts
<1>2. \A p : ToModel(e, viewer, p) = ToModel(db, viewer, p)
  BY SameModel
<1> HIDE DEF e
<1>3. filteredQuery(e, viewer, q) = filteredQuery(db, viewer, q)
  BY <1>1, <1>2 DEF filteredQuery
<1>4. \A a, b : precedes(e, q, a, b) <=> precedes(db, q, a, b)
  BY <1>1 DEF precedes
<1>5. \A rows : orderBy(e, q, rows) = orderBy(db, q, rows)
  BY <1>4 DEF orderBy
<1> QED BY <1>3, <1>5 DEF e

\* So pages, totals and lists are the same.
LEMMA SameLists ==
  ASSUME db \in Tables, AssignedTagsExist, NEW viewer, ~IsCollaborator(db, viewer), NEW q
  PROVE  LET e == publicOnly(db)
         IN /\ searchPage(e, viewer, q, 1) = searchPage(db, viewer, q, 1)
            /\ TotalCount(e, viewer, q) = TotalCount(db, viewer, q)
            /\ \A limit : searchPosts(e, viewer, q, limit) = searchPosts(db, viewer, q, limit)
<1> DEFINE e == publicOnly(db)
<1>1. filteredQuery(e, viewer, q) = filteredQuery(db, viewer, q)
      /\ \A rows : orderBy(e, q, rows) = orderBy(db, q, rows)
  BY SameSearch
<1> HIDE DEF e
<1>2. searchPage(e, viewer, q, 1) = searchPage(db, viewer, q, 1)
  BY <1>1 DEF searchPage
<1>3. TotalCount(e, viewer, q) = TotalCount(db, viewer, q)
  BY <1>1 DEF TotalCount
<1>4. \A limit : searchPosts(e, viewer, q, limit) = searchPosts(db, viewer, q, limit)
  BY <1>1 DEF searchPosts
<1> QED BY <1>2, <1>3, <1>4 DEF e

\* The same tags are offered.
LEMMA SameTagList ==
  ASSUME db \in Tables, NEW viewer, ~IsCollaborator(db, viewer)
  PROVE  ListTags(publicOnly(db), viewer) = ListTags(db, viewer)
<1> DEFINE e == publicOnly(db)
<1>1. ~IsCollaborator(e, viewer)
  BY WithoutPrivate DEF IsCollaborator
<1>2. DOMAIN e.tags = TagId /\ DOMAIN db.tags = TagId
      /\ \A t \in TagId : e.tags[t] = IF db.tags[t] # None /\ ~db.tags[t].public THEN None ELSE db.tags[t]
  BY WithoutPrivate DEF Tables
<1> HIDE DEF e
<1>3. getAllTags(e, viewer) = getAllTags(db, viewer)
      /\ \A t \in getAllTags(db, viewer) : e.tags[t] = db.tags[t]
  BY <1>1, <1>2 DEF getAllTags, rowsOf, tagCondition
<1>4. ListTags(e, viewer) = ListTags(db, viewer)
  BY <1>3 DEF ListTags
<1> QED BY <1>4 DEF e

\* The categories of a feed are public whoever reads it.
LEMMA SameCategories ==
  ASSUME db \in Tables, AssignedTagsExist, NEW p
  PROVE  appendTags(publicOnly(db), p) = appendTags(db, p)
<1> DEFINE e == publicOnly(db)
           there == {x \in getAssignedTags(db, p) : db.tags[x].public}
           here == {x \in getAssignedTags(e, p) : e.tags[x].public}
<1>1. DOMAIN e.tags = TagId /\ DOMAIN db.tags = TagId
      /\ \A t \in TagId : e.tags[t] = IF db.tags[t] # None /\ ~db.tags[t].public THEN None ELSE db.tags[t]
  BY WithoutPrivate DEF Tables
<1>2. ASSUME NEW t \in TagId
      PROVE  <<p, t>> \in e.postTags <=> <<p, t>> \in db.postTags /\ ~(db.tags[t] # None /\ ~db.tags[t].public)
  <2>1. <<p, t>>[2] = t
    OBVIOUS
  <2>2. \A pt : pt \in e.postTags <=>
          pt \in db.postTags /\ ~(pt[2] \in TagId /\ db.tags[pt[2]] # None /\ ~db.tags[pt[2]].public)
    BY WithoutPrivate
  <2> HIDE DEF e
  <2> QED BY <2>1, <2>2
<1> HIDE DEF e
<1>3. here = there /\ \A t \in there : e.tags[t] = db.tags[t]
  BY <1>1, <1>2 DEF getAssignedTags, rowsOf
<1>4. appendTags(e, p) = {e.tags[t].name : t \in here} /\ appendTags(db, p) = {db.tags[t].name : t \in there}
  BY DEF appendTags
<1> HIDE DEF here, there
<1>5. appendTags(e, p) = appendTags(db, p)
  BY <1>3, <1>4
<1> QED BY <1>5 DEF e

\* Comments do not depend on tags.
LEMMA SameComments ==
  ASSUME db \in Tables, NEW viewer, NEW p
  PROVE  getCommentsByPost(publicOnly(db), viewer, p) = getCommentsByPost(db, viewer, p)
<1> DEFINE e == publicOnly(db)
<1>1. e.comments = db.comments /\ e.attachments = db.attachments /\ e.reactions = db.reactions
  BY WithoutPrivate
<1> HIDE DEF e
<1>2. \A c : agg_attachments(e, c) = agg_attachments(db, c)
  BY <1>1 DEF agg_attachments
<1>3. \A c : agg_reactions(e, c, viewer) = agg_reactions(db, c, viewer)
  BY <1>1 DEF agg_reactions
<1>4. getCommentsByPost(e, viewer, p) = getCommentsByPost(db, viewer, p)
  BY <1>1, <1>2, <1>3 DEF getCommentsByPost
<1> QED BY <1>4 DEF e

\* Nothing a visitor can ask for tells the two apart.
LEMMA VisitorsSeePublicOnly ==
  ASSUME db \in Tables, AssignedTagsExist
  PROVE  PrivateTagsHidden
<1> DEFINE e == publicOnly(db)
<1> SUFFICES ASSUME NEW viewer \in {None} \cup {u \in User : db.role[u] = "visitor"}
             PROVE  /\ \A q \in Searches : /\ Index(db, viewer, q, 1) = Index(e, viewer, q, 1)
                                           /\ GlobalFeed(db, viewer, q) = GlobalFeed(e, viewer, q)
                    /\ \A n \in numbers(db) :
                         /\ PostDetails(db, viewer, n) = PostDetails(e, viewer, n)
                         /\ CommentFeed(db, n) = CommentFeed(e, n)
                         /\ GetPost(db, viewer, n) = GetPost(e, viewer, n)
                    /\ \A words \in SUBSET Word :
                         FindSimilarPosts(db, viewer, words) = FindSimilarPosts(e, viewer, words)
                    /\ ListTags(db, viewer) = ListTags(e, viewer)
  BY DEF PrivateTagsHidden
<1>1. ~IsCollaborator(db, viewer)
  BY DEF IsCollaborator
<1>2. e.posts = db.posts /\ e.subscribers = db.subscribers /\ e.role = db.role
  BY WithoutPrivate
<1>3. /\ posts(e) = posts(db)
      /\ \A n : getPostByNumber(e, n) = getPostByNumber(db, n)
      /\ countPostPerStatus(e) = countPostPerStatus(db)
  BY SamePosts
<1>4. \A p : ToModel(e, viewer, p) = ToModel(db, viewer, p)
  BY <1>1, SameModel
<1>5. \A q : /\ searchPage(e, viewer, q, 1) = searchPage(db, viewer, q, 1)
             /\ TotalCount(e, viewer, q) = TotalCount(db, viewer, q)
             /\ \A limit : searchPosts(e, viewer, q, limit) = searchPosts(db, viewer, q, limit)
  BY <1>1, SameLists
<1>6. ListTags(e, viewer) = ListTags(db, viewer)
  BY <1>1, SameTagList
<1>7. \A p : appendTags(e, p) = appendTags(db, p)
  BY SameCategories
<1>8. \A v, p : getCommentsByPost(e, v, p) = getCommentsByPost(db, v, p)
  BY SameComments
<1> HIDE DEF e
<1>9. \A s : Told(e, viewer, s) = Told(db, viewer, s)
  BY <1>4 DEF Told
<1>10. \A q : Index(db, viewer, q, 1) = Index(e, viewer, q, 1)
  BY <1>3, <1>5, <1>6, <1>9 DEF Index
<1>11. \A q : GlobalFeed(db, viewer, q) = GlobalFeed(e, viewer, q)
  BY <1>5, <1>7 DEF GlobalFeed
<1>12. \A n : PostDetails(db, viewer, n) = PostDetails(e, viewer, n)
  <2>1. \A p : userSubscribedTo(e, p, viewer) = userSubscribedTo(db, p, viewer)
    BY <1>2 DEF userSubscribedTo
  <2> QED BY <1>3, <1>4, <1>6, <1>8, <2>1 DEF PostDetails
<1>13. \A n : CommentFeed(db, n) = CommentFeed(e, n)
  BY <1>3, <1>7, <1>8 DEF CommentFeed
<1>14. \A n : GetPost(db, viewer, n) = GetPost(e, viewer, n)
  BY <1>3, <1>4 DEF GetPost
<1>15. \A words : FindSimilarPosts(db, viewer, words) = FindSimilarPosts(e, viewer, words)
  <2>1. \A words : findSimilarPosts(e, words) = findSimilarPosts(db, words)
    BY <1>2, <1>3 DEF findSimilarPosts
  <2> QED BY <1>4, <2>1 DEF FindSimilarPosts
<1>16. \A q \in Searches : /\ Index(db, viewer, q, 1) = Index(e, viewer, q, 1)
                           /\ GlobalFeed(db, viewer, q) = GlobalFeed(e, viewer, q)
  BY <1>10, <1>11
<1>17. \A n \in numbers(db) : /\ PostDetails(db, viewer, n) = PostDetails(e, viewer, n)
                              /\ CommentFeed(db, n) = CommentFeed(e, n)
                              /\ GetPost(db, viewer, n) = GetPost(e, viewer, n)
  BY <1>12, <1>13, <1>14
<1>18. \A words \in SUBSET Word : FindSimilarPosts(db, viewer, words) = FindSimilarPosts(e, viewer, words)
  BY <1>15
<1> QED BY <1>6, <1>16, <1>17, <1>18

\* Whatever a visitor looks at is what it would be without the private tags: queries join the
\* tags under the viewer's condition (tagCondition, agg_tags, appendTags).
THEOREM PrivateTagsAreHidden == Spec => []PrivateTagsHidden
<1>1. DiscussionInv => PrivateTagsHidden
  BY VisitorsSeePublicOnly DEF DiscussionInv, Basics, TypeOK
<1> QED BY DiscussionAlways, <1>1, PTL

(***************************************************************************)
(* Sets listed in order.                                                   *)
(***************************************************************************)
\* R orders T strictly, and no two elements are equal in it.
Orders(R, T) ==
  /\ \A a \in T : <<a, a>> \notin R
  /\ \A a, b \in T : a # b => <<a, b>> \in R \/ <<b, a>> \in R
  /\ \A a, b, c \in T : <<a, b>> \in R /\ <<b, c>> \in R => <<a, c>> \in R

\* The elements of T before x.
Before(R, T, x) == {y \in T : <<y, x>> \in R}

\* What comes earlier has fewer elements before it, and none has all of them.
LEMMA FewerBefore ==
  ASSUME NEW T, IsFiniteSet(T), NEW R, Orders(R, T), NEW x \in T
  PROVE  /\ Cardinality(Before(R, T, x)) \in Nat
         /\ Cardinality(Before(R, T, x)) < Cardinality(T)
         /\ \A y \in T : <<x, y>> \in R =>
              Cardinality(Before(R, T, x)) < Cardinality(Before(R, T, y))
<1>1. \A z \in T : /\ IsFiniteSet(Before(R, T, z)) /\ Cardinality(Before(R, T, z)) \in Nat
                   /\ Cardinality(Before(R, T, z)) <= Cardinality(T)
                   /\ Before(R, T, z) \subseteq T
  <2> SUFFICES ASSUME NEW z \in T
               PROVE /\ IsFiniteSet(Before(R, T, z)) /\ Cardinality(Before(R, T, z)) \in Nat
                     /\ Cardinality(Before(R, T, z)) <= Cardinality(T)
                     /\ Before(R, T, z) \subseteq T
    OBVIOUS
  <2>1. Before(R, T, z) \in SUBSET T
    BY DEF Before
  <2> QED BY <2>1, FS_Subset, FS_CardinalityType
<1>2. Cardinality(T) \in Nat
  BY FS_CardinalityType
<1>3. x \notin Before(R, T, x)
  BY DEF Before, Orders
<1>4. Cardinality(Before(R, T, x)) # Cardinality(T)
  <2>1. Before(R, T, x) # T
    BY <1>3
  <2> QED BY <1>1, <2>1, FS_Subset
<1>5. ASSUME NEW y \in T, <<x, y>> \in R
      PROVE  Cardinality(Before(R, T, x)) < Cardinality(Before(R, T, y))
  <2>1. Before(R, T, x) \in SUBSET Before(R, T, y)
    BY <1>5 DEF Before, Orders
  <2>2. x \in Before(R, T, y)
    BY <1>5 DEF Before
  <2>3. Before(R, T, x) # Before(R, T, y)
    BY <2>2, <1>3
  <2>4. /\ Cardinality(Before(R, T, x)) <= Cardinality(Before(R, T, y))
        /\ Cardinality(Before(R, T, y)) # Cardinality(Before(R, T, x))
    BY <1>1, <2>1, <2>3, FS_Subset
  <2> QED BY <1>1, <2>4
<1> QED BY <1>1, <1>2, <1>4, <1>5

\* The sequences of all elements of a finite set are one to one, and miss none.
LEMMA Enumerations ==
  ASSUME NEW T, IsFiniteSet(T), NEW s \in SetToSeqs(T)
  PROVE  /\ Cardinality(T) \in Nat
         /\ s \in Seq(T) /\ Len(s) = Cardinality(T) /\ DOMAIN s = 1 .. Cardinality(T)
         /\ \A i \in 1 .. Cardinality(T) : s[i] \in T
         /\ \A i, j \in 1 .. Cardinality(T) : s[i] = s[j] => i = j
         /\ \A x \in T : \E i \in 1 .. Cardinality(T) : s[i] = x
<1> DEFINE n == Cardinality(T)
<1>1. n \in Nat
  BY FS_CardinalityType
<1>2. s \in [1 .. n -> T] /\ \A i, j \in 1 .. n : i # j => s[i] # s[j]
  BY DEF SetToSeqs
<1>3. IsFiniteSet(1 .. n) /\ Cardinality(1 .. n) = n
  BY <1>1, FS_Interval
<1>4. s \in Injection(1 .. n, T)
  BY <1>2 DEF Injection, IsInjective
<1>5. s \in Surjection(1 .. n, T)
  BY <1>3, <1>4, FS_Injection
<1>6. \A x \in T : \E i \in 1 .. n : s[i] = x
  BY <1>5 DEF Surjection
<1>7. s \in Seq(T) /\ Len(s) = n
  BY <1>1, <1>2
<1> QED BY <1>1, <1>2, <1>6, <1>7

\* A finite set is listed in order in one way: each element at the place that
\* the number of those before it gives.
LEMMA ListedInOrder ==
  ASSUME NEW T, IsFiniteSet(T), NEW R, Orders(R, T)
  PROVE  \E s \in SetToSeqs(T) : \A i, j \in DOMAIN s : i < j => <<s[i], s[j]>> \in R
<1> DEFINE n == Cardinality(T)
           place == [x \in T |-> Cardinality(Before(R, T, x)) + 1]
<1>1. n \in Nat /\ IsFiniteSet(1 .. n) /\ Cardinality(1 .. n) = n
  BY FS_CardinalityType, FS_Interval
<1>2. \A x \in T : place[x] \in 1 .. n
  BY <1>1, FewerBefore
<1>3. \A x, y \in T : <<x, y>> \in R => place[x] < place[y]
  BY <1>1, FewerBefore
<1>4. place \in [T -> 1 .. n]
  BY <1>2
<1> HIDE DEF place
<1>5. \A x, y \in T : x # y => place[x] # place[y]
  <2> SUFFICES ASSUME NEW x \in T, NEW y \in T, x # y PROVE place[x] # place[y]
    OBVIOUS
  <2>1. place[x] \in 1 .. n /\ place[y] \in 1 .. n
    BY <1>2
  <2>2. <<x, y>> \in R \/ <<y, x>> \in R
    BY DEF Orders
  <2> QED BY <1>3, <2>1, <2>2
<1>6. place \in Injection(T, 1 .. n)
  BY <1>4, <1>5 DEF Injection, IsInjective
<1>7. place \in Surjection(T, 1 .. n)
  BY <1>1, <1>6, FS_Injection
<1>8. \A i \in 1 .. n : \E x \in T : place[x] = i
  BY <1>7 DEF Surjection
<1> DEFINE s == [i \in 1 .. n |-> CHOOSE x \in T : place[x] = i]
<1>9. \A i \in 1 .. n : s[i] \in T /\ place[s[i]] = i
  BY <1>8
<1>10. s \in SetToSeqs(T)
  <2>1. s \in [1 .. n -> T]
    BY <1>9
  <2>2. \A i, j \in 1 .. n : i # j => s[i] # s[j]
    BY <1>9
  <2> HIDE DEF s
  <2> QED BY <2>1, <2>2 DEF SetToSeqs
<1>11. \A i, j \in 1 .. n : i < j => <<s[i], s[j]>> \in R
  <2> SUFFICES ASSUME NEW i \in 1 .. n, NEW j \in 1 .. n, i < j, <<s[i], s[j]>> \notin R
               PROVE FALSE
    OBVIOUS
  <2>1. s[i] \in T /\ s[j] \in T /\ place[s[i]] = i /\ place[s[j]] = j
    BY <1>9
  <2> HIDE DEF s
  <2>2. <<s[j], s[i]>> \in R
    BY <2>1 DEF Orders
  <2>3. j < i
    BY <1>3, <2>1, <2>2
  <2> QED BY <1>1, <2>3
<1>12. DOMAIN s = 1 .. n
  OBVIOUS
<1> HIDE DEF s
<1> QED BY <1>10, <1>11, <1>12

\* There is no other way.
LEMMA ListedOneWay ==
  ASSUME NEW T, IsFiniteSet(T), NEW R, Orders(R, T), NEW s \in SetToSeqs(T), NEW t \in SetToSeqs(T),
         \A i, j \in DOMAIN s : i < j => <<s[i], s[j]>> \in R,
         \A i, j \in DOMAIN t : i < j => <<t[i], t[j]>> \in R
  PROVE  s = t
<1> DEFINE n == Cardinality(T)
           D == {i \in 1 .. n : s[i] # t[i]}
<1>1. /\ n \in Nat
      /\ s \in Seq(T) /\ Len(s) = n /\ DOMAIN s = 1 .. n
      /\ \A i \in 1 .. n : s[i] \in T
      /\ \A i, j \in 1 .. n : s[i] = s[j] => i = j
      /\ \A x \in T : \E i \in 1 .. n : s[i] = x
  BY Enumerations
<1>2. /\ t \in Seq(T) /\ Len(t) = n /\ DOMAIN t = 1 .. n
      /\ \A i \in 1 .. n : t[i] \in T
      /\ \A i, j \in 1 .. n : t[i] = t[j] => i = j
      /\ \A x \in T : \E i \in 1 .. n : t[i] = x
  BY Enumerations
<1>3. D = {}
  <2> SUFFICES ASSUME D # {} PROVE FALSE
    OBVIOUS
  <2>1. D \in SUBSET Nat
    OBVIOUS
  <2>2. PICK i \in D : \A j \in D : i <= j
    BY <2>1, NatHasLeast
  <2>3. i \in 1 .. n /\ s[i] # t[i] /\ \A k \in 1 .. n : k < i => s[k] = t[k]
    BY <2>2
  <2>4. PICK k \in 1 .. n : s[k] = t[i]
    BY <1>1, <1>2, <2>3
  <2>5. PICK m \in 1 .. n : t[m] = s[i]
    BY <1>1, <1>2, <2>3
  <2>6. k > i
    <3>1. CASE k < i
      BY <3>1, <2>3, <2>4, <1>2
    <3>2. CASE k = i
      BY <3>2, <2>3, <2>4
    <3> QED BY <3>1, <3>2, <2>3, <2>4
  <2>7. m > i
    <3>1. CASE m < i
      BY <3>1, <2>3, <2>5, <1>1
    <3>2. CASE m = i
      BY <3>2, <2>3, <2>5
    <3> QED BY <3>1, <3>2, <2>3, <2>5
  <2>8. <<s[i], s[k]>> \in R /\ <<t[i], t[m]>> \in R
    BY <1>1, <1>2, <2>3, <2>6, <2>7
  <2>9. <<s[i], t[i]>> \in R /\ <<t[i], s[i]>> \in R
    BY <2>4, <2>5, <2>8
  <2>10. s[i] \in T /\ t[i] \in T
    BY <1>1, <1>2, <2>3
  <2> QED BY <2>9, <2>10 DEF Orders
<1>4. \A i \in 1 .. n : s[i] = t[i]
  BY <1>3
<1> HIDE DEF D, n
<1> QED BY <1>1, <1>2, <1>4, SeqEqual

(***************************************************************************)
(* What a search finds, and its pages.                                     *)
(***************************************************************************)
\* The comments that count, of every post.
LEMMA CommentsCounted ==
  ASSUME NEW d \in Tables, NEW p
  PROVE  agg_comments(d, p) \in Nat
<1> DEFINE found == {c \in rowsOf(d.comments) : d.comments[c].post = p /\ ~d.comments[c].deleted}
<1>1. found \in SUBSET CommentId
  BY DEF rowsOf, Tables
<1>2. IsFiniteSet(found)
  BY <1>1, IdsAssumption, FS_Subset
<1> QED BY <1>2, FS_CardinalityType DEF agg_comments

\* The order of posts as a relation.
inOrder(d, q) == {pair \in PostId \X PostId : precedes(d, q, pair[1], pair[2])}

\* It tells any two posts apart.
LEMMA PostsOrdered ==
  ASSUME NEW d \in Tables, NEW q, NEW T \in SUBSET PostId
  PROVE  Orders(inOrder(d, q), T)
<1> DEFINE n(p) == agg_comments(d, p)
           byComments == q.text = None /\ getViewData(q).sort = "comments_count"
<1>1. \A p : n(p) \in Nat
  BY CommentsCounted
<1>2. \A a, b \in T : <<a, b>> \in inOrder(d, q)
                        <=> IF byComments /\ n(a) # n(b) THEN n(a) > n(b) ELSE a > b
  BY DEF inOrder, precedes
<1>3. T \in SUBSET Nat
  BY IdsAssumption
<1> HIDE DEF n, byComments
<1>4. \A a \in T : <<a, a>> \notin inOrder(d, q)
  BY <1>2, <1>3
<1>5. \A a, b \in T : a # b => <<a, b>> \in inOrder(d, q) \/ <<b, a>> \in inOrder(d, q)
  BY <1>1, <1>2, <1>3
<1>6. ASSUME NEW a \in T, NEW b \in T, NEW c \in T,
             <<a, b>> \in inOrder(d, q), <<b, c>> \in inOrder(d, q)
      PROVE  <<a, c>> \in inOrder(d, q)
  <2>1. n(a) \in Nat /\ n(b) \in Nat /\ n(c) \in Nat /\ a \in Nat /\ b \in Nat /\ c \in Nat
    BY <1>1, <1>3
  <2>2. IF byComments /\ n(a) # n(b) THEN n(a) > n(b) ELSE a > b
    BY <1>2, <1>6
  <2>3. IF byComments /\ n(b) # n(c) THEN n(b) > n(c) ELSE b > c
    BY <1>2, <1>6
  <2>4. IF byComments /\ n(a) # n(c) THEN n(a) > n(c) ELSE a > c
    BY <2>1, <2>2, <2>3
  <2> QED BY <1>2, <2>4
<1> QED BY <1>4, <1>5, <1>6 DEF Orders

\* The database has one way to list what is found: the order leaves no ties.
LEMMA OneListing ==
  ASSUME NEW d \in Tables, NEW q, NEW T \in SUBSET PostId
  PROVE  /\ IsFiniteSet(T)
         /\ \E s \in SetToSeqs(T) : orderBy(d, q, T) = {s}
<1> DEFINE R == inOrder(d, q)
<1>1. IsFiniteSet(T)
  BY IdsAssumption, FS_Subset
<1>2. Orders(R, T)
  BY PostsOrdered
<1>3. \A a, b \in T : <<a, b>> \in R <=> precedes(d, q, a, b)
  BY DEF inOrder
<1> HIDE DEF R
<1>4. ASSUME NEW s \in SetToSeqs(T)
      PROVE  s \in orderBy(d, q, T) <=> \A i, j \in DOMAIN s : i < j => <<s[i], s[j]>> \in R
  <2>1. /\ Cardinality(T) \in Nat /\ DOMAIN s = 1 .. Cardinality(T)
        /\ \A i \in 1 .. Cardinality(T) : s[i] \in T
        /\ \A i, j \in 1 .. Cardinality(T) : s[i] = s[j] => i = j
    BY <1>1, Enumerations
  <2>2. ASSUME NEW i \in DOMAIN s, NEW j \in DOMAIN s, i < j
        PROVE  ~precedes(d, q, s[j], s[i]) <=> <<s[i], s[j]>> \in R
    <3>1. s[i] \in T /\ s[j] \in T /\ s[i] # s[j]
      BY <2>1, <2>2
    <3>2. precedes(d, q, s[j], s[i]) <=> <<s[j], s[i]>> \in R
      BY <1>3, <3>1
    <3>3. <<s[i], s[j]>> \in R \/ <<s[j], s[i]>> \in R
      BY <1>2, <3>1 DEF Orders
    <3>4. ~(<<s[i], s[j]>> \in R /\ <<s[j], s[i]>> \in R)
      BY <1>2, <3>1 DEF Orders
    <3> QED BY <3>2, <3>3, <3>4
  <2>3. s \in orderBy(d, q, T) <=> \A i, j \in DOMAIN s : i < j => ~precedes(d, q, s[j], s[i])
    BY DEF orderBy
  <2> QED BY <2>2, <2>3
<1>5. PICK s \in SetToSeqs(T) : \A i, j \in DOMAIN s : i < j => <<s[i], s[j]>> \in R
  BY <1>1, <1>2, ListedInOrder
<1>6. s \in orderBy(d, q, T)
  BY <1>4, <1>5
<1>7. ASSUME NEW t \in orderBy(d, q, T) PROVE t = s
  <2>1. t \in SetToSeqs(T)
    BY DEF orderBy
  <2>2. \A i, j \in DOMAIN t : i < j => <<t[i], t[j]>> \in R
    BY <1>4, <2>1
  <2> QED BY <1>1, <1>2, <1>5, <2>1, <2>2, ListedOneWay
<1>8. orderBy(d, q, T) = {s}
  BY <1>6, <1>7
<1> QED BY <1>1, <1>8

\* What division gives.
LEMMA Quotient ==
  ASSUME NEW x \in Nat, NEW k \in Nat \ {0}
  PROVE  /\ x \div k \in Nat
         /\ k * (x \div k) <= x /\ x < k * ((x \div k) + 1)
OBVIOUS

\* A product grows with its factors.
LEMMA ProductGrows ==
  ASSUME NEW k \in Nat, NEW x \in Nat, NEW y \in Nat, x <= y
  PROVE  k * x \in Nat /\ k * x <= k * y
OBVIOUS

\* Pages are asked for by their numbers.
LEMMA PageAskedFor ==
  ASSUME NEW n \in Nat, NEW i \in 1 .. lastPage(n)
  PROVE  /\ lastPage(n) \in Nat \ {0}
         /\ pageNumber(i, n) = i
<1>1. lastPage(n) \in Nat \ {0}
  <2>1. CASE n = 0
    BY <2>1 DEF lastPage
  <2>2. CASE n # 0
    <3>1. (n - 1) \div PageSize \in Nat
      BY <2>2, Quotient, LimitsAssumption
    <3> QED BY <2>2, <3>1 DEF lastPage
  <2> QED BY <2>1, <2>2
<1>2. i \in Nat /\ 1 <= i /\ i <= lastPage(n)
  BY <1>1
<1>3. Max({i, 1}) = i
  <2>1. {i, 1} \in SUBSET Nat /\ {i, 1} # {} /\ IsFiniteSet({i, 1})
    <3>1. IsFiniteSet({i} \cup {1})
      BY FS_Singleton, FS_AddElement
    <3>2. {i} \cup {1} = {i, 1}
      OBVIOUS
    <3> QED BY <1>2, <3>1, <3>2
  <2>2. Max({i, 1}) \in {i, 1} /\ \A y \in {i, 1} : y <= Max({i, 1})
    BY <2>1, MaxIsGreatest
  <2> QED BY <1>2, <2>2
<1>4. Min({i, lastPage(n)}) = i
  <2>1. {i, lastPage(n)} \in SUBSET Nat /\ {i, lastPage(n)} # {}
    BY <1>1, <1>2
  <2>2. /\ Min({i, lastPage(n)}) \in {i, lastPage(n)}
        /\ \A y \in {i, lastPage(n)} : Min({i, lastPage(n)}) <= y
    BY <2>1, MinIsLeast
  <2> QED BY <1>1, <1>2, <2>2
<1> QED BY <1>1, <1>3, <1>4 DEF pageNumber

\* The places of the posts on a page.
places(i, n) == {k \in 1 .. n : PageSize * (i - 1) < k /\ k <= PageSize * i}

\* A page shows what is at its places, and nothing else can be shown on it.
LEMMA PageShows ==
  ASSUME NEW d \in Tables, NEW viewer, NEW q, NEW s \in SetToSeqs(filteredQuery(d, viewer, q)),
         orderBy(d, q, filteredQuery(d, viewer, q)) = {s}, IsFiniteSet(filteredQuery(d, viewer, q)),
         NEW i \in 1 .. lastPage(Cardinality(filteredQuery(d, viewer, q))),
         NEW shown \in searchPage(d, viewer, q, i)
  PROVE  ToSet(shown) = {s[k] : k \in places(i, Cardinality(filteredQuery(d, viewer, q)))}
<1> DEFINE rows == filteredQuery(d, viewer, q)
           n == Cardinality(rows)
           offset == (i - 1) * PageSize
           end == Min({offset + PageSize, Len(s)})
<1>1. /\ n \in Nat /\ s \in Seq(rows) /\ Len(s) = n /\ DOMAIN s = 1 .. n
      /\ \A k \in 1 .. n : s[k] \in rows
  BY Enumerations
<1>2. lastPage(n) \in Nat \ {0} /\ pageNumber(i, n) = i
  BY <1>1, PageAskedFor
<1>3. shown = SubSeq(s, offset + 1, end)
  BY <1>2 DEF searchPage
<1> HIDE DEF rows, n
<1>4. i \in Nat /\ i >= 1 /\ PageSize \in Nat \ {0}
  BY <1>2, LimitsAssumption DEF n, rows
<1>5. /\ offset \in Nat /\ offset = PageSize * (i - 1)
      /\ offset + PageSize = PageSize * i
  BY <1>4
<1> HIDE DEF offset
<1>6. end \in Nat /\ end <= n /\ end <= offset + PageSize /\ end \in {offset + PageSize, n}
  <2>1. {offset + PageSize, n} \in SUBSET Nat /\ {offset + PageSize, n} # {}
    BY <1>1, <1>4, <1>5
  <2>2. /\ Min({offset + PageSize, n}) \in {offset + PageSize, n}
        /\ \A y \in {offset + PageSize, n} : Min({offset + PageSize, n}) <= y
    BY <2>1, MinIsLeast
  <2>3. end = Min({offset + PageSize, n})
    BY <1>1
  <2> HIDE DEF end
  <2> QED BY <2>1, <2>2, <2>3
<1> HIDE DEF end
<1>7. \A k \in offset + 1 .. end : s[k] \in rows
  BY <1>1, <1>5, <1>6
<1> DEFINE m == IF offset + 1 <= end THEN end - offset ELSE 0
<1>8. /\ Len(shown) = m /\ shown \in Seq(rows)
      /\ \A k \in 1 .. end - offset : shown[k] = s[offset + k]
  <2>1. offset + 1 \in Int /\ end \in Int
    BY <1>5, <1>6
  <2>2. /\ SubSeq(s, offset + 1, end) \in Seq(rows)
        /\ Len(SubSeq(s, offset + 1, end)) = IF offset + 1 <= end THEN end - (offset + 1) + 1 ELSE 0
        /\ \A k \in 1 .. end - (offset + 1) + 1 :
             SubSeq(s, offset + 1, end)[k] = s[offset + 1 + k - 1]
    BY <2>1, <1>7, SubSeqProperties
  <2>3. end - (offset + 1) + 1 = end - offset /\ \A k \in Int : offset + 1 + k - 1 = offset + k
    BY <2>1, <1>5
  <2>4. shown \in Seq(rows) /\ Len(shown) = m
    BY <1>3, <2>2, <2>3
  <2>5. \A k \in 1 .. end - offset : shown[k] = s[offset + 1 + k - 1]
    BY <1>3, <2>2, <2>3
  <2>6. \A k \in 1 .. end - offset : shown[k] = s[offset + k]
    <3> SUFFICES ASSUME NEW k \in 1 .. end - offset PROVE shown[k] = s[offset + k]
      OBVIOUS
    <3>1. shown[k] = s[offset + 1 + k - 1]
      BY <2>5
    <3>2. k \in Int
      BY <1>5, <1>6
    <3>3. offset + 1 + k - 1 = offset + k
      BY <2>3, <3>2
    <3> HIDE DEF m
    <3> QED BY <3>1, <3>3
  <2> QED BY <2>4, <2>6
<1>9. DOMAIN shown = 1 .. m /\ m \in Nat /\ 1 .. m = 1 .. end - offset
  BY <1>5, <1>6, <1>8
<1>10. ToSet(shown) = {shown[k] : k \in 1 .. end - offset}
  BY <1>9 DEF ToSet
<1> HIDE DEF m
<1>11. ASSUME NEW x \in ToSet(shown) PROVE x \in {s[k] : k \in places(i, n)}
  <2>1. PICK k \in 1 .. end - offset : x = s[offset + k]
    BY <1>8, <1>10
  <2>2. k \in Nat /\ 1 <= k /\ k <= end - offset
    BY <1>5, <1>6
  <2>3. offset + k \in 1 .. n /\ offset < offset + k /\ offset + k <= offset + PageSize
    <3>1. offset \in Nat /\ PageSize \in Nat
      BY <1>4, <1>5
    <3> HIDE DEF n
    <3> QED BY <1>1, <1>6, <2>2, <3>1
  <2>4. offset + k \in places(i, n)
    BY <1>5, <2>3 DEF places
  <2> QED BY <2>1, <2>4
<1>12. ASSUME NEW k \in places(i, n) PROVE s[k] \in ToSet(shown)
  <2>1. k \in 1 .. n /\ offset < k /\ k <= offset + PageSize
    BY <1>5 DEF places
  <2>2. k - offset \in 1 .. end - offset
    BY <1>1, <1>5, <1>6, <2>1
  <2>3. shown[k - offset] = s[k]
    <3>1. shown[k - offset] = s[offset + (k - offset)]
      BY <1>8, <2>2
    <3>2. offset + (k - offset) = k
      BY <1>5, <2>1
    <3> QED BY <3>1, <3>2
  <2> QED BY <1>10, <2>2, <2>3
<1>13. ToSet(shown) = {s[k] : k \in places(i, n)}
  BY <1>11, <1>12
<1> QED BY <1>13 DEF n, rows

\* Every place is on one of the pages, and on no two.
LEMMA PlacesDivided ==
  ASSUME NEW n \in Nat
  PROVE  /\ \A k \in 1 .. n : \E i \in 1 .. lastPage(n) : k \in places(i, n)
         /\ \A i, j \in 1 .. lastPage(n) : \A k : k \in places(i, n) /\ k \in places(j, n) => i = j
<1>1. PageSize \in Nat \ {0}
  BY LimitsAssumption
<1>2. ASSUME NEW k \in 1 .. n PROVE \E i \in 1 .. lastPage(n) : k \in places(i, n)
  <2> DEFINE a == (k - 1) \div PageSize
             b == (n - 1) \div PageSize
  <2>1. k - 1 \in Nat /\ n - 1 \in Nat /\ k - 1 <= n - 1 /\ lastPage(n) = b + 1
    BY DEF lastPage
  <2>2. a \in Nat /\ PageSize * a <= k - 1 /\ k - 1 < PageSize * (a + 1)
    BY <1>1, <2>1, Quotient
  <2>3. b \in Nat /\ PageSize * b <= n - 1 /\ n - 1 < PageSize * (b + 1)
    BY <1>1, <2>1, Quotient
  <2> HIDE DEF a, b
  <2>4. a <= b
    <3> SUFFICES ASSUME b + 1 <= a PROVE FALSE
      BY <2>2, <2>3
    <3>1. PageSize * (b + 1) \in Nat /\ PageSize * (b + 1) <= PageSize * a
      <4>1. b + 1 \in Nat /\ a \in Nat /\ PageSize \in Nat
        BY <1>1, <2>2, <2>3
      <4> QED BY <4>1, ProductGrows
    <3>2. PageSize * a \in Nat
      BY <1>1, <2>2
    <3> QED BY <2>1, <2>2, <2>3, <3>1, <3>2
  <2>5. a + 1 \in 1 .. lastPage(n)
    BY <2>1, <2>2, <2>3, <2>4
  <2>6. k \in places(a + 1, n)
    <3>1. (a + 1) - 1 = a
      BY <2>2
    <3>2. PageSize * a \in Nat /\ PageSize * (a + 1) \in Nat
      BY <1>1, <2>2
    <3> QED BY <2>1, <2>2, <3>1, <3>2 DEF places
  <2> QED BY <2>5, <2>6
<1>3. ASSUME NEW i \in 1 .. lastPage(n), NEW j \in 1 .. lastPage(n), NEW k,
             k \in places(i, n), k \in places(j, n)
      PROVE  ~(i < j)
  <2> SUFFICES ASSUME i < j PROVE FALSE
    OBVIOUS
  <2>1. lastPage(n) \in Nat
    BY PageAskedFor
  <2>2. i \in Nat /\ j - 1 \in Nat /\ i <= j - 1
    BY <2>1
  <2>3. PageSize * i \in Nat /\ PageSize * i <= PageSize * (j - 1) /\ PageSize * (j - 1) \in Nat
    BY <1>1, <2>2, ProductGrows
  <2>4. k \in 1 .. n /\ k <= PageSize * i /\ PageSize * (j - 1) < k
    BY <1>3 DEF places
  <2> QED BY <2>3, <2>4
<1>4. ASSUME NEW i \in 1 .. lastPage(n), NEW j \in 1 .. lastPage(n), NEW k,
             k \in places(i, n), k \in places(j, n)
      PROVE  i = j
  <2>1. ~(i < j) /\ ~(j < i)
    BY <1>3, <1>4
  <2>2. lastPage(n) \in Nat
    BY PageAskedFor
  <2> QED BY <2>1, <2>2
<1> QED BY <1>2, <1>4

\* What a search finds are posts.
LEMMA FoundArePosts ==
  ASSUME NEW d \in Tables, NEW viewer, NEW q
  PROVE  filteredQuery(d, viewer, q) \in SUBSET PostId
BY FoundByNumber DEF filteredQuery

\* The pages of a search divide what it finds.
LEMMA PagesDivide ==
  ASSUME db \in Tables
  PROVE  PagesPartition
<1> SUFFICES ASSUME NEW viewer \in User, NEW q \in Searches
             PROVE LET rows == filteredQuery(db, viewer, q)
                       page(i) == searchPage(db, viewer, q, i)
                       pages == 1 .. lastPage(Cardinality(rows))
                   IN \A shown \in [pages -> UNION {page(i) : i \in pages}] :
                        (\A i \in pages : shown[i] \in page(i)) =>
                          /\ UNION {ToSet(shown[i]) : i \in pages} = rows
                          /\ \A i, j \in pages : ToSet(shown[i]) \cap ToSet(shown[j]) # {} => i = j
  BY DEF PagesPartition
<1> DEFINE rows == filteredQuery(db, viewer, q)
           n == Cardinality(rows)
           pages == 1 .. lastPage(n)
<1> SUFFICES ASSUME NEW shown, \A i \in pages : shown[i] \in searchPage(db, viewer, q, i)
             PROVE  /\ UNION {ToSet(shown[i]) : i \in pages} = rows
                    /\ \A i, j \in pages : ToSet(shown[i]) \cap ToSet(shown[j]) # {} => i = j
  OBVIOUS
<1>1. IsFiniteSet(rows) /\ \E s \in SetToSeqs(rows) : orderBy(db, q, rows) = {s}
  BY FoundArePosts, OneListing
<1>2. PICK s \in SetToSeqs(rows) : orderBy(db, q, rows) = {s}
  BY <1>1
<1>3. /\ n \in Nat
      /\ \A k \in 1 .. n : s[k] \in rows
      /\ \A k, l \in 1 .. n : s[k] = s[l] => k = l
      /\ \A x \in rows : \E k \in 1 .. n : s[k] = x
  BY <1>1, Enumerations
<1>4. \A i \in pages : ToSet(shown[i]) = {s[k] : k \in places(i, n)}
  <2> SUFFICES ASSUME NEW i \in pages PROVE ToSet(shown[i]) = {s[k] : k \in places(i, n)}
    OBVIOUS
  <2>1. shown[i] \in searchPage(db, viewer, q, i)
    OBVIOUS
  <2> QED BY <1>1, <1>2, <2>1, PageShows
<1>5. /\ \A k \in 1 .. n : \E i \in pages : k \in places(i, n)
      /\ \A i, j \in pages : \A k : k \in places(i, n) /\ k \in places(j, n) => i = j
  BY <1>3, PlacesDivided
<1>6. \A i : places(i, n) \subseteq 1 .. n
  BY DEF places
<1> HIDE DEF rows, n, pages
<1>7. UNION {ToSet(shown[i]) : i \in pages} \subseteq rows
  BY <1>3, <1>4, <1>6
<1>8. rows \subseteq UNION {ToSet(shown[i]) : i \in pages}
  <2> SUFFICES ASSUME NEW x \in rows PROVE \E i \in pages : x \in ToSet(shown[i])
    OBVIOUS
  <2>1. PICK k \in 1 .. n : s[k] = x
    BY <1>3
  <2>2. PICK i \in pages : k \in places(i, n)
    BY <1>5
  <2> QED BY <1>4, <2>1, <2>2
<1>9. ASSUME NEW i \in pages, NEW j \in pages, NEW x, x \in ToSet(shown[i]), x \in ToSet(shown[j])
      PROVE  i = j
  <2>1. PICK k \in places(i, n) : x = s[k]
    BY <1>4, <1>9
  <2>2. PICK l \in places(j, n) : x = s[l]
    BY <1>4, <1>9
  <2>3. k = l
    BY <1>3, <1>6, <2>1, <2>2
  <2> QED BY <1>5, <2>1, <2>2, <2>3
<1> QED BY <1>7, <1>8, <1>9

(***************************************************************************)
(* The numbers beside them.                                                *)
(***************************************************************************)
\* Comments are listed without ties as well, each found once.
LEMMA NewestListed ==
  ASSUME NEW ids \in SUBSET CommentId
  PROVE  IsFiniteSet(ids) /\ newestFirst(ids) \in SetToSeqs(ids)
<1> DEFINE R == {pair \in CommentId \X CommentId : pair[1] > pair[2]}
<1>1. IsFiniteSet(ids) /\ ids \in SUBSET Nat
  BY IdsAssumption, FS_Subset
<1>2. \A a, b \in ids : <<a, b>> \in R <=> a > b
  OBVIOUS
<1> HIDE DEF R
<1>3. Orders(R, ids)
  <2>1. \A a \in ids : <<a, a>> \notin R
    BY <1>1, <1>2
  <2>2. \A a, b \in ids : a # b => <<a, b>> \in R \/ <<b, a>> \in R
    BY <1>1, <1>2
  <2>3. \A a, b, c \in ids : <<a, b>> \in R /\ <<b, c>> \in R => <<a, c>> \in R
    BY <1>1, <1>2
  <2> QED BY <2>1, <2>2, <2>3 DEF Orders
<1>4. PICK s \in SetToSeqs(ids) : \A i, j \in DOMAIN s : i < j => <<s[i], s[j]>> \in R
  BY <1>1, <1>3, ListedInOrder
<1>5. DOMAIN s = 1 .. Cardinality(ids) /\ \A i \in 1 .. Cardinality(ids) : s[i] \in ids
  BY <1>1, Enumerations
<1>6. \A i, j \in DOMAIN s : i < j => s[i] > s[j]
  BY <1>2, <1>4, <1>5
<1>7. \E t \in SetToSeqs(ids) : \A i, j \in DOMAIN t : i < j => t[i] > t[j]
  BY <1>6
<1>8. newestFirst(ids) \in SetToSeqs(ids)
  BY <1>7 DEF newestFirst
<1> QED BY <1>1, <1>8

\* A function on the first n numbers is a sequence of length n.
LEMMA LengthIs ==
  ASSUME NEW f, NEW n \in Nat, f = [i \in 1 .. n |-> f[i]]
  PROVE  Len(f) = n /\ DOMAIN f = 1 .. n
<1>1. f \in [1 .. n -> {f[i] : i \in 1 .. n}]
  OBVIOUS
<1>2. f \in Seq({f[i] : i \in 1 .. n})
  BY <1>1
<1> QED BY <1>1, <1>2

\* The comments that are listed with a post are those its number counts, and
\* those that are found one by one.
LEMMA CommentsAgree ==
  ASSUME db \in Tables, NumbersUnique, NEW p \in posts(db)
  PROVE  LET listed == ListComments(db, None, db.posts[p].number)
         IN /\ ToModel(db, None, p).comments = Len(listed)
            /\ {listed[i].id : i \in DOMAIN listed}
                 = {c \in rowsOf(db.comments) : GetComment(db, c) # None /\ db.comments[c].post = p}
<1> DEFINE listed == ListComments(db, None, db.posts[p].number)
           found == {c \in rowsOf(db.comments) : db.comments[c].post = p /\ ~db.comments[c].deleted}
           newest == newestFirst(found)
           n == Cardinality(found)
<1>1. found \in SUBSET CommentId /\ rowsOf(db.comments) \subseteq CommentId
  BY DEF rowsOf, Tables
<1>2. IsFiniteSet(found) /\ newest \in SetToSeqs(found)
  BY <1>1, NewestListed
<1>3. /\ n \in Nat /\ DOMAIN newest = 1 .. n
      /\ \A i \in 1 .. n : newest[i] \in found
      /\ \A x \in found : \E i \in 1 .. n : newest[i] = x
  <2> HIDE DEF newest, found
  <2> QED BY <1>2, Enumerations
<1>4. getPostByNumber(db, db.posts[p].number) = p
  <2> DEFINE S == {q \in posts(db) : db.posts[q].number = db.posts[p].number}
  <2>1. posts(db) \subseteq rowsOf(db.posts) /\ rowsOf(db.posts) \subseteq PostId
    BY FoundByNumber
  <2>2. S \in SUBSET PostId /\ p \in S
    BY <2>1
  <2>3. \A q \in S : q = p
    BY <2>1 DEF NumbersUnique
  <2>4. querySinglePost(S) \in S
    BY <2>2, FoundIsARow
  <2> QED BY <2>3, <2>4 DEF getPostByNumber
<1>5. listed = [i \in 1 .. n |-> [id |-> newest[i], attachments |-> agg_attachments(db, newest[i]),
                                  reactions |-> agg_reactions(db, newest[i], None)]]
  BY <1>3, <1>4 DEF ListComments, getCommentsByPost
<1>6. Len(listed) = n /\ DOMAIN listed = 1 .. n
  <2>1. listed = [i \in 1 .. n |-> listed[i]]
    BY <1>5
  <2> HIDE DEF listed, n
  <2> QED BY <1>3, <2>1, LengthIs
<1>7. \A i \in 1 .. n : listed[i].id = newest[i]
  BY <1>5
<1>8. ToModel(db, None, p).comments = n
  BY DEF ToModel, agg_comments
<1>9. \A c \in rowsOf(db.comments) :
        GetComment(db, c) # None <=> ~db.comments[c].deleted
  <2> SUFFICES ASSUME NEW c \in rowsOf(db.comments)
               PROVE  GetComment(db, c) # None <=> ~db.comments[c].deleted
    OBVIOUS
  <2>1. db.comments[c] # None /\ c # None
    BY <1>1, NoneIsNothing DEF rowsOf
  <2> QED BY <2>1 DEF GetComment, getCommentByID
<1> HIDE DEF listed, newest, n
<1>10. {listed[i].id : i \in DOMAIN listed} = found
  BY <1>3, <1>6, <1>7
<1>11. found = {c \in rowsOf(db.comments) : GetComment(db, c) # None /\ db.comments[c].post = p}
  BY <1>9
<1> QED BY <1>6, <1>8, <1>10, <1>11 DEF listed

\* The number of a status is that of the posts the home page finds with it.
LEMMA StatusesAgree ==
  ASSUME db \in Tables, NEW s \in LiveStatus, NEW viewer
  PROVE  countPostPerStatus(db)[s]
           = TotalCount(db, viewer, [EveryPost EXCEPT !.view = "recent", !.statuses = {s}])
<1> DEFINE q == [EveryPost EXCEPT !.view = "recent", !.statuses = {s}]
<1>1. /\ q.view = "recent" /\ q.statuses = {s} /\ q.tags = {} /\ q.untagged = FALSE
      /\ q.mine = FALSE /\ q.text = None
  BY DEF EveryPost
<1> HIDE DEF q
<1>2. getViewData(q).statuses = {s} /\ getViewData(q).condition = "any"
  BY <1>1 DEF getViewData
<1>3. filteredQuery(db, viewer, q) = {p \in posts(db) : db.posts[p].status = s}
  BY <1>1, <1>2 DEF filteredQuery
<1>4. {p \in posts(db) : db.posts[p].status = s} = {p \in rowsOf(db.posts) : db.posts[p].status = s}
  BY DEF posts, LiveStatus
<1>5. s \in Status
  BY DEF LiveStatus
<1>6. countPostPerStatus(db)[s] = TotalCount(db, viewer, q)
  BY <1>3, <1>4, <1>5 DEF countPostPerStatus, TotalCount
<1> QED BY <1>6 DEF q

\* Sizes of sets that share nothing add up.
LEMMA SizesAdd ==
  ASSUME NEW S, NEW T, IsFiniteSet(S), IsFiniteSet(T), S \cap T = {}
  PROVE  /\ IsFiniteSet(S \cup T) /\ Cardinality(S) \in Nat /\ Cardinality(T) \in Nat
         /\ Cardinality(S \cup T) = Cardinality(S) + Cardinality(T)
BY FS_Union, FS_EmptySet, FS_CardinalityType

\* The export has a line for every post that is not a duplicate or deleted.
LEMMA ExportAgrees ==
  ASSUME db \in Tables, NEW viewer
  PROVE  LET count == countPostPerStatus(db)
         IN Len(ExportPostsToCSV(db, viewer))
              = count["open"] + count["started"] + count["planned"]
                  + count["completed"] + count["declined"]
<1> DEFINE rows == filteredQuery(db, viewer, EveryPost)
           with(s) == {p \in rowsOf(db.posts) : db.posts[p].status = s}
           n == Cardinality(rows)
           lines == getAllPosts(db, viewer)
<1>1. rows \in SUBSET PostId /\ IsFiniteSet(rows) /\ n <= Cardinality(PostId)
      /\ Cardinality(PostId) \in Nat /\ n \in Nat
  BY FoundArePosts, IdsAssumption, FS_Subset, FS_CardinalityType
<1>2. Len(lines) = n /\ DOMAIN lines = 1 .. n
  <2>1. PICK s \in SetToSeqs(rows) : orderBy(db, EveryPost, rows) = {s}
    BY <1>1, OneListing
  <2>2. s \in Seq(rows) /\ Len(s) = n
    BY <1>1, Enumerations
  <2>3. Min({Cardinality(PostId), Len(s)}) = n
    <3>1. {Cardinality(PostId), n} \in SUBSET Nat /\ {Cardinality(PostId), n} # {}
      BY <1>1
    <3>2. /\ Min({Cardinality(PostId), n}) \in {Cardinality(PostId), n}
          /\ \A y \in {Cardinality(PostId), n} : Min({Cardinality(PostId), n}) <= y
      BY <3>1, MinIsLeast
    <3> HIDE DEF n
    <3> QED BY <1>1, <2>2, <3>2
  <2>4. searchPosts(db, viewer, EveryPost, Cardinality(PostId)) = {SubSeq(s, 1, n)}
    BY <2>1, <2>3 DEF searchPosts
  <2>5. SubSeq(s, 1, n) = s
    BY <2>2, SubSeqFull
  <2>6. lines = s
    BY <2>4, <2>5 DEF getAllPosts
  <2> HIDE DEF n, lines, rows
  <2> QED BY <2>2, <2>6, LenProperties
<1>3. Len(ExportPostsToCSV(db, viewer)) = n
  <2> DEFINE f == ExportPostsToCSV(db, viewer)
  <2>1. f = [i \in DOMAIN lines |-> ToModel(db, viewer, lines[i])]
    BY DEF ExportPostsToCSV, Told
  <2>2. f = [i \in 1 .. n |-> f[i]]
    BY <1>2, <2>1
  <2> HIDE DEF f, n
  <2>3. Len(f) = n
    BY <1>1, <2>2, LengthIs
  <2> QED BY <2>3 DEF f
<1>4. rows = {p \in posts(db) : db.posts[p].status \in Everything}
  <2>1. /\ EveryPost.view = "all" /\ EveryPost.tags = {} /\ EveryPost.untagged = FALSE
        /\ EveryPost.mine = FALSE /\ EveryPost.text = None
    BY DEF EveryPost
  <2>2. getViewData(EveryPost).statuses = Everything /\ getViewData(EveryPost).condition = "any"
    BY <2>1 DEF getViewData
  <2> QED BY <2>1, <2>2 DEF filteredQuery
<1>5. rows = ((((with("open") \cup with("started")) \cup with("planned"))
                 \cup with("completed")) \cup with("declined"))
  BY <1>4 DEF posts, Everything
<1>6. \A s : IsFiniteSet(with(s))
  <2> SUFFICES ASSUME NEW s PROVE IsFiniteSet(with(s))
    OBVIOUS
  <2>1. with(s) \in SUBSET PostId
    BY FoundByNumber
  <2> QED BY <2>1, IdsAssumption, FS_Subset
<1>7. \A s \in Status : countPostPerStatus(db)[s] = Cardinality(with(s))
  BY DEF countPostPerStatus
<1>8. \A s, t : s # t => with(s) \cap with(t) = {}
  OBVIOUS
<1> HIDE DEF with, rows
<1> DEFINE two == with("open") \cup with("started")
           three == two \cup with("planned")
           four == three \cup with("completed")
<1>9. two \cap with("planned") = {} /\ three \cap with("completed") = {}
      /\ four \cap with("declined") = {} /\ with("open") \cap with("started") = {}
  BY <1>8
<1>10. IsFiniteSet(two) /\ Cardinality(two) = Cardinality(with("open")) + Cardinality(with("started"))
  BY <1>6, <1>9, SizesAdd
<1> HIDE DEF two
<1>11. IsFiniteSet(three) /\ Cardinality(three) = Cardinality(two) + Cardinality(with("planned"))
  BY <1>6, <1>9, <1>10, SizesAdd
<1> HIDE DEF three
<1>12. IsFiniteSet(four) /\ Cardinality(four) = Cardinality(three) + Cardinality(with("completed"))
  BY <1>6, <1>9, <1>11, SizesAdd
<1> HIDE DEF four
<1>13. Cardinality(four \cup with("declined")) = Cardinality(four) + Cardinality(with("declined"))
  BY <1>6, <1>9, <1>12, SizesAdd
<1>14. rows = four \cup with("declined")
  BY <1>5 DEF four, three, two
<1>15. {"open", "started", "planned", "completed", "declined"} \subseteq Status
  BY DEF Status
<1> QED BY <1>3, <1>7, <1>10, <1>11, <1>12, <1>13, <1>14, <1>15

\* Lists show everything once, and the numbers beside them are theirs: the order of posts leaves
\* no ties, pages divide the places, numbers are unique (searchPosts, countPostPerStatus).
THEOREM ListsShowEverythingOnce == Spec => []ListsAgree
<1>1. ASSUME DiscussionInv PROVE ListsAgree
  <2>1. db \in Tables /\ NumbersUnique
    BY <1>1 DEF DiscussionInv, Basics, TypeOK, PostsInv
  <2>2. CountsAgree
    BY <2>1, CommentsAgree, StatusesAgree, ExportAgrees DEF CountsAgree
  <2> QED BY <2>1, <2>2, PagesDivide DEF ListsAgree
<1> QED BY DiscussionAlways, <1>1, PTL
=============================================================================
