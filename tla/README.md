# A verification project for jt_idea_notes

jt_idea_notes is an internal site for ideas and their progress: a Go server (a
fork of Fider) on PostgreSQL, with a React front end. Employees sign in with a
username and a password that an administrator gave them; posts, comments, tags
and notifications belong to one *tenant*. This directory holds TLA+ models of
the parts of the server whose correctness depends on the order in which things
happen, the TLC configurations that check them on small instances, and proofs,
checked by TLAPS, of the theorems that hold for every instance.

Everything is translated from `src/`; `PROJECT.json` maps each definition to
the lines it stands for.

## 1. The system and its components

| component | state it keeps | operations | what makes it correct |
| --- | --- | --- | --- |
| account store `sqlstore/postgres/password.go`, `user.go` | `users` (status, role, security stamp), `user_credentials` (hash, must-change flag) | read a credential, change, create, initialize, reset and restore, block, change role | each command is judged by the rows of one instant; a site never loses its last administrator |
| password handlers `handlers/password.go` | none between requests; a signed cookie at the client | sign in, change, complete a forced change, manage accounts | a verified password is still the one in force when it takes effect |
| session middleware `middlewares/user.go`, `password.go`, `auth.go`, `pkg/jwt` | the user of one request | validate a cookie, guard routes | a revoked cookie never works again; a business write commits only under a session that is valid at its commit |
| request transaction `middlewares/setup.go`, `web/context.go`, `dbx/dbx.go` | one READ COMMITTED transaction and a list of tasks per request | begin, commit, roll back, enqueue tasks after the commit | success is reported for what was committed, locks end with the request |
| operator's command `cmd/account.go`, `account_store.go` | none | bootstrap, initialize or reset an administrator from the terminal | the same rules while the web server is running |
| password hashing `pkg/passwordauth` | windows of failed attempts, slots for the expensive hash | start and finish an attempt, take and give back a slot | bounded guessing, bounded work, no slot lost |
| scheduled jobs `jobs/`, `dbx/lock.go` | an advisory lock, the last run | run at a given time on every server | one server runs a job, and its outcome is recorded |
| background tasks `pkg/worker`, `tasks/` | a queue of 100 tasks, a length counter | enqueue, run, shut down | what was committed is announced, shutdown loses nothing |
| connections `dbx/dbx.go`, `services/blob/sql` | a pool of 4 connections | one per request, a second one for a file | requests do not wait for each other in a circle |
| posts, comments, reactions, tags `sqlstore/postgres/post.go`, `comment.go`, `tag.go`, `handlers/apiv1` | rows per tenant | create, edit, answer, mark as duplicate, delete, comment, react, tag, import, search | numbers and slugs name one post; references lead to live posts; lists, counts and details agree; private tags stay private |
| attachments `services/blob`, `sqlstore/postgres/attachment.go` | blobs by key, the keys of a post or comment | upload, replace, take off | a file keeps showing what was attached |
| subscriptions, mentions, notifications `notification.go`, `tasks/` | subscribers, settings, a log of mentions, notifications | subscribe, notify, read, purge | who wants to be told is told, nobody else, and of a mention nobody the log shows as told |
| outgoing webhooks `webhook.go`, `services/webhook` | status of each webhook | create, edit, test, call, mark as failed | a call that fails holds nobody up for ever |
| tenants `tenant.go`, `middlewares/tenant.go` | a row per site | bootstrap, routing by host name, settings, custom domains | one site is bootstrapped once; a name leads to its owner |
| billing `billing.go`, `webhooks/stripe.go` | plan, customer and subscription of a site | checkout, Stripe's events | a checkout is billed once and activates its site in the end; a plan rests on a subscription of the site's own |
| migrations `dbx/migrate.go` | a version table | run the missing migrations | once each, in order, also when servers start together |

Also in the repository: tenant deletion and the OAuth configuration (no route
or command reaches them any more), the service bus, security headers, TLS
certificates, the backup, validation, markdown, logging, metrics, configuration
and the front end. Section 11 says why they are not modelled.

### How they interact

A request enters through `WebSetup`, which opens its transaction, and passes
`Tenant`, `User` and the guards of its route. `User` is where the two families
part. A *business write* takes `FOR NO KEY UPDATE` on its tenant's row before
its credential is read, and keeps it until the commit: business writes of a
tenant are serialized, and a revocation cannot come between the check and the
commit. The *password operations* compute Argon2 hashes for a large part of a
second, and must not hold the lock meanwhile: they read the credential without
a lock, compute, take the lock, and then compare what they find with what they
read. The operator's command and the other servers are further clients of the
same tables. Handlers hand tasks to the worker only after the commit; a task reads what has
become of the rows by then. Two families stay outside of the tenant lock: what
runs before there is a tenant (migrations, the operator's bootstrap), and
Stripe's events, whose handler takes the rows it writes itself.

### What is hard

Interleavings of requests with a long gap between check and use; a lock that
must end with every path through a handler, panics and vanished clients
included; a commit whose acknowledgement is lost; `database/sql` rolling a
transaction back behind the handler's back; revocation, restore and repeated
sign-in, where a row returns to earlier values. `PROJECT.json` lists the
hazards, each at its line, with the properties that would catch it.

## 2. The account model

### Modules

* `AccountRules` - rows, stamps, hashes, cookies, and the rules of the store
  as functions of them: what a command checks and what it writes.
* `PasswordAccounts` - the abstract specification. The state is the committed
  rows, the cookies ever issued and the business writes committed. Every
  operation is one action, judged by the rows of that instant.
* `PasswordRequests` - the detailed specification. Each request has a
  transaction, a place in its handler (`pc`), the credential it read (`seen`),
  the row it is about to write (`pending`) and what it answers (`response`).
  Twelve kinds of requests share the tenant lock.
* `MCPasswordRequests` - instances for TLC.
* `PasswordRequestsProofs` - the theorems and their proofs.

### From the code to the actions

| action | code |
| --- | --- |
| `Start` | `WebSetup` begins the transaction; the job is what the client asks for: any user, any password, any cookie ever issued |
| `AuthenticateLocked` | `middlewares.User` of a business write: lock the tenant, read the credential, validate |
| `ReadUser`, `ReadCredential` | `getPasswordCredential` without a lock: two statements, two snapshots |
| `PasswordReady` | the guards of the route, and the part of the handler before its first statement: purpose, role, verification of the presented password |
| `LockCredential` | the second read of `PasswordSignIn`, under the lock |
| `LockAndCommand`, `LockedCommand` | the commands of the store, with every check they make on the rows |
| `Commit` | `Context.Commit`, the response and the cookie |
| `CommitUnacknowledged` | the commit happened, its acknowledgement was lost |
| `CommitFinished` | `sql.ErrTxDone`: `Trx.Commit` reports success |
| `Refuse` | an error response; `WebSetup` ends the transaction |
| `Fail` | a failing statement or commit, a panic, the end of the process |
| `Disconnect`, `StatementFails` | the client's context is cancelled, `database/sql` rolls back while the handler still runs |

### Abstractions

* Only the tenant lock is modelled. The row locks the commands take beside it
  are taken by holders of the tenant lock only, and the operator's `FOR UPDATE`
  excludes `FOR NO KEY UPDATE` just the same. The key shares that the tasks'
  inserts take on rows of users are the subject of section 8.
* Statements executed under the tenant lock are merged with the one before
  them: all writers of these rows hold that lock, and theorem `DecisionsSurvive`
  says what the merging relies on.
* A stamp or a salt is named by the request that drew it: 64 random characters
  are never drawn twice.
* A cookie that was issued may be presented at any later time. Expiry only
  takes behaviours away. Signatures are right: nobody presents a cookie that
  was never issued.
* A hash is a pair of password and salt; verification compares the password.
* Visitors and collaborators are one role, `member`: no rule of the store tells
  them apart.
* A username stands for its user. Renaming does not exist in the program.

### Runs

| run | question | bounds |
| --- | --- | --- |
| `sessions` | may an old password or a revoked cookie take effect while sign-ins, changes and resets overlap? | 2 users, 2 passwords, 3 requests, 4 kinds |
| `linearizable` | does every pair of overlapping operations implement the atomic store, the operator's on an unusable site included? do decisions hold, does the site keep an administrator, is the inductive invariant (type correctness is its first conjunct) right? | 3 users, 2 passwords, 2 requests, all 12 kinds, three initial sites |
| `false_success` | is success only reported for what was committed? (**no**) | 2 users, 1 request |

The hazards involve at most three requests (one that checks, one that
invalidates the check, one that restores the old values), two passwords (old
and new) and three users (two administrators and a target), which is what the
bounds allow; the theorems below remove the bounds. Whether each request is
answered is asked of the model of section 3, which has the waiting that this
one leaves out.

### Theorems

All for any sets of users, passwords and requests, any mixture of kinds and any
initial table that satisfies `InitialAssumption` (rows nobody has written yet).

`InductiveInvariant` is the centre. Type correctness is not enough, because the
properties relate what a request remembers to what is committed now:

* `LockHeld` - between decision and commit a request holds the lock, and the
  holder has an open transaction. Hence nobody else writes in between, and
  `DecisionsHold`: what was checked is still true.
* `StampsAreSpent` - a stamp in a row or a cookie was drawn by a request that
  is over, so the stamp drawn by a running request is new. Hence
  `RevokedForGood`: an invalid cookie cannot be revived, since the only way to
  make it valid is to write its stamp again, or to write the row without a new
  stamp, which no command does.
* `VerifiedHashIsCurrent` - a password change verified a hash which it read in
  a separate statement; but if the row still has the stamp of the cookie, then
  nobody has written it since the cookie was issued, and the hash is current.
  This is why comparing the stamp alone is enough in `changePassword`.
* `CookiesWereIssued`, `Places` - bookkeeping of who is where.

From it: `TypeCorrect`, `DecisionsSurvive`, `PresentedPasswords`,
`RevokedForGood`, `AdministratorRemains` and `Implements`, the refinement
`Spec => PasswordAccounts!Spec`. The proof of `AdministratorRemains` shows that
the count in `checkLastPasswordAdministrator` is a second line of defence: an
actor may not touch its own account, is an administrator with a password under
the lock, and hence remains one.

### Finding

`Trx.Commit` (dbx.go:277) turns `sql.ErrTxDone` into success. If the client's
context was cancelled, the transaction has been rolled back, yet the handler
goes on as if it had committed: it enqueues the request's tasks, writes its
audit line and answers with success. `docs/admin-password-login-plan.md:113`
asks for the opposite.

## 3. What requests wait for

`RequestResources` forgets what requests do and keeps what they hold: a
connection of the pool from the first middleware on, a place in the queue and
one of the slots of `passwordauth.Limiter.Acquire`, the tenant's row lock, and
a second connection for each file in the SQL blob store.

| action | code |
| --- | --- |
| `BeginTx` | `dbx.BeginTx`, which waits for a connection |
| `Acquire`, `TakeSlot` | the two channels of `Limiter.Acquire`: the first never waits, the second does |
| `Hash` | Argon2; a sign-in keeps its slot (`defer release`), `ManagePasswordAccount` gives it back before it takes the lock |
| `lockPasswordTenant` | `SELECT ... FOR NO KEY UPDATE` on the tenant |
| `OpenFile`, `Transfer` | a file of the blob store, with a transaction of its own in `blob/sql` |
| `Finish`, `Commit`, `Return` | the handler's end, its commit, its deferred release |
| `Unwind`, `End` | error responses and panics: the deferred functions, then the rollback of `WebSetup` |
| `Cancel`, `Aborted`, `Fail` | the client goes away; waits that watch the context end; a statement fails |

`Ownership` says that no connection, slot, place or lock outlives what it is
held for, and `NoCircularWait` that somebody who is served can always go on.
Both are proved for any number of requests and any sizes: `NoDeadlock` without
the SQL blob store, `NoDeadlockWithSpareConnection` with it, if requests are
fewer than connections. The argument is an order: connection, queue place,
slot, lock, and nobody who has the lock waits for anything of the first three.
The second connection of a file breaks the order.

| run | question | bounds |
| --- | --- | --- |
| `resources` | do three requests that share a slot, two places in the queue and a lock ever wait in a circle, is each answered (or its client gone), does anything outlive its owner? | 3 requests of 4 kinds, 4 connections, 1 slot, 2 places, files in the database |
| `resources_upload` | does an upload wait for connections of those who wait for it? (**yes**) | 5 requests on the default pool of 4 |

Contention needs more requests than slots or locks, which the bounds give with
one to spare; `resources` has one connection more than there are requests,
the least that excludes the circle of `resources_upload`. Fairness (`FairSpec`): a step of a
request that stays possible is taken at some time: the scheduler runs every
goroutine, the database every session. Weak fairness is enough because requests
are finitely many, so nobody is overtaken for ever. Nothing is assumed of
clients and failures. `RequestsAnswered` is model-checked only;
liveness is out of the prover's reach.

**Finding** (`resources_upload`). `BLOB_STORAGE=sql` with the default of four
connections: one upload that holds the tenant's lock waits for a second
connection, three business writes have the others and wait for the lock.
Neither wait has a timeout.

## 4. The windows of attempts

`AttemptLimiter` is `passwordauth.Limiter.Start` and the closure it returns.
The table maps accounts and addresses to windows; an attempt in flight keeps a
pointer to the window of its account, and code that drops, sweeps or replaces
windows could leave it with one nobody looks at; so windows are objects of
their own. The mutex
makes `Start` and the closure one action each (`Start`, `Finish`); `Tick` is
the clock, relative: a window knows how long it has left.

The history `failures` says of each account how many of its failures are
younger than an age, for every age up to a window's length, so that a stretch of time can
be asked about that begins anywhere.

`BudgetKept` is two facts: every attempt in flight is counted by the window it
will report to, and that window is still the table's (`PlacesReserved`); and
failures and attempts in flight never exceed the limit of a window
(`WithinBudget`). `FailuresBounded`: an account sees at most twice its limit
of failures within a window's length. `LockoutEnds`: who is refused by a full
window is not refused for ever; what a full table refuses (`t1[ip] = None` in
`Start`) is not part of it. Run `limiter_budget` checks the three with 2
accounts, 1 address, 2 attempts in flight, a limit of 2, 3 ticks and a table
for 2 keys.

Two attempts in flight on a limit of two are enough for one to fill the budget
the other counts on; a table for two keys is full with an account and its
address. Fairness: the clock goes on and attempts end (`hash` takes bounded
time). `Window` is a bound too: five places of memory are enough for a full
table and the new windows of one `Start`.

`AttemptLimiterProofs` proves `LimiterTypes`, `BudgetIsKept` and
`FailuresAreBounded` for any accounts, addresses, attempts, limits, capacity
and length of a window. The inductive invariant `LimiterInv` is `TypeOK`,
`PlacesReserved`, `WithinBudget` (the two parts of `BudgetKept`) and two more:

* `Finite` - entries and attempts in flight are finitely many, without which
  counting them would say nothing.
* `Remembered` - what the failures of the past have to do with the window of
  today: failures since the window was made are counted in it, failures before
  it were at most the limit, and an account without a window has at most the
  limit. Windows do not slide, so twice the limit is all that follows, and is reached.

`BudgetKept` alone is not inductive for `FailuresBounded`: a window may go while
its failures are still recent, and only `Remembered` says how many those were.

## 5. Background tasks

`TaskService` states what handlers are promised: an accepted task is attempted
once, and the server does not end cleanly before all were. It may lose tasks
when it dies; the queue is in memory. `BackgroundTasks` is the machinery.

| action | code |
| --- | --- |
| `Handle`, `Commit`, `Rollback` | `Context.Enqueue` collects tasks, `Context.Commit` hands them over after the transaction's commit, a rollback drops them |
| `Count`, `Send` | `BackgroundWorker.Enqueue`: the counter under its mutex, then the channel, which may be full |
| `Take`, `BeginTask`, `RunTask`, `Discount` | the loop of `Run` around `WorkerSetup` |
| `BeginFails` | no transaction: the task is dropped and discounted |
| `Signal`, `WebShutdown`, `WorkerShutdown`, `Die` | `listenSignals` and `Engine.Stop` with its thirty seconds |

A request asks for at most one task, as all six callers of `Enqueue` do
(`handlers/apiv1/post.go`); the task is named by its request. Failure and
success of a task are one action: it is not tried again in either case.

The inductive invariant of `BackgroundTasksProofs` is `Counter` (the counter is
exactly what is on its way, queued or taken), `TasksRunOnce` (a task is in one
place) and `Places` (who is where, while requests, workers and the server
proceed); the theorems are `TaskTypes`, `CounterExact`, `AttemptedOnce`,
`CleanStop`, `TasksAreKept` (the last two of these together, as the run states
them in `TasksKept`) and the refinement `TasksImplement`. Run `tasks` checks
them and `TasksAttempted` with 4 requests,
2 workers, a queue of 1 and a pool of 1, so that the queue is full and the only
connection contended; `TasksAttempted` (model-checked only) is the deadlock
question: a handler that waits for the queue has given its connection back
already, so workers get one. Fairness: handlers and workers that are not
blocked go on.

## 6. Scheduled jobs

`ScheduledJobs` is `fiderJob.Run` with the purge of notifications, the only
job, on several servers. A run has its own transaction with the advisory lock;
the purge and the record of the outcome use further connections. The clock is
one assumption: when the second after a tick is over (`SecondOver`), every
server has tried the lock for it. Everything that may fail is an action of
`Failing`, bounded together by `MaxFailures`; a crash of a server ends its
transactions. A server that is down at a tick is one whose run is
`NotStarted`. Requests that share the pool are left out.

`HandlersNeverOverlap` and `SuccessIsTrue` are proved (`OneHandler`,
`SuccessRecorded`) from an invariant with two facts: between the lock and the
commit a run has an open transaction, and between handler and commit that
transaction has the lock. `RunsEnd` is model-checked only; it is stated with
the pool that the lost connection of one failed purge
(`notification.go:24-27`) still leaves. Run `jobs` (2 servers, 2 ticks so that
a run may overlap the next on its server, 1 failure, 3 connections).

## 7. The discussion of a site

### Modules

* `DiscussionStore` - the tables of posts, comments, reactions, tags, files and
  subscriptions of one tenant in a record, and the store's commands and
  single-row queries as functions on it.
* `DiscussionSearch` - what lists show: views, filters, order and pages of the
  search, similar posts, the CSV export, the feeds.
* `Attachments` - how an upload's files become blobs and rows.
* `Discussion` - one action per handler, with its lookups, authorisation,
  validation and commands.
* `MCDiscussion` - the instance.
* `DiscussionProofs` - the theorems and their proofs.

Every write holds the tenant's row (section 2), hence a handler is one action
on the committed rows; the unique indexes appear as guards, since running into
one is a failed statement and a rollback. Blobs are not part of the transaction:
`FailAfterUpload` leaves them behind. Texts are model values with a slug and
words; two of the three in the run have the same slug. The loops of the code over files
and imported tags are stated by their outcome: the keys a sequence of uploads
may get (`uploadImages`), the rows that are left after files were deleted and
inserted in turn (`setAttachments`), the tags an import creates (`created`) and
when it is aborted (`aborts`). Before a file is stored under the key its request
names, that key is looked up, and any error of the lookup counts as no blob
(`attachment.go:104-108`): uploads choose which lookups fail (`failing`), and an
upload behind one replaces what is there, as all blob stores do. The history
`unchecked` keeps the keys that may have happened to. Ranks of a text search
are left open: any order of the matches is possible that the query's own
`ORDER BY` does not exclude, and a property of lists is checked for all of them.

| action | code |
| --- | --- |
| `CreatePost`, `UpdatePost`, `SetResponse`, `DeletePost` | `handlers/apiv1/post.go` with the actions of `actions/post.go` |
| `PostComment`, `UpdateComment`, `DeleteComment`, `ToggleReaction` | the same, for comments |
| `Subscribe`, `Unsubscribe`, `AssignTag`, `UnassignTag`, `CreateTag`, `EditTag`, `DeleteTag` | `apiv1/post.go`, `apiv1/tag.go` |
| `ImportTags` | `handlers/tag_import_export.go`: the first colliding slug aborts PostgreSQL's transaction, and with it all later inserts |
| `HourPasses` | the hour in which authors may edit their posts ends |
| `FailAfterUpload` | a statement or the commit fails when the files are stored |

### Properties

* `IndexesForeseen` - a number or slug is never used twice among what it must
  be unique in, *and* validation turns away whatever would run into an index
  (a `500` instead of an explanation). Validation and index look at different
  sets (deleted posts, other slugs of equal names), which is what can go wrong.
* `OriginalsLive` - a post is a duplicate exactly if it refers to another, live
  post. It takes `DeletePost` and `SetResponse` together: deleting is refused
  while duplicates refer to a post, and every other answer drops the reference.
* `PrivateTagsHidden` - non-interference: whatever a visitor sees of searches,
  similar posts, details, tags and feeds is what it would be in a database without private tags.
* `ListsAgree` - turning pages shows everything once, whatever the database does
  with ties (`PagesPartition`); the numbers beside posts and statuses, the
  export, and looking up a comment by its id agree with the lists
  (`CountsAgree`).
* `FilesKeepContent` - an attached file is never lost, and what it shows does not
  change, by whatever uploads, keys of other files, other folders, or rolled back
  requests; except by an upload that names its key and whose lookup failed. So
  every change of an attached file's content goes back to a failed lookup, and
  none reaches another folder. Section 10 lists the exception.
* `DeletedIsFinal` - nothing happens to a deleted post, its subscribers, tags
  and files any more, except that time passes.

Run `discussion`: a visitor and an administrator, 2 posts, 2 comments, 2 tags,
3 texts, a page of one post and a feed of two. A behaviour is about one of eight
groups of operations (`Scopes`): those that share rows are together in one
group, and posts and comments with files are cut to one of each, with edits of
posts in one group and of comments in the other. Any lookups of an upload may
fail; 154,000 states. Two posts are
what a number, slug, original or page can be confused between; a third would
only be one more of the same.

### Theorems

For any members, posts, comments, tags, texts, slugs, files and starting
scopes. Assumptions are those of the modules: ids are numbers, of which there
are finitely many for posts and comments, `None` is none of the values it
stands beside, and scopes bring sequences of files.

The proof of each operation comes first and is independent of the invariants: one
lemma per action (`CreatePostDoes`, `ImportTagsDoes`, ...) takes it down to its
`Effect` on the tables - posts are added, edited, answered, aged or left alone
(`PostsEffect`); blobs are added, never taken away and replaced only under keys
that join `unchecked`, and new rows of files show what their blob holds
(`FilesEffect`, from `KeysAreFree` and `StoredBeside`); only tags that exist are assigned, only to live
posts, and a tag that goes is on no post (`TagsEffect`); deleted posts get no
comments and no followers. The inductive invariant `DiscussionInv` then looks
at effects only:

* `TypeOK` with `TagSlugsUnique`: an edit or an import writes over a tag only if
  it is the one that was named.
* `NumbersUnique`, `SlugsUnique`, `OriginalsLive` (`PostsInv`). Numbers are kept
  apart because `nextNumber` looks at deleted posts too. `OriginalsLive` is
  inductive as it stands: an answer drops or sets the reference with the
  status, and a post that is referred to is not deleted.
* `AssignedTagsExist`: what is on a post is a tag.
* `FilesKeepContent`.

From it: `DiscussionTypes`, `IndexesNeverHit` (validation finds exactly the row
the index would refuse, since at most one has the slug), `OriginalsCanBeRead`,
`FilesShowWhatTheyShowed`, the action property `DeletedForGood`, and
`PrivateTagsAreHidden`. The last one is a property of the queries: on any tables
in which assigned tags exist, each query gives a visitor the same on the tables
without private tags, one lemma per layer (`SameTags`, `SameModel`,
`SameSearch`, `SameLists`, `SameCategories`). The parts of `DiscussionInv` that the run does
not list were checked on its instance before they were proved.

`ListsShowEverythingOnce` states `ListsAgree`. From the invariant it needs only
that numbers are unique; the rest is what the queries do on any tables, for any
number of posts and size of a page:

* A finite set that is strictly ordered can be listed in order
  (`ListedInOrder`: each element's place is given by the number of those before
  it; places differ, so that none is left over) and in no other way
  (`ListedOneWay`: two listings would differ at a first place).
* `precedes` is such an order (`PostsOrdered`), because ids decide between posts
  with as many comments. So the database has one answer (`OneListing`) where
  `orderBy` allows any that contradicts no comparison. Without the ids it has
  several, of which consecutive pages may come from different ones: that is the
  mutant.
* Every place of the listing is on one page and on no two (`PlacesDivided`), and
  a page shows what is at its places (`PageShows`).
* Comments of a post are listed without ties, each once (`NewestListed`), so
  that their number is the one beside the post (`CommentsAgree`); a status
  counts the posts that a search for it finds (`StatusesAgree`); the export has
  the five statuses' posts, which share none (`ExportAgrees`).

For these proofs, `newestFirst` says which listing it is instead of sorting one, and
the sum beside the export is written out instead of folded.

## 8. Who is told

`Notifications` takes the handlers of `Discussion` as `D!CreatePost` and so on,
and adds what comes after their commit. A task (`tasks/*.go`) runs in its own
READ COMMITTED transaction, one action per statement, while requests go on: it
reads the subscribers with their names, reads the log of mentions once, inserts
a notification per user, and calls webhooks. What is left of a loop is a set of
places (`left`): the position of a name in the text and a user, or a webhook;
the least of them is next.

| action | code |
| --- | --- |
| `BeginRequest`, `LockForUpdate` | the middleware, and the rows of users (`FOR UPDATE`) and webhooks a request locks, in its order |
| `PostRequest`, `AccountRequest`, `ReadRequest`, `WebhookRequest` | the handlers, at their commit; posts hand over the task of `NotifyAbout...` |
| `TestFails` | a failing test of a webhook marks it in the same request |
| `ReadUsers`, `ReadLog` | `getActiveSubscribers`, which also reads the names that are compared with the mentions; `getMentionsNotifications` |
| `LockRow`, `Tell` | the key shares of an insert's foreign keys, the insert of notification and log |
| `ListWebhooks`, `triggerWebhook`, `MarkFailed` | `services/webhook` |
| `CommitTask`, `AbortTask`, `RollbackRequest`, `DeadlockVictim` | the ends of transactions |

`ToldAsWished` compares the committed notifications with what the pages of
each user said while the task ran (`wish`, a history variable): who wanted to
be told all the time is told, who never did is not, who acts is not
(`ToldIffWanted`); and nobody is told of a mention whom the notifications
showed as told of it when the task read the log (`NoRepeatedMention`). That is
not to say once: two tasks of one text that overlap may both tell (section 10),
and the run has both. The
statement that finds users, the page of settings and the subscription shown
with a post are three pieces of code.

`WaitsEnd`: every request and every task ends. Requests lock users in an order
of their own (`rowsToLock`) and tasks in another, so circles of waits exist;
PostgreSQL breaks them.

| run | bounds |
| --- | --- |
| `told` | 3 users of the three roles, two with one name, 1 post, 2 comments, 1 task beside everything that changes whom it tells (a name and a setting at once among it), 2 tasks of one text; 1.6 million states |
| `waits` | 2 administrators, a visitor, 1 task, 1 webhook, users blocked and restored, webhooks edited and tested meanwhile |

Fairness (`FairSpec`): requests and workers that can go on do; a call of a
webhook ends because the HTTP client gives up after thirty seconds
(`httpclient.go:15-16`); who waits for a row is queued by PostgreSQL (strong
fairness of the lock steps), which also looks for circles. Accounts appear only
with status, name, role and settings; the rules on them are those of section 2.

### Theorems

`NotificationsProofs` proves the types (`TypesHold`) and `ToldAsWished`
(`ToldAsWanted`) for any members, posts, comments, texts, names, webhooks and
number of tasks. `StartsAssumption` is what they take from the starting points:
tables, accounts and webhooks of their types.

Neither is inductive: at the commit everything depends on what each statement
saw at another time. `NotificationsInv` therefore says of every running task

* `InOrder`: each part of its script comes once, and its loop is over users, or
  over webhooks where it calls them;
* `Watched`: who always wanted to be told wants it now, and who wants it now is
  among those who ever did. With `FoundAreWanting` - the statement that finds
  the readers and the pages that show who wants to be told agree - this holds
  of what a statement finds;
* `KeepsPromise`: whom it has told wanted it at some time (`Promised`); in a
  loop (`InLoop`) those who are left and those who are told are all who always
  wanted, and of a mention those who know; behind a part's loop, those who are
  told are. Others may change settings, roles and names meanwhile: that only
  adds to those who ever wanted and takes from those who always did
  (`PromiseStays`), and who knows of a mention goes on knowing (`KnownGrows`);
* `LogsRows` and `NotAgain`: it logs the mentions it tells of and those of
  whoever acts, and tells of no mention before it has read the log;

and of what is committed `LogAgrees`: notifications belong to committed tasks,
those of mentions are in the log, and who is in the log was told or acted. That
is why somebody the log leaves out is known to know. One lemma per statement
moves a task (`ReadUsersMoves`, `ReadLogMoves`, `LockRowMoves`, `TellMoves`,
`WebhooksMove`), `CommitKeeps` ends one, and `RequestKeeps` covers the requests,
whose handlers leave tables of the same types and hand at most one fresh task
over (`HandledLeaves`). The parts of the invariant were checked on the instances
of both runs before they were proved. Proving it corrected the model: an earlier
one took the names from the moment the log is read, and so told somebody of a
mention who had switched that off before taking the name; the code reads names
and settings in one statement and does not.

## 9. A site's life

`Site` composes three modules on one database.

* `SchemaMigrations` - `fider migrate` on several servers at once. Nothing keeps
  them apart but the primary key of the history.
* `Tenants` - the operator's bootstrap under its advisory lock, which row a host
  name leads to, and administrators' requests, statement by statement, on
  tenants that share the unique index of custom domains.
* `StripeBilling` - checkouts, the portal, and Stripe's events. Stripe is
  external: it sends an event until it is answered, possibly twice and late,
  answers a known idempotency key as before, and ends subscriptions by itself.
  A subscription begins active, as a trial or with a failed payment (`Status`),
  also one of a session of the older kind.
  The handler of `webhooks/stripe.go` calls Stripe in the middle of its
  transaction; its answer is fixed before `WebSetup` commits, so a commit can
  fail behind an answer (`CommitFails`).

| property | what it says |
| --- | --- |
| `MigrationsApplied` | a file is applied at most once and in order, and a server serves only with all files of its image |
| `BootstrapFindingHolds` | what the operator's command found under its lock - no site - is true until it writes |
| `RoutedToOwner` | a name under the site's domain leads to that subdomain's tenant, a custom domain to the one who set it, unless it contains the site's domain in the middle |
| `OneSubscriptionPerCheckout` | however often and at the same time an event is delivered, one subscription, as long as Stripe knows the key |
| `ProIsBacked` | a site is pro only with a subscription of that very site, or Paddle's; one of the present kind of session began active or as a trial, never with a failed payment |
| `CheckoutSettled` | a completed checkout activates its site, unless its payment or a commit after the answer failed |

Run `site` starts from eight deployments: two releases on a new database with
two operators, an upgrade, a database from before the history; two sites and
six host names (among them one that contains the site's domain in the middle),
a locked site that pays, one from the previous provider, two that pay, and one
whose settings change meanwhile; all statuses a subscription may begin with occur
where one site pays, and those that matter to the order where two do. 461,000
states. Each is about one or two of the modules; all
share one instance of 3 servers, 3 files, 2 tenants, 2 operators, 2
administrators, 2 sessions, 2 handlers and at most 2 deliveries of an event.
Two of everything that can collide; a third server is what meets a failed and
a finished one at once. Images are assumed to grow at the end (`Later`): see
section 10. Fairness: handlers go on, Stripe delivers what is not answered, an
administrator's request ends, and PostgreSQL queues those who wait for a row
(strong fairness of the handlers' steps).

`SiteProofs` proves all of these but `CheckoutSettled`, for any servers, files,
operators, sites, administrators, host names, sessions and handlers.
`ScopesAssumption` is all they take from the starting points: what is applied
was applied in order, an image that has more has it at the end, the tenants are
rows, their names are apart where there are several, and who has a paid plan at
the start has it from the provider before Stripe.

* `AppliedOnceInOrder`. `MigrationInv` says, besides the types, that what is
  applied is in order (`AppliedInOrder`) and closed - everything in any image
  before an applied file is applied (`Closed`); that what the history
  does not record is older than all it does (`Recorded`); and how far each process is
  (`Progress`): what its image has up to its last version is applied, and one
  that is about to commit is alone with a file that nobody has recorded. The
  primary key gives the last part, and it gives order: a file before the one
  that is committed would be in the history.
* `OneBootstrap`. `BootstrapInv` adds mutual exclusion of the advisory lock and
  `SingleSite`: where the command runs nothing is billed, and a request that
  changes settings is one of a site that exists, so none can bring one about.
* `BilledOnce`. `CheckoutInv` says where a subscription comes from
  (`Foreseen`): that of a session that was set up is the first of its session
  and remembered under its key; one of the older kind came with the completion.
  So a key that Stripe does not know has no subscription yet, and the number
  the new one gets is one.
* `SiteTypes`. `SiteInv` says, besides the types, who has a row (`Held`) and
  what a request that has it read before is still so (`Holding`): an
  administrator's request writes the whole of what it read, and the plan and
  subdomain in it are those of the row, because nobody else may write it
  meanwhile. An event that is handled belongs to a site that exists
  (`Handling`).
* `NamesLeadHome`. `RouteInv` says that subdomains and custom domains differ
  (`NamesApart`) and that so do those about to be committed (`Writing`): of two
  requests that claim one name, both of which found it available, only one
  passes the unique index. The query takes the least of what it finds in the
  order of the database; where names are apart that is the owner.
* `PlansAreBacked`. `BackedInv` follows the subscriptions: what Stripe answered is
  so (`AnswersTrue`), a completed session of the older kind has its subscription
  (`OlderSubscribed`), events tell of what happened (`EventsTrue`), a handler that
  is about to write has a subscription of its own site that did not begin
  with a failed payment, if its session is of the present kind (`Earned`), and
  rows show the same (`Plan`).

## 10. Known divergences

What the models show or leave aside beside the two findings. Each is either
intended, harmless in itself, or promised by nothing in the repository; the
properties are stated so that they hold with them.

* Attempt windows do not slide (`limiter.go:49`): an account sees up to twice the
  limit around the end of one window, where
  `docs/admin-password-login-plan.md:156` has ten in fifteen minutes.
* A job runs once per server within a second: the lock is given back with the
  commit (`job.go:92`), before the wait that `job.go:54` describes.
* The feed of a post's comments sorts them newest first and keeps the end of the
  list, the oldest thirty (`feed.go:245`).
* An edit of a comment may leave it with more files than the two a new comment
  may have: only the files of the request are counted (`actions/post.go:353-368`).
* A comment can be edited under the number of any post
  (`apiv1/post.go:389`); files added that way belong to the other post, and are
  listed with neither. A comment of a deleted post is still found by its id.
* One colliding slug aborts a whole import of tags, because PostgreSQL's
  transaction is aborted while the handler goes on counting
  (`tag_import_export.go:102`).
* A user whose name a text mentions twice is told twice by the same task: the
  log is read once, before the loop (`new_comment.go:61,76`). So is one whom two
  tasks of one text tell - of a post or comment edited twice in a short time -
  that both read the log before either has committed.
* An upload may replace the file of somebody else. `uploadImage` asks whether the
  key it was given is in use, "to prevent overwriting" (`attachment.go:104`), but
  takes every error of the lookup for "no": a transaction that cannot begin
  (`blob/sql/sql.go:91`), a file that cannot be read (`blob/fs/fs.go:89`), an
  answer of S3 other than 404 (`blob/s3/s3.go:122`). `StoreBlob` then replaces
  what is there (`sql.go:130`, `ON CONFLICT DO UPDATE`). `FilesKeepContent`
  without its exception is violated by two actions of run `discussion`: a post
  with a file, and an upload that names its key and whose lookup fails.
* Requests lock the rows of users in different orders (`password.go:124` sorts,
  the middleware has locked the actor before), tasks in a third: circles are
  broken by PostgreSQL, and a task it chooses is not tried again.
* A subscription that ends takes the plan from its site whichever subscription
  the site pays by (`stripe.go:205`); a checkout's event delivered after the end
  brings it back; an end that overtakes the activation leaves a subscription
  without a plan. A subscription whose first payment is incomplete and succeeds
  later activates nothing, and every checkout makes a customer of its own, of
  whom the portal shows the last.
* A site may be pro although nothing was paid. `stripe.go:160` activates on a
  trial too, where the comment above it (`stripe.go:143`) speaks of a
  payment that was collected; and sessions of the older kind
  (`stripe.go:59-85`) activate without a look at the status of their subscription.
  `ProIsBacked` says what the code does ensure, with both in the model.
* Stripe is taken to know an idempotency key for ever. It may forget one after a
  day and deliver an event for longer; a delivery that late would make a second
  subscription, and `OneSubscriptionPerCheckout` says nothing of it.
* An activation is lost if the commit fails after the answer (`setup.go:150`).
* A logo saved while another request of the same tenant saves one is
  overwritten by the value read before the lock (`actions/tenant.go:43`).
* A migration that a later release inserts before one that was applied is
  skipped for ever (`migrate.go:68`): releases must add files at the end.
* `env.Subdomain` finds the site's domain anywhere in a host name
  (`env.go:254`), so a custom domain that contains it may lead to the tenant of
  what stands before it.

## 11. What is proved, checked, and not modelled

**Proved** for every value of the constants, each theorem listed in
`PROJECT.json` with its property: sections 2 (accounts), 3 (resources, for both
blob stores), 4 (windows), 5 (tasks), 6 (jobs), 7 (the discussion), 8 (who is
told) and 9 (a site's life): every invariant the passing runs check, and every
property of steps. Assumptions are the named ones of each module and nothing
else. The library's induction theorems cannot be used by the installed provers;
where a proof needs induction over numbers (a set of numbers has a least one, a
finite one a greatest), it takes a minimal counterexample from the
well-foundedness of `<` (`NatHasLeast`).

**Only model-checked**: all liveness (`RequestsAnswered`, `LockoutEnds`,
`TasksAttempted`, `RunsEnd`, `WaitsEnd`, `CheckoutSettled`) - fairness and
`ENABLED` are out of the prover's reach.

**Not modelled**: tenant deletion and OAuth (no route, job or command reaches
their commands any more); the service bus (a call through it is a procedure
call); security headers and cookies of one response; TLS certificates
(autocert's protocol); the backup (a read of every table); validation of
formats, markdown and locales (functions of one input); logging, metrics and
configuration (no decision reads them, but for the constants the modules name);
the front end (its requests are the inputs). Of modelled components: e-mail and
avatar of a profile, colours of tags, templates and URLs of webhooks, Argon2
itself, Stripe's and S3's own protocols.

## 12. Plan

Done, in this order: accounts, the waiting of requests, attempt windows,
background tasks, jobs, the discussion with its search and files,
notifications and webhooks, migrations, tenants and billing; then the proofs of
each. Nothing of it is left that the provers can reach.

Runs are kept to one per question; where a new module's run answers an older
one's question as well, the older is dropped.
