---------------------------- MODULE Notifications ----------------------------
(***************************************************************************)
(* Who is told of what happens on a site.  A request hands a task over at  *)
(* its commit (see BackgroundTasks); tasks run beside the requests, each   *)
(* in a READ COMMITTED transaction of its own, statement by statement.     *)
(*                                                                         *)
(* Requests that write come one at a time (see PasswordRequests) and lock  *)
(* the rows of some users FOR UPDATE.  A row inserted by a task refers to  *)
(* users: PostgreSQL locks theirs FOR KEY SHARE until the task is over,    *)
(* which excludes FOR UPDATE.  A webhook is locked by whoever updates it.  *)
(***************************************************************************)
EXTENDS Attachments, DiscussionSearch, Relation

CONSTANTS
  Anyone, TagsOnCreation, Searches,       \* of Discussion
  Scopes,               \* bound: what behaviours are about, and start from
  Hook,                 \* ids of webhooks
  Name,                 \* names of users; several may have the same
  Responses,            \* bound: the responses given
  Changeable,           \* bound: the events whose setting is changed
  MaxTasks              \* bound

Event == {"new_post", "new_comment", "mention", "change_status"}
Setting == [Event -> {"on", "off", None}]
Account == [active : BOOLEAN, name : Name, setting : Setting]

WebhookType == {"new_post", "new_comment", "change_status", "delete_post"}
Webhook == [type : WebhookType, status : {"enabled", "disabled", "failed"}]

\* The requests that write, without those that are modelled elsewhere.
OnUser == {"BlockUser", "RestoreUser", "ChangeUserRole"}
OnWebhook == {"UpdateWebhook", "DeleteWebhook", "TestWebhook"}
OnPost == {"CreatePost", "UpdatePost", "SetResponse", "DeletePost", "PostComment", "UpdateComment",
           "Subscribe", "Unsubscribe"}
OwnRows == {"UpdateUserNotifications", "UpdateUserProfile", "ReadNotification",
            "ReadAllNotifications"}
Operations == OnUser \cup OnWebhook \cup {"CreateWebhook"} \cup OnPost \cup OwnRows

ASSUME RowsAssumption == User \subseteq Nat /\ Hook \subseteq Nat /\ User \cap Hook = {}
ASSUME NoneIsNoHook == None \notin Hook \cup Webhook /\ None # "on"
ASSUME BoundsAssumption ==
  MaxTasks \in Nat /\ Responses \subseteq LiveStatus /\ Changeable \subseteq Event
ASSUME StartsAssumption ==
  \A s \in Scopes : /\ s.site \in Tables /\ s.accounts \in [User -> Account]
                    /\ s.hooks \in [Hook -> Webhook \cup {None}]
                    /\ s.operations \subseteq Operations /\ s.mentions \subseteq Seq(Name)
                    /\ s.tasks \in 0 .. MaxTasks /\ s.posts \in 0 .. Cardinality(PostId)
                    /\ s.comments \in 0 .. Cardinality(CommentId)

VARIABLES
  db, blobs, scope,     \* of Discussion
  account,              \* of each user: active, name and settings
  hooks,                \* the webhooks
  notifications,        \* the committed rows, in a sequence
  mentioned,            \* mention_notifications: <<user, post, comment>>
  writer,               \* the request that has the tenant's row, or None
  tasks,                \* in the order of their requests
  wish                  \* of each task: who wanted to be told since it was handed over

\* The requests of this module bring no files, so no lookup of a key fails.
D == INSTANCE Discussion WITH unchecked <- {}

vars == <<db, blobs, scope, account, hooks, notifications, mentioned, writer, tasks, wish>>
discussionVars == <<db, blobs, scope>>

(***************************************************************************)
(* Events, settings and subscriptions.                                     *)
(***************************************************************************)
DefaultEnabledUserRoles ==
  [e \in Event |-> IF e = "change_status" THEN Role ELSE {"administrator", "collaborator"}]
RequiresSubscriptionUserRoles ==
  [e \in Event |-> IF e \in {"new_comment", "change_status"} THEN {"visitor"} ELSE {}]

\* The statement joins users, settings and, for some events, subscriptions.
toldOf(u, e) ==
  \/ account[u].setting[e] = "on"
  \/ account[u].setting[e] = None /\ db.role[u] \in DefaultEnabledUserRoles[e]

\* Mutation of subscribed: those without a row are subscribed.
subscribedByDefault(u, p, e) == db.subscribers[p][u] \in {"active", None}

subscribed(u, p, e) ==
  \/ db.subscribers[p][u] = "active"
  \/ db.subscribers[p][u] = None /\ db.role[u] \notin RequiresSubscriptionUserRoles[e]

getActiveSubscribers(p, e) ==
  {u \in User : /\ account[u].active
                /\ RequiresSubscriptionUserRoles[e] # {} => subscribed(u, p, e)
                /\ toldOf(u, e)}

\* What the page of settings shows to its user.
getCurrentUserSettings(u) ==
  [e \in Event |-> IF account[u].setting[e] # None THEN account[u].setting[e]
                   ELSE IF db.role[u] \in DefaultEnabledUserRoles[e] THEN "on" ELSE "off"]

(***************************************************************************)
(* Tasks.                                                                  *)
(***************************************************************************)
Notice == [to : User, by : User, event : Event, post : PostId, comment : CommentId \cup {None},
           task : 1 .. MaxTasks, read : BOOLEAN]
Mentioned == User \X (PostId \cup {None}) \X (CommentId \cup {None})

\* script is what is left to do.  Of its head either the query comes next, that
\* of the log, or each of those who are left: the user or hook at a place of the
\* loops, of which one may have failed to answer.
Task ==
  [state : {"running", "committed", "aborted"},
   event : Event \ {"mention"}, type : WebhookType,
   by : User, post : PostId, comment : CommentId \cup {None}, mentions : Seq(Name),
   script : Seq({"notify", "mention", "webhook"}),
   step : {"query", "log", "each", "failed"},
   left : SUBSET (Nat \X (User \cup Hook)),
   told : SUBSET User,                    \* whom the table showed as told, at that time
   rows : Seq(Notice), logs : SUBSET Mentioned,
   failed : SUBSET Hook,
   held : SUBSET (User \cup Hook)]

running == {t \in DOMAIN tasks : tasks[t].state = "running"}

\* Tells of an event, then of mentions, then calls, in the order of the script.
newTask(event, type, by, p, c, mentions, script) ==
  [state |-> "running", event |-> event, type |-> type, by |-> by, post |-> p, comment |-> c,
   mentions |-> mentions, script |-> script, step |-> "query", left |-> {},
   told |-> {}, rows |-> << >>, logs |-> {}, failed |-> {}, held |-> {}]

\* Without mentions nobody is told of them: those of a post are not looked for,
\* those of a comment in vain.
created(mentions) ==
  IF mentions = << >> THEN <<"notify", "webhook">> ELSE <<"notify", "mention", "webhook">>
updated(mentions) == IF mentions = << >> THEN << >> ELSE <<"mention">>

NotifyAboutNewPost(by, p, mentions) ==
  newTask("new_post", "new_post", by, p, None, mentions, created(mentions))
NotifyAboutUpdatedPost(by, p, mentions) ==
  newTask("new_post", "new_post", by, p, None, mentions, updated(mentions))
NotifyAboutNewComment(by, p, c, mentions) ==
  newTask("new_comment", "new_comment", by, p, c, mentions, created(mentions))
NotifyAboutUpdatedComment(by, p, c, mentions) ==
  newTask("new_comment", "new_comment", by, p, c, mentions, updated(mentions))
NotifyAboutStatusChange(by, p, before, now) ==
  newTask("change_status", "change_status", by, p, None, << >>,
          IF before = now THEN << >> ELSE <<"notify", "webhook">>)
NotifyAboutDeletedPost(by, p, text) ==
  newTask("change_status", "delete_post", by, p, None, << >>,
          IF text THEN <<"webhook", "notify">> ELSE <<"webhook">>)

Enqueue(task) ==
  /\ Len(tasks) < scope.tasks                                             \* bound
  /\ tasks' = Append(tasks, task)

at(t, part) == tasks[t].script # << >> /\ Head(tasks[t].script) = part
eventOf(t) == IF at(t, "mention") THEN "mention" ELSE tasks[t].event

\* The loop over what is left, or, without any, the next part.
goOn(task, left) ==
  IF left = {} THEN [task EXCEPT !.script = Tail(@), !.step = "query", !.left = {}]
  ELSE [task EXCEPT !.step = "each", !.left = left]

\* The places of a user in the loops over the names of a text; the names come
\* with the users, whatever they change to.
namedIn(t, u) == {i \in DOMAIN tasks[t].mentions : tasks[t].mentions[i] = account[u].name}

ReadUsers(t) ==
  /\ tasks[t].step = "query"
  /\ LET found == getActiveSubscribers(tasks[t].post, eventOf(t))
     IN \/ /\ at(t, "notify")
           /\ tasks' = [tasks EXCEPT ![t] = goOn(@, {1} \X (found \ {tasks[t].by}))]
        \/ /\ at(t, "mention")
           /\ tasks' = [tasks EXCEPT ![t] = [@ EXCEPT
                !.left = {place \in (DOMAIN tasks[t].mentions) \X found : place[1] \in namedIn(t, place[2])},
                !.step = "log"]]
  /\ UNCHANGED <<notifications, mentioned, hooks>>

\* The log of the text's mentions is read once, before the loop over the names.
getMentionsNotifications(p, c) == {m[1] : m \in {x \in mentioned : x[2] = p /\ x[3] = c}}

\* The post of a text, None for a comment: of a task or of a notification.
textPost(x) == IF x.comment = None THEN x.post ELSE None
sameText(x, t) == x.comment = tasks[t].comment /\ textPost(x) = textPost(tasks[t])

\* Whom the notifications show as told of a mention in the text of a task.
toldOfText(t) ==
  {notifications[i].to : i \in {j \in DOMAIN notifications :
     notifications[j].event = "mention" /\ sameText(notifications[j], t)}}

ReadLog(t) ==
  /\ at(t, "mention") /\ tasks[t].step = "log"
  /\ LET log == getMentionsNotifications(textPost(tasks[t]), tasks[t].comment)
     IN tasks' = [tasks EXCEPT ![t] = goOn([@ EXCEPT !.told = toldOfText(t)],
                                           {place \in @.left : place[2] \notin log})]
  /\ UNCHANGED <<notifications, mentioned, hooks>>

telling(t) == (at(t, "notify") \/ at(t, "mention")) /\ tasks[t].step = "each"

\* The users and webhooks come by id, users once more for each name.
isNext(place, left) ==
  \A other \in left : place[1] < other[1] \/ (place[1] = other[1] /\ place[2] <= other[2])
next(t) == CHOOSE place \in tasks[t].left : isNext(place, tasks[t].left)
reader(t) == next(t)[2]

\* The row a task waits for or takes next: a webhook's that failed, or those the
\* foreign keys of the next rows refer to, the user's and then the author's.
wantsRow(t) ==
  IF tasks[t].step = "failed" THEN reader(t)
  ELSE IF telling(t) /\ reader(t) \notin tasks[t].held THEN reader(t)
  ELSE IF telling(t) /\ tasks[t].by \notin tasks[t].held THEN tasks[t].by
  ELSE None

\* Key shares exclude only the writer's locks, the lock of a webhook any other.
rowFree(t) ==
  /\ wantsRow(t) # None
  /\ writer # None => wantsRow(t) \notin writer.held
  /\ wantsRow(t) \in Hook => \A other \in running \ {t} : wantsRow(t) \notin tasks[other].held

LockRow(t) ==
  /\ telling(t) /\ rowFree(t)
  /\ tasks' = [tasks EXCEPT ![t].held = @ \cup {wantsRow(t)}]
  /\ UNCHANGED <<notifications, mentioned, hooks>>

\* Whoever acts is not told.
addNewNotification(t) ==
  IF reader(t) = tasks[t].by THEN << >>
  ELSE <<[to |-> reader(t), by |-> tasks[t].by, event |-> eventOf(t), post |-> tasks[t].post,
          comment |-> tasks[t].comment, task |-> t, read |-> FALSE]>>

\* Mutation of AddMentionNotification: the post is logged, also for a comment.
AddMentionNotificationOfPost(t) == <<reader(t), tasks[t].post, None>>

AddMentionNotification(t) == <<reader(t), textPost(tasks[t]), tasks[t].comment>>

Tell(t) ==
  /\ telling(t) /\ wantsRow(t) = None
  /\ LET log == IF at(t, "mention") THEN {AddMentionNotification(t)} ELSE {}
         told == [tasks[t] EXCEPT !.rows = @ \o addNewNotification(t), !.logs = @ \cup log]
     IN tasks' = [tasks EXCEPT ![t] = goOn(told, @.left \ {next(t)})]
  /\ UNCHANGED <<notifications, mentioned, hooks>>

ListWebhooks(t) ==
  /\ at(t, "webhook") /\ tasks[t].step = "query"
  /\ LET active == {h \in rowsOf(hooks) : /\ hooks[h].type = tasks[t].type
                                          /\ hooks[h].status = "enabled"}
     IN tasks' = [tasks EXCEPT ![t] = goOn(@, {1} \X active)]
  /\ UNCHANGED <<notifications, mentioned, hooks>>

\* A call succeeds or, at the latest after thirty seconds, fails.
triggerWebhook(t) ==
  /\ at(t, "webhook") /\ tasks[t].step = "each"
  /\ \/ tasks' = [tasks EXCEPT ![t] = goOn(@, @.left \ {next(t)})]
     \/ tasks' = [tasks EXCEPT ![t].step = "failed"]
  /\ UNCHANGED <<notifications, mentioned, hooks>>

\* With WEBHOOK_DISABLE_ON_FAILURE, as by default.
MarkFailed(t) ==
  /\ tasks[t].step = "failed" /\ rowFree(t)
  /\ LET marked == [tasks[t] EXCEPT !.failed = @ \cup {reader(t)}, !.held = @ \cup {reader(t)}]
     IN tasks' = [tasks EXCEPT ![t] = goOn(marked, @.left \ {next(t)})]
  /\ UNCHANGED <<notifications, mentioned, hooks>>

\* Mutation of over: the locks stay.
overStillLocking(task, state) ==
  [task EXCEPT !.state = state, !.script = << >>, !.step = "query", !.left = {}, !.told = {},
               !.rows = << >>, !.logs = {}, !.failed = {}]

\* What is left of a task.
over(task, state) ==
  [task EXCEPT !.state = state, !.script = << >>, !.step = "query", !.left = {}, !.told = {},
               !.rows = << >>, !.logs = {}, !.failed = {}, !.held = {}]

CommitTask(t) ==
  /\ tasks[t].script = << >>
  /\ notifications' = notifications \o tasks[t].rows
  /\ mentioned' = mentioned \cup tasks[t].logs
  /\ hooks' = [h \in Hook |-> IF h \in tasks[t].failed /\ hooks[h] # None
                              THEN [hooks[h] EXCEPT !.status = "failed"] ELSE hooks[h]]
  /\ tasks' = [tasks EXCEPT ![t] = over(@, "committed")]

\* A statement fails, or the server dies: nothing of the task remains.
AbortTask(t) ==
  /\ tasks' = [tasks EXCEPT ![t] = over(@, "aborted")]
  /\ UNCHANGED <<notifications, mentioned, hooks>>

(***************************************************************************)
(* Requests.  The tenant's row and the user are checked first and stay as  *)
(* they were; the rows of users and webhooks are locked one by one.        *)
(***************************************************************************)
Init ==
  /\ scope \in Scopes /\ db = scope.site
  /\ blobs = [k \in Key |-> None]
  /\ account = scope.accounts /\ hooks = scope.hooks
  /\ notifications = << >> /\ mentioned = {}
  /\ writer = None /\ tasks = << >> /\ wish = << >>

targets(op, actor) ==
  IF op \in OnUser THEN User \ {actor} ELSE IF op \in OnWebhook THEN rowsOf(hooks) ELSE {None}

\* The middleware locks the row of the actor, and lockPasswordUsers both rows
\* in order: for restored accounts it is the first to lock.
rowsToLock(op, actor, target) ==
  CASE op = "RestoreUser" -> IF actor < target THEN <<actor, target>> ELSE <<target, actor>>
    [] op \in {"BlockUser", "ChangeUserRole", "UpdateWebhook", "DeleteWebhook"} -> <<actor, target>>
    [] OTHER -> <<actor>>

BeginRequest(op, actor, target) ==
  /\ writer = None /\ op \in scope.operations /\ target \in targets(op, actor)
  /\ account[actor].active
  /\ op \in OnUser \cup OnWebhook \cup {"CreateWebhook"} => IsAdministrator(db, actor)
  /\ writer' = [op |-> op, actor |-> actor, target |-> target, held |-> {},
                wants |-> rowsToLock(op, actor, target)]
  /\ UNCHANGED <<discussionVars, account, hooks, notifications, mentioned, tasks>>

LockForUpdate ==
  /\ writer # None /\ writer.wants # << >>
  /\ \A t \in DOMAIN tasks : Head(writer.wants) \notin tasks[t].held
  /\ writer' = [writer EXCEPT !.held = @ \cup {Head(writer.wants)}, !.wants = Tail(@)]
  /\ UNCHANGED <<discussionVars, account, hooks, notifications, mentioned, tasks>>

performs(op) == writer # None /\ writer.wants = << >> /\ writer.op = op
actor == writer.actor

\* What the handlers of Discussion leave behind.
Handled ==
  \/ performs("CreatePost") /\ \E title \in Text, m \in scope.mentions :
       /\ D!CreatePost(actor, title, {}, << >>)
       /\ Enqueue(NotifyAboutNewPost(actor, D!newPost, m))
  \/ \E n \in numbers(db) :
       LET p == getPostByNumber(db, n)
       IN \/ performs("UpdatePost") /\ \E title \in Text, m \in scope.mentions :
               /\ D!UpdatePost(actor, n, title, << >>)
               /\ Enqueue(NotifyAboutUpdatedPost(actor, p, m))
          \/ performs("SetResponse") /\ \E status \in Responses :
               /\ D!SetResponse(actor, n, status, 0)
               /\ Enqueue(NotifyAboutStatusChange(actor, p, db.posts[p].status, status))
          \/ performs("DeletePost") /\ \E text \in BOOLEAN :
               /\ D!DeletePost(actor, n)
               /\ Enqueue(NotifyAboutDeletedPost(actor, p, text))
          \/ performs("PostComment") /\ \E m \in scope.mentions :
               /\ D!PostComment(actor, n, << >>)
               /\ Enqueue(NotifyAboutNewComment(actor, p, D!newComment, m))
          \/ performs("UpdateComment") /\ \E c \in CommentId, m \in scope.mentions :
               /\ D!UpdateComment(actor, n, c, << >>)
               /\ Enqueue(NotifyAboutUpdatedComment(actor, p, c, m))
          \/ performs("Subscribe") /\ D!Subscribe(actor, n) /\ UNCHANGED tasks
          \/ performs("Unsubscribe") /\ D!Unsubscribe(actor, n) /\ UNCHANGED tasks

PostRequest ==
  Handled /\ writer' = None /\ UNCHANGED <<account, hooks, notifications, mentioned>>

updateCurrentUserSettings(e, value) ==
  account' = [account EXCEPT ![actor].setting[e] = value]
updateCurrentUserProfile(name) == account' = [account EXCEPT ![actor].name = name]

\* Each account keeps its password rules in PasswordAccounts; here it is told
\* or not, by status and role.
AccountRequest ==
  /\ \/ performs("UpdateUserNotifications") /\ UNCHANGED db
        /\ \E e \in Changeable, value \in {"on", "off"} : updateCurrentUserSettings(e, value)
     \/ performs("UpdateUserProfile") /\ UNCHANGED db
        /\ \E name \in Name : updateCurrentUserProfile(name)
     \/ performs("BlockUser") /\ UNCHANGED db
        /\ account' = [account EXCEPT ![writer.target].active = FALSE]
     \/ performs("RestoreUser") /\ UNCHANGED db
        /\ account' = [account EXCEPT ![writer.target].active = TRUE]
     \/ performs("ChangeUserRole") /\ UNCHANGED account
        /\ \E role \in Role : db' = [db EXCEPT !.role[writer.target] = role]
  /\ writer' = None
  /\ UNCHANGED <<blobs, scope, hooks, notifications, mentioned, tasks>>

\* Only rows of the user are found.
ReadRequest ==
  /\ \/ /\ performs("ReadNotification")
        /\ \E i \in DOMAIN notifications :
             /\ notifications[i].to = actor
             /\ notifications' = [notifications EXCEPT ![i].read = TRUE]
     \/ /\ performs("ReadAllNotifications")
        /\ notifications' = [i \in DOMAIN notifications |->
             IF notifications[i].to = actor THEN [notifications[i] EXCEPT !.read = TRUE]
             ELSE notifications[i]]
  /\ writer' = None
  /\ UNCHANGED <<discussionVars, account, hooks, mentioned, tasks>>

createEditWebhook(h, type, status) ==
  hooks' = [hooks EXCEPT ![h] = [type |-> type, status |-> status]]

\* A hook that failed is saved as disabled unless it is enabled again.
restored(status) == IF status = "failed" THEN "disabled" ELSE status

WebhookRequest ==
  /\ \/ \E type \in {x.type : x \in Webhook}, status \in {x.status : x \in Webhook} :
          \/ performs("CreateWebhook") /\ freeIds(hooks) # {}
             /\ createEditWebhook(Min(freeIds(hooks)), type, status)
          \/ performs("UpdateWebhook") /\ createEditWebhook(writer.target, type, restored(status))
     \/ performs("DeleteWebhook") /\ hooks' = [hooks EXCEPT ![writer.target] = None]
     \/ performs("TestWebhook") /\ UNCHANGED hooks
     \/ performs("MarkFailed") /\ hooks' = [hooks EXCEPT ![writer.target].status = "failed"]
  /\ writer' = None
  /\ UNCHANGED <<discussionVars, account, notifications, mentioned, tasks>>

\* The test of a webhook fails, and has to mark it.
TestFails ==
  /\ performs("TestWebhook")
  /\ writer' = [writer EXCEPT !.op = "MarkFailed", !.wants = <<writer.target>>]
  /\ UNCHANGED <<discussionVars, account, hooks, notifications, mentioned, tasks>>

\* A check or a statement fails, or the client goes away.
RollbackRequest ==
  /\ writer # None /\ writer' = None
  /\ UNCHANGED <<discussionVars, account, hooks, notifications, mentioned, tasks>>

(***************************************************************************)
(* Waiting.  PostgreSQL rolls one of a circle of transactions back.        *)
(***************************************************************************)
Request == 0
Transaction == {Request} \cup running

holders(row, except) == {t \in running \ {except} : row \in tasks[t].held}

waitsFor(x) ==
  IF x = Request
  THEN IF writer = None \/ writer.wants = << >> THEN {}
       ELSE holders(Head(writer.wants), Request)
  ELSE (IF writer # None /\ wantsRow(x) \in writer.held THEN {Request} ELSE {})
       \cup (IF wantsRow(x) \in Hook THEN holders(wantsRow(x), x) ELSE {})

inCircle(x) ==
  LET waits == [p \in Transaction \X Transaction |-> p[2] \in waitsFor(p[1])]
  IN TransitiveClosure(waits, Transaction)[x, x]

DeadlockVictim ==
  \/ inCircle(Request) /\ RollbackRequest
  \/ \E t \in running : inCircle(t) /\ AbortTask(t) /\ UNCHANGED <<discussionVars, account, writer>>

(***************************************************************************)
(* The specification.                                                      *)
(***************************************************************************)
asTask(step) == step /\ UNCHANGED <<discussionVars, account, writer>>

\* What the pages of a user say: settings, subscription and name.
wanting(t, e) ==
  {u \in User \ {tasks[t].by} :
     /\ account[u].active
     /\ getCurrentUserSettings(u)[e] = "on"
     /\ e \in {"new_comment", "change_status"} => userSubscribedTo(db, tasks[t].post, u)
     /\ e = "mention" => account[u].name \in Range(tasks[t].mentions)}

toTell(t) ==
  {e \in {tasks[t].event, "mention"} :
     Contains(tasks[t].script, IF e = "mention" THEN "mention" ELSE "notify")}

\* Who wanted to be told at some time, and who always did, while a task ran.
Watch ==
  wish' = [t \in DOMAIN tasks' |->
    IF t \notin DOMAIN tasks
    THEN [e \in toTell(t)' |-> [ever |-> wanting(t, e)', always |-> wanting(t, e)']]
    ELSE IF tasks[t].state # "running" THEN wish[t]
    ELSE [e \in DOMAIN wish[t] |-> [ever |-> wish[t][e].ever \cup wanting(t, e)',
                                    always |-> wish[t][e].always \cap wanting(t, e)']]]

Perform == PostRequest \/ AccountRequest \/ ReadRequest \/ WebhookRequest \/ TestFails

Next ==
  /\ \/ \E op \in scope.operations, u \in User : \E target \in targets(op, u) : BeginRequest(op, u, target)
     \/ LockForUpdate \/ PostRequest \/ AccountRequest \/ ReadRequest \/ WebhookRequest
     \/ TestFails \/ RollbackRequest
     \/ \E t \in running :
          asTask(\/ ReadUsers(t) \/ ReadLog(t) \/ LockRow(t) \/ Tell(t) \/ ListWebhooks(t)
                 \/ triggerWebhook(t) \/ MarkFailed(t) \/ CommitTask(t) \/ AbortTask(t))
  /\ Watch

Spec == Init /\ [][Next]_vars

\* Workers and handlers go on; calls end after thirty seconds; who waits for a
\* row is queued by PostgreSQL, which looks for circles.
FairSpec ==
  /\ Spec
  /\ WF_vars(LockForUpdate /\ Watch)
  /\ WF_vars((Perform \/ (writer # None /\ writer.wants = << >> /\ RollbackRequest)) /\ Watch)
  /\ WF_vars(DeadlockVictim /\ Watch)
  /\ \A t \in 1 .. MaxTasks :
       /\ WF_vars(t \in running /\ asTask(\/ ReadUsers(t) \/ ReadLog(t) \/ Tell(t) \/ ListWebhooks(t)
                                          \/ triggerWebhook(t) \/ CommitTask(t)) /\ Watch)
       /\ SF_vars(t \in running /\ asTask(LockRow(t) \/ MarkFailed(t)) /\ Watch)

(***************************************************************************)
(* Properties.                                                             *)
(***************************************************************************)
TypeOK ==
  /\ db \in Tables
  /\ account \in [User -> Account]
  /\ hooks \in [Hook -> Webhook \cup {None}]
  /\ notifications \in Seq(Notice)
  /\ mentioned \subseteq Mentioned
  /\ writer # None => writer.held \cup Range(writer.wants) \subseteq User \cup Hook
  /\ tasks \in Seq(Task)
  /\ \A t \in DOMAIN tasks : tasks[t].state # "running" => tasks[t].held = {}

toldBy(t, e) ==
  {notifications[i].to : i \in {j \in DOMAIN notifications :
                                  notifications[j].task = t /\ notifications[j].event = e}}

\* Whom tasks told of a mention in the same text, or did not tell because it was
\* their own.
knows(t) ==
  toldOfText(t) \cup
    {tasks[s].by : s \in {r \in DOMAIN tasks : /\ tasks[r].state = "committed"
                                             /\ "mention" \in DOMAIN wish[r]
                                             /\ sameText(tasks[r], t)}}

\* What a committed task told agrees with what the pages of each user said
\* while it ran: those are told who wanted to know of the event all the time,
\* nobody who never did, and never who did it.  The statement that finds them
\* (GetActiveSubscribers), the page of settings, and the subscription shown
\* with a post are written independently.
ToldIffWanted ==
  \A t \in DOMAIN tasks : tasks[t].state = "committed" =>
    /\ \A i \in DOMAIN notifications :
         notifications[i].task = t => notifications[i].event \in DOMAIN wish[t]
    /\ \A e \in DOMAIN wish[t] :
         /\ toldBy(t, e) \subseteq wish[t][e].ever
         /\ wish[t][e].always \subseteq
              toldBy(t, e) \cup (IF e = "mention" THEN knows(t) ELSE {})

\* A task tells nobody of a mention whom the notifications showed as told of it,
\* in the same text, when the task read the log (AddMentionNotification).
NoRepeatedMention ==
  \A t \in running : \A i \in DOMAIN tasks[t].rows :
    tasks[t].rows[i].event = "mention" => tasks[t].rows[i].to \notin tasks[t].told

\* Who wants to be told is told, nobody else, and of a mention nobody the log
\* shows as told.  Tasks of one text that overlap may all tell of a mention: none
\* sees the log of another that has not committed.
ToldAsWished == ToldIffWanted /\ NoRepeatedMention

\* Every request and every task comes to an end, also those that wait for each
\* other's rows: circles are broken, and no row is kept for ever.
WaitsEnd ==
  /\ writer # None ~> writer = None
  /\ \A t \in 1 .. MaxTasks : t \in running ~> t \notin running
=============================================================================
