---------------------------- MODULE MCNotifications ----------------------------
(* Small instances of Notifications for TLC.                               *)
EXTENDS Notifications, TLC

CONSTANTS a              \* the title of a post
CONSTANTS x              \* a content of a file
CONSTANTS arya, jon      \* names

Slugs == a :> "a"
NoWords == a :> {}

\* Users are 1, 2 and 3; a post of 3, and a comment of it, or nothing.
roles(one, two, three) == (1 :> one) @@ (2 :> two) @@ (3 :> three)
withComment(role) == addNewComment(addNewPost(NoRows(role), 1, 3, a), 1, 1, 3)
Mixed == withComment(roles("administrator", "collaborator", "visitor"))
Empty == NoRows(roles("administrator", "collaborator", "visitor"))
TwoAdministrators == withComment(roles("administrator", "administrator", "visitor"))

member(name) == [active |-> TRUE, name |-> name, setting |-> [e \in Event |-> None]]
Members == (1 :> member(arya)) @@ (2 :> member(jon)) @@ (3 :> member(jon))

NoHooks == [h \in Hook |-> None]
OneHook == [h \in Hook |-> [type |-> "delete_post", status |-> "enabled"]]

NoMention == {<< >>}
OneMention == {<< >>, <<arya>>}

from(site, operations, mentions, webhooks, n) ==
  [operations |-> operations, files |-> {<< >>}, posts |-> 1, comments |-> 2,
   site |-> site, accounts |-> Members, hooks |-> webhooks, mentions |-> mentions, tasks |-> n]

\* One task while whom it tells changes, also what they are called and want at
\* once; two tasks of one text.
Telling ==
  {from(Mixed, {"PostComment", "Subscribe", "Unsubscribe"}, OneMention, NoHooks, 1),
   from(Mixed, {"UpdatePost", "UpdateUserProfile"}, OneMention, NoHooks, 1),
   [from(Mixed, {"UpdatePost", "UpdateUserProfile", "UpdateUserNotifications"}, OneMention, NoHooks, 1)
      EXCEPT !.accounts[3].active = FALSE],
   from(Mixed, {"SetResponse", "UpdateUserNotifications"}, NoMention, NoHooks, 1),
   from(Mixed, {"SetResponse", "ChangeUserRole"}, NoMention, NoHooks, 1),
   from(Empty, {"CreatePost", "ChangeUserRole", "ReadNotification"}, OneMention, NoHooks, 1),
   from(Mixed, {"DeletePost", "BlockUser", "RestoreUser", "ReadAllNotifications"},
        NoMention, NoHooks, 1),
   from(Mixed, {"PostComment", "UpdateComment"}, OneMention, NoHooks, 2),
   from(Empty, {"CreatePost", "UpdatePost"}, OneMention, NoHooks, 2)}

\* Two administrators, tasks that tell them, and calls of webhooks.
Waiting ==
  {from(TwoAdministrators, {"PostComment", "BlockUser", "RestoreUser"}, NoMention, NoHooks, 1),
   from(TwoAdministrators, {"DeletePost", "UpdateWebhook", "DeleteWebhook", "TestWebhook",
                            "CreateWebhook"}, NoMention, OneHook, 1)}
=============================================================================
