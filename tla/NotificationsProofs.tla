------------------------- MODULE NotificationsProofs -------------------------
(***************************************************************************)
(* Proofs about Notifications, for any members, posts, comments, texts,    *)
(* names, webhooks and number of tasks: its types, and that those are told *)
(* who want to be told, nobody else, and of a mention none the log shows.  *)
(*                                                                         *)
(* What a running task has told and has still to tell is compared with     *)
(* what its readers wanted since it was handed over (KeepsPromise); that   *)
(* survives whatever others do, since readers are only added to those who  *)
(* ever wanted, and only taken from those who always did.                  *)
(***************************************************************************)
EXTENDS Notifications, FiniteSetTheorems, WellFoundedInduction, TLAPS

(***************************************************************************)
(* The inductive invariant.                                                *)
(***************************************************************************)
\* The request: what its operation works on is there as long as it runs.
WriterOK ==
  writer # None =>
    /\ writer.actor \in User
    /\ writer.held \subseteq User \cup Hook
    /\ writer.wants \in Seq(User \cup Hook)
    /\ writer.op \in OnUser => writer.target \in User
    /\ writer.op \in OnWebhook \cup {"MarkFailed"} => writer.target \in rowsOf(hooks)

Basics ==
  /\ TypeOK /\ WriterOK /\ scope \in Scopes
  /\ DOMAIN wish = DOMAIN tasks /\ Len(tasks) <= MaxTasks

heads(k, part) == k.script # << >> /\ Head(k.script) = part
partOf(e) == IF e = "mention" THEN "mention" ELSE "notify"

\* A part of a script comes once, and its loop is over the places it fits.
InOrder(k) ==
  /\ \A i, j \in DOMAIN k.script : k.script[i] = k.script[j] => i = j
  /\ k.step # "query" => k.script # << >>
  /\ k.step = "log" => heads(k, "mention")
  /\ k.step = "failed" => heads(k, "webhook")
  /\ k.step \in {"each", "failed"} => k.left # {}
  /\ k.left \subseteq Nat \X (IF heads(k, "webhook") THEN Hook ELSE User)

\* Those a task has still to tell, and those it has told of an event.
readers(k) == {place[2] : place \in k.left}
toldIn(k, e) == {k.rows[i].to : i \in {j \in DOMAIN k.rows : k.rows[j].event = e}}

\* The entry of the log that goes with a notification of a mention.
logOf(n) == <<n.to, textPost(n), n.comment>>

\* A task logs the mentions it tells of, and those of whoever acts.
LogsRows(k) ==
  /\ \A i \in DOMAIN k.rows : k.rows[i].event = "mention" => logOf(k.rows[i]) \in k.logs
  /\ \A m \in k.logs : \/ m = <<k.by, textPost(k), k.comment>>
                       \/ \E i \in DOMAIN k.rows : k.rows[i].event = "mention" /\ logOf(k.rows[i]) = m

\* Of a mention nobody is told before the log is read, and then only the others.
NotAgain(k) ==
  /\ \A i \in DOMAIN k.rows : k.rows[i].event = "mention" => k.rows[i].to \notin k.told
  /\ Contains(k.script, "mention") /\ ~(heads(k, "mention") /\ k.step = "each") =>
       \A i \in DOMAIN k.rows : k.rows[i].event # "mention"
  /\ heads(k, "mention") /\ k.step = "each" => readers(k) \cap k.told = {}

\* Who need not be told of an event again, of those who are known to know.
excused(e, known) == IF e = "mention" THEN known ELSE {}

\* Of each event of w: nobody is told who never wanted to, and whoever always
\* did is told when the part of the script that tells is over.
Promised(k, w, known) ==
  /\ DOMAIN w \subseteq {k.event, "mention"}
  /\ \A e \in {k.event, "mention"} : Contains(k.script, partOf(e)) => e \in DOMAIN w
  /\ \A i \in DOMAIN k.rows : k.rows[i].event \in DOMAIN w
  /\ k.logs # {} => "mention" \in DOMAIN w
  /\ \A e \in DOMAIN w :
       /\ toldIn(k, e) \subseteq w[e].ever
       /\ ~Contains(k.script, partOf(e)) => w[e].always \subseteq toldIn(k, e) \cup excused(e, known)

\* In the loop that tells of it, those who are left and those who are told are
\* all who always wanted.
InLoop(k, left, w, known) ==
  \A e \in DOMAIN w : heads(k, partOf(e)) =>
    /\ {place[2] : place \in left} \subseteq w[e].ever \cup {k.by}
    /\ w[e].always \subseteq {place[2] : place \in left} \cup toldIn(k, e) \cup excused(e, known)

KeepsPromise(k, w, known) ==
  Promised(k, w, known) /\ (k.step \in {"log", "each"} => InLoop(k, k.left, w, known))

\* What the history says of the present.
Watched(t) ==
  \A e \in DOMAIN wish[t] :
    wish[t][e].always \subseteq wanting(t, e) /\ wanting(t, e) \subseteq wish[t][e].ever

\* The committed notifications are those of committed tasks; those of mentions
\* are logged, and who is logged was told, or acted.
LogAgrees ==
  /\ \A i \in DOMAIN notifications :
       /\ notifications[i].task \in DOMAIN tasks
       /\ tasks[notifications[i].task].state = "committed"
       /\ notifications[i].event = "mention" => logOf(notifications[i]) \in mentioned
  /\ \A m \in mentioned :
       \/ \E t \in DOMAIN tasks : /\ tasks[t].state = "committed" /\ "mention" \in DOMAIN wish[t]
                                 /\ m = <<tasks[t].by, textPost(tasks[t]), tasks[t].comment>>
       \/ \E i \in DOMAIN notifications :
            notifications[i].event = "mention" /\ logOf(notifications[i]) = m

TaskOK(k, t) ==
  InOrder(k) /\ LogsRows(k) /\ NotAgain(k) /\ (\A i \in DOMAIN k.rows : k.rows[i].task = t)

RunningOK(t) == TaskOK(tasks[t], t) /\ KeepsPromise(tasks[t], wish[t], knows(t)) /\ Watched(t)

\* The inductive invariant.
NotificationsInv ==
  Basics /\ LogAgrees /\ (\A t \in running : RunningOK(t)) /\ ToldIffWanted

(***************************************************************************)
(* Scripts, loops and places.                                              *)
(***************************************************************************)
\* A set of numbers that is not empty has a least one.
LEMMA NatHasLeast ==
  ASSUME NEW S \in SUBSET Nat, S # {}
  PROVE  \E x \in S : \A y \in S : x <= y
<1>1. IsWellFoundedOn(OpToRel(<, Nat), Nat)
  BY NatLessThanWellFounded
<1>2. PICK x \in S : \A y \in S : ~(<<y, x>> \in OpToRel(<, Nat))
  BY <1>1, WFMin
<1>3. \A y \in S : ~(y < x)
  BY <1>2 DEF OpToRel
<1> QED BY <1>3

\* Some place comes before all others of those that are left.
LEMMA SomeIsNext ==
  ASSUME NEW left, left \subseteq Nat \X (User \cup Hook), left # {}
  PROVE  \E place \in left : isNext(place, left)
<1>1. \A place \in left : place[1] \in Nat /\ place[2] \in Nat
  BY RowsAssumption
<1> DEFINE firsts == {place[1] : place \in left}
<1>f. firsts \in SUBSET Nat /\ firsts # {}
  BY <1>1
<1>2. PICK i \in firsts : \A j \in firsts : i <= j
  BY <1>f, NatHasLeast
<1> DEFINE seconds == {place[2] : place \in {other \in left : other[1] = i}}
<1>s. seconds \in SUBSET Nat /\ seconds # {}
  BY <1>1, <1>2
<1>3. PICK u \in seconds : \A v \in seconds : u <= v
  BY <1>s, NatHasLeast
<1>4. PICK place \in left : place[1] = i /\ place[2] = u
  BY <1>3
<1>5. ASSUME NEW other \in left PROVE place[1] < other[1] \/ (place[1] = other[1] /\ place[2] <= other[2])
  <2>1. i <= other[1]
    BY <1>2
  <2>2. CASE other[1] = i
    BY <1>3, <1>4, <2>2
  <2>3. CASE other[1] # i
    BY <1>1, <1>4, <2>1, <2>3
  <2> QED BY <2>2, <2>3
<1> QED BY <1>4, <1>5 DEF isNext

\* The next of those a task has left is one of them.
LEMMA NextIsLeft ==
  ASSUME NEW t, tasks[t].left \subseteq Nat \X (User \cup Hook), tasks[t].left # {}
  PROVE  next(t) \in tasks[t].left
BY SomeIsNext DEF next

\* What is left of a script whose parts come once is without its head.
LEMMA ScriptGoesOn ==
  ASSUME NEW S, NEW s \in Seq(S), s # << >>, \A i, j \in DOMAIN s : s[i] = s[j] => i = j
  PROVE  /\ Tail(s) \in Seq(S) /\ Head(s) \in S
         /\ \A i, j \in DOMAIN Tail(s) : Tail(s)[i] = Tail(s)[j] => i = j
         /\ \A x : Contains(Tail(s), x) <=> (Contains(s, x) /\ x # Head(s))
<1>1. /\ Tail(s) \in Seq(S) /\ Len(Tail(s)) = Len(s) - 1 /\ Head(s) = s[1] /\ Len(s) \in Nat \ {0}
      /\ \A i \in 1 .. Len(Tail(s)) : Tail(s)[i] = s[i + 1]
  OBVIOUS
<1>2. \A x : Contains(Tail(s), x) => Contains(s, x) /\ x # Head(s)
  <2> SUFFICES ASSUME NEW x, NEW i \in 1 .. Len(Tail(s)), Tail(s)[i] = x
               PROVE  Contains(s, x) /\ x # Head(s)
    BY DEF Contains
  <2>1. i + 1 \in 1 .. Len(s) /\ s[i + 1] = x /\ 1 \in 1 .. Len(s) /\ i + 1 # 1
    BY <1>1
  <2> QED BY <1>1, <2>1 DEF Contains
<1>3. \A x : Contains(s, x) /\ x # Head(s) => Contains(Tail(s), x)
  <2> SUFFICES ASSUME NEW x, NEW i \in 1 .. Len(s), s[i] = x, x # Head(s)
               PROVE  Contains(Tail(s), x)
    BY DEF Contains
  <2>1. i # 1 /\ i - 1 \in 1 .. Len(Tail(s)) /\ Tail(s)[i - 1] = s[(i - 1) + 1] /\ (i - 1) + 1 = i
    BY <1>1
  <2> QED BY <2>1 DEF Contains
<1>4. \A i, j \in DOMAIN Tail(s) : Tail(s)[i] = Tail(s)[j] => i = j
  <2> SUFFICES ASSUME NEW i \in DOMAIN Tail(s), NEW j \in DOMAIN Tail(s), Tail(s)[i] = Tail(s)[j]
               PROVE  i = j
    OBVIOUS
  <2>1. i \in 1 .. Len(Tail(s)) /\ j \in 1 .. Len(Tail(s))
    BY <1>1
  <2>2. s[i + 1] = s[j + 1] /\ i + 1 \in DOMAIN s /\ j + 1 \in DOMAIN s
    BY <1>1, <2>1
  <2>3. i + 1 = j + 1
    BY <2>2
  <2> QED BY <2>1, <2>3
<1> QED BY <1>1, <1>2, <1>3, <1>4

\* What goOn changes of a task, and that its parts and places fit again.
LEMMA GoneOn ==
  ASSUME NEW k \in Task, k.script # << >>, \A i, j \in DOMAIN k.script : k.script[i] = k.script[j] => i = j,
         NEW left, left \subseteq Nat \X (IF heads(k, "webhook") THEN Hook ELSE User)
  PROVE  LET g == goOn(k, left)
         IN /\ g \in Task /\ InOrder(g)
            /\ g.state = k.state /\ g.event = k.event /\ g.by = k.by /\ g.post = k.post
            /\ g.comment = k.comment /\ g.mentions = k.mentions /\ g.told = k.told
            /\ g.rows = k.rows /\ g.logs = k.logs /\ g.held = k.held
            /\ \/ left = {} /\ g.script = Tail(k.script) /\ g.step = "query" /\ g.left = {}
               \/ left # {} /\ g.script = k.script /\ g.step = "each" /\ g.left = left
<1>1. /\ Tail(k.script) \in Seq({"notify", "mention", "webhook"})
      /\ \A i, j \in DOMAIN Tail(k.script) : Tail(k.script)[i] = Tail(k.script)[j] => i = j
  BY ScriptGoesOn, k.script \in Seq({"notify", "mention", "webhook"}) DEF Task
<1>2. left \in SUBSET (Nat \X (User \cup Hook))
  BY DEF heads
<1>3. CASE left = {}
  <2> DEFINE g == [k EXCEPT !.script = Tail(@), !.step = "query", !.left = {}]
  <2>1. goOn(k, left) = g
    BY <1>3 DEF goOn
  <2>2. /\ g \in Task
        /\ g.state = k.state /\ g.event = k.event /\ g.by = k.by /\ g.post = k.post
        /\ g.comment = k.comment /\ g.mentions = k.mentions /\ g.told = k.told
        /\ g.rows = k.rows /\ g.logs = k.logs /\ g.held = k.held
        /\ g.script = Tail(k.script) /\ g.step = "query" /\ g.left = {}
    BY <1>1 DEF Task
  <2> HIDE DEF g
  <2>3. InOrder(g)
    BY <1>1, <2>2 DEF InOrder
  <2> QED BY <1>3, <2>1, <2>2, <2>3
<1>4. CASE left # {}
  <2> DEFINE g == [k EXCEPT !.step = "each", !.left = left]
  <2>1. goOn(k, left) = g
    BY <1>4 DEF goOn
  <2>2. /\ g \in Task
        /\ g.state = k.state /\ g.event = k.event /\ g.by = k.by /\ g.post = k.post
        /\ g.comment = k.comment /\ g.mentions = k.mentions /\ g.told = k.told
        /\ g.rows = k.rows /\ g.logs = k.logs /\ g.held = k.held
        /\ g.script = k.script /\ g.step = "each" /\ g.left = left
    BY <1>2 DEF Task
  <2> HIDE DEF g
  <2>3. InOrder(g)
    BY <1>4, <2>2 DEF InOrder, heads
  <2> QED BY <1>4, <2>1, <2>2, <2>3
<1> QED BY <1>3, <1>4

\* A task keeps its promise when it goes on with those who are left, or, without
\* any, with the next part.
LEMMA PromiseGoesOn ==
  ASSUME NEW k \in Task, k.script # << >>, \A i, j \in DOMAIN k.script : k.script[i] = k.script[j] => i = j,
         NEW left, left \subseteq Nat \X (IF heads(k, "webhook") THEN Hook ELSE User),
         NEW w, NEW known, Promised(k, w, known), InLoop(k, left, w, known)
  PROVE  KeepsPromise(goOn(k, left), w, known)
<1> DEFINE g == goOn(k, left)
<1>1. /\ g.event = k.event /\ g.by = k.by /\ g.rows = k.rows /\ g.logs = k.logs
      /\ \/ left = {} /\ g.script = Tail(k.script) /\ g.step = "query" /\ g.left = {}
         \/ left # {} /\ g.script = k.script /\ g.step = "each" /\ g.left = left
  BY GoneOn
<1> HIDE DEF g
<1> SUFFICES KeepsPromise(g, w, known)
  BY DEF g
<1>2. \A e : toldIn(g, e) = toldIn(k, e)
  BY <1>1 DEF toldIn
<1>3. CASE left = {}
  <2>1. \A x : Contains(Tail(k.script), x) <=> (Contains(k.script, x) /\ x # Head(k.script))
    BY ScriptGoesOn, k.script \in Seq({"notify", "mention", "webhook"}) DEF Task
  <2>2. g.script = Tail(k.script) /\ g.step = "query"
    BY <1>1, <1>3
  <2>3. ASSUME NEW e \in DOMAIN w, ~Contains(g.script, partOf(e))
        PROVE  w[e].always \subseteq toldIn(g, e) \cup excused(e, known)
    <3>1. CASE heads(k, partOf(e))
      BY <1>2, <1>3, <3>1 DEF InLoop
    <3>2. CASE ~heads(k, partOf(e))
      BY <1>2, <2>1, <2>2, <2>3, <3>2 DEF heads, Promised
    <3> QED BY <3>1, <3>2
  <2>4. \A e \in {g.event, "mention"} : Contains(g.script, partOf(e)) => e \in DOMAIN w
    BY <1>1, <2>1, <2>2 DEF Promised
  <2>5. Promised(g, w, known)
    BY <1>1, <1>2, <2>3, <2>4 DEF Promised
  <2> QED BY <2>2, <2>5 DEF KeepsPromise
<1>4. CASE left # {}
  <2>1. g.script = k.script /\ g.left = left
    BY <1>1, <1>4
  <2>2. Promised(g, w, known)
    BY <1>1, <1>2, <2>1 DEF Promised
  <2>3. InLoop(g, g.left, w, known)
    BY <1>1, <1>2, <2>1 DEF InLoop, heads
  <2> QED BY <2>2, <2>3 DEF KeepsPromise
<1> QED BY <1>3, <1>4

\* A task that only goes on tells nobody again.
LEMMA NotAgainGoesOn ==
  ASSUME NEW k \in Task, k.script # << >>, \A i, j \in DOMAIN k.script : k.script[i] = k.script[j] => i = j,
         NEW left, left \subseteq Nat \X (IF heads(k, "webhook") THEN Hook ELSE User),
         \A i \in DOMAIN k.rows : k.rows[i].event = "mention" => k.rows[i].to \notin k.told,
         ~heads(k, "mention") /\ Contains(k.script, "mention") =>
           \A i \in DOMAIN k.rows : k.rows[i].event # "mention",
         heads(k, "mention") => {place[2] : place \in left} \cap k.told = {}
  PROVE  NotAgain(goOn(k, left))
<1> DEFINE g == goOn(k, left)
<1>1. /\ g.rows = k.rows /\ g.told = k.told
      /\ \/ left = {} /\ g.script = Tail(k.script) /\ g.step = "query" /\ g.left = {}
         \/ left # {} /\ g.script = k.script /\ g.step = "each" /\ g.left = left
  BY GoneOn
<1> HIDE DEF g
<1> SUFFICES NotAgain(g)
  BY DEF g
<1>2. \A x : Contains(Tail(k.script), x) <=> (Contains(k.script, x) /\ x # Head(k.script))
  BY ScriptGoesOn, k.script \in Seq({"notify", "mention", "webhook"}) DEF Task
<1>3. CASE left = {}
  BY <1>1, <1>2, <1>3 DEF NotAgain, heads
<1>4. CASE left # {}
  BY <1>1, <1>4 DEF NotAgain, heads, readers
<1> QED BY <1>3, <1>4

(***************************************************************************)
(* What every step leaves: tasks stay what they are about, committed ones  *)
(* stay committed, and notifications stay what they tell of.               *)
(***************************************************************************)
Grows ==
  /\ DOMAIN tasks \subseteq DOMAIN tasks' /\ DOMAIN notifications \subseteq DOMAIN notifications'
  /\ \A t \in DOMAIN tasks :
       /\ tasks'[t].by = tasks[t].by /\ tasks'[t].post = tasks[t].post
       /\ tasks'[t].comment = tasks[t].comment
       /\ tasks[t].state = "committed" => tasks'[t].state = "committed"
  /\ \A i \in DOMAIN notifications :
       /\ notifications'[i].to = notifications[i].to /\ notifications'[i].event = notifications[i].event
       /\ notifications'[i].post = notifications[i].post
       /\ notifications'[i].comment = notifications[i].comment
       /\ notifications'[i].task = notifications[i].task

\* The history goes on for running tasks, and ends with them.
LEMMA WishGoesOn ==
  ASSUME Watch, DOMAIN wish = DOMAIN tasks, DOMAIN tasks \subseteq DOMAIN tasks'
  PROVE  /\ DOMAIN wish' = DOMAIN tasks'
         /\ \A t \in DOMAIN tasks \ running : wish'[t] = wish[t]
         /\ \A t \in running :
              /\ DOMAIN wish'[t] = DOMAIN wish[t]
              /\ \A e \in DOMAIN wish[t] :
                   /\ wish[t][e].ever \subseteq wish'[t][e].ever
                   /\ wish'[t][e].always \subseteq wish[t][e].always
                   /\ wish'[t][e].always \subseteq wanting(t, e)'
                   /\ wanting(t, e)' \subseteq wish'[t][e].ever
<1>1. DOMAIN wish' = DOMAIN tasks'
  BY DEF Watch
<1>2. \A t \in DOMAIN tasks \ running : wish'[t] = wish[t]
  BY DEF Watch, running
<1>3. ASSUME NEW t \in running
      PROVE  /\ DOMAIN wish'[t] = DOMAIN wish[t]
             /\ \A e \in DOMAIN wish[t] :
                   /\ wish[t][e].ever \subseteq wish'[t][e].ever
                   /\ wish'[t][e].always \subseteq wish[t][e].always
                   /\ wish'[t][e].always \subseteq wanting(t, e)'
                   /\ wanting(t, e)' \subseteq wish'[t][e].ever
  <2>1. wish'[t] = [e \in DOMAIN wish[t] |-> [ever |-> wish[t][e].ever \cup wanting(t, e)',
                                             always |-> wish[t][e].always \cap wanting(t, e)']]
    BY <1>3 DEF Watch, running
  <2> QED BY <2>1
<1> QED BY <1>1, <1>2, <1>3

\* Whoever knows of a mention goes on knowing, and what a task told stays told.
LEMMA KnownGrows ==
  ASSUME Grows, Watch, DOMAIN wish = DOMAIN tasks, NEW t \in DOMAIN tasks
  PROVE  /\ knows(t) \subseteq knows(t)'
         /\ \A e : toldBy(t, e) \subseteq toldBy(t, e)'
<1>1. ASSUME NEW i \in DOMAIN notifications, notifications[i].event = "mention", sameText(notifications[i], t)
      PROVE  notifications[i].to \in toldOfText(t)'
  <2>1. /\ i \in DOMAIN notifications' /\ notifications'[i].event = "mention"
        /\ notifications'[i].to = notifications[i].to
    BY <1>1 DEF Grows
  <2>2. sameText(notifications[i], t)'
    BY <1>1 DEF Grows, sameText, textPost
  <2> QED BY <2>1, <2>2 DEF toldOfText
<1>2. toldOfText(t) \subseteq toldOfText(t)'
  BY <1>1 DEF toldOfText
<1>3. ASSUME NEW s \in DOMAIN tasks, tasks[s].state = "committed", "mention" \in DOMAIN wish[s],
             sameText(tasks[s], t)
      PROVE  tasks[s].by \in knows(t)'
  <2>1. s \in DOMAIN tasks' /\ tasks'[s].state = "committed" /\ tasks'[s].by = tasks[s].by
    BY <1>3 DEF Grows
  <2>2. wish'[s] = wish[s]
    BY <1>3, WishGoesOn DEF Grows, running
  <2>3. sameText(tasks[s], t)'
    BY <1>3 DEF Grows, sameText, textPost
  <2> QED BY <1>3, <2>1, <2>2, <2>3 DEF knows
<1>4. knows(t) \subseteq knows(t)'
  <2>1. toldOfText(t)' \subseteq knows(t)'
    BY DEF knows
  <2> QED BY <1>2, <1>3, <2>1 DEF knows
<1>5. \A e : toldBy(t, e) \subseteq toldBy(t, e)'
  BY DEF toldBy, Grows
<1> QED BY <1>4, <1>5

\* A promise that is kept stays so when more have wanted at some time, fewer all
\* the time, and more are known to know.
LEMMA PromiseStays ==
  ASSUME NEW k, NEW w, NEW known, KeepsPromise(k, w, known),
         NEW v, NEW more, known \subseteq more, DOMAIN v = DOMAIN w,
         \A e \in DOMAIN w : w[e].ever \subseteq v[e].ever /\ v[e].always \subseteq w[e].always
  PROVE  KeepsPromise(k, v, more)
<1>1. \A e : excused(e, known) \subseteq excused(e, more)
  BY DEF excused
<1>2. Promised(k, v, more)
  BY <1>1 DEF KeepsPromise, Promised
<1>3. k.step \in {"log", "each"} => InLoop(k, k.left, v, more)
  BY <1>1 DEF KeepsPromise, InLoop
<1> QED BY <1>2, <1>3 DEF KeepsPromise

\* What holds of a running task after a step, by what it is then and by what was
\* wanted and known before.
LEMMA RunningFollows ==
  ASSUME Grows, Watch, DOMAIN wish = DOMAIN tasks, NEW t \in running,
         TaskOK(tasks'[t], t), KeepsPromise(tasks'[t], wish[t], knows(t))
  PROVE  RunningOK(t)'
<1>1. t \in DOMAIN tasks /\ knows(t) \subseteq knows(t)'
  BY KnownGrows DEF running
<1>2. /\ DOMAIN wish'[t] = DOMAIN wish[t]
      /\ \A e \in DOMAIN wish[t] :
           /\ wish[t][e].ever \subseteq wish'[t][e].ever
           /\ wish'[t][e].always \subseteq wish[t][e].always
           /\ wish'[t][e].always \subseteq wanting(t, e)'
           /\ wanting(t, e)' \subseteq wish'[t][e].ever
  BY WishGoesOn DEF Grows
<1>3. KeepsPromise(tasks'[t], wish'[t], knows(t)')
  BY <1>1, <1>2, PromiseStays
<1>4. Watched(t)'
  BY <1>2 DEF Watched
<1> QED BY <1>3, <1>4 DEF RunningOK

\* A step that commits nothing leaves the log and what committed tasks told.
LEMMA NothingCommitted ==
  ASSUME Grows, Watch, DOMAIN wish = DOMAIN tasks, LogAgrees, ToldIffWanted,
         DOMAIN notifications' = DOMAIN notifications, mentioned' = mentioned,
         \A t \in DOMAIN tasks' : tasks'[t].state = "committed" =>
           t \in DOMAIN tasks /\ tasks[t].state = "committed"
  PROVE  LogAgrees' /\ ToldIffWanted'
<1>1. \A t \in DOMAIN tasks : tasks[t].state = "committed" => wish'[t] = wish[t]
  BY WishGoesOn DEF Grows, running
<1>2. LogAgrees'
  <2>1. \A i \in DOMAIN notifications : logOf(notifications[i]) = logOf(notifications'[i])
    BY DEF Grows, logOf, textPost
  <2>2. ASSUME NEW i \in DOMAIN notifications'
        PROVE  /\ notifications'[i].task \in DOMAIN tasks'
               /\ tasks'[notifications'[i].task].state = "committed"
               /\ notifications'[i].event = "mention" => logOf(notifications'[i]) \in mentioned'
    BY <2>1 DEF Grows, LogAgrees
  <2>3. ASSUME NEW m \in mentioned'
        PROVE  \/ \E t \in DOMAIN tasks' : /\ tasks'[t].state = "committed" /\ "mention" \in DOMAIN wish'[t]
                                          /\ m = <<tasks'[t].by, textPost(tasks'[t]), tasks'[t].comment>>
               \/ \E i \in DOMAIN notifications' :
                    notifications'[i].event = "mention" /\ logOf(notifications'[i]) = m
    <3>1. CASE \E t \in DOMAIN tasks : /\ tasks[t].state = "committed" /\ "mention" \in DOMAIN wish[t]
                                       /\ m = <<tasks[t].by, textPost(tasks[t]), tasks[t].comment>>
      <4>1. PICK t \in DOMAIN tasks : /\ tasks[t].state = "committed" /\ "mention" \in DOMAIN wish[t]
                                      /\ m = <<tasks[t].by, textPost(tasks[t]), tasks[t].comment>>
        BY <3>1
      <4>2. /\ t \in DOMAIN tasks' /\ tasks'[t].state = "committed" /\ "mention" \in DOMAIN wish'[t]
            /\ tasks'[t].by = tasks[t].by /\ textPost(tasks'[t]) = textPost(tasks[t])
            /\ tasks'[t].comment = tasks[t].comment
        BY <1>1, <4>1 DEF Grows, textPost
      <4> QED BY <4>1, <4>2
    <3>2. CASE \E i \in DOMAIN notifications :
                 notifications[i].event = "mention" /\ logOf(notifications[i]) = m
      BY <2>1, <3>2 DEF Grows
    <3> QED BY <2>3, <3>1, <3>2 DEF LogAgrees
  <2> QED BY <2>2, <2>3 DEF LogAgrees
<1>3. ToldIffWanted'
  <2> SUFFICES ASSUME NEW t \in DOMAIN tasks, tasks[t].state = "committed"
               PROVE  /\ \A i \in DOMAIN notifications' :
                           notifications'[i].task = t => notifications'[i].event \in DOMAIN wish'[t]
                      /\ \A e \in DOMAIN wish'[t] :
                           /\ toldBy(t, e)' \subseteq wish'[t][e].ever
                           /\ wish'[t][e].always \subseteq
                                toldBy(t, e)' \cup (IF e = "mention" THEN knows(t)' ELSE {})
    BY DEF ToldIffWanted
  <2>1. wish'[t] = wish[t]
    BY <1>1
  <2>2. \A i \in DOMAIN notifications' :
          notifications'[i].task = t => notifications'[i].event \in DOMAIN wish'[t]
    BY <2>1 DEF Grows, ToldIffWanted
  <2>3. \A e : toldBy(t, e)' = toldBy(t, e)
    BY DEF Grows, toldBy
  <2>4. knows(t) \subseteq knows(t)'
    BY KnownGrows
  <2> QED BY <2>1, <2>2, <2>3, <2>4 DEF ToldIffWanted
<1> QED BY <1>2, <1>3

(***************************************************************************)
(* The statements of a task.                                               *)
(***************************************************************************)
\* The statement that finds the readers and the pages that show who wants to be
\* told agree.
LEMMA FoundAreWanting ==
  ASSUME Basics, NEW t \in running, NEW e \in Event
  PROVE  wanting(t, e) = {u \in getActiveSubscribers(tasks[t].post, e) \ {tasks[t].by} :
                            e = "mention" => account[u].name \in Range(tasks[t].mentions)}
<1>1. /\ account \in [User -> Account] /\ db \in Tables /\ tasks[t] \in Task
  BY DEF Basics, TypeOK, running
<1>2. ASSUME NEW u \in User
      PROVE  getCurrentUserSettings(u)[e] = "on" <=> toldOf(u, e)
  <2>1. account[u].setting \in [Event -> {"on", "off", None}]
    BY <1>1 DEF Account, Setting
  <2> QED BY <2>1, NoneIsNoHook DEF getCurrentUserSettings, toldOf
<1>3. ASSUME NEW u \in User
      PROVE  (e \in {"new_comment", "change_status"} => userSubscribedTo(db, tasks[t].post, u))
               <=> (RequiresSubscriptionUserRoles[e] # {} => subscribed(u, tasks[t].post, e))
  <2>1. RequiresSubscriptionUserRoles[e] = IF e \in {"new_comment", "change_status"} THEN {"visitor"} ELSE {}
    BY DEF RequiresSubscriptionUserRoles
  <2>2. u # None
    BY NoneIsNothing
  <2>3. CASE e \in {"new_comment", "change_status"}
    <3>1. RequiresSubscriptionUserRoles[e] = {"visitor"}
      BY <2>1, <2>3
    <3> QED BY <2>2, <2>3, <3>1 DEF userSubscribedTo, subscribed
  <2>4. CASE e \notin {"new_comment", "change_status"}
    BY <2>1, <2>4
  <2> QED BY <2>3, <2>4
<1> QED BY <1>2, <1>3 DEF wanting, getActiveSubscribers

\* A step of a task that goes on running.
MovesTo(t, g) ==
  /\ tasks' = [tasks EXCEPT ![t] = g]
  /\ g \in Task /\ g.state = "running"
  /\ g.by = tasks[t].by /\ g.post = tasks[t].post /\ g.comment = tasks[t].comment
  /\ TaskOK(g, t) /\ KeepsPromise(g, wish[t], knows(t))

\* What is known of a running task.
LEMMA Running ==
  ASSUME NotificationsInv, NEW t \in running
  PROVE  /\ t \in DOMAIN tasks /\ tasks[t] \in Task /\ tasks[t].state = "running"
         /\ RunningOK(t) /\ Basics /\ LogAgrees
         /\ tasks[t].left \subseteq Nat \X (User \cup Hook)
         /\ \A i, j \in DOMAIN tasks[t].script : tasks[t].script[i] = tasks[t].script[j] => i = j
         /\ Promised(tasks[t], wish[t], knows(t))
<1>1. t \in DOMAIN tasks /\ tasks[t] \in Task /\ tasks[t].state = "running" /\ RunningOK(t)
  BY DEF NotificationsInv, Basics, TypeOK, running
<1> QED BY <1>1 DEF NotificationsInv, Task, RunningOK, TaskOK, InOrder, KeepsPromise

\* The next of those who are left is one of them, and each of them is either.
LEMMA Readers ==
  ASSUME NotificationsInv, NEW t \in running, tasks[t].step \in {"each", "failed"}
  PROVE  /\ next(t) \in tasks[t].left
         /\ reader(t) \in (IF heads(tasks[t], "webhook") THEN Hook ELSE User)
         /\ reader(t) \in readers(tasks[t])
         /\ readers(tasks[t]) = {place[2] : place \in tasks[t].left \ {next(t)}} \cup {reader(t)}
<1>1. InOrder(tasks[t]) /\ tasks[t].left \subseteq Nat \X (User \cup Hook)
  BY Running DEF RunningOK, TaskOK
<1>2. next(t) \in tasks[t].left
  BY <1>1, NextIsLeft DEF InOrder
<1>3. reader(t) \in (IF heads(tasks[t], "webhook") THEN Hook ELSE User)
  <2>1. next(t) \in Nat \X (IF heads(tasks[t], "webhook") THEN Hook ELSE User)
    BY <1>1, <1>2 DEF InOrder
  <2>2. next(t)[2] \in (IF heads(tasks[t], "webhook") THEN Hook ELSE User)
    BY <2>1
  <2> QED BY <2>2 DEF reader
<1>4. readers(tasks[t]) = {place[2] : place \in tasks[t].left \ {next(t)}} \cup {reader(t)}
  BY <1>2 DEF readers, reader
<1> QED BY <1>2, <1>3, <1>4

\* A part of the script that calls tells nobody.
LEMMA NoLoop ==
  ASSUME NEW k, heads(k, "webhook"), NEW left, NEW w, NEW known
  PROVE  InLoop(k, left, w, known)
BY DEF InLoop, heads, partOf

\* A task goes on without changing what it told.
LEMMA GoesOn ==
  ASSUME NotificationsInv, NEW t \in running, NEW k \in Task, k.script # << >>,
         k.script = tasks[t].script, k.state = "running", k.event = tasks[t].event,
         k.by = tasks[t].by, k.post = tasks[t].post, k.comment = tasks[t].comment,
         k.rows = tasks[t].rows, k.logs = tasks[t].logs,
         NEW left, left \subseteq Nat \X (IF heads(k, "webhook") THEN Hook ELSE User),
         k.told = tasks[t].told \/ \A i \in DOMAIN k.rows : k.rows[i].event # "mention",
         heads(k, "mention") => {place[2] : place \in left} \cap k.told = {},
         InLoop(k, left, wish[t], knows(t)),
         tasks' = [tasks EXCEPT ![t] = goOn(k, left)]
  PROVE  MovesTo(t, goOn(k, left))
<1> DEFINE g == goOn(k, left)
<1>1. /\ RunningOK(t) /\ Promised(tasks[t], wish[t], knows(t))
      /\ \A i, j \in DOMAIN k.script : k.script[i] = k.script[j] => i = j
  BY Running
<1>2. /\ g \in Task /\ InOrder(g) /\ g.state = "running"
      /\ g.by = tasks[t].by /\ g.post = tasks[t].post /\ g.comment = tasks[t].comment
      /\ g.rows = tasks[t].rows /\ g.logs = tasks[t].logs
  BY <1>1, GoneOn
<1>3. KeepsPromise(g, wish[t], knows(t))
  <2>1. \A e : toldIn(k, e) = toldIn(tasks[t], e)
    BY DEF toldIn
  <2>2. Promised(k, wish[t], knows(t))
    BY <1>1, <2>1 DEF Promised
  <2> QED BY <1>1, <2>2, PromiseGoesOn
<1>4. NotAgain(g)
  <2>1. NotAgain(tasks[t])
    BY <1>1 DEF RunningOK, TaskOK
  <2>2. /\ \A i \in DOMAIN k.rows : k.rows[i].event = "mention" => k.rows[i].to \notin k.told
        /\ ~heads(k, "mention") /\ Contains(k.script, "mention") =>
             \A i \in DOMAIN k.rows : k.rows[i].event # "mention"
    BY <2>1 DEF NotAgain, heads
  <2> QED BY <1>1, <2>2, NotAgainGoesOn
<1>5. LogsRows(g) /\ \A i \in DOMAIN g.rows : g.rows[i].task = t
  <2>1. LogsRows(tasks[t]) /\ \A i \in DOMAIN tasks[t].rows : tasks[t].rows[i].task = t
    BY <1>1 DEF RunningOK, TaskOK
  <2>2. textPost(g) = textPost(tasks[t])
    BY <1>2 DEF textPost
  <2> QED BY <1>2, <2>1, <2>2 DEF LogsRows
<1> HIDE DEF g
<1> SUFFICES MovesTo(t, g)
  BY DEF g
<1>6. tasks' = [tasks EXCEPT ![t] = g]
  BY DEF g
<1> QED BY <1>2, <1>3, <1>4, <1>5, <1>6 DEF MovesTo, TaskOK

\* A task changes only in its step, in whom it has left or in what it holds.
LEMMA Pauses ==
  ASSUME NotificationsInv, NEW t \in running, NEW g \in Task, tasks' = [tasks EXCEPT ![t] = g],
         g.script = tasks[t].script, g.state = "running", g.event = tasks[t].event,
         g.by = tasks[t].by, g.post = tasks[t].post, g.comment = tasks[t].comment,
         g.rows = tasks[t].rows, g.logs = tasks[t].logs, g.told = tasks[t].told,
         g.step = "each" => tasks[t].step = "each" /\ g.left = tasks[t].left,
         tasks[t].step = "each" => g.step = "each" \/ ~heads(g, "mention"),
         InOrder(g), g.step \in {"log", "each"} => InLoop(g, g.left, wish[t], knows(t))
  PROVE  MovesTo(t, g)
<1>1. RunningOK(t) /\ Promised(tasks[t], wish[t], knows(t))
  BY Running
<1>2. \A e : toldIn(g, e) = toldIn(tasks[t], e)
  BY DEF toldIn
<1>3. KeepsPromise(g, wish[t], knows(t))
  BY <1>1, <1>2 DEF Promised, KeepsPromise
<1>4. NotAgain(g)
  <2>1. NotAgain(tasks[t])
    BY <1>1 DEF RunningOK, TaskOK
  <2> QED BY <2>1 DEF NotAgain, heads, readers
<1>5. LogsRows(g) /\ \A i \in DOMAIN g.rows : g.rows[i].task = t
  <2>1. textPost(g) = textPost(tasks[t])
    BY DEF textPost
  <2> QED BY <1>1, <2>1 DEF LogsRows, RunningOK, TaskOK
<1> QED BY <1>3, <1>4, <1>5 DEF MovesTo, TaskOK

\* Whoever is left to be told after the readers were found wanted to be told then,
\* and everybody who always wanted to is left (ReadUsers).
LEMMA ReadUsersMoves ==
  ASSUME NotificationsInv, NEW t \in running, ReadUsers(t)
  PROVE  \E g : MovesTo(t, g)
<1> DEFINE k == tasks[t]
           found == getActiveSubscribers(k.post, eventOf(t))
<1>1. /\ t \in DOMAIN tasks /\ k \in Task /\ k.state = "running" /\ Promised(k, wish[t], knows(t))
      /\ Watched(t) /\ InOrder(k) /\ NotAgain(k) /\ Basics
      /\ k.event \in Event \ {"mention"} /\ k.mentions \in Seq(Name)
  BY Running DEF RunningOK, TaskOK, Task
<1>2. found \subseteq User
  BY DEF getActiveSubscribers
<1>3. CASE at(t, "notify")
  <2> DEFINE left == {1} \X (found \ {k.by})
  <2>1. heads(k, "notify") /\ k.script # << >> /\ ~heads(k, "webhook") /\ ~heads(k, "mention") /\ eventOf(t) = k.event
    BY <1>3 DEF at, heads, eventOf
  <2>2. left \subseteq Nat \X (IF heads(k, "webhook") THEN Hook ELSE User)
    BY <1>2, <2>1
  <2>3. {place[2] : place \in left} = found \ {k.by}
    <3>1. \A u : u \in found \ {k.by} => <<1, u>> \in left /\ <<1, u>>[2] = u
      OBVIOUS
    <3>2. \A place \in left : place[2] \in found \ {k.by}
      OBVIOUS
    <3> HIDE DEF left, found
    <3> QED BY <3>1, <3>2
  <2>4. wanting(t, k.event) = found \ {k.by}
    BY <1>1, <2>1, FoundAreWanting
  <2>5. InLoop(k, left, wish[t], knows(t))
    <3>1. ASSUME NEW e \in DOMAIN wish[t], heads(k, partOf(e)) PROVE e = k.event
      BY <1>1, <2>1, <3>1 DEF Promised, partOf, heads
    <3>2. \A e \in DOMAIN wish[t] : wish[t][e].always \subseteq wanting(t, e) /\ wanting(t, e) \subseteq wish[t][e].ever
      BY <1>1 DEF Watched
    <3> QED BY <2>3, <2>4, <3>1, <3>2 DEF InLoop
  <2>6. tasks' = [tasks EXCEPT ![t] = goOn(k, left)]
    BY <1>3, <2>1 DEF ReadUsers, at
  <2> HIDE DEF left, found
  <2>7. MovesTo(t, goOn(k, left))
    BY <1>1, <2>1, <2>2, <2>5, <2>6, GoesOn
  <2> QED BY <2>7
<1>4. CASE at(t, "mention")
  <2> DEFINE left == {place \in (DOMAIN k.mentions) \X found : place[1] \in namedIn(t, place[2])}
             g == [k EXCEPT !.left = left, !.step = "log"]
  <2>1. heads(k, "mention") /\ ~heads(k, "webhook") /\ ~heads(k, "notify") /\ eventOf(t) = "mention"
    BY <1>4 DEF at, heads, eventOf
  <2>2. left \subseteq Nat \X User
    <3>1. DOMAIN k.mentions \subseteq Nat
      BY <1>1
    <3> QED BY <1>2, <3>1
  <2>3. {place[2] : place \in left} = {u \in found : account[u].name \in Range(k.mentions)}
    <3>1. ASSUME NEW u \in found, account[u].name \in Range(k.mentions)
          PROVE  u \in {place[2] : place \in left}
      <4>1. PICK i \in DOMAIN k.mentions : k.mentions[i] = account[u].name
        BY <3>1 DEF Range
      <4>2. <<i, u>> \in (DOMAIN k.mentions) \X found /\ <<i, u>>[1] = i /\ <<i, u>>[2] = u
        BY <3>1, <4>1
      <4>3. i \in namedIn(t, u)
        BY <4>1 DEF namedIn
      <4> QED BY <4>2, <4>3
    <3>2. ASSUME NEW place \in left
          PROVE  place[2] \in found /\ account[place[2]].name \in Range(k.mentions)
      BY DEF namedIn, Range
    <3> HIDE DEF left, found
    <3> QED BY <3>1, <3>2
  <2>4. wanting(t, "mention") = {u \in found \ {k.by} : account[u].name \in Range(k.mentions)}
    BY <1>1, <2>1, FoundAreWanting DEF Event
  <2>5. InLoop(k, left, wish[t], knows(t))
    <3>1. ASSUME NEW e \in DOMAIN wish[t], heads(k, partOf(e)) PROVE e = "mention"
      BY <2>1, <3>1 DEF partOf
    <3>2. \A e \in DOMAIN wish[t] : wish[t][e].always \subseteq wanting(t, e) /\ wanting(t, e) \subseteq wish[t][e].ever
      BY <1>1 DEF Watched
    <3> HIDE DEF found, left
    <3> QED BY <2>3, <2>4, <3>1, <3>2 DEF InLoop
  <2>6. tasks' = [tasks EXCEPT ![t] = g]
    BY <1>4, <2>1 DEF ReadUsers, at
  <2> HIDE DEF left
  <2>7. /\ g \in Task /\ g.script = k.script /\ g.state = "running" /\ g.event = k.event
        /\ g.by = k.by /\ g.post = k.post /\ g.comment = k.comment
        /\ g.rows = k.rows /\ g.logs = k.logs /\ g.told = k.told /\ g.step = "log" /\ g.left = left
    <3>1. left \in SUBSET (Nat \X (User \cup Hook)) /\ k \in Task /\ k.state = "running"
      BY <1>1, <2>2
    <3>2. g \in Task
      BY <3>1 DEF Task
    <3> QED BY <3>1, <3>2 DEF Task
  <2> HIDE DEF g
  <2>8. InOrder(g)
    BY <1>1, <2>1, <2>2, <2>7 DEF InOrder, heads
  <2>9. InLoop(g, g.left, wish[t], knows(t))
    <3>1. \A e : toldIn(g, e) = toldIn(k, e)
      BY <2>7 DEF toldIn
    <3> QED BY <2>5, <2>7, <3>1 DEF InLoop, heads
  <2>10. MovesTo(t, g)
    <3>1. k.step = "query"
      BY DEF ReadUsers
    <3> QED BY <2>6, <2>7, <2>8, <2>9, <3>1, Pauses
  <2> QED BY <2>10
<1> QED BY <1>3, <1>4 DEF ReadUsers

\* The log takes only those off whom the notifications, or their own tasks, show
\* as knowing; and it takes all off whom the notifications show as told (ReadLog).
LEMMA ReadLogMoves ==
  ASSUME NotificationsInv, NEW t \in running, ReadLog(t)
  PROVE  \E g : MovesTo(t, g)
<1> DEFINE k == tasks[t]
           log == getMentionsNotifications(textPost(k), k.comment)
           left == {place \in k.left : place[2] \notin log}
           l == [k EXCEPT !.told = toldOfText(t)]
<1>1. /\ t \in DOMAIN tasks /\ k \in Task /\ k.state = "running"
      /\ InOrder(k) /\ NotAgain(k) /\ LogAgrees /\ Basics
      /\ heads(k, "mention") /\ k.script # << >> /\ ~heads(k, "webhook") /\ k.step = "log"
      /\ InLoop(k, k.left, wish[t], knows(t))
  BY Running DEF RunningOK, TaskOK, KeepsPromise, ReadLog, at, heads
<1>2. toldOfText(t) \subseteq User
  <2>1. \A i \in DOMAIN notifications : notifications[i] \in Notice
    BY <1>1 DEF Basics, TypeOK
  <2> QED BY <2>1 DEF toldOfText, Notice
<1>3. toldOfText(t) \subseteq log
  <2> SUFFICES ASSUME NEW i \in DOMAIN notifications, notifications[i].event = "mention",
                      sameText(notifications[i], t)
               PROVE  notifications[i].to \in log
    BY DEF toldOfText
  <2>1. <<notifications[i].to, textPost(k), k.comment>> \in mentioned
    BY <1>1 DEF LogAgrees, logOf, sameText
  <2> QED BY <2>1 DEF getMentionsNotifications
<1>4. log \subseteq knows(t)
  <2> SUFFICES ASSUME NEW m \in mentioned, m[2] = textPost(k), m[3] = k.comment
               PROVE  m[1] \in knows(t)
    BY DEF getMentionsNotifications
  <2>1. CASE \E s \in DOMAIN tasks : /\ tasks[s].state = "committed" /\ "mention" \in DOMAIN wish[s]
                                     /\ m = <<tasks[s].by, textPost(tasks[s]), tasks[s].comment>>
    BY <2>1 DEF knows, sameText
  <2>2. CASE \E i \in DOMAIN notifications : notifications[i].event = "mention" /\ logOf(notifications[i]) = m
    BY <2>2 DEF knows, sameText, toldOfText, logOf
  <2> QED BY <1>1, <2>1, <2>2 DEF LogAgrees
<1>5. tasks' = [tasks EXCEPT ![t] = goOn(l, left)]
  BY <1>1 DEF ReadLog
<1>6. left \subseteq Nat \X (IF heads(k, "webhook") THEN Hook ELSE User)
  BY <1>1 DEF InOrder
<1>7. {place[2] : place \in left} = readers(k) \ log
  BY DEF readers
<1> HIDE DEF left, log
<1>8. /\ l \in Task /\ l.script = k.script /\ l.state = "running" /\ l.event = k.event
      /\ l.by = k.by /\ l.post = k.post /\ l.comment = k.comment
      /\ l.rows = k.rows /\ l.logs = k.logs /\ l.told = toldOfText(t)
  BY <1>1, <1>2 DEF Task
<1> HIDE DEF l
<1>9. InLoop(l, left, wish[t], knows(t))
  <2>1. \A e : toldIn(l, e) = toldIn(k, e)
    BY <1>8 DEF toldIn
  <2>2. ASSUME NEW e \in DOMAIN wish[t], heads(l, partOf(e))
        PROVE  /\ {place[2] : place \in left} \subseteq wish[t][e].ever \cup {l.by}
               /\ wish[t][e].always \subseteq
                    {place[2] : place \in left} \cup toldIn(l, e) \cup excused(e, knows(t))
    <3>1. e = "mention" /\ heads(k, partOf(e))
      BY <1>1, <1>8, <2>2 DEF heads, partOf
    <3>2. excused(e, knows(t)) = knows(t)
      BY <3>1 DEF excused
    <3>3. /\ readers(k) \subseteq wish[t][e].ever \cup {k.by}
          /\ wish[t][e].always \subseteq readers(k) \cup toldIn(k, e) \cup excused(e, knows(t))
      BY <1>1, <2>2, <3>1 DEF InLoop, readers
    <3> QED BY <1>4, <1>7, <1>8, <2>1, <3>2, <3>3
  <2> QED BY <2>2 DEF InLoop
<1>10. \A i \in DOMAIN l.rows : l.rows[i].event # "mention"
  <2>1. Contains(k.script, "mention")
    <3>1. 1 \in 1 .. Len(k.script) /\ Head(k.script) = k.script[1]
      BY <1>1, k.script \in Seq({"notify", "mention", "webhook"}) DEF Task
    <3> QED BY <1>1, <3>1 DEF Contains, heads
  <2> QED BY <1>1, <1>8, <2>1 DEF NotAgain
<1>11. MovesTo(t, goOn(l, left))
  <2>1. /\ l.script # << >> /\ left \subseteq Nat \X (IF heads(l, "webhook") THEN Hook ELSE User)
        /\ {place[2] : place \in left} \cap l.told = {}
    BY <1>1, <1>3, <1>6, <1>7, <1>8 DEF heads
  <2> QED BY <1>5, <1>8, <1>9, <1>10, <2>1, GoesOn
<1> QED BY <1>11

\* A row more is locked (LockRow).
LEMMA LockRowMoves ==
  ASSUME NotificationsInv, NEW t \in running, LockRow(t)
  PROVE  \E g : MovesTo(t, g)
<1> DEFINE k == tasks[t]
           g == [k EXCEPT !.held = @ \cup {wantsRow(t)}]
<1>1. /\ t \in DOMAIN tasks /\ k \in Task /\ k.state = "running" /\ InOrder(k)
      /\ k.step = "each" /\ InLoop(k, k.left, wish[t], knows(t))
  BY Running DEF RunningOK, TaskOK, KeepsPromise, LockRow, telling
<1>2. wantsRow(t) \in User \cup Hook
  <2>1. wantsRow(t) \in {reader(t), k.by} /\ k.by \in User
    BY <1>1 DEF LockRow, rowFree, wantsRow, Task
  <2> QED BY <1>1, <2>1, Readers
<1>3. tasks' = [tasks EXCEPT ![t] = g]
  BY DEF LockRow
<1>4. /\ g \in Task /\ g.script = k.script /\ g.state = "running" /\ g.event = k.event
      /\ g.by = k.by /\ g.post = k.post /\ g.comment = k.comment
      /\ g.rows = k.rows /\ g.logs = k.logs /\ g.told = k.told /\ g.step = k.step /\ g.left = k.left
  BY <1>1, <1>2 DEF Task
<1> HIDE DEF g
<1>5. InOrder(g)
  BY <1>1, <1>4 DEF InOrder, heads
<1>6. InLoop(g, g.left, wish[t], knows(t))
  <2>1. \A e : toldIn(g, e) = toldIn(k, e)
    BY <1>4 DEF toldIn
  <2> QED BY <1>1, <1>4, <2>1 DEF InLoop, heads
<1>7. MovesTo(t, g)
  BY <1>1, <1>3, <1>4, <1>5, <1>6, Pauses
<1> QED BY <1>7

\* The one who is next is told, unless it was their doing, and a mention is logged
\* (Tell).
LEMMA TellMoves ==
  ASSUME NotificationsInv, NEW t \in running, Tell(t)
  PROVE  \E g : MovesTo(t, g)
<1> DEFINE k == tasks[t]
           u == reader(t)
           left == k.left \ {next(t)}
           new == addNewNotification(t)
           logs == k.logs \cup (IF at(t, "mention") THEN {AddMentionNotification(t)} ELSE {})
           l == [k EXCEPT !.rows = @ \o new, !.logs = logs]
<1>1. /\ t \in DOMAIN tasks /\ k \in Task /\ k.state = "running" /\ RunningOK(t) /\ Basics
      /\ InOrder(k) /\ NotAgain(k) /\ LogsRows(k) /\ \A i \in DOMAIN k.rows : k.rows[i].task = t
      /\ k.step = "each" /\ InLoop(k, k.left, wish[t], knows(t)) /\ Promised(k, wish[t], knows(t))
      /\ k.script # << >> /\ ~heads(k, "webhook") /\ (heads(k, "mention") \/ heads(k, "notify"))
      /\ \A i, j \in DOMAIN k.script : k.script[i] = k.script[j] => i = j
  BY Running DEF RunningOK, TaskOK, KeepsPromise, Tell, telling, at, heads
<1>2. /\ next(t) \in k.left /\ u \in User /\ u \in readers(k)
      /\ readers(k) = {place[2] : place \in left} \cup {u}
  BY <1>1, Readers
<1>3. /\ k.by \in User /\ k.post \in PostId /\ k.comment \in CommentId \cup {None}
      /\ k.event \in Event \ {"mention"} /\ k.rows \in Seq(Notice) /\ k.logs \subseteq Mentioned
  BY <1>1 DEF Task
<1>4. /\ eventOf(t) = "mention" <=> heads(k, "mention")
      /\ eventOf(t) \in Event /\ heads(k, partOf(eventOf(t)))
      /\ \A e \in DOMAIN wish[t] : heads(k, partOf(e)) => e = eventOf(t)
  BY <1>1, <1>3 DEF eventOf, at, heads, partOf, Event, Promised
<1> DEFINE n == [to |-> u, by |-> k.by, event |-> eventOf(t), post |-> k.post,
                 comment |-> k.comment, task |-> t, read |-> FALSE]
<1>5. n \in Notice
  <2>1. t \in 1 .. MaxTasks
    <3>1. t \in 1 .. Len(tasks) /\ Len(tasks) <= MaxTasks
      BY <1>1 DEF Basics, TypeOK
    <3> QED BY <3>1, BoundsAssumption
  <2> QED BY <1>2, <1>3, <1>4, <2>1 DEF Notice
<1>6. /\ n.to = u /\ n.event = eventOf(t) /\ n.task = t
      /\ logOf(n) = <<u, textPost(k), k.comment>>
  BY DEF logOf, textPost
<1>7. IF u = k.by THEN new = << >> ELSE new = <<n>>
  BY DEF addNewNotification
<1>8. AddMentionNotification(t) = <<u, textPost(k), k.comment>> /\ <<u, textPost(k), k.comment>> \in Mentioned
  BY <1>2, <1>3 DEF AddMentionNotification, textPost, Mentioned
<1> HIDE DEF n
<1>9. /\ k.rows \o new \in Seq(Notice)
      /\ \A i \in DOMAIN k.rows : i \in DOMAIN (k.rows \o new) /\ (k.rows \o new)[i] = k.rows[i]
      /\ u = k.by => k.rows \o new = k.rows
      /\ u # k.by => \E i \in DOMAIN (k.rows \o new) : (k.rows \o new)[i] = n
      /\ \A i \in DOMAIN (k.rows \o new) :
           (i \in DOMAIN k.rows /\ (k.rows \o new)[i] = k.rows[i]) \/ (u # k.by /\ (k.rows \o new)[i] = n)
  <2>1. CASE u = k.by
    BY <1>3, <1>7, <2>1
  <2>2. CASE u # k.by
    <3>1. new = <<n>> /\ k.rows \o <<n>> \in Seq(Notice) /\ Len(k.rows \o <<n>>) = Len(k.rows) + 1
      BY <1>3, <1>5, <1>7, <2>2
    <3>2. /\ \A i \in 1 .. Len(k.rows) : (k.rows \o <<n>>)[i] = k.rows[i]
          /\ (k.rows \o <<n>>)[Len(k.rows) + 1] = n
      BY <1>3, <1>5
    <3>3. DOMAIN k.rows = 1 .. Len(k.rows) /\ Len(k.rows) \in Nat
      BY <1>3
    <3>4. DOMAIN (k.rows \o <<n>>) = 1 .. (Len(k.rows) + 1)
      BY <3>1, <3>3
    <3>5. ASSUME NEW i \in DOMAIN (k.rows \o <<n>>)
          PROVE  (i \in DOMAIN k.rows /\ (k.rows \o <<n>>)[i] = k.rows[i]) \/ (k.rows \o <<n>>)[i] = n
      <4>1. i \in 1 .. Len(k.rows) \/ i = Len(k.rows) + 1
        BY <3>3, <3>4
      <4> QED BY <3>2, <3>3, <4>1
    <3>6. /\ \A i \in DOMAIN k.rows : i \in DOMAIN (k.rows \o <<n>>) /\ (k.rows \o <<n>>)[i] = k.rows[i]
          /\ \E i \in DOMAIN (k.rows \o <<n>>) : (k.rows \o <<n>>)[i] = n
      <4>1. /\ Len(k.rows) + 1 \in DOMAIN (k.rows \o <<n>>)
            /\ \A i \in DOMAIN k.rows : i \in DOMAIN (k.rows \o <<n>>) /\ i \in 1 .. Len(k.rows)
        <5>1. \A i \in 1 .. Len(k.rows) : i \in 1 .. (Len(k.rows) + 1)
          BY <3>3
        <5>2. Len(k.rows) + 1 \in 1 .. (Len(k.rows) + 1)
          BY <3>3
        <5> QED BY <3>3, <3>4, <5>1, <5>2, Zenon
      <4> QED BY <3>2, <4>1, Zenon
    <3> QED BY <2>2, <3>1, <3>5, <3>6
  <2> QED BY <2>1, <2>2
<1>10. tasks' = [tasks EXCEPT ![t] = goOn(l, left)]
  BY DEF Tell
<1> HIDE DEF new, left, u
<1>11. /\ l \in Task /\ l.script = k.script /\ l.state = "running" /\ l.event = k.event
       /\ l.by = k.by /\ l.post = k.post /\ l.comment = k.comment /\ l.told = k.told
       /\ l.rows = k.rows \o new /\ l.logs = logs
  BY <1>1, <1>3, <1>8, <1>9 DEF Task
<1> HIDE DEF l
<1>12. left \subseteq Nat \X (IF heads(l, "webhook") THEN Hook ELSE User)
  BY <1>1, <1>11 DEF left, InOrder, heads
<1>13. /\ \A e : toldIn(l, e) \subseteq toldIn(k, e) \cup (IF u # k.by /\ e = eventOf(t) THEN {u} ELSE {})
       /\ \A e : toldIn(k, e) \subseteq toldIn(l, e)
       /\ u # k.by => u \in toldIn(l, eventOf(t))
  <2>1. ASSUME NEW e, NEW i \in DOMAIN l.rows, l.rows[i].event = e
        PROVE  l.rows[i].to \in toldIn(k, e) \cup (IF u # k.by /\ e = eventOf(t) THEN {u} ELSE {})
    BY <1>6, <1>9, <1>11, <2>1 DEF toldIn
  <2>2. \A e : toldIn(k, e) \subseteq toldIn(l, e)
    BY <1>9, <1>11 DEF toldIn
  <2>3. ASSUME u # k.by PROVE u \in toldIn(l, eventOf(t))
    <3>1. PICK i \in DOMAIN l.rows : l.rows[i] = n
      BY <1>9, <1>11, <2>3
    <3> QED BY <1>6, <3>1 DEF toldIn
  <2>4. \A e : toldIn(l, e) \subseteq toldIn(k, e) \cup (IF u # k.by /\ e = eventOf(t) THEN {u} ELSE {})
    <3> SUFFICES ASSUME NEW e, NEW v \in toldIn(l, e)
                 PROVE  v \in toldIn(k, e) \cup (IF u # k.by /\ e = eventOf(t) THEN {u} ELSE {})
      OBVIOUS
    <3>1. PICK i \in DOMAIN l.rows : l.rows[i].event = e /\ v = l.rows[i].to
      BY DEF toldIn
    <3> QED BY <2>1, <3>1
  <2> QED BY <2>2, <2>3, <2>4
<1>14. Promised(l, wish[t], knows(t)) /\ InLoop(l, left, wish[t], knows(t))
  <2>1. eventOf(t) \in DOMAIN wish[t]
    <3>1. Contains(k.script, partOf(eventOf(t)))
      <4>1. 1 \in 1 .. Len(k.script) /\ Head(k.script) = k.script[1]
        BY <1>1, k.script \in Seq({"notify", "mention", "webhook"}) DEF Task
      <4> QED BY <1>4, <4>1 DEF Contains, heads
    <3>2. eventOf(t) \in {k.event, "mention"}
      BY DEF eventOf
    <3> QED BY <1>1, <3>1, <3>2 DEF Promised
  <2>2. /\ readers(k) \subseteq wish[t][eventOf(t)].ever \cup {k.by}
        /\ wish[t][eventOf(t)].always \subseteq
             readers(k) \cup toldIn(k, eventOf(t)) \cup excused(eventOf(t), knows(t))
    BY <1>1, <1>4, <2>1 DEF InLoop, readers
  <2>3. k.by \notin wish[t][eventOf(t)].always
    BY <1>1, <2>1 DEF RunningOK, Watched, wanting
  <2>4. Promised(l, wish[t], knows(t))
    <3>1. \A i \in DOMAIN l.rows : l.rows[i].event \in DOMAIN wish[t]
      BY <1>1, <1>6, <1>9, <1>11, <2>1 DEF Promised
    <3>2. l.logs # {} => "mention" \in DOMAIN wish[t]
      BY <1>1, <1>4, <1>11, <2>1 DEF Promised, at, heads
    <3>3. ASSUME NEW e \in DOMAIN wish[t] PROVE toldIn(l, e) \subseteq wish[t][e].ever
      BY <1>1, <1>2, <1>13, <2>2 DEF Promised
    <3>4. ASSUME NEW e \in DOMAIN wish[t], ~Contains(l.script, partOf(e))
          PROVE  wish[t][e].always \subseteq toldIn(l, e) \cup excused(e, knows(t))
      BY <1>1, <1>11, <1>13, <3>4 DEF Promised
    <3> QED BY <1>1, <1>11, <3>1, <3>2, <3>3, <3>4 DEF Promised
  <2>5. ASSUME NEW e \in DOMAIN wish[t], heads(l, partOf(e))
        PROVE  /\ {place[2] : place \in left} \subseteq wish[t][e].ever \cup {l.by}
               /\ wish[t][e].always \subseteq
                    {place[2] : place \in left} \cup toldIn(l, e) \cup excused(e, knows(t))
    <3>1. e = eventOf(t)
      BY <1>4, <1>11, <2>5 DEF heads
    <3> QED BY <1>2, <1>11, <1>13, <2>2, <2>3, <3>1
  <2> QED BY <2>4, <2>5 DEF InLoop
<1>15. /\ \A i \in DOMAIN l.rows : l.rows[i].event = "mention" => l.rows[i].to \notin l.told
       /\ ~heads(l, "mention") /\ Contains(l.script, "mention") =>
            \A i \in DOMAIN l.rows : l.rows[i].event # "mention"
       /\ heads(l, "mention") => {place[2] : place \in left} \cap l.told = {}
  <2>1. heads(k, "mention") => readers(k) \cap k.told = {}
    BY <1>1 DEF NotAgain
  <2>2. \A i \in DOMAIN l.rows : l.rows[i].event = "mention" => l.rows[i].to \notin l.told
    BY <1>1, <1>2, <1>4, <1>6, <1>9, <1>11, <2>1 DEF NotAgain
  <2>3. ASSUME ~heads(l, "mention"), Contains(l.script, "mention"), NEW i \in DOMAIN l.rows
        PROVE  l.rows[i].event # "mention"
    BY <1>1, <1>4, <1>6, <1>9, <1>11, <2>3 DEF NotAgain, heads
  <2>4. heads(l, "mention") => {place[2] : place \in left} \cap l.told = {}
    BY <1>2, <1>11, <2>1 DEF heads
  <2> QED BY <2>2, <2>3, <2>4
<1>16. LogsRows(l) /\ \A i \in DOMAIN l.rows : l.rows[i].task = t
  <2>1. \A i \in DOMAIN l.rows : l.rows[i].task = t
    BY <1>1, <1>6, <1>9, <1>11
  <2>2. ASSUME NEW i \in DOMAIN l.rows, l.rows[i].event = "mention"
        PROVE  logOf(l.rows[i]) \in l.logs
    <3>1. CASE i \in DOMAIN k.rows /\ l.rows[i] = k.rows[i]
      BY <1>1, <1>11, <2>2, <3>1 DEF LogsRows
    <3>2. CASE l.rows[i] = n
      BY <1>4, <1>6, <1>8, <1>11, <2>2, <3>2 DEF at, heads
    <3> QED BY <1>9, <1>11, <3>1, <3>2
  <2>3. ASSUME NEW m \in l.logs
        PROVE  \/ m = <<l.by, textPost(l), l.comment>>
               \/ \E i \in DOMAIN l.rows : l.rows[i].event = "mention" /\ logOf(l.rows[i]) = m
    <3>1. textPost(l) = textPost(k)
      BY <1>11 DEF textPost
    <3>2. CASE m \in k.logs
      <4>1. CASE m = <<k.by, textPost(k), k.comment>>
        BY <1>11, <3>1, <4>1
      <4>2. CASE \E i \in DOMAIN k.rows : k.rows[i].event = "mention" /\ logOf(k.rows[i]) = m
        BY <1>9, <1>11, <4>2
      <4> QED BY <1>1, <3>2, <4>1, <4>2 DEF LogsRows
    <3>3. CASE m \notin k.logs
      <4>1. m = <<u, textPost(k), k.comment>> /\ heads(k, "mention")
        BY <1>8, <1>11, <2>3, <3>3 DEF at, heads
      <4>2. CASE u = k.by
        BY <1>11, <3>1, <4>1, <4>2
      <4>3. CASE u # k.by
        <5>1. PICK i \in DOMAIN l.rows : l.rows[i] = n
          BY <1>9, <1>11, <4>3
        <5> QED BY <1>4, <1>6, <4>1, <5>1
      <4> QED BY <4>2, <4>3
    <3> QED BY <3>2, <3>3
  <2> QED BY <2>1, <2>2, <2>3 DEF LogsRows
<1>17. MovesTo(t, goOn(l, left))
  <2> DEFINE g == goOn(l, left)
  <2>1. l.script # << >> /\ \A i, j \in DOMAIN l.script : l.script[i] = l.script[j] => i = j
    BY <1>1, <1>11
  <2>2. /\ g \in Task /\ InOrder(g) /\ g.state = "running"
        /\ g.by = k.by /\ g.post = k.post /\ g.comment = k.comment
        /\ g.rows = l.rows /\ g.logs = l.logs
    BY <1>11, <1>12, <2>1, GoneOn
  <2>3. KeepsPromise(g, wish[t], knows(t))
    BY <1>11, <1>12, <1>14, <2>1, PromiseGoesOn
  <2>4. NotAgain(g)
    BY <1>11, <1>12, <1>15, <2>1, NotAgainGoesOn
  <2> HIDE DEF g
  <2>5. LogsRows(g) /\ \A i \in DOMAIN g.rows : g.rows[i].task = t
    <3>1. textPost(g) = textPost(l)
      BY <1>11, <2>2 DEF textPost
    <3> QED BY <1>11, <1>16, <2>2, <3>1 DEF LogsRows
  <2>6. tasks' = [tasks EXCEPT ![t] = g]
    BY <1>10 DEF g
  <2>7. MovesTo(t, g)
    BY <2>2, <2>3, <2>4, <2>5, <2>6 DEF MovesTo, TaskOK
  <2> QED BY <2>7 DEF g
<1> QED BY <1>17

\* The webhooks of an event are found, called and marked without telling anybody.
LEMMA WebhooksMove ==
  ASSUME NotificationsInv, NEW t \in running, ListWebhooks(t) \/ triggerWebhook(t) \/ MarkFailed(t)
  PROVE  \E g : MovesTo(t, g)
<1> DEFINE k == tasks[t]
<1>1. /\ t \in DOMAIN tasks /\ k \in Task /\ k.state = "running" /\ InOrder(k) /\ Basics
      /\ heads(k, "webhook") /\ ~heads(k, "mention") /\ k.script # << >>
  BY Running DEF RunningOK, TaskOK, InOrder, ListWebhooks, triggerWebhook, MarkFailed, at, heads
<1>2. ASSUME NEW left, left \subseteq Nat \X Hook, NEW l \in Task, l.script = k.script,
             l.state = "running", l.event = k.event,
             l.by = k.by, l.post = k.post, l.comment = k.comment,
             l.rows = k.rows, l.logs = k.logs, l.told = k.told,
             tasks' = [tasks EXCEPT ![t] = goOn(l, left)]
      PROVE  \E g : MovesTo(t, g)
  <2>1. /\ heads(l, "webhook") /\ ~heads(l, "mention") /\ l.script # << >>
        /\ left \subseteq Nat \X (IF heads(l, "webhook") THEN Hook ELSE User)
    BY <1>1, <1>2 DEF heads
  <2>2. InLoop(l, left, wish[t], knows(t))
    BY <2>1, NoLoop
  <2>3. MovesTo(t, goOn(l, left))
    BY <1>2, <2>1, <2>2, GoesOn
  <2> QED BY <2>3
<1>3. k.left \subseteq Nat \X Hook
  BY <1>1 DEF InOrder
<1>4. CASE ListWebhooks(t)
  <2> DEFINE active == {h \in rowsOf(hooks) : hooks[h].type = k.type /\ hooks[h].status = "enabled"}
  <2>1. {1} \X active \subseteq Nat \X Hook
    <3>1. active \subseteq Hook
      BY <1>1 DEF Basics, TypeOK, rowsOf
    <3> HIDE DEF active
    <3> QED BY <3>1
  <2>2. tasks' = [tasks EXCEPT ![t] = goOn(k, {1} \X active)]
    BY <1>4 DEF ListWebhooks
  <2> HIDE DEF active
  <2> QED BY <1>1, <1>2, <2>1, <2>2
<1>5. CASE triggerWebhook(t)
  <2>1. CASE tasks' = [tasks EXCEPT ![t] = goOn(@, @.left \ {next(t)})]
    <3>1. tasks' = [tasks EXCEPT ![t] = goOn(k, k.left \ {next(t)})] /\ k.left \ {next(t)} \subseteq Nat \X Hook
      BY <1>3, <2>1
    <3> QED BY <1>1, <1>2, <3>1
  <2>2. CASE tasks' = [tasks EXCEPT ![t].step = "failed"]
    <3> DEFINE g == [k EXCEPT !.step = "failed"]
    <3>1. tasks' = [tasks EXCEPT ![t] = g]
      BY <2>2
    <3>2. /\ g \in Task /\ g.script = k.script /\ g.state = "running" /\ g.event = k.event
          /\ g.by = k.by /\ g.post = k.post /\ g.comment = k.comment
          /\ g.rows = k.rows /\ g.logs = k.logs /\ g.told = k.told /\ g.step = "failed" /\ g.left = k.left
      BY <1>1 DEF Task
    <3> HIDE DEF g
    <3>3. k.step = "each"
      BY <1>5 DEF triggerWebhook
    <3>4. InOrder(g) /\ ~heads(g, "mention")
      BY <1>1, <3>2, <3>3 DEF InOrder, heads
    <3>5. MovesTo(t, g)
      BY <3>1, <3>2, <3>3, <3>4, Pauses
    <3> QED BY <3>5
  <2> QED BY <1>5, <2>1, <2>2 DEF triggerWebhook
<1>6. CASE MarkFailed(t)
  <2>1. reader(t) \in Hook
    BY <1>1, <1>6, Readers DEF MarkFailed
  <2> DEFINE l == [k EXCEPT !.failed = @ \cup {reader(t)}, !.held = @ \cup {reader(t)}]
  <2>2. k.left \ {next(t)} \subseteq Nat \X Hook
    BY <1>3
  <2>3. tasks' = [tasks EXCEPT ![t] = goOn(l, k.left \ {next(t)})]
    BY <1>6 DEF MarkFailed
  <2>4. /\ l \in Task /\ l.script = k.script /\ l.state = "running" /\ l.event = k.event
        /\ l.by = k.by /\ l.post = k.post /\ l.comment = k.comment
        /\ l.rows = k.rows /\ l.logs = k.logs /\ l.told = k.told
    BY <1>1, <2>1 DEF Task
  <2> HIDE DEF l
  <2> QED BY <1>2, <2>2, <2>3, <2>4
<1> QED BY <1>4, <1>5, <1>6

(***************************************************************************)
(* Steps of tasks, and their ends.                                         *)
(***************************************************************************)
\* A task that was just handed over.
Fresh(k) ==
  /\ k.state = "running" /\ k.step = "query" /\ k.left = {} /\ k.rows = << >> /\ k.logs = {}
  /\ \A i, j \in DOMAIN k.script : k.script[i] = k.script[j] => i = j

\* What a step has to leave behind that commits nothing.
LEMMA StepKeeps ==
  ASSUME NotificationsInv, Watch, Grows, TypeOK', WriterOK', scope' \in Scopes, Len(tasks') <= MaxTasks,
         DOMAIN notifications' = DOMAIN notifications, mentioned' = mentioned,
         \A t \in DOMAIN tasks' : tasks'[t].state = "committed" =>
           t \in DOMAIN tasks /\ tasks[t].state = "committed",
         \A t \in DOMAIN tasks' : tasks'[t].state = "running" =>
           \/ t \in running /\ TaskOK(tasks'[t], t) /\ KeepsPromise(tasks'[t], wish[t], knows(t))
           \/ t \notin DOMAIN tasks /\ Fresh(tasks'[t])
  PROVE  NotificationsInv'
<1>1. DOMAIN wish = DOMAIN tasks /\ LogAgrees /\ ToldIffWanted
  BY DEF NotificationsInv, Basics
<1>2. Basics'
  BY <1>1, WishGoesOn DEF Basics, Grows
<1>3. LogAgrees' /\ ToldIffWanted'
  BY <1>1, NothingCommitted
<1>4. ASSUME NEW t \in DOMAIN tasks', t \notin DOMAIN tasks, Fresh(tasks'[t])
      PROVE  RunningOK(t)'
  <2> DEFINE k == tasks'[t]
  <2>1. /\ k.step = "query" /\ k.left = {} /\ k.rows = << >> /\ k.logs = {} /\ DOMAIN k.rows = {}
        /\ \A i, j \in DOMAIN k.script : k.script[i] = k.script[j] => i = j
    BY <1>4 DEF Fresh
  <2>2. wish'[t] = [e \in toTell(t)' |-> [ever |-> wanting(t, e)', always |-> wanting(t, e)']]
    BY <1>4 DEF Watch
  <2>3. /\ DOMAIN wish'[t] = {e \in {k.event, "mention"} : Contains(k.script, partOf(e))}
        /\ \A e \in DOMAIN wish'[t] : wish'[t][e].ever = wanting(t, e)' /\ wish'[t][e].always = wanting(t, e)'
    BY <2>2 DEF toTell, partOf
  <2>4. Watched(t)'
    BY <2>3 DEF Watched
  <2> HIDE DEF k
  <2>5. KeepsPromise(k, wish'[t], knows(t)')
    BY <2>1, <2>3 DEF KeepsPromise, Promised, toldIn
  <2>6. TaskOK(k, t)
    BY <2>1 DEF TaskOK, InOrder, LogsRows, NotAgain
  <2> QED BY <2>4, <2>5, <2>6 DEF RunningOK, k
<1>5. ASSUME NEW t \in running'
      PROVE  RunningOK(t)'
  <2>1. t \in DOMAIN tasks' /\ tasks'[t].state = "running"
    BY DEF running
  <2>2. CASE t \in running /\ TaskOK(tasks'[t], t) /\ KeepsPromise(tasks'[t], wish[t], knows(t))
    BY <1>1, <2>2, RunningFollows
  <2>3. CASE t \notin DOMAIN tasks /\ Fresh(tasks'[t])
    BY <1>4, <2>1, <2>3
  <2> QED BY <2>1, <2>2, <2>3
<1> QED BY <1>2, <1>3, <1>5 DEF NotificationsInv

\* Nothing but one task changes, and that is not committed.
LEMMA OneTaskChanges ==
  ASSUME NotificationsInv, Watch, NEW t \in running, NEW g \in Task,
         tasks' = [tasks EXCEPT ![t] = g],
         g.by = tasks[t].by, g.post = tasks[t].post, g.comment = tasks[t].comment,
         g.state # "committed", g.state # "running" => g.held = {},
         g.state = "running" => TaskOK(g, t) /\ KeepsPromise(g, wish[t], knows(t)),
         UNCHANGED <<notifications, mentioned, hooks, discussionVars, account, writer>>
  PROVE  NotificationsInv'
<1>1. /\ t \in DOMAIN tasks /\ tasks \in Seq(Task) /\ Len(tasks) <= MaxTasks /\ tasks[t].state = "running"
      /\ TypeOK /\ WriterOK /\ scope \in Scopes
      /\ \A s \in DOMAIN tasks : tasks[s].state # "running" => tasks[s].held = {}
  BY DEF NotificationsInv, Basics, TypeOK, running
<1>2. /\ tasks' \in Seq(Task) /\ Len(tasks') = Len(tasks) /\ DOMAIN tasks' = DOMAIN tasks
      /\ tasks'[t] = g /\ \A s \in DOMAIN tasks : s # t => tasks'[s] = tasks[s]
  BY <1>1
<1>3. Grows
  BY <1>1, <1>2 DEF Grows
<1>4. TypeOK' /\ WriterOK' /\ scope' \in Scopes
  <2>1. WriterOK' /\ scope' \in Scopes
    BY <1>1 DEF WriterOK, discussionVars
  <2>2. \A s \in DOMAIN tasks' : tasks'[s].state # "running" => tasks'[s].held = {}
    BY <1>1, <1>2
  <2> QED BY <1>1, <1>2, <2>1, <2>2 DEF TypeOK, discussionVars
<1>5. \A s \in DOMAIN tasks' : tasks'[s].state = "committed" =>
        s \in DOMAIN tasks /\ tasks[s].state = "committed"
  BY <1>2
<1>6. ASSUME NEW s \in DOMAIN tasks', tasks'[s].state = "running"
      PROVE  s \in running /\ TaskOK(tasks'[s], s) /\ KeepsPromise(tasks'[s], wish[s], knows(s))
  <2>1. CASE s = t
    BY <1>2, <1>6, <2>1
  <2>2. CASE s # t
    BY <1>2, <1>6, <2>2 DEF running, NotificationsInv, RunningOK
  <2> QED BY <2>1, <2>2
<1> QED BY <1>1, <1>2, <1>3, <1>4, <1>5, <1>6, StepKeeps

\* What is left of a task when it is over.
LEMMA Over ==
  ASSUME NEW k \in Task, NEW state \in {"committed", "aborted"}
  PROVE  LET g == over(k, state)
         IN /\ g \in Task /\ g.state = state /\ g.held = {}
            /\ g.by = k.by /\ g.post = k.post /\ g.comment = k.comment
<1>1. << >> \in Seq({"notify", "mention", "webhook"}) /\ << >> \in Seq(Notice)
  OBVIOUS
<1> QED BY <1>1 DEF over, Task

\* A task commits: its notifications are told, and what they are about is logged
\* (CommitTask).
LEMMA CommitKeeps ==
  ASSUME NotificationsInv, Watch, NEW t \in running, CommitTask(t),
         UNCHANGED <<discussionVars, account, writer>>
  PROVE  NotificationsInv'
<1> DEFINE k == tasks[t]
           g == over(k, "committed")
<1>1. /\ t \in DOMAIN tasks /\ k \in Task /\ k.state = "running" /\ RunningOK(t) /\ Basics /\ LogAgrees
      /\ Promised(k, wish[t], knows(t)) /\ ToldIffWanted
  BY Running DEF NotificationsInv
<1>2. /\ tasks \in Seq(Task) /\ Len(tasks) <= MaxTasks /\ notifications \in Seq(Notice)
      /\ TypeOK /\ WriterOK /\ scope \in Scopes /\ DOMAIN wish = DOMAIN tasks
      /\ \A s \in DOMAIN tasks : tasks[s].state # "running" => tasks[s].held = {}
      /\ k.rows \in Seq(Notice) /\ k.logs \subseteq Mentioned
  BY <1>1 DEF Basics, TypeOK, Task
<1>3. /\ tasks' = [tasks EXCEPT ![t] = g] /\ notifications' = notifications \o k.rows
      /\ mentioned' = mentioned \cup k.logs /\ k.script = << >>
      /\ hooks' = [h \in Hook |-> IF h \in k.failed /\ hooks[h] # None
                                 THEN [hooks[h] EXCEPT !.status = "failed"] ELSE hooks[h]]
  BY DEF CommitTask
<1>4. /\ g \in Task /\ g.state = "committed" /\ g.held = {}
      /\ g.by = k.by /\ g.post = k.post /\ g.comment = k.comment
  BY <1>1, Over
<1> HIDE DEF g
<1>5. /\ tasks' \in Seq(Task) /\ Len(tasks') = Len(tasks) /\ DOMAIN tasks' = DOMAIN tasks
      /\ tasks'[t] = g /\ \A s \in DOMAIN tasks : s # t => tasks'[s] = tasks[s]
  BY <1>1, <1>2, <1>3, <1>4
<1>6. /\ notifications' \in Seq(Notice)
      /\ \A i \in DOMAIN notifications : i \in DOMAIN notifications' /\ notifications'[i] = notifications[i]
      /\ \A i \in DOMAIN k.rows : \E j \in DOMAIN notifications' : notifications'[j] = k.rows[i]
      /\ \A j \in DOMAIN notifications' :
           \/ j \in DOMAIN notifications /\ notifications'[j] = notifications[j]
           \/ \E i \in DOMAIN k.rows : notifications'[j] = k.rows[i]
  <2>1. /\ notifications' \in Seq(Notice) /\ Len(notifications') = Len(notifications) + Len(k.rows)
        /\ Len(notifications) \in Nat /\ Len(k.rows) \in Nat
        /\ DOMAIN notifications = 1 .. Len(notifications) /\ DOMAIN k.rows = 1 .. Len(k.rows)
        /\ DOMAIN notifications' = 1 .. (Len(notifications) + Len(k.rows))
    BY <1>2, <1>3
  <2>2. \A j \in 1 .. (Len(notifications) + Len(k.rows)) :
          notifications'[j] = IF j <= Len(notifications) THEN notifications[j] ELSE k.rows[j - Len(notifications)]
    BY <1>2, <1>3
  <2>3. ASSUME NEW i \in DOMAIN k.rows
        PROVE  \E j \in DOMAIN notifications' : notifications'[j] = k.rows[i]
    <3>1. /\ i + Len(notifications) \in 1 .. (Len(notifications) + Len(k.rows))
          /\ ~(i + Len(notifications) <= Len(notifications))
          /\ (i + Len(notifications)) - Len(notifications) = i
      BY <2>1
    <3> QED BY <2>1, <2>2, <3>1
  <2>4. ASSUME NEW j \in DOMAIN notifications'
        PROVE  \/ j \in DOMAIN notifications /\ notifications'[j] = notifications[j]
               \/ \E i \in DOMAIN k.rows : notifications'[j] = k.rows[i]
    <3>1. CASE j <= Len(notifications)
      BY <2>1, <2>2, <3>1
    <3>2. CASE ~(j <= Len(notifications))
      <4>1. j - Len(notifications) \in 1 .. Len(k.rows)
        BY <2>1, <3>2
      <4> QED BY <2>1, <2>2, <3>2, <4>1
    <3> QED BY <3>1, <3>2
  <2>5. \A i \in DOMAIN notifications : i \in DOMAIN notifications' /\ notifications'[i] = notifications[i]
    <3>1. \A i \in 1 .. Len(notifications) :
            i \in 1 .. (Len(notifications) + Len(k.rows)) /\ i <= Len(notifications)
      BY <2>1
    <3> QED BY <2>1, <2>2, <3>1
  <2> QED BY <2>1, <2>3, <2>4, <2>5
<1>7. Grows
  BY <1>1, <1>4, <1>5, <1>6 DEF Grows
<1>8. /\ DOMAIN wish' = DOMAIN tasks'
      /\ \A s \in DOMAIN tasks \ running : wish'[s] = wish[s]
      /\ DOMAIN wish'[t] = DOMAIN wish[t]
      /\ \A e \in DOMAIN wish[t] :
           wish[t][e].ever \subseteq wish'[t][e].ever /\ wish'[t][e].always \subseteq wish[t][e].always
  BY <1>2, <1>7, WishGoesOn DEF Grows
<1>9. Basics'
  <2>1. hooks' \in [Hook -> Webhook \cup {None}] /\ rowsOf(hooks') = rowsOf(hooks)
    <3>1. hooks \in [Hook -> Webhook \cup {None}]
      BY <1>2 DEF TypeOK
    <3>2. ASSUME NEW h \in Hook, hooks[h] # None
          PROVE  [hooks[h] EXCEPT !.status = "failed"] \in Webhook
      BY <3>1, <3>2 DEF Webhook
    <3>3. ASSUME NEW h \in Hook
          PROVE  hooks'[h] \in Webhook \cup {None} /\ (hooks'[h] # None <=> hooks[h] # None)
      BY <1>3, <3>1, <3>2, NoneIsNoHook
    <3>4. DOMAIN hooks' = Hook /\ DOMAIN hooks = Hook
      BY <1>3, <3>1
    <3>5. hooks' = [h \in Hook |-> hooks'[h]]
      BY <1>3
    <3> QED BY <3>3, <3>4, <3>5 DEF rowsOf
  <2>2. WriterOK' /\ scope' \in Scopes
    BY <1>2, <2>1 DEF WriterOK, discussionVars
  <2>3. mentioned' \subseteq Mentioned
    BY <1>2, <1>3 DEF TypeOK
  <2>4. \A s \in DOMAIN tasks' : tasks'[s].state # "running" => tasks'[s].held = {}
    BY <1>2, <1>4, <1>5
  <2>5. TypeOK'
    BY <1>2, <1>5, <1>6, <2>1, <2>3, <2>4 DEF TypeOK, discussionVars
  <2> QED BY <1>2, <1>5, <1>8, <2>2, <2>5 DEF Basics
<1>10. /\ \A i \in DOMAIN k.rows : k.rows[i].task = t
       /\ \A i \in DOMAIN k.rows : k.rows[i].event \in DOMAIN wish[t]
       /\ \A i \in DOMAIN k.rows : k.rows[i].event = "mention" => logOf(k.rows[i]) \in k.logs
  BY <1>1 DEF RunningOK, TaskOK, LogsRows, Promised
<1>11. LogAgrees'
  <2>1. \A i \in DOMAIN notifications :
          /\ notifications[i].task \in DOMAIN tasks /\ tasks[notifications[i].task].state = "committed"
          /\ notifications[i].event = "mention" => logOf(notifications[i]) \in mentioned
    BY <1>1 DEF LogAgrees
  <2>2. ASSUME NEW j \in DOMAIN notifications'
        PROVE  /\ notifications'[j].task \in DOMAIN tasks' /\ tasks'[notifications'[j].task].state = "committed"
               /\ notifications'[j].event = "mention" => logOf(notifications'[j]) \in mentioned'
    <3>1. CASE j \in DOMAIN notifications /\ notifications'[j] = notifications[j]
      BY <1>3, <1>7, <2>1, <3>1 DEF Grows
    <3>2. CASE \E i \in DOMAIN k.rows : notifications'[j] = k.rows[i]
      <4>1. PICK i \in DOMAIN k.rows : notifications'[j] = k.rows[i]
        BY <3>2
      <4>2. k.rows[i].task = t /\ (k.rows[i].event = "mention" => logOf(k.rows[i]) \in k.logs)
        BY <1>10
      <4> QED BY <1>1, <1>3, <1>4, <1>5, <4>1, <4>2
    <3> QED BY <1>6, <3>1, <3>2
  <2>3. ASSUME NEW m \in mentioned'
        PROVE  \/ \E s \in DOMAIN tasks' : /\ tasks'[s].state = "committed" /\ "mention" \in DOMAIN wish'[s]
                                          /\ m = <<tasks'[s].by, textPost(tasks'[s]), tasks'[s].comment>>
               \/ \E j \in DOMAIN notifications' :
                    notifications'[j].event = "mention" /\ logOf(notifications'[j]) = m
    <3>1. ASSUME NEW s \in DOMAIN tasks, tasks[s].state = "committed", "mention" \in DOMAIN wish[s],
                 m = <<tasks[s].by, textPost(tasks[s]), tasks[s].comment>>
          PROVE  /\ s \in DOMAIN tasks' /\ tasks'[s].state = "committed" /\ "mention" \in DOMAIN wish'[s]
                 /\ m = <<tasks'[s].by, textPost(tasks'[s]), tasks'[s].comment>>
      <4>1. textPost(tasks'[s]) = textPost(tasks[s])
        BY <1>7 DEF Grows, textPost
      <4> QED BY <1>7, <1>8, <3>1, <4>1 DEF Grows, running
    <3>2. CASE m \in mentioned
      <4>1. CASE \E i \in DOMAIN notifications :
                   notifications[i].event = "mention" /\ logOf(notifications[i]) = m
        BY <1>6, <4>1
      <4> QED BY <1>1, <3>1, <3>2, <4>1 DEF LogAgrees
    <3>3. CASE m \in k.logs
      <4>1. "mention" \in DOMAIN wish'[t]
        BY <1>1, <1>8, <3>3 DEF Promised
      <4>2. CASE m = <<k.by, textPost(k), k.comment>>
        <5>1. textPost(g) = textPost(k)
          BY <1>4 DEF textPost
        <5> QED BY <1>1, <1>4, <1>5, <4>1, <4>2, <5>1
      <4>3. CASE \E i \in DOMAIN k.rows : k.rows[i].event = "mention" /\ logOf(k.rows[i]) = m
        <5>1. PICK i \in DOMAIN k.rows : k.rows[i].event = "mention" /\ logOf(k.rows[i]) = m
          BY <4>3
        <5>2. PICK j \in DOMAIN notifications' : notifications'[j] = k.rows[i]
          BY <1>6
        <5> QED BY <5>1, <5>2
      <4> QED BY <1>1, <3>3, <4>2, <4>3 DEF RunningOK, TaskOK, LogsRows
    <3> QED BY <1>3, <3>2, <3>3
  <2> QED BY <2>2, <2>3 DEF LogAgrees
<1>12. ToldIffWanted'
  <2> SUFFICES ASSUME NEW s \in DOMAIN tasks', tasks'[s].state = "committed"
               PROVE  /\ \A j \in DOMAIN notifications' :
                           notifications'[j].task = s => notifications'[j].event \in DOMAIN wish'[s]
                      /\ \A e \in DOMAIN wish'[s] :
                           /\ toldBy(s, e)' \subseteq wish'[s][e].ever
                           /\ wish'[s][e].always \subseteq
                                toldBy(s, e)' \cup (IF e = "mention" THEN knows(s)' ELSE {})
    BY DEF ToldIffWanted
  <2>1. knows(s) \subseteq knows(s)' /\ \A e : toldBy(s, e) \subseteq toldBy(s, e)'
    BY <1>2, <1>5, <1>7, KnownGrows
  <2>2. CASE s = t
    <3>1. ASSUME NEW j \in DOMAIN notifications', notifications'[j].task = t
          PROVE  \E i \in DOMAIN k.rows : notifications'[j] = k.rows[i]
      <4>1. \A i \in DOMAIN notifications : notifications[i].task # t
        BY <1>1 DEF LogAgrees
      <4> QED BY <1>6, <3>1, <4>1
    <3>2. \A e : toldBy(t, e)' = toldIn(k, e)
      <4>1. ASSUME NEW e, NEW j \in DOMAIN notifications', notifications'[j].task = t, notifications'[j].event = e
            PROVE  notifications'[j].to \in toldIn(k, e)
        BY <3>1, <4>1 DEF toldIn
      <4>2. ASSUME NEW e, NEW i \in DOMAIN k.rows, k.rows[i].event = e
            PROVE  k.rows[i].to \in toldBy(t, e)'
        <5>1. PICK j \in DOMAIN notifications' : notifications'[j] = k.rows[i]
          BY <1>6
        <5>2. k.rows[i].task = t
          BY <1>10
        <5> QED BY <4>2, <5>1, <5>2 DEF toldBy
      <4>3. \A e : toldBy(t, e)' \subseteq toldIn(k, e)
        BY <4>1 DEF toldBy
      <4>4. \A e : toldIn(k, e) \subseteq toldBy(t, e)'
        BY <4>2 DEF toldIn
      <4> QED BY <4>3, <4>4
    <3>3. \A x : ~Contains(k.script, x)
      BY <1>3 DEF Contains
    <3>4. \A e \in DOMAIN wish[t] : /\ toldIn(k, e) \subseteq wish[t][e].ever
                                   /\ wish[t][e].always \subseteq toldIn(k, e) \cup excused(e, knows(t))
      BY <1>1, <3>3 DEF Promised
    <3>5. \A e : excused(e, knows(t)) \subseteq IF e = "mention" THEN knows(t)' ELSE {}
      BY <2>1, <2>2 DEF excused
    <3>6. \A e \in DOMAIN wish'[t] :
            /\ toldBy(t, e)' \subseteq wish'[t][e].ever
            /\ wish'[t][e].always \subseteq toldBy(t, e)' \cup (IF e = "mention" THEN knows(t)' ELSE {})
      BY <1>8, <3>2, <3>4, <3>5
    <3>7. \A j \in DOMAIN notifications' :
            notifications'[j].task = t => notifications'[j].event \in DOMAIN wish'[t]
      <4> SUFFICES ASSUME NEW j \in DOMAIN notifications', notifications'[j].task = t
                   PROVE  notifications'[j].event \in DOMAIN wish'[t]
        OBVIOUS
      <4>1. PICK i \in DOMAIN k.rows : notifications'[j] = k.rows[i]
        BY <3>1
      <4>2. k.rows[i].event \in DOMAIN wish[t]
        BY <1>10
      <4> QED BY <1>8, <4>1, <4>2
    <3> QED BY <2>2, <3>6, <3>7
  <2>3. CASE s # t
    <3>1. s \in DOMAIN tasks /\ tasks[s].state = "committed" /\ wish'[s] = wish[s]
      BY <1>5, <1>8, <2>3 DEF running
    <3>2. ASSUME NEW j \in DOMAIN notifications', notifications'[j].task = s
          PROVE  j \in DOMAIN notifications /\ notifications'[j] = notifications[j]
      <4>1. \A i \in DOMAIN k.rows : k.rows[i].task = t
        BY <1>10
      <4>2. \A i \in DOMAIN k.rows : notifications'[j] # k.rows[i]
        BY <2>3, <3>2, <4>1
      <4> QED BY <1>6, <4>2
    <3>3. \A e : toldBy(s, e)' \subseteq toldBy(s, e)
      BY <3>2 DEF toldBy
    <3>4. \A j \in DOMAIN notifications' :
            notifications'[j].task = s => notifications'[j].event \in DOMAIN wish'[s]
      BY <1>1, <3>1, <3>2 DEF ToldIffWanted
    <3> QED BY <1>1, <2>1, <3>1, <3>3, <3>4 DEF ToldIffWanted
  <2> QED BY <2>2, <2>3
<1>13. ASSUME NEW s \in running'
       PROVE  RunningOK(s)'
  <2>1. s \in running /\ s # t /\ tasks'[s] = tasks[s]
    BY <1>4, <1>5 DEF running
  <2>2. TaskOK(tasks'[s], s) /\ KeepsPromise(tasks'[s], wish[s], knows(s))
    BY <2>1 DEF NotificationsInv, RunningOK
  <2> QED BY <1>2, <1>7, <2>1, <2>2, RunningFollows
<1> QED BY <1>9, <1>11, <1>12, <1>13 DEF NotificationsInv

\* Every step of a task keeps the invariant.
LEMMA TaskStepKeeps ==
  ASSUME NotificationsInv, Watch, NEW t \in running,
         asTask(\/ ReadUsers(t) \/ ReadLog(t) \/ LockRow(t) \/ Tell(t) \/ ListWebhooks(t)
                \/ triggerWebhook(t) \/ MarkFailed(t) \/ CommitTask(t) \/ AbortTask(t))
  PROVE  NotificationsInv'
<1>1. UNCHANGED <<discussionVars, account, writer>>
  BY DEF asTask
<1>2. ASSUME NEW g, MovesTo(t, g), UNCHANGED <<notifications, mentioned, hooks>>
      PROVE  NotificationsInv'
  BY <1>1, <1>2, OneTaskChanges DEF MovesTo
<1>3. CASE ReadUsers(t)
  BY <1>2, <1>3, ReadUsersMoves DEF ReadUsers
<1>4. CASE ReadLog(t)
  BY <1>2, <1>4, ReadLogMoves DEF ReadLog
<1>5. CASE LockRow(t)
  BY <1>2, <1>5, LockRowMoves DEF LockRow
<1>6. CASE Tell(t)
  BY <1>2, <1>6, TellMoves DEF Tell
<1>7. CASE ListWebhooks(t) \/ triggerWebhook(t) \/ MarkFailed(t)
  BY <1>2, <1>7, WebhooksMove DEF ListWebhooks, triggerWebhook, MarkFailed
<1>8. CASE CommitTask(t)
  BY <1>1, <1>8, CommitKeeps
<1>9. CASE AbortTask(t)
  <2> DEFINE g == over(tasks[t], "aborted")
  <2>1. tasks[t] \in Task
    BY Running
  <2>2. /\ g \in Task /\ g.state = "aborted" /\ g.held = {}
        /\ g.by = tasks[t].by /\ g.post = tasks[t].post /\ g.comment = tasks[t].comment
    BY <2>1, Over
  <2>3. tasks' = [tasks EXCEPT ![t] = g] /\ UNCHANGED <<notifications, mentioned, hooks>>
    BY <1>9 DEF AbortTask
  <2> HIDE DEF g
  <2> QED BY <1>1, <2>2, <2>3, OneTaskChanges
<1> QED BY <1>3, <1>4, <1>5, <1>6, <1>7, <1>8, <1>9 DEF asTask

(***************************************************************************)
(* What requests on posts leave behind: tables of the same types.          *)
(***************************************************************************)
\* The least number of a set that has one is in it.
LEMMA MinIsThere ==
  ASSUME NEW S \in SUBSET Nat, S # {}
  PROVE  D!Min(S) \in S
BY NatHasLeast DEF D!Min

\* The greatest number of a finite set is in it.
LEMMA MaxIsThere ==
  ASSUME NEW S \in SUBSET Nat, IsFiniteSet(S), S # {}
  PROVE  D!Max(S) \in S
<1> DEFINE Sizes == {n \in Nat : \E T \in SUBSET Nat : /\ IsFiniteSet(T) /\ T # {} /\ Cardinality(T) = n
                                                       /\ \A x \in T : \E y \in T : ~(y <= x)}
<1>1. Sizes = {}
  <2> SUFFICES ASSUME Sizes # {} PROVE FALSE
    OBVIOUS
  <2>1. PICK n \in Sizes : \A k \in Sizes : n <= k
    BY NatHasLeast
  <2>2. PICK T \in SUBSET Nat : /\ IsFiniteSet(T) /\ T # {} /\ Cardinality(T) = n
                                /\ \A x \in T : \E y \in T : ~(y <= x)
    BY <2>1
  <2>3. PICK x \in T : TRUE
    BY <2>2
  <2>4. IsFiniteSet(T \ {x}) /\ Cardinality(T \ {x}) = n - 1 /\ n \in Nat
    BY <2>1, <2>2, <2>3, FS_RemoveElement
  <2>5. T # {x}
    <3>1. x \in Nat
      BY <2>3
    <3> QED BY <2>2, <3>1
  <2>6. \A u \in T \ {x} : \E y \in T \ {x} : ~(y <= u)
    <3> SUFFICES ASSUME NEW u \in T \ {x}, \A y \in T \ {x} : y <= u PROVE FALSE
      OBVIOUS
    <3>1. u \in Nat /\ x \in Nat /\ ~(x <= u)
      BY <2>2, <2>3
    <3>2. \A y \in T : y <= x
      BY <3>1
    <3> QED BY <2>2, <2>3, <3>2
  <2>7. Cardinality(T \ {x}) \in Nat
    BY <2>4, FS_CardinalityType
  <2>8. T \ {x} # {} /\ T \ {x} \in SUBSET Nat
    BY <2>3, <2>5
  <2>9. n - 1 \in Sizes
    BY <2>4, <2>6, <2>7, <2>8
  <2> QED BY <2>1, <2>4, <2>9
<1>2. Cardinality(S) \in Nat
  BY FS_CardinalityType
<1>3. \E x \in S : \A y \in S : x >= y
  <2>1. \E x \in S : \A y \in S : y <= x
    BY <1>1, <1>2
  <2> QED BY <2>1
<1> QED BY <1>3 DEF D!Max

\* A post that is found by its number is a row.
LEMMA FoundPost ==
  ASSUME NEW n, db \in Tables, D!getPostByNumber(db, n) # None
  PROVE  /\ D!getPostByNumber(db, n) \in PostId /\ db.posts[D!getPostByNumber(db, n)] \in Post
         /\ db.posts[D!getPostByNumber(db, n)].number = n
<1> DEFINE S == {p \in D!posts(db) : db.posts[p].number = n}
<1>1. S \in SUBSET PostId /\ \A p \in S : db.posts[p] \in Post
  BY DEF D!posts, D!rowsOf, Tables
<1>2. D!getPostByNumber(db, n) = IF S = {} THEN None ELSE D!Min(S)
  BY DEF D!getPostByNumber, D!querySinglePost
<1>3. S # {} => D!Min(S) \in S
  <2> HIDE DEF S
  <2> QED BY <1>1, MinIsThere, IdsAssumption
<1> QED BY <1>1, <1>2, <1>3

\* Discussion counts as this module does.
LEMMA SameCount ==
  ASSUME NEW S
  PROVE  D!Cardinality(S) = Cardinality(S)
BY DEF D!Cardinality, Cardinality

\* Discussion finds posts as this module does.
LEMMA SamePost ==
  ASSUME NEW n
  PROVE  D!getPostByNumber(db, n) = getPostByNumber(db, n)
<1>1. \A S : D!Min(S) = Min(S)
  BY DEF D!Min, Min
<1>2. D!posts(db) = posts(db)
  BY DEF D!posts, posts, D!rowsOf, rowsOf
<1> QED BY <1>1, <1>2 DEF D!getPostByNumber, getPostByNumber, D!querySinglePost, querySinglePost

\* While fewer rows are there than the bound allows, the next id has none.
LEMMA NextId ==
  ASSUME NEW S \in SUBSET Nat, IsFiniteSet(S), NEW T, NEW table \in [S -> T],
         NEW n \in 0 .. Cardinality(S), Cardinality(D!rowsOf(table)) < n
  PROVE  D!Min(D!freeIds(table)) \in S
<1>1. Cardinality(S) \in Nat /\ D!rowsOf(table) \subseteq S /\ DOMAIN table = S
  BY FS_CardinalityType DEF D!rowsOf
<1>2. D!rowsOf(table) # S
  BY <1>1
<1>3. D!freeIds(table) \in SUBSET Nat /\ D!freeIds(table) # {} /\ D!freeIds(table) \subseteq S
  BY <1>1, <1>2 DEF D!freeIds
<1> QED BY <1>3, MinIsThere

\* Posts are numbered from one on.
LEMMA NextNumber ==
  ASSUME NEW d \in Tables
  PROVE  D!nextNumber(d) \in Nat \ {0}
<1> DEFINE R == D!rowsOf(d.posts)  N == D!numbers(d)
<1>1. R \subseteq PostId /\ \A p \in R : d.posts[p] \in Post
  BY DEF D!rowsOf, Tables
<1>2. N \in SUBSET Nat
  BY <1>1 DEF D!numbers, Post
<1>3. IsFiniteSet(R)
  BY <1>1, IdsAssumption, FS_Subset
<1>4. [p \in R |-> d.posts[p].number] \in Surjection(R, N)
  BY DEF Surjection, D!numbers
<1>5. IsFiniteSet(N)
  <2> HIDE DEF R, N
  <2> QED BY <1>3, <1>4, FS_Surjection
<1> DEFINE M == {0} \cup N
<1>6. M \in SUBSET Nat /\ M # {} /\ IsFiniteSet(M)
  <2>1. M \in SUBSET Nat /\ M # {}
    BY <1>2
  <2> HIDE DEF N
  <2> QED BY <1>5, <2>1, FS_Union, FS_Singleton
<1>7. D!nextNumber(d) = D!Max(M) + 1
  BY DEF D!nextNumber
<1> HIDE DEF M
<1>8. D!Max(M) \in Nat
  BY <1>6, MaxIsThere
<1> QED BY <1>7, <1>8

\* Requests without files leave the attachments as they are.
LEMMA NoFiles ==
  ASSUME NEW d \in Tables, NEW b, NEW p, NEW c, NEW key
  PROVE  D!setAttachments(d, b, p, c, << >>, key) \in Tables
<1>1. D!setAttachments(d, b, p, c, << >>, key) = [d EXCEPT !.attachments = d.attachments]
  BY DEF D!setAttachments
<1> QED BY <1>1 DEF Tables

\* What the commands on posts write are tables.
LEMMA PostsWritten ==
  ASSUME NEW d \in Tables, NEW p \in PostId, NEW u \in User
  PROVE  /\ \A title \in Text : D!addNewPost(d, p, u, title) \in Tables
         /\ D!assignTags(d, p, {}) \in Tables
         /\ D!addSubscriber(d, p, u) \in Tables /\ D!removeSubscriber(d, p, u) \in Tables
         /\ d.posts[p] # None =>
              /\ \A title \in Text : D!updatePost(d, p, title) \in Tables
              /\ \A status \in Status : D!setPostResponse(d, p, status) \in Tables
<1>1. ASSUME NEW e \in Tables, NEW status \in Subscription
      PROVE  [e EXCEPT !.subscribers[p][u] = status] \in Tables
  <2>1. [e.subscribers EXCEPT ![p][u] = status] \in [PostId -> [User -> Subscription]]
    BY DEF Tables
  <2> QED BY <2>1 DEF Tables
<1>2. ASSUME NEW row \in Post
      PROVE  [d EXCEPT !.posts[p] = row] \in Tables
  <2>1. [d.posts EXCEPT ![p] = row] \in [PostId -> Post \cup {None}]
    BY DEF Tables
  <2> QED BY <2>1 DEF Tables
<1>3. ASSUME NEW title \in Text
      PROVE  D!addNewPost(d, p, u, title) \in Tables
  <2> DEFINE row == [number |-> D!nextNumber(d), title |-> title, author |-> u,
                     status |-> "open", original |-> None, recent |-> TRUE]
             e == [d EXCEPT !.posts[p] = row]
  <2>1. row \in Post
    BY NextNumber DEF Post, Status
  <2>2. D!addNewPost(d, p, u, title) =
          IF FALSE \/ e.subscribers[p][u] = None THEN [e EXCEPT !.subscribers[p][u] = "active"] ELSE e
    BY DEF D!addNewPost, D!internalAddSubscriber
  <2> HIDE DEF row
  <2>3. e \in Tables
    BY <1>2, <2>1
  <2> HIDE DEF e
  <2> QED BY <1>1, <2>2, <2>3 DEF Subscription
<1>4. D!assignTags(d, p, {}) \in Tables
  <2>1. d.postTags \cup ({p} \X {}) \in SUBSET (PostId \X TagId)
    BY DEF Tables
  <2> QED BY <2>1 DEF D!assignTags, Tables
<1>5. D!addSubscriber(d, p, u) \in Tables /\ D!removeSubscriber(d, p, u) \in Tables
  BY <1>1 DEF D!addSubscriber, D!internalAddSubscriber, D!removeSubscriber, Subscription
<1>6. ASSUME d.posts[p] # None
      PROVE  /\ \A title \in Text : D!updatePost(d, p, title) \in Tables
             /\ \A status \in Status : D!setPostResponse(d, p, status) \in Tables
  <2>1. d.posts[p] \in Post
    BY <1>6 DEF Tables
  <2>2. ASSUME NEW title \in Text
        PROVE  D!updatePost(d, p, title) \in Tables
    <3>1. [d.posts[p] EXCEPT !.title = title] \in Post
      BY <2>1 DEF Post
    <3>2. D!updatePost(d, p, title) = [d EXCEPT !.posts[p] = [d.posts[p] EXCEPT !.title = title]]
      BY DEF D!updatePost
    <3> QED BY <1>2, <3>1, <3>2
  <2>3. ASSUME NEW status \in Status
        PROVE  D!setPostResponse(d, p, status) \in Tables
    <3> DEFINE row == [d.posts[p] EXCEPT !.status = status]
               e == [d EXCEPT !.posts[p] = row]
    <3>1. row \in Post
      BY <2>1 DEF Post
    <3> HIDE DEF row
    <3>2. e \in Tables /\ e.posts[p] = row
      BY <1>2, <3>1 DEF Tables
    <3> HIDE DEF e
    <3>3. [e EXCEPT !.posts[p].original = None] \in Tables
      <4>1. [row EXCEPT !.original = None] \in Post
        BY <3>1 DEF Post
      <4>2. [e.posts EXCEPT ![p].original = None] \in [PostId -> Post \cup {None}]
        BY <3>2, <4>1 DEF Tables
      <4> QED BY <3>2, <4>2 DEF Tables
    <3>4. D!setPostResponse(d, p, status) = [e EXCEPT !.posts[p].original = None]
      BY DEF D!setPostResponse, e, row
    <3> QED BY <3>3, <3>4
  <2> QED BY <2>2, <2>3
<1> QED BY <1>3, <1>4, <1>5, <1>6

\* What the commands on comments write are tables.
LEMMA CommentsWritten ==
  ASSUME NEW d \in Tables, NEW c \in CommentId, NEW p \in PostId, NEW u \in User
  PROVE  /\ D!addNewComment(d, c, p, u) \in Tables
         /\ d.comments[c] # None => D!updateComment(d, c, u) \in Tables
<1>1. ASSUME NEW row \in Comment
      PROVE  [d EXCEPT !.comments[c] = row] \in Tables
  <2>1. [d.comments EXCEPT ![c] = row] \in [CommentId -> Comment \cup {None}]
    BY DEF Tables
  <2> QED BY <2>1 DEF Tables
<1>2. D!addNewComment(d, c, p, u) \in Tables
  BY <1>1 DEF D!addNewComment, Comment
<1>3. ASSUME d.comments[c] # None
      PROVE  D!updateComment(d, c, u) \in Tables
  <2>1. [d.comments[c] EXCEPT !.editor = u] \in Comment
    BY <1>3 DEF Tables, Comment
  <2>2. D!updateComment(d, c, u) = [d EXCEPT !.comments[c] = [d.comments[c] EXCEPT !.editor = u]]
    BY DEF D!updateComment
  <2> QED BY <1>1, <2>1, <2>2
<1> QED BY <1>2, <1>3

(***************************************************************************)
(* Steps of requests.                                                      *)
(***************************************************************************)
\* What the step of a request has to leave behind: it may hand one task over.
LEMMA RequestKeeps ==
  ASSUME NotificationsInv, Watch,
         db' \in Tables, scope' = scope, account' \in [User -> Account],
         hooks' \in [Hook -> Webhook \cup {None}], mentioned' = mentioned, WriterOK',
         notifications' \in Seq(Notice), DOMAIN notifications' = DOMAIN notifications,
         \A i \in DOMAIN notifications :
           notifications'[i] \in {notifications[i], [notifications[i] EXCEPT !.read = TRUE]},
         \/ tasks' = tasks
         \/ \E k \in Task : Fresh(k) /\ Len(tasks) < scope.tasks /\ tasks' = Append(tasks, k)
  PROVE  NotificationsInv'
<1>1. /\ TypeOK /\ tasks \in Seq(Task) /\ Len(tasks) <= MaxTasks /\ scope \in Scopes
      /\ notifications \in Seq(Notice) /\ mentioned \subseteq Mentioned
      /\ \A t \in DOMAIN tasks : tasks[t].state # "running" => tasks[t].held = {}
  BY DEF NotificationsInv, Basics, TypeOK
<1>2. MaxTasks \in Nat /\ scope.tasks \in 0 .. MaxTasks /\ Len(tasks) \in Nat
  BY <1>1, StartsAssumption, BoundsAssumption
<1>3. /\ tasks' \in Seq(Task) /\ Len(tasks') <= MaxTasks
      /\ \A t \in DOMAIN tasks : t \in DOMAIN tasks' /\ tasks'[t] = tasks[t]
      /\ \A t \in DOMAIN tasks' : t \in DOMAIN tasks \/ Fresh(tasks'[t])
  <2>1. CASE tasks' = tasks
    BY <1>1, <2>1
  <2>2. ASSUME NEW k \in Task, Fresh(k), Len(tasks) < scope.tasks, tasks' = Append(tasks, k)
        PROVE  <1>3!1
    <3>1. /\ Len(tasks') = Len(tasks) + 1 /\ tasks' \in Seq(Task)
          /\ DOMAIN tasks = 1 .. Len(tasks) /\ DOMAIN tasks' = 1 .. Len(tasks) + 1
      BY <1>1, <2>2
    <3>2. \A t \in 1 .. Len(tasks) : tasks'[t] = tasks[t]
      BY <1>1, <2>2
    <3>3. tasks'[Len(tasks) + 1] = k
      BY <1>1, <2>2
    <3>4. Len(tasks') <= MaxTasks
      <4>1. Len(tasks) < scope.tasks => Len(tasks) + 1 <= MaxTasks
        BY <1>2
      <4> QED BY <2>2, <3>1, <4>1
    <3>5. \A t \in 1 .. Len(tasks) + 1 : t \in 1 .. Len(tasks) \/ t = Len(tasks) + 1
      BY <1>2
    <3>6. \A t \in 1 .. Len(tasks) : t \in 1 .. Len(tasks) + 1
      BY <1>2
    <3> QED BY <2>2, <3>1, <3>2, <3>3, <3>4, <3>5, <3>6
  <2> QED BY <2>1, <2>2
<1>4. TypeOK'
  <2>1. writer' # None => writer'.held \cup Range(writer'.wants) \subseteq User \cup Hook
    BY DEF WriterOK, Range
  <2>2. \A t \in DOMAIN tasks' : tasks'[t].state # "running" => tasks'[t].held = {}
    BY <1>1, <1>3 DEF Fresh
  <2> QED BY <1>1, <1>3, <2>1, <2>2 DEF TypeOK
<1>5. Grows
  <2>1. \A i \in DOMAIN notifications : notifications[i] \in Notice
    BY <1>1
  <2>2. ASSUME NEW i \in DOMAIN notifications
        PROVE  /\ notifications'[i].to = notifications[i].to
               /\ notifications'[i].event = notifications[i].event
               /\ notifications'[i].post = notifications[i].post
               /\ notifications'[i].comment = notifications[i].comment
               /\ notifications'[i].task = notifications[i].task
    BY <2>1 DEF Notice
  <2> QED BY <1>3, <2>2 DEF Grows
<1>6. \A t \in DOMAIN tasks' : tasks'[t].state = "committed" =>
        t \in DOMAIN tasks /\ tasks[t].state = "committed"
  BY <1>3 DEF Fresh
<1>7. ASSUME NEW t \in DOMAIN tasks', tasks'[t].state = "running"
      PROVE  \/ t \in running /\ TaskOK(tasks'[t], t) /\ KeepsPromise(tasks'[t], wish[t], knows(t))
             \/ t \notin DOMAIN tasks /\ Fresh(tasks'[t])
  <2>1. CASE t \in DOMAIN tasks
    BY <1>3, <1>7, <2>1 DEF running, NotificationsInv, RunningOK
  <2>2. CASE t \notin DOMAIN tasks
    BY <1>3, <2>2
  <2> QED BY <2>1, <2>2
<1> QED BY <1>1, <1>3, <1>4, <1>5, <1>6, <1>7, StepKeeps

\* A request that leaves the tables and hands nothing over.
LEMMA OnlyRowsChange ==
  ASSUME NotificationsInv, Watch, UNCHANGED <<scope, mentioned, tasks>>, db' \in Tables,
         account' \in [User -> Account], hooks' \in [Hook -> Webhook \cup {None}], WriterOK',
         UNCHANGED notifications
  PROVE  NotificationsInv'
<1>1. notifications \in Seq(Notice)
  BY DEF NotificationsInv, Basics, TypeOK
<1> QED BY <1>1, RequestKeeps

\* The scripts name each part once, and a new task is fresh.
LEMMA HandedOver ==
  ASSUME NEW event \in Event \ {"mention"}, NEW type \in WebhookType, NEW by \in User,
         NEW p \in PostId, NEW c \in CommentId \cup {None}, NEW mentions \in Seq(Name),
         NEW script \in {created(mentions), updated(mentions), << >>, <<"notify", "webhook">>,
                         <<"webhook", "notify">>, <<"webhook">>}
  PROVE  LET k == newTask(event, type, by, p, c, mentions, script)
         IN k \in Task /\ Fresh(k)
<1>1. script \in {<< >>, <<"mention">>, <<"webhook">>, <<"notify", "webhook">>, <<"webhook", "notify">>,
                  <<"notify", "mention", "webhook">>}
  BY DEF created, updated
<1>2. script \in Seq({"notify", "mention", "webhook"})
  <2>1. /\ << >> \in Seq({"notify", "mention", "webhook"})
        /\ <<"mention">> \in Seq({"notify", "mention", "webhook"})
        /\ <<"webhook">> \in Seq({"notify", "mention", "webhook"})
    OBVIOUS
  <2>2. /\ <<"notify", "webhook">> \in Seq({"notify", "mention", "webhook"})
        /\ <<"webhook", "notify">> \in Seq({"notify", "mention", "webhook"})
    OBVIOUS
  <2>3. <<"notify", "mention", "webhook">> \in Seq({"notify", "mention", "webhook"})
    OBVIOUS
  <2> QED BY <1>1, <2>1, <2>2, <2>3
<1>3. \A i, j \in DOMAIN script : script[i] = script[j] => i = j
  <2>1. CASE script = << >>
    BY <2>1
  <2>2. CASE script \in {<<"mention">>, <<"webhook">>}
    BY <2>2
  <2>3. CASE script \in {<<"notify", "webhook">>, <<"webhook", "notify">>}
    BY <2>3
  <2>4. CASE script = <<"notify", "mention", "webhook">>
    BY <2>4
  <2> QED BY <1>1, <2>1, <2>2, <2>3, <2>4
<1>4. << >> \in Seq(Notice)
  OBVIOUS
<1> DEFINE k == newTask(event, type, by, p, c, mentions, script)
<1>5. k \in Task
  BY <1>2, <1>4 DEF newTask, Task
<1>6. Fresh(k)
  BY <1>3 DEF newTask, Fresh
<1> QED BY <1>5, <1>6

\* A handler on posts leaves tables, and hands at most one fresh task over.
LEMMA HandledLeaves ==
  ASSUME NotificationsInv, Handled
  PROVE  /\ db' \in Tables /\ scope' = scope
         /\ \/ tasks' = tasks
            \/ \E k \in Task : Fresh(k) /\ Len(tasks) < scope.tasks /\ tasks' = Append(tasks, k)
<1>1. /\ db \in Tables /\ scope \in Scopes /\ writer # None /\ actor \in User
      /\ scope.mentions \subseteq Seq(Name)
      /\ scope.posts \in 0 .. Cardinality(PostId) /\ scope.comments \in 0 .. Cardinality(CommentId)
  <2>1. db \in Tables /\ scope \in Scopes /\ WriterOK
    BY DEF NotificationsInv, Basics, TypeOK
  <2>2. writer # None
    BY DEF Handled, performs
  <2> QED BY <2>1, <2>2, StartsAssumption DEF WriterOK, actor
<1> DEFINE Leaves == /\ db' \in Tables /\ scope' = scope
                     /\ \/ tasks' = tasks
                        \/ \E k \in Task : Fresh(k) /\ Len(tasks) < scope.tasks /\ tasks' = Append(tasks, k)
<1>2. ASSUME NEW k \in Task, Fresh(k), Enqueue(k), db' \in Tables, scope' = scope
      PROVE  Leaves
  BY <1>2 DEF Enqueue
<1> HIDE DEF Leaves
<1>3. ASSUME NEW title \in Text, NEW m \in scope.mentions, D!CreatePost(actor, title, {}, << >>),
             Enqueue(NotifyAboutNewPost(actor, D!newPost, m))
      PROVE  Leaves
  <2>1. PICK failing, key :
          LET now == D!stored(blobs, << >>, key)
              rows == D!setAttachments(D!addNewPost(db, D!newPost, actor, title), now, D!newPost, None, << >>, key)
          IN D!commits(D!assignTags(rows, D!newPost, {}), now, << >>, failing)
    BY <1>3 DEF D!CreatePost
  <2>a. D!asks("CreatePost") /\ Cardinality(D!rowsOf(db.posts)) < scope.posts
    BY <1>3, SameCount DEF D!CreatePost
  <2>2. scope' = scope /\ Cardinality(D!rowsOf(db.posts)) < scope.posts
    BY <2>a DEF D!asks
  <2>3. D!newPost \in PostId
    <3>1. db.posts \in [PostId -> Post \cup {None}]
      BY <1>1 DEF Tables
    <3> QED BY <1>1, <2>2, <3>1, NextId, IdsAssumption DEF D!newPost
  <2>4. D!addNewPost(db, D!newPost, actor, title) \in Tables
    BY <1>1, <2>3, PostsWritten
  <2>5. D!setAttachments(D!addNewPost(db, D!newPost, actor, title), D!stored(blobs, << >>, key),
                         D!newPost, None, << >>, key) \in Tables
    BY <2>4, NoFiles
  <2>6. db' \in Tables
    BY <1>1, <1>3, <2>1, <2>3, <2>5, PostsWritten DEF D!commits
  <2>7. LET k == NotifyAboutNewPost(actor, D!newPost, m) IN k \in Task /\ Fresh(k)
    BY <1>1, <2>3, HandedOver DEF NotifyAboutNewPost, Event, WebhookType
  <2> QED BY <1>2, <1>3, <2>2, <2>6, <2>7
<1>4. ASSUME NEW n, D!getPostByNumber(db, n) # None
      PROVE  LET p == getPostByNumber(db, n)
             IN p = D!getPostByNumber(db, n) /\ p \in PostId /\ db.posts[p] \in Post /\ db.posts[p] # None
  BY <1>1, <1>4, FoundPost, SamePost, NoneIsNoRow
<1>5. ASSUME NEW n, NEW title \in Text, NEW m \in scope.mentions, D!UpdatePost(actor, n, title, << >>),
             Enqueue(NotifyAboutUpdatedPost(actor, getPostByNumber(db, n), m))
      PROVE  Leaves
  <2> DEFINE p == D!getPostByNumber(db, n)
  <2>1. D!asks("UpdatePost") /\ p # None
    BY <1>5 DEF D!UpdatePost
  <2>2. PICK failing, key :
          D!commits(D!setAttachments(D!updatePost(db, p, title), D!stored(blobs, << >>, key),
                                     p, None, << >>, key), D!stored(blobs, << >>, key),
                    << >>, failing)
    BY <1>5 DEF D!UpdatePost
  <2>3. p = getPostByNumber(db, n) /\ p \in PostId /\ db.posts[p] # None
    BY <1>4, <2>1
  <2> HIDE DEF p
  <2>4. D!updatePost(db, p, title) \in Tables
    BY <1>1, <2>3, PostsWritten
  <2>5. db' \in Tables
    BY <2>2, <2>4, NoFiles DEF D!commits
  <2>6. LET k == NotifyAboutUpdatedPost(actor, p, m) IN k \in Task /\ Fresh(k)
    BY <1>1, <2>3, HandedOver DEF NotifyAboutUpdatedPost, Event, WebhookType
  <2> QED BY <1>2, <1>5, <2>1, <2>3, <2>5, <2>6 DEF D!asks
<1>6. ASSUME NEW n, NEW status \in Responses, D!SetResponse(actor, n, status, 0),
             Enqueue(NotifyAboutStatusChange(actor, getPostByNumber(db, n),
                                             db.posts[getPostByNumber(db, n)].status, status))
      PROVE  Leaves
  <2> DEFINE p == D!getPostByNumber(db, n)
  <2>1. D!asks("SetResponse") /\ p # None /\ db' = D!respond(p, status, 0)
    BY <1>6 DEF D!SetResponse
  <2>2. p = getPostByNumber(db, n) /\ p \in PostId /\ db.posts[p] # None
    BY <1>4, <2>1
  <2> HIDE DEF p
  <2>3. db' \in Tables
    <3>1. status # "duplicate"
      <4>1. D!getPostByNumber(db, 0) = None
        BY <1>1, FoundPost DEF Post
      <4> QED BY <1>6, <4>1 DEF D!SetResponse, D!SetResponseValidate
    <3>2. status \in Status
      BY BoundsAssumption DEF LiveStatus
    <3>3. db' = D!setPostResponse(db, p, status)
      BY <2>1, <3>1 DEF D!respond
    <3> QED BY <1>1, <2>2, <3>2, <3>3, PostsWritten
  <2>4. LET k == NotifyAboutStatusChange(actor, p, db.posts[p].status, status) IN k \in Task /\ Fresh(k)
    <3>1. << >> \in Seq(Name)
      OBVIOUS
    <3> QED BY <1>1, <2>2, <3>1, HandedOver DEF NotifyAboutStatusChange, Event, WebhookType
  <2> QED BY <1>2, <1>6, <2>1, <2>2, <2>3, <2>4 DEF D!asks
<1>7. ASSUME NEW n, NEW text \in BOOLEAN, D!DeletePost(actor, n),
             Enqueue(NotifyAboutDeletedPost(actor, getPostByNumber(db, n), text))
      PROVE  Leaves
  <2> DEFINE p == D!getPostByNumber(db, n)
  <2>1. D!asks("DeletePost") /\ p # None /\ db' = D!setPostResponse(db, p, "deleted")
    BY <1>7 DEF D!DeletePost, D!DeletePostValidate
  <2>2. p = getPostByNumber(db, n) /\ p \in PostId /\ db.posts[p] # None
    BY <1>4, <2>1
  <2> HIDE DEF p
  <2>3. db' \in Tables
    BY <1>1, <2>1, <2>2, PostsWritten DEF Status
  <2>4. LET k == NotifyAboutDeletedPost(actor, p, text) IN k \in Task /\ Fresh(k)
    <3>1. << >> \in Seq(Name)
      OBVIOUS
    <3> QED BY <1>1, <2>2, <3>1, HandedOver DEF NotifyAboutDeletedPost, Event, WebhookType
  <2> QED BY <1>2, <1>7, <2>1, <2>2, <2>3, <2>4 DEF D!asks
<1>8. ASSUME NEW n, NEW m \in scope.mentions, D!PostComment(actor, n, << >>),
             Enqueue(NotifyAboutNewComment(actor, getPostByNumber(db, n), D!newComment, m))
      PROVE  Leaves
  <2> DEFINE p == D!getPostByNumber(db, n)
  <2>1. D!asks("PostComment") /\ p # None /\ Cardinality(D!rowsOf(db.comments)) < scope.comments
    BY <1>8, SameCount DEF D!PostComment
  <2>2. PICK failing, key :
          D!commits(D!setAttachments(D!addNewComment(db, D!newComment, p, actor), D!stored(blobs, << >>, key),
                                     p, D!newComment, << >>, key), D!stored(blobs, << >>, key),
                    << >>, failing)
    BY <1>8 DEF D!PostComment
  <2>3. p = getPostByNumber(db, n) /\ p \in PostId
    BY <1>4, <2>1
  <2> HIDE DEF p
  <2>4. D!newComment \in CommentId
    <3>1. db.comments \in [CommentId -> Comment \cup {None}]
      BY <1>1 DEF Tables
    <3> QED BY <1>1, <2>1, <3>1, NextId, IdsAssumption DEF D!newComment
  <2>5. D!addNewComment(db, D!newComment, p, actor) \in Tables
    BY <1>1, <2>3, <2>4, CommentsWritten
  <2>6. db' \in Tables
    BY <2>2, <2>5, NoFiles DEF D!commits
  <2>7. LET k == NotifyAboutNewComment(actor, p, D!newComment, m) IN k \in Task /\ Fresh(k)
    BY <1>1, <2>3, <2>4, HandedOver DEF NotifyAboutNewComment, Event, WebhookType
  <2> QED BY <1>2, <1>8, <2>1, <2>3, <2>6, <2>7 DEF D!asks
<1>9. ASSUME NEW n, NEW c \in CommentId, NEW m \in scope.mentions, D!UpdateComment(actor, n, c, << >>),
             Enqueue(NotifyAboutUpdatedComment(actor, getPostByNumber(db, n), c, m))
      PROVE  Leaves
  <2> DEFINE p == D!getPostByNumber(db, n)
             found == D!getCommentByID(db, c)
  <2>1. D!asks("UpdateComment") /\ p # None /\ found # None
    BY <1>9 DEF D!UpdateComment, D!EditCommentIsAuthorized
  <2>2. PICK failing, key :
          D!commits(D!setAttachments(D!updateComment(db, found, actor), D!stored(blobs, << >>, key),
                                     D!getPostByID(db, p), found, << >>, key), D!stored(blobs, << >>, key),
                    << >>, failing)
    BY <1>9 DEF D!UpdateComment
  <2>3. p = getPostByNumber(db, n) /\ p \in PostId
    BY <1>4, <2>1
  <2>4. found = c /\ db.comments[c] # None
    BY <2>1 DEF D!getCommentByID
  <2> HIDE DEF p, found
  <2>5. D!updateComment(db, found, actor) \in Tables
    BY <1>1, <2>3, <2>4, CommentsWritten
  <2>6. db' \in Tables
    BY <2>2, <2>5, NoFiles DEF D!commits
  <2>7. LET k == NotifyAboutUpdatedComment(actor, p, c, m) IN k \in Task /\ Fresh(k)
    BY <1>1, <2>3, HandedOver DEF NotifyAboutUpdatedComment, Event, WebhookType
  <2> QED BY <1>2, <1>9, <2>1, <2>3, <2>6, <2>7 DEF D!asks
<1>10. ASSUME NEW n, D!Subscribe(actor, n) \/ D!Unsubscribe(actor, n), UNCHANGED tasks
       PROVE  Leaves
  <2> DEFINE p == D!getPostByNumber(db, n)
  <2>1. /\ scope' = scope /\ p # None
        /\ db' \in {D!addSubscriber(db, p, actor), D!removeSubscriber(db, p, actor)}
    BY <1>10 DEF D!Subscribe, D!Unsubscribe, D!addOrRemove, D!asks
  <2>2. p \in PostId
    BY <1>4, <2>1
  <2> HIDE DEF p
  <2>3. db' \in Tables
    BY <1>1, <2>1, <2>2, PostsWritten
  <2> QED BY <1>10, <2>1, <2>3 DEF Leaves
<1> QED BY <1>3, <1>5, <1>6, <1>7, <1>8, <1>9, <1>10 DEF Handled, Leaves

\* The steps of a request before it writes, and those that write nothing.
LEMMA RequestGoesOn ==
  ASSUME NotificationsInv, Watch,
         \/ \E op \in scope.operations, u \in User : \E target \in targets(op, u) : BeginRequest(op, u, target)
         \/ LockForUpdate \/ TestFails \/ RollbackRequest
  PROVE  NotificationsInv'
<1>1. /\ db \in Tables /\ account \in [User -> Account] /\ hooks \in [Hook -> Webhook \cup {None}]
      /\ WriterOK /\ scope \in Scopes
  BY DEF NotificationsInv, Basics, TypeOK
<1>2. UNCHANGED <<discussionVars, account, hooks, notifications, mentioned, tasks>>
  BY DEF BeginRequest, LockForUpdate, TestFails, RollbackRequest
<1>3. rowsOf(hooks) \subseteq Hook
  BY <1>1 DEF rowsOf
<1>4. WriterOK'
  <2>1. ASSUME NEW op \in scope.operations, NEW u \in User, NEW target \in targets(op, u),
               BeginRequest(op, u, target)
        PROVE  WriterOK'
    <3>1. writer' = [op |-> op, actor |-> u, target |-> target, held |-> {}, wants |-> rowsToLock(op, u, target)]
      BY <2>1 DEF BeginRequest
    <3>2. op \in OnUser => target \in User
      BY DEF targets
    <3>3. op \in OnWebhook \cup {"MarkFailed"} => target \in rowsOf(hooks)
      <4>1. op \in Operations
        BY <1>1, StartsAssumption
      <4>2. op # "MarkFailed"
        BY <4>1 DEF Operations, OnUser, OnWebhook, OnPost, OwnRows
      <4>3. op \in OnWebhook => op \notin OnUser
        BY DEF OnUser, OnWebhook
      <4> QED BY <4>2, <4>3 DEF targets
    <3>4. rowsToLock(op, u, target) \in Seq(User \cup Hook)
      <4>1. CASE op = "RestoreUser"
        <5>1. target \in User
          BY <3>2, <4>1 DEF OnUser
        <5>2. rowsToLock(op, u, target) \in {<<u, target>>, <<target, u>>}
          BY <4>1 DEF rowsToLock
        <5>3. <<u, target>> \in Seq(User \cup Hook) /\ <<target, u>> \in Seq(User \cup Hook)
          BY <5>1
        <5> QED BY <5>2, <5>3
      <4>2. CASE op \in {"BlockUser", "ChangeUserRole", "UpdateWebhook", "DeleteWebhook"}
        <5>1. target \in User \cup Hook
          BY <1>3, <3>2, <3>3, <4>2 DEF OnUser, OnWebhook
        <5>2. rowsToLock(op, u, target) = <<u, target>>
          BY <4>2 DEF rowsToLock
        <5> QED BY <5>1, <5>2
      <4>3. CASE op \notin {"RestoreUser", "BlockUser", "ChangeUserRole", "UpdateWebhook", "DeleteWebhook"}
        <5>1. rowsToLock(op, u, target) = <<u>>
          BY <4>3 DEF rowsToLock
        <5> QED BY <5>1
      <4> QED BY <4>1, <4>2, <4>3
    <3> QED BY <1>2, <3>1, <3>2, <3>3, <3>4 DEF WriterOK
  <2>2. CASE LockForUpdate
    <3>1. /\ writer # None /\ writer.wants # << >> /\ writer.wants \in Seq(User \cup Hook)
          /\ writer' = [writer EXCEPT !.held = @ \cup {Head(writer.wants)}, !.wants = Tail(@)]
      BY <1>1, <2>2 DEF LockForUpdate, WriterOK
    <3>2. Head(writer.wants) \in User \cup Hook /\ Tail(writer.wants) \in Seq(User \cup Hook)
      BY <3>1
    <3> QED BY <1>1, <1>2, <3>1, <3>2 DEF WriterOK
  <2>3. CASE TestFails
    <3>1. /\ writer # None /\ writer.op = "TestWebhook"
          /\ writer' = [writer EXCEPT !.op = "MarkFailed", !.wants = <<writer.target>>]
      BY <2>3 DEF TestFails, performs
    <3>2. writer.target \in rowsOf(hooks)
      BY <1>1, <3>1 DEF WriterOK, OnWebhook
    <3>3. <<writer.target>> \in Seq(User \cup Hook)
      BY <1>3, <3>2
    <3> QED BY <1>1, <1>2, <3>1, <3>2, <3>3 DEF WriterOK, OnUser
  <2>4. CASE RollbackRequest
    BY <2>4 DEF RollbackRequest, WriterOK
  <2> QED BY <2>1, <2>2, <2>3, <2>4
<1> QED BY <1>1, <1>2, <1>4, OnlyRowsChange DEF discussionVars

\* The requests on accounts, notifications and webhooks.
LEMMA RowsKeep ==
  ASSUME NotificationsInv, Watch, AccountRequest \/ ReadRequest \/ WebhookRequest
  PROVE  NotificationsInv'
<1>1. /\ db \in Tables /\ account \in [User -> Account] /\ hooks \in [Hook -> Webhook \cup {None}]
      /\ notifications \in Seq(Notice) /\ WriterOK /\ writer # None /\ actor \in User
  <2>1. writer # None
    BY DEF AccountRequest, ReadRequest, WebhookRequest, performs
  <2> QED BY <2>1 DEF NotificationsInv, Basics, TypeOK, WriterOK, actor
<1>2. WriterOK'
  BY DEF AccountRequest, ReadRequest, WebhookRequest, WriterOK
<1>3. CASE AccountRequest
  <2>1. ASSUME NEW u \in User, NEW k \in Account, account' = [account EXCEPT ![u] = k]
        PROVE  account' \in [User -> Account]
    BY <1>1, <2>1
  <2>2. ASSUME NEW u \in User
        PROVE  /\ \A e \in Changeable, value \in {"on", "off"} :
                    [account[u] EXCEPT !.setting[e] = value] \in Account
               /\ \A name \in Name : [account[u] EXCEPT !.name = name] \in Account
               /\ \A active \in BOOLEAN : [account[u] EXCEPT !.active = active] \in Account
    <3>1. account[u] \in Account
      BY <1>1
    <3>2. ASSUME NEW e \in Changeable, NEW value \in {"on", "off"}
          PROVE  [account[u] EXCEPT !.setting[e] = value] \in Account
      <4>1. [account[u].setting EXCEPT ![e] = value] \in Setting
        BY <3>1, BoundsAssumption DEF Account, Setting
      <4> QED BY <3>1, <4>1 DEF Account
    <3> QED BY <3>1, <3>2 DEF Account
  <2>3. writer.op \in OnUser => writer.target \in User
    BY <1>1 DEF WriterOK
  <2>4. account' \in [User -> Account] /\ db' \in Tables
    <3>1. CASE performs("UpdateUserNotifications") /\ UNCHANGED db
               /\ \E e \in Changeable, value \in {"on", "off"} : updateCurrentUserSettings(e, value)
      BY <1>1, <2>1, <2>2, <3>1 DEF updateCurrentUserSettings
    <3>2. CASE performs("UpdateUserProfile") /\ UNCHANGED db
               /\ \E name \in Name : updateCurrentUserProfile(name)
      BY <1>1, <2>1, <2>2, <3>2 DEF updateCurrentUserProfile
    <3>3. CASE \/ performs("BlockUser") /\ UNCHANGED db
                  /\ account' = [account EXCEPT ![writer.target].active = FALSE]
               \/ performs("RestoreUser") /\ UNCHANGED db
                  /\ account' = [account EXCEPT ![writer.target].active = TRUE]
      <4>1. writer.target \in User
        BY <2>3, <3>3 DEF performs, OnUser
      <4> QED BY <1>1, <2>1, <2>2, <3>3, <4>1
    <3>4. CASE performs("ChangeUserRole") /\ UNCHANGED account
               /\ \E role \in Role : db' = [db EXCEPT !.role[writer.target] = role]
      <4>1. writer.target \in User
        BY <2>3, <3>4 DEF performs, OnUser
      <4>2. PICK role \in Role : db' = [db EXCEPT !.role[writer.target] = role]
        BY <3>4
      <4>3. [db.role EXCEPT ![writer.target] = role] \in [User -> Role]
        BY <1>1 DEF Tables
      <4>4. db' \in Tables
        BY <1>1, <4>2, <4>3 DEF Tables
      <4> QED BY <1>1, <3>4, <4>4
    <3> QED BY <1>3, <3>1, <3>2, <3>3, <3>4 DEF AccountRequest
  <2>5. UNCHANGED <<scope, hooks, notifications, mentioned, tasks>>
    BY <1>3 DEF AccountRequest
  <2> QED BY <1>1, <1>2, <2>4, <2>5, OnlyRowsChange
<1>4. CASE ReadRequest
  <2>1. UNCHANGED <<discussionVars, account, hooks, mentioned, tasks>>
    BY <1>4 DEF ReadRequest
  <2>2. ASSUME NEW i \in DOMAIN notifications
        PROVE  [notifications[i] EXCEPT !.read = TRUE] \in Notice
    <3>1. notifications[i] \in Notice
      BY <1>1
    <3> QED BY <3>1 DEF Notice
  <2>3. /\ DOMAIN notifications' = DOMAIN notifications
        /\ \A i \in DOMAIN notifications :
             notifications'[i] \in {notifications[i], [notifications[i] EXCEPT !.read = TRUE]}
        /\ notifications' = [i \in DOMAIN notifications |-> notifications'[i]]
    <3>1. CASE \E i \in DOMAIN notifications : notifications' = [notifications EXCEPT ![i].read = TRUE]
      BY <1>1, <3>1
    <3>2. CASE notifications' = [i \in DOMAIN notifications |->
                 IF notifications[i].to = actor THEN [notifications[i] EXCEPT !.read = TRUE]
                 ELSE notifications[i]]
      BY <3>2
    <3> QED BY <1>4, <3>1, <3>2 DEF ReadRequest
  <2>4. notifications' \in Seq(Notice)
    <3>1. \A i \in DOMAIN notifications : notifications'[i] \in Notice
      BY <1>1, <2>2, <2>3
    <3>2. Len(notifications) \in Nat /\ DOMAIN notifications = 1 .. Len(notifications)
      BY <1>1
    <3> QED BY <2>3, <3>1, <3>2
  <2> QED BY <1>1, <1>2, <2>1, <2>3, <2>4, RequestKeeps DEF discussionVars
<1>5. CASE WebhookRequest
  <2>1. ASSUME NEW h \in Hook, NEW row \in Webhook \cup {None}, hooks' = [hooks EXCEPT ![h] = row]
        PROVE  hooks' \in [Hook -> Webhook \cup {None}]
    BY <1>1, <2>1
  <2>2. writer.op \in OnWebhook \cup {"MarkFailed"} => writer.target \in Hook /\ hooks[writer.target] \in Webhook
    BY <1>1 DEF WriterOK, rowsOf
  <2>3. ASSUME NEW h \in Hook, NEW type \in {w.type : w \in Webhook}, NEW status \in {w.status : w \in Webhook},
               createEditWebhook(h, type, status) \/ createEditWebhook(h, type, restored(status))
        PROVE  hooks' \in [Hook -> Webhook \cup {None}]
    <3>1. type \in WebhookType /\ status \in {"enabled", "disabled", "failed"}
      BY DEF Webhook
    <3>2. \A s \in {status, restored(status)} : [type |-> type, status |-> s] \in Webhook
      BY <3>1 DEF Webhook, restored
    <3> QED BY <1>1, <2>3, <3>2 DEF createEditWebhook
  <2>4. hooks' \in [Hook -> Webhook \cup {None}]
    <3>1. CASE \E type \in {w.type : w \in Webhook}, status \in {w.status : w \in Webhook} :
                 performs("CreateWebhook") /\ freeIds(hooks) # {}
                   /\ createEditWebhook(Min(freeIds(hooks)), type, status)
      <4>1. freeIds(hooks) \in SUBSET Nat /\ freeIds(hooks) # {} /\ freeIds(hooks) \subseteq Hook
        BY <1>1, <3>1, RowsAssumption DEF freeIds
      <4>2. Min(freeIds(hooks)) \in freeIds(hooks)
        BY <4>1, NatHasLeast DEF Min
      <4> QED BY <2>3, <3>1, <4>1, <4>2
    <3>2. CASE \E type \in {w.type : w \in Webhook}, status \in {w.status : w \in Webhook} :
                 performs("UpdateWebhook") /\ createEditWebhook(writer.target, type, restored(status))
      <4>1. writer.target \in Hook
        BY <2>2, <3>2 DEF performs, OnWebhook
      <4> QED BY <2>3, <3>2, <4>1
    <3>3. CASE performs("DeleteWebhook") /\ hooks' = [hooks EXCEPT ![writer.target] = None]
      BY <2>1, <2>2, <3>3 DEF performs, OnWebhook
    <3>4. CASE performs("TestWebhook") /\ UNCHANGED hooks
      BY <1>1, <3>4
    <3>5. CASE performs("MarkFailed") /\ hooks' = [hooks EXCEPT ![writer.target].status = "failed"]
      <4>1. writer.target \in Hook /\ hooks[writer.target] \in Webhook
        BY <2>2, <3>5 DEF performs
      <4>2. [hooks[writer.target] EXCEPT !.status = "failed"] \in Webhook
        BY <4>1 DEF Webhook
      <4> QED BY <2>1, <3>5, <4>1, <4>2
    <3> QED BY <1>5, <3>1, <3>2, <3>3, <3>4, <3>5 DEF WebhookRequest
  <2>5. UNCHANGED <<discussionVars, account, notifications, mentioned, tasks>>
    BY <1>5 DEF WebhookRequest
  <2> QED BY <1>1, <1>2, <2>4, <2>5, OnlyRowsChange DEF discussionVars
<1> QED BY <1>3, <1>4, <1>5

\* A request on posts.
LEMMA PostRequestKeeps ==
  ASSUME NotificationsInv, Watch, PostRequest
  PROVE  NotificationsInv'
<1>1. /\ db' \in Tables /\ scope' = scope
      /\ \/ tasks' = tasks
         \/ \E k \in Task : Fresh(k) /\ Len(tasks) < scope.tasks /\ tasks' = Append(tasks, k)
  BY HandledLeaves DEF PostRequest
<1>2. account' \in [User -> Account] /\ hooks' \in [Hook -> Webhook \cup {None}] /\ mentioned' = mentioned
      /\ notifications' = notifications /\ notifications \in Seq(Notice) /\ writer' = None
  BY DEF PostRequest, NotificationsInv, Basics, TypeOK
<1>3. WriterOK'
  BY <1>2 DEF WriterOK
<1> QED BY <1>1, <1>2, <1>3, RequestKeeps

(***************************************************************************)
(* The theorems.                                                           *)
(***************************************************************************)
\* The invariant holds from the start.
LEMMA InitInv ==
  ASSUME Init
  PROVE  NotificationsInv
<1>1. /\ db \in Tables /\ account \in [User -> Account] /\ hooks \in [Hook -> Webhook \cup {None}]
      /\ scope \in Scopes
  BY StartsAssumption DEF Init
<1>2. /\ notifications = << >> /\ mentioned = {} /\ writer = None /\ tasks = << >> /\ wish = << >>
  BY DEF Init
<1>3. TypeOK
  BY <1>1, <1>2 DEF TypeOK
<1>4. Basics
  BY <1>1, <1>2, <1>3, BoundsAssumption DEF Basics, WriterOK
<1> QED BY <1>2, <1>4 DEF NotificationsInv, LogAgrees, ToldIffWanted, running

\* Every step keeps the invariant.
LEMMA StepInv ==
  ASSUME NotificationsInv, [Next]_vars
  PROVE  NotificationsInv'
<1>1. CASE UNCHANGED vars
  <2>1. UNCHANGED <<db, blobs, scope, account, hooks, notifications, mentioned, writer, tasks, wish>>
    BY <1>1 DEF vars
  <2>2. Basics' <=> Basics
    BY <2>1 DEF Basics, TypeOK, WriterOK
  <2>3. LogAgrees' <=> LogAgrees
    BY <2>1 DEF LogAgrees, logOf, textPost
  <2>4. \A t : knows(t)' = knows(t)
    BY <2>1 DEF knows, toldOfText, sameText, textPost
  <2>5. ToldIffWanted' <=> ToldIffWanted
    BY <2>1, <2>4 DEF ToldIffWanted, toldBy
  <2>6. \A t, e : wanting(t, e)' = wanting(t, e)
    BY <2>1 DEF wanting, getCurrentUserSettings
  <2>7. running' = running
    BY <2>1 DEF running
  <2>8. ASSUME NEW t \in running
        PROVE  RunningOK(t)' <=> RunningOK(t)
    <3>1. Watched(t)' <=> Watched(t)
      BY <2>1, <2>6 DEF Watched
    <3>2. tasks'[t] = tasks[t] /\ wish'[t] = wish[t] /\ knows(t)' = knows(t)
      BY <2>1, <2>4
    <3> QED BY <3>1, <3>2 DEF RunningOK
  <2> QED BY <2>2, <2>3, <2>5, <2>7, <2>8 DEF NotificationsInv
<1>2. CASE Next
  <2>1. Watch
    BY <1>2 DEF Next
  <2>2. CASE \E t \in running :
               asTask(\/ ReadUsers(t) \/ ReadLog(t) \/ LockRow(t) \/ Tell(t) \/ ListWebhooks(t)
                      \/ triggerWebhook(t) \/ MarkFailed(t) \/ CommitTask(t) \/ AbortTask(t))
    BY <2>1, <2>2, TaskStepKeeps
  <2> QED BY <1>2, <2>1, <2>2, RequestGoesOn, RowsKeep, PostRequestKeeps DEF Next
<1> QED BY <1>1, <1>2

\* The inductive invariant holds in every reachable state.
THEOREM NotificationsInvariant == Spec => []NotificationsInv
<1>1. Init => NotificationsInv
  BY InitInv
<1>2. NotificationsInv /\ [Next]_vars => NotificationsInv'
  BY StepInv
<1> QED BY <1>1, <1>2, PTL DEF Spec

\* Members, settings, webhooks, notifications and tasks keep their types, and a
\* task that is over has no row locked.
THEOREM TypesHold == Spec => []TypeOK
<1>1. NotificationsInv => TypeOK
  BY DEF NotificationsInv, Basics
<1> QED BY <1>1, NotificationsInvariant, PTL

\* Whoever wanted to be told of an event all the time a committed task ran was
\* told, or, of a mention, knew already; nobody was told who never wanted to, nor
\* who acted; and no task tells of a mention whom the notifications showed as
\* told of it (the functions of notify_*.go and GetActiveSubscribers).
THEOREM ToldAsWanted == Spec => []ToldAsWished
<1>1. NotificationsInv => NoRepeatedMention
  BY DEF NotificationsInv, RunningOK, TaskOK, NotAgain, NoRepeatedMention
<1>2. NotificationsInv => ToldAsWished
  BY <1>1 DEF NotificationsInv, ToldAsWished
<1> QED BY <1>2, NotificationsInvariant, PTL
=============================================================================
