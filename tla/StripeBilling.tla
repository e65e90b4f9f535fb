----------------------------- MODULE StripeBilling -----------------------------
(***************************************************************************)
(* Billing of hosted sites.  A customer completes a checkout at Stripe,    *)
(* which tells the server by an event: it is sent again until it is        *)
(* answered with success, possibly twice, and not in order.  The handler   *)
(* creates the subscription at Stripe and writes two tables in the         *)
(* request's transaction, without the tenant lock of other writes.  Its    *)
(* answer is fixed before WebSetup commits.                                *)
(***************************************************************************)
EXTENDS Tenants

CONSTANTS
  Session,         \* ids of checkout sessions
  Handler,         \* requests that deliver events
  MaxAttempts,     \* bound: deliveries of an event, and failures of them
  Scopes           \* bound: what behaviours start from, and are about

VARIABLES
  scope,           \* one of Scopes
  billing,         \* tenants_billing
  checkout,        \* at Stripe: the sessions,
  subscriptions,   \*   the subscriptions,
  keys,            \*   what was answered to requests with an idempotency key,
  events,          \*   and the events: pending or answered
  attempts,        \* of each event, how often it was delivered
  delivery,        \* what each handler is doing
  activated,       \* the sessions whose activation was committed
  lost             \* the events that were answered without having been committed

billingVars == <<billing, checkout, subscriptions, keys, events, attempts, delivery, activated, lost>>
stripeVars == <<checkout, subscriptions, keys, events, attempts>>

\* One subscription of each session, or more if Stripe is asked for them.
SubscriptionId == Session \X (1 .. MaxAttempts)
Bill == [customer : Session \cup {None}, sub : SubscriptionId \cup {None}, paddle : BOOLEAN]
CheckoutSession == [tenant : Tenant, mode : {"setup", "subscription"}, complete : BOOLEAN]

\* What a subscription is when Stripe creates it: its first payment succeeded, it
\* begins with a trial that nothing is paid for, or the payment failed.
Status == {"active", "trialing", "incomplete"}
Subscription == [tenant : Tenant \cup {None}, began : Status, ended : BOOLEAN]

Completed == {"completed"} \X Session
Deleted == {"deleted"} \X SubscriptionId

\* What a handler has read of its event, and is about to write.
Delivery == [event : Completed \cup Deleted, tenant : Tenant \cup {None}, bill : Bill \cup {None},
             sub : SubscriptionId \cup {None}, pc : {"create", "billing", "tenant", "commit"}]

ASSUME NoneIsNoSession == None \notin CheckoutSession \cup SubscriptionId \cup Bill \cup Delivery
ASSUME HandlersAssumption ==
  /\ None \notin Handler /\ Handler \cap Admin = {} /\ None \notin Tenant
  /\ MaxAttempts \in Nat \ {0}

BillingInit(bills) ==
  /\ billing = bills
  /\ checkout = [s \in Session |-> None]
  /\ subscriptions = << >> /\ keys = << >> /\ events = << >> /\ attempts = << >>
  /\ delivery = [h \in Handler |-> None]
  /\ activated = {} /\ lost = {}

\* What the program shows: Paddle was another provider.
IsPro(t) ==
  \/ mode = "single"
  \/ tenants[t].pro
  \/ billing[t] # None /\ billing[t].paddle /\ billing[t].sub = None

(***************************************************************************)
(* Stripe.                                                                 *)
(***************************************************************************)
\* What Stripe keeps by a key, with a value added or replaced.
put(f, x, y) == [z \in DOMAIN f \cup {x} |-> IF z = x THEN y ELSE f[z]]

occur(e) == events' = put(events, e, "pending") /\ attempts' = put(attempts, e, 0)

\* Sessions of the kind used before may still be under way.
createCheckoutSession(t, s) ==
  /\ mode = "multi" /\ checkout[s] = None /\ t \in existing
  /\ s \in scope.sessions                                                 \* bound
  /\ \E m \in {"setup", "subscription"} :
       checkout' = [checkout EXCEPT ![s] = [tenant |-> t, mode |-> m, complete |-> FALSE]]
  /\ UNCHANGED <<billing, subscriptions, keys, events, attempts, delivery, activated, lost>>

\* Sessions of the older kind come with a subscription.
CompleteCheckout(s) ==
  /\ checkout[s] # None /\ ~checkout[s].complete
  /\ checkout' = [checkout EXCEPT ![s].complete = TRUE]
  /\ occur(<<"completed", s>>)
  /\ IF checkout[s].mode = "setup" THEN UNCHANGED subscriptions
     ELSE \E t \in {checkout[s].tenant, None}, status \in Status :
            /\ status \in scope.statuses                                  \* bound
            /\ subscriptions' = put(subscriptions, <<s, 1>>, [tenant |-> t, began |-> status, ended |-> FALSE])
  /\ UNCHANGED <<billing, keys, delivery, activated, lost>>

EndSubscription(id) ==
  /\ ~subscriptions[id].ended
  /\ subscriptions' = [subscriptions EXCEPT ![id].ended = TRUE]
  /\ occur(<<"deleted", id>>)
  /\ UNCHANGED <<billing, checkout, keys, delivery, activated, lost>>

\* The portal shows the subscriptions of one customer, that of the last checkout.
CreateStripePortalSession(t) ==
  /\ billing[t] # None /\ billing[t].customer # None
  /\ \E id \in DOMAIN subscriptions : id[1] = billing[t].customer /\ EndSubscription(id)

(***************************************************************************)
(* The webhook.                                                            *)
(***************************************************************************)
work(h, changes) == delivery' = [delivery EXCEPT ![h] = changes]
at(h, pc) == delivery[h] # None /\ delivery[h].pc = pc
typeOf(h) == delivery[h].event[1]
sessionOf(h) == delivery[h].event[2]
siteOf(e) == IF e[1] = "completed" THEN checkout[e[2]].tenant ELSE subscriptions[e[2]].tenant

\* Which handler goes where; an event of a subscription that names no site is
\* answered, and nothing else.
IncomingStripeWebhook(h, e) ==
  /\ delivery[h] = None /\ e \in DOMAIN events
  /\ attempts[e] < scope.attempts                                         \* bound
  /\ attempts' = [attempts EXCEPT ![e] = @ + 1]
  /\ work(h, [event |-> e, tenant |-> siteOf(e), bill |-> None,
              sub |-> IF e[1] = "completed" THEN <<e[2], 1>> ELSE None,
              pc |-> IF siteOf(e) = None THEN "commit"
                     ELSE IF e[1] = "completed" /\ checkout[e[2]].mode = "setup" THEN "create"
                     ELSE "billing"])
  /\ UNCHANGED <<billing, checkout, subscriptions, keys, events, activated, lost>>

\* Mutation of idempotencyKey: each delivery has its own.
freshKey(s, n) == <<s, n>>
idempotencyKey(s, n) == <<s>>

\* Mutation of activates: whatever the status.
activatesAlways(status) == status \in Status
activates(status) == status \in {"active", "trialing"}

\* Stripe answers a key it knows as it did before.  It is taken to know every
\* key: a delivery so late that its key was forgotten is not modelled.
handleSetupCheckoutCompleted(h) ==
  /\ at(h, "create")
  /\ LET s == sessionOf(h)
         key == idempotencyKey(s, attempts[delivery[h].event])
         new == <<s, Cardinality({id \in DOMAIN subscriptions : id[1] = s}) + 1>>
         done(id, status) ==
           work(h, [delivery[h] EXCEPT !.sub = id, !.pc = IF activates(status) THEN "billing" ELSE "commit"])
     IN IF key \in DOMAIN keys
        THEN done(keys[key].sub, keys[key].status) /\ UNCHANGED <<subscriptions, keys>>
        ELSE \E status \in Status :
               /\ status \in scope.statuses                               \* bound
               /\ subscriptions' =
                    put(subscriptions, new, [tenant |-> delivery[h].tenant, began |-> status, ended |-> FALSE])
               /\ keys' = put(keys, key, [sub |-> new, status |-> status])
               /\ done(new, status)
  /\ UNCHANGED <<billing, checkout, events, attempts, activated, lost>>

\* Who has the row of tenants_billing, or is inserting it.
billingFree(h) ==
  \A g \in Handler \ {h} :
    delivery[g] # None /\ delivery[g].tenant = delivery[h].tenant => delivery[g].bill = None

activateStripeSubscription(h) ==
  /\ at(h, "billing") /\ typeOf(h) = "completed" /\ billingFree(h)
  /\ work(h, [delivery[h] EXCEPT !.pc = "tenant",
       !.bill = [customer |-> sessionOf(h), sub |-> delivery[h].sub, paddle |-> FALSE]])
  /\ UNCHANGED <<billing, stripeVars, activated, lost>>

\* A row that another transaction is inserting is not there yet.
cancelStripeSubscription(h) ==
  /\ at(h, "billing") /\ typeOf(h) = "deleted"
  /\ LET bill == billing[delivery[h].tenant]
     IN IF bill = None THEN work(h, [delivery[h] EXCEPT !.pc = "tenant"])
        ELSE /\ billingFree(h)
             /\ work(h, [delivery[h] EXCEPT !.pc = "tenant", !.bill = [bill EXCEPT !.sub = None]])
  /\ UNCHANGED <<billing, stripeVars, activated, lost>>

\* The second statement needs the row that administrators' requests hold.
LockBilledTenant(h) ==
  /\ at(h, "tenant") /\ locked[delivery[h].tenant] = None
  /\ locked' = [locked EXCEPT ![delivery[h].tenant] = h]
  /\ work(h, [delivery[h] EXCEPT !.pc = "commit"])
  /\ UNCHANGED <<mode, tenants, bootstrap, settings, billing, stripeVars, activated, lost>>

\* What the second statement of either command writes.
billed(row, type) ==
  IF type = "completed" THEN [row EXCEPT !.pro = TRUE, !.status = "active", !.hidden = FALSE]
  ELSE [row EXCEPT !.pro = FALSE, !.hidden = TRUE]

release(h) == unlock(h) /\ work(h, None) /\ UNCHANGED <<mode, bootstrap, settings>>
writes(h) == \E t \in Tenant : locked[t] = h
answer(h) == events' = [events EXCEPT ![delivery[h].event] = "answered"]

\* The answer may not arrive.
CommitDelivery(h) ==
  /\ at(h, "commit")
  /\ LET d == delivery[h]
     IN /\ tenants' = IF writes(h) THEN [tenants EXCEPT ![d.tenant] = billed(@, typeOf(h))] ELSE tenants
        /\ billing' = IF d.bill # None THEN [billing EXCEPT ![d.tenant] = d.bill] ELSE billing
        /\ activated' = IF writes(h) /\ typeOf(h) = "completed" THEN activated \cup {sessionOf(h)}
                        ELSE activated
        /\ answer(h) \/ (attempts[d.event] < scope.attempts /\ UNCHANGED events)
  /\ release(h)
  /\ UNCHANGED <<checkout, subscriptions, keys, attempts, lost>>

\* The commit fails, but not the answer.
CommitFails(h) ==
  /\ at(h, "commit") /\ writes(h)
  /\ answer(h)
  /\ lost' = lost \cup {delivery[h].event}
  /\ release(h)
  /\ UNCHANGED <<tenants, billing, checkout, subscriptions, keys, attempts, activated>>

\* Mutation of FailDelivery: the error is logged and answered with success.
FailAnswered(h) ==
  /\ delivery[h] # None /\ attempts[delivery[h].event] < scope.attempts
  /\ answer(h)
  /\ release(h)
  /\ UNCHANGED <<tenants, billing, checkout, subscriptions, keys, attempts, activated, lost>>

\* A call of Stripe or a statement fails, or the server dies: Stripe tries again.
FailDelivery(h) ==
  /\ delivery[h] # None /\ attempts[delivery[h].event] < scope.attempts     \* bound
  /\ release(h)
  /\ UNCHANGED <<tenants, billing, stripeVars, activated, lost>>

DeliveryStep(h) ==
  \/ /\ UNCHANGED tenantVars
     /\ handleSetupCheckoutCompleted(h) \/ activateStripeSubscription(h) \/ cancelStripeSubscription(h)
  \/ LockBilledTenant(h) \/ CommitDelivery(h)

BillingNext ==
  \/ /\ UNCHANGED tenantVars
     /\ \/ \E s \in Session : CompleteCheckout(s) \/ \E t \in Tenant : createCheckoutSession(t, s)
        \/ \E id \in DOMAIN subscriptions : EndSubscription(id)
        \/ \E t \in Tenant : CreateStripePortalSession(t)
        \/ \E h \in Handler, e \in DOMAIN events : IncomingStripeWebhook(h, e)
  \/ \E h \in Handler : DeliveryStep(h) \/ CommitFails(h) \/ FailDelivery(h)
-----------------------------------------------------------------------------
BillingTypeOK ==
  /\ billing \in [Tenant -> Bill \cup {None}]
  /\ checkout \in [Session -> CheckoutSession \cup {None}]
  /\ DOMAIN subscriptions \subseteq SubscriptionId
  /\ DOMAIN events \subseteq Completed \cup Deleted /\ DOMAIN attempts = DOMAIN events
  /\ delivery \in [Handler -> Delivery \cup {None}]
  /\ \A t \in Tenant : locked[t] \in Handler => at(locked[t], "commit")

\* "A retried webhook returns the same subscription" (stripe.go:135): however
\* often and at the same time an event is delivered, a checkout is billed once,
\* as long as Stripe knows the idempotency key.
OneSubscriptionPerCheckout == \A i, j \in DOMAIN subscriptions : i[1] = j[1] => i = j

\* A site is shown as paid only with a subscription of its own, or Paddle's, in
\* whatever order the events of several checkouts come, and with none whose first
\* payment failed (stripe.go:143-160).  Trials count, though nothing was paid, and
\* sessions of the older kind are not asked for the state of theirs.
ProIsBacked ==
  mode = "multi" => \A t \in existing : IsPro(t) =>
    /\ billing[t] # None
    /\ billing[t].sub = None => billing[t].paddle
    /\ billing[t].sub # None =>
         LET session == checkout[billing[t].sub[1]]
         IN /\ session.tenant = t
            /\ session.mode = "setup" => subscriptions[billing[t].sub].began # "incomplete"

\* What becomes of a checkout that was completed.
settled(s) ==
  \/ s \in activated \/ <<"completed", s>> \in lost
  \/ \E key \in DOMAIN keys : key[1] = s /\ keys[key].status = "incomplete"

\* A completed checkout activates its site in the end, unless the first payment
\* failed or a commit did after its event had been answered.
CheckoutSettled == \A s \in Session : checkout[s] # None /\ checkout[s].complete ~> settled(s)
=============================================================================
