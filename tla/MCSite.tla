-------------------------------- MODULE MCSite --------------------------------
(* Small instances of Site for TLC.                                        *)
EXTENDS Site, TLC

CONSTANTS r1, r2, r3       \* processes that migrate
CONSTANTS s1, s2           \* checkout sessions

\* Two sites under site.org, a custom domain, a name that contains the
\* site's elsewhere than at its end, and one that is none.
Hosts == {"alpha.site.org", "beta.site.org", "site.org", "feedback.com", "bet.site.orga", "beta"}
SubdomainOf ==
  [h \in Hosts |-> CASE h = "alpha.site.org" -> "alpha" [] h = "beta.site.org" -> "beta"
                     [] h = "bet.site.orga" -> "beta" [] OTHER -> ""]
OfTheSite == {"alpha.site.org", "beta.site.org", "site.org"}
NoHostname == {"beta"}
Positions ==
  [h \in Hosts \cup {""} |-> CASE h = "" -> 0 [] h = "alpha.site.org" -> 1
     [] h = "bet.site.orga" -> 2 [] h = "beta" -> 3 [] h = "beta.site.org" -> 4
     [] h = "feedback.com" -> 5 [] OTHER -> 6]

row(subdomain) == [createTenant(subdomain) EXCEPT !.private = TRUE, !.feed = FALSE]
NoTenants == [t \in Tenant |-> None]
One == (1 :> row("alpha")) @@ (2 :> None)
Locked == (1 :> [row("alpha") EXCEPT !.status = "locked"]) @@ (2 :> None)
Two == (1 :> row("alpha")) @@ (2 :> row("beta"))
NoBills == [t \in Tenant |-> None]
Paddle == (1 :> [customer |-> None, sub |-> None, paddle |-> TRUE]) @@ (2 :> None)

image(old, new) == (r1 :> old) @@ (r2 :> new) @@ (r3 :> new)

from(about, images, applied, recorded, m, rows, bills, sessions, statuses, n) ==
  [about |-> about, files |-> images, applied |-> applied, recorded |-> recorded, mode |-> m,
   tenants |-> rows, billing |-> bills, sessions |-> sessions, statuses |-> statuses, attempts |-> n]
empty(about, images, applied, recorded) ==
  from(about, images, applied, recorded, "single", NoTenants, NoBills, {}, {}, 0)
hosted(about, rows, bills, sessions, statuses, n) ==
  from(about, image({}, {}), <<1, 2, 3>>, TRUE, "multi", rows, bills, sessions, statuses, n)

\* Two releases that start together on a new database, one behind the other, or
\* the same on one from before the history; and an operator on the new one.
NewDatabase == empty({"migrate", "bootstrap"}, image({1, 2}, {1, 2, 3}), << >>, TRUE)
Upgrade == empty({"migrate"}, image({1, 2}, {1, 2, 3}), <<1>>, TRUE)
BeforeHistory == empty({"migrate"}, image({1, 2, 3}, {1, 2, 3}), <<1>>, FALSE)

\* Two sites and the domains they want; a locked site that pays, one that comes
\* from Paddle, two that pay, and one whose settings change meanwhile; each with
\* the states its subscriptions begin in.
Domains == hosted({"settings"}, Two, NoBills, {}, {}, 0)
LockedPays == hosted({"billing"}, Locked, NoBills, {s1}, Status, 2)
FromPaddle == hosted({"billing"}, One, Paddle, {s1, s2}, {"trialing"}, 1)
TwoPay == hosted({"billing"}, Two, NoBills, {s1, s2}, {"active", "incomplete"}, 1)
PaysWhileChanged == hosted({"billing", "settings"}, One, NoBills, {s1}, {"active"}, 1)

Deployments ==
  {NewDatabase, Upgrade, BeforeHistory, Domains, LockedPays, FromPaddle, TwoPay, PaysWhileChanged}
===============================================================================
