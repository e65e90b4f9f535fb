---------------------------------- MODULE Site ----------------------------------
(***************************************************************************)
(* A deployment from its empty database on: servers migrate it, an         *)
(* operator creates the site, administrators change its settings; or a     *)
(* hosted database with several sites that are billed.                     *)
(***************************************************************************)
EXTENDS StripeBilling

\* The database was migrated by earlier releases, in order, and has their rows:
\* sites whose names differ, none of which is a custom domain that another has
\* or that a form would refuse, and plans of the provider before Stripe only.
ASSUME ScopesAssumption == \A s \in Scopes :
  /\ s.files \in [Runner -> SUBSET Version] /\ Chained(s.files) /\ Later(s.files)
  /\ s.applied \in Seq(Version) /\ InOrder(s.applied)
  /\ s.mode \in {"single", "multi"} /\ s.tenants \in [Tenant -> Row \cup {None}]
  /\ s.mode = "multi" => NamesApart(s.tenants)
  /\ s.statuses \subseteq Status
  /\ s.billing \in [Tenant -> Bill \cup {None}]
  /\ \A t \in Tenant : s.billing[t] # None => s.billing[t].sub = None
  /\ \A t \in Tenant : s.tenants[t] # None /\ s.tenants[t].pro => s.billing[t] # None /\ s.billing[t].paddle
  /\ \A r \in Runner : \A v \in s.files[r] \ Range(s.applied) : \A w \in Range(s.applied) : v > w

vars == <<migrationVars, tenantVars, billingVars, scope>>

Init ==
  \E s \in Scopes :
    /\ scope = s
    /\ MigrationInit(s.files, s.applied, s.recorded)
    /\ TenantInit(s.mode, s.tenants)
    /\ BillingInit(s.billing)

Next ==
  /\ UNCHANGED scope
  /\ \/ "migrate" \in scope.about /\ MigrationNext /\ UNCHANGED <<tenantVars, billingVars>>
     \/ "bootstrap" \in scope.about /\ BootstrapNext /\ UNCHANGED <<migrationVars, billingVars>>
     \/ "settings" \in scope.about /\ SettingsNext /\ UNCHANGED <<migrationVars, billingVars>>
     \/ "billing" \in scope.about /\ BillingNext /\ UNCHANGED migrationVars

Spec == Init /\ [][Next]_vars

\* Handlers go on, Stripe delivers what is not answered, and PostgreSQL queues
\* those who wait for a row.
FairSpec ==
  /\ Spec
  /\ \A a \in Admin : WF_vars((CommitSettings(a) \/ AbortSettings(a)) /\ UNCHANGED <<scope, migrationVars, billingVars>>)
  /\ \A h \in Handler : SF_vars(DeliveryStep(h) /\ UNCHANGED <<scope, migrationVars>>)
  /\ \A e \in Completed : WF_vars(/\ e \in DOMAIN events /\ events[e] = "pending"
                                  /\ \E h \in Handler : IncomingStripeWebhook(h, e)
                                  /\ UNCHANGED <<scope, migrationVars, tenantVars>>)

\* Each variable has its type.
TypeOK == MigrationTypeOK /\ TenantTypeOK /\ BillingTypeOK
=============================================================================
