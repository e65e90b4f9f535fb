-------------------------------- MODULE Tenants --------------------------------
(***************************************************************************)
(* The sites: how the first one is created by the operator, how a host     *)
(* name leads to a site, and how administrators change its settings.  A    *)
(* request of an administrator holds the row of its tenant from its        *)
(* authentication to its commit; requests of two tenants overlap.          *)
(***************************************************************************)
EXTENDS SchemaMigrations

CONSTANTS
  Tenant,          \* ids
  Host,            \* host names, as strings
  Subdomain,       \* env.Subdomain: of each host name
  UnderDomain,     \* the host names that end with the site's domain, or are it
  NotHostname,     \* custom domains that have no dot, or other characters
  Collation,       \* the position of each custom domain in the database's order
  Logo,            \* keys of images
  Operator,        \* terminals of operators
  Admin,           \* requests of administrators
  None

ASSUME HostAssumption ==
  /\ Tenant \subseteq Nat
  /\ UnderDomain \cup NotHostname \subseteq Host /\ "" \notin Host
  /\ Collation \in [Host \cup {""} -> Nat] /\ \A h \in Host : Collation[h] > Collation[""]

VARIABLES
  mode,            \* HOST_MODE: single or multi
  tenants,         \* the committed rows
  locked,          \* who has the row of each tenant
  bootstrap,       \* where each operator's command is
  settings         \* the requests of administrators

tenantVars == <<mode, tenants, locked, bootstrap, settings>>

Row == [status : {"active", "pending", "locked", "disabled"},
        subdomain : Range(Subdomain) \cup {""}, cname : Host \cup {""}, logo : Logo \cup {None},
        private : BOOLEAN, feed : BOOLEAN, hidden : BOOLEAN, pro : BOOLEAN]

\* What a request of an administrator has read and is about to write.
SettingsRequest == [tenant : Tenant, pc : {"lock", "validate", "write", "commit"},
                    seen : Logo \cup {None}, row : Row \cup {None}]

ASSUME NoneIsNoRow == None \notin Row \cup SettingsRequest \cup Admin

\* What the statement inserts.
createTenant(subdomain) ==
  [status |-> "active", subdomain |-> subdomain, cname |-> "", logo |-> None,
   private |-> FALSE, feed |-> TRUE, hidden |-> TRUE, pro |-> FALSE]

\* The names of hosted sites: subdomains differ and have no dot, and custom
\* domains differ and are names that a form accepts.
NamesApart(rows) ==
  \A t \in Tenant : rows[t] # None =>
    /\ rows[t].subdomain \in Host => rows[t].subdomain \in NotHostname \ UnderDomain
    /\ rows[t].cname # "" => rows[t].cname \notin NotHostname \cup UnderDomain
    /\ \A s \in Tenant \ {t} : rows[s] # None =>
         /\ rows[s].subdomain # rows[t].subdomain
         /\ rows[t].cname # "" => rows[s].cname # rows[t].cname

TenantInit(m, rows) ==
  /\ mode = m /\ tenants = rows
  /\ locked = [t \in Tenant |-> None]
  /\ bootstrap = [o \in Operator |-> "idle"]
  /\ settings = [a \in Admin |-> None]

existing == {t \in Tenant : tenants[t] # None}

(***************************************************************************)
(* Which tenant a host name leads to.                                      *)
(***************************************************************************)
getFirstTenant == IF existing = {} THEN {} ELSE {Min(existing)}

\* The tenants that may be found: the order leaves ties open.
getTenantByDomain(host) ==
  LET found == {t \in existing : \/ tenants[t].subdomain \in {Subdomain[host], host}
                                 \/ tenants[t].cname = host}
  IN {t \in found : \A s \in found : Collation[tenants[t].cname] >= Collation[tenants[s].cname]}

IsDisabled(t) == tenants[t].status = "disabled"

SingleTenant == {t \in getFirstTenant : ~IsDisabled(t)}
MultiTenant(host) == {t \in getTenantByDomain(host) : ~IsDisabled(t)}
TenantOf(host) == IF mode = "single" THEN SingleTenant ELSE MultiTenant(host)

(***************************************************************************)
(* The operator creates the only site of an installation.                  *)
(***************************************************************************)
atBootstrap(o, from, to) == bootstrap[o] = from /\ bootstrap' = [bootstrap EXCEPT ![o] = to]

\* The first migration creates the table of tenants.
previewAccount == schema # << >> /\ existing = {}

PreviewBootstrap(o) ==
  /\ mode = "single" /\ bootstrap[o] = "idle"
  /\ bootstrap' = [bootstrap EXCEPT ![o] = IF previewAccount THEN "previewed" ELSE "over"]
  /\ UNCHANGED <<mode, tenants, locked, settings>>

\* Mutation of LockBootstrap: nothing keeps two commands apart.
LockNothing(o) ==
  /\ atBootstrap(o, "previewed", "locked")
  /\ UNCHANGED <<mode, tenants, locked, settings>>

\* The operator has typed everything; the advisory lock keeps one command at a time.
LockBootstrap(o) ==
  /\ \A p \in Operator : bootstrap[p] \notin {"locked", "checked"}
  /\ atBootstrap(o, "previewed", "locked")
  /\ UNCHANGED <<mode, tenants, locked, settings>>

CheckBootstrap(o) ==
  /\ bootstrap[o] = "locked"
  /\ bootstrap' = [bootstrap EXCEPT ![o] = IF previewAccount THEN "checked" ELSE "over"]
  /\ UNCHANGED <<mode, tenants, locked, settings>>

\* The site is closed and gets its administrator in the same transaction; the
\* index on subdomains admits one empty name.
CreateSite(o) ==
  /\ SchemaReady
  /\ atBootstrap(o, "checked", "over")
  /\ LET row == [createTenant("") EXCEPT !.private = TRUE, !.feed = FALSE]
     IN tenants' = IF \E t \in existing : tenants[t].subdomain = "" THEN tenants
                   ELSE [tenants EXCEPT ![Min(Tenant \ existing)] = row]
  /\ UNCHANGED <<mode, locked, settings>>

\* A dry run, a wrong confirmation, a failure, a column that is not there yet.
EndBootstrap(o) ==
  /\ bootstrap[o] \in {"previewed", "locked", "checked"}
  /\ bootstrap' = [bootstrap EXCEPT ![o] = "over"]
  /\ UNCHANGED <<mode, tenants, locked, settings>>

(***************************************************************************)
(* Settings.                                                               *)
(***************************************************************************)
request(a, changes) == settings' = [settings EXCEPT ![a] = changes]

\* The tenant is read before its row is locked, the logo's key with it.
BeginSettings(a) ==
  /\ settings[a] = None
  /\ \E h \in Host : \E t \in TenantOf(h) :
       request(a, [tenant |-> t, pc |-> "lock", seen |-> tenants[t].logo, row |-> None])
  /\ UNCHANGED <<mode, tenants, locked, bootstrap>>

LockTenant(a) ==
  /\ settings[a] # None /\ settings[a].pc = "lock"
  /\ locked[settings[a].tenant] = None
  /\ locked' = [locked EXCEPT ![settings[a].tenant] = a]
  /\ request(a, [settings[a] EXCEPT !.pc = "validate"])
  /\ UNCHANGED <<mode, tenants, bootstrap>>

isCNAMEAvailable(cname, t) == \A s \in existing \ {t} : tenants[s].cname # cname

\* Mutation of validCNAME: the site's own names are not reserved.
validCNAMEAnywhere(cname, t) == cname \notin NotHostname /\ isCNAMEAvailable(cname, t)

validCNAME(cname, t) ==
  /\ mode = "multi" => cname \notin UnderDomain
  /\ cname \notin NotHostname
  /\ isCNAMEAvailable(cname, t)

\* The form has everything: a field left alone is written as it was read.
\* The logo is what the form brings, or what was read when the request began.
UpdateTenantSettings(a) ==
  /\ settings[a] # None /\ settings[a].pc = "validate"
  /\ \E cname \in Host \cup {""}, logo \in Logo \cup {None, settings[a].seen} :
       LET t == settings[a].tenant
       IN /\ cname # "" => validCNAME(cname, t)
          /\ request(a, [settings[a] EXCEPT
               !.pc = "write", !.row = [tenants[t] EXCEPT !.cname = cname, !.logo = logo]])
  /\ UNCHANGED <<mode, tenants, locked, bootstrap>>

\* A private site has no feeds, and there is no other kind any more.
UpdateTenantPrivacySettings(a) ==
  /\ settings[a] # None /\ settings[a].pc = "validate"
  /\ request(a, [settings[a] EXCEPT
       !.pc = "write", !.row = [tenants[settings[a].tenant] EXCEPT !.private = TRUE, !.feed = FALSE]])
  /\ UNCHANGED <<mode, tenants, locked, bootstrap>>

\* Style sheets and schemes of links are not part of the row here.
UpdateTenantAdvancedSettings(a) ==
  /\ settings[a] # None /\ settings[a].pc = "validate"
  /\ request(a, [settings[a] EXCEPT !.pc = "write", !.row = tenants[settings[a].tenant]])
  /\ UNCHANGED <<mode, tenants, locked, bootstrap>>

\* Mutation of WriteSettings: custom domains have no unique index.
WriteUnchecked(a) ==
  /\ settings[a] # None /\ settings[a].pc = "write"
  /\ request(a, [settings[a] EXCEPT !.pc = "commit"])
  /\ UNCHANGED <<mode, tenants, locked, bootstrap>>

\* The unique index on custom domains: who comes second waits, and may fail.
WriteSettings(a) ==
  /\ settings[a] # None /\ settings[a].pc = "write"
  /\ LET cname == settings[a].row.cname
     IN cname # "" =>
          /\ isCNAMEAvailable(cname, settings[a].tenant)
          /\ \A b \in Admin \ {a} :
               settings[b] # None /\ settings[b].pc = "commit" => settings[b].row.cname # cname
  /\ request(a, [settings[a] EXCEPT !.pc = "commit"])
  /\ UNCHANGED <<mode, tenants, locked, bootstrap>>

\* Mutation of unlock: the row stays locked.
unlockNothing(holder) == UNCHANGED locked
unlock(holder) == locked' = [t \in Tenant |-> IF locked[t] = holder THEN None ELSE locked[t]]

CommitSettings(a) ==
  /\ settings[a] # None /\ settings[a].pc = "commit"
  /\ tenants' = [tenants EXCEPT ![settings[a].tenant] = settings[a].row]
  /\ unlock(a) /\ request(a, None)
  /\ UNCHANGED <<mode, bootstrap>>

\* Refused by the validation or the index, failed, or cancelled.
AbortSettings(a) ==
  /\ settings[a] # None
  /\ unlock(a) /\ request(a, None)
  /\ UNCHANGED <<mode, tenants, bootstrap>>

SettingsStep(a) ==
  \/ LockTenant(a) \/ UpdateTenantSettings(a) \/ UpdateTenantPrivacySettings(a)
  \/ UpdateTenantAdvancedSettings(a) \/ WriteSettings(a) \/ CommitSettings(a)

BootstrapNext ==
  \E o \in Operator : \/ PreviewBootstrap(o) \/ LockBootstrap(o) \/ CheckBootstrap(o)
                      \/ CreateSite(o) \/ EndBootstrap(o)

SettingsNext == \E a \in Admin : BeginSettings(a) \/ SettingsStep(a) \/ AbortSettings(a)
-----------------------------------------------------------------------------
TenantTypeOK ==
  /\ mode \in {"single", "multi"}
  /\ tenants \in [Tenant -> Row \cup {None}]
  /\ bootstrap \in [Operator -> {"idle", "previewed", "locked", "checked", "over"}]
  /\ settings \in [Admin -> SettingsRequest \cup {None}]
  /\ \A a \in Admin : settings[a] # None =>
       /\ settings[a].tenant \in existing
       /\ settings[a].pc # "lock" => locked[settings[a].tenant] = a
  /\ \A t \in Tenant : locked[t] \in Admin => settings[locked[t]] # None

\* What a bootstrap found under its lock is true until it commits: there is no
\* site (account_store.go:89).
BootstrapFindingHolds == \A o \in Operator : bootstrap[o] = "checked" => existing = {}

\* A host name under the site's domain leads to the tenant of that subdomain,
\* and a custom domain to the one who set it, whatever others set meanwhile,
\* unless env.Subdomain, which finds the site's domain anywhere in a name, makes
\* the subdomain of another tenant of it (env.go:254).
RoutedToOwner ==
  mode = "multi" => \A h \in Host : \A t \in existing :
    /\ h \in UnderDomain /\ Subdomain[h] = tenants[t].subdomain => getTenantByDomain(h) = {t}
    /\ /\ tenants[t].cname = h
       /\ \A s \in existing \ {t} : tenants[s].subdomain # Subdomain[h]
       => getTenantByDomain(h) = {t}
=============================================================================
