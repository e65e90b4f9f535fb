SPECIFICATION FairSpec
CONSTANTS
  r1 = r1
  r2 = r2
  r3 = r3
  s1 = s1
  s2 = s2
  None = None
  Runner = {r1, r2, r3}
  Version = {1, 2, 3}
  Tenant = {1, 2}
  Host <- Hosts
  Subdomain <- SubdomainOf
  UnderDomain <- OfTheSite
  NotHostname <- NoHostname
  Collation <- Positions
  Logo = {logo}
  Operator = {o1, o2}
  Admin = {a1, a2}
  Session = {s1, s2}
  Handler = {h1, h2}
  MaxAttempts = 2
  Scopes <- Deployments
CHECK_DEADLOCK FALSE
INVARIANTS TypeOK MigrationsApplied BootstrapFindingHolds RoutedToOwner OneSubscriptionPerCheckout ProIsBacked
PROPERTIES CheckoutSettled
