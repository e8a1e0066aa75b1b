\* The credentials of one approval: two requests at a time exchange, refresh and
\* revoke them while the client's grant changes.
SPECIFICATION SessionSpec
CONSTANTS
  Clients = {c1}
  Credentials = {1, 2, 3, 4, 5, 6, 7}
  Callers = {r1, r2}
  Wide = Wide
  Narrow = Narrow
  WithChange = 5
  Grants <- TwoGrants
  GrantChanges <- OneChange
  DefaultGrant = Wide
  AllowRegistration = TRUE
  ScopeRequests <- ThreeScopes
  Nothing = Nothing
SYMMETRY Symmetry
INVARIANTS
  SingleUse
  WithinConsent
  GrantReaches
PROPERTIES
  SpentIssuesNothing
CHECK_DEADLOCK FALSE
