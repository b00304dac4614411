\* Clients of one organization: every mix of Clients, up to four requests, two at a time.
CONSTANTS
  olga = olga
  adam = adam
  mary = mary
  ivan = ivan
  nina = nina
  o1 = o1
  o2 = o2
  ip1 = ip1
  r1 = r1
  r2 = r2
  NoUser = NoUser
  NoOrg = NoOrg
  Users <- AllUsers
  Orgs <- TwoOrgs
  Ips <- OneIp
  Passwords <- TwoPasswords
  Requests <- TwoRequests
  PoolSize = 3
  MaxFailures = 2
  MaxEnvironments = 3
  MaxOps = 4
  Start <- Started
  Mixes <- Clients
SPECIFICATION FairSpec
INVARIANTS ServerInv GuessBound OneOwner RemovalNeverRefused OverrideOnlyLowers
PROPERTIES TokenOnce InvitationOnce MemberChangeChecked DeletionsKept RequestsEnd
CHECK_DEADLOCK FALSE
