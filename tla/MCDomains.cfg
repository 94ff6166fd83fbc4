CONSTANTS
  NrDomains = 5
  DomainType <- MCDomainType
  NrRealms = 3
  RealmDomains <- MCRealmDomains
  Devices <- MCDevices
  Est = 3
  NrTypes = 3
  EarlySlots = 2
  RealmSlots = {2, 3}
  RealmUnit = 2
  Sizes = {0, 2}
  Froms = {1, 2}
  MaxChanges = 2
SPECIFICATION Spec
INVARIANTS ArrayHolds DomainsComplete TypesGathered RealmsComplete RealmTypesRight ErrorsSurface
CHECK_DEADLOCK FALSE
