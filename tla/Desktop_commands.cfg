SPECIFICATION FairSpec
CONSTANTS
  c1 = c1
  c2 = c2
  k1 = k1
  k2 = k2
  h1 = h1
  h2 = h2
  u1 = u1
  p1 = p1
  None = None
  Slots <- MCSlots
  Cookies <- MCCookies
  Hosts <- MCHosts
  Users = {u1}
  ProgIDs <- MCProgIDs
  FirstHost = h1
  NoUser = u1
  MaxClients = 2
  MaxSubs = 2
  MaxReaders = 1
  Uses <- MCUses
INVARIANTS StateIsTheClients EverySubscriptionIsKept
PROPERTIES DisconnectStops LockComesFree OldClientsGo
