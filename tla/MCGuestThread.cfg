SPECIFICATION GuestSpec
CONSTANTS
  Messages = {first, guest}
  FromGuest = {guest}
  First = first
  NoMessage = NoMessage
  Loads = {l1, l2}
  Burn = 1
  Lifetime = 2
  Grace = 1
  Unopened = 2
  LastVisit = 2
  MaxClock = 5
INVARIANTS GuestTypeOK WindowHolds
PROPERTIES OpenedLinksStay LinksEnd
CHECK_DEADLOCK FALSE
