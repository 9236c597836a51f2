SPECIFICATION ListSpec
CONSTANTS
  Clients = {c1}
  Names = {1, 2}
  MaxIno = 4
  MaxEntries = 1
  Room = 1
INVARIANTS LinksExact TreeShape ListsAll ListsOnce
