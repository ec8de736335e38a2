SPECIFICATION FairLive
CONSTANTS
  a1 = a1
  a2 = a2
  Addrs <- Both
  Loaded <- ListsOne
  Found <- YieldsThree
  Nowhere = Nowhere
  MaxHeld = 1
  MaxEdits = 2
INVARIANT
  ScheduledOnce
PROPERTIES
  AddNeverDuplicates
  KeepsChecking
  FileTakesEffect
