SPECIFICATION LiveSpec
CONSTANTS
  a1 = a1
  a2 = a2
  Addrs <- Both
  Loaded <- ListsBoth
  Found <- YieldsNone
  Nowhere = Nowhere
  MaxHeld = 1
  MaxEdits = 1
PROPERTY
  NeverResurrects
