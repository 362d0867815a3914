SPECIFICATION BootSpec

CONSTANTS
  Channels = {1, 2}
  Enabled <- MCEnabled
  Plans <- MCPlans
  Typed <- MCTyped
  Profile <- MCProfile
  Default <- MCDefault
  Ramp = 4
  Forever = 9999
  Lossy <- MCLossy
  Junk = Junk
  Unset = Unset
  Chunks = 2

INVARIANTS
  BootTypeOK
  BeliefIsHeld
  SafeReboot

PROPERTIES
  CoherenceLostOnlyBy
  OnlyAsNamed
  RebootEnds
