SPECIFICATION LiveSpec
CONSTANTS
  MaxHeight = 4
  NoFile = NoFile
  Torn = Torn
  Calls = {c1, c2}
  BatchSize = 2
  CheckpointInterval = 2
  PeerMisses = {2}
INVARIANTS TypeOK OneAtATime NoHoles CompleteIsComplete StoredIsApplied
PROPERTIES FlagReleased
