SPECIFICATION FairSpec
CONSTANTS
  Keys <- MixedKeys
  MaxPending = 2
  Chords <- AnyTwo
  BothHands = FALSE
INVARIANTS NoLostWakeup NeverStuck KeysMirrorHeld KeysTypeLabels MouseInStep
PROPERTY EveryKeyHandled
