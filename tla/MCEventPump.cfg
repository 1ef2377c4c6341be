CONSTANTS
  Cap = 2
  Raws <- PumpRaws
  TickMod = 5
  Sleeps = {0, 2}
  Masks <- MCMasks
  Slack = 1
  Burst = 2
SPECIFICATION FairSpec
INVARIANTS ButtonTracksMouse
PROPERTIES NullOnTime OnlyLastClicks CallReturns
