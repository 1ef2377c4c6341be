CONSTANTS
  RawCap = 3
  DosCap = 3
SPECIFICATION Spec
INVARIANTS DosReadsWhatWasTyped PairsStayWhole EachKeyHasOneReader ModifiersTrackKeys
