SPECIFICATION FairSpec
CONSTANTS
  NumHandles = 11
  Texts <- Batches
  Typed <- Lines
  Commands <- Everything
  Directories = {"root", "sub"}
  UserFiles <- Disk
  BatchMax = 3
  BodyMax = 4
  SlashMax = 1
  NamesMax = 7
  StrayBreaks = FALSE
INVARIANTS RunsAsAsked WholeAtPrompt OwnLines
PROPERTIES UnwindsAfterBreak EveryLineEnds
