CONSTANTS
  Articles = {a1}
  Parts = {"typed", "huge"}
  MaxParts = 2
  MaxEdits = 3
  Names = {"n1"}
  NewName = "n3"
  Items = {i1, i2}
  MaxAsks = 3
  MaxJobs = 1
  MaxProjects = 3
  MaxChats = 1
  MaxTurns = 2
  MaxPending = 2
  MaxStreams = 2
SPECIFICATION WebSpec
INVARIANTS WritesOverWhatWasLoaded ListsShowTheLastQuery AIFeedbackIsOfItsDraft RemovesTheConfirmedProject NoForeignAnswer CodeIsOfTheImageShown
PROPERTIES OfferedDraftKept RewritesWhatItRead
CHECK_DEADLOCK FALSE
