SPECIFICATION IWSpec
CONSTANT Uses <- EveryUse
INVARIANTS
  InputConsistent
  BrowsingShowsEntry
  WindowHoldsCursor
  CursorFollowsText
PROPERTY YankRestores
