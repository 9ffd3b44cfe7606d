SPECIFICATION IPSpec
CONSTANTS
  Terminals <- AllTerminals
  PASTE_END_MARKER <- ShortMarker
  PasteStartSeq <- ShortStart
  SEQ_BUF = 6
  PASTE_CAP = 2
  MaxPaste = 6
INVARIANTS
  ParserConsistent
  PasteIsBracketed
PROPERTY PayloadIsExact
