SPECIFICATION OutputSpec
CONSTANTS
  NoFrame = NoFrame
  Titles = {title}
  NoTitle = NoTitle
  Views <- AllViews
  ParentKbdDepth = 1
  KbdStackPerScreen = FALSE
  Byte = {"a", "b"}
  NUL = NUL
  Junk = Junk
  MIN_BUFFER_SIZE = 2
  Strings <- AllStrings
  Sizes = {0, 3, 7}
  MaxLen = 6
  Clips <- AllClips
  BufSizes <- AllBufSizes
  Digits <- AllDigits
  TitleLengths <- AllTitleLengths
  Ink <- Letters
  Texts <- AllTexts
  Styles <- AllStyles
  Boxes <- AllBoxes
  Edges <- AllEdges
  MaxCalls = 3
  Messages <- AllMessages
  Widths = {0, 1, 3, 4, 5, 6, 8}
  Lengths = {1, 3}
  TEXTVIEW_INITIAL_CAP = 2
  MaxText = 9
INVARIANTS
  ModesConsistent
  BufferConsistent
  BufferSuffices
  SequenceIsWhole
  RenderedAsMeasured
  ComposedWhole
  RowHolds
  TVWithinMemory
PROPERTIES
  StopRestoresTerminal
  IsByteBuffer
