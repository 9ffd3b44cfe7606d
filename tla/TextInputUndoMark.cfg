SPECIFICATION IWSpec
CONSTANT Uses <- MarkUse
INVARIANT MarkInText
