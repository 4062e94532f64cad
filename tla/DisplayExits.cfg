SPECIFICATION FairSpec
CONSTANT None = None
PROPERTY InitEnds
CHECK_DEADLOCK FALSE
