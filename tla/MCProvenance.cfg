\* Documents of two publishes or promotes over versions of others.
SPECIFICATION Spec

CONSTANTS
  Version = {"u", "v", "w"}
  Source = {"s", "t"}
  MaxDepth = 2
  MaxNodes = 5
  ForeignDocs <- MCForeignDocs
  MaxWrites = 2

INVARIANTS
  ReadersAccept
  CutIsMarked

PROPERTY
  UpstreamIsAsRead
