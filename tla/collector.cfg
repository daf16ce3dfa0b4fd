SPECIFICATION Spec
CONSTANTS
  a1 = a1
  a2 = a2
  name = name
  NoName = NoName
  Addresses <- MCAddresses
  Names <- MCNames
  RSSIs <- MCRSSIs
  FetchSizes <- MCFetchSizes
  BufferLimit = 1
  BufferTrim = 1
  MaxPackets = 4
INVARIANTS PacketsInOrder DevicesAreDistinct ShownIsFresh
SYMMETRY Exchange
