SPECIFICATION GallerySpec
CONSTANTS
  None = None
  v = v  w = w
  Files = {v, w}
  Kinds <- MCKinds
  Parts <- MCParts
  Uploads = {1, 2}
  MaxRetries = 1
INVARIANTS
  PageInv
PROPERTIES
  ReservationsAreGivenBack
  ShownUploadsHaveTheirRow
  OwnBytesUnlessSameMillisecond
  NeverStuck
