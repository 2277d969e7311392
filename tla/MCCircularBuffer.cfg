CONSTANTS
  Max = 3
  Data = {a, b, c, d}
  Nothing = Nothing
SPECIFICATION BufSpec
INVARIANT
  BufferOK
PROPERTY
  IsBoundedQueue
