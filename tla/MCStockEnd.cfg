\* Liveness: three transactions at once that each take several locks.
CONSTANTS
  p1 = p1
  p2 = p2
  bin = bin
  shelf = shelf
  null = null
  x1 = x1
  x2 = x2
  x3 = x3
  Txs = {x1, x2, x3}
  Parts = {p1, p2}
  Places = {bin, shelf, null}
  StartCount = 4
  Start <- MCStart
  StartRef = {}
  Requests <- LockingRequests
  MaxRequests = 3
SPECIFICATION FairSpec
PROPERTY RequestsEnd
