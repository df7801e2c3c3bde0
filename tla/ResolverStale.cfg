SPECIFICATION Spec
CONSTANTS
  Requests = {q1, q2}
  Instances = {i1, i2}
  Addresses = {a1}
  NoAddress = NoAddress
  MaxUpdates = 2
PROPERTIES NoStalePick
