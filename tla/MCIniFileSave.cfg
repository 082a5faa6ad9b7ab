SPECIFICATION Spec
CONSTANTS
  b1 = b1
  b2 = b2
  k1 = k1
  k2 = k2
  v1 = v1
  v2 = v2
  BootInstances <- MCBootInstances
  Conf = Conf
  Keys <- MCKeys
  Values <- MCValues
  Nothing = Nothing
  MaxLines = 1
  MaxSets = 1
  MaxFailures = 0
INVARIANT SaveWritesFile
