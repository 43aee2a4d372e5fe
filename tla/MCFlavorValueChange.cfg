CONSTANTS
  m1 = m1
  m2 = m2
  k1 = k1
  k2 = k2
  v1 = v1
  v2 = v2
  small = small
  i1 = i1
  i2 = i2
  i3 = i3
  Minion <- MCOneMinion
  Request <- MCRequest
  Pillars <- MCOnePillar
  Key <- MCKey
  Value <- MCValue
  Size <- MCSize
  Id <- MCId
  Unset = Unset
  NoFlavor = NoFlavor
  NoId = NoId
SPECIFICATION Spec
INVARIANT NoChangeMeansUntouched
