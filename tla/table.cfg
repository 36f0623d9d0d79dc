SPECIFICATION FairSpec
CONSTANTS
  k1 = k1
  k2 = k2
  k3 = k3
  k4 = k4
  Keys = {k1, k2, k3, k4}
  Null = Null
  True = True
  NoKey = NoKey
  Absent = Absent
  Values = {Null, True}
  Hash <- HashOf
  Length <- LengthOf
  AddInputs <- Inputs
  MinCap = 2
INVARIANTS
  TypeOK
  CountExact
  Inv
  ProbeTerminates
PROPERTIES
  DictSpec
  SetReturns
