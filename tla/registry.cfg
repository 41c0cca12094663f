\* Three requests on two offers and one name, one failed write, one restart.
SPECIFICATION Spec
CONSTANTS
  Offers = {o1, o2}
  Names = {n1}
  NoName = NoName
  BadName = BadName
  NoOffer = NoOffer
  Missing = Missing
  Torn = Torn
  Requests = {r1, r2, r3}
  MaxFaults = 1
  MaxCrashes = 1
  Asked <- MCAsked
  o1 = o1
  o2 = o2
  n1 = n1
INVARIANTS TypeOK RegistrationsKept RevocationsKept RefusedRegistersNothing
PROPERTY EveryRegistryRequestAnswered
CHECK_DEADLOCK FALSE
