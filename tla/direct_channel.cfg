\* One script run again and again, two channels, one fault.
SPECIFICATION FixtureSpec
CONSTANTS
  Payer = payer
  Merchant = merchant
  Scripts = {s1}
  MaxChannels = 2
  MaxFailures = 1
INVARIANTS FixtureTypeOK OpensWhereNothingStood
PROPERTY FixtureSettles
CHECK_DEADLOCK FALSE
