CONSTANTS
  Validators = {1, 2, 3}
  Delegators = {1, 2}
  Coin = 2
  Refused = {2}
  Unpayable = {1}
  Strangers = {8, 9}
  Malformed = {9}
  MaxValidators = 2
  LastHeight = 5
  Chains <- BothChains
SPECIFICATION Spec
INVARIANTS TypeOK Solvent ReferencesHold FreshStart BeginsAnew PanicsOnlyOverAllowList
PROPERTIES ValidatorSetKept ImplementsExport
CHECK_DEADLOCK FALSE
