SPECIFICATION Spec
CONSTANTS
  Offers <- MCOffers
  Broken <- MCBroken
  Builtin <- MCBuiltin
  DefaultHooks <- MCDefaultHooks
  Applies <- MCApplies
  NotApplying <- MCNotApplying
  Setups <- MCSetups
  None = None
  Vault <- MCVault
  AirflowJson <- MCAirflowJson
  AirflowVars <- MCAirflowVars
  NotJson = NotJson
  Blank = Blank
  Absent = Absent
  Brokers <- MCBrokers
  Portless <- MCPortless
  EnvBrokers <- MCEnvBrokers
  Http = "h"
  Ambient <- MCAmbient
  ExtraEnvs <- MCExtraEnvs
  Begun <- MCBegun
  Rest <- MCRest
INVARIANTS RunAsValidated OkMeansChecked ProvenanceTrue LoginTogether
PROPERTIES EnvRestored
CHECK_DEADLOCK FALSE
