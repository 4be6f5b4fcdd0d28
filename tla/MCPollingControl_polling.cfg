SPECIFICATION FairSpec
CONSTANTS
  FunctionCount = 2
  Written = {1}
  Rate = {2, 4}
  Change <- MCChange
  InitialSettings <- MCSettings
  Handler = {h1, h2}
  NoHandler = NoHandler
INVARIANTS PollingTypeOK SettingsAreOnFile DisablingIsEffective DueWithinItsRate ErrorsAgree
PROPERTIES SettingsPromise EnabledIsRead
