SPECIFICATION Spec
CONSTANTS
  demo = demo
  own = own
  Emails = {demo, own}
  DemoRole <- DemoAccounts
  RequestRoles = {"buyer", "other"}
  Clients = {c1, c2}
  Demo = Demo
  MaxBoots = 1
  NoUser = NoUser
  NoToken = NoToken
  Idle = Idle
  MaxFaults = 5
INVARIANT ProfileIsHolders
INVARIANT AwsOneSource
PROPERTY OnlyRacesReplaceAccounts
PROPERTY OnlyLateAnswersMislead
PROPERTY OnlySnapshotOrLostPostMisleads
PROPERTY UpdatesBegin
PROPERTY StaleRemoved
CONSTRAINT OneLoss
CHECK_DEADLOCK FALSE
