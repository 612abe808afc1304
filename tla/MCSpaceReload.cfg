SPECIFICATION ConfigSpec
CHECK_DEADLOCK FALSE
CONSTANTS
  Users = {"bo"}
  BootstrapAdmins = {"ada"}
  BootstrapMembers = {"ada", "bo"}
  Orgs = {"acme"}
  Accounts = {"reader"}
  FirstFiles <- ReadableOrNot
  PrepareMayFail = TRUE
  MaxChanges = 3
  MaxStops = 1
PROPERTIES
  ConfigurationSettles
