CONSTANTS
  anOwner = anOwner
  aCoOwner = aCoOwner
  anEditor = anEditor
  ownersDevice = ownersDevice
  editorsDevice = editorsDevice
  Members <- MCMembers
  Founder = anOwner
  Prologue <- MCPrologue
  PrologueOps <- MCPrologueOps
  FreshIds = {1, 2, 3}
  Moves <- MCMoves
  RolesOffered = {3}
  Triggers = {"WhenStale", "Force"}
  Devices = {ownersDevice, editorsDevice}
  PersonOf <- MCPersonOf
  Joiner = editorsDevice
  Asks <- MCAsks
  TreeIds = {1, 2}
SPECIFICATION MCSpec
CHECK_DEADLOCK FALSE
INVARIANT AuthoredIsKept
