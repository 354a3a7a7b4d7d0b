SPECIFICATION Spec
CONSTANTS
  init = init
  patch = patch
  chute = chute
  other = other
  reset = reset
  Update = {init, patch, chute, other, reset}
  NoUpdate = NoUpdate
  Changing = {init, patch}
  Boot = {init}
  Chutes = {chute, other}
  Builds = {chute, other}
  Resets = {reset}
  Nothing = Nothing
  Garbled = Garbled
  Config <- MCConfig
  Generated <- MCGenerated
  Default = Nothing
  Result <- MCResult
  StartFiles <- MCStartFiles
  Environments <- MCEnvironments
  MaxCalls = 1
  MaxCrashes = 1
INVARIANTS TypeOK AgreeUnlessDisturbed
PROPERTIES KeepsRegister BootHeals
CHECK_DEADLOCK FALSE
