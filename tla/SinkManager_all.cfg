SPECIFICATION Spec
CONSTANTS
  s1 = s1
  s2 = s2
  s3 = s3
  mouse = mouse
  keyboard = keyboard
  NoSession = NoSession
  Sessions = {s1, s2}
  DhIds = {mouse, keyboard}
  Types = {"MOUSE"}
  Mouse = "MOUSE"
  Class <- MCMouseClass
  Env = {"types", "hotplug", "loss", "source", "release", "client"}
SYMMETRY SessionSymmetry
INVARIANTS SharingIsOwned FlaggedIsReported SwitchesAreLive
PROPERTY OnlyOwnersStopForwarding
