SPECIFICATION Spec
CONSTANTS
  s1 = s1
  s2 = s2
  s3 = s3
  mouse = mouse
  keyboard = keyboard
  NoSession = NoSession
  Sessions = {s1, s2, s3}
  DhIds = {mouse, keyboard}
  Types = {"MOUSE", "KEYBOARD"}
  Mouse = "MOUSE"
  Class <- MCClass
  Env = {"client"}
SYMMETRY SessionSymmetry
INVARIANTS ViewsAgree SharedHasReceiver
