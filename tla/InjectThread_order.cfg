SPECIFICATION FairSpec
CONSTANTS
  NoDevice = NoDevice
  DhIds = {"mouse", "keyboard"}
  MaxBatch = 3
  MaxEvents = 5
INVARIANT InjectedInOrder
PROPERTIES EventuallyInjected ImplementsInjection
