CONSTANTS
  EVENT_QUEUE = 3
  Event = {e1, e2}
  NoEvent = noEvent
  MouseState <- MCMouseState
  RedrawPeriod = 2
  MaxKeyBurst = 2
SPECIFICATION FairSpec
INVARIANTS
PROPERTIES
  KeysComeInOrder
  QueuedKeysHandled
  MouseNoticed
