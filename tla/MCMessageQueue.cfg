SPECIFICATION MCSpec
CONSTANTS
  damage = damage
  heal = heal
  Producers = {damage, heal}
  Payload <- MCPayload
  MaxFrameCount = 10
  InitialHealth = 10
  MaxMessages = 6
INVARIANTS OwnedOnce OldestFirst OneMessagePerFrame
PROPERTIES IteratorsStayValid Terminates
