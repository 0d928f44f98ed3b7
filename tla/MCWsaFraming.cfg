SPECIFICATION FramingSpec
CONSTANTS
  s1 = s1
  s2 = s2
  s3 = s3
  Senders = {s1, s2, s3}
  Wordy = s3
  MaxFrames = 2
  Message <- MCMessage
  PrependLength = 2
  BufferLength = 22
  BroadcastLength = 22
  Capacity = 15
  MaxInterrupts = 1
INVARIANTS FramesIntact QueuedIsSent MessagesArrive
PROPERTY AllDelivered
CHECK_DEADLOCK FALSE
