SPECIFICATION Spec
CONSTANTS
  Controllers = 3
  ControllerSize = 20
  RequestSizes = {13, 44, 524}
  RingSlots = 3
  Waiting = 2
  MTU = 1500
  MinPayload = 44
  HeaderLength = 2
INVARIANTS EveryDatagramIsServed FrameFits AnnouncedLengthIsSent
