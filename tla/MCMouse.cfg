SPECIFICATION Spec
CONSTANTS
  fb_width = 2
  fb_height = 2
  Pitch = 3
  Warmup = 1
  Configs <- SomeConfigs
  Scancodes = {30}
  Packets <- SomePackets
INVARIANTS TypeOK ConfigKept PointerFollowsMouse PixelsFollowMouse
PROPERTIES PortIsServed InitEnds
CHECK_DEADLOCK FALSE
