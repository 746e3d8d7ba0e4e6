CONSTANTS
  Docs <- MCDocs
  JSMN_ERRORS <- JsonErrors
  Size <- MCSize
  Places <- MCPlaces
  MAIN_RAM_BASE = 1
  Chunk = 2
  Flash <- MCFlash
  TOKENS = 12
  UINT8 = 16
  Behind <- MCBehind
  MIN_IMAGE = 2
  MAX_IMAGE = 5
  CallBound = 2
  IpTexts <- MCIps
  MacTexts <- MCMacs
  Stacks <- MCStacks
SPECIFICATION ConsoleSpec
INVARIANTS
  NothingHalfLoaded
  JumpAsDocument
  VolumeReleased
  RightFormatTaken
PROPERTIES
  CommandEnds
