\* Each part by itself: texts of up to three characters, buffers of eight bytes, three keys,
\* two operations on an ini file, command lines of four items in all, three frames of four
\* satellites, the years 1980 to 2034 in steps of 90000007 s and around the leap seconds.
SPECIFICATION Spec
CONSTANTS
  IniNames <- MCIniNames
  IniKeys <- MCIniKeys
  IniWords = {"w"}
  IniFiles <- MCIniFiles
  IniMaxOps = 2
  IniSame <- MCIniSame
  LogLower <- MCLower
  IoStep = 1
  IoMaxWrite = 3
  IoMaxBytes = 8
  BfReserved = 2
  BfInline = 3
  BfMaxSize = 4
  CnKeys = {1, 2, 3}
  CnValues = {1, 2}
  CnSize = 3
  CnModulus = 8
  TxChars = {32, 46, 47, 65, 97}
  TxWords <- MCWords
  TxMaxLen = 3
  CoBytes = {0, 9, 65, 251}
  CoMaxLen = 5
  CoBlock = 4
  CoLength = 2
  CoWord = 32
  OpLetters = {"a"}
  OpLongs = {"a", "all"}
  OpTexts = {"v"}
  OpDefaults = {"u"}
  OpMaxWork = 4
  MlSats = 4
  MlSigs = 2
  MlInt = 3
  MlRough = 2
  MlCode = 4
  MlPhase = 5
  MlNear = 1
  MlLambda = 3
  MlWord = 8
  MlStation <- MCStation
  MlMoments <- MCMoments
  MlFrames <- MCFrames
  GtStep = 90000007
  GtEnd = 2050000000
  GtSkews = {0, 511}
INVARIANTS
  TextsKept
  CodingsKept
  TimeKept
PROPERTIES
  IniKept
  BuffersHold
  OptionsTold
  ContainersKeep
  MessageRead
CHECK_DEADLOCK FALSE
