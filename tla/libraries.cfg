SPECIFICATION Spec
CONSTANTS
  HtKeys <- MCKeys
  HtKeyOf <- MCKeyOf
  HtVals = {"v"}
  HashFn <- MCHash
  NullKey = "null"
  MaxSlots = 4
  LkMaxLen = 25
  B64Inputs <- MCInputs
  B64Texts <- MCTexts
  B64Caps = {0, 1, 3, 4, 5, 8, 9}
  Width = 5
  Frequencies = {1, 2, 3, 6, 10}
  CuTexts <- MCCursorTexts
  CuSizeMax = 9
  Sep = 47
  DtDates <- MCDates
  DtZone = 0
  DgPieces = {0, 1, 8, 55, 56, 64, 65, 130}
  DgMax = 270
  DgWord = 256
  AesSecrets <- MCSecrets
  AesTexts <- MCPlain
  AlLists = {"a", "b"}
  AlItems = {x, y}
  AllocLimit = 3
  StaticLists = {"b"}
  StaticSize = 1
  Garbage = "-"
  SizeMax = 7
  BufLimit = 6
  Sources <- MCSources
  Files <- MCFiles
  GrowthMin = 1
  GrowthMax = 2
  LlLists = {"a", "b"}
  LlNodes = {n1, n2, n3, n4}

  
  
PROPERTIES
  HashTableIsMap
  ArrayListIsSequence
  BytesAppendedOrKept
  ListCallsAsSequences
SYMMETRY MCSymmetry
CHECK_DEADLOCK FALSE
