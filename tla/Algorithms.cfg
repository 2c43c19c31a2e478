CONSTANTS
  Numbers = {0, 9, 10, 21}
  MaxArray = 4
  MaxNumber = 30
  MOD = 31
  Word = 64
  Years = {1899, 1900, 1999, 2000, 2023, 2024, 2099}
  Samples = {0, 1, 9, 10, 98, 100, 109, 110, 150, 222, 225, 999, 1098, 1111, 2005, 9998}
  MaxString = 6
  Letters = {1, 2}
  MaxText = 6
  MaxPattern = 3
  ArcWeights = {1, 3}
  EdgeWeights = {1, 2}
  INF = 999
  MaxTree = 5
  Base = 13
  Modulus = 101
  HashWord = 16
  KeyLengths = {0, 1, 3, 4, 6, 8, 9, 11, 14}
  MessageLengths = {3, 56, 64, 128, 191, 192, 390}
SPECIFICATION Spec
CHECK_DEADLOCK FALSE
INVARIANTS SortsSort NumbersAndPuzzles StringsMatch GraphsRight
PROPERTY HashesRight
