SPECIFICATION Spec
CONSTANTS
  Bit = {1}
  PAGES = 2
  WORDS = 2
  CELLS = 1
  BOOTLOADTIMEOUT = 2
  COUNTS = 3
  Letter = {"A", "B", "g", "E", "C", "c", "m", "D", "d", "e", "S", "T", "l"}
  BlockSize = {1, 4}
PROPERTY RunsUntilReset
