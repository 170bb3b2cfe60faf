SPECIFICATION CliSpec
CONSTANTS
  HexChars <- MCHexChars
  B64Chars <- MCB64Chars
  HexLengths <- MCHexLengths
  B64Lengths <- MCB64Lengths
  Chars <- MCChars
  Digits <- MCDigits
  Numeral <- MCNumeral
  Texts <- MCTexts
  Names <- MCNames
  PayloadLen = 10
  DataLen = 34
  MaxRows = 2
  MaxWrites = 3
INVARIANTS
  CliTypeOK
  ListingTruthful
  SnippetsComeBack
  TextsSurvive
PROPERTIES
  SecretsRecognised
CHECK_DEADLOCK FALSE
