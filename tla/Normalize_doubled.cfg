SPECIFICATION Nights
CONSTANTS
  Books = {1, 2, 3, 4}
  Tidy <- MCTidy
  Person <- MCPerson
  Lower <- MCLower
  Longer <- MCLonger
  Alphabet <- MCAlphabet
  Libraries <- MCLibraries
  Answers <- MCDoubled
  TradeMinNarrations = 2
  TradeRatio = 1
  PlausibleAuthors = 3
  SeriesMinAgreeing = 3
  SeriesMinCarriers = 2
  SeriesMinShare = 25
PROPERTY NobodyLeavesUnopposed
