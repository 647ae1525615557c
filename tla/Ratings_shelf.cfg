SPECIFICATION RatingSpec
CONSTANTS
  Catalogue <- ShelfCatalogue
  Thresholds = {35}
  HandTags <- MCHandTags
  MaxEditions = 2
INVARIANT ShelfIsQuieter
