SPECIFICATION RatingSpec
CONSTANTS
  Catalogue <- MCCatalogue
  Thresholds = {0, 35}
  HandTags <- MCHandTags
  MaxEditions = 2
INVARIANTS
  LoudnessIsEarned
  AdultHasAReason
  NoTagOutlivesItsEvidence
