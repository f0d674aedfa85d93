SPECIFICATION Spec
CONSTANTS
  Letter = {1, 2, 3}
  FacetLetter = {1, 2}
  Stopword <- MCStopword
  BillWord <- Bill
  Amendment <- Amended
  Noise <- MCNoise
  MinTermLen = 3
  Depth = 3
  EntryPrefix = 2
  FatThreshold = 2
  DaysPerYear = 3
  Nothing = Nothing
  Wrong = Wrong
  MaxQuery = 3
  BadId = {"WA.4"}
  MaxLimit = 2
  Offers = {2, 3}
  PageWindow = 3
  RelatedN = 2
  DidYouMeanN = 2
  Corpora <- MCCorpora
  Unindexed <- MCUnindexed
  MaxRows = 3
  Typed <- MCTyped
  TermCap = 2
  TruncateAt = 1
  CommonN = 2
  RecentN = 2
  TitleTermsN = 1
INVARIANTS
  NoLinkFails
  CorrectionsConverge
  CountsMatchPages
  LadderComplete
  UpstreamHitsKept
  PagesReachRows
  TypoFindsTerm
