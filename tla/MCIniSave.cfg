CONSTANTS
  Chars <- MCChars
  LineMax = 9
  Savers = {s1, s2}
  SectionSavers = {x1}
  Printers = {p1}
  NoThread = NoThread
  NoFile = NoFile
  NoText = NoText
  AllKeys = AllKeys
  Names <- MCNames
  Keys <- MCKeys
  Texts <- MCTexts
  OtherTexts <- MCOther
  Samples <- MCSamples
  Made <- MCMade
SPECIFICATION FairSpec
INVARIANTS
  TypeOK
  SavedWhole
  CrashLeavesPrefix
  GoodIsUnderstood
  ReadsBack
PROPERTIES
  SectionSaveLosesNothing
  SaveReturns
