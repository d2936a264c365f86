CONSTANTS
  Chars <- MCChars
  LineMax = 9
  Savers = {}
  SectionSavers = {x1}
  Printers = {}
  NoThread = NoThread
  NoFile = NoFile
  NoText = NoText
  AllKeys = AllKeys
  Names <- MCNames
  Keys <- MCKeys
  Texts <- MCTexts
  OtherTexts <- MCChanged
  Samples <- MCSamples
  Made <- MCMade
SPECIFICATION Spec
PROPERTIES
  ExistingIsUpdated
