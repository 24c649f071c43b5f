SPECIFICATION Spec
CONSTANTS
    k1 = k1
    k2 = k2
    plus25 = plus25
    MaxLines = 4
    Texts <- MCTexts
    Configs <- MCConfigs
    Blank = Blank
    Numerals = {k25}
    Numeral <- MCNumeral
    AllNets = AllNets
    Often = k25
    None = None
    NoFile = NoFile
    NoConfig = NoConfig
    NoText = NoText
INVARIANTS ImportReads ReadsAsSaved
PROPERTIES EditKeepsShown
