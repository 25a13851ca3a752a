SPECIFICATION FairSpec
CONSTANTS
  Addresses <- Sample
  Byte = {128, 255}
  mbc1 = TRUE
  Groups = {16, 32}
  Lines = {line0}
  NUM_DMA_CYCLES = 3
  instructionCycles = 2
  Pages <- SamplePages
  OamPage = 254
  NoPage = NoPage
  Offsets <- Pair
  Program <- FewStores
INVARIANTS TypeOK StoresReadBack
PROPERTIES ImplementsPageCopy RequestsAreServed KeysAreAnnounced
