CONSTANTS
  SLIDES = 4
  Hashes <- MCHashes
  MaxEdits = 3
SPECIFICATION DeckSpec
INVARIANTS
  DeckSound
PROPERTIES
  AddressSettles
