SPECIFICATION MongoSpec
CONSTANTS
  Places <- MCPlaces
  MaxStamp = 3
  ChunkSize = 2
  Options <- MCOptions
INVARIANTS StayersLoaded OnceEach NothingLeftBehind
