SPECIFICATION Spec
CONSTANTS
  b1 = b1  b2 = b2  r1 = r1  r2 = r2  r3 = r3  c1 = c1  c2 = c2  c3 = c3
  rice = rice  soil = soil  Crop = Crop  Soil = Soil  NoObject = NoObject
  Books = {b1, b2}
  Runs = {r1, r2}
  Chunks = {c1, c2, c3}
  ChunksOf <- TwoBooks
  BatchSize = 2
  Findings <- AllFindings
  Extractions <- Answers
  Keys = {rice, soil}
  NoKey = NoKey
  Labels = {Crop, Soil}
  NoBook = NoBook
  MaxSteps = 2
  NoText = NoText
  BuildGraph = TRUE
SYMMETRY AnyRun
INVARIANT RerunsAddNothing
CHECK_DEADLOCK FALSE
