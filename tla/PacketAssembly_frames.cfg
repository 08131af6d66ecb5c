\* Chunks are lost, reordered and, those of the sound and of one video frame, repeated.
CONSTANTS
  Ids <- FourFrames
  Kind <- FourKinds
  Total <- FourTotals
  MaxCopies <- FourCopies
  DropLimit = 1
SPECIFICATION AssemblySpec
INVARIANTS AssemblySafe WholeFramesOnce
PROPERTY LossSeenOnlyOnLoss
