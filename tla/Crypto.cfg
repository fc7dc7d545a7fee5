INIT AlgorithmInit
NEXT AlgorithmNext
CONSTANT Jobs <- TestJobs
CONSTANT Lanes = 2
CONSTANT Values <- AllInputs
CONSTANT Later <- SomeInputs
CONSTANT Descriptions <- AllDescriptions
CONSTANT Checked <- Digits
CONSTANT Damages <- SomeDamages
CONSTANT Batches <- TestBatches
INVARIANT DecipherRetraces
INVARIANT SlicedAsLookedUp
INVARIANT PaddedAsStandard
INVARIANT KnownVectors
INVARIANT BurstsDetected
CHECK_DEADLOCK FALSE
