SPECIFICATION Spec
CONSTANTS
    BufSize = 2
    Messages <- MCMessages
    Configs <- MCConfigs
INVARIANT BufferOwned
PROPERTIES EdgesInsideCalls CallReturns ImplementsPipe
