SPECIFICATION FunctionSpec
CONSTANTS
    Values = {1, 2, 3, 4, 5}
    NoValue = 0
    NumRegs = 2
    Functions <- Compiled
INVARIANTS
    RegistersAccounted
    NoSharedLocation
    OperandsGood
