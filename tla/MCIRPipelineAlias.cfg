SPECIFICATION Spec
CONSTANTS
    W = 4
    Fuel = 9
    Programs <- MCTwoNames
    Inputs <- MCInputs
INVARIANT MeaningKept
