SPECIFICATION Spec
CONSTANTS
    W = 4
    Fuel = 9
    Programs <- MCInlinedElement
    Inputs <- MCInputs
INVARIANT CompilerRuns
