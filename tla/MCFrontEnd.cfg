SPECIFICATION Spec
CONSTANTS
    W = 4
    Fuel = 9
    Programs <- MCPrograms
    Inputs <- MCInputs
INVARIANTS AstMeansSource IRMeansSource IRWellFormed
