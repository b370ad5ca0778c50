SPECIFICATION CompilerSpec
CONSTANTS
    W = 5
    Fuel = 9
    Programs <- MCSameArgument
    Inputs <- MachineInputs
    NParameters = 2
    Saved = {19, 20}
    FloatSaved = 1
    GlobalUses = 2
    SlotUses = 3
    SinkGate = 2
    AddLimit = 5
    LoadLimit = 32
    PairLimit = 32
    EpilogShouldMerge = 6
INVARIANT CallsPassStackArguments
