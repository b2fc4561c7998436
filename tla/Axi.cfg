SPECIFICATION AxiSpec
CONSTANTS
    Bus = 4
    Page = 16
    MaxBurst = 4
    MaxTransactions = 2
    MaxBarriers = 2
    MaxUnsigned = 15
    Scenarios <- AxiScenarios
INVARIANTS AxiTypeOK PayloadsArrive TlmOrder AxiCheckerIsSilent
PROPERTY AxiCompletes
CHECK_DEADLOCK FALSE
