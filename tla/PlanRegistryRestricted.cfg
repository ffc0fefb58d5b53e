SPECIFICATION Spec
CONSTANTS
    Nothing = Nothing
    OperationTypes <- MCRestrictedTypes
    Profile <- InProfile
    MachineIntegers <- MCMachineIntegers
    Calls <- MCCalls
    Maxima <- MCMaxima
    Envelopes <- MCEnvelopes
    Payloads <- MCPayloads
    MaxBranches = 2
INVARIANT
    AuthoredConstraintsKept
\* A failed builder is gone.
CHECK_DEADLOCK FALSE
