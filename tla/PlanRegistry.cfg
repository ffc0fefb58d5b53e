SPECIFICATION Spec
CONSTANTS
    Nothing = Nothing
    OperationTypes <- MCTypes
    Profile <- InProfile
    MachineIntegers <- MCMachineIntegers
    Calls <- MCCalls
    Maxima <- MCMaxima
    Envelopes <- MCEnvelopes
    Payloads <- MCPayloads
    MaxBranches = 2
INVARIANTS
    RegistrySound
    SchemaFaithful
    DecodeFollowsSchema
    LoweringFaithful
\* A failed builder is gone.
CHECK_DEADLOCK FALSE
