SPECIFICATION Spec
CONSTANTS
    Profiles <- MCProfiles
    Formats <- MCFormats
    LateSteps <- MCLateSteps
    Iterations = 2
    BatchSize = 2
    Warmups = {0, 1}
INVARIANTS
    ReportIsTheMatrix
    
    
    TracingIsConfined
    RegistryIsConfined
PROPERTIES
    UsesServiceAsPromised
    
CHECK_DEADLOCK FALSE
