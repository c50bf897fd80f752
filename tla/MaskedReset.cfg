\* A reset between two writes of a configuration.
SPECIFICATION Spec
CONSTANTS
    Attempts = 3
    IfcntModulus = 4
INVARIANT ConfigureApplies
