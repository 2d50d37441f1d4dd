SPECIFICATION Spec
PROPERTIES
    StopReturns
