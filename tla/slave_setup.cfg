SPECIFICATION Spec
INVARIANT SetupClearsErrors
