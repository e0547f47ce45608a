SPECIFICATION Spec
CONSTANT Disturbances <- SomeBodies
INVARIANT DocumentedUnderstood
INVARIANT SuccessMeansServed
