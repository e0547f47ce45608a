SPECIFICATION Spec
CONSTANT Disturbances <- SomeBodies
INVARIANT AbsentMeansAbsent
