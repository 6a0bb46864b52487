SPECIFICATION Spec
CHECK_DEADLOCK FALSE
CONSTANT Families <- DeepTexts
INVARIANT NodesAreFreedOnce
