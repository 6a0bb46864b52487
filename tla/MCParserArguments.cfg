SPECIFICATION Spec
CHECK_DEADLOCK FALSE
CONSTANT Families <- BracedTexts
INVARIANT AssertionsHold
