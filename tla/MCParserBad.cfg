SPECIFICATION Spec
CHECK_DEADLOCK FALSE
CONSTANT Families <- BadTexts
INVARIANT BadLexemeRejectsTheText
