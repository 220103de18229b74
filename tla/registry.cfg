CONSTANT Calls <- MCCalls
SPECIFICATION Spec
INVARIANT RegisteredAgree
PROPERTY AnswersLast
