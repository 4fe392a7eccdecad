SPECIFICATION SemSpec
CONSTANT Size = 5
INVARIANTS StackExact LeftOver
PROPERTY Ends
