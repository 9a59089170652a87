SPECIFICATION ScansSpec
CONSTANTS
    Letter = {"a", "b", "n"}
    Queries <- SomeQueries
    Block = 3
    Overlap = 2
    MaxResults = 2
    MaxLog = 6
    Phrases <- Meanwhile
    Declared <- SomeDeclared
    Keep = 2
    Texts <- SomeTexts
    Columns = 2
    Tab = 2
    Rows = 5
    Span = 6
    Lead = 1
    Further = 1
INVARIANTS
    SearchExact
    VerdictWhole
    WindowSound
CHECK_DEADLOCK FALSE
