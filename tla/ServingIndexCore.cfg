SPECIFICATION Spec
CONSTANTS
    Chunks = {c1, c2}
    Knowledge = {k1}
    MaxLevel = 1
    Provenances = {p1, p2}
    Jobs = {j1}
    Requests = {r1}
    MaxCorpus = 2
    MaxVector = 2
    MaxEntries = 1
    Null = Null
SYMMETRY Alike
INVARIANTS
    TypeOK
    LexicalIsCanonical
    VectorsAreServable
PROPERTIES
    SearchMovesGenerations
    AnswersAreCurrent
CHECK_DEADLOCK FALSE
