\* Four blocks: a used list can have a first, a last and two inner blocks,
\* and every order of release occurs.
CONSTANT BlockNum = 4
SPECIFICATION Spec
INVARIANTS
  TypeOK
  ListsIntact
  MemPoolCheckPasses
  SecondReleaseHarmless
  TraversalVisitsAll
PROPERTY ImplementsPool
