\* Four versions with deletions in between, and four notes on their way.
CONSTANTS
    MaxVersion = 4
    MaxNotes = 4
SPECIFICATION FairSpec
INVARIANTS
    EventsMakeUpStore
PROPERTIES
    ImplementsObjectView
    ViewConverges
