CONSTANT MaxEvents = 2
SPECIFICATION FairSpec
INVARIANTS TypeOK ShownRunIsExplained StopIsAnswered
PROPERTY StopSettlesPage
