CONSTANTS
    Pause = 2
    Selection = 3
    Nil = Nil
SPECIFICATION Spec
INVARIANT TypeOK
INVARIANT SlowStartAwaited
PROPERTY BootEnds
