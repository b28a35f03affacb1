SPECIFICATION Spec
CONSTANTS
    OtherThreads = {t1, t2}
    Functors = {f1, f2, f3}
INVARIANTS
    NothingSleptThrough
PROPERTIES
    ImplementsExecutor
    ForeignCallsTakeEffect
    TimeoutRunsEveryFunctor
