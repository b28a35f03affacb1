SPECIFICATION Spec
CONSTANTS
    Callers = {c1}
    Workers = {w1, w2}
    t1 = t1
    t2 = t2
    t3 = t3
    t4 = t4
    t5 = t5
    t6 = t6
    Tasks <- MCTasks
    NoTask = NoTask
    Spawns <- MCSpawns
    MaxQueueSize = 2
INVARIANTS
    TypeOK
    NoneForgotten
PROPERTIES
    ImplementsFifo
    TasksRunAndStopReturns
CHECK_DEADLOCK FALSE
