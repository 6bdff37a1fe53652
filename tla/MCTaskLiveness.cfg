CONSTANTS
    Task = {t1, t2}
    Group = {g1}
    NoTask = NoTask
    NoRoot = NoRoot
    NoContext = NoContext
    Context = {NoContext, ctx}
    Delay <- MCDelayZero
    MaxTime = 2
SPECIFICATION FairSpec
CHECK_DEADLOCK FALSE
PROPERTIES
    SleeperWakes
    RunnableRuns
