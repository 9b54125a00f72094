\* Two topologies, both channels overflow, two attempts; Herdr and the machine
\* change, fail and recover, and may settle.
SPECIFICATION Spec
CONSTANTS
    t1 = t1
    t2 = t2
    Topologies = {t1, t2}
    EventBuffer = 1
    Retries = 2
    MaxWire = 1
INVARIANTS TypeOK NothingMissed NoStaleSample ShownIsFollowed
PROPERTIES CatchesUp AttemptsEnd 
CHECK_DEADLOCK FALSE
