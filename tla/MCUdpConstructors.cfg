CONSTANTS
    Kinds = {"udpPipeline"}
    Thread = {t1}
    NoThread = NoThread
SPECIFICATION FairSpec
INVARIANT
    ConstructorsClose
CHECK_DEADLOCK FALSE
