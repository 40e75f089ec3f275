SPECIFICATION TrackerFairSpec
CONSTANTS
    TxIds = {t1, t2}
    RebroadcastMax = 3
PROPERTIES
    EvictedIsRebroadcast
CHECK_DEADLOCK FALSE
