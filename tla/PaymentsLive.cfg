CONSTANTS
    Orders = {1}
    Transfers = {t1, t2}
    Deliveries = {d1, d2}
    Amounts = {1}
    Traffic <- LiveTraffic
    None = None
SPECIFICATION FairSpec
PROPERTY EventuallyRecorded
CHECK_DEADLOCK FALSE
