CONSTANTS
    Orders = {1, 2}
    Transfers = {t1}
    Deliveries = {d1}
    Amounts = {1, 2}
    Traffic <- MCTraffic
    None = None
SPECIFICATION Spec
PROPERTY CodeComesFirst
CHECK_DEADLOCK FALSE
