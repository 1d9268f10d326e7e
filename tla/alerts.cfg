SPECIFICATION MonitoringSpec
CONSTANTS
    Watched = {m, a, b}
    m = m
    a = a
    b = b
    Self = m
    Interval = 2
    Timeout = 3
    Cooldown = 6
    RaiseTime = 1
INVARIANTS MonitoringTypeOK AlertedInTime
