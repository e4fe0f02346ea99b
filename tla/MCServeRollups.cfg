CONSTANTS
    la = la
    lb = lb
    ra = ra
    rb = rb
    sa = sa
    sb = sb
    Null = Null
    Days <- MCDays
    Landings <- RollupLandings
    Loads = {la}
    Refreshers = {ra, rb}
    Servers = {sa}
    Faults = {"stop"}
    MaxCommands = 3
SPECIFICATION Spec
INVARIANTS PromisedKept
PROPERTIES StartsEnd RefreshesEnd
CHECK_DEADLOCK FALSE
