CONSTANTS
    la = la
    lb = lb
    ra = ra
    rb = rb
    sa = sa
    sb = sb
    Null = Null
    Days <- MCDays
    Landings <- ProfileLandings
    Loads = {la, lb}
    Refreshers = {}
    Servers = {sa, sb}
    Faults = {"vanish"}
    MaxCommands = 4
SPECIFICATION Spec
SYMMETRY Alike
INVARIANTS TypeOK ServedIsRecent
CHECK_DEADLOCK FALSE
