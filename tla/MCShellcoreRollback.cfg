SPECIFICATION ServiceSpec
CONSTANTS
    A = A
    B = B
    p1 = p1
    p2 = p2
    box = box
    Titles = {A, B}
    NoTitle = NoTitle
    Managed = {A, B}
    Images = {box}
    chain <- ContainerOnly
    Pids = {p1, p2}
    Apps = {10}
    AppInfo = {10}
    Nobody = Nobody
    Jobs = {}
    Relaunch = TRUE
    HookTimesOut = FALSE
SYMMETRY Symmetry
PROPERTIES
    RunningGameKeepsOwner
