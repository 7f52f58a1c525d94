SPECIFICATION MCSpec
CONSTANTS
    p1 = p1
    p2 = p2
    m1 = m1
    m2 = m2
    d1 = d1
    A = A
    B = B
    Paths = {p1, p2}
    MountPoints = {m1, m2}
    Devices = {d1}
    NoPath = NoPath
    NoMountPoint = NoMountPoint
    NoDevice = NoDevice
    MAX_IMAGE_MOUNTS = 2
    Identities = {1, 2}
    MaxGeneration = 5
    MaxChanges = 2
INVARIANTS
    
    OneOwnerPerFd
    NoSettingIsLost
    HooksAccounted
    SuccessIsDurable
    MountsAreRecorded
    AliasesStayReleased
    ManifestNamesSources
    RemovedOnlyWhenMissing
PROPERTIES
    GenerationNamesAttachment
    
CHECK_DEADLOCK FALSE
