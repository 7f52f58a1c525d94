SPECIFICATION MountSpec
CONSTANTS
    p1 = p1
    p2 = p2
    m1 = m1
    m2 = m2
    d1 = d1
    d2 = d2
    w1 = w1
    w2 = w2
    Paths = {p1, p2}
    MountPoints = {m1, m2}
    Devices = {d1}
    NoPath = NoPath
    NoMountPoint = NoMountPoint
    NoDevice = NoDevice
    MAX_IMAGE_MOUNTS = 2
    Identities = {1, 2}
    MaxGeneration = 6
    Workers = {w1, w2}
    Mounters = {w1}
    Releasers = {w2}
    NoWorker = NoWorker
    UsbPaths = {p1}
    TitlePaths = {p1}
    image_mount_point <- MountPointOf
    Leftover <- NothingMounted
    MountTableFails = FALSE
    ConsoleSleeps = TRUE
    MaxMounts = 2
INVARIANTS
    NoForgottenUnit
    DetachHitsOwnUnit
    MountOwnsRecord
    UsbReleasedInSleep
