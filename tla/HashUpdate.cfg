CONSTANTS
    runc = runc
    gvisor = gvisor
    amd64 = amd64
    arm64 = arm64
    None = None
    Zero = Zero
    Infos <- Info2
    Archs <- Archs2
    First <- First2
    Versions <- ThreeVersions
    Line <- Line2
    Numbers <- Numbers2
    InitialFiles <- Files2
    MaxEdits = 1
    MaxReleases = 2
SPECIFICATION Spec
INVARIANT TypeOK
INVARIANT OneBuild
PROPERTY CompletePinned
PROPERTY OnlyLaterPatches
PROPERTY WrittenMeansFilled
