SPECIFICATION Spec
CONSTANTS
    Ids = {s1}
    Calls = {c1, c2}
    Off = Off
    MaxRows = 1
    Volumes = {0, 1}
    FullVolume = 1
    NoGain = NoGain
SYMMETRY Symmetry
INVARIANTS
    ArchiveIsOneStation
    ArchiveShowsItsStation
    VolumeIsHeard
CHECK_DEADLOCK FALSE
