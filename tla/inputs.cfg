\* Every input of the parts that keep no state.  A behaviour ends with its
\* answer: CHECK_DEADLOCK is off.
SPECIFICATION Spec
CONSTANTS
    MaxDuration = 511
    Questions <- AllInputs
INVARIANTS
    DependenciesFirst
    NothingDropped
    SortedUnlessCyclic
    WriteIsAllOrNothing
    WrittenValueIsRead
    RestoreIsExact
    AgeMeansWhatIsWritten
    StatusGateIsSound
    DueIsExactlyTooOld
    UpgradeKeepsMeaning
    LoadedSecretsAreSound
    SameFilesFromAnywhere
    NothingIsSilentlyIgnored
    ProgramIsTheScript
CHECK_DEADLOCK FALSE
