\* Three parts in every order, threaded or not: what they see.
SPECIFICATION FairSpec
CONSTANTS
    N = 3
    Topics <- MCTopics
    Configs <- MCConfigs
    Scenes = 2
    MaxFiles = 4
INVARIANTS
    TypeOK
    NoNullInput
    RacesNeedThreads
    EmptyNeedsBadFile
    ReadersAreCurrent
PROPERTIES
    InputSettles
    NumericOrder
    EveryPictureIsShown
