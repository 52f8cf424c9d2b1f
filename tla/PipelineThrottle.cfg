\* A web camera and its readers, unthreaded.
SPECIFICATION FairSpec
CONSTANTS
    N = 3
    Topics <- MCTopics
    Configs <- WebConfigs
    Scenes = 2
    MaxFiles = 0
PROPERTY
    ThrottledFramesAreHidden
