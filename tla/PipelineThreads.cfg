\* The parts of main() in their order, some of them threaded.
SPECIFICATION Spec
CONSTANTS
    N = 3
    Topics <- MCTopics
    Configs <- MainConfigs
    Scenes = 1
    MaxFiles = 2
INVARIANT
    SharingIsSafe
