SPECIFICATION FairSpec
CONSTANTS
    MaxProcesses = 4
    BootProcs = 1
PROPERTY RoundRobinFair
