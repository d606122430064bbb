SPECIFICATION Spec
CONSTANTS
    MaxProcesses = 2
    NStdio = 1
    MaxFds = 2
    Pipes = {0, 1}
    NoPipe = NoPipe
    OpenShapes = {"fixed"}
INVARIANT DescriptorsOK
