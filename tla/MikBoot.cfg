CONSTANTS
    WordBytes = 4
    ImmSpan = 1024
    Sources <- UpToThree
    Seconds <- OneSecond
    Bases <- UserVa
    Kernels <- KernelBodies
    LoadAddr = 16
    Variants <- AllKernels
    PageBytes = 16
    Ptes = 6
    MetaPage = 9
SPECIFICATION Spec
INVARIANTS
    LabelsLand
    KernelLabelsLand
    ProgramsFound
    KernelSeesItself
    HandedOnce
    RunsItsProgram
CHECK_DEADLOCK FALSE
