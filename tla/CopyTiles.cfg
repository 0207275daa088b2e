\* Tiles copied into larger ones, two polarizations by two thread blocks.
SPECIFICATION Spec
CONSTANTS
    Calls <- EnlargingCalls
    Threads <- KernelThreadIds
    Code <- KernelCode
    Content <- KernelContent
    Results <- KernelResults
\* A kernel ends.
CHECK_DEADLOCK FALSE
INVARIANTS
    Computes
