\* Every kernel of the proxies, on the smallest launches in which its threads,
\* blocks and batches interact; the kernels between tiles and a grid in unified
\* memory (cuda_wtiles_to_grid, cuda_wtiles_from_grid) with tiles inside the grid.
SPECIFICATION Spec
CONSTANTS
    Calls <- KernelCalls
    Threads <- KernelThreadIds
    Code <- KernelCode
    Content <- KernelContent
    Results <- KernelResults
\* A kernel ends.
CHECK_DEADLOCK FALSE
INVARIANTS
    NoRace
    BarriersMatch
    Computes
