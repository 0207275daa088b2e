------------------------------ MODULE MCDevice ------------------------------
(* The routines of the three proxies, for TLC. *)
EXTENDS DeviceRoutines, StreamOrder, TLC

Imaging(proxy, adder, jobs) ==
    <<[proxy |-> proxy, mode |-> "gridding", adder |-> adder, jobs |-> jobs],
      [proxy |-> proxy, mode |-> "degridding", adder |-> adder, jobs |-> jobs]>>
Other(proxy, mode, jobs) ==
    <<[proxy |-> proxy, mode |-> mode, adder |-> "none", jobs |-> jobs]>>

MCRoutines ==
    Imaging("generic", "grid", 4) \o Imaging("generic", "unified", 3)
    \o Imaging("generic", "wtiles", 2) \o Imaging("hybrid", "wtiles", 2)
    \o Imaging("hybrid", "cpu", 4) \o Imaging("hybrid", "cpu_wtiles", 3)
    \o Other("generic", "transform", 1) \o Other("hybrid", "calibrate_init", 2)
    \o Other("hybrid", "calibrate", 1)
    \o Other("generic", "average_beam", 2)

(* A flush before the first subgrid of a job, and one within a job. *)
MCFlushBefore == {<<0, 1>>, <<1, 0>>}
=============================================================================
