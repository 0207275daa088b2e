---------------------------- MODULE KernelThreads ---------------------------
(***************************************************************************)
(* Threads that run one compute kernel on shared memory: the threads of a  *)
(* CUDA launch, which meet at __syncthreads(), or those of an OpenMP       *)
(* region, where an iteration of a parallel loop counts as a thread, since *)
(* any two of them may run at the same time, and the end of the loop is a  *)
(* barrier.                                                                *)
(*                                                                         *)
(* The code of a thread is the sequence of its assignments, loops unrolled *)
(* and index arithmetic done.  A cell of memory holds a polynomial in the  *)
(* inputs of the kernel: a set of products, each a sequence of factors.  A *)
(* product that is added a second time is marked.  A cell that was never   *)
(* written is an input, and stands for itself; so a read of memory that    *)
(* should have been written first shows in the result.                     *)
(*                                                                         *)
(* A thread runs from barrier to barrier in one step.  That hides nothing  *)
(* as long as no two threads touch the same cell between two barriers, one *)
(* of them writing, which is what NoRace says.                             *)
(***************************************************************************)
EXTENDS Integers, SequencesExt

CONSTANTS
    Calls,          \* a sequence of kernels to run, with their arguments
    Threads(_),     \* the threads of a call
    Code(_, _),     \* the code of a thread of a call
    Content(_),     \* cell -> value: what is in memory before a call
    Results(_)      \* cell -> value: what a call should leave in its output

(* Assignments.  A right-hand side is a set of products of cells. *)
Zero == {}
Assign(to, products) == [do |-> "assign", to |-> to, products |-> products]
AddTo(to, products) == [do |-> "add", to |-> to, products |-> products]
AtomicAdd(to, products) == [do |-> "atomicAdd", to |-> to, products |-> products]
Barrier == [do |-> "barrier", to |-> <<"none">>, products |-> {}]

(* for (i = first; i < end; i += step) Body(i) *)
Steps(first, end, step) ==
    [k \in 1 .. (IF end > first THEN (end - first + step - 1) \div step ELSE 0) |->
        first + (k - 1) * step]
Count(n) == Steps(0, n, 1)
For(indices, Body(_)) == FlattenSeq([k \in DOMAIN indices |-> Body(indices[k])])

(* The cells that statements read, write and add to atomically. *)
Cells(s) == UNION {ToSet(p) : p \in s.products}
Touch(statements) ==
    LET all == ToSet(statements)
        plain == {s \in all : s.do # "atomicAdd"}
    IN  [read |-> UNION {Cells(s) : s \in all},
         written |-> {s.to : s \in plain},
         added |-> {s.to : s \in all \ plain}]

(* The code between two barriers. *)
Segments(code) ==
    LET barriers == SelectSeq([k \in DOMAIN code |-> k], LAMBDA k : code[k] = Barrier)
        ends == Append(barriers, Len(code) + 1)
        segment(n) == SubSeq(code, IF n = 1 THEN 1 ELSE ends[n - 1] + 1, ends[n] - 1)
    IN  {[number |-> n, statements |-> segment(n), touch |-> Touch(segment(n))] :
         n \in DOMAIN ends}
Programs ==
    UNION {{<<n, t, Segments(Code(Calls[n], t))>> : t \in Threads(Calls[n])} :
           n \in DOMAIN Calls}

VARIABLES
    call,       \* index in Calls of the kernel that runs
    epoch,      \* the number of the segment that the threads run
    ran,        \* the threads that have run it
    memory      \* cell -> value
vars == <<call, epoch, ran, memory>>

ThreadIds == Threads(Calls[call])
SegmentsOf(t) == (CHOOSE p \in Programs : p[1] = call /\ p[2] = t)[3]
Current(t) == CHOOSE s \in SegmentsOf(t) : s.number = epoch

(* Polynomials. *)
Plus(a, b) == a \cup b \cup {<<<<"twice">>>> \o m : m \in a \cap b}
Times(a, b) == {m \o n : m \in a, n \in b}
Product(m, cells) == FoldLeft(LAMBDA v, cell : Times(v, m[cell]), {<<>>}, cells)
SumOf(m, products) ==
    LET values == {<<p, Product(m, p)>> : p \in products}
        pairs == {v \in values \X values : v[1] # v[2]}
    IN  UNION {v[2] : v \in values}
        \cup {<<<<"twice">>>> \o n : n \in UNION {v[1][2] \cap v[2][2] : v \in pairs}}
Execute(m, s) ==
    [m EXCEPT ![s.to] = Plus(IF s.do = "assign" THEN {} ELSE @, SumOf(m, s.products))]

(* What memory can be after statements first to last, which run in order; by
   halves, as they can be many. *)
RECURSIVE After(_, _, _, _)
After(m, statements, first, last) ==
    LET half == (first + last) \div 2
    IN  IF first > last THEN {m}
        ELSE IF first = last THEN {Execute(m, statements[first])}
        ELSE UNION {After(n, statements, half + 1, last) :
                    n \in After(m, statements, first, half)}

AllCells(n) ==
    LET touches == UNION {{s.touch : s \in p[3]} : p \in {p \in Programs : p[1] = n}}
    IN  UNION {t.read \cup t.written \cup t.added : t \in touches}
Init ==
    /\ call \in DOMAIN Calls
    /\ epoch = 1 /\ ran = {}
    /\ memory = LET content == Content(Calls[call])
                IN  [cell \in AllCells(call) \cup DOMAIN content |->
                        IF cell \in DOMAIN content THEN content[cell] ELSE {<<cell>>}]

(* Thread t runs up to its next barrier, or to its end. *)
Run(t) ==
    /\ t \notin ran
    /\ \E s \in SegmentsOf(t) :
        /\ s.number = epoch
        /\ memory' \in After(memory, s.statements, 1, Len(s.statements))
    /\ ran' = ran \cup {t}
    /\ UNCHANGED <<call, epoch>>

AtBarrier(t) == t \in ran /\ epoch < Cardinality(SegmentsOf(t))
Ended(t) == t \in ran /\ ~AtBarrier(t)

(* All threads have reached the barrier. *)
Synchronize ==
    /\ \A t \in ThreadIds : AtBarrier(t)
    /\ epoch' = epoch + 1 /\ ran' = {}
    /\ UNCHANGED <<call, memory>>

Next == (\E t \in ThreadIds : Run(t)) \/ Synchronize
Returned == \A t \in ThreadIds : Ended(t)

Spec == Init /\ [][Next]_vars

-----------------------------------------------------------------------------
(* Between two barriers, no thread touches a cell that another one writes,
   and none reads a cell that another one adds to. *)
NoRace ==
    \A t, u \in ran : t # u =>
        LET mine == Current(t).touch
            other == Current(u).touch
        IN  /\ mine.written \cap (other.read \cup other.written \cup other.added) = {}
            /\ mine.added \cap other.read = {}

(* __syncthreads() is reached by all threads of the block or by none: a
   thread never waits at a barrier for one that has ended. *)
BarriersMatch ==
    \A t, u \in ran : ~(AtBarrier(t) /\ Ended(u))

(* When the kernel returns, its output is what it should be: every term once,
   every factor the one that belongs to it, and nothing outside of it. *)
Computes ==
    Returned =>
        LET results == Results(Calls[call])
            outputs == {cell[1] : cell \in DOMAIN results}
        IN  /\ \A cell \in DOMAIN results : memory[cell] = results[cell]
            /\ \A cell \in DOMAIN memory :
                   cell[1] \in outputs => cell \in DOMAIN results
=============================================================================
