---------------------------- MODULE CudaStreams ----------------------------
(***************************************************************************)
(* A host thread that drives a GPU through streams.  The host issues the   *)
(* calls of one routine in program order; a call that works on a stream is *)
(* appended to its queue and returns at once.  Each stream executes its    *)
(* queue in order, at its own pace, next to the other streams and the      *)
(* host.  Events order streams: a wait holds its stream until the record   *)
(* of the event that was the latest when the wait was issued has been      *)
(* reached; an event that was never recorded holds nothing.                *)
(*                                                                         *)
(* What a buffer holds is a sequence of contributions; a contribution is   *)
(* the set of the buffers and kernels it came through.  An addition        *)
(* appends, an assignment replaces.                                        *)
(***************************************************************************)
EXTENDS Integers, Sequences, FiniteSets

CONSTANTS
    Streams,    \* names of the streams
    Routines,   \* the routines the host may run
    Program,    \* Program[r]: the calls of routine r, in order
    Content     \* Content[r]: what the buffers of r hold before the first call

NoBuffer == <<"none", 0>>
NoEvent == <<"none", 0>>

(* The calls of the host.  Data and event calls go to stream "on". *)
Call(call, on, name, from, with, to, add, event) ==
    [call |-> call, on |-> on, name |-> name, from |-> from, with |-> with,
     to |-> to, add |-> add, event |-> event]

MemcpyOnDefaultStream(s, from, to) ==   \* mutant
    Call("copy", "default", NoEvent, from, {}, to, FALSE, NoEvent)
Memcpy(s, from, to) == Call("copy", s, NoEvent, from, {}, to, FALSE, NoEvent)
Zero(s, to) == Call("zero", s, NoEvent, NoBuffer, {}, to, FALSE, NoEvent)
Launch(s, kernel, from, with, to) ==
    Call("kernel", s, <<kernel, 0>>, from, with, to, FALSE, NoEvent)
LaunchAdd(s, kernel, from, with, to) ==
    Call("kernel", s, <<kernel, 0>>, from, with, to, TRUE, NoEvent)
LaunchMove(s, kernel, from, with, to) ==   \* a copy that clears its source
    Call("move", s, <<kernel, 0>>, from, with, to, FALSE, NoEvent)
Record(s, e) == Call("record", s, NoEvent, NoBuffer, {}, NoBuffer, FALSE, e)
WaitEvent(s, e) == Call("wait", s, NoEvent, NoBuffer, {}, NoBuffer, FALSE, e)
Synchronize(s) == Call("sync", s, NoEvent, NoBuffer, {}, NoBuffer, FALSE, NoEvent)
EventSynchronize(e) ==
    Call("await", "host", NoEvent, NoBuffer, {}, NoBuffer, FALSE, e)
Compute(name, from, with, to) ==
    Call("host", "host", <<name, 0>>, from, with, to, FALSE, NoEvent)
ComputeAdd(name, from, with, to) ==
    Call("host", "host", <<name, 0>>, from, with, to, TRUE, NoEvent)

DataCalls == {"copy", "zero", "kernel", "move"}
StreamCalls == DataCalls \cup {"record", "wait"}

Reads(call) == ({call.from} \cup call.with) \ {NoBuffer}
Writes(call) ==
    {call.to} \cup (IF call.call = "move" THEN {call.from} ELSE {})
Conflict(a, b) ==
    \/ Writes(a) \cap (Reads(b) \cup Writes(b)) # {}
    \/ Reads(a) \cap Writes(b) # {}

VARIABLES
    routine,    \* the routine the host runs
    calls,      \* its program
    pc,         \* index of the next call
    queue,      \* queue[s]: the calls stream s still has to execute, as
                \*   [at |-> index in the program, ticket |-> see below]
    recorded,   \* recorded[e]: how often a record of e was issued
    reached,    \* reached[e]: the tickets (numbers of records) of e executed
    mem,        \* what the buffers hold
    inOrder     \* history: what they would hold if the device executed each
                \*   call at once, when it is issued

vars == <<routine, calls, pc, queue, recorded, reached, mem, inOrder>>

Events == {calls[i].event : i \in DOMAIN calls}
Running == pc \in DOMAIN calls
Returned == ~Running
NextCall == calls[pc]

(* What a contribution becomes in a kernel, and what the target then holds. *)
Sources(call, m) ==
    UNION {UNION {m[b][i] : i \in DOMAIN m[b]} : b \in call.with}
Contributions(call, m) ==
    IF call.call = "zero" THEN <<>>
    ELSE IF call.call = "copy" THEN m[call.from]
    ELSE [i \in DOMAIN m[call.from] |->
              m[call.from][i] \cup Sources(call, m) \cup {call.name}]
Effect(call, m) ==
    LET result == IF call.add THEN m[call.to] \o Contributions(call, m)
                  ELSE Contributions(call, m)
        cleared == IF call.call = "move" THEN [m EXCEPT ![call.from] = <<>>] ELSE m
    IN  [cleared EXCEPT ![call.to] = result]

Init ==
    /\ routine \in Routines
    /\ calls = Program[routine]
    /\ pc = 1
    /\ queue = [s \in Streams |-> <<>>]
    /\ recorded = [e \in Events |-> 0]
    /\ reached = [e \in Events |-> {}]
    /\ mem = Content[routine]
    /\ inOrder = mem

(* The host. *)

Enqueue(ticket) ==
    queue' = [queue EXCEPT ![NextCall.on] =
                  Append(@, [at |-> pc, ticket |-> ticket])]

IssueData ==
    /\ Running /\ NextCall.call \in DataCalls
    /\ Enqueue(0)
    /\ inOrder' = Effect(NextCall, inOrder)
    /\ pc' = pc + 1
    /\ UNCHANGED <<routine, calls, recorded, reached, mem>>

IssueRecord ==
    /\ Running /\ NextCall.call = "record"
    /\ recorded' = [recorded EXCEPT ![NextCall.event] = @ + 1]
    /\ Enqueue(recorded[NextCall.event] + 1)
    /\ pc' = pc + 1
    /\ UNCHANGED <<routine, calls, reached, mem, inOrder>>

IssueWait ==
    /\ Running /\ NextCall.call = "wait"
    /\ Enqueue(recorded[NextCall.event])
    /\ pc' = pc + 1
    /\ UNCHANGED <<routine, calls, recorded, reached, mem, inOrder>>

HasReached(e, ticket) == ticket = 0 \/ ticket \in reached[e]

HostSynchronize ==
    /\ Running /\ NextCall.call = "sync"
    /\ queue[NextCall.on] = <<>>
    /\ pc' = pc + 1
    /\ UNCHANGED <<routine, calls, queue, recorded, reached, mem, inOrder>>

HostAwait ==
    /\ Running /\ NextCall.call = "await"
    /\ HasReached(NextCall.event, recorded[NextCall.event])
    /\ pc' = pc + 1
    /\ UNCHANGED <<routine, calls, queue, recorded, reached, mem, inOrder>>

HostCompute ==
    /\ Running /\ NextCall.call = "host"
    /\ mem' = Effect(NextCall, mem)
    /\ inOrder' = Effect(NextCall, inOrder)
    /\ pc' = pc + 1
    /\ UNCHANGED <<routine, calls, queue, recorded, reached>>

Host == IssueData \/ IssueRecord \/ IssueWait
        \/ HostSynchronize \/ HostAwait \/ HostCompute

(* The device: stream s executes the call at the head of its queue. *)

HeadCall(s) == calls[Head(queue[s]).at]
HeadIs(s, kinds) == queue[s] # <<>> /\ HeadCall(s).call \in kinds
Dequeue(s) == queue' = [queue EXCEPT ![s] = Tail(@)]

Execute(s) ==
    /\ HeadIs(s, DataCalls)
    /\ mem' = Effect(HeadCall(s), mem)
    /\ Dequeue(s)
    /\ UNCHANGED <<routine, calls, pc, recorded, reached, inOrder>>

ReachRecord(s) ==
    /\ HeadIs(s, {"record"})
    /\ reached' = [reached EXCEPT ![HeadCall(s).event] = @ \cup {Head(queue[s]).ticket}]
    /\ Dequeue(s)
    /\ UNCHANGED <<routine, calls, pc, recorded, mem, inOrder>>

PassWait(s) ==
    /\ HeadIs(s, {"wait"})
    /\ HasReached(HeadCall(s).event, Head(queue[s]).ticket)
    /\ Dequeue(s)
    /\ UNCHANGED <<routine, calls, pc, recorded, reached, mem, inOrder>>

Stream(s) == Execute(s) \/ ReachRecord(s) \/ PassWait(s)

(* Stream s can execute the call at the head of its queue. *)
CanStep(s) ==
    /\ queue[s] # <<>>
    /\ HeadIs(s, {"wait"}) => HasReached(HeadCall(s).event, Head(queue[s]).ticket)

Idle == \A s \in Streams : queue[s] = <<>>

(* The routine has returned and the device is idle. *)
Done == Returned /\ Idle /\ UNCHANGED vars

Next == Host \/ (\E s \in Streams : Stream(s)) \/ Done

Spec == Init /\ [][Next]_vars

-----------------------------------------------------------------------------
(* The queues hold calls that were issued, the records among them numbered. *)
Entries == [at : 1 .. pc - 1, ticket : Nat]
TypeOK ==
    /\ routine \in Routines
    /\ pc \in 1 .. Len(calls) + 1
    /\ queue \in [Streams -> Seq(Entries)]
    /\ recorded \in [Events -> Nat]
    /\ reached \in [Events -> SUBSET Nat]
    /\ \A i \in DOMAIN calls : calls[i].call \in StreamCalls => calls[i].on \in Streams

(* No two operations that may run at the same time touch the same buffer,
   one of them writing: neither the calls at the heads of two streams, nor
   one of them and the host's own computation. *)
Ready(s) == HeadIs(s, DataCalls)
NoRace ==
    /\ \A s, t \in Streams :
           s # t /\ Ready(s) /\ Ready(t) => ~Conflict(HeadCall(s), HeadCall(t))
    /\ Running /\ NextCall.call = "host" =>
           \A s \in Streams : Ready(s) => ~Conflict(HeadCall(s), NextCall)

(* When the routine returns, no work on its buffers is pending: they are
   destroyed, and the arrays of the caller may be. *)
ReturnsQuiescent == Returned => Idle

(* A buffer that no queued call still writes holds what it would hold if every
   call had been executed in the order of the program, although the streams
   have executed them in another. *)
Settled(b) == \A s \in Streams : \A k \in DOMAIN queue[s] : b \notin Writes(calls[queue[s][k].at])
AsIfInOrder == \A b \in DOMAIN mem : Settled(b) => mem[b] = inOrder[b]
=============================================================================
