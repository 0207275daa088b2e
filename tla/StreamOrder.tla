---------------------------- MODULE StreamOrder ----------------------------
(***************************************************************************)
(* What a program of the host orders by itself, at whatever pace the       *)
(* streams execute it.  It is read off the program, without running it:    *)
(* CudaStreamsProofs shows that a program whose calls are ordered in this  *)
(* way has no race and returns with the device idle.                       *)
(***************************************************************************)
EXTENDS CudaStreams

(* The latest record of event e before call j. *)
LatestRecord(P, i, e, j) ==
    /\ P[i].call = "record" /\ P[i].event = e
    /\ \A k \in i + 1 .. j - 1 : ~(P[k].call = "record" /\ P[k].event = e)

(* The calls that finish before call j begins, each for one reason: the host
   waits for them before it goes on, their stream executes them before, or they
   are the record that call j waits for.  After the last call, where the program
   has ended, it is only the host that has waited. *)
DirectlyBefore(P, j) ==
    {i \in 1 .. j - 1 :
        \/ P[i].call \notin StreamCalls
        \/ /\ j \in DOMAIN P
           /\ P[i].on = P[j].on /\ P[j].call \in StreamCalls \cup {"sync"}
        \/ /\ j \in DOMAIN P
           /\ P[j].call \in {"wait", "await"} /\ LatestRecord(P, i, P[j].event, j)}

(* For each call, and for the end, the calls that have finished before it
   begins: for one reason, or for chains of two, four and eight of them.  A
   buffer that goes through two streams and back takes five.  (The empty
   sequence makes TLC evaluate a function once and for all.) *)
ForOneReason(P) == <<>> \o [j \in 1 .. Len(P) + 1 |-> DirectlyBefore(P, j)]
ForTwice(before) ==
    <<>> \o [j \in DOMAIN before |-> before[j] \cup UNION {before[i] : i \in before[j]}]
FinishedBefore(P) ==
    LET two == ForTwice(ForOneReason(P))
        four == ForTwice(two)
    IN  ForTwice(four)

Touches(call) == call.call \in DataCalls \cup {"host"}

(* Calls that touch the same buffer, one of them writing, are ordered, and all
   calls are finished when the routine returns. *)
WellOrdered(P) ==
    LET before == FinishedBefore(P)
    IN  /\ \A j \in DOMAIN P : \A i \in 1 .. j - 1 :
               Touches(P[i]) /\ Touches(P[j]) /\ Conflict(P[i], P[j]) => i \in before[j]
        /\ DOMAIN P \subseteq before[Len(P) + 1]

(* The calls work on buffers that have contents. *)
NamesBuffers(P, content) ==
    /\ NoBuffer \notin DOMAIN content
    /\ \A i \in DOMAIN P : Touches(P[i]) =>
           /\ {P[i].to} \cup P[i].with \subseteq DOMAIN content
           /\ P[i].call # "zero" => P[i].from \in DOMAIN content

(* The streams, events and waits of the routine that was chosen order every two
   calls that touch the same buffer, and the end of it after all of them:
   the hypothesis of the theorems on races, on returning, and on contents. *)
RoutineOrdered == pc = 1 => WellOrdered(calls) /\ NamesBuffers(calls, mem)
=============================================================================
