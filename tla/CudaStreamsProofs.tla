------------------------- MODULE CudaStreamsProofs -------------------------
(***************************************************************************)
(* The calls of a program finish in the order that StreamOrder reads off   *)
(* it, so that a program which orders its conflicting calls has no race,   *)
(* the device is idle when it returns, and the buffers hold what they      *)
(* would hold if its calls were executed one by one: for every program of  *)
(* the host, any number of streams and events, and every pace of the       *)
(* streams.                                                                *)
(***************************************************************************)
EXTENDS StreamOrder, WellFoundedInduction, SequenceTheorems, TLAPS

(* What is asked of a program: it is a sequence of calls, and those that work
   on a stream name one. *)
ProgramsUseStreams ==
    \A r \in Routines :
        /\ Len(Program[r]) \in Nat /\ DOMAIN Program[r] = 1 .. Len(Program[r])
        /\ \A i \in DOMAIN Program[r] :
               Program[r][i].call \in StreamCalls => Program[r][i].on \in Streams

CallsInv ==
    /\ Len(calls) \in Nat /\ DOMAIN calls = 1 .. Len(calls)

(* A queue holds calls in the order in which they were issued. *)
IssuedInOrder ==
    \A s \in Streams : \A i, j \in DOMAIN queue[s] :
        i < j => queue[s][i].at < queue[s][j].at

IInv == TypeOK /\ CallsInv /\ IssuedInOrder

-----------------------------------------------------------------------------
(* A nonempty set of natural numbers has a least element. *)
LEMMA Least ==
    ASSUME NEW T \in SUBSET Nat, T # {}
    PROVE  \E n \in T : \A m \in T : n <= m
<1> DEFINE R == {ss \in Nat \X Nat : ss[1] < ss[2]}
<1>1. IsWellFoundedOn(R, Nat)
  BY NatLessThanWellFounded DEF OpToRel
<1>2. \A m, n \in Nat : m < n => <<m, n>> \in R
  OBVIOUS
<1> HIDE DEF R
<1>3. PICK n \in T : \A m \in T : ~(<<m, n>> \in R)
  BY <1>1, WFMin
<1>4. ASSUME NEW m \in T PROVE n <= m
  <2>1. m \in Nat /\ n \in Nat
    OBVIOUS
  <2>2. ~(m < n)
    BY <1>2, <1>3, <2>1
  <2> QED BY <2>1, <2>2
<1> QED BY <1>4

(* How the queues change: the elements of a queue after a call was appended
   or the first one was taken. *)
LEMMA Appended ==
    ASSUME NEW S, NEW q \in Seq(S), NEW x \in S
    PROVE  /\ Append(q, x) \in Seq(S)
           /\ DOMAIN q = 1 .. Len(q) /\ Len(q) \in Nat
           /\ DOMAIN Append(q, x) = 1 .. Len(q) + 1
           /\ \A i \in 1 .. Len(q) : Append(q, x)[i] = q[i]
           /\ Append(q, x)[Len(q) + 1] = x
  OBVIOUS

LEMMA Shortened ==
    ASSUME NEW S, NEW q \in Seq(S), q # <<>>
    PROVE  /\ Tail(q) \in Seq(S)
           /\ DOMAIN q = 1 .. Len(q) /\ Len(q) \in Nat /\ Len(q) > 0
           /\ Head(q) = q[1]
           /\ DOMAIN Tail(q) = 1 .. Len(q) - 1
           /\ \A i \in 1 .. Len(q) - 1 : Tail(q)[i] = q[i + 1]
  OBVIOUS

LEMMA Widened ==
    ASSUME NEW S, NEW W, S \subseteq W, NEW q \in Seq(S)
    PROVE  q \in Seq(W)
  OBVIOUS

-----------------------------------------------------------------------------
(* The types of queue entries, spelled out. *)
LEMMA EntryTypes ==
    ASSUME TypeOK, CallsInv
    PROVE  /\ pc \in Nat /\ pc >= 1 /\ pc <= Len(calls) + 1
           /\ \A s \in Streams : queue[s] \in Seq(Entries)
           /\ \A s \in Streams : \A i \in DOMAIN queue[s] :
                  /\ i \in Nat
                  /\ queue[s][i] \in Entries
                  /\ queue[s][i].at \in Nat
                  /\ queue[s][i].at < pc
                  /\ queue[s][i].at \in DOMAIN calls
                  /\ queue[s][i].ticket \in Nat
<1>1. pc \in 1 .. Len(calls) + 1 /\ Len(calls) \in Nat /\ DOMAIN calls = 1 .. Len(calls)
  BY DEF TypeOK, CallsInv
<1>2. \A n \in 1 .. pc - 1 : n \in Nat /\ n < pc /\ n \in DOMAIN calls
  BY <1>1
<1>3. \A s \in Streams : queue[s] \in Seq(Entries)
  BY DEF TypeOK
<1>4. \A s \in Streams : \A i \in DOMAIN queue[s] : i \in Nat /\ queue[s][i] \in Entries
  BY <1>3
<1>5. \A x \in Entries : x.at \in 1 .. pc - 1 /\ x.ticket \in Nat
  BY DEF Entries
<1> QED BY <1>1, <1>2, <1>3, <1>4, <1>5

(* A call that is issued goes to the end of its queue. *)
LEMMA Enqueued ==
    ASSUME TypeOK, CallsInv, Running, NextCall.call \in StreamCalls,
           NEW ticket \in Nat, Enqueue(ticket), pc' = pc + 1
    PROVE  /\ queue' \in [Streams -> Seq([at : 1 .. pc, ticket : Nat])]
           /\ \A s \in Streams : \A i \in DOMAIN queue[s] :
                  i \in DOMAIN queue'[s] /\ queue'[s][i] = queue[s][i]
           /\ \A s \in Streams : \A i \in DOMAIN queue'[s] :
                  \/ i \in DOMAIN queue[s]
                  \/ /\ s = NextCall.on /\ queue'[s][i] = [at |-> pc, ticket |-> ticket]
                     /\ i \in Nat /\ \A j \in DOMAIN queue[s] : j < i
           /\ NextCall.on \in Streams
           /\ \E i \in DOMAIN queue'[NextCall.on] :
                  queue'[NextCall.on][i] = [at |-> pc, ticket |-> ticket]
<1> DEFINE on == NextCall.on
           x == [at |-> pc, ticket |-> ticket]
           E == [at : 1 .. pc, ticket : Nat]
<1>1. on \in Streams
  BY DEF TypeOK, Running, NextCall
<1>2. queue' = [queue EXCEPT ![on] = Append(@, x)] /\ queue \in [Streams -> Seq(Entries)]
  BY DEF Enqueue, TypeOK
<1>3. x \in E /\ Entries \subseteq E
  <2>1. pc \in Nat /\ pc >= 1
    BY EntryTypes
  <2>2. pc \in 1 .. pc /\ 1 .. pc - 1 \subseteq 1 .. pc
    BY <2>1
  <2> QED BY <2>2 DEF Entries
<1>4. \A s \in Streams : queue[s] \in Seq(E)
  <2>1. \A s \in Streams : queue[s] \in Seq(Entries)
    BY <1>2
  <2> HIDE DEF E
  <2> QED BY <1>3, <2>1, Widened
<1> HIDE DEF on, x, E
<1>5. /\ Append(queue[on], x) \in Seq(E)
      /\ DOMAIN queue[on] = 1 .. Len(queue[on]) /\ Len(queue[on]) \in Nat
      /\ DOMAIN Append(queue[on], x) = 1 .. Len(queue[on]) + 1
      /\ \A i \in 1 .. Len(queue[on]) : Append(queue[on], x)[i] = queue[on][i]
      /\ Append(queue[on], x)[Len(queue[on]) + 1] = x
  BY <1>1, <1>3, <1>4, Appended
<1>6. queue'[on] = Append(queue[on], x) /\ \A s \in Streams : s # on => queue'[s] = queue[s]
  BY <1>1, <1>2
<1>7. queue' \in [Streams -> Seq(E)]
  BY <1>1, <1>2, <1>4, <1>5
<1>8. \A i \in DOMAIN queue[on] : i \in DOMAIN queue'[on] /\ queue'[on][i] = queue[on][i]
  BY <1>5, <1>6
<1>9. \A i \in DOMAIN queue'[on] :
         \/ i \in DOMAIN queue[on]
         \/ queue'[on][i] = x /\ i \in Nat /\ \A j \in DOMAIN queue[on] : j < i
  BY <1>5, <1>6
<1>10. Len(queue[on]) + 1 \in DOMAIN queue'[on] /\ queue'[on][Len(queue[on]) + 1] = x
  BY <1>5, <1>6
<1> QED BY <1>1, <1>6, <1>7, <1>8, <1>9, <1>10 DEF on, x, E

(* A stream takes the call at the head of its queue; the others move up. *)
LEMMA Dequeued ==
    ASSUME TypeOK, CallsInv, NEW s \in Streams, queue[s] # <<>>, Dequeue(s)
    PROVE  /\ queue' \in [Streams -> Seq(Entries)]
           /\ Head(queue[s]) = queue[s][1] /\ 1 \in DOMAIN queue[s]
           /\ \A t \in Streams : \A i \in DOMAIN queue'[t] :
                  \/ t # s /\ i \in DOMAIN queue[t] /\ queue'[t][i] = queue[t][i]
                  \/ t = s /\ i + 1 \in DOMAIN queue[t] /\ queue'[t][i] = queue[t][i + 1]
           /\ \A t \in Streams : \A j \in DOMAIN queue[t] :
                  (t = s /\ j = 1) \/ \E i \in DOMAIN queue'[t] : queue'[t][i] = queue[t][j]
           /\ \A t \in Streams : \A i \in DOMAIN queue'[t] : i \in Nat
<1>1. queue' = [queue EXCEPT ![s] = Tail(@)] /\ queue \in [Streams -> Seq(Entries)]
  BY DEF Dequeue, TypeOK
<1>2. /\ Tail(queue[s]) \in Seq(Entries)
      /\ DOMAIN queue[s] = 1 .. Len(queue[s]) /\ Len(queue[s]) \in Nat /\ Len(queue[s]) > 0
      /\ Head(queue[s]) = queue[s][1]
      /\ DOMAIN Tail(queue[s]) = 1 .. Len(queue[s]) - 1
      /\ \A i \in 1 .. Len(queue[s]) - 1 : Tail(queue[s])[i] = queue[s][i + 1]
  BY <1>1, Shortened
<1>3. queue'[s] = Tail(queue[s]) /\ \A t \in Streams : t # s => queue'[t] = queue[t]
  BY <1>1
<1>4. queue' \in [Streams -> Seq(Entries)]
  BY <1>1, <1>2
<1>5. \A i \in DOMAIN queue'[s] : i + 1 \in DOMAIN queue[s] /\ queue'[s][i] = queue[s][i + 1]
  BY <1>2, <1>3
<1>6. \A j \in DOMAIN queue[s] :
         j = 1 \/ (j - 1 \in DOMAIN queue'[s] /\ queue'[s][j - 1] = queue[s][j])
  BY <1>2, <1>3
<1>7. \A t \in Streams : \A i \in DOMAIN queue'[t] : i \in Nat
  BY <1>4
<1>8. ASSUME NEW t \in Streams, NEW i \in DOMAIN queue'[t]
      PROVE  \/ t # s /\ i \in DOMAIN queue[t] /\ queue'[t][i] = queue[t][i]
             \/ t = s /\ i + 1 \in DOMAIN queue[t] /\ queue'[t][i] = queue[t][i + 1]
  BY <1>3, <1>5
<1>9. ASSUME NEW t \in Streams, NEW j \in DOMAIN queue[t]
      PROVE  (t = s /\ j = 1) \/ \E i \in DOMAIN queue'[t] : queue'[t][i] = queue[t][j]
  <2>1. CASE t = s
    BY <2>1, <1>6
  <2>2. CASE t # s
    BY <2>2, <1>3
  <2> QED BY <2>1, <2>2
<1>10. Head(queue[s]) = queue[s][1] /\ 1 \in DOMAIN queue[s]
  BY <1>2
<1> QED BY <1>4, <1>7, <1>8, <1>9, <1>10

(* The events of a program are those its calls name, and they stay the same
   while it runs. *)
LEMMA EventsOfCalls ==
    ASSUME calls' = calls
    PROVE  Events' = Events /\ \A n \in DOMAIN calls : calls[n].event \in Events
BY DEF Events

(* A call that works on no stream: only pc moves. *)
LEMMA HostStep ==
    ASSUME IInv, Running, pc' = pc + 1,
           UNCHANGED <<routine, calls, queue, recorded, reached>>
    PROVE  IInv'
<1>1. /\ pc \in Nat /\ pc >= 1 /\ pc <= Len(calls)
      /\ Len(calls) \in Nat
  BY EntryTypes DEF IInv, CallsInv, Running
<1>2. TypeOK'
  <2>1. 1 .. pc - 1 \subseteq 1 .. pc' - 1 /\ pc' \in 1 .. Len(calls') + 1
    BY <1>1
  <2>2. Entries \subseteq Entries'
    BY <2>1 DEF Entries
  <2>3. queue' \in [Streams -> Seq(Entries')]
    <3>1. queue \in [Streams -> Seq(Entries)]
      BY DEF IInv, TypeOK
    <3>2. \A s \in Streams : queue[s] \in Seq(Entries')
      BY <3>1, <2>2, Widened
    <3> QED BY <3>1, <3>2
  <2> QED BY <2>1, <2>3, EventsOfCalls DEF IInv, TypeOK
<1>3. CallsInv' /\ IssuedInOrder'
  BY DEF IInv, CallsInv, IssuedInOrder
<1> QED BY <1>2, <1>3 DEF IInv

(* A call that goes to a stream, with its ticket. *)
LEMMA StreamStep ==
    ASSUME IInv, Running, NextCall.call \in StreamCalls,
           NEW ticket \in Nat, Enqueue(ticket), pc' = pc + 1,
           UNCHANGED <<routine, calls, reached>>,
           recorded' \in [Events -> Nat]
    PROVE  IInv'
<1>1. /\ pc \in Nat /\ pc >= 1 /\ pc <= Len(calls) /\ Len(calls) \in Nat
      /\ pc \in DOMAIN calls
  BY EntryTypes DEF IInv, Running, CallsInv
<1> DEFINE new == [at |-> pc, ticket |-> ticket]
           on == NextCall.on
           NewEntries == [at : 1 .. pc, ticket : Nat]
<1>2. /\ queue' \in [Streams -> Seq(NewEntries)]
      /\ \A s \in Streams : \A i \in DOMAIN queue[s] :
             i \in DOMAIN queue'[s] /\ queue'[s][i] = queue[s][i]
      /\ \A s \in Streams : \A i \in DOMAIN queue'[s] :
             \/ i \in DOMAIN queue[s]
             \/ /\ s = on /\ queue'[s][i] = new
                /\ i \in Nat /\ \A j \in DOMAIN queue[s] : j < i
      /\ on \in Streams
      /\ \E i \in DOMAIN queue'[on] : queue'[on][i] = new
  BY Enqueued DEF IInv
<1>a. new.at = pc /\ new.ticket = ticket /\ calls' = calls /\ reached' = reached
  OBVIOUS
<1>b. queue' = [queue EXCEPT ![on] = Append(@, new)]
  BY DEF Enqueue
<1> HIDE DEF new, on, NewEntries
<1>3. \A s \in Streams : \A i \in DOMAIN queue[s] :
          i \in Nat /\ queue[s][i].at \in Nat /\ queue[s][i].at < pc
  BY EntryTypes DEF IInv
<1>4. TypeOK'
  <2>1. pc' \in 1 .. Len(calls') + 1 /\ pc' - 1 = pc
    BY <1>1
  <2>2. Entries' = NewEntries
    BY <2>1 DEF Entries, NewEntries
  <2>3. Events' = Events
    BY EventsOfCalls
  <2> QED BY <1>2, <2>1, <2>2, <2>3 DEF IInv, TypeOK
<1>5. IssuedInOrder'
  <2> SUFFICES ASSUME NEW s \in Streams, NEW i \in DOMAIN queue'[s], NEW j \in DOMAIN queue'[s],
                      i < j
               PROVE  queue'[s][i].at < queue'[s][j].at
    BY DEF IssuedInOrder
  <2>1. CASE i \in DOMAIN queue[s] /\ j \in DOMAIN queue[s]
    BY <2>1, <1>2 DEF IInv, IssuedInOrder
  <2>2. CASE i \in DOMAIN queue[s] /\ j \notin DOMAIN queue[s]
    BY <2>2, <1>2, <1>3, <1>a
  <2>3. CASE i \notin DOMAIN queue[s]
    <3>1. i \in Nat /\ \A n \in DOMAIN queue[s] : n < i
      BY <2>3, <1>2
    <3>2. j \in DOMAIN queue[s] => FALSE
      BY <3>1, <1>3
    <3>3. i = j
      <4>2. s = on /\ queue'[s] = Append(queue[s], new)
        BY <1>b, <1>2, <2>3 DEF IInv, TypeOK
      <4>3. queue[s] \in Seq(Entries)
        BY DEF IInv, TypeOK
      <4> QED BY <4>2, <4>3, <3>2, <2>3
    <3> QED BY <3>1, <3>3
  <2> QED BY <2>1, <2>2, <2>3
<1>6. CallsInv'
  BY <1>a DEF IInv, CallsInv
<1> QED BY <1>4, <1>5, <1>6 DEF IInv

(* A stream executes the call at the head of its queue. *)
LEMMA DeviceStep ==
    ASSUME IInv, NEW s \in Streams, queue[s] # <<>>, Dequeue(s),
           UNCHANGED <<routine, calls, pc, recorded>>,
           reached' \in [Events -> SUBSET Nat]
    PROVE  IInv'
<1>1. /\ queue' \in [Streams -> Seq(Entries)]
      /\ Head(queue[s]) = queue[s][1] /\ 1 \in DOMAIN queue[s]
      /\ \A t \in Streams : \A i \in DOMAIN queue'[t] :
             \/ t # s /\ i \in DOMAIN queue[t] /\ queue'[t][i] = queue[t][i]
             \/ t = s /\ i + 1 \in DOMAIN queue[t] /\ queue'[t][i] = queue[t][i + 1]
      /\ \A t \in Streams : \A j \in DOMAIN queue[t] :
             (t = s /\ j = 1) \/ \E i \in DOMAIN queue'[t] : queue'[t][i] = queue[t][j]
      /\ \A t \in Streams : \A i \in DOMAIN queue'[t] : i \in Nat
  BY Dequeued DEF IInv
<1>2. TypeOK'
  <2>1. Entries' = Entries
    BY DEF Entries
  <2> QED BY <1>1, <2>1, EventsOfCalls DEF IInv, TypeOK
<1>3. CallsInv'
  BY DEF IInv, CallsInv
<1>4. IssuedInOrder'
  <2> SUFFICES ASSUME NEW t \in Streams, NEW i \in DOMAIN queue'[t], NEW j \in DOMAIN queue'[t],
                      i < j
               PROVE  queue'[t][i].at < queue'[t][j].at
    BY DEF IssuedInOrder
  <2>1. CASE t = s
    <3>1. i \in Nat /\ j \in Nat
      BY <1>1
    <3>2. i + 1 < j + 1
      BY <3>1
    <3> QED BY <2>1, <3>2, <1>1 DEF IInv, IssuedInOrder
  <2>2. CASE t # s
    BY <2>2, <1>1 DEF IInv, IssuedInOrder
  <2> QED BY <2>1, <2>2
<1> QED BY <1>2, <1>3, <1>4 DEF IInv

-----------------------------------------------------------------------------
LEMMA InvariantAtStart == ProgramsUseStreams /\ Init => IInv
<1> SUFFICES ASSUME ProgramsUseStreams, Init PROVE IInv
  OBVIOUS
<1>1. /\ routine \in Routines /\ calls = Program[routine] /\ pc = 1
      /\ Len(calls) \in Nat /\ DOMAIN calls = 1 .. Len(calls)
      /\ \A i \in DOMAIN calls : calls[i].call \in StreamCalls => calls[i].on \in Streams
  BY DEF ProgramsUseStreams, Init
<1>2. queue \in [Streams -> Seq(Entries)] /\ \A s \in Streams : DOMAIN queue[s] = {}
  BY DEF Init
<1>3. recorded \in [Events -> Nat] /\ reached \in [Events -> SUBSET Nat]
  BY DEF Init
<1>4. TypeOK /\ CallsInv
  BY <1>1, <1>2, <1>3 DEF TypeOK, CallsInv
<1>5. IssuedInOrder
  BY <1>2 DEF IssuedInOrder
<1> QED BY <1>4, <1>5 DEF IInv

LEMMA InvariantKept == IInv /\ [Next]_vars => IInv'
<1> SUFFICES ASSUME IInv, [Next]_vars PROVE IInv'
  OBVIOUS
<1>1. recorded \in [Events -> Nat] /\ reached \in [Events -> SUBSET Nat]
  BY DEF IInv, TypeOK
<1>2. Running => NextCall.event \in Events
  BY DEF Running, NextCall, Events
<1>3. CASE IssueData
  <2>1. NextCall.call \in StreamCalls
    BY <1>3 DEF IssueData, StreamCalls
  <2> QED BY <1>1, <1>3, <2>1, StreamStep DEF IssueData
<1>4. CASE IssueRecord
  <2> DEFINE e == NextCall.event
             k == recorded[e] + 1
  <2>1. /\ Running /\ NextCall.call = "record" /\ NextCall.call \in StreamCalls
        /\ recorded' = [recorded EXCEPT ![e] = k] /\ Enqueue(k) /\ pc' = pc + 1
        /\ UNCHANGED <<routine, calls, reached>>
    BY <1>4 DEF IssueRecord, StreamCalls
  <2>2. k \in Nat /\ recorded' \in [Events -> Nat]
    BY <1>1, <1>2, <2>1
  <2> HIDE DEF k
  <2> QED BY <2>1, <2>2, StreamStep
<1>5. CASE IssueWait
  <2> DEFINE k == recorded[NextCall.event]
  <2>1. /\ Running /\ NextCall.call = "wait" /\ NextCall.call \in StreamCalls
        /\ Enqueue(k) /\ pc' = pc + 1
        /\ UNCHANGED <<routine, calls, recorded, reached>>
    BY <1>5 DEF IssueWait, StreamCalls
  <2>2. k \in Nat
    BY <1>1, <1>2, <2>1
  <2> QED BY <1>1, <2>1, <2>2, StreamStep
<1>6. CASE HostSynchronize
  BY <1>6, HostStep DEF HostSynchronize
<1>7. CASE HostAwait
  BY <1>7, HostStep DEF HostAwait
<1>8. CASE HostCompute
  BY <1>8, HostStep DEF HostCompute
<1>9. ASSUME NEW s \in Streams, Execute(s) PROVE IInv'
  BY <1>1, <1>9, DeviceStep DEF Execute, HeadIs
<1>10. ASSUME NEW s \in Streams, ReachRecord(s) PROVE IInv'
  <2> DEFINE e == HeadCall(s).event
             k == Head(queue[s]).ticket
  <2>1. /\ queue[s] # <<>> /\ Dequeue(s) /\ UNCHANGED <<routine, calls, pc, recorded>>
        /\ reached' = [reached EXCEPT ![e] = @ \cup {k}]
    BY <1>10 DEF ReachRecord, HeadIs
  <2>2. /\ 1 \in DOMAIN queue[s] /\ Head(queue[s]) = queue[s][1]
    BY <2>1, Shortened DEF IInv, TypeOK
  <2>3. k \in Nat /\ e \in Events
    BY <2>2, EntryTypes, EventsOfCalls, <2>1 DEF IInv, HeadCall
  <2>4. reached' \in [Events -> SUBSET Nat]
    BY <1>1, <2>1, <2>3
  <2> QED BY <2>1, <2>4, DeviceStep
<1>11. ASSUME NEW s \in Streams, PassWait(s) PROVE IInv'
  BY <1>1, <1>11, DeviceStep DEF PassWait, HeadIs
<1>12. CASE UNCHANGED vars
  <2>1. TypeOK'
    <3>1. Entries' = Entries /\ Events' = Events
      BY <1>12 DEF vars, Entries, Events
    <3> QED BY <1>12, <3>1 DEF vars, IInv, TypeOK
  <2>2. CallsInv' /\ IssuedInOrder'
    BY <1>12 DEF vars, IInv, CallsInv, IssuedInOrder
  <2> QED BY <2>1, <2>2 DEF IInv
<1> QED BY <1>3, <1>4, <1>5, <1>6, <1>7, <1>8, <1>9, <1>10, <1>11, <1>12
        DEF Next, Host, Stream, Done

-----------------------------------------------------------------------------
(* The queues hold calls that were issued, on streams that exist, and events
   carry the numbers of their records: for every program that names only
   existing streams (CUDA InstanceCUDA.cpp and the routines, which pass the
   streams their constructor created). *)
THEOREM QueuesWellFormed == ASSUME ProgramsUseStreams PROVE Spec => []TypeOK
<1>1. Init => IInv
  BY InvariantAtStart
<1>2. IInv => TypeOK
  BY DEF IInv
<1> QED BY <1>1, <1>2, InvariantKept, PTL DEF Spec

-----------------------------------------------------------------------------
(* The queued calls, of stream s and of all. *)
On(s) == {queue[s][k] : k \in DOMAIN queue[s]}
Work == UNION {On(s) : s \in Streams}

KindOf(x) == calls[x.at].call
EventOf(x) == calls[x.at].event

(* A queued call is in the queue of its stream, and only once. *)
OwnStream ==
    \A s \in Streams : \A x \in On(s) : KindOf(x) \in StreamCalls /\ calls[x.at].on = s
QueuedOnce == \A x, y \in Work : x.at = y.at => x = y

(* The queued records have numbers that were given out and are not reached, and
   no two of an event have the same. *)
RecordsNumbered ==
    /\ \A e \in Events : reached[e] \subseteq 1 .. recorded[e]
    /\ \A x \in Work : KindOf(x) = "record" =>
           x.ticket \in 1 .. recorded[EventOf(x)] /\ x.ticket \notin reached[EventOf(x)]
    /\ \A x, y \in Work :
           KindOf(x) = "record" /\ KindOf(y) = "record" /\ EventOf(x) = EventOf(y)
               /\ x.ticket = y.ticket => x = y

(* The latest record of an event has the last number, and what a queued wait
   waits for is the record that was the latest when it was issued. *)
LatestIsLast ==
    \A x \in Work : LatestRecord(calls, x.at, EventOf(x), pc) => x.ticket = recorded[EventOf(x)]
WaitsForLatest ==
    \A x, y \in Work :
        KindOf(x) = "wait" /\ y.at < x.at /\ LatestRecord(calls, y.at, EventOf(x), x.at)
            => y.ticket = x.ticket

TicketInv == OwnStream /\ QueuedOnce /\ RecordsNumbered /\ LatestIsLast /\ WaitsForLatest

(* A call is finished when it was issued and is not queued. *)
Finished(i) == i < pc /\ \A x \in Work : x.at # i
Ordered(j) == \A i \in DirectlyBefore(calls, j) : Finished(i)

(* Calls finish in the order of the program. *)
FinishedInOrder == \A j \in DOMAIN calls : Finished(j) => Ordered(j)

OrderInv == IInv /\ TicketInv /\ FinishedInOrder

-----------------------------------------------------------------------------
LEMMA WorkTypes ==
    ASSUME IInv
    PROVE  /\ pc \in Nat /\ pc >= 1 /\ pc <= Len(calls) + 1 /\ Len(calls) \in Nat
           /\ DOMAIN calls = 1 .. Len(calls)
           /\ \A x \in Work : /\ x \in Entries /\ x.at \in Nat /\ x.at \in DOMAIN calls
                              /\ x.at < pc /\ x.ticket \in Nat /\ EventOf(x) \in Events
           /\ \A s \in Streams : On(s) \subseteq Work
<1>1. TypeOK /\ CallsInv
  BY DEF IInv
<1>2. \A s \in Streams : On(s) \subseteq Work
  BY DEF Work
<1>3. ASSUME NEW x \in Work
      PROVE  /\ x \in Entries /\ x.at \in Nat /\ x.at \in DOMAIN calls
             /\ x.at < pc /\ x.ticket \in Nat
  <2>1. PICK s \in Streams : x \in On(s)
    BY DEF Work
  <2>2. PICK k \in DOMAIN queue[s] : x = queue[s][k]
    BY <2>1 DEF On
  <2> QED BY <1>1, <2>2, EntryTypes
<1>4. \A n \in DOMAIN calls : calls[n].event \in Events
  BY DEF Events
<1> QED BY <1>1, <1>2, <1>3, <1>4, EntryTypes DEF CallsInv, EventOf

(* A call that is issued is added. *)
LEMMA WorkIssued ==
    ASSUME IInv, Running, NextCall.call \in StreamCalls,
           NEW ticket \in Nat, Enqueue(ticket), pc' = pc + 1
    PROVE  /\ Work' = Work \cup {[at |-> pc, ticket |-> ticket]}
           /\ \A s \in Streams : \A x \in On(s)' :
                  x \in On(s) \/ (s = NextCall.on /\ x = [at |-> pc, ticket |-> ticket])
           /\ NextCall.on \in Streams
<1> DEFINE new == [at |-> pc, ticket |-> ticket]
<1>1. /\ \A s \in Streams : \A i \in DOMAIN queue[s] :
             i \in DOMAIN queue'[s] /\ queue'[s][i] = queue[s][i]
      /\ \A s \in Streams : \A i \in DOMAIN queue'[s] :
             i \in DOMAIN queue[s] \/ (s = NextCall.on /\ queue'[s][i] = new)
      /\ NextCall.on \in Streams
      /\ \E i \in DOMAIN queue'[NextCall.on] : queue'[NextCall.on][i] = new
  BY Enqueued DEF IInv
<1> HIDE DEF new
<1>2. ASSUME NEW s \in Streams, NEW x \in On(s)'
      PROVE  x \in On(s) \/ (s = NextCall.on /\ x = new)
  <2>1. PICK i \in DOMAIN queue'[s] : x = queue'[s][i]
    BY DEF On
  <2>2. CASE i \in DOMAIN queue[s]
    BY <1>1, <2>1, <2>2 DEF On
  <2>3. CASE s = NextCall.on /\ queue'[s][i] = new
    BY <2>1, <2>3
  <2> QED BY <1>1, <2>2, <2>3
<1>3. \A s \in Streams : On(s) \subseteq On(s)'
  BY <1>1 DEF On
<1>4. ASSUME NEW s \in Streams, s = NextCall.on PROVE new \in On(s)'
  BY <1>1, <1>4 DEF On
<1>5. Work' = UNION {On(s)' : s \in Streams}
  BY DEF Work
<1>6. Work \subseteq Work' /\ new \in Work'
  BY <1>1, <1>3, <1>4, <1>5 DEF Work
<1>7. ASSUME NEW x \in Work' PROVE x \in Work \/ x = new
  <2>1. PICK s \in Streams : x \in On(s)'
    BY <1>5
  <2> QED BY <1>2, <2>1 DEF Work
<1> QED BY <1>1, <1>2, <1>6, <1>7 DEF new

(* A call that is taken from the head of its queue was the first of them, and
   is there no more. *)
LEMMA WorkTaken ==
    ASSUME IInv, OwnStream, NEW s \in Streams, queue[s] # <<>>
    PROVE  /\ Head(queue[s]) \in On(s) /\ Head(queue[s]) \in Work
           /\ HeadCall(s) = calls[Head(queue[s]).at]
           /\ \A x \in On(s) : Head(queue[s]).at <= x.at
           /\ Dequeue(s) => /\ Work' = Work \ {Head(queue[s])}
                            /\ \A t \in Streams : On(t)' \subseteq On(t)
<1>1. /\ queue[s] \in Seq(Entries) /\ Head(queue[s]) = queue[s][1] /\ 1 \in DOMAIN queue[s]
      /\ \A i \in DOMAIN queue[s] : i \in Nat /\ i >= 1
  BY Shortened DEF IInv, TypeOK
<1>2. Head(queue[s]) \in On(s) /\ Head(queue[s]) \in Work
  BY <1>1 DEF On, Work
<1>3. ASSUME NEW i \in DOMAIN queue[s], i # 1 PROVE queue[s][1].at < queue[s][i].at
  <2>1. 1 < i
    BY <1>1, <1>3
  <2> QED BY <1>1, <2>1 DEF IInv, IssuedInOrder
<1>4. \A x \in On(s) : Head(queue[s]).at <= x.at
  <2> SUFFICES ASSUME NEW i \in DOMAIN queue[s] PROVE queue[s][1].at <= queue[s][i].at
    BY <1>1 DEF On
  <2>1. queue[s][1].at \in Nat /\ queue[s][i].at \in Nat
    BY <1>1, EntryTypes DEF IInv
  <2> QED BY <1>3, <2>1
<1>5. ASSUME Dequeue(s)
      PROVE  Work' = Work \ {Head(queue[s])} /\ \A t \in Streams : On(t)' \subseteq On(t)
  <2>1. /\ \A t \in Streams : \A i \in DOMAIN queue'[t] :
               \/ t # s /\ i \in DOMAIN queue[t] /\ queue'[t][i] = queue[t][i]
               \/ t = s /\ i + 1 \in DOMAIN queue[t] /\ queue'[t][i] = queue[t][i + 1]
        /\ \A t \in Streams : \A j \in DOMAIN queue[t] :
               (t = s /\ j = 1) \/ \E i \in DOMAIN queue'[t] : queue'[t][i] = queue[t][j]
        /\ \A t \in Streams : \A i \in DOMAIN queue'[t] : i \in Nat
        /\ queue' = [queue EXCEPT ![s] = Tail(@)]
    BY <1>5, Dequeued DEF IInv, Dequeue
  <2>2. \A t \in Streams : On(t)' \subseteq On(t)
    BY <2>1 DEF On
  <2>3. ASSUME NEW t \in Streams, NEW x \in On(t)' PROVE x # Head(queue[s])
    <3>1. PICK i \in DOMAIN queue'[t] : x = queue'[t][i]
      BY DEF On
    <3>2. CASE t = s
      <4>1. i + 1 \in DOMAIN queue[s] /\ x = queue[s][i + 1] /\ i \in Nat
        BY <2>1, <3>1, <3>2
      <4>2. i >= 1
        <5>1. queue'[s] = Tail(queue[s])
          BY <2>1, <1>1 DEF IInv, TypeOK
        <5>2. DOMAIN queue'[s] = 1 .. Len(queue[s]) - 1
          BY <5>1, <1>1, Shortened
        <5> QED BY <3>1, <3>2, <5>2, <1>1
      <4>3. queue[s][1].at < x.at
        BY <1>3, <4>1, <4>2
      <4>4. x.at \in Nat
        BY <4>1, EntryTypes DEF IInv
      <4> QED BY <1>1, <4>3, <4>4
    <3>3. CASE t # s
      BY <1>2, <2>2, <3>3 DEF OwnStream
    <3> QED BY <3>2, <3>3
  <2>4. Work' = UNION {On(t)' : t \in Streams}
    BY DEF Work
  <2>5. Work' \subseteq Work \ {Head(queue[s])}
    BY <2>2, <2>3, <2>4 DEF Work
  <2>6. ASSUME NEW x \in Work, x # Head(queue[s]) PROVE x \in Work'
    <3>1. PICK t \in Streams : x \in On(t)
      BY DEF Work
    <3>2. PICK j \in DOMAIN queue[t] : x = queue[t][j]
      BY <3>1 DEF On
    <3>3. ~(t = s /\ j = 1)
      BY <1>1, <2>6, <3>2
    <3>4. x \in On(t)'
      BY <2>1, <3>2, <3>3 DEF On
    <3> QED BY <2>4, <3>4
  <2> QED BY <2>2, <2>5, <2>6
<1> QED BY <1>2, <1>4, <1>5 DEF HeadCall

-----------------------------------------------------------------------------
(* A host call that touches no queue. *)
LEMMA TicketsAtHostStep ==
    ASSUME IInv, TicketInv, Running, pc' = pc + 1,
           UNCHANGED <<calls, queue, recorded, reached>>
    PROVE  TicketInv'
<1>1. Work' = Work /\ (\A s \in Streams : On(s)' = On(s)) /\ Events' = Events
  BY EventsOfCalls DEF Work, On
<1>2. OwnStream' /\ QueuedOnce' /\ RecordsNumbered' /\ WaitsForLatest'
  BY <1>1 DEF TicketInv, OwnStream, QueuedOnce, RecordsNumbered, WaitsForLatest, KindOf, EventOf
<1>3. LatestIsLast'
  <2> SUFFICES ASSUME NEW x \in Work, LatestRecord(calls, x.at, EventOf(x), pc')
               PROVE  x.ticket = recorded[EventOf(x)]
    BY <1>1 DEF LatestIsLast, EventOf
  <2>1. x.at + 1 .. pc - 1 \subseteq x.at + 1 .. pc' - 1
    BY WorkTypes
  <2>2. LatestRecord(calls, x.at, EventOf(x), pc)
    BY ONLY <2>1, LatestRecord(calls, x.at, EventOf(x), pc') DEF LatestRecord
  <2> QED BY <2>2 DEF TicketInv, LatestIsLast
<1> QED BY <1>2, <1>3 DEF TicketInv

(* A call that is issued: a record takes the next number, a wait the last. *)
LEMMA TicketsAtIssue ==
    ASSUME IInv, TicketInv, Running, NextCall.call \in StreamCalls,
           NEW ticket \in Nat, Enqueue(ticket), pc' = pc + 1, UNCHANGED <<calls, reached>>,
           IF NextCall.call = "record"
           THEN /\ ticket = recorded[NextCall.event] + 1
                /\ recorded' = [recorded EXCEPT ![NextCall.event] = @ + 1]
           ELSE recorded' = recorded,
           NextCall.call = "wait" => ticket = recorded[NextCall.event]
    PROVE  TicketInv'
<1> DEFINE new == [at |-> pc, ticket |-> ticket]
<1>1. /\ Work' = Work \cup {new}
      /\ \A s \in Streams : \A x \in On(s)' : x \in On(s) \/ (s = NextCall.on /\ x = new)
  BY WorkIssued
<1>2. /\ Events' = Events /\ NextCall.event \in Events
      /\ recorded \in [Events -> Nat] /\ reached \in [Events -> SUBSET Nat]
  BY EventsOfCalls DEF IInv, TypeOK, Running, NextCall, Events
<1>3. /\ new.at = pc /\ new.ticket = ticket
      /\ calls[new.at] = NextCall /\ calls' = calls /\ reached' = reached
  BY DEF NextCall
<1>4. /\ pc \in Nat
      /\ \A x \in Work : x.at \in Nat /\ x.at < pc /\ x.ticket \in Nat /\ EventOf(x) \in Events
  BY WorkTypes
<1> HIDE DEF new
<1>5. OwnStream'
  BY <1>1, <1>3 DEF TicketInv, OwnStream, KindOf
<1>6. QueuedOnce'
  BY <1>1, <1>3, <1>4 DEF TicketInv, QueuedOnce
<1>7. \A e \in Events :
          /\ recorded'[e] \in Nat /\ recorded[e] \in Nat /\ recorded[e] <= recorded'[e]
          /\ NextCall.call = "record" /\ e = NextCall.event => recorded'[e] = recorded[e] + 1
          /\ ~(NextCall.call = "record" /\ e = NextCall.event) => recorded'[e] = recorded[e]
  BY <1>2
<1>8. \A e \in Events : 1 .. recorded[e] \subseteq 1 .. recorded'[e]
  BY <1>7
<1>9. NextCall.call = "record" =>
          /\ ticket = recorded'[NextCall.event]
          /\ ticket \in 1 .. recorded'[NextCall.event]
          /\ ticket \notin 1 .. recorded[NextCall.event]
  BY <1>2, <1>7
<1>10. RecordsNumbered'
  <2>1. \A e \in Events : reached[e] \subseteq 1 .. recorded'[e]
    BY <1>8 DEF TicketInv, RecordsNumbered
  <2>2. ASSUME NEW x \in Work', KindOf(x) = "record"
        PROVE  x.ticket \in 1 .. recorded'[EventOf(x)] /\ x.ticket \notin reached[EventOf(x)]
    <3>1. CASE x \in Work
      BY <1>4, <1>8, <2>2, <3>1 DEF TicketInv, RecordsNumbered
    <3>2. CASE x = new
      <4>1. NextCall.call = "record" /\ EventOf(x) = NextCall.event /\ x.ticket = ticket
        BY <1>3, <2>2, <3>2 DEF KindOf, EventOf
      <4>2. reached[NextCall.event] \subseteq 1 .. recorded[NextCall.event]
        BY <1>2 DEF TicketInv, RecordsNumbered
      <4> QED BY <1>9, <4>1, <4>2
    <3> QED BY <1>1, <3>1, <3>2
  <2>3. ASSUME NEW x \in Work, KindOf(x) = "record", KindOf(new) = "record",
               EventOf(x) = EventOf(new)
        PROVE  x.ticket # ticket
    <3>1. x.ticket \in 1 .. recorded[NextCall.event] /\ NextCall.call = "record"
      BY <1>3, <2>3 DEF TicketInv, RecordsNumbered, KindOf, EventOf
    <3> QED BY <1>9, <3>1
  <2>4. \A x, y \in Work' :
            KindOf(x) = "record" /\ KindOf(y) = "record" /\ EventOf(x) = EventOf(y)
                /\ x.ticket = y.ticket => x = y
    BY <1>1, <1>3, <2>3 DEF TicketInv, RecordsNumbered
  <2> QED BY <1>2, <1>3, <2>1, <2>2, <2>4 DEF RecordsNumbered, KindOf, EventOf
<1>11. LatestIsLast'
  <2> SUFFICES ASSUME NEW x \in Work', LatestRecord(calls, x.at, EventOf(x), pc + 1)
               PROVE  x.ticket = recorded'[EventOf(x)]
    BY <1>3 DEF LatestIsLast, EventOf
  <2>1. CASE x = new
    <3>1. NextCall.call = "record" /\ EventOf(x) = NextCall.event /\ x.ticket = ticket
      BY <1>3, <2>1 DEF LatestRecord, EventOf
    <3> QED BY <1>9, <3>1
  <2>2. CASE x \in Work
    <3>1. pc \in x.at + 1 .. pc + 1 - 1 /\ x.at + 1 .. pc - 1 \subseteq x.at + 1 .. pc + 1 - 1
      BY <1>4, <2>2
    <3>2. ~(NextCall.call = "record" /\ EventOf(x) = NextCall.event)
      BY <3>1 DEF LatestRecord, NextCall
    <3>3. LatestRecord(calls, x.at, EventOf(x), pc)
      BY <3>1 DEF LatestRecord
    <3>4. x.ticket = recorded[EventOf(x)]
      BY <2>2, <3>3 DEF TicketInv, LatestIsLast
    <3> QED BY <1>4, <1>7, <2>2, <3>2, <3>4
  <2> QED BY <1>1, <2>1, <2>2
<1>12. WaitsForLatest'
  <2> SUFFICES ASSUME NEW x \in Work', NEW y \in Work', KindOf(x) = "wait", y.at < x.at,
                      LatestRecord(calls, y.at, EventOf(x), x.at)
               PROVE  y.ticket = x.ticket
    BY <1>3 DEF WaitsForLatest, KindOf, EventOf
  <2>1. CASE x \in Work /\ y \in Work
    BY <2>1 DEF TicketInv, WaitsForLatest
  <2>2. CASE x \in Work /\ y = new
    BY <1>3, <1>4, <2>2
  <2>3. CASE x = new /\ y \in Work
    <3>1. NextCall.call = "wait" /\ EventOf(x) = NextCall.event /\ x.ticket = ticket /\ x.at = pc
      BY <1>3, <2>3 DEF KindOf, EventOf
    <3>2. LatestRecord(calls, y.at, EventOf(y), pc) /\ EventOf(y) = NextCall.event
      BY <3>1 DEF LatestRecord, EventOf
    <3> QED BY <2>3, <3>1, <3>2 DEF TicketInv, LatestIsLast
  <2>4. CASE x = new /\ y = new
    BY <1>3, <1>4, <2>4
  <2> QED BY <1>1, <2>1, <2>2, <2>3, <2>4
<1> QED BY <1>5, <1>6, <1>10, <1>11, <1>12 DEF TicketInv

(* A call that is taken from its queue; the number of a record is then reached. *)
LEMMA TicketsAtDequeue ==
    ASSUME IInv, TicketInv, NEW s \in Streams, queue[s] # <<>>, Dequeue(s),
           UNCHANGED <<calls, pc, recorded>>,
           \/ reached' = reached
           \/ /\ HeadCall(s).call = "record"
              /\ reached' = [reached EXCEPT ![HeadCall(s).event] = @ \cup {Head(queue[s]).ticket}]
    PROVE  TicketInv'
<1> DEFINE head == Head(queue[s])
<1>1. /\ head \in Work /\ HeadCall(s) = calls[head.at]
      /\ Work' = Work \ {head} /\ \A t \in Streams : On(t)' \subseteq On(t)
  BY WorkTaken DEF TicketInv
<1>2. /\ calls' = calls /\ pc' = pc /\ recorded' = recorded /\ Events' = Events
      /\ reached \in [Events -> SUBSET Nat]
  BY EventsOfCalls DEF IInv, TypeOK
<1> HIDE DEF head
<1>3. OwnStream' /\ QueuedOnce' /\ LatestIsLast' /\ WaitsForLatest'
  BY <1>1, <1>2 DEF TicketInv, OwnStream, QueuedOnce, LatestIsLast, WaitsForLatest, KindOf, EventOf
<1>4. CASE reached' = reached
  BY <1>1, <1>2, <1>3, <1>4 DEF TicketInv, RecordsNumbered, KindOf, EventOf
<1>5. CASE /\ KindOf(head) = "record"
           /\ reached' = [reached EXCEPT ![EventOf(head)] = @ \cup {head.ticket}]
  <2>1. head.ticket \in 1 .. recorded[EventOf(head)] /\ EventOf(head) \in Events
    BY <1>1, <1>5, WorkTypes DEF TicketInv, RecordsNumbered
  <2>2. \A e \in Events : reached'[e] \subseteq 1 .. recorded[e]
    BY <1>2, <1>5, <2>1 DEF TicketInv, RecordsNumbered
  <2>3. ASSUME NEW x \in Work', KindOf(x) = "record"
        PROVE  x.ticket \in 1 .. recorded[EventOf(x)] /\ x.ticket \notin reached'[EventOf(x)]
    <3>1. x \in Work /\ x # head /\ EventOf(x) \in Events
      BY <1>1, WorkTypes
    <3>2. /\ x.ticket \in 1 .. recorded[EventOf(x)] /\ x.ticket \notin reached[EventOf(x)]
          /\ EventOf(x) = EventOf(head) => x.ticket # head.ticket
      BY <1>1, <1>5, <2>3, <3>1 DEF TicketInv, RecordsNumbered
    <3> QED BY <1>2, <1>5, <3>1, <3>2
  <2>4. RecordsNumbered'
    BY <1>1, <1>2, <2>2, <2>3 DEF TicketInv, RecordsNumbered, KindOf, EventOf
  <2> QED BY <1>3, <2>4 DEF TicketInv
<1> QED BY <1>1, <1>4, <1>5 DEF head, KindOf, EventOf

-----------------------------------------------------------------------------
(* What is directly before the head of a queue that can be executed is
   finished. *)
LEMMA HeadOrdered ==
    ASSUME IInv, TicketInv, NEW s \in Streams, CanStep(s)
    PROVE  Ordered(Head(queue[s]).at)
<1> DEFINE head == Head(queue[s])
           j == head.at
<1>1. /\ queue[s] # <<>> /\ head \in On(s) /\ head \in Work /\ HeadCall(s) = calls[j]
      /\ \A x \in On(s) : j <= x.at
  BY WorkTaken DEF CanStep, TicketInv
<1>2. KindOf(head) = "wait" => HasReached(EventOf(head), head.ticket)
  BY <1>1 DEF CanStep, HeadIs, KindOf, EventOf
<1>3. j \in Nat /\ j \in DOMAIN calls /\ j < pc /\ pc \in Nat
  BY <1>1, WorkTypes
<1> HIDE DEF head, j
<1> SUFFICES ASSUME NEW i \in DirectlyBefore(calls, j) PROVE Finished(i)
  BY DEF Ordered, head, j
<1>4. i \in Nat /\ i < j /\ i < pc
  BY <1>3 DEF DirectlyBefore
<1> SUFFICES ASSUME NEW x \in Work, x.at = i PROVE FALSE
  BY <1>4 DEF Finished
<1>5. PICK t \in Streams : x \in On(t)
  BY DEF Work
<1>6. calls[i].call \in StreamCalls /\ calls[i].on = t
  BY <1>5 DEF TicketInv, OwnStream, KindOf
<1>7. calls[j].call \in StreamCalls /\ calls[j].on = s
  BY <1>1 DEF TicketInv, OwnStream, KindOf, head, j
<1>8. CASE calls[i].on = calls[j].on
  <2>1. j <= i
    BY <1>1, <1>5, <1>6, <1>7, <1>8
  <2> QED BY <1>3, <1>4, <2>1
<1>9. CASE calls[j].call \in {"wait", "await"} /\ LatestRecord(calls, i, calls[j].event, j)
  <2>1. KindOf(head) = "wait" /\ EventOf(head) = calls[j].event
    BY <1>7, <1>9 DEF StreamCalls, DataCalls, KindOf, EventOf, j
  <2>2. x.ticket = head.ticket
    BY <1>1, <1>4, <1>9, <2>1 DEF TicketInv, WaitsForLatest, j
  <2>3. KindOf(x) = "record" /\ EventOf(x) = EventOf(head)
    BY <1>9, <2>1 DEF LatestRecord, KindOf, EventOf
  <2>4. x.ticket \in 1 .. recorded[EventOf(x)] /\ x.ticket \notin reached[EventOf(x)]
    BY <2>3 DEF TicketInv, RecordsNumbered
  <2>5. x.ticket # 0
    BY <2>4
  <2> QED BY <1>2, <2>1, <2>2, <2>3, <2>4, <2>5 DEF HasReached
<1> QED BY <1>6, <1>8, <1>9 DEF DirectlyBefore

(* What is directly before a call for which the host waits is finished, when the
   host goes on; so it is for the host's own computations, and at the end. *)
LEMMA HostOrdered ==
    ASSUME IInv, TicketInv,
           Running => /\ NextCall.call \notin StreamCalls
                      /\ NextCall.call = "sync" => queue[NextCall.on] = <<>>
                      /\ NextCall.call = "await" =>
                             HasReached(NextCall.event, recorded[NextCall.event])
    PROVE  Ordered(pc)
<1>1. pc \in Nat
  BY WorkTypes
<1> SUFFICES ASSUME NEW i \in DirectlyBefore(calls, pc) PROVE Finished(i)
  BY DEF Ordered
<1>2. i \in Nat /\ i < pc
  BY <1>1 DEF DirectlyBefore
<1> SUFFICES ASSUME NEW x \in Work, x.at = i PROVE FALSE
  BY <1>2 DEF Finished
<1>3. PICK t \in Streams : x \in On(t)
  BY DEF Work
<1>4. calls[i].call \in StreamCalls /\ calls[i].on = t
  BY <1>3 DEF TicketInv, OwnStream, KindOf
<1>5. CASE pc \in DOMAIN calls /\ calls[i].on = calls[pc].on /\ calls[pc].call = "sync"
  <2>1. queue[t] = <<>>
    BY <1>4, <1>5 DEF Running, NextCall
  <2> QED BY <1>3, <2>1 DEF On
<1>6. CASE /\ pc \in DOMAIN calls /\ calls[pc].call \in {"wait", "await"}
           /\ LatestRecord(calls, i, calls[pc].event, pc)
  <2>1. HasReached(calls[pc].event, recorded[calls[pc].event])
    BY <1>6 DEF Running, NextCall, StreamCalls
  <2>2. KindOf(x) = "record" /\ EventOf(x) = calls[pc].event
    BY <1>6 DEF LatestRecord, KindOf, EventOf
  <2>3. x.ticket = recorded[EventOf(x)]
    BY <1>6, <2>2 DEF TicketInv, LatestIsLast
  <2>4. x.ticket \in 1 .. recorded[EventOf(x)] /\ x.ticket \notin reached[EventOf(x)]
    BY <2>2 DEF TicketInv, RecordsNumbered
  <2>5. x.ticket # 0
    BY <2>4
  <2> QED BY <2>1, <2>2, <2>3, <2>4, <2>5 DEF HasReached
<1> QED BY <1>4, <1>5, <1>6 DEF DirectlyBefore, Running, NextCall

(* What is finished stays finished, and so what is ordered stays so. *)
LEMMA StaysFinished ==
    ASSUME IInv, calls' = calls, pc' \in Nat, pc <= pc',
           \A x \in Work' : x \in Work \/ x.at = pc
    PROVE  \A j : /\ \A i \in Nat : Finished(i) => Finished(i)'
                  /\ Ordered(j) => Ordered(j)'
<1>1. pc \in Nat
  BY WorkTypes
<1>2. ASSUME NEW i \in Nat, Finished(i) PROVE Finished(i)'
  <2>1. i < pc /\ \A x \in Work : x.at # i
    BY <1>2 DEF Finished
  <2>2. i < pc' /\ i # pc
    BY <1>1, <2>1
  <2> QED BY <2>1, <2>2 DEF Finished
<1>3. ASSUME NEW j, Ordered(j) PROVE Ordered(j)'
  <2> SUFFICES ASSUME NEW i \in DirectlyBefore(calls, j) PROVE Finished(i)'
    BY DEF Ordered
  <2>1. i \in 1 .. j - 1 /\ Finished(i)
    BY <1>3 DEF Ordered, DirectlyBefore
  <2>2. i \in Nat
    BY <2>1
  <2> QED BY <1>2, <2>1, <2>2
<1> QED BY <1>2, <1>3

(* A call of the host that goes to no stream: what it waits for is finished. *)
LEMMA OrderAtHostStep ==
    ASSUME OrderInv, Running, pc' = pc + 1, UNCHANGED <<calls, queue>>,
           NextCall.call \notin StreamCalls,
           NextCall.call = "sync" => queue[NextCall.on] = <<>>,
           NextCall.call = "await" => HasReached(NextCall.event, recorded[NextCall.event])
    PROVE  FinishedInOrder'
<1>1. pc \in Nat /\ Work' = Work
  BY WorkTypes DEF OrderInv, Work, On
<1>2. \A j : (\A i \in Nat : Finished(i) => Finished(i)') /\ (Ordered(j) => Ordered(j)')
  BY <1>1, StaysFinished DEF OrderInv
<1>3. Ordered(pc)
  BY HostOrdered DEF OrderInv
<1> SUFFICES ASSUME NEW j \in DOMAIN calls, Finished(j)' PROVE Ordered(j)'
  BY DEF FinishedInOrder
<1>4. j \in Nat
  BY WorkTypes DEF OrderInv
<1>5. Finished(j) \/ j = pc
  BY <1>1, <1>4 DEF Finished
<1> QED BY <1>2, <1>3, <1>5 DEF OrderInv, FinishedInOrder

(* A call that goes to a stream finishes nothing. *)
LEMMA OrderAtIssue ==
    ASSUME OrderInv, Running, NextCall.call \in StreamCalls,
           NEW ticket \in Nat, Enqueue(ticket), pc' = pc + 1, calls' = calls
    PROVE  FinishedInOrder'
<1>1. pc \in Nat /\ Work' = Work \cup {[at |-> pc, ticket |-> ticket]}
  BY WorkTypes, WorkIssued DEF OrderInv
<1>2. \A j : Ordered(j) => Ordered(j)'
  BY <1>1, StaysFinished DEF OrderInv
<1> SUFFICES ASSUME NEW j \in DOMAIN calls, Finished(j)' PROVE Ordered(j)'
  BY DEF FinishedInOrder
<1>3. j \in Nat
  BY WorkTypes DEF OrderInv
<1> DEFINE new == [at |-> pc, ticket |-> ticket]
<1>4. new \in Work' /\ new.at = pc /\ Work \subseteq Work'
  BY <1>1
<1>5. j # pc
  BY <1>4 DEF Finished
<1>6. Finished(j)
  BY <1>1, <1>3, <1>4, <1>5 DEF Finished
<1> QED BY <1>2, <1>6 DEF OrderInv, FinishedInOrder

(* A call that is executed is at the head of its queue. *)
LEMMA OrderAtDequeue ==
    ASSUME OrderInv, NEW s \in Streams, CanStep(s), Dequeue(s), UNCHANGED <<calls, pc>>
    PROVE  FinishedInOrder'
<1>1. pc \in Nat /\ Work' = Work \ {Head(queue[s])}
  BY WorkTypes, WorkTaken DEF OrderInv, TicketInv, CanStep
<1>2. \A j : Ordered(j) => Ordered(j)'
  BY <1>1, StaysFinished DEF OrderInv
<1>3. Ordered(Head(queue[s]).at)
  BY HeadOrdered DEF OrderInv
<1> SUFFICES ASSUME NEW j \in DOMAIN calls, Finished(j)' PROVE Ordered(j)'
  BY DEF FinishedInOrder
<1>4. Finished(j) \/ j = Head(queue[s]).at
  BY <1>1 DEF Finished
<1> QED BY <1>2, <1>3, <1>4 DEF OrderInv, FinishedInOrder

LEMMA OrderAtStart == ProgramsUseStreams /\ Init => OrderInv
<1> SUFFICES ASSUME ProgramsUseStreams, Init PROVE OrderInv
  OBVIOUS
<1>1. IInv
  BY InvariantAtStart
<1>2. \A s \in Streams : On(s) = {}
  BY DEF Init, On
<1>3. Work = {}
  BY <1>2 DEF Work
<1>4. \A e \in Events : reached[e] = {}
  BY DEF Init
<1>5. TicketInv
  BY <1>2, <1>3, <1>4
     DEF TicketInv, OwnStream, QueuedOnce, RecordsNumbered, LatestIsLast, WaitsForLatest
<1>6. pc = 1
  BY DEF Init
<1>7. FinishedInOrder
  <2>1. \A j \in DOMAIN calls : j >= 1 /\ j \in Nat
    BY <1>1, WorkTypes
  <2> QED BY <1>6, <2>1 DEF FinishedInOrder, Finished
<1> QED BY <1>1, <1>5, <1>7 DEF OrderInv

LEMMA OrderKept == OrderInv /\ [Next]_vars => OrderInv'
<1> SUFFICES ASSUME OrderInv, [Next]_vars PROVE OrderInv'
  OBVIOUS
<1>1. IInv /\ TicketInv /\ IInv'
  BY InvariantKept DEF OrderInv
<1>2. Running => NextCall.event \in Events
  BY DEF Running, NextCall, Events
<1>3. recorded \in [Events -> Nat]
  BY <1>1 DEF IInv, TypeOK
<1>4. CASE IssueData
  <2>1. /\ NextCall.call \in StreamCalls /\ NextCall.call # "record" /\ NextCall.call # "wait"
        /\ Running /\ Enqueue(0) /\ pc' = pc + 1 /\ UNCHANGED <<calls, recorded, reached>>
    BY <1>4 DEF IssueData, DataCalls, StreamCalls
  <2>2. TicketInv'
    BY <1>1, <2>1, TicketsAtIssue
  <2>3. FinishedInOrder'
    BY <2>1, OrderAtIssue
  <2> QED BY <1>1, <2>2, <2>3 DEF OrderInv
<1>5. CASE IssueRecord
  <2> DEFINE k == recorded[NextCall.event] + 1
  <2>1. /\ Running /\ NextCall.call = "record" /\ NextCall.call \in StreamCalls
        /\ recorded' = [recorded EXCEPT ![NextCall.event] = @ + 1]
        /\ Enqueue(k) /\ pc' = pc + 1 /\ UNCHANGED <<calls, reached>>
    BY <1>5 DEF IssueRecord, StreamCalls
  <2>2. k \in Nat
    BY <1>2, <1>3, <2>1
  <2>3. TicketInv'
    BY <1>1, <2>1, <2>2, TicketsAtIssue
  <2>4. FinishedInOrder'
    BY <2>1, <2>2, OrderAtIssue
  <2> QED BY <1>1, <2>3, <2>4 DEF OrderInv
<1>6. CASE IssueWait
  <2>1. /\ Running /\ NextCall.call = "wait" /\ NextCall.call \in StreamCalls
        /\ Enqueue(recorded[NextCall.event]) /\ pc' = pc + 1
        /\ UNCHANGED <<calls, recorded, reached>>
    BY <1>6 DEF IssueWait, StreamCalls
  <2>2. recorded[NextCall.event] \in Nat
    BY <1>2, <1>3, <2>1
  <2>3. TicketInv'
    BY <1>1, <2>1, <2>2, TicketsAtIssue
  <2>4. FinishedInOrder'
    BY <2>1, <2>2, OrderAtIssue
  <2> QED BY <1>1, <2>3, <2>4 DEF OrderInv
<1>7. CASE HostSynchronize \/ HostAwait \/ HostCompute
  <2>1. /\ Running /\ pc' = pc + 1 /\ UNCHANGED <<calls, queue, recorded, reached>>
        /\ NextCall.call \notin StreamCalls
        /\ NextCall.call = "sync" => queue[NextCall.on] = <<>>
        /\ NextCall.call = "await" => HasReached(NextCall.event, recorded[NextCall.event])
    BY <1>7 DEF HostSynchronize, HostAwait, HostCompute, StreamCalls, DataCalls
  <2>2. TicketInv'
    BY <1>1, <2>1, TicketsAtHostStep
  <2>3. FinishedInOrder'
    BY <2>1, OrderAtHostStep
  <2> QED BY <1>1, <2>2, <2>3 DEF OrderInv
<1>8. ASSUME NEW s \in Streams, Stream(s) PROVE OrderInv'
  <2>1. /\ CanStep(s) /\ queue[s] # <<>> /\ Dequeue(s) /\ UNCHANGED <<calls, pc, recorded>>
        /\ \/ reached' = reached
           \/ /\ HeadCall(s).call = "record"
              /\ reached' = [reached EXCEPT ![HeadCall(s).event] = @ \cup {Head(queue[s]).ticket}]
    BY <1>8 DEF Stream, Execute, ReachRecord, PassWait, CanStep, HeadIs, DataCalls
  <2>2. TicketInv'
    BY <1>1, <2>1, TicketsAtDequeue
  <2>3. FinishedInOrder'
    BY <2>1, OrderAtDequeue
  <2> QED BY <1>1, <2>2, <2>3 DEF OrderInv
<1>9. CASE UNCHANGED vars
  <2>1. Work' = Work /\ (\A s \in Streams : On(s)' = On(s))
    BY <1>9 DEF vars, Work, On
  <2>2. TicketInv'
    BY <1>1, <1>9, <2>1, EventsOfCalls
       DEF vars, TicketInv, OwnStream, QueuedOnce, RecordsNumbered, LatestIsLast,
           WaitsForLatest, KindOf, EventOf
  <2>3. FinishedInOrder'
    BY <1>9, <2>1 DEF vars, OrderInv, FinishedInOrder, Finished, Ordered
  <2> QED BY <1>1, <2>2, <2>3 DEF OrderInv
<1> QED BY <1>4, <1>5, <1>6, <1>7, <1>8, <1>9 DEF Next, Host, Done

-----------------------------------------------------------------------------
(* What FinishedBefore lists for a call is finished when what is directly
   before the call is. *)
FinishesBefore(before) ==
    /\ before \in [1 .. Len(calls) + 1 -> SUBSET DOMAIN calls]
    /\ \A j \in 1 .. Len(calls) + 1 : Ordered(j) => \A i \in before[j] : Finished(i)

LEMMA FunctionOfList ==
    ASSUME NEW n \in Nat, NEW S, NEW f \in [1 .. n -> S]
    PROVE  <<>> \o f = f
<1>1. f \in Seq(S)
  BY SeqDef
<1> QED BY <1>1, ConcatEmptySeq

LEMMA OneReasonFinishes == OrderInv => FinishesBefore(ForOneReason(calls))
<1> SUFFICES ASSUME OrderInv PROVE FinishesBefore(ForOneReason(calls))
  OBVIOUS
<1>1. Len(calls) + 1 \in Nat /\ Len(calls) \in Nat /\ DOMAIN calls = 1 .. Len(calls)
  BY WorkTypes DEF OrderInv
<1> DEFINE f == [j \in 1 .. Len(calls) + 1 |-> DirectlyBefore(calls, j)]
<1>2. \A j \in 1 .. Len(calls) + 1 : DirectlyBefore(calls, j) \subseteq DOMAIN calls
  <2>1. \A j \in 1 .. Len(calls) + 1 : 1 .. j - 1 \subseteq DOMAIN calls
    BY <1>1
  <2> QED BY <2>1 DEF DirectlyBefore
<1>3. f \in [1 .. Len(calls) + 1 -> SUBSET DOMAIN calls]
  BY <1>2
<1>4. ForOneReason(calls) = f
  BY <1>1, <1>3, FunctionOfList DEF ForOneReason
<1> QED BY <1>3, <1>4 DEF FinishesBefore, Ordered

LEMMA TwiceFinishes ==
    ASSUME OrderInv, NEW before, FinishesBefore(before)
    PROVE  FinishesBefore(ForTwice(before))
<1>1. Len(calls) + 1 \in Nat /\ Len(calls) \in Nat /\ DOMAIN calls = 1 .. Len(calls)
  BY WorkTypes DEF OrderInv
<1>2. /\ before \in [1 .. Len(calls) + 1 -> SUBSET DOMAIN calls]
      /\ \A j \in 1 .. Len(calls) + 1 : Ordered(j) => \A i \in before[j] : Finished(i)
  BY DEF FinishesBefore
<1> DEFINE f == [j \in 1 .. Len(calls) + 1 |-> before[j] \cup UNION {before[i] : i \in before[j]}]
<1>3. DOMAIN calls \subseteq 1 .. Len(calls) + 1
  BY <1>1
<1>4. f \in [1 .. Len(calls) + 1 -> SUBSET DOMAIN calls]
  <2> SUFFICES ASSUME NEW j \in 1 .. Len(calls) + 1, NEW i \in before[j]
               PROVE  before[j] \subseteq DOMAIN calls /\ before[i] \subseteq DOMAIN calls
    OBVIOUS
  <2> QED BY <1>2, <1>3
<1>5. ForTwice(before) = f
  <2>1. ForTwice(before) = <<>> \o f
    BY <1>2 DEF ForTwice
  <2> HIDE DEF f
  <2> QED BY <1>1, <1>4, <2>1, FunctionOfList
<1>6. ASSUME NEW j \in 1 .. Len(calls) + 1, Ordered(j), NEW i \in f[j] PROVE Finished(i)
  <2>1. CASE i \in before[j]
    BY <1>2, <1>6, <2>1
  <2>2. ASSUME NEW k \in before[j], i \in before[k] PROVE Finished(i)
    <3>1. k \in DOMAIN calls /\ Finished(k)
      BY <1>2, <1>6
    <3>2. Ordered(k)
      BY <3>1 DEF OrderInv, FinishedInOrder
    <3> QED BY <1>2, <1>3, <2>2, <3>1, <3>2
  <2> QED BY <1>6, <2>1, <2>2
<1> HIDE DEF f
<1> QED BY <1>4, <1>5, <1>6 DEF FinishesBefore

LEMMA AllFinishBefore ==
    ASSUME OrderInv
    PROVE  FinishesBefore(FinishedBefore(calls))
<1> DEFINE one == ForOneReason(calls)
           two == ForTwice(one)
           four == ForTwice(two)
<1>1. FinishesBefore(one)
  BY OneReasonFinishes
<1> HIDE DEF one
<1>2. FinishesBefore(two)
  BY <1>1, TwiceFinishes
<1> HIDE DEF two
<1>3. FinishesBefore(four)
  BY <1>2, TwiceFinishes
<1> HIDE DEF four
<1>4. FinishesBefore(ForTwice(four))
  BY <1>3, TwiceFinishes
<1> QED BY <1>4 DEF FinishedBefore, one, two, four

(* A call at the head of its queue, or one of the host, begins after those of
   the earlier calls that it conflicts with have finished. *)
LEMMA EarlierFinished ==
    ASSUME OrderInv, WellOrdered(calls), NEW j \in DOMAIN calls, Ordered(j), Touches(calls[j]),
           NEW x \in Work, x.at < j, Touches(calls[x.at])
    PROVE  ~Conflict(calls[x.at], calls[j])
<1> SUFFICES ASSUME Conflict(calls[x.at], calls[j]) PROVE FALSE
  OBVIOUS
<1>1. /\ x.at \in DOMAIN calls /\ DOMAIN calls = 1 .. Len(calls) /\ Len(calls) \in Nat
  BY WorkTypes DEF OrderInv
<1>2. x.at \in 1 .. j - 1 /\ j \in 1 .. Len(calls) + 1
  BY <1>1
<1>3. x.at \in FinishedBefore(calls)[j]
  BY <1>2 DEF WellOrdered
<1>4. Finished(x.at)
  BY <1>2, <1>3, AllFinishBefore DEF FinishesBefore
<1> QED BY <1>4 DEF Finished

LEMMA ConflictBothWays == \A a, b : Conflict(a, b) <=> Conflict(b, a)
BY DEF Conflict

LEMMA OrderedNoRace == OrderInv /\ WellOrdered(calls) => NoRace
<1> SUFFICES ASSUME OrderInv, WellOrdered(calls) PROVE NoRace
  OBVIOUS
<1>1. ASSUME NEW s \in Streams, Ready(s)
      PROVE  /\ Head(queue[s]) \in On(s) /\ Head(queue[s]) \in Work
             /\ Head(queue[s]).at \in DOMAIN calls /\ Head(queue[s]).at \in Nat
             /\ Head(queue[s]).at < pc
             /\ HeadCall(s) = calls[Head(queue[s]).at]
             /\ Touches(HeadCall(s)) /\ Ordered(Head(queue[s]).at)
             /\ HeadCall(s).on = s
  <2>1. queue[s] # <<>> /\ HeadCall(s).call \in DataCalls
    BY <1>1 DEF Ready, HeadIs
  <2>2. CanStep(s)
    BY <2>1 DEF CanStep, HeadIs, DataCalls
  <2>3. /\ Head(queue[s]) \in On(s) /\ Head(queue[s]) \in Work
        /\ HeadCall(s) = calls[Head(queue[s]).at]
    BY <2>1, WorkTaken DEF OrderInv, TicketInv
  <2>4. Ordered(Head(queue[s]).at)
    BY <2>2, HeadOrdered DEF OrderInv
  <2> QED BY <2>1, <2>3, <2>4, WorkTypes DEF OrderInv, TicketInv, OwnStream, Touches
<1>2. ASSUME NEW s \in Streams, NEW t \in Streams, s # t, Ready(s), Ready(t),
             Head(queue[s]).at <= Head(queue[t]).at
      PROVE  ~Conflict(HeadCall(s), HeadCall(t))
  <2>1. Head(queue[s]).at # Head(queue[t]).at
    BY <1>1, <1>2
  <2>2. Head(queue[s]).at < Head(queue[t]).at
    BY <1>1, <1>2, <2>1
  <2> QED BY <1>1, <1>2, <2>2, EarlierFinished
<1>3. ASSUME NEW s \in Streams, NEW t \in Streams, s # t, Ready(s), Ready(t)
      PROVE  ~Conflict(HeadCall(s), HeadCall(t))
  <2>1. Head(queue[s]).at \in Nat /\ Head(queue[t]).at \in Nat
    BY <1>1, <1>3
  <2>2. Head(queue[s]).at <= Head(queue[t]).at \/ Head(queue[t]).at <= Head(queue[s]).at
    BY <2>1
  <2> QED BY <1>2, <1>3, <2>2, ConflictBothWays
<1>4. ASSUME Running, NextCall.call = "host", NEW s \in Streams, Ready(s)
      PROVE  ~Conflict(HeadCall(s), NextCall)
  <2>1. Ordered(pc)
    BY <1>4, HostOrdered DEF OrderInv, StreamCalls, DataCalls
  <2>2. pc \in DOMAIN calls /\ NextCall = calls[pc] /\ Touches(NextCall)
    BY <1>4 DEF Running, NextCall, Touches
  <2> QED BY <1>1, <1>4, <2>1, <2>2, EarlierFinished
<1> QED BY <1>3, <1>4 DEF NoRace

LEMMA OrderedQuiescent == OrderInv /\ WellOrdered(calls) => ReturnsQuiescent
<1> SUFFICES ASSUME OrderInv, WellOrdered(calls), Returned,
                    NEW s \in Streams, queue[s] # <<>>
             PROVE  FALSE
  BY DEF ReturnsQuiescent, Idle
<1>1. /\ pc \in Nat /\ pc >= 1 /\ pc <= Len(calls) + 1
      /\ DOMAIN calls = 1 .. Len(calls) /\ Len(calls) \in Nat
  BY WorkTypes DEF OrderInv
<1>2. pc = Len(calls) + 1 /\ pc \in 1 .. Len(calls) + 1
  BY <1>1 DEF Returned, Running
<1>3. Ordered(pc)
  BY HostOrdered DEF OrderInv, Returned
<1>4. Head(queue[s]) \in Work
  BY WorkTaken DEF OrderInv, TicketInv
<1>5. Head(queue[s]).at \in DOMAIN calls
  BY <1>4, WorkTypes DEF OrderInv
<1>6. Head(queue[s]).at \in FinishedBefore(calls)[pc]
  BY <1>2, <1>5 DEF WellOrdered
<1>7. Finished(Head(queue[s]).at)
  BY <1>2, <1>3, <1>6, AllFinishBefore DEF FinishesBefore
<1> QED BY <1>4, <1>7 DEF Finished

(* What is asked of a program for the theorems below; StreamOrder says what it
   means, and RoutineOrdered is checked for every routine. *)
ProgramsOrdered == \A r \in Routines : WellOrdered(Program[r])

LEMMA OrderedThroughout == ASSUME ProgramsOrdered PROVE Spec => []WellOrdered(calls)
<1>1. Init => WellOrdered(calls)
  BY DEF ProgramsOrdered, Init
<1>2. WellOrdered(calls) /\ [Next]_vars => WellOrdered(calls)'
  <2>1. [Next]_vars => calls' = calls
    BY DEF Next, Host, IssueData, IssueRecord, IssueWait, HostSynchronize, HostAwait,
           HostCompute, Stream, Execute, ReachRecord, PassWait, Done, vars
  <2> QED BY <2>1
<1> QED BY <1>1, <1>2, PTL DEF Spec

(* No two operations on a buffer race, whatever the pace of the streams, in any
   routine whose events, waits and synchronizations order its conflicting calls
   (CUDA Imaging.cpp, WTiling.cpp, FFT.cpp and the hybrid routines): it suffices to
   read the order off the routine. *)
THEOREM OrderedNeverRace ==
    ASSUME ProgramsUseStreams, ProgramsOrdered PROVE Spec => []NoRace
<1>1. Init => OrderInv
  BY OrderAtStart
<1> QED BY <1>1, OrderKept, OrderedThroughout, OrderedNoRace, PTL DEF Spec

(* Such a routine returns with the device idle, so that its buffers can be
   destroyed. *)
THEOREM OrderedReturnIdle ==
    ASSUME ProgramsUseStreams, ProgramsOrdered PROVE Spec => []ReturnsQuiescent
<1>1. Init => OrderInv
  BY OrderAtStart
<1> QED BY <1>1, OrderKept, OrderedThroughout, OrderedQuiescent, PTL DEF Spec

-----------------------------------------------------------------------------
(* What is asked of contents: they are functions, of all buffers that calls
   name. *)
ProgramsNameBuffers ==
    \A r \in Routines :
        /\ Content[r] = [b \in DOMAIN Content[r] |-> Content[r][b]]
        /\ NamesBuffers(Program[r], Content[r])

(* The contents of the buffers after the first n calls of a program, executed
   one by one. *)
StepOf(P, n, m) == IF Touches(P[n]) THEN Effect(P[n], m) ELSE m
IsCourse(f, P, content, last) ==
    /\ f = [n \in 0 .. last |-> f[n]]
    /\ f[0] = content
    /\ \A n \in 1 .. last : f[n] = StepOf(P, n, f[n - 1])
Course(P, content) == CHOOSE f : IsCourse(f, P, content, Len(P))

LEMMA CourseExists ==
    ASSUME NEW P, NEW content, Len(P) \in Nat
    PROVE  IsCourse(Course(P, content), P, content, Len(P))
<1> DEFINE Missing == {n \in Nat : ~\E f : IsCourse(f, P, content, n)}
<1>1. 0 \notin Missing
  <2> DEFINE f == [n \in 0 .. 0 |-> content]
  <2>1. IsCourse(f, P, content, 0)
    BY DEF IsCourse
  <2> QED BY <2>1
<1>2. Missing = {}
  <2> SUFFICES ASSUME Missing # {} PROVE FALSE
    OBVIOUS
  <2>1. Missing \in SUBSET Nat
    OBVIOUS
  <2>2. PICK n \in Missing : \A m \in Missing : n <= m
    <3> HIDE DEF Missing
    <3> QED BY <2>1, Least
  <2>3. n \in Nat /\ n # 0 /\ n - 1 \in Nat /\ n - 1 \notin Missing
    BY <1>1, <2>2
  <2>4. PICK g : IsCourse(g, P, content, n - 1)
    BY <2>3
  <2> DEFINE f == [k \in 0 .. n |-> IF k = n THEN StepOf(P, n, g[n - 1]) ELSE g[k]]
  <2>5. f[0] = content
    BY <2>3, <2>4 DEF IsCourse
  <2>6. ASSUME NEW k \in 1 .. n PROVE f[k] = StepOf(P, k, f[k - 1])
    <3>1. f[k - 1] = g[k - 1]
      BY <2>3
    <3>2. CASE k = n
      BY <3>1, <3>2, <2>3
    <3>3. CASE k # n
      <4>1. k \in 1 .. n - 1 /\ f[k] = g[k]
        BY <2>3, <3>3
      <4> QED BY <2>4, <3>1, <4>1 DEF IsCourse
    <3> QED BY <3>2, <3>3
  <2>7. f = [k \in 0 .. n |-> f[k]]
    OBVIOUS
  <2>8. IsCourse(f, P, content, n)
    BY ONLY <2>5, <2>6, <2>7 DEF IsCourse
  <2> QED BY <2>2, <2>8
<1>3. \E f : IsCourse(f, P, content, Len(P))
  BY <1>2
<1> QED BY <1>3 DEF Course

(* What a call leaves in a buffer depends on the buffers it reads, and it
   leaves the others alone. *)
LEMMA EffectOf ==
    ASSUME NEW D, NEW m, m = [b \in D |-> m[b]], NEW call, {call.to} \subseteq D,
           call.call = "move" => call.from \in D
    PROVE  /\ DOMAIN Effect(call, m) = D
           /\ Effect(call, m) = [b \in D |-> Effect(call, m)[b]]
           /\ \A b \in D \ Writes(call) : Effect(call, m)[b] = m[b]
           /\ Effect(call, m)[call.to] =
                  IF call.add THEN m[call.to] \o Contributions(call, m)
                  ELSE Contributions(call, m)
           /\ call.call = "move" /\ call.from # call.to => Effect(call, m)[call.from] = <<>>
BY DEF Effect, Writes

LEMMA EffectAgrees ==
    ASSUME NEW D, NEW m, m = [b \in D |-> m[b]], NEW n, n = [b \in D |-> n[b]], NEW call,
           {call.to} \cup call.with \subseteq D, call.call # "zero" => call.from \in D,
           NoBuffer \notin D, \A b \in D : b \in Reads(call) \cup Writes(call) => m[b] = n[b],
           NEW b \in Writes(call)
    PROVE  Effect(call, m)[b] = Effect(call, n)[b]
<1>1. m[call.to] = n[call.to]
  BY DEF Writes
<1>2. call.call # "zero" => m[call.from] = n[call.from]
  BY DEF Reads
<1>3. \A c \in call.with : m[c] = n[c]
  BY DEF Reads
<1>4. Sources(call, m) = Sources(call, n)
  BY <1>3 DEF Sources
<1>5. Contributions(call, m) = Contributions(call, n)
  BY <1>2, <1>4 DEF Contributions
<1>6. CASE b = call.to
  BY <1>1, <1>5, <1>6, EffectOf
<1>7. CASE b # call.to
  <2>1. call.call = "move" /\ b = call.from
    BY <1>7 DEF Writes
  <2> QED BY <1>7, <2>1, EffectOf
<1> QED BY <1>6, <1>7

-----------------------------------------------------------------------------
course == Course(calls, Content[routine])
Buffers == DOMAIN Content[routine]

(* The calls that write buffer b and are finished are the first k of those
   that write it. *)
Writing(i, b) == Touches(calls[i]) /\ b \in Writes(calls[i])
WrittenTo(b, k) == \A i \in DOMAIN calls : Writing(i, b) => (Finished(i) <=> i <= k)

ProgramGiven ==
    /\ Content[routine] = [b \in Buffers |-> Content[routine][b]]
    /\ WellOrdered(calls) /\ NamesBuffers(calls, Content[routine])

(* A buffer holds what it would hold after those, executed in order. *)
ContentInv ==
    /\ ProgramGiven
    /\ mem = [b \in Buffers |-> mem[b]]
    /\ inOrder = course[pc - 1]
    /\ \A b \in Buffers : \A k \in 0 .. Len(calls) : WrittenTo(b, k) => mem[b] = course[k][b]

LEMMA CourseSteps ==
    ASSUME OrderInv, ProgramGiven
    PROVE  /\ course[0] = Content[routine]
           /\ \A n \in DOMAIN calls : course[n] = StepOf(calls, n, course[n - 1])
           /\ \A n \in 0 .. Len(calls) : course[n] = [b \in Buffers |-> course[n][b]]
<1>1. Len(calls) \in Nat /\ DOMAIN calls = 1 .. Len(calls)
  BY WorkTypes DEF OrderInv
<1>2. IsCourse(course, calls, Content[routine], Len(calls))
  BY <1>1, CourseExists DEF course
<1>3. /\ course[0] = Content[routine]
      /\ \A n \in DOMAIN calls : course[n] = StepOf(calls, n, course[n - 1])
  BY <1>1, <1>2 DEF IsCourse
<1> DEFINE Wrong == {n \in 0 .. Len(calls) : course[n] # [b \in Buffers |-> course[n][b]]}
<1>4. Wrong = {}
  <2> SUFFICES ASSUME Wrong # {} PROVE FALSE
    OBVIOUS
  <2>1. Wrong \in SUBSET Nat
    BY <1>1
  <2>2. PICK n \in Wrong : \A m \in Wrong : n <= m
    <3> HIDE DEF Wrong
    <3> QED BY <2>1, Least
  <2>3. n # 0
    BY <1>3, <2>2 DEF ProgramGiven
  <2>4. n \in DOMAIN calls /\ n - 1 \in 0 .. Len(calls) /\ n - 1 \notin Wrong
    BY <1>1, <2>2, <2>3
  <2>5. course[n - 1] = [b \in Buffers |-> course[n - 1][b]]
    BY <2>4
  <2>6. CASE Touches(calls[n])
    <3>1. {calls[n].to} \subseteq Buffers /\ (calls[n].call = "move" => calls[n].from \in Buffers)
      BY <2>4, <2>6 DEF ProgramGiven, NamesBuffers, Buffers
    <3>2. course[n] = Effect(calls[n], course[n - 1])
      BY <1>3, <2>4, <2>6 DEF StepOf
    <3>3. Effect(calls[n], course[n - 1]) = [b \in Buffers |-> Effect(calls[n], course[n - 1])[b]]
      BY <2>5, <3>1, EffectOf
    <3> QED BY <2>2, <3>2, <3>3
  <2>7. CASE ~Touches(calls[n])
    <3>1. course[n] = course[n - 1]
      BY <1>3, <2>4, <2>7 DEF StepOf
    <3> QED BY <2>2, <2>5, <3>1
  <2> QED BY <2>6, <2>7
<1> QED BY <1>3, <1>4

(* As long as no call writes a buffer, the course leaves it alone. *)
LEMMA CourseUnwritten ==
    ASSUME OrderInv, ProgramGiven, NEW b \in Buffers,
           NEW j \in 0 .. Len(calls), NEW k \in 0 .. Len(calls), j <= k,
           \A i \in j + 1 .. k : ~Writing(i, b)
    PROVE  course[k][b] = course[j][b]
<1>1. Len(calls) \in Nat /\ DOMAIN calls = 1 .. Len(calls)
  BY WorkTypes DEF OrderInv
<1> DEFINE Wrong == {n \in j .. k : course[n][b] # course[j][b]}
<1>2. Wrong = {}
  <2> SUFFICES ASSUME Wrong # {} PROVE FALSE
    OBVIOUS
  <2>1. Wrong \in SUBSET Nat
    BY <1>1
  <2>2. PICK n \in Wrong : \A m \in Wrong : n <= m
    <3> HIDE DEF Wrong
    <3> QED BY <2>1, Least
  <2>3. n # j /\ n \in j .. k
    BY <2>2
  <2>4. n \in DOMAIN calls /\ n - 1 \in j .. k /\ n \in j + 1 .. k /\ n - 1 \in 0 .. Len(calls)
    BY <1>1, <2>3
  <2>5. n - 1 \notin Wrong
    BY <2>2, <2>4
  <2>6. course[n - 1][b] = course[j][b]
    BY <2>4, <2>5
  <2>7. ~Writing(n, b)
    BY <2>4
  <2>8. course[n][b] = course[n - 1][b]
    <3>1. CASE Touches(calls[n])
      <4>1. b \notin Writes(calls[n])
        BY <2>7, <3>1 DEF Writing
      <4>2. {calls[n].to} \subseteq Buffers /\ (calls[n].call = "move" => calls[n].from \in Buffers)
        BY <2>4, <3>1 DEF ProgramGiven, NamesBuffers, Buffers
      <4>3. course[n] = Effect(calls[n], course[n - 1])
        BY <2>4, <3>1, CourseSteps DEF StepOf
      <4>4. course[n - 1] = [c \in Buffers |-> course[n - 1][c]]
        BY <2>4, CourseSteps
      <4> QED BY <4>1, <4>2, <4>3, <4>4, EffectOf
    <3>2. CASE ~Touches(calls[n])
      BY <2>4, <3>2, CourseSteps DEF StepOf
    <3> QED BY <3>1, <3>2
  <2> QED BY <2>2, <2>6, <2>8
<1>3. k \in j .. k
  OBVIOUS
<1> QED BY <1>2, <1>3

-----------------------------------------------------------------------------
(* When a call is executed, those before it that conflict with it have
   finished, and those after it have not. *)
LEMMA ConflictsInOrder ==
    ASSUME OrderInv, WellOrdered(calls), NEW j \in DOMAIN calls, Touches(calls[j]),
           Ordered(j), ~Finished(j),
           NEW i \in DOMAIN calls, Touches(calls[i]), Conflict(calls[i], calls[j]), i # j
    PROVE  Finished(i) <=> i < j
<1>1. DOMAIN calls = 1 .. Len(calls) /\ Len(calls) \in Nat
  BY WorkTypes DEF OrderInv
<1>2. /\ FinishesBefore(FinishedBefore(calls)) /\ Conflict(calls[j], calls[i])
      /\ j \in 1 .. Len(calls) + 1 /\ i \in 1 .. Len(calls) + 1
  BY <1>1, AllFinishBefore, ConflictBothWays
<1>3. CASE i < j
  <2>1. i \in 1 .. j - 1
    BY <1>1, <1>3
  <2>2. i \in FinishedBefore(calls)[j]
    BY <2>1 DEF WellOrdered
  <2> QED BY <1>2, <1>3, <2>2 DEF FinishesBefore
<1>4. CASE j < i
  <2>1. j \in 1 .. i - 1
    BY <1>1, <1>4
  <2>2. j \in FinishedBefore(calls)[i]
    BY <1>2, <2>1 DEF WellOrdered
  <2>3. Finished(i) => Ordered(i)
    BY DEF OrderInv, FinishedInOrder
  <2>4. ~Finished(i)
    BY <1>2, <2>2, <2>3 DEF FinishesBefore
  <2>5. ~(i < j)
    BY <1>1, <1>4
  <2> QED BY <2>4, <2>5
<1> QED BY <1>1, <1>3, <1>4

(* So the buffers it touches hold what they would hold in order. *)
LEMMA TouchesInOrder ==
    ASSUME OrderInv, ContentInv, NEW j \in DOMAIN calls, Touches(calls[j]),
           Ordered(j), ~Finished(j)
    PROVE  /\ \A b \in Buffers :
                  b \in Reads(calls[j]) \cup Writes(calls[j]) => mem[b] = course[j - 1][b]
           /\ \A b \in Writes(calls[j]) : Effect(calls[j], mem)[b] = course[j][b]
<1>1. DOMAIN calls = 1 .. Len(calls) /\ Len(calls) \in Nat
  BY WorkTypes DEF OrderInv
<1>2. ProgramGiven /\ mem = [b \in Buffers |-> mem[b]] /\ j - 1 \in 0 .. Len(calls)
  BY <1>1 DEF ContentInv
<1>3. ASSUME NEW b \in Buffers, b \in Reads(calls[j]) \cup Writes(calls[j])
      PROVE  mem[b] = course[j - 1][b]
  <2>1. ASSUME NEW i \in DOMAIN calls, Writing(i, b) PROVE Finished(i) <=> i <= j - 1
    <3>1. CASE i = j
      BY <1>1, <3>1
    <3>2. CASE i # j
      <4>1. Conflict(calls[i], calls[j]) /\ Touches(calls[i])
        BY <1>3, <2>1 DEF Conflict, Writing
      <4>2. Finished(i) <=> i < j
        BY <1>2, <3>2, <4>1, ConflictsInOrder DEF ProgramGiven
      <4> QED BY <1>1, <4>2
    <3> QED BY <3>1, <3>2
  <2>2. WrittenTo(b, j - 1)
    BY <2>1 DEF WrittenTo
  <2> QED BY <1>2, <2>2 DEF ContentInv
<1>4. /\ {calls[j].to} \cup calls[j].with \subseteq Buffers
      /\ calls[j].call # "zero" => calls[j].from \in Buffers
      /\ NoBuffer \notin Buffers
  BY <1>2 DEF ProgramGiven, NamesBuffers, Buffers
<1>5. /\ course[j - 1] = [b \in Buffers |-> course[j - 1][b]]
      /\ course[j] = Effect(calls[j], course[j - 1])
  BY <1>2, CourseSteps DEF StepOf
<1>6. ASSUME NEW b \in Writes(calls[j]) PROVE Effect(calls[j], mem)[b] = course[j][b]
  <2> DEFINE before == course[j - 1]
             call == calls[j]
  <2>1. /\ before = [c \in Buffers |-> before[c]]
        /\ \A c \in Buffers : c \in Reads(call) \cup Writes(call) => mem[c] = before[c]
        /\ {call.to} \cup call.with \subseteq Buffers
        /\ call.call # "zero" => call.from \in Buffers
        /\ b \in Writes(call) /\ course[j] = Effect(call, before)
    BY <1>3, <1>4, <1>5
  <2> HIDE DEF before, call
  <2>2. Effect(call, mem)[b] = Effect(call, before)[b]
    BY ONLY <1>2, <1>4, <2>1, EffectAgrees
  <2> QED BY <2>1, <2>2 DEF call
<1> QED BY <1>3, <1>6

(* A call is executed: it finishes, and no other. *)
LEMMA ContentAtExecute ==
    ASSUME OrderInv, ContentInv, NEW j \in DOMAIN calls, Touches(calls[j]),
           Ordered(j), ~Finished(j), mem' = Effect(calls[j], mem),
           UNCHANGED <<routine, calls>>, inOrder' = course[pc' - 1],
           \A i \in DOMAIN calls : Finished(i)' <=> Finished(i) \/ i = j
    PROVE  ContentInv'
<1>1. DOMAIN calls = 1 .. Len(calls) /\ Len(calls) \in Nat
  BY WorkTypes DEF OrderInv
<1>2. /\ ProgramGiven /\ mem = [b \in Buffers |-> mem[b]] /\ j \in 0 .. Len(calls)
      /\ \A b \in Buffers : \A k \in 0 .. Len(calls) : WrittenTo(b, k) => mem[b] = course[k][b]
  BY <1>1 DEF ContentInv
<1>3. course' = course /\ Buffers' = Buffers /\ ProgramGiven'
  BY <1>2 DEF course, Buffers, ProgramGiven
<1>4. /\ {calls[j].to} \subseteq Buffers
      /\ calls[j].call = "move" => calls[j].from \in Buffers
  BY <1>2 DEF ProgramGiven, NamesBuffers, Buffers
<1>5. /\ mem' = [b \in Buffers |-> mem'[b]]
      /\ \A b \in Buffers \ Writes(calls[j]) : mem'[b] = mem[b]
  BY <1>2, <1>4, EffectOf
<1>6. ASSUME NEW b \in Buffers, NEW k \in 0 .. Len(calls), WrittenTo(b, k)'
      PROVE  mem'[b] = course[k][b]
  <2>1. \A i \in DOMAIN calls : Writing(i, b) => (Finished(i)' <=> i <= k)
    BY <1>6 DEF WrittenTo, Writing
  <2>2. CASE b \in Writes(calls[j])
    <3>1. j <= k
      BY <2>1, <2>2 DEF Writing
    <3>2. ASSUME NEW i \in j + 1 .. k PROVE ~Writing(i, b)
      <4>1. i \in DOMAIN calls /\ i # j /\ ~(i < j) /\ i <= k
        BY <1>1
      <4> SUFFICES ASSUME Writing(i, b) PROVE FALSE
        OBVIOUS
      <4>2. Finished(i)
        BY <2>1, <4>1
      <4>3. Conflict(calls[i], calls[j]) /\ Touches(calls[i])
        BY <2>2 DEF Conflict, Writing
      <4> QED BY <1>2, <4>1, <4>2, <4>3, ConflictsInOrder DEF ProgramGiven
    <3>3. course[k][b] = course[j][b]
      BY <1>2, <3>1, <3>2, CourseUnwritten
    <3> QED BY <2>2, <3>3, TouchesInOrder
  <2>3. CASE b \notin Writes(calls[j])
    <3>1. WrittenTo(b, k)
      BY <2>1, <2>3 DEF WrittenTo, Writing
    <3> QED BY <1>2, <1>5, <2>3, <3>1
  <2> QED BY <2>2, <2>3
<1>7. \A b \in Buffers : \A k \in 0 .. Len(calls) : WrittenTo(b, k)' => mem'[b] = course[k][b]
  BY <1>6
<1>8. inOrder' = course'[pc' - 1]
  BY <1>3
<1> QED BY <1>3, <1>5, <1>7, <1>8 DEF ContentInv

(* No call that touches buffers is executed. *)
LEMMA ContentAtOtherStep ==
    ASSUME OrderInv, ContentInv, UNCHANGED <<routine, calls, mem>>, inOrder' = course[pc' - 1],
           \A i \in DOMAIN calls : Touches(calls[i]) => (Finished(i)' <=> Finished(i))
    PROVE  ContentInv'
<1>1. course' = course /\ Buffers' = Buffers /\ ProgramGiven'
  BY DEF ContentInv, course, Buffers, ProgramGiven
<1>2. ASSUME NEW b \in Buffers, NEW k \in 0 .. Len(calls), WrittenTo(b, k)'
      PROVE  mem[b] = course[k][b]
  <2>1. WrittenTo(b, k)
    BY <1>2 DEF WrittenTo, Writing
  <2> QED BY <2>1 DEF ContentInv
<1>3. \A b \in Buffers : \A k \in 0 .. Len(calls) : WrittenTo(b, k)' => mem[b] = course[k][b]
  BY <1>2
<1>4. inOrder' = course'[pc' - 1] /\ mem' = [b \in Buffers |-> mem'[b]]
  BY <1>1 DEF ContentInv
<1> QED BY <1>1, <1>3, <1>4 DEF ContentInv

(* How the steps finish calls: issuing a call finishes none, a call of the host
   finishes when the host goes on, and the head of a queue when it is taken. *)
LEMMA FinishedAtIssue ==
    ASSUME OrderInv, Running, NextCall.call \in StreamCalls,
           NEW ticket \in Nat, Enqueue(ticket), pc' = pc + 1, calls' = calls
    PROVE  \A i \in DOMAIN calls : Finished(i)' <=> Finished(i)
<1> DEFINE new == [at |-> pc, ticket |-> ticket]
<1>1. pc \in Nat /\ Work' = Work \cup {new} /\ new.at = pc /\ new \in Work'
  BY WorkTypes, WorkIssued DEF OrderInv
<1>2. \A i \in DOMAIN calls : i \in Nat
  BY WorkTypes DEF OrderInv
<1> HIDE DEF new
<1> SUFFICES ASSUME NEW i \in DOMAIN calls PROVE Finished(i)' <=> Finished(i)
  OBVIOUS
<1>3. CASE i = pc
  BY <1>1, <1>3 DEF Finished
<1>4. CASE i # pc
  BY <1>1, <1>2, <1>4 DEF Finished
<1> QED BY <1>3, <1>4

LEMMA FinishedAtHostStep ==
    ASSUME OrderInv, Running, pc' = pc + 1, UNCHANGED <<calls, queue>>
    PROVE  /\ \A i \in DOMAIN calls : Finished(i)' <=> Finished(i) \/ i = pc
           /\ ~Finished(pc)
<1>1. pc \in Nat /\ Work' = Work /\ \A x \in Work : x.at < pc /\ x.at \in Nat
  BY WorkTypes DEF OrderInv, Work, On
<1>2. \A i \in DOMAIN calls : i \in Nat
  BY WorkTypes DEF OrderInv
<1> QED BY <1>1, <1>2 DEF Finished

LEMMA FinishedAtDequeue ==
    ASSUME OrderInv, NEW s \in Streams, queue[s] # <<>>, Dequeue(s), UNCHANGED <<calls, pc>>
    PROVE  /\ Head(queue[s]).at \in DOMAIN calls /\ HeadCall(s) = calls[Head(queue[s]).at]
           /\ \A i \in DOMAIN calls : Finished(i)' <=> Finished(i) \/ i = Head(queue[s]).at
           /\ ~Finished(Head(queue[s]).at)
<1> DEFINE head == Head(queue[s])
<1>1. head \in Work /\ Work' = Work \ {head} /\ HeadCall(s) = calls[head.at]
  BY WorkTaken DEF OrderInv, TicketInv
<1>2. head.at \in DOMAIN calls /\ head.at < pc
  BY <1>1, WorkTypes DEF OrderInv
<1>3. \A x \in Work : x.at = head.at => x = head
  BY <1>1 DEF OrderInv, TicketInv, QueuedOnce
<1> HIDE DEF head
<1>4. \A i \in DOMAIN calls : Finished(i)' <=> Finished(i) \/ i = head.at
  BY <1>1, <1>2, <1>3 DEF Finished
<1>5. ~Finished(head.at)
  BY <1>1 DEF Finished
<1> QED BY <1>1, <1>2, <1>4, <1>5 DEF head

LEMMA ContentAtStart ==
    ASSUME ProgramsUseStreams, ProgramsOrdered, ProgramsNameBuffers, Init
    PROVE  ContentInv
<1>1. OrderInv
  BY OrderAtStart
<1>2. /\ routine \in Routines /\ calls = Program[routine] /\ pc = 1
      /\ mem = Content[routine] /\ inOrder = Content[routine]
  BY DEF Init
<1>3. ProgramGiven
  BY <1>2 DEF ProgramsOrdered, ProgramsNameBuffers, ProgramGiven, Buffers
<1>4. course[0] = Content[routine]
  BY <1>1, <1>3, CourseSteps
<1>5. DOMAIN calls = 1 .. Len(calls) /\ Len(calls) \in Nat
  BY <1>1, WorkTypes DEF OrderInv
<1>6. ASSUME NEW b \in Buffers, NEW k \in 0 .. Len(calls), WrittenTo(b, k)
      PROVE  mem[b] = course[k][b]
  <2>1. \A i \in DOMAIN calls : ~Finished(i)
    BY <1>2, <1>5 DEF Finished
  <2>2. ASSUME NEW i \in 0 + 1 .. k PROVE ~Writing(i, b)
    <3>1. i \in DOMAIN calls /\ i <= k
      BY <1>5
    <3> QED BY <1>6, <2>1, <3>1 DEF WrittenTo
  <2>3. 0 \in 0 .. Len(calls) /\ 0 <= k
    BY <1>5
  <2>4. course[k][b] = course[0][b]
    BY <1>1, <1>3, <2>2, <2>3, CourseUnwritten
  <2> QED BY <1>2, <1>4, <2>4
<1>7. mem = [b \in Buffers |-> mem[b]]
  BY <1>2, <1>3 DEF ProgramGiven
<1>8. inOrder = course[pc - 1]
  BY <1>2, <1>4
<1> QED BY <1>3, <1>6, <1>7, <1>8 DEF ContentInv

LEMMA ContentKept == OrderInv /\ ContentInv /\ [Next]_vars => ContentInv'
<1> SUFFICES ASSUME OrderInv, ContentInv, [Next]_vars PROVE ContentInv'
  OBVIOUS
<1>1. IInv /\ TicketInv /\ ProgramGiven /\ inOrder = course[pc - 1]
  BY DEF OrderInv, ContentInv
<1>2. /\ pc \in Nat /\ DOMAIN calls = 1 .. Len(calls) /\ Len(calls) \in Nat
      /\ recorded \in [Events -> Nat]
  BY <1>1, WorkTypes DEF IInv, TypeOK
<1>3. ASSUME Running, pc' = pc + 1
      PROVE  /\ pc \in DOMAIN calls /\ NextCall = calls[pc] /\ NextCall.event \in Events
             /\ course[pc' - 1] = StepOf(calls, pc, inOrder)
  <2>1. pc \in DOMAIN calls /\ pc' - 1 = pc
    BY <1>2, <1>3 DEF Running
  <2>2. course[pc] = StepOf(calls, pc, course[pc - 1])
    BY <1>1, <2>1, CourseSteps
  <2> QED BY <1>1, <2>1, <2>2 DEF NextCall, Events
<1>4. CASE IssueData
  <2>1. /\ Running /\ NextCall.call \in DataCalls /\ NextCall.call \in StreamCalls
        /\ Enqueue(0) /\ pc' = pc + 1 /\ inOrder' = Effect(NextCall, inOrder)
        /\ UNCHANGED <<routine, calls, mem>>
    BY <1>4 DEF IssueData, StreamCalls
  <2>2. inOrder' = course[pc' - 1]
    BY <1>3, <2>1 DEF StepOf, Touches
  <2>3. \A i \in DOMAIN calls : Finished(i)' <=> Finished(i)
    BY <2>1, FinishedAtIssue
  <2> QED BY <2>1, <2>2, <2>3, ContentAtOtherStep
<1>5. CASE IssueRecord \/ IssueWait
  <2>1. /\ Running /\ NextCall.call \in {"record", "wait"} /\ NextCall.call \in StreamCalls
        /\ Enqueue(recorded[NextCall.event] + 1) \/ Enqueue(recorded[NextCall.event])
        /\ pc' = pc + 1 /\ UNCHANGED <<routine, calls, mem, inOrder>>
    BY <1>5 DEF IssueRecord, IssueWait, StreamCalls
  <2>2. recorded[NextCall.event] \in Nat /\ recorded[NextCall.event] + 1 \in Nat
    BY <1>2, <1>3, <2>1
  <2>3. inOrder' = course[pc' - 1]
    BY <1>3, <2>1 DEF StepOf, Touches, DataCalls
  <2>4. \A i \in DOMAIN calls : Finished(i)' <=> Finished(i)
    BY <2>1, <2>2, FinishedAtIssue
  <2> QED BY <2>1, <2>3, <2>4, ContentAtOtherStep
<1>6. CASE HostSynchronize \/ HostAwait
  <2>1. /\ Running /\ NextCall.call \in {"sync", "await"} /\ pc' = pc + 1
        /\ UNCHANGED <<routine, calls, queue, mem, inOrder>>
    BY <1>6 DEF HostSynchronize, HostAwait
  <2>2. inOrder' = course[pc' - 1]
    BY <1>3, <2>1 DEF StepOf, Touches, DataCalls
  <2>3. \A i \in DOMAIN calls : Finished(i)' <=> Finished(i) \/ i = pc
    BY <2>1, FinishedAtHostStep
  <2>4. ~Touches(calls[pc])
    BY <1>3, <2>1 DEF Touches, DataCalls
  <2> QED BY <2>1, <2>2, <2>3, <2>4, ContentAtOtherStep
<1>7. CASE HostCompute
  <2>1. /\ Running /\ NextCall.call = "host" /\ pc' = pc + 1 /\ mem' = Effect(NextCall, mem)
        /\ inOrder' = Effect(NextCall, inOrder) /\ UNCHANGED <<routine, calls, queue>>
    BY <1>7 DEF HostCompute
  <2>2. pc \in DOMAIN calls /\ NextCall = calls[pc] /\ Touches(calls[pc])
    BY <1>3, <2>1 DEF Touches
  <2>3. inOrder' = course[pc' - 1]
    BY <1>3, <2>1, <2>2 DEF StepOf
  <2>4. /\ \A i \in DOMAIN calls : Finished(i)' <=> Finished(i) \/ i = pc
        /\ ~Finished(pc)
    BY <2>1, FinishedAtHostStep
  <2>5. Ordered(pc)
    BY <1>1, <2>1, HostOrdered DEF StreamCalls, DataCalls
  <2> QED BY <2>1, <2>2, <2>3, <2>4, <2>5, ContentAtExecute
<1>8. ASSUME NEW s \in Streams, Execute(s) PROVE ContentInv'
  <2>1. /\ queue[s] # <<>> /\ HeadCall(s).call \in DataCalls /\ CanStep(s)
        /\ mem' = Effect(HeadCall(s), mem) /\ Dequeue(s)
        /\ UNCHANGED <<routine, calls, pc, inOrder>>
    BY <1>8 DEF Execute, HeadIs, CanStep, DataCalls
  <2>2. /\ Head(queue[s]).at \in DOMAIN calls /\ HeadCall(s) = calls[Head(queue[s]).at]
        /\ \A i \in DOMAIN calls : Finished(i)' <=> Finished(i) \/ i = Head(queue[s]).at
        /\ ~Finished(Head(queue[s]).at)
    BY <2>1, FinishedAtDequeue
  <2>3. Ordered(Head(queue[s]).at)
    BY <1>1, <2>1, HeadOrdered
  <2>4. Touches(calls[Head(queue[s]).at])
    BY <2>1, <2>2 DEF Touches
  <2>5. inOrder' = course[pc' - 1]
    BY <1>1, <2>1
  <2> QED BY <2>1, <2>2, <2>3, <2>4, <2>5, ContentAtExecute
<1>9. ASSUME NEW s \in Streams, ReachRecord(s) \/ PassWait(s) PROVE ContentInv'
  <2>1. /\ queue[s] # <<>> /\ HeadCall(s).call \in {"record", "wait"} /\ Dequeue(s)
        /\ UNCHANGED <<routine, calls, pc, mem, inOrder>>
    BY <1>9 DEF ReachRecord, PassWait, HeadIs
  <2>2. /\ HeadCall(s) = calls[Head(queue[s]).at]
        /\ \A i \in DOMAIN calls : Finished(i)' <=> Finished(i) \/ i = Head(queue[s]).at
    BY <2>1, FinishedAtDequeue
  <2>3. ~Touches(calls[Head(queue[s]).at])
    BY <2>1, <2>2 DEF Touches, DataCalls
  <2>4. inOrder' = course[pc' - 1]
    BY <1>1, <2>1
  <2> QED BY <2>1, <2>2, <2>3, <2>4, ContentAtOtherStep
<1>10. CASE UNCHANGED vars
  <2>1. UNCHANGED <<routine, calls, pc, queue, mem, inOrder>>
    BY <1>10 DEF vars
  <2>2. \A i \in DOMAIN calls : Finished(i)' <=> Finished(i)
    BY <2>1 DEF Finished, Work, On
  <2>3. inOrder' = course[pc' - 1]
    BY <1>1, <2>1
  <2> QED BY <2>1, <2>2, <2>3, ContentAtOtherStep
<1> QED BY <1>4, <1>5, <1>6, <1>7, <1>8, <1>9, <1>10 DEF Next, Host, Stream, Done

LEMMA SettledInOrder == OrderInv /\ ContentInv => AsIfInOrder
<1> SUFFICES ASSUME OrderInv, ContentInv, NEW b \in DOMAIN mem, Settled(b)
             PROVE  mem[b] = inOrder[b]
  BY DEF AsIfInOrder
<1>1. /\ pc \in Nat /\ pc >= 1 /\ pc <= Len(calls) + 1 /\ Len(calls) \in Nat
      /\ DOMAIN calls = 1 .. Len(calls)
  BY WorkTypes DEF OrderInv
<1>2. pc - 1 \in 0 .. Len(calls) /\ b \in Buffers
  BY <1>1 DEF ContentInv
<1>3. \A x \in Work : b \notin Writes(calls[x.at])
  BY DEF Settled, Work, On
<1>4. ASSUME NEW i \in DOMAIN calls, Writing(i, b) PROVE Finished(i) <=> i <= pc - 1
  <2>1. \A x \in Work : x.at # i
    BY <1>3, <1>4 DEF Writing
  <2> QED BY <1>1, <2>1 DEF Finished
<1>5. WrittenTo(b, pc - 1)
  BY <1>4 DEF WrittenTo
<1> QED BY <1>2, <1>5 DEF ContentInv

(* A buffer that no queued call still writes holds what it would hold if every
   call had been executed in the order of the program: the copies, kernels and
   computations of a routine (CUDA Imaging.cpp, WTiling.cpp and the hybrid routines)
   that overlap on three streams and the host do what they would do one by one,
   if the routine orders those that touch the same buffer. *)
THEOREM OrderedAsIfInOrder ==
    ASSUME ProgramsUseStreams, ProgramsOrdered, ProgramsNameBuffers
    PROVE  Spec => []AsIfInOrder
<1>1. Init => OrderInv /\ ContentInv
  BY OrderAtStart, ContentAtStart
<1>2. OrderInv /\ ContentInv /\ [Next]_vars => (OrderInv /\ ContentInv)'
  BY OrderKept, ContentKept
<1> QED BY <1>1, <1>2, SettledInOrder, PTL DEF Spec
=============================================================================
