--------------------------- MODULE ServeLoopProofs ---------------------------
(***************************************************************************)
(* Proofs about ServeLoop, for every set of jobs, number of slots, channel *)
(* capacity, queue bound and restart limit.                                *)
(***************************************************************************)
EXTENDS ServeLoop, TLAPS, FiniteSetTheorems

-----------------------------------------------------------------------------
(* Sequences as the sets of jobs they hold. *)

(* Appending a job adds it to the sequence's jobs, at the end and once: the *)
(* channel's send and the deque's push_back.                                *)
LEMMA AppendElems ==
    ASSUME NEW S, NEW s \in Seq(S), NEW x \in S
    PROVE  /\ Append(s, x) \in Seq(S) /\ Len(Append(s, x)) = Len(s) + 1
           /\ Elems(Append(s, x)) = Elems(s) \cup {x}
           /\ Distinct(s) /\ x \notin Elems(s) => Distinct(Append(s, x))
<1> DEFINE t == Append(s, x)
<1>1. /\ t \in Seq(S) /\ Len(t) = Len(s) + 1 /\ DOMAIN t = 1 .. Len(s) + 1
      /\ DOMAIN s = 1 .. Len(s) /\ Len(s) \in Nat
      /\ \A i \in 1 .. Len(s) : t[i] = s[i]
      /\ t[Len(s) + 1] = x
  OBVIOUS
<1> HIDE DEF t
<1>2. Elems(t) = Elems(s) \cup {x}
  BY <1>1 DEF Elems
<1>3. Distinct(s) /\ x \notin Elems(s) => Distinct(t)
  BY <1>1 DEF Elems, Distinct
<1> QED
  BY <1>1, <1>2, <1>3 DEF t

(* Taking the head: the rest holds every other job (recv and try_recv).     *)
LEMMA HeadTailElems ==
    ASSUME NEW S, NEW s \in Seq(S), s # <<>>
    PROVE  /\ Head(s) \in S /\ Tail(s) \in Seq(S) /\ Len(Tail(s)) = Len(s) - 1
           /\ Elems(s) = {Head(s)} \cup Elems(Tail(s))
           /\ Distinct(s) => Head(s) \notin Elems(Tail(s)) /\ Distinct(Tail(s))
<1> DEFINE t == Tail(s)
<1>1. /\ t \in Seq(S) /\ Len(t) = Len(s) - 1 /\ DOMAIN t = 1 .. Len(s) - 1
      /\ DOMAIN s = 1 .. Len(s) /\ Len(s) \in Nat /\ Len(s) >= 1
      /\ \A i \in 1 .. Len(s) - 1 : t[i] = s[i + 1]
      /\ Head(s) = s[1] /\ Head(s) \in S
  OBVIOUS
<1> HIDE DEF t
<1>2. Elems(s) = {Head(s)} \cup Elems(t)
  <2>1. Elems(t) \subseteq Elems(s)
    BY <1>1 DEF Elems
  <2>2. ASSUME NEW i \in 1 .. Len(s) PROVE s[i] \in {Head(s)} \cup Elems(t)
    <3>1. CASE i = 1 BY <1>1, <3>1
    <3>2. CASE i # 1
      <4>1. i - 1 \in 1 .. Len(s) - 1 /\ t[i - 1] = s[i] BY <1>1, <3>2
      <4> QED BY <1>1, <4>1 DEF Elems
    <3> QED BY <3>1, <3>2
  <2>3. Head(s) \in Elems(s) BY <1>1 DEF Elems
  <2> QED BY <1>1, <2>1, <2>2, <2>3 DEF Elems
<1>3. Distinct(s) => Head(s) \notin Elems(t)
  <2>1. ASSUME Distinct(s), NEW i \in 1 .. Len(s) - 1, t[i] = Head(s) PROVE FALSE
    <3>1. i + 1 \in DOMAIN s /\ 1 \in DOMAIN s /\ s[i + 1] = s[1] /\ i + 1 # 1
      BY <1>1, <2>1
    <3> QED BY <2>1, <3>1 DEF Distinct
  <2> QED BY <1>1, <2>1 DEF Elems
<1>4. Distinct(s) => Distinct(t)
  <2>1. ASSUME Distinct(s), NEW i \in 1 .. Len(s) - 1, NEW k \in 1 .. Len(s) - 1, t[i] = t[k]
        PROVE  i = k
    <3>1. i + 1 \in DOMAIN s /\ k + 1 \in DOMAIN s /\ s[i + 1] = s[k + 1]
      BY <1>1, <2>1
    <3>2. i + 1 = k + 1 BY <2>1, <3>1 DEF Distinct
    <3> QED BY <1>1, <3>2
  <2> QED BY <1>1, <2>1 DEF Distinct
<1> QED
  BY <1>1, <1>2, <1>3, <1>4 DEF t

(* Cutting a sequence in two: the halves share the jobs out (admission's    *)
(* group and rest, the queue bound's kept and refused).                     *)
LEMMA SplitElems ==
    ASSUME NEW S, NEW s \in Seq(S), NEW n \in 0 .. Len(s)
    PROVE  LET a == SubSeq(s, 1, n)
               b == SubSeq(s, n + 1, Len(s))
           IN  /\ a \in Seq(S) /\ Len(a) = n
               /\ b \in Seq(S) /\ Len(b) = Len(s) - n
               /\ Elems(s) = Elems(a) \cup Elems(b)
               /\ Distinct(s) => /\ Elems(a) \cap Elems(b) = {}
                                 /\ Distinct(a) /\ Distinct(b)
<1> DEFINE a == SubSeq(s, 1, n)
           b == SubSeq(s, n + 1, Len(s))
<1>1. /\ a \in Seq(S) /\ Len(a) = n /\ DOMAIN a = 1 .. n
      /\ \A i \in 1 .. n : a[i] = s[i]
  OBVIOUS
<1>2. /\ b \in Seq(S) /\ Len(b) = Len(s) - n /\ DOMAIN b = 1 .. Len(s) - n
      /\ \A i \in 1 .. Len(s) - n : b[i] = s[i + n]
  OBVIOUS
<1>3. DOMAIN s = 1 .. Len(s) /\ Len(s) \in Nat /\ n \in Nat /\ n <= Len(s)
  OBVIOUS
<1> HIDE DEF a, b
<1>4. Elems(s) = Elems(a) \cup Elems(b)
  <2>1. Elems(a) \subseteq Elems(s) BY <1>1, <1>3 DEF Elems
  <2>2. Elems(b) \subseteq Elems(s) BY <1>2, <1>3 DEF Elems
  <2>3. ASSUME NEW i \in 1 .. Len(s) PROVE s[i] \in Elems(a) \cup Elems(b)
    <3>1. CASE i <= n BY <1>1, <1>3, <3>1 DEF Elems
    <3>2. CASE i > n
      <4>1. i - n \in 1 .. Len(s) - n /\ b[i - n] = s[i] BY <1>2, <1>3, <3>2
      <4> QED BY <1>2, <4>1 DEF Elems
    <3> QED BY <1>3, <3>1, <3>2
  <2> QED BY <1>3, <2>1, <2>2, <2>3 DEF Elems
<1>5. Distinct(s) => Elems(a) \cap Elems(b) = {}
  <2>1. ASSUME Distinct(s), NEW i \in 1 .. n, NEW k \in 1 .. Len(s) - n, a[i] = b[k]
        PROVE  FALSE
    <3>1. i \in DOMAIN s /\ k + n \in DOMAIN s /\ s[i] = s[k + n] /\ i # k + n
      BY <1>1, <1>2, <1>3, <2>1
    <3> QED BY <2>1, <3>1 DEF Distinct
  <2> QED BY <1>1, <1>2, <2>1 DEF Elems
<1>6. Distinct(s) => Distinct(a)
  <2>1. 1 .. n \subseteq 1 .. Len(s) BY <1>3
  <2> QED BY <1>1, <1>3, <2>1 DEF Distinct
<1>7. Distinct(s) => Distinct(b)
  <2>1. ASSUME Distinct(s), NEW i \in 1 .. Len(s) - n, NEW k \in 1 .. Len(s) - n, b[i] = b[k]
        PROVE  i = k
    <3>1. i + n \in DOMAIN s /\ k + n \in DOMAIN s /\ s[i + n] = s[k + n]
      BY <1>2, <1>3, <2>1
    <3>2. i + n = k + n BY <2>1, <3>1 DEF Distinct
    <3> QED BY <1>3, <3>2
  <2> QED BY <1>2, <2>1 DEF Distinct
<1> QED
  BY <1>1, <1>2, <1>4, <1>5, <1>6, <1>7 DEF a, b

(* A sequence holds finitely many jobs, no more than its length.            *)
LEMMA ElemsFinite ==
    ASSUME NEW S, NEW s \in Seq(S)
    PROVE  /\ IsFiniteSet(Elems(s)) /\ Cardinality(Elems(s)) <= Len(s)
           /\ Cardinality(Elems(s)) \in Nat
<1>0. Len(s) \in Nat
  OBVIOUS
<1>1. IsFiniteSet(1 .. Len(s)) /\ Cardinality(1 .. Len(s)) = Len(s)
  <2>1. 1 \in Int /\ Len(s) \in Int BY <1>0
  <2>2. /\ IsFiniteSet(1 .. Len(s))
        /\ Cardinality(1 .. Len(s)) = IF 1 > Len(s) THEN 0 ELSE Len(s) - 1 + 1
    BY <2>1, FS_Interval
  <2> QED BY <1>0, <2>2
<1>2. s \in Surjection(1 .. Len(s), Elems(s))
  BY DEF Surjection, Elems
<1> QED
  BY <1>1, <1>2, FS_Surjection, FS_CardinalityType

(* The empty sequence.                                                      *)
LEMMA EmptyElems ==
    ASSUME NEW S
    PROVE  /\ <<>> \in Seq(S) /\ Len(<<>>) = 0 /\ Elems(<<>>) = {} /\ Distinct(<<>>)
           /\ \A s \in Seq(S) : Elems(s) = {} => s = <<>>
<1>1. DOMAIN <<>> = {}
  OBVIOUS
<1>2. \A s \in Seq(S) : s # <<>> => 1 \in DOMAIN s
  OBVIOUS
<1> QED
  BY <1>1, <1>2 DEF Elems, Distinct

-----------------------------------------------------------------------------
(* The inductive invariant. *)

\* Admission never places more runs than there are slots.
SlotsBounded == IsFiniteSet(Running) /\ Cardinality(Running) <= NSlots

\* A job exists once its handler has sent it, and not before.
SentOnce ==
    \A j \in Jobs : /\ handler[j] \in {"new", "checked"} => mail[j] = "none"
                    /\ handler[j] \in {"sent", "waiting"} => mail[j] # "none"

\* Outside a pass the loop holds no job, so a worker that ends leaves only the channel.
AtRest == pc \notin {"take", "place", "step"} => pending = <<>> /\ Running = {}

\* A loop that runs has no exit and has not reached the stall bound.
ExitKnown ==
    /\ pc \in {"wait", "take", "place", "step"} <=> exit = "none"
    /\ pc = "backoff" => exit = "stalled"
    /\ exit = "none" => stalled < StallLimit

\* After a clean drain no handler can send, and what was queued is answered
\* before the receiver goes.
SendersDone ==
    /\ server = "closed" => \A j \in Jobs : handler[j] \in {"new", "done"}
    /\ exit = "shutdown" => server # "serving"
    /\ exit = "shutdown" /\ pc \in {"decide", "down"} => chan = <<>>

\* When the receiver goes, and that nothing waits in a channel without one.
ReceiverLife ==
    /\ ~rxOpen <=> (exit = "panic" \/ pc = "down")
    /\ ~rxOpen => chan = <<>>
    /\ exit = "panic" => pc \in {"ended", "decide", "down"}
    /\ pc = "down" => ~CanRestart

\* An empty answer was read from a dropped sender.
EmptyMeansClosed == \A j \in Jobs : reply[j] = "empty" => mail[j] = "closed"

PassKept == pc = "step" => Len(pending) <= QueueMax

IInv == /\ TypeOK /\ OneHolder /\ SlotsBounded /\ SentOnce /\ AtRest /\ ExitKnown
        /\ SendersDone /\ ReceiverLife /\ DropsOnlyWhenDown /\ EmptyMeansClosed /\ PassKept

(* The counters stay natural numbers however many jobs leave the queue.     *)
LEMMA CountersNat ==
    ASSUME NEW c \in [requests : Nat, admitted : Nat, dropped : Nat], NEW a \in Nat, NEW d \in Nat
    PROVE  /\ [c EXCEPT !.admitted = @ + a, !.dropped = @ + d]
                  \in [requests : Nat, admitted : Nat, dropped : Nat]
           /\ [c EXCEPT !.requests = @ + 1] \in [requests : Nat, admitted : Nat, dropped : Nat]
<1>1. c.requests \in Nat /\ c.admitted \in Nat /\ c.dropped \in Nat
  OBVIOUS
<1>2. c.admitted + a \in Nat /\ c.dropped + d \in Nat /\ c.requests + 1 \in Nat
  BY <1>1
<1> QED
  BY <1>1, <1>2

(* The invariant holds when the server starts.                              *)
LEMMA InitIInv == Init => IInv
<1> USE ServeAssumption DEF IInv, TypeOK, OneHolder, SlotsBounded, SentOnce, AtRest, ExitKnown,
        SendersDone, ReceiverLife, DropsOnlyWhenDown, EmptyMeansClosed, PassKept, Running
<1> SUFFICES ASSUME Init PROVE IInv
  OBVIOUS
<1>1. Running = {}
  BY DEF Init
<1>2. IsFiniteSet({}) /\ Cardinality({}) = 0
  BY FS_EmptySet
<1>3. Elems(<<>>) = {} /\ Distinct(<<>>) /\ <<>> \in Seq(Jobs) /\ Len(<<>>) = 0
  BY EmptyElems
<1>4. SlotsBounded
  BY <1>1, <1>2
<1>5. TypeOK
  <2>1. Len(chan) <= ChanCap /\ stalled \in 0 .. StallLimit /\ restarts \in 0 .. MaxRestarts
    BY <1>3 DEF Init
  <2>2. left \in [Jobs -> 0 .. RunSteps]
    BY DEF Init
  <2> QED
    BY <1>3, <2>1, <2>2 DEF Init
<1> QED
  BY <1>1, <1>3, <1>4, <1>5 DEF Init

(* No step of a request handler breaks the invariant.                       *)
LEMMA HandlersKeep == ASSUME IInv, Handlers PROVE IInv'
<1> USE ServeAssumption DEF IInv, TypeOK, OneHolder, SlotsBounded, SentOnce, AtRest, ExitKnown,
        SendersDone, ReceiverLife, DropsOnlyWhenDown, EmptyMeansClosed, PassKept, Up,
        SendersGone, Running, CanRestart, vars, clients, queue, worker, super
<1>0. PICK j \in Jobs : \/ Accept(j) \/ Refuse(j) \/ Send(j) \/ SendFails(j)
                        \/ CountRequest(j) \/ Reply(j) \/ Disconnect(j)
  BY DEF Handlers
<1>1. CASE Accept(j)
  BY <1>1 DEF Accept
<1>2. CASE Refuse(j)
  BY <1>2 DEF Refuse, Finish
<1>3. CASE Send(j)
  <2>1. /\ chan' \in Seq(Jobs) /\ Len(chan') <= ChanCap
        /\ Elems(chan') = Elems(chan) \cup {j}
        /\ j \notin Elems(chan) /\ Distinct(chan')
    BY <1>3, AppendElems DEF Send
  <2>2. chan # <<>> => Elems(chan) # {}
    BY EmptyElems
  <2>3. TypeOK'
    BY <1>3, <2>1 DEF Send
  <2>4. OneHolder'
    BY <1>3, <2>1, SMTT(60) DEF Send
  <2>5. SlotsBounded' /\ SentOnce' /\ AtRest' /\ ExitKnown'
    BY <1>3 DEF Send
  <2>6. SendersDone' /\ ReceiverLife' /\ DropsOnlyWhenDown' /\ EmptyMeansClosed' /\ PassKept'
    BY <1>3 DEF Send
  <2> QED
    BY <2>3, <2>4, <2>5, <2>6
<1>4. CASE SendFails(j)
  BY <1>4 DEF SendFails, Finish
<1>5. CASE CountRequest(j)
  <2>1. count' \in [requests : Nat, admitted : Nat, dropped : Nat]
    BY <1>5, CountersNat, 0 \in Nat DEF CountRequest
  <2>2. TypeOK'
    BY <1>5, <2>1 DEF CountRequest
  <2>3. OneHolder' /\ SlotsBounded'
    BY <1>5 DEF CountRequest
  <2>4. SentOnce' /\ AtRest' /\ ExitKnown' /\ SendersDone'
    BY <1>5 DEF CountRequest
  <2>5. ReceiverLife' /\ DropsOnlyWhenDown' /\ EmptyMeansClosed' /\ PassKept'
    BY <1>5 DEF CountRequest
  <2> QED
    BY <2>2, <2>3, <2>4, <2>5
<1>6. CASE Reply(j)
  BY <1>6 DEF Reply, Finish
<1>7. CASE Disconnect(j)
  BY <1>7 DEF Disconnect, Finish
<1> QED
  BY <1>0, <1>1, <1>2, <1>3, <1>4, <1>5, <1>6, <1>7

(* No step of the supervisor breaks the invariant: the queue it answers and *)
(* the receiver it drops are accounted for.                                 *)
LEMMA SupervisorKeeps == ASSUME IInv, Supervisor PROVE IInv'
<1> USE ServeAssumption DEF IInv, TypeOK, OneHolder, SlotsBounded, SentOnce, AtRest, ExitKnown,
        SendersDone, ReceiverLife, DropsOnlyWhenDown, EmptyMeansClosed, PassKept, Up,
        SendersGone, Running, CanRestart, vars, clients, queue, worker, super
<1>1. CASE Mark
  BY <1>1 DEF Mark
<1>2. CASE RefuseQueued
  <2>1. /\ Head(chan) \in Jobs /\ Tail(chan) \in Seq(Jobs) /\ Len(Tail(chan)) <= ChanCap
        /\ Elems(chan) = {Head(chan)} \cup Elems(Tail(chan))
        /\ Head(chan) \notin Elems(Tail(chan)) /\ Distinct(Tail(chan))
    BY <1>2, HeadTailElems DEF RefuseQueued
  <2>2. count' \in [requests : Nat, admitted : Nat, dropped : Nat]
    BY <1>2, CountersNat, 1 \in Nat DEF RefuseQueued, Leaves
  <2>3. TypeOK'
    BY <1>2, <2>1, <2>2 DEF RefuseQueued, Answer
  <2>4. OneHolder'
    BY <1>2, <2>1 DEF RefuseQueued, Answer
  <2> QED
    BY <1>2, <2>1, <2>3, <2>4, SMTT(60) DEF RefuseQueued, Answer
<1>3. CASE RefuseDone
  BY <1>3 DEF RefuseDone
<1>4. CASE Backoff
  BY <1>4 DEF Backoff
<1>5. CASE Respawn
  BY <1>5 DEF Respawn
<1>6. CASE Disable
  <2>1. /\ Elems(<<>>) = {} /\ Distinct(<<>>) /\ <<>> \in Seq(Jobs) /\ Len(<<>>) = 0
        /\ chan = <<>> => Elems(chan) = {}
    BY EmptyElems
  <2>2. TypeOK'
    <3>1. mail' \in [Jobs -> {"none", "open", "event", "closed"}]
      BY <1>6 DEF Disable, Drop
    <3>2. chan' \in Seq(Jobs) /\ Len(chan') <= ChanCap
      BY <1>6, <2>1 DEF Disable
    <3> QED
      BY <1>6, <3>1, <3>2 DEF Disable
  <2>3. OneHolder'
    BY <1>6, <2>1 DEF Disable, Drop
  <2>4. DropsOnlyWhenDown'
    BY <1>6, <2>1 DEF Disable, Drop
  <2> QED
    BY <1>6, <2>2, <2>3, <2>4 DEF Disable, Drop
<1> QED
  BY <1>1, <1>2, <1>3, <1>4, <1>5, <1>6 DEF Supervisor

(* No step of the shutdown breaks the invariant.                            *)
LEMMA DrainKeeps == ASSUME IInv, Drain PROVE IInv'
<1> USE ServeAssumption DEF IInv, TypeOK, OneHolder, SlotsBounded, SentOnce, AtRest, ExitKnown,
        SendersDone, ReceiverLife, DropsOnlyWhenDown, EmptyMeansClosed, PassKept, Up,
        SendersGone, Running, CanRestart, vars, clients, queue, worker, super
<1>1. CASE Signal
  BY <1>1 DEF Signal
<1>2. CASE Close
  BY <1>2 DEF Close
<1>3. CASE Deadline
  BY <1>3 DEF Deadline
<1>4. CASE Exit
  BY <1>4 DEF Exit
<1>5. CASE Ended
  BY <1>5 DEF Ended
<1> QED
  BY <1>1, <1>2, <1>3, <1>4, <1>5 DEF Drain

(* Runs only end in a step: fewer slots are taken.                          *)
LEMMA FewerRuns ==
    ASSUME SlotsBounded, NEW R \in SUBSET Running
    PROVE  IsFiniteSet(R) /\ Cardinality(R) <= NSlots
<1>1. IsFiniteSet(R) /\ Cardinality(R) <= Cardinality(Running)
  BY FS_Subset DEF SlotsBounded
<1>2. Cardinality(R) \in Nat /\ Cardinality(Running) \in Nat
  BY <1>1, FS_CardinalityType DEF SlotsBounded
<1> QED
  BY <1>1, <1>2, ServeAssumption DEF SlotsBounded

(* Admission's cuts of the deque: the group is no longer than the idle      *)
(* slots, and group, kept and refused jobs share the deque out.             *)
LEMMA GroupCuts ==
    ASSUME IInv
    PROVE  /\ GroupLen \in Nat /\ GroupLen <= NSlots - Cardinality(Running)
           /\ Group \in Seq(Jobs) /\ Len(Group) = GroupLen
           /\ Kept \in Seq(Jobs) /\ Len(Kept) <= QueueMax /\ Distinct(Kept)
           /\ Overflow \in Seq(Jobs) /\ Len(Overflow) \in Nat
           /\ Elems(pending) = Elems(Group) \cup Elems(Kept) \cup Elems(Overflow)
           /\ Elems(Group) \cap Elems(Kept) = {}
           /\ Elems(Overflow) \cap (Elems(Group) \cup Elems(Kept)) = {}
<1>1. pending \in Seq(Jobs) /\ Distinct(pending) /\ Len(pending) \in Nat
  BY DEF IInv, TypeOK, OneHolder
<1>2. Cardinality(Running) \in Nat /\ Cardinality(Running) <= NSlots /\ NSlots \in Nat
  BY FS_CardinalityType, ServeAssumption DEF IInv, SlotsBounded
<1>3. GroupLen \in 0 .. Len(pending) /\ GroupLen <= NSlots - Cardinality(Running)
  BY <1>1, <1>2 DEF GroupLen, Idle
<1>4. /\ Group \in Seq(Jobs) /\ Len(Group) = GroupLen
      /\ Rest \in Seq(Jobs) /\ Distinct(Rest)
      /\ Elems(pending) = Elems(Group) \cup Elems(Rest)
      /\ Elems(Group) \cap Elems(Rest) = {}
  BY <1>1, <1>3, SplitElems DEF Group, Rest
<1>5. KeptLen \in 0 .. Len(Rest) /\ KeptLen <= QueueMax
  BY <1>4, ServeAssumption DEF KeptLen
<1>6. /\ Kept \in Seq(Jobs) /\ Len(Kept) = KeptLen /\ Distinct(Kept)
      /\ Overflow \in Seq(Jobs)
      /\ Elems(Rest) = Elems(Kept) \cup Elems(Overflow)
      /\ Elems(Kept) \cap Elems(Overflow) = {}
  BY <1>4, <1>5, SplitElems DEF Kept, Overflow
<1> QED
  BY <1>3, <1>4, <1>5, <1>6

(* Placing a part of the group in the idle slots oversubscribes none.       *)
LEMMA PlacedFits ==
    ASSUME IInv, NEW placed \in SUBSET Elems(Group), NEW R \in SUBSET (Running \cup placed)
    PROVE  /\ IsFiniteSet(R) /\ Cardinality(R) <= NSlots
           /\ Cardinality(Elems(Group) \ placed) \in Nat
<1>1. /\ GroupLen \in Nat /\ GroupLen <= NSlots - Cardinality(Running)
      /\ Group \in Seq(Jobs) /\ Len(Group) = GroupLen
  BY GroupCuts
<1>2. /\ IsFiniteSet(Elems(Group)) /\ Cardinality(Elems(Group)) \in Nat
      /\ Cardinality(Elems(Group)) <= GroupLen
  BY <1>1, ElemsFinite
<1>3. /\ IsFiniteSet(placed) /\ Cardinality(placed) \in Nat
      /\ Cardinality(placed) <= Cardinality(Elems(Group))
  BY <1>2, FS_Subset, FS_CardinalityType
<1>4. IsFiniteSet(Running) /\ Cardinality(Running) \in Nat /\ NSlots \in Nat
  BY FS_CardinalityType, ServeAssumption DEF IInv, SlotsBounded
<1>5. /\ IsFiniteSet(Running \cup placed)
      /\ Cardinality(Running \cup placed)
             = Cardinality(Running) + Cardinality(placed) - Cardinality(Running \cap placed)
  BY <1>3, <1>4, FS_Union
<1>6. Cardinality(Running \cap placed) \in Nat
  BY <1>4, FS_Intersection, FS_CardinalityType
<1>7. Cardinality(Running \cup placed) <= NSlots /\ Cardinality(Running \cup placed) \in Nat
  BY <1>1, <1>2, <1>3, <1>4, <1>5, <1>6, FS_CardinalityType
<1>8. /\ IsFiniteSet(R) /\ Cardinality(R) <= Cardinality(Running \cup placed)
      /\ Cardinality(R) \in Nat
  BY <1>5, FS_Subset, FS_CardinalityType
<1>9. Elems(Group) \ placed \in SUBSET Elems(Group)
  OBVIOUS
<1>10. Cardinality(Elems(Group) \ placed) \in Nat
  BY <1>2, <1>9, FS_Subset, FS_CardinalityType
<1> QED
  BY <1>4, <1>7, <1>8, <1>10

(* No step of serve_loop breaks the invariant: what it takes, places,       *)
(* refuses, finishes or drops is accounted for.                             *)
LEMMA LoopKeeps == ASSUME IInv, Loop PROVE IInv'
<1> USE ServeAssumption DEF IInv, TypeOK, OneHolder, SlotsBounded, SentOnce, AtRest, ExitKnown,
        SendersDone, ReceiverLife, DropsOnlyWhenDown, EmptyMeansClosed, PassKept, Up,
        SendersGone, CanRestart, vars, clients, queue, worker, super
<1>0. /\ Elems(<<>>) = {} /\ Distinct(<<>>) /\ <<>> \in Seq(Jobs) /\ Len(<<>>) = 0
      /\ IsFiniteSet({}) /\ Cardinality({}) = 0
      /\ NSlots \in Nat /\ Len(chan) \in Nat /\ Len(pending) \in Nat
      /\ chan = <<>> => Elems(chan) = {}
      /\ pending = <<>> => Elems(pending) = {}
  BY EmptyElems, FS_EmptySet
<1>1. CASE Recv
  <2>1. /\ Head(chan) \in Jobs /\ Tail(chan) \in Seq(Jobs) /\ Len(Tail(chan)) <= ChanCap
        /\ Elems(chan) = {Head(chan)} \cup Elems(Tail(chan))
        /\ Head(chan) \notin Elems(Tail(chan)) /\ Distinct(Tail(chan))
    BY <1>1, HeadTailElems DEF Recv
  <2>2. pending' = Append(pending, Head(chan))
    BY <1>1 DEF Recv
  <2>3. /\ pending' \in Seq(Jobs) /\ Elems(pending') = Elems(pending) \cup {Head(chan)}
        /\ Distinct(pending')
    BY <2>1, <2>2, AppendElems
  <2>4. TypeOK'
    BY <1>1, <2>1, <2>3 DEF Recv
  <2>5. OneHolder'
    BY <1>1, <2>1, <2>3, SMTT(60) DEF Recv, Running
  <2> QED
    BY <1>1, <2>1, <2>4, <2>5, SMTT(60) DEF Recv, Running
<1>2. CASE Hangup
  BY <1>2 DEF Hangup, Running
<1>3. CASE Take
  <2>1. /\ Head(chan) \in Jobs /\ Tail(chan) \in Seq(Jobs) /\ Len(Tail(chan)) <= ChanCap
        /\ Elems(chan) = {Head(chan)} \cup Elems(Tail(chan))
        /\ Head(chan) \notin Elems(Tail(chan)) /\ Distinct(Tail(chan))
    BY <1>3, HeadTailElems, SMTT(60) DEF Take
  <2>2. /\ pending' \in Seq(Jobs) /\ Elems(pending') = Elems(pending) \cup {Head(chan)}
        /\ Distinct(pending')
    BY <1>3, <2>1, AppendElems DEF Take
  <2>3. TypeOK'
    BY <1>3, <2>1, <2>2 DEF Take
  <2>4. OneHolder'
    BY <1>3, <2>1, <2>2, SMTT(60) DEF Take, Running
  <2> QED
    BY <1>3, <2>1, <2>3, <2>4, SMTT(60) DEF Take, Running
<1>4. CASE TakeDone
  BY <1>4 DEF TakeDone, Running
<1>5. CASE DrainQueue
  <2>1. count' \in [requests : Nat, admitted : Nat, dropped : Nat]
    <3> DEFINE k == Len(pending) + Len(chan)
    <3>1. k \in Nat
      BY <1>0
    <3>2. count' = [count EXCEPT !.admitted = @ + k, !.dropped = @ + k]
      BY <1>5 DEF DrainQueue, Leaves
    <3>3. count \in [requests : Nat, admitted : Nat, dropped : Nat]
      OBVIOUS
    <3> HIDE DEF k
    <3> QED
      BY ONLY <3>1, <3>2, <3>3, CountersNat
  <2>2. TypeOK'
    <3>1. mail' \in [Jobs -> {"none", "open", "event", "closed"}]
      BY <1>5 DEF DrainQueue, Answer
    <3>2. chan' \in Seq(Jobs) /\ Len(chan') <= ChanCap /\ pending' \in Seq(Jobs)
      BY <1>0, <1>5 DEF DrainQueue
    <3> QED
      BY <1>5, <2>1, <3>1, <3>2 DEF DrainQueue
  <2>3. OneHolder'
    BY <1>0, <1>5 DEF DrainQueue, Answer, Running
  <2> QED
    BY <1>0, <1>5, <2>2, <2>3, SMTT(60) DEF DrainQueue, Answer, Running
<1>6. CASE \E placed, ended \in SUBSET Jobs : Place(placed, ended)
  <2>0. PICK placed \in SUBSET Jobs, ended \in SUBSET Jobs : Place(placed, ended)
    BY <1>6
  <2>1. /\ placed \subseteq Elems(Group) /\ ended \subseteq Running \cup placed
        /\ Running' = (Running \cup placed) \ ended
    BY <2>0 DEF Place, Running
  <2>2. /\ Group \in Seq(Jobs) /\ GroupLen \in Nat
        /\ Kept \in Seq(Jobs) /\ Len(Kept) <= QueueMax /\ Distinct(Kept)
        /\ Len(Overflow) \in Nat
        /\ Elems(pending) = Elems(Group) \cup Elems(Kept) \cup Elems(Overflow)
        /\ Elems(Group) \cap Elems(Kept) = {}
        /\ Elems(Overflow) \cap (Elems(Group) \cup Elems(Kept)) = {}
    BY GroupCuts
  <2>3. Cardinality(Elems(Group) \ placed) \in Nat /\ SlotsBounded'
    BY <2>1, PlacedFits
  <2>4. count' \in [requests : Nat, admitted : Nat, dropped : Nat]
    <3> DEFINE taken == GroupLen
               over == Len(Overflow)
               refused == Cardinality(Elems(Group) \ placed)
    <3>0. taken \in Nat /\ over \in Nat /\ refused \in Nat
      BY <2>2, <2>3
    <3> HIDE DEF taken, over, refused
    <3>2. taken + over \in Nat /\ refused + over \in Nat
      BY ONLY <3>0
    <3>1. /\ GroupLen + Len(Overflow) \in Nat
          /\ Cardinality(Elems(Group) \ placed) + Len(Overflow) \in Nat
      BY ONLY <3>2 DEF taken, over, refused
    <3> DEFINE a == GroupLen + Len(Overflow)
               d == Cardinality(Elems(Group) \ placed) + Len(Overflow)
    <3>3. count' = [count EXCEPT !.admitted = @ + a, !.dropped = @ + d]
      BY <2>0 DEF Place, Leaves
    <3>4. count \in [requests : Nat, admitted : Nat, dropped : Nat]
      OBVIOUS
    <3>5. a \in Nat /\ d \in Nat
      BY ONLY <3>1
    <3> HIDE DEF a, d
    <3> QED
      BY ONLY <3>3, <3>4, <3>5, CountersNat
  <2>5. TypeOK'
    <3>1. mail' \in [Jobs -> {"none", "open", "event", "closed"}]
      BY <2>0 DEF Place, Answer
    <3>2. left' \in [Jobs -> 0 .. RunSteps]
      BY <2>0 DEF Place
    <3> QED
      BY <2>0, <2>2, <2>4, <3>1, <3>2 DEF Place
  <2>6. OneHolder'
    <3>1. mail' = [j \in Jobs |-> IF j \in (Elems(Group) \ placed) \cup ended \cup Elems(Overflow)
                                  THEN "event" ELSE mail[j]]
      BY <2>0 DEF Place, Answer
    <3>2. chan' = chan /\ pending' = Kept
      BY <2>0 DEF Place
    <3> QED
      BY <2>1, <2>2, <3>1, <3>2, SMTT(60)
  <2>7. SentOnce' /\ DropsOnlyWhenDown' /\ EmptyMeansClosed'
    BY <2>0, <2>1, <2>2 DEF Place, Answer
  <2>8. AtRest' /\ ExitKnown' /\ SendersDone' /\ ReceiverLife' /\ PassKept'
    BY <2>0, <2>2 DEF Place
  <2> QED
    BY <2>3, <2>5, <2>6, <2>7, <2>8
<1>7. CASE SkipStep
  BY <1>0, <1>7 DEF SkipStep, EndPass, Running
<1>8. CASE \E ended \in SUBSET Jobs : Tick(ended) \/ StepFails(ended)
  <2>0. PICK ended \in SUBSET Jobs : Tick(ended) \/ StepFails(ended)
    BY <1>8
  <2>1. /\ ended \subseteq Running /\ Running' = Running \ ended
        /\ left' \in [Jobs -> 0 .. RunSteps]
    <3>1. CASE Tick(ended)
      <4>1. /\ \A j \in Jobs : left[j] \in 0 .. RunSteps
            /\ \A j \in Running \ ended : left[j] - 1 \in 1 .. RunSteps
        BY <3>1 DEF Tick, Running
      <4>2. left' = [j \in Jobs |-> IF j \in ended THEN 0
                                    ELSE IF j \in Running THEN left[j] - 1 ELSE 0]
        BY <3>1 DEF Tick
      <4>3. left' \in [Jobs -> 0 .. RunSteps]
        BY <4>1, <4>2
      <4>4. ended \subseteq Running /\ Running \subseteq Jobs
        BY <3>1 DEF Tick, Running
      <4>5. \A j \in Jobs : left'[j] > 0 <=> j \in Running \ ended
        BY <4>1, <4>2, <4>4
      <4>6. Running' = Running \ ended
        BY <4>4, <4>5 DEF Running
      <4> QED
        BY <4>3, <4>4, <4>6
    <3>2. CASE StepFails(ended)
      BY <3>2 DEF StepFails, Running
    <3> QED
      BY <2>0, <3>1, <3>2
  <2>2. /\ mail' = [j \in Jobs |-> IF j \in ended THEN "event" ELSE mail[j]]
        /\ pc = "step" /\ stalled' = 0 /\ EndPass(Running \ ended) /\ server # "exited"
        /\ UNCHANGED <<handler, reply, queue, super, draining, server, count>>
    BY <2>0 DEF Tick, StepFails, Answer
  <2>3. SlotsBounded'
    BY <2>1, FewerRuns
  <2>4. TypeOK'
    BY <2>1, <2>2 DEF EndPass
  <2>5. OneHolder'
    BY <2>1, <2>2
  <2>6. AtRest' /\ ExitKnown' /\ PassKept'
    BY <2>1, <2>2 DEF EndPass
  <2>7. SentOnce' /\ EmptyMeansClosed'
    BY <2>1, <2>2
  <2>8. SendersDone' /\ ReceiverLife' /\ DropsOnlyWhenDown'
    BY <2>2 DEF EndPass
  <2> QED
    BY <2>3, <2>4, <2>5, <2>6, <2>7, <2>8
<1>9. CASE Stall
  BY <1>9 DEF Stall, EndPass, Running
<1>10. CASE StallOut
  <2>1. count' \in [requests : Nat, admitted : Nat, dropped : Nat]
    <3>1. Len(pending) + Len(chan) \in Nat BY <1>0
    <3> QED BY <1>10, <3>1, CountersNat DEF StallOut, Leaves
  <2>2. Running' = {} /\ left' \in [Jobs -> 0 .. RunSteps]
    BY <1>10 DEF StallOut, Running
  <2>3. TypeOK'
    <3>1. mail' \in [Jobs -> {"none", "open", "event", "closed"}]
      BY <1>10 DEF StallOut, Answer
    <3>2. chan' \in Seq(Jobs) /\ Len(chan') <= ChanCap /\ pending' \in Seq(Jobs)
      BY <1>0, <1>10 DEF StallOut
    <3>3. stalled' \in 0 .. StallLimit
      BY <1>10 DEF StallOut
    <3> QED
      BY <1>10, <2>1, <2>2, <3>1, <3>2, <3>3 DEF StallOut
  <2>4. OneHolder'
    BY <1>0, <1>10, <2>2 DEF StallOut, Answer
  <2>5. SlotsBounded' /\ AtRest' /\ PassKept'
    BY <1>0, <1>10, <2>2 DEF StallOut
  <2>6. SentOnce' /\ DropsOnlyWhenDown' /\ EmptyMeansClosed'
    BY <1>10 DEF StallOut, Answer
  <2>7. ExitKnown' /\ SendersDone' /\ ReceiverLife'
    BY <1>10 DEF StallOut
  <2> QED
    BY <2>3, <2>4, <2>5, <2>6, <2>7
<1>11. CASE Panic
  <2>1. Running' = {} /\ left' \in [Jobs -> 0 .. RunSteps]
    BY <1>11 DEF Panic, Running
  <2>2. TypeOK'
    <3>1. mail' \in [Jobs -> {"none", "open", "event", "closed"}]
      BY <1>11 DEF Panic, Drop
    <3>2. chan' \in Seq(Jobs) /\ Len(chan') <= ChanCap /\ pending' \in Seq(Jobs)
      BY <1>0, <1>11 DEF Panic
    <3> QED
      BY <1>11, <2>1, <3>1, <3>2 DEF Panic
  <2>3. OneHolder'
    BY <1>0, <1>11, <2>1 DEF Panic, Drop
  <2>4. SlotsBounded' /\ AtRest' /\ PassKept'
    BY <1>0, <1>11, <2>1 DEF Panic
  <2>5. SentOnce' /\ DropsOnlyWhenDown' /\ EmptyMeansClosed'
    BY <1>11 DEF Panic, Drop
  <2>6. ExitKnown' /\ SendersDone' /\ ReceiverLife'
    BY <1>11 DEF Panic
  <2> QED
    BY <2>2, <2>3, <2>4, <2>5, <2>6
<1> QED
  BY <1>1, <1>2, <1>3, <1>4, <1>5, <1>6, <1>7, <1>8, <1>9, <1>10, <1>11 DEF Loop

(* Every step keeps the invariant.                                          *)
LEMMA NextKeeps == ASSUME IInv, [Next]_vars PROVE IInv'
<1>1. CASE Next
  BY <1>1, HandlersKeep, LoopKeeps, SupervisorKeeps, DrainKeeps DEF Next
<1>2. CASE UNCHANGED vars
  BY <1>2 DEF vars, clients, queue, worker, super, IInv, TypeOK, OneHolder, SlotsBounded,
        SentOnce, AtRest, ExitKnown, SendersDone, ReceiverLife, DropsOnlyWhenDown,
        EmptyMeansClosed, PassKept, SendersGone, Running, CanRestart
<1> QED
  BY <1>1, <1>2

(* The invariant holds throughout.                                          *)
LEMMA Invariance == Spec => []IInv
<1>1. Init => IInv
  BY InitIInv
<1>2. IInv /\ [Next]_vars => IInv'
  BY NextKeeps
<1> QED
  BY <1>1, <1>2, PTL DEF Spec

(* The state of the handlers, the queue, the worker and the supervisor      *)
(* keeps its type, the channel within its capacity included.                *)
THEOREM TypeCorrect == Spec => []TypeOK
<1>1. IInv => TypeOK
  BY DEF IInv
<1> QED
  BY <1>1, Invariance, PTL

(* No job is answered twice, held twice or forgotten: from send to terminal *)
(* event it is in the channel, the deque or a slot of serve_loop, and in    *)
(* one of them only.                                                        *)
THEOREM JobsAccounted == Spec => []OneHolder
<1>1. IInv => OneHolder
  BY DEF IInv
<1> QED
  BY <1>1, Invariance, PTL

(* A job's sender is dropped unanswered only by a worker that panicked or   *)
(* that stalled with its restarts used up: restarts and drains lose none.   *)
THEOREM LossMeansDown == Spec => []DropsOnlyWhenDown
<1>1. IInv => DropsOnlyWhenDown
  BY DEF IInv
<1> QED
  BY <1>1, Invariance, PTL

(* serve_loop's admission never uses more slots than the engine has, and a  *)
(* pass leaves at most queue_max jobs waiting.                              *)
THEOREM AdmissionBounded == Spec => []BoundsHold
<1>1. IInv => BoundsHold
  BY DEF IInv, SlotsBounded, PassKept, BoundsHold
<1> QED
  BY <1>1, Invariance, PTL

-----------------------------------------------------------------------------
(* The queue-depth metric.  A send that its handler has not counted yet is  *)
(* in the queue and not in requests_total; a step outside the handlers moves *)
(* jobs between channel, deque and jobs_admitted_total and changes no sum,   *)
(* unless it drops a sender, and a dropped sender stays dropped.             *)

Uncounted == {j \in Jobs : handler[j] = "sent"}
NoneDropped == \A j \in Jobs : mail[j] # "closed"
Depth == count.admitted + Len(chan) + Len(pending)
DepthInv == IsFiniteSet(Uncounted) /\ QueueDepthExact

(* What Leaves does to the counters.                                        *)
LEMMA LeavesCounts ==
    ASSUME TypeOK, NEW a \in Nat, NEW d, Leaves(a, d)
    PROVE  count'.requests = count.requests /\ count'.admitted = count.admitted + a
<1>1. count = [requests |-> count.requests, admitted |-> count.admitted, dropped |-> count.dropped]
  BY DEF TypeOK
<1> QED
  BY <1>1 DEF Leaves

(* The three cuts of the deque are as long as the deque together.           *)
LEMMA CutLengths ==
    ASSUME IInv
    PROVE  /\ GroupLen \in Nat /\ Len(Overflow) \in Nat /\ Len(Kept) \in Nat
           /\ GroupLen + Len(Kept) + Len(Overflow) = Len(pending)
<1>1. pending \in Seq(Jobs) /\ Len(pending) \in Nat
  BY DEF IInv, TypeOK
<1>2. GroupLen \in Nat /\ GroupLen <= Len(pending)
  <2>1. GroupLen \in Nat
    BY GroupCuts
  <2>2. Cardinality(Running) \in Nat /\ NSlots \in Nat
    BY FS_CardinalityType, ServeAssumption DEF IInv, SlotsBounded
  <2> QED
    BY <1>1, <2>1, <2>2 DEF GroupLen, Idle
<1>3. Rest \in Seq(Jobs) /\ Len(Rest) = Len(pending) - GroupLen
  BY <1>1, <1>2, SplitElems DEF Rest
<1>4. KeptLen \in 0 .. Len(Rest)
  BY <1>3, ServeAssumption DEF KeptLen
<1>5. Len(Kept) = KeptLen /\ Len(Overflow) = Len(Rest) - KeptLen
  BY <1>3, <1>4, SplitElems DEF Kept, Overflow
<1> QED
  BY <1>1, <1>2, <1>3, <1>4, <1>5

(* A sender once dropped stays dropped: what is answered was open.          *)
LEMMA DroppedStays ==
    ASSUME IInv, [Next]_vars, NEW j \in Jobs, mail[j] = "closed"
    PROVE  mail'[j] = "closed"
<1> USE DEF IInv, TypeOK, OneHolder, SentOnce
<1>0. j \notin Elems(chan) \cup Elems(pending) \cup Running
  OBVIOUS
<1>1. CASE Handlers
  BY <1>1 DEF Handlers, Accept, Refuse, Send, SendFails, CountRequest, Reply, Disconnect
<1>2. CASE Loop
  <2>1. CASE \E placed, ended \in SUBSET Jobs : Place(placed, ended)
    <3>0. PICK placed \in SUBSET Jobs, ended \in SUBSET Jobs : Place(placed, ended)
      BY <2>1
    <3>1. Elems(pending) = Elems(Group) \cup Elems(Kept) \cup Elems(Overflow)
      BY GroupCuts
    <3> QED
      BY <1>0, <3>0, <3>1 DEF Place, Answer
  <2>2. CASE \E ended \in SUBSET Jobs : Tick(ended) \/ StepFails(ended)
    BY <1>0, <2>2 DEF Tick, StepFails, Answer
  <2>3. CASE Recv \/ Hangup \/ Take \/ TakeDone \/ DrainQueue \/ SkipStep \/ Stall \/ StallOut
    BY <1>0, <2>3 DEF Recv, Hangup, Take, TakeDone, DrainQueue, SkipStep, Stall, StallOut,
          Answer, clients
  <2>4. CASE Panic
    BY <2>4 DEF Panic, Drop
  <2> QED
    BY <1>2, <2>1, <2>2, <2>3, <2>4 DEF Loop
<1>3. CASE Supervisor
  <2>1. chan # <<>> => Head(chan) \in Elems(chan)
    BY HeadTailElems
  <2> QED
    BY <1>0, <1>3, <2>1 DEF Supervisor, Mark, RefuseQueued, RefuseDone, Backoff, Respawn, Disable,
          Answer, Drop, clients
<1>4. CASE Drain \/ UNCHANGED vars
  BY <1>4 DEF Drain, Signal, Close, Deadline, Exit, Ended, vars, clients
<1> QED
  BY <1>1, <1>2, <1>3, <1>4 DEF Next

(* Outside the handlers every job that leaves the channel or the deque is   *)
(* counted once, or its sender is dropped.                                  *)
LEMMA ServerKeepsDepth ==
    ASSUME IInv, Loop \/ Supervisor \/ Drain \/ UNCHANGED vars, NoneDropped'
    PROVE  /\ handler' = handler /\ count'.requests = count.requests
           /\ Depth' = Depth
<1>0. /\ TypeOK /\ chan \in Seq(Jobs) /\ pending \in Seq(Jobs) /\ Len(chan) \in Nat /\ Len(pending) \in Nat
      /\ count.admitted \in Nat /\ count.requests \in Nat /\ Len(<<>>) = 0
  BY DEF IInv, TypeOK
<1>1. handler' = handler
  BY DEF Loop, Supervisor, Drain, Recv, Hangup, Take, TakeDone, DrainQueue, Place, SkipStep,
        Tick, StepFails, Stall, StallOut, Panic, Mark, RefuseQueued, RefuseDone, Backoff,
        Respawn, Disable, Signal, Close, Deadline, Exit, Ended, vars, clients
<1>2. CASE Recv
  <2>1. pending = <<>> /\ Len(Tail(chan)) = Len(chan) - 1 /\ Len(<<Head(chan)>>) = 1
    BY <1>0, <1>2, HeadTailElems DEF Recv, IInv, AtRest
  <2>2. /\ count' = count /\ Len(chan') = Len(chan) - 1
        /\ Len(pending') = 1 /\ Len(pending) = 0
    BY <1>0, <1>2, <2>1 DEF Recv
  <2> QED
    BY <1>0, <1>1, <2>2 DEF Depth
<1>3. CASE Take
  <2>1. Len(Tail(chan)) = Len(chan) - 1 /\ Head(chan) \in Jobs
    BY <1>0, <1>3, HeadTailElems DEF Take
  <2>2. Len(Append(pending, Head(chan))) = Len(pending) + 1
    BY <1>0, <2>1, AppendElems
  <2>3. count' = count /\ Len(chan') = Len(chan) - 1 /\ Len(pending') = Len(pending) + 1
    BY <1>3, <2>1, <2>2 DEF Take
  <2> QED
    BY <1>0, <1>1, <2>3 DEF Depth
<1>4. CASE DrainQueue \/ StallOut
  <2>1. Leaves(Len(pending) + Len(chan), Len(pending) + Len(chan)) /\ pending' = <<>> /\ chan' = <<>>
    BY <1>4 DEF DrainQueue, StallOut
  <2>2. Len(pending) + Len(chan) \in Nat
    BY <1>0
  <2>3. count'.requests = count.requests /\ count'.admitted = count.admitted + (Len(pending) + Len(chan))
    BY <1>0, <2>1, <2>2, LeavesCounts
  <2>4. Len(chan') = 0 /\ Len(pending') = 0
    BY <1>0, <2>1
  <2> QED
    BY <1>0, <1>1, <2>3, <2>4 DEF Depth
<1>5. CASE \E placed, ended \in SUBSET Jobs : Place(placed, ended)
  <2>0. PICK placed \in SUBSET Jobs, ended \in SUBSET Jobs : Place(placed, ended)
    BY <1>5
  <2>1. /\ GroupLen \in Nat /\ Len(Overflow) \in Nat /\ Len(Kept) \in Nat
        /\ GroupLen + Len(Kept) + Len(Overflow) = Len(pending)
    BY CutLengths
  <2>2. /\ pending' = Kept /\ chan' = chan
        /\ Leaves(GroupLen + Len(Overflow), Cardinality(Elems(Group) \ placed) + Len(Overflow))
    BY <2>0 DEF Place
  <2>3. GroupLen + Len(Overflow) \in Nat
    BY <2>1
  <2>4. count'.requests = count.requests /\ count'.admitted = count.admitted + (GroupLen + Len(Overflow))
    BY <1>0, <2>2, <2>3, LeavesCounts
  <2>5. Len(chan') = Len(chan) /\ Len(pending') = Len(Kept)
    BY <2>2
  <2>6. Depth' = (count.admitted + (GroupLen + Len(Overflow))) + Len(chan) + Len(Kept)
    BY <2>4, <2>5 DEF Depth
  <2>7. Depth = count.admitted + Len(chan) + (GroupLen + Len(Kept) + Len(Overflow))
    BY <2>1 DEF Depth
  <2> QED
    BY <1>0, <1>1, <2>1, <2>4, <2>6, <2>7
<1>6. CASE RefuseQueued
  <2>1. Len(Tail(chan)) = Len(chan) - 1
    BY <1>0, <1>6, HeadTailElems DEF RefuseQueued
  <2>2. count'.requests = count.requests /\ count'.admitted = count.admitted + 1
    BY <1>0, <1>6, LeavesCounts, 1 \in Nat DEF RefuseQueued
  <2>3. Len(chan') = Len(chan) - 1 /\ Len(pending') = Len(pending)
    BY <1>6, <2>1 DEF RefuseQueued
  <2> QED
    BY <1>0, <1>1, <2>2, <2>3 DEF Depth
<1>7. CASE Panic
  <2>1. \E j \in Jobs : j \in Running \cup Elems(pending)
    <3>1. Elems(pending) = {} => pending = <<>>
      BY <1>0, EmptyElems
    <3>2. Elems(pending) \subseteq Jobs /\ Running \subseteq Jobs
      BY <1>0 DEF Elems, Running
    <3> QED
      BY <1>7, <3>1, <3>2 DEF Panic
  <2>2. FALSE
    BY <1>7, <2>1 DEF Panic, Drop, NoneDropped
  <2> QED
    BY <2>2
<1>8. CASE Disable
  <2>1. Elems(chan) = {}
    <3>1. Elems(chan) \subseteq Jobs
      BY <1>0 DEF Elems
    <3> QED
      BY <1>8, <3>1 DEF Disable, Drop, NoneDropped
  <2>2. chan = <<>>
    BY <1>0, <2>1, EmptyElems
  <2> QED
    BY <1>1, <1>8, <2>2 DEF Disable, Depth
<1>9. CASE \/ Hangup \/ TakeDone \/ SkipStep \/ Stall \/ Mark \/ RefuseDone \/ Backoff \/ Respawn
           \/ Drain \/ UNCHANGED vars \/ \E ended \in SUBSET Jobs : Tick(ended) \/ StepFails(ended)
  BY <1>1, <1>9 DEF Hangup, TakeDone, SkipStep, Stall, Mark, RefuseDone, Backoff, Respawn, Drain,
        Signal, Close, Deadline, Exit, Ended, Tick, StepFails, vars, queue, Depth
<1> QED
  BY <1>2, <1>3, <1>4, <1>5, <1>6, <1>7, <1>8, <1>9 DEF Loop, Supervisor

(* A send and its count move the uncounted sends and the depth together.    *)
LEMMA HandlersKeepDepth ==
    ASSUME IInv, DepthInv, Handlers, NoneDropped
    PROVE  DepthInv'
<1> DEFINE n == Cardinality(Uncounted)
<1>0. /\ handler \in [Jobs -> {"new", "checked", "sent", "waiting", "done"}]
      /\ chan \in Seq(Jobs) /\ Len(chan) \in Nat /\ Len(pending) \in Nat
      /\ count = [requests |-> count.requests, admitted |-> count.admitted, dropped |-> count.dropped]
      /\ count.admitted \in Nat /\ count.requests \in Nat
  BY DEF IInv, TypeOK
<1>1. /\ IsFiniteSet(Uncounted) /\ n \in Nat
      /\ count.requests + n = count.admitted + Len(chan) + Len(pending)
  BY FS_CardinalityType DEF DepthInv, QueueDepthExact, NoneDropped, Uncounted
<1>2. SUFFICES /\ IsFiniteSet(Uncounted')
               /\ count'.requests + Cardinality(Uncounted') = count'.admitted + Len(chan') + Len(pending')
  BY DEF DepthInv, QueueDepthExact, Uncounted
<1>3. PICK j \in Jobs : \/ Accept(j) \/ Refuse(j) \/ Send(j) \/ SendFails(j)
                        \/ CountRequest(j) \/ Reply(j) \/ Disconnect(j)
  BY DEF Handlers
<1>4. CASE Send(j)
  <2>1. Uncounted' = Uncounted \cup {j} /\ j \notin Uncounted
    BY <1>0, <1>4 DEF Send, Uncounted
  <2>2. IsFiniteSet(Uncounted') /\ Cardinality(Uncounted') = n + 1
    BY <1>1, <2>1, FS_AddElement
  <2>3. Len(chan') = Len(chan) + 1
    BY <1>0, <1>4, AppendElems DEF Send
  <2>4. count' = count /\ pending' = pending
    BY <1>4 DEF Send
  <2> HIDE DEF n
  <2> QED
    BY <1>0, <1>1, <2>2, <2>3, <2>4
<1>5. CASE CountRequest(j)
  <2>1. Uncounted' = Uncounted \ {j} /\ j \in Uncounted
    BY <1>0, <1>5 DEF CountRequest, Uncounted
  <2>2. IsFiniteSet(Uncounted') /\ Cardinality(Uncounted') = n - 1
    BY <1>1, <2>1, FS_RemoveElement
  <2>3. count'.requests = count.requests + 1 /\ count'.admitted = count.admitted
    BY <1>0, <1>5 DEF CountRequest
  <2>4. chan' = chan /\ pending' = pending
    BY <1>5 DEF CountRequest, queue
  <2> QED
    BY <1>0, <1>1, <2>2, <2>3, <2>4
<1>6. CASE Accept(j) \/ Refuse(j) \/ SendFails(j) \/ Reply(j) \/ Disconnect(j)
  <2>1. Uncounted' = Uncounted
    BY <1>0, <1>6 DEF Accept, Refuse, SendFails, Reply, Disconnect, Finish, Uncounted
  <2>2. UNCHANGED <<chan, pending, count>>
    BY <1>6 DEF Accept, Refuse, SendFails, Reply, Disconnect, queue
  <2> QED
    BY <1>1, <2>1, <2>2
<1> QED
  BY <1>3, <1>4, <1>5, <1>6

(* The metric of every step: counted again when no sender was dropped, and  *)
(* out of use for good once one was.                                        *)
LEMMA DepthKept == ASSUME IInv, DepthInv, [Next]_vars PROVE DepthInv'
<1>1. NoneDropped' => NoneDropped
  BY DroppedStays DEF NoneDropped
<1>2. CASE Handlers
  <2>1. CASE NoneDropped
    BY <1>2, <2>1, HandlersKeepDepth
  <2>2. CASE ~NoneDropped
    <3>1. IsFiniteSet(Uncounted')
      <4>1. PICK j \in Jobs : \/ Accept(j) \/ Refuse(j) \/ Send(j) \/ SendFails(j)
                              \/ CountRequest(j) \/ Reply(j) \/ Disconnect(j)
        BY <1>2 DEF Handlers
      <4>2. Uncounted' \in SUBSET (Uncounted \cup {j})
        BY <4>1 DEF IInv, TypeOK, Accept, Refuse, Send, SendFails, CountRequest, Reply, Disconnect,
              Finish, Uncounted
      <4>3. IsFiniteSet(Uncounted \cup {j})
        BY FS_AddElement DEF DepthInv
      <4> QED
        BY <4>2, <4>3, FS_Subset
    <3> QED
      BY <1>1, <2>2, <3>1 DEF DepthInv, QueueDepthExact, NoneDropped
  <2> QED
    BY <2>1, <2>2
<1>3. CASE Loop \/ Supervisor \/ Drain \/ UNCHANGED vars
  <2>1. handler' = handler
    BY <1>3 DEF Loop, Supervisor, Drain, Recv, Hangup, Take, TakeDone, DrainQueue, Place, SkipStep,
          Tick, StepFails, Stall, StallOut, Panic, Mark, RefuseQueued, RefuseDone, Backoff,
          Respawn, Disable, Signal, Close, Deadline, Exit, Ended, vars, clients
  <2>2. Uncounted' = Uncounted
    BY <2>1 DEF Uncounted
  <2>3. NoneDropped' => QueueDepthExact'
    <3> HAVE NoneDropped'
    <3>1. count'.requests = count.requests /\ Depth' = Depth
      BY <1>3, ServerKeepsDepth
    <3>2. count.requests + Cardinality(Uncounted) = Depth
      BY <1>1 DEF DepthInv, QueueDepthExact, NoneDropped, Uncounted, Depth
    <3> QED
      BY <2>2, <3>1, <3>2 DEF QueueDepthExact, Uncounted, Depth
  <2> QED
    BY <2>2, <2>3 DEF DepthInv, QueueDepthExact, NoneDropped
<1> QED
  BY <1>2, <1>3 DEF Next

(* minfer_queue_depth is exact, up to the sends not counted yet, as long as *)
(* no sender was dropped: every path by which a job leaves the queue counts *)
(* it once.                                                                 *)
THEOREM DepthExact == Spec => []QueueDepthExact
<1>1. Init => DepthInv
  <2> SUFFICES ASSUME Init PROVE DepthInv
    OBVIOUS
  <2>1. Uncounted = {} /\ Len(chan) = 0 /\ Len(pending) = 0 /\ count.requests = 0 /\ count.admitted = 0
    BY DEF Init, Uncounted
  <2>2. IsFiniteSet(Uncounted) /\ Cardinality(Uncounted) = 0
    BY <2>1, FS_EmptySet
  <2>3. count.requests + Cardinality(Uncounted) = count.admitted + Len(chan) + Len(pending)
    BY <2>1, <2>2
  <2> QED
    BY <2>2, <2>3 DEF DepthInv, QueueDepthExact, Uncounted
<1>2. IInv /\ DepthInv /\ [Next]_vars => DepthInv'
  BY DepthKept
<1>3. DepthInv => QueueDepthExact
  BY DEF DepthInv
<1> QED
  BY <1>1, <1>2, <1>3, Invariance, PTL DEF Spec

-----------------------------------------------------------------------------
(* The order of admission.  Only a placed job starts to run; the placed     *)
(* ones are among the first of the deque, and of those none waits on.       *)

(* Two sequences in a row: the deque, then the channel.                     *)
LEMMA LineElems ==
    ASSUME NEW S, NEW p \in Seq(S), NEW c \in Seq(S)
    PROVE  LET line == p \o c
           IN  /\ DOMAIN line = 1 .. Len(p) + Len(c) /\ Len(p) \in Nat /\ Len(c) \in Nat
               /\ \A i \in 1 .. Len(p) : line[i] = p[i]
               /\ \A i \in DOMAIN line : i > Len(p) => line[i] \in Elems(c)
               /\ Elems(line) = Elems(p) \cup Elems(c)
<1> DEFINE line == p \o c
<1>1. /\ DOMAIN line = 1 .. Len(p) + Len(c) /\ Len(p) \in Nat /\ Len(c) \in Nat
      /\ DOMAIN p = 1 .. Len(p) /\ DOMAIN c = 1 .. Len(c)
      /\ \A i \in 1 .. Len(p) : line[i] = p[i]
      /\ \A i \in 1 .. Len(c) : line[i + Len(p)] = c[i]
  OBVIOUS
<1> HIDE DEF line
<1>2. ASSUME NEW i \in DOMAIN line, i > Len(p) PROVE line[i] \in Elems(c)
  <2>1. i - Len(p) \in 1 .. Len(c) /\ line[i] = c[i - Len(p)]
    <3>1. i - Len(p) \in 1 .. Len(c) /\ (i - Len(p)) + Len(p) = i
      BY <1>1, <1>2
    <3> QED
      BY <1>1, <3>1
  <2> QED
    BY <1>1, <2>1 DEF Elems
<1>3. Elems(line) \subseteq Elems(p) \cup Elems(c)
  BY <1>1, <1>2 DEF Elems
<1>4. Elems(p) \subseteq Elems(line)
  BY <1>1 DEF Elems
<1>5. Elems(c) \subseteq Elems(line)
  <2>1. ASSUME NEW i \in 1 .. Len(c) PROVE i + Len(p) \in DOMAIN line /\ line[i + Len(p)] = c[i]
    BY <1>1
  <2> QED
    BY <1>1, <2>1 DEF Elems
<1> QED
  BY <1>1, <1>2, <1>3, <1>4, <1>5 DEF line

(* Only admission starts a run: elsewhere a job that runs after a step ran  *)
(* before it.                                                               *)
LEMMA OnlyPlaceStarts ==
    ASSUME IInv, [Next]_vars, NEW x \in Jobs, left[x] = 0, left'[x] > 0
    PROVE  \E placed, ended \in SUBSET Jobs : Place(placed, ended) /\ x \in placed
<1>0. left \in [Jobs -> 0 .. RunSteps]
  BY DEF IInv, TypeOK
<1>1. left' # left
  OBVIOUS
<1>2. CASE \E ended \in SUBSET Jobs : Tick(ended) \/ StepFails(ended)
  BY <1>0, <1>2 DEF Tick, StepFails, Running
<1>3. CASE StallOut \/ Panic
  BY <1>3 DEF StallOut, Panic
<1>4. CASE \E placed, ended \in SUBSET Jobs : Place(placed, ended)
  <2>1. PICK placed \in SUBSET Jobs, ended \in SUBSET Jobs : Place(placed, ended)
    BY <1>4
  <2>2. left'[x] = IF x \in ended THEN 0 ELSE IF x \in placed THEN RunSteps ELSE left[x]
    BY <2>1 DEF Place
  <2>3. x \in placed
    BY <2>2
  <2> QED
    BY <2>1, <2>3
<1>5. CASE \/ Handlers \/ Supervisor \/ Drain \/ UNCHANGED vars
           \/ Recv \/ Hangup \/ Take \/ TakeDone \/ DrainQueue \/ SkipStep \/ Stall
  BY <1>1, <1>5 DEF Handlers, Supervisor, Drain, Accept, Refuse, Send, SendFails, CountRequest,
        Reply, Disconnect, Recv, Hangup, Take, TakeDone, DrainQueue, SkipStep, Stall, Mark,
        RefuseQueued, RefuseDone, Backoff, Respawn, Disable, Signal, Close, Deadline, Exit,
        Ended, vars, worker
<1> QED
  BY <1>2, <1>3, <1>4, <1>5 DEF Next, Loop

(* An admission that places the job at k leaves no job ahead of it waiting. *)
LEMMA OlderLeave ==
    ASSUME IInv, NEW placed \in SUBSET Jobs, NEW ended \in SUBSET Jobs, Place(placed, ended),
           NEW i \in DOMAIN (pending \o chan), NEW k \in DOMAIN (pending \o chan),
           i < k, (pending \o chan)[k] \in placed
    PROVE  (pending \o chan)[i] \notin Elems(pending' \o chan')
<1> DEFINE line == pending \o chan
<1>0. /\ pending \in Seq(Jobs) /\ chan \in Seq(Jobs) /\ Distinct(pending)
      /\ Elems(chan) \cap Elems(pending) = {} /\ DOMAIN pending = 1 .. Len(pending)
  BY DEF IInv, TypeOK, OneHolder
<1>1. /\ DOMAIN line = 1 .. Len(pending) + Len(chan) /\ Len(pending) \in Nat /\ Len(chan) \in Nat
      /\ \A m \in 1 .. Len(pending) : line[m] = pending[m]
      /\ \A m \in DOMAIN line : m > Len(pending) => line[m] \in Elems(chan)
  BY <1>0, LineElems
<1>2. /\ Group \in Seq(Jobs) /\ Len(Group) = GroupLen /\ GroupLen \in Nat
      /\ Kept \in Seq(Jobs) /\ Elems(Group) \cap Elems(Kept) = {}
      /\ Elems(Group) \subseteq Elems(pending)
  BY GroupCuts
<1>3. GroupLen <= Len(pending)
  BY <1>1, CutLengths
<1>4. DOMAIN Group = 1 .. GroupLen /\ \A m \in 1 .. GroupLen : Group[m] = pending[m]
  BY <1>0, <1>1, <1>2, <1>3 DEF Group
<1>5. line[k] \in Elems(Group) /\ chan' = chan /\ pending' = Kept
  BY DEF Place
<1> HIDE DEF line
<1>6. k <= Len(pending) /\ k \in 1 .. Len(pending)
  BY <1>0, <1>1, <1>2, <1>5 DEF line
<1>7. k <= GroupLen
  <2>1. PICK g \in 1 .. GroupLen : Group[g] = line[k]
    BY <1>4, <1>5 DEF Elems
  <2>2. g \in 1 .. Len(pending) /\ pending[g] = pending[k]
    BY <1>1, <1>2, <1>3, <1>4, <1>6, <2>1
  <2>3. g = k
    BY <1>0, <1>6, <2>2 DEF Distinct
  <2> QED
    BY <2>1, <2>3
<1>8. i \in 1 .. GroupLen /\ i \in 1 .. Len(pending)
  BY <1>1, <1>2, <1>3, <1>6, <1>7 DEF line
<1>9. line[i] \in Elems(Group)
  BY <1>1, <1>4, <1>8 DEF Elems
<1>10. line[i] \notin Elems(Kept) \cup Elems(chan)
  BY <1>0, <1>2, <1>9
<1>11. Elems(Kept \o chan) = Elems(Kept) \cup Elems(chan)
  BY <1>0, <1>2, LineElems
<1> QED
  BY <1>5, <1>10, <1>11 DEF line

(* serve_loop's "a younger arrival cannot overtake an older one": when a    *)
(* job gets a slot, no job that was ahead of it in the line still waits.    *)
THEOREM FirstComeFirstServed == Spec => NoOvertaking
<1>1. ASSUME IInv, [Next]_vars PROVE [NoneOvertakes]_vars
  <2> SUFFICES ASSUME NEW i \in DOMAIN (pending \o chan), NEW k \in DOMAIN (pending \o chan),
                      i < k, left'[(pending \o chan)[k]] > 0
               PROVE  (pending \o chan)[i] \notin Elems(pending' \o chan')
    BY DEF NoneOvertakes
  <2> DEFINE x == (pending \o chan)[k]
  <2>1. /\ pending \in Seq(Jobs) /\ chan \in Seq(Jobs) /\ left \in [Jobs -> 0 .. RunSteps]
        /\ Running \cap (Elems(chan) \cup Elems(pending)) = {}
    BY <1>1 DEF IInv, TypeOK, OneHolder
  <2>2. x \in Elems(pending) \cup Elems(chan)
    <3>1. Elems(pending \o chan) = Elems(pending) \cup Elems(chan)
      BY <2>1, LineElems
    <3>2. x \in Elems(pending \o chan)
      BY DEF Elems
    <3> QED
      BY <3>1, <3>2
  <2>3. x \in Jobs
    BY <2>1, <2>2 DEF Elems
  <2>4. left[x] = 0
    <3>1. x \notin Running
      BY <2>1, <2>2
    <3>2. left[x] \in 0 .. RunSteps
      BY <2>1, <2>3
    <3>3. ~(left[x] > 0)
      BY <2>3, <3>1 DEF Running
    <3> QED
      BY <3>2, <3>3, ServeAssumption
  <2> HIDE DEF x
  <2>5. PICK placed \in SUBSET Jobs, ended \in SUBSET Jobs : Place(placed, ended) /\ x \in placed
    <3>1. left'[x] > 0
      BY DEF x
    <3> QED
      BY <1>1, <2>3, <2>4, <3>1, OnlyPlaceStarts
  <2> QED
    BY <1>1, <2>5, OlderLeave DEF x
<1> QED
  BY <1>1, Invariance, PTL DEF Spec, NoOvertaking

-----------------------------------------------------------------------------
(* Refinement: the steps of the server are steps of RequestService. *)

(* A step that moves one handler moves that client's view and no other.     *)
LEMMA OneClientMoves ==
    ASSUME TypeOK, NEW j \in Jobs, NEW h, NEW r,
           handler' = [handler EXCEPT ![j] = h], reply' = [reply EXCEPT ![j] = r]
    PROVE  [i \in Jobs |-> Seen(i)]' =
               [[i \in Jobs |-> Seen(i)] EXCEPT ![j] = Seen(j)']
  BY DEF TypeOK, Seen

(* A step that moves no handler leaves every client's view alone.           *)
LEMMA NoClientMoves ==
    ASSUME UNCHANGED <<handler, reply>>
    PROVE  [i \in Jobs |-> Seen(i)]' = [i \in Jobs |-> Seen(i)]
  BY DEF Seen

(* Every handler step is what RequestService allows that client.            *)
LEMMA HandlersImplement == ASSUME IInv, Handlers PROVE [Service!Next]_(Service!vars)
<1> DEFINE st == [i \in Jobs |-> Seen(i)]
<1> USE DEF Up, Service!Next, Service!vars
<1>0. PICK j \in Jobs : \/ Accept(j) \/ Refuse(j) \/ Send(j) \/ SendFails(j)
                        \/ CountRequest(j) \/ Reply(j) \/ Disconnect(j)
  BY DEF Handlers
<1>t. TypeOK /\ st[j] = Seen(j)
  BY DEF IInv
<1>r. reply' = [reply EXCEPT ![j] = reply'[j]] /\ handler' = [handler EXCEPT ![j] = handler'[j]]
  BY <1>0, <1>t DEF TypeOK, Accept, Refuse, Send, SendFails, CountRequest, Reply, Disconnect, Finish
<1>s. st' = [st EXCEPT ![j] = Seen(j)']
  BY <1>t, <1>r, OneClientMoves
<1>u. UNCHANGED server /\ UNCHANGED rxOpen
  BY <1>0 DEF Accept, Refuse, Send, SendFails, CountRequest, Reply, Disconnect, queue
<1>e. Up
  BY <1>0 DEF Accept, Refuse, Send, SendFails, CountRequest, Reply, Disconnect
<1>same. ASSUME Seen(j)' = Seen(j) PROVE st' = st
  BY <1>s, <1>t, <1>same
<1>1. CASE Accept(j) \/ CountRequest(j)
  <2>1. Seen(j)' = Seen(j)
    BY <1>1, <1>t DEF Accept, CountRequest, Seen, TypeOK
  <2> QED
    BY <1>same, <1>u, <2>1
<1>2. CASE Refuse(j) \/ SendFails(j)
  <2>1. Seen(j) = "new" /\ Seen(j)' = "refused"
    BY <1>2, <1>t DEF Refuse, SendFails, Finish, Seen, TypeOK
  <2>2. Service!Refuse(j)
    BY <1>s, <1>t, <1>u, <2>1 DEF Service!Refuse
  <2> QED
    BY <1>e, <2>2
<1>3. CASE Send(j)
  <2>1. Seen(j) = "new" /\ Seen(j)' = "open" /\ rxOpen
    BY <1>3, <1>t DEF Send, Seen, TypeOK
  <2>2. Service!Accept(j)
    BY <1>s, <1>t, <1>u, <2>1 DEF Service!Accept
  <2> QED
    BY <1>e, <2>2
<1>4. CASE Reply(j)
  <2>1. Seen(j) = "open"
    BY <1>4 DEF Reply, Seen
  <2>2. CASE mail[j] = "event"
    <3>1. Seen(j)' = "answered"
      BY <1>4, <1>t, <2>2 DEF Reply, Finish, Seen, TypeOK
    <3>2. Service!Answer(j)
      BY <1>s, <1>t, <1>u, <2>1, <3>1 DEF Service!Answer
    <3> QED
      BY <1>e, <3>2 DEF Service!Resolve
  <2>3. CASE mail[j] # "event"
    <3>1. mail[j] = "closed"
      BY <1>4, <1>t, <2>3 DEF Reply, IInv, SentOnce, TypeOK
    <3>2. ~rxOpen
      BY <3>1 DEF IInv, DropsOnlyWhenDown
    <3>3. Seen(j)' = "empty"
      BY <1>4, <1>t, <2>3 DEF Reply, Finish, Seen, TypeOK
    <3>4. Service!Lose(j)
      BY <1>s, <1>t, <1>u, <2>1, <3>2, <3>3 DEF Service!Lose
    <3> QED
      BY <1>e, <3>4 DEF Service!Resolve
  <2> QED
    BY <2>2, <2>3
<1>5. CASE Disconnect(j)
  <2>1. Seen(j) \in {"new", "open"} /\ Seen(j)' = "left"
    BY <1>5, <1>t DEF Disconnect, Finish, Seen, TypeOK
  <2>2. Service!Leave(j)
    BY <1>s, <1>t, <1>u, <2>1 DEF Service!Leave
  <2> QED
    BY <1>e, <2>2
<1> QED
  BY <1>0, <1>1, <1>2, <1>3, <1>4, <1>5

(* The worker, the supervisor and the drain show the client nothing but the *)
(* service going down and the process ending.                               *)
LEMMA ServerImplements ==
    ASSUME IInv, Loop \/ Supervisor \/ Drain \/ UNCHANGED vars
    PROVE  [Service!Next]_(Service!vars)
<1> USE DEF Up, Service!Next, Service!vars
<1>1. UNCHANGED <<handler, reply>>
  BY DEF Loop, Supervisor, Drain, Recv, Hangup, Take, TakeDone, DrainQueue, Place, SkipStep,
        Tick, StepFails, Stall, StallOut, Panic, Mark, RefuseQueued, RefuseDone, Backoff,
        Respawn, Disable, Signal, Close, Deadline, Exit, Ended, vars, clients
<1>2. [i \in Jobs |-> Seen(i)]' = [i \in Jobs |-> Seen(i)]
  BY <1>1, NoClientMoves
<1>3. \/ UNCHANGED <<rxOpen, server>>
      \/ Up /\ rxOpen' = FALSE /\ UNCHANGED server
      \/ UNCHANGED rxOpen /\ server = "serving" /\ server' = "closed"
      \/ UNCHANGED rxOpen /\ Up /\ server' = "exited"
  BY DEF Loop, Supervisor, Drain, Recv, Hangup, Take, TakeDone, DrainQueue, Place, SkipStep,
        Tick, StepFails, Stall, StallOut, Panic, Mark, RefuseQueued, RefuseDone, Backoff,
        Respawn, Disable, Signal, Close, Deadline, Exit, Ended, vars, queue
<1>4. rxOpen \in BOOLEAN
  BY DEF IInv, TypeOK
<1> QED
  BY <1>2, <1>3, <1>4 DEF Service!GoDown, Service!Exit

(* The server implements RequestService: it accepts nothing once the        *)
(* receiver is gone, resolves a request once, and answers with nothing only *)
(* when the worker is down for good.                                        *)
THEOREM ServiceImplemented == Spec => Service!Init /\ [][Service!Next]_(Service!vars)
<1>1. Init => Service!Init
  BY DEF Init, Service!Init, Seen, Up
<1>2. IInv /\ [Next]_vars => [Service!Next]_(Service!vars)
  BY HandlersImplement, ServerImplements DEF Next
<1> QED
  BY <1>1, <1>2, Invariance, PTL DEF Spec
=============================================================================
