--------------------------- MODULE EventBusProofs ---------------------------
(***************************************************************************)
(* What TLAPS proves of the event bus, for any table of subscribers, any   *)
(* number of dispatchers and any retention: its types, that no dispatch on *)
(* record skipped a subscriber, that a job is created twice only after its *)
(* queue forgot it, and that the bus implements EventDelivery.             *)
(*                                                                         *)
(* Whatever a step does to Redis is one of two effects: it adds a job, or  *)
(* it moves jobs that exist (Moves).  Each effect has its lemmas; the step *)
(* lemmas name the effect of each action.                                  *)
(***************************************************************************)
EXTENDS EventBus, SequenceTheorems, TLAPS

-----------------------------------------------------------------------------
(* Types                                                                   *)

\* A list of job ids stays one when an id is appended and the oldest dropped,
\* and what is dropped are job ids.
LEMMA ListType ==
  ASSUME NEW list \in Seq(JobIds), NEW id \in JobIds, NEW keep \in Nat
  PROVE  LET l == Append(list, id) IN
         /\ Kept(l, keep) \in Seq(JobIds)
         /\ Dropped(l, keep) \subseteq JobIds
<1> DEFINE l == Append(list, id)
<1>1. l \in Seq(JobIds) /\ l # << >>
  OBVIOUS
<1>2. Tail(l) \in Seq(JobIds) /\ Head(l) \in JobIds
  BY <1>1
<1> QED
  BY <1>1, <1>2 DEF Kept, Dropped

\* The ids the actions use are job ids of a queue.
LEMMA IdTypes ==
  /\ \A e \in Entities : DispatchId(e) \in JobIds
  /\ \A s \in Subscribed, e \in Entities : SubscriberId(s, e) \in JobIds
  /\ \A n \in 1 .. Len(Subscribers) : Subscribers[n] \in Subscribed
  /\ \A id \in JobIds : QueueOf[id[1]] \in Queues
  /\ Len(Subscribers) \in Nat
<1>1. Subscribers \in Seq(Subscribed)
  BY TableAssumption
<1> QED
  BY <1>1 DEF JobIds, DispatchId, SubscriberId, Names, Queues

\* The records of Redis, without the rest of TypeOK.
RedisType ==
  /\ jobs \in [JobIds -> Job]
  /\ completed \in [Queues -> Seq(JobIds)]
  /\ failed \in [Queues -> Seq(JobIds)]
  /\ created \in [JobIds -> Nat]
  /\ evicted \subseteq JobIds

\* queue.add keeps the types.
LEMMA AddType ==
  ASSUME RedisType, NEW id \in JobIds, Add(id)
  PROVE  RedisType'
<1>1. [NoJob EXCEPT !.state = "waiting"] \in Job
  BY OptionsAssumption DEF NoJob, Job
<1>2. created[id] + 1 \in Nat
  BY DEF RedisType
<1> QED
  BY <1>1, <1>2 DEF RedisType, Add

\* So do the ways a job ends or waits again.
LEMMA DoneType ==
  ASSUME RedisType, NEW id \in JobIds, NEW j \in Job,
         NEW gone \in SUBSET JobIds, Done(id, j, gone)
  PROVE  jobs' \in [JobIds -> Job] /\ evicted' \subseteq JobIds
<1>1. NoJob \in Job
  BY OptionsAssumption DEF NoJob, Job
<1> QED
  BY <1>1 DEF RedisType, Done

\* Completing a job keeps its record and the queue's lists well typed.
LEMMA CompleteType ==
  ASSUME RedisType, NEW id \in JobIds, Complete(id)
  PROVE  RedisType'
<1> DEFINE q == QueueOf[id[1]]
           list == Append(completed[q], id)
           j == [jobs[id] EXCEPT !.state = "completed"]
<1>1. q \in Queues /\ completed[q] \in Seq(JobIds)
  BY IdTypes DEF RedisType
<1>2. /\ Kept(list, KeepCompleted) \in Seq(JobIds)
      /\ Dropped(list, KeepCompleted) \subseteq JobIds
  BY <1>1, ListType, OptionsAssumption
<1>3. j \in Job
  BY DEF RedisType, Job
<1>4. jobs' \in [JobIds -> Job] /\ evicted' \subseteq JobIds
  BY <1>2, <1>3, DoneType DEF Complete
<1> QED
  BY <1>1, <1>2, <1>4 DEF RedisType, Complete

\* So does giving a job up.
LEMMA GiveUpType ==
  ASSUME RedisType, NEW id \in JobIds, NEW k \in Job, GiveUp(id, k)
  PROVE  RedisType'
<1> DEFINE q == QueueOf[id[1]]
           list == Append(failed[q], id)
           j == [k EXCEPT !.state = "failed"]
<1>1. q \in Queues /\ failed[q] \in Seq(JobIds)
  BY IdTypes DEF RedisType
<1>2. /\ Kept(list, KeepFailed) \in Seq(JobIds)
      /\ Dropped(list, KeepFailed) \subseteq JobIds
  BY <1>1, ListType, OptionsAssumption
<1>3. j \in Job
  BY DEF Job
<1>4. jobs' \in [JobIds -> Job] /\ evicted' \subseteq JobIds
  BY <1>2, <1>3, DoneType DEF GiveUp
<1> QED
  BY <1>1, <1>2, <1>4 DEF RedisType, GiveUp

\* So does putting it back to wait.
LEMMA RequeueType ==
  ASSUME RedisType, NEW id \in JobIds, NEW k \in Job, Requeue(id, k)
  PROVE  RedisType'
<1>1. [k EXCEPT !.state = "waiting"] \in Job
  BY DEF Job
<1> QED
  BY <1>1 DEF RedisType, Requeue

\* So does a throw, which is one of the two.
LEMMA ThrowType ==
  ASSUME RedisType, NEW id \in JobIds, Throw(id)
  PROVE  RedisType'
<1> DEFINE j == [jobs[id] EXCEPT !.attempts = @ + 1]
<1>1. jobs[id] \in Job /\ jobs[id].attempts + 1 \in Nat
  BY DEF RedisType, Job
<1>2. j \in Job
  BY <1>1 DEF Job
<1>3. Requeue(id, j) \/ GiveUp(id, j)
  BY DEF Throw
<1> QED
  BY <1>2, <1>3, RequeueType, GiveUpType

\* So does losing the lock, which is one of the two as well.
LEMMA StallType ==
  ASSUME RedisType, NEW id \in JobIds, Stall(id)
  PROVE  RedisType'
<1>1. CASE jobs[id].stalls < MaxStalls
  <2> DEFINE j == [jobs[id] EXCEPT !.stalls = @ + 1]
  <2>1. /\ jobs[id] \in Job
        /\ jobs[id].stalls + 1 \in 0 .. MaxStalls
    BY <1>1, OptionsAssumption DEF RedisType, Job
  <2>2. j \in Job
    BY <2>1 DEF Job
  <2> QED
    BY <1>1, <2>2, RequeueType DEF Stall
<1>2. CASE ~ (jobs[id].stalls < MaxStalls)
  BY <1>2, GiveUpType DEF RedisType, Stall
<1> QED
  BY <1>1, <1>2

\* TypeOK is RedisType and the rest.
LEMMA TypeParts ==
  TypeOK <=> /\ RedisType
             /\ dispatcher \in [Dispatchers -> Loop \cup {Idle}]
             /\ publishes \in [Entities -> 0 .. MaxPublishes]
             /\ faults \in 0 .. MaxFaults
BY DEF TypeOK, RedisType

\* A busy dispatcher's loop has an entity and a place in the table.
LEMMA BusyLoop ==
  ASSUME TypeOK, NEW d \in Dispatchers, dispatcher[d].busy
  PROVE  /\ dispatcher[d] \in Loop
         /\ dispatcher[d].entity \in Entities
         /\ dispatcher[d].next \in 1 .. Len(Subscribers) + 1
<1>1. dispatcher[d] \in Loop
  BY DEF TypeOK, Idle
<1> QED
  BY <1>1 DEF Loop

\* A counted fault stays within the bound of faults.
LEMMA FaultType ==
  ASSUME TypeOK, Fault
  PROVE  faults' \in 0 .. MaxFaults
BY OptionsAssumption DEF TypeOK, Fault

\* Every step keeps the types.
LEMMA NextType ==
  ASSUME TypeOK, [Next]_vars
  PROVE  TypeOK'
<1> USE DEF redis
<1>1. ASSUME NEW e \in Entities, Publish(e)
      PROVE  TypeOK'
  <2>1. RedisType'
    BY <1>1, TypeParts, IdTypes, AddType DEF Publish
  <2>2. publishes' \in [Entities -> 0 .. MaxPublishes]
    BY <1>1, OptionsAssumption DEF Publish, TypeOK
  <2> QED
    BY <1>1, <2>1, <2>2 DEF Publish, TypeOK, RedisType
<1>2. ASSUME NEW d \in Dispatchers, NEW e \in Entities, TakeEvent(d, e)
      PROVE  TypeOK'
  <2> DEFINE l == [busy |-> TRUE, entity |-> e, next |-> 1, locked |-> TRUE]
             j == [jobs[DispatchId(e)] EXCEPT !.state = "active"]
  <2>1. l \in Loop
    BY IdTypes DEF Loop
  <2>2. j \in Job
    BY IdTypes DEF TypeOK, Job
  <2>3. jobs' = [jobs EXCEPT ![DispatchId(e)] = j]
    BY <1>2 DEF TakeEvent
  <2>4. jobs' \in [JobIds -> Job]
    BY <2>2, <2>3 DEF TypeOK
  <2> QED
    BY <1>2, <2>1, <2>4 DEF TakeEvent, TypeOK
<1>3. ASSUME NEW d \in Dispatchers, DispatchNext(d)
      PROVE  TypeOK'
  <2> DEFINE l == dispatcher[d]
             m == [l EXCEPT !.next = @ + 1]
  <2>1. l \in Loop /\ l.entity \in Entities
        /\ l.next \in 1 .. Len(Subscribers) + 1
    BY <1>3, BusyLoop DEF DispatchNext
  <2>2. l.next \in 1 .. Len(Subscribers)
    BY <1>3, <2>1, IdTypes DEF DispatchNext
  <2>3. SubscriberId(Subscribers[l.next], l.entity) \in JobIds
    BY <2>1, <2>2, IdTypes
  <2>4. RedisType'
    BY <1>3, <2>3, TypeParts, AddType DEF DispatchNext
  <2>5. l.next + 1 \in 1 .. Len(Subscribers) + 1
    BY <2>2, IdTypes
  <2>6. m \in Loop
    BY <2>1, <2>5 DEF Loop
  <2>7. dispatcher' = [dispatcher EXCEPT ![d] = m]
    BY <1>3 DEF DispatchNext
  <2> QED
    BY <1>3, <2>4, <2>6, <2>7 DEF DispatchNext, TypeOK, RedisType
<1>4. ASSUME NEW d \in Dispatchers, FinishDispatch(d)
      PROVE  TypeOK'
  <2>1. dispatcher[d].entity \in Entities
    BY <1>4, BusyLoop DEF FinishDispatch
  <2>2. RedisType'
    BY <1>4, <2>1, TypeParts, IdTypes, CompleteType
    DEF FinishDispatch, RedisType
  <2> QED
    BY <1>4, <2>2 DEF FinishDispatch, TypeOK, RedisType
<1>5. ASSUME NEW d \in Dispatchers, DispatchThrows(d)
      PROVE  TypeOK'
  <2>1. dispatcher[d].entity \in Entities
    BY <1>5, BusyLoop DEF DispatchThrows
  <2>2. RedisType'
    BY <1>5, <2>1, TypeParts, IdTypes, ThrowType
    DEF DispatchThrows, RedisType
  <2>3. faults' \in 0 .. MaxFaults
    BY <1>5, FaultType DEF DispatchThrows
  <2> QED
    BY <1>5, <2>2, <2>3 DEF DispatchThrows, TypeOK, RedisType
<1>6. ASSUME NEW d \in Dispatchers, DispatchStalls(d)
      PROVE  TypeOK'
  <2> DEFINE m == [dispatcher[d] EXCEPT !.locked = FALSE]
  <2>1. dispatcher[d] \in Loop /\ dispatcher[d].entity \in Entities
    BY <1>6, BusyLoop DEF DispatchStalls
  <2>2. RedisType'
    BY <1>6, <2>1, TypeParts, IdTypes, StallType DEF DispatchStalls
  <2>3. faults' \in 0 .. MaxFaults
    BY <1>6, FaultType DEF DispatchStalls
  <2>4. m \in Loop
    BY <2>1 DEF Loop
  <2>5. \/ dispatcher' = [dispatcher EXCEPT ![d] = Idle]
        \/ dispatcher' = [dispatcher EXCEPT ![d] = m]
    BY <1>6 DEF DispatchStalls
  <2> QED
    BY <1>6, <2>2, <2>3, <2>4, <2>5 DEF DispatchStalls, TypeOK, RedisType
<1>7. ASSUME NEW s \in Subscribed, NEW e \in Entities,
             SubscriberCompletes(s, e)
      PROVE  TypeOK'
  <2>1. RedisType'
    BY <1>7, TypeParts, IdTypes, CompleteType DEF SubscriberCompletes
  <2> QED
    BY <1>7, <2>1 DEF SubscriberCompletes, TypeOK, RedisType
<1>8. ASSUME NEW s \in Subscribed, NEW e \in Entities, SubscriberThrows(s, e)
      PROVE  TypeOK'
  <2>1. RedisType'
    BY <1>8, TypeParts, IdTypes, ThrowType DEF SubscriberThrows
  <2>2. faults' \in 0 .. MaxFaults
    BY <1>8, FaultType DEF SubscriberThrows
  <2> QED
    BY <1>8, <2>1, <2>2 DEF SubscriberThrows, TypeOK, RedisType
<1>9. ASSUME NEW s \in Subscribed, NEW e \in Entities, SubscriberStalls(s, e)
      PROVE  TypeOK'
  <2>1. RedisType'
    BY <1>9, TypeParts, IdTypes, StallType DEF SubscriberStalls
  <2>2. faults' \in 0 .. MaxFaults
    BY <1>9, FaultType DEF SubscriberStalls
  <2> QED
    BY <1>9, <2>1, <2>2 DEF SubscriberStalls, TypeOK, RedisType
<1>10. CASE UNCHANGED vars
  BY <1>10 DEF vars, TypeOK
<1> QED
  BY <1>1, <1>2, <1>3, <1>4, <1>5, <1>6, <1>7, <1>8, <1>9, <1>10
  DEF Next, DispatchStep

\* The initial state has the types.
LEMMA InitType == Init => TypeOK
BY OptionsAssumption
   DEF Init, TypeOK, Job, NoJob, Idle

\* TypeOK is an invariant of the bus, for any table, retention and number of
\* dispatchers.
THEOREM TypeCorrect == Spec => []TypeOK
<1>1. TypeOK /\ [Next]_vars => TypeOK'
  BY NextType
<1> QED
  BY <1>1, InitType, PTL DEF Spec

-----------------------------------------------------------------------------
(* Nobody skipped, nobody created twice                                    *)

\* A step that creates no job, loses none but those it marks as evicted, and
\* completes no job but those in done.
Moves(done) ==
  /\ created' = created
  /\ evicted \subseteq evicted'
  /\ \A id \in JobIds :
       /\ jobs'[id].state # "absent" => created[id] > 0
       /\ jobs'[id].state = "absent" => ~ Exists(id) \/ id \in evicted'
       /\ jobs'[id].state = "completed" =>
            jobs[id].state = "completed" \/ id \in done

\* What happens to a job that was created is such a step.
LEMMA DoneMoves ==
  ASSUME RedisType, Accounted, NEW id \in JobIds, created[id] > 0,
         NEW j \in Job, j.state \in {"completed", "failed"},
         NEW gone \in SUBSET JobIds, Done(id, j, gone), created' = created
  PROVE  Moves(IF j.state = "completed" THEN {id} ELSE {})
BY DEF RedisType, Accounted, Done, Moves, Exists, NoJob

\* Completing a job that exists only moves jobs that exist.
LEMMA CompleteMoves ==
  ASSUME RedisType, Accounted, NEW id \in JobIds, created[id] > 0,
         Complete(id)
  PROVE  Moves({id})
<1> DEFINE q == QueueOf[id[1]]
           list == Append(completed[q], id)
           j == [jobs[id] EXCEPT !.state = "completed"]
<1>1. completed[q] \in Seq(JobIds)
  BY IdTypes DEF RedisType
<1>2. Dropped(list, KeepCompleted) \subseteq JobIds
  BY <1>1, ListType, OptionsAssumption
<1>3. j \in Job /\ j.state = "completed"
  BY DEF RedisType, Job
<1>4. Done(id, j, Dropped(list, KeepCompleted)) /\ created' = created
  BY DEF Complete
<1> QED
  BY <1>2, <1>3, <1>4, DoneMoves

\* So does giving one up.
LEMMA GiveUpMoves ==
  ASSUME RedisType, Accounted, NEW id \in JobIds, created[id] > 0,
         NEW k \in Job, GiveUp(id, k)
  PROVE  Moves({})
<1> DEFINE q == QueueOf[id[1]]
           list == Append(failed[q], id)
           j == [k EXCEPT !.state = "failed"]
<1>1. failed[q] \in Seq(JobIds)
  BY IdTypes DEF RedisType
<1>2. Dropped(list, KeepFailed) \subseteq JobIds
  BY <1>1, ListType, OptionsAssumption
<1>3. j \in Job /\ j.state = "failed"
  BY DEF Job
<1>4. Done(id, j, Dropped(list, KeepFailed)) /\ created' = created
  BY DEF GiveUp
<1>5. j.state \in {"completed", "failed"} /\ j.state # "completed"
  BY <1>3
<1> QED
  BY <1>2, <1>3, <1>4, <1>5, DoneMoves

\* So does putting one back to wait.
LEMMA RequeueMoves ==
  ASSUME RedisType, Accounted, NEW id \in JobIds, created[id] > 0,
         NEW k \in Job, Requeue(id, k)
  PROVE  Moves({})
<1>1. [k EXCEPT !.state = "waiting"].state = "waiting"
  BY DEF Job
<1> QED
  BY <1>1 DEF RedisType, Accounted, Requeue, Moves, Exists

\* So does a throw.
LEMMA ThrowMoves ==
  ASSUME RedisType, Accounted, NEW id \in JobIds, created[id] > 0, Throw(id)
  PROVE  Moves({})
<1> DEFINE j == [jobs[id] EXCEPT !.attempts = @ + 1]
<1>1. jobs[id] \in Job /\ jobs[id].attempts + 1 \in Nat
  BY DEF RedisType, Job
<1>2. j \in Job
  BY <1>1 DEF Job
<1>3. Requeue(id, j) \/ GiveUp(id, j)
  BY DEF Throw
<1> QED
  BY <1>2, <1>3, RequeueMoves, GiveUpMoves

\* So does losing the lock.
LEMMA StallMoves ==
  ASSUME RedisType, Accounted, NEW id \in JobIds, created[id] > 0, Stall(id)
  PROVE  Moves({})
<1>1. CASE jobs[id].stalls < MaxStalls
  <2> DEFINE j == [jobs[id] EXCEPT !.stalls = @ + 1]
  <2>1. /\ jobs[id] \in Job
        /\ jobs[id].stalls + 1 \in 0 .. MaxStalls
    BY <1>1, OptionsAssumption DEF RedisType, Job
  <2>2. j \in Job
    BY <2>1 DEF Job
  <2> QED
    BY <1>1, <2>2, RequeueMoves DEF Stall
<1>2. CASE ~ (jobs[id].stalls < MaxStalls)
  <2>1. jobs[id] \in Job
    BY DEF RedisType
  <2> QED
    BY <1>2, <2>1, GiveUpMoves DEF Stall
<1> QED
  BY <1>1, <1>2

\* Such a step keeps the accounts.
LEMMA MovesAccounted ==
  ASSUME Accounted, NEW done, Moves(done)
  PROVE  Accounted'
BY DEF Accounted, Moves, Exists

\* So does an add.
LEMMA AddAccounted ==
  ASSUME RedisType, Accounted, NEW id \in JobIds, Add(id)
  PROVE  /\ Accounted'
         /\ created'[id] > 0
         /\ \A i \in JobIds : created[i] > 0 => created'[i] > 0
         /\ \A i \in JobIds \ {id} : created'[i] = created[i]
         /\ \A i \in JobIds :
              jobs'[i].state = "completed" <=> jobs[i].state = "completed"
<1>1. [NoJob EXCEPT !.state = "waiting"].state = "waiting"
  BY DEF NoJob
<1>2. CASE Exists(id)
  BY <1>2 DEF Add, Accounted, Exists
<1>3. CASE ~ Exists(id)
  <2>1. /\ jobs'[id].state = "waiting"
        /\ created'[id] = created[id] + 1
        /\ \A i \in JobIds \ {id} : /\ jobs'[i] = jobs[i]
                                    /\ created'[i] = created[i]
        /\ evicted' = evicted
    BY <1>1, <1>3 DEF Add, RedisType
  <2>2. created[id] \in Nat
    BY DEF RedisType
  <2>3. id \notin evicted => created[id] = 0
    BY <1>3 DEF Accounted
  <2> QED
    BY <1>3, <2>1, <2>2, <2>3 DEF Accounted, Exists
<1> QED
  BY <1>2, <1>3

\* Loops keep up while jobs created stay created and one dispatcher moves on
\* to a loop that keeps up.
LEMMA LoopsKept ==
  ASSUME TypeOK, LoopsKeepUp, NEW d \in Dispatchers,
         NEW l \in Loop \cup {Idle},
         dispatcher' = [dispatcher EXCEPT ![d] = l],
         \A id \in JobIds : created[id] > 0 => created'[id] > 0,
         l.busy => /\ created'[DispatchId(l.entity)] > 0
                   /\ \A k \in 1 .. l.next - 1 :
                        created'[SubscriberId(Subscribers[k], l.entity)] > 0
  PROVE  LoopsKeepUp'
<1> SUFFICES ASSUME NEW x \in Dispatchers, dispatcher'[x].busy
             PROVE  LET m == dispatcher'[x] IN
                    /\ created'[DispatchId(m.entity)] > 0
                    /\ \A k \in 1 .. m.next - 1 :
                         created'[SubscriberId(Subscribers[k], m.entity)] > 0
  BY DEF LoopsKeepUp, DispatchId, SubscriberId
<1>1. CASE x = d
  BY <1>1 DEF TypeOK
<1>2. CASE x # d
  <2> DEFINE m == dispatcher[x]
  <2>1. dispatcher'[x] = m /\ m.busy
    BY <1>2 DEF TypeOK
  <2>2. m.entity \in Entities /\ m.next \in 1 .. Len(Subscribers) + 1
    BY <2>1, BusyLoop
  <2>3. /\ created[DispatchId(m.entity)] > 0
        /\ \A k \in 1 .. m.next - 1 :
             created[SubscriberId(Subscribers[k], m.entity)] > 0
    BY <2>1 DEF LoopsKeepUp
  <2>4. ASSUME NEW k \in 1 .. m.next - 1
        PROVE  created'[SubscriberId(Subscribers[k], m.entity)] > 0
    <3>1. k \in 1 .. Len(Subscribers)
      BY <2>2, IdTypes
    <3>2. SubscriberId(Subscribers[k], m.entity) \in JobIds
      BY <2>2, <3>1, IdTypes
    <3> QED
      BY <2>3, <3>2
  <2>5. created'[DispatchId(m.entity)] > 0
    BY <2>2, <2>3, IdTypes
  <2> QED
    BY <2>1, <2>4, <2>5
<1> QED
  BY <1>1, <1>2

\* A step that moves no dispatcher keeps what the loops have reached.
LEMMA LoopsStill ==
  ASSUME TypeOK, LoopsKeepUp, UNCHANGED dispatcher,
         \A id \in JobIds : created[id] > 0 => created'[id] > 0
  PROVE  LoopsKeepUp'
<1> SUFFICES ASSUME NEW d \in Dispatchers
             PROVE  LoopsKeepUp'
  BY DEF LoopsKeepUp
<1>1. dispatcher' = [dispatcher EXCEPT ![d] = dispatcher[d]]
  BY DEF TypeOK
<1>2. dispatcher[d] \in Loop \cup {Idle}
  BY DEF TypeOK
<1> DEFINE l == dispatcher[d]
<1>3. ASSUME l.busy
      PROVE  /\ created'[DispatchId(l.entity)] > 0
             /\ \A k \in 1 .. l.next - 1 :
                  created'[SubscriberId(Subscribers[k], l.entity)] > 0
  <2>1. l.entity \in Entities /\ l.next \in 1 .. Len(Subscribers) + 1
    BY <1>3, BusyLoop
  <2>2. ASSUME NEW k \in 1 .. l.next - 1
        PROVE  created'[SubscriberId(Subscribers[k], l.entity)] > 0
    <3>1. SubscriberId(Subscribers[k], l.entity) \in JobIds
      BY <2>1, IdTypes
    <3> QED
      BY <1>3, <3>1 DEF LoopsKeepUp
  <2> QED
    BY <1>3, <2>1, <2>2, IdTypes DEF LoopsKeepUp
<1> QED
  BY <1>1, <1>2, <1>3, LoopsKept

\* Every subscriber's job was created for e.
ReachedAll(e) == \A s \in Subscribed : created[SubscriberId(s, e)] > 0

\* A step that only moves jobs records at most one dispatch as completed,
\* and only one that reached everybody.
OnlyMoves == \E done \in SUBSET JobIds :
  /\ Moves(done)
  /\ \/ \A e \in Entities : DispatchId(e) \notin done
     \/ \E e \in Entities : done = {DispatchId(e)} /\ ReachedAll(e)

\* The ids of dispatches and of subscribers are different.
LEMMA IdsDiffer ==
  ASSUME NEW s \in Subscribed, NEW e \in Entities, NEW x \in Entities
  PROVE  /\ DispatchId(x) # SubscriberId(s, e)
         /\ DispatchId(x) = DispatchId(e) => x = e
BY TableAssumption DEF DispatchId, SubscriberId

\* A loop at the end of the table reached everybody.
LEMMA EndReachesAll ==
  ASSUME TypeOK, LoopsKeepUp, NEW d \in Dispatchers, dispatcher[d].busy,
         dispatcher[d].next > Len(Subscribers)
  PROVE  ReachedAll(dispatcher[d].entity)
<1> DEFINE l == dispatcher[d]
<1> SUFFICES ASSUME NEW s \in Subscribed
             PROVE  created[SubscriberId(s, l.entity)] > 0
  BY DEF ReachedAll
<1>1. l.next \in 1 .. Len(Subscribers) + 1 /\ Len(Subscribers) \in Nat
  BY BusyLoop, IdTypes
<1>2. l.next - 1 = Len(Subscribers)
  BY <1>1
<1>3. PICK k \in DOMAIN Subscribers : Subscribers[k] = s
  BY DEF Subscribed, ToSet
<1>4. DOMAIN Subscribers = 1 .. Len(Subscribers)
  BY TableAssumption
<1>5. k \in 1 .. l.next - 1
  BY <1>2, <1>3, <1>4
<1> QED
  BY <1>3, <1>5 DEF LoopsKeepUp

\* Every step but a publish and an add of the loop only moves jobs.
OtherStep ==
  \/ \E d \in Dispatchers, e \in Entities : TakeEvent(d, e)
  \/ \E d \in Dispatchers :
       FinishDispatch(d) \/ DispatchThrows(d) \/ DispatchStalls(d)
  \/ \E s \in Subscribed, e \in Entities :
       \/ SubscriberCompletes(s, e)
       \/ SubscriberThrows(s, e)
       \/ SubscriberStalls(s, e)
  \/ UNCHANGED vars

\* A step that leaves Redis alone moves jobs trivially.
LEMMA NothingMoves ==
  ASSUME Accounted, UNCHANGED redis
  PROVE  OnlyMoves
<1>1. Moves({})
  BY DEF Accounted, redis, Moves, Exists
<1> QED
  BY <1>1 DEF OnlyMoves

\* Each of those steps moves jobs that exist, and publishes nothing.
LEMMA OtherMoves ==
  ASSUME TypeOK, Consistent, OtherStep
  PROVE  OnlyMoves /\ publishes' = publishes
<1>1. RedisType /\ Accounted /\ LoopsKeepUp
  BY TypeParts DEF Consistent
<1>2. ASSUME Moves({})
      PROVE  OnlyMoves
  BY <1>2 DEF OnlyMoves
<1>3. ASSUME NEW d \in Dispatchers, dispatcher[d].busy
      PROVE  /\ dispatcher[d].entity \in Entities
             /\ DispatchId(dispatcher[d].entity) \in JobIds
             /\ created[DispatchId(dispatcher[d].entity)] > 0
  <2>1. dispatcher[d].entity \in Entities
    BY <1>3, BusyLoop
  <2> QED
    BY <1>1, <1>3, <2>1, IdTypes DEF LoopsKeepUp
<1>4. ASSUME NEW id \in JobIds, jobs[id].state = "waiting"
      PROVE  created[id] > 0
  BY <1>1, <1>4 DEF Accounted, Exists
<1>5. ASSUME NEW d \in Dispatchers, NEW e \in Entities, TakeEvent(d, e)
      PROVE  OnlyMoves /\ publishes' = publishes
  <2> DEFINE id == DispatchId(e)
             j == [jobs[id] EXCEPT !.state = "active"]
  <2>1. id \in JobIds /\ jobs[id].state = "waiting"
    BY <1>5, IdTypes DEF TakeEvent
  <2>2. jobs' = [jobs EXCEPT ![id] = j]
    BY <1>5 DEF TakeEvent
  <2>3. jobs[id] \in Job
    BY <2>1 DEF TypeOK
  <2>4. j.state = "active"
    BY <2>3 DEF Job
  <2>5. created[id] > 0
    BY <1>4, <2>1
  <2>6. Moves({})
    BY <1>1, <1>5, <2>1, <2>2, <2>4, <2>5
    DEF TakeEvent, RedisType, Accounted, Moves, Exists
  <2> QED
    BY <1>2, <1>5, <2>6 DEF TakeEvent
<1>6. ASSUME NEW d \in Dispatchers, FinishDispatch(d)
      PROVE  OnlyMoves /\ publishes' = publishes
  <2> DEFINE e == dispatcher[d].entity
  <2>1. dispatcher[d].busy /\ dispatcher[d].next > Len(Subscribers)
    BY <1>6 DEF FinishDispatch
  <2>2. e \in Entities /\ DispatchId(e) \in JobIds
        /\ created[DispatchId(e)] > 0
    BY <1>3, <2>1
  <2>3. ReachedAll(e)
    BY <1>1, <2>1, EndReachesAll
  <2>4. CASE Complete(DispatchId(e))
    <3>1. Moves({DispatchId(e)})
      BY <1>1, <2>2, <2>4, CompleteMoves
    <3>2. OnlyMoves
      BY <2>2, <2>3, <3>1 DEF OnlyMoves
    <3> QED
      BY <1>6, <3>2 DEF FinishDispatch
  <2>5. CASE UNCHANGED redis
    BY <1>1, <1>6, <2>5, NothingMoves DEF FinishDispatch
  <2> QED
    BY <1>6, <2>4, <2>5 DEF FinishDispatch
<1>7. ASSUME NEW d \in Dispatchers, DispatchThrows(d)
      PROVE  OnlyMoves /\ publishes' = publishes
  <2>1. CASE Throw(DispatchId(dispatcher[d].entity))
    BY <1>1, <1>2, <1>3, <1>7, <2>1, ThrowMoves DEF DispatchThrows
  <2>2. CASE UNCHANGED redis
    BY <1>1, <1>7, <2>2, NothingMoves DEF DispatchThrows
  <2> QED
    BY <1>7, <2>1, <2>2 DEF DispatchThrows
<1>8. ASSUME NEW d \in Dispatchers, DispatchStalls(d)
      PROVE  OnlyMoves /\ publishes' = publishes
  BY <1>1, <1>2, <1>3, <1>8, StallMoves DEF DispatchStalls
<1>9. ASSUME NEW s \in Subscribed, NEW e \in Entities,
             \/ SubscriberCompletes(s, e)
             \/ SubscriberThrows(s, e)
             \/ SubscriberStalls(s, e)
      PROVE  OnlyMoves /\ publishes' = publishes
  <2> DEFINE id == SubscriberId(s, e)
  <2>1. id \in JobIds /\ created[id] > 0
    BY <1>4, <1>9, IdTypes
    DEF SubscriberCompletes, SubscriberThrows, SubscriberStalls
  <2>2. CASE SubscriberCompletes(s, e)
    <3>1. Moves({id})
      BY <1>1, <2>1, <2>2, CompleteMoves DEF SubscriberCompletes
    <3>2. OnlyMoves
      BY <2>1, <3>1, IdsDiffer DEF OnlyMoves
    <3> QED
      BY <2>2, <3>2 DEF SubscriberCompletes
  <2>3. CASE SubscriberThrows(s, e)
    BY <1>1, <1>2, <2>1, <2>3, ThrowMoves DEF SubscriberThrows
  <2>4. CASE SubscriberStalls(s, e)
    BY <1>1, <1>2, <2>1, <2>4, StallMoves DEF SubscriberStalls
  <2> QED
    BY <1>9, <2>2, <2>3, <2>4
<1>10. CASE UNCHANGED vars
  BY <1>1, <1>10, NothingMoves DEF vars
<1> QED
  BY <1>5, <1>6, <1>7, <1>8, <1>9, <1>10 DEF OtherStep

\* Jobs that were created stay created when jobs only move.
LEMMA OnlyMovesKeeps ==
  ASSUME Consistent, OnlyMoves, publishes' = publishes
  PROVE  /\ created' = created
         /\ Accounted'
         /\ OnlyPublished'
         /\ NoneSkipped'
<1>1. PICK done \in SUBSET JobIds :
        /\ Moves(done)
        /\ \/ \A e \in Entities : DispatchId(e) \notin done
           \/ \E e \in Entities : done = {DispatchId(e)} /\ ReachedAll(e)
  BY DEF OnlyMoves
<1>2. created' = created
  BY <1>1 DEF Moves
<1>3. Accounted'
  BY <1>1, MovesAccounted DEF Consistent
<1>4. OnlyPublished'
  BY <1>2 DEF Consistent, OnlyPublished, DispatchId
<1>5. ASSUME NEW e \in Entities, NEW s \in Subscribed,
             jobs'[DispatchId(e)].state = "completed"
      PROVE  created'[SubscriberId(s, e)] > 0
  <2>1. jobs[DispatchId(e)].state = "completed" \/ DispatchId(e) \in done
    BY <1>1, <1>5, IdTypes DEF Moves
  <2>2. CASE jobs[DispatchId(e)].state = "completed"
    BY <1>2, <2>2 DEF Consistent, NoneSkipped
  <2>3. CASE DispatchId(e) \in done
    <3>1. PICK x \in Entities : done = {DispatchId(x)} /\ ReachedAll(x)
      BY <1>1, <2>3
    <3>2. x = e
      BY <2>3, <3>1, IdsDiffer
    <3> QED
      BY <1>2, <3>1, <3>2 DEF ReachedAll
  <2> QED
    BY <2>1, <2>2, <2>3
<1>6. NoneSkipped'
  BY <1>5 DEF NoneSkipped, DispatchId, SubscriberId
<1> QED
  BY <1>2, <1>3, <1>4, <1>6

\* The steps that only move jobs keep the invariant.
LEMMA OtherConsistent ==
  ASSUME TypeOK, Consistent, OtherStep
  PROVE  Consistent'
<1>1. OnlyMoves /\ publishes' = publishes
  BY OtherMoves
<1>2. /\ created' = created
      /\ Accounted' /\ OnlyPublished' /\ NoneSkipped'
  BY <1>1, OnlyMovesKeeps
<1>3. LoopsKeepUp
  BY DEF Consistent
<1>4. CASE UNCHANGED dispatcher
  BY <1>2, <1>3, <1>4, LoopsStill DEF Consistent
<1>5. ASSUME NEW d \in Dispatchers, dispatcher' = [dispatcher EXCEPT ![d] = Idle]
      PROVE  Consistent'
  <2>1. ~ Idle.busy
    BY DEF Idle
  <2>2. LoopsKeepUp'
    BY <1>2, <1>3, <1>5, <2>1, LoopsKept
  <2> QED
    BY <1>2, <2>2 DEF Consistent
<1>6. ASSUME NEW d \in Dispatchers, NEW e \in Entities, TakeEvent(d, e)
      PROVE  Consistent'
  <2> DEFINE l == [busy |-> TRUE, entity |-> e, next |-> 1, locked |-> TRUE]
  <2>1. l \in Loop /\ l.next = 1 /\ l.entity = e
    BY IdTypes DEF Loop
  <2>2. dispatcher' = [dispatcher EXCEPT ![d] = l]
    BY <1>6 DEF TakeEvent
  <2>3. created'[DispatchId(e)] > 0
    BY <1>2, <1>6, IdTypes DEF TakeEvent, Consistent, Accounted, Exists
  <2>4. \A k \in 1 .. l.next - 1 :
          created'[SubscriberId(Subscribers[k], l.entity)] > 0
    BY <2>1
  <2>5. LoopsKeepUp'
    BY <1>2, <1>3, <2>1, <2>2, <2>3, <2>4, LoopsKept
  <2> QED
    BY <1>2, <2>5 DEF Consistent
<1>7. ASSUME NEW d \in Dispatchers,
             dispatcher[d].busy,
             dispatcher' = [dispatcher EXCEPT ![d].locked = FALSE]
      PROVE  Consistent'
  <2> DEFINE l == dispatcher[d]
             m == [l EXCEPT !.locked = FALSE]
  <2>1. l \in Loop /\ l.entity \in Entities
        /\ l.next \in 1 .. Len(Subscribers) + 1
    BY <1>7, BusyLoop
  <2>2. m \in Loop /\ m.entity = l.entity /\ m.next = l.next
    BY <2>1 DEF Loop
  <2>3. dispatcher' = [dispatcher EXCEPT ![d] = m]
    BY <1>7
  <2>4. /\ created'[DispatchId(l.entity)] > 0
        /\ \A k \in 1 .. l.next - 1 :
             created'[SubscriberId(Subscribers[k], l.entity)] > 0
    BY <1>2, <1>3, <1>7 DEF LoopsKeepUp
  <2> HIDE DEF l, m
  <2>5. LoopsKeepUp'
    BY <1>2, <1>3, <2>2, <2>3, <2>4, LoopsKept
  <2> QED
    BY <1>2, <2>5 DEF Consistent
<1> QED
  BY <1>4, <1>5, <1>6, <1>7
  DEF OtherStep, FinishDispatch, DispatchThrows, DispatchStalls,
      SubscriberCompletes, SubscriberThrows, SubscriberStalls, vars

\* Publishing keeps it ...
LEMMA PublishConsistent ==
  ASSUME TypeOK, Consistent, NEW e \in Entities, Publish(e)
  PROVE  Consistent'
<1>1. RedisType /\ Accounted /\ LoopsKeepUp
  BY TypeParts DEF Consistent
<1>2. Add(DispatchId(e)) /\ DispatchId(e) \in JobIds
  BY IdTypes DEF Publish
<1>3. /\ Accounted'
      /\ \A i \in JobIds : created[i] > 0 => created'[i] > 0
      /\ \A i \in JobIds \ {DispatchId(e)} : created'[i] = created[i]
      /\ \A i \in JobIds :
           jobs'[i].state = "completed" => jobs[i].state = "completed"
  BY <1>1, <1>2, AddAccounted
<1>4. LoopsKeepUp'
  BY <1>1, <1>3, LoopsStill DEF Publish
<1>5. ASSUME NEW x \in Entities, created'[DispatchId(x)] > 0
      PROVE  publishes'[x] > 0
  <2>1. CASE x = e
    BY <2>1 DEF Publish, TypeOK
  <2>2. CASE x # e
    <3>1. created[DispatchId(x)] > 0
      BY <1>3, <1>5, <2>2, IdTypes, TableAssumption DEF DispatchId
    <3> QED
      BY <2>2, <3>1 DEF Consistent, OnlyPublished, Publish, TypeOK
  <2> QED
    BY <2>1, <2>2
<1>6. OnlyPublished'
  BY <1>5 DEF OnlyPublished, DispatchId
<1>7. NoneSkipped'
  BY <1>3, IdTypes DEF Consistent, NoneSkipped, DispatchId, SubscriberId
<1> QED
  BY <1>3, <1>4, <1>6, <1>7 DEF Consistent

\* ... and so does the loop's next add.
LEMMA DispatchNextConsistent ==
  ASSUME TypeOK, Consistent, NEW d \in Dispatchers, DispatchNext(d)
  PROVE  Consistent'
<1> DEFINE l == dispatcher[d]
           m == [l EXCEPT !.next = @ + 1]
           id == SubscriberId(Subscribers[l.next], l.entity)
<1>1. RedisType /\ Accounted /\ LoopsKeepUp
  BY TypeParts DEF Consistent
<1>2. l \in Loop /\ l.entity \in Entities
      /\ l.next \in 1 .. Len(Subscribers) + 1
  BY BusyLoop DEF DispatchNext
<1>3. l.next \in 1 .. Len(Subscribers)
  BY <1>2, IdTypes DEF DispatchNext
<1>4. id \in JobIds /\ Subscribers[l.next] \in Subscribed
  BY <1>2, <1>3, IdTypes
<1>5. Add(id)
  BY DEF DispatchNext
<1>6. /\ Accounted'
      /\ created'[id] > 0
      /\ \A i \in JobIds : created[i] > 0 => created'[i] > 0
      /\ \A i \in JobIds \ {id} : created'[i] = created[i]
      /\ \A i \in JobIds :
           jobs'[i].state = "completed" => jobs[i].state = "completed"
  BY <1>1, <1>4, <1>5, AddAccounted
<1>7. l.next + 1 \in 1 .. Len(Subscribers) + 1
  BY <1>3, IdTypes
<1>8. m \in Loop /\ m.entity = l.entity /\ m.next = l.next + 1
  BY <1>2, <1>7 DEF Loop
<1>9. dispatcher' = [dispatcher EXCEPT ![d] = m]
  BY DEF DispatchNext
<1>10. l.busy
  BY DEF DispatchNext
<1>11. created'[DispatchId(l.entity)] > 0
  BY <1>1, <1>2, <1>6, <1>10, IdTypes DEF LoopsKeepUp
<1>12. ASSUME NEW k \in 1 .. m.next - 1
       PROVE  created'[SubscriberId(Subscribers[k], m.entity)] > 0
  <2>1. CASE k = l.next
    BY <1>6, <1>8, <2>1
  <2>2. CASE k # l.next
    <3>1. k \in 1 .. l.next - 1 /\ k \in 1 .. Len(Subscribers)
      BY <1>3, <1>8, <2>2, IdTypes
    <3>2. SubscriberId(Subscribers[k], l.entity) \in JobIds
      BY <1>2, <3>1, IdTypes
    <3> QED
      BY <1>1, <1>6, <1>8, <1>10, <3>1, <3>2 DEF LoopsKeepUp
  <2> QED
    BY <2>1, <2>2
<1>13. LoopsKeepUp'
  <2> HIDE DEF l, m, id
  <2> QED
    BY <1>1, <1>6, <1>8, <1>9, <1>11, <1>12, LoopsKept
<1>14. OnlyPublished'
  BY <1>2, <1>4, <1>6, IdTypes, IdsDiffer
  DEF DispatchNext, Consistent, OnlyPublished, DispatchId
<1>15. NoneSkipped'
  BY <1>6, IdTypes DEF Consistent, NoneSkipped, DispatchId, SubscriberId
<1> QED
  BY <1>6, <1>13, <1>14, <1>15 DEF Consistent

\* Every step is one of the three.
LEMMA ThreeSteps ==
  [Next]_vars <=> \/ \E e \in Entities : Publish(e)
                  \/ \E d \in Dispatchers : DispatchNext(d)
                  \/ OtherStep
BY DEF Next, OtherStep, DispatchStep

\* At first nothing is on record.
LEMMA InitConsistent == Init => Consistent
BY DEF Init, Consistent, LoopsKeepUp, Accounted, OnlyPublished, NoneSkipped,
       Exists, NoJob, Idle, JobIds, DispatchId, SubscriberId, Names

\* The invariant that accounts for every job ever created, and for every
\* subscriber a loop has passed.
THEOREM AlwaysConsistent == Spec => []Consistent
<1>1. TypeOK /\ Consistent /\ [Next]_vars => Consistent'
  BY ThreeSteps, PublishConsistent, DispatchNextConsistent, OtherConsistent
<1> QED
  BY <1>1, InitConsistent, TypeCorrect, PTL DEF Spec

\* A dispatch on record as completed skipped no subscriber: retries, lost
\* locks, overlapping loops and repeated publishes included.
THEOREM NobodySkipped == Spec => []NoneSkipped
<1>1. Consistent => NoneSkipped
  BY DEF Consistent
<1> QED
  BY <1>1, AlwaysConsistent, PTL

\* A job is created a second time only after its queue forgot the first.
THEOREM CreatedOnce == Spec => []OnceUntilForgotten
<1>1. Consistent => OnceUntilForgotten
  BY DEF Consistent, Accounted, OnceUntilForgotten
<1> QED
  BY <1>1, AlwaysConsistent, PTL

-----------------------------------------------------------------------------
(* The bus implements EventDelivery                                        *)

\* The refinement mapping, primed.
LEMMA MappingPrimed ==
  /\ Announced' = {e \in Entities : publishes'[e] > 0}
  /\ Reached' = [e \in Entities |->
        {s \in Subscribed : created'[SubscriberId(s, e)] > 0}]
  /\ Dispatched' = {e \in Entities : jobs'[DispatchId(e)].state = "completed"}
BY DEF Announced, Reached, Dispatched, SubscriberId, DispatchId

\* Publish is Announce under the refinement mapping.
LEMMA PublishAnnounces ==
  ASSUME TypeOK, Consistent, NEW e \in Entities, Publish(e)
  PROVE  Delivery!Announce(e)
<1>1. RedisType /\ Accounted
  BY TypeParts DEF Consistent
<1>2. Add(DispatchId(e)) /\ DispatchId(e) \in JobIds
  BY IdTypes DEF Publish
<1>3. /\ \A i \in JobIds \ {DispatchId(e)} : created'[i] = created[i]
      /\ \A i \in JobIds :
           jobs'[i].state = "completed" <=> jobs[i].state = "completed"
  BY <1>1, <1>2, AddAccounted
<1>4. Announced' = Announced \cup {e}
  <2>1. publishes'[e] > 0
    BY DEF Publish, TypeOK
  <2>2. \A x \in Entities \ {e} : publishes'[x] = publishes[x]
    BY DEF Publish, TypeOK
  <2> QED
    BY <2>1, <2>2, MappingPrimed DEF Announced
<1>5. \A x \in Entities, s \in Subscribed :
        created'[SubscriberId(s, x)] = created[SubscriberId(s, x)]
  BY <1>3, IdTypes, IdsDiffer
<1>6. Reached' = Reached
  BY <1>5, MappingPrimed DEF Reached
<1>7. Dispatched' = Dispatched
  BY <1>3, IdTypes, MappingPrimed DEF Dispatched
<1> QED
  BY <1>4, <1>6, <1>7 DEF Delivery!Announce

\* The add of the dispatcher's loop is Reach, also when the id exists.
LEMMA NextReaches ==
  ASSUME TypeOK, Consistent, NEW d \in Dispatchers, DispatchNext(d)
  PROVE  \E e \in Entities, s \in Subscribed : Delivery!Reach(e, s)
<1> DEFINE l == dispatcher[d]
           e == l.entity
           s == Subscribers[l.next]
<1>1. RedisType /\ Accounted /\ LoopsKeepUp
  BY TypeParts DEF Consistent
<1>2. e \in Entities /\ l.next \in 1 .. Len(Subscribers) + 1
  BY BusyLoop DEF DispatchNext
<1>3. l.next \in 1 .. Len(Subscribers)
  BY <1>2, IdTypes DEF DispatchNext
<1>4. s \in Subscribed /\ SubscriberId(s, e) \in JobIds
  BY <1>2, <1>3, IdTypes
<1>5. Add(SubscriberId(s, e))
  BY DEF DispatchNext
<1> HIDE DEF l, e, s
<1>6. /\ created'[SubscriberId(s, e)] > 0
      /\ \A i \in JobIds \ {SubscriberId(s, e)} : created'[i] = created[i]
      /\ \A i \in JobIds :
           jobs'[i].state = "completed" <=> jobs[i].state = "completed"
  BY <1>1, <1>4, <1>5, AddAccounted
<1>7. e \in Announced
  BY <1>1, <1>2 DEF DispatchNext, LoopsKeepUp, Consistent, OnlyPublished,
                    Announced, e, l
<1>8. ASSUME NEW x \in Entities, NEW t \in Subscribed
      PROVE  created'[SubscriberId(t, x)] > 0
               <=> \/ created[SubscriberId(t, x)] > 0
                   \/ x = e /\ t = s
  <2>1. CASE x = e /\ t = s
    BY <1>6, <2>1
  <2>2. CASE ~ (x = e /\ t = s)
    <3>1. SubscriberId(t, x) # SubscriberId(s, e)
      BY <2>2 DEF SubscriberId
    <3>2. created'[SubscriberId(t, x)] = created[SubscriberId(t, x)]
      BY <1>6, <3>1, IdTypes
    <3> QED
      BY <2>2, <3>2
  <2> QED
    BY <2>1, <2>2
<1>9. Reached' = [Reached EXCEPT ![e] = @ \cup {s}]
  <2>1. ASSUME NEW x \in Entities
        PROVE  {t \in Subscribed : created'[SubscriberId(t, x)] > 0}
                 = IF x = e THEN Reached[x] \cup {s} ELSE Reached[x]
    BY <1>4, <1>8 DEF Reached
  <2>2. Reached' = [x \in Entities |->
                      IF x = e THEN Reached[x] \cup {s} ELSE Reached[x]]
    BY <2>1, MappingPrimed
  <2> QED
    BY <2>2 DEF Reached
<1>10. Dispatched' = Dispatched
  BY <1>6, IdTypes, MappingPrimed DEF Dispatched
<1>11. Announced' = Announced
  BY MappingPrimed DEF DispatchNext, Announced
<1>12. Delivery!Reach(e, s)
  BY <1>7, <1>9, <1>10, <1>11 DEF Delivery!Reach
<1> QED
  BY <1>2, <1>4, <1>12 DEF e

\* A step that only moves jobs is Dispatch or Forget.
LEMMA MovesRecord ==
  ASSUME Consistent, OnlyMoves, publishes' = publishes
  PROVE  Delivery!Next
<1>1. PICK done \in SUBSET JobIds :
        /\ Moves(done)
        /\ \/ \A e \in Entities : DispatchId(e) \notin done
           \/ \E e \in Entities : done = {DispatchId(e)} /\ ReachedAll(e)
  BY DEF OnlyMoves
<1>2. Announced' = Announced
  BY MappingPrimed DEF Announced
<1>3. created' = created
  BY <1>1 DEF Moves
<1>4. Reached' = Reached
  BY <1>3, MappingPrimed DEF Reached
<1>5. \A e \in Dispatched' : e \in Dispatched \/ DispatchId(e) \in done
  BY <1>1, IdTypes, MappingPrimed DEF Moves, Dispatched
<1>6. Dispatched \subseteq Entities /\ Dispatched' \subseteq Entities
  BY MappingPrimed DEF Dispatched
<1>7. CASE \A e \in Entities : DispatchId(e) \notin done
  <2> DEFINE gone == Dispatched \ Dispatched'
  <2>1. Dispatched' = Dispatched \ gone /\ gone \in SUBSET Entities
    BY <1>5, <1>6, <1>7
  <2>2. Delivery!Forget(gone)
    BY <1>2, <1>4, <2>1 DEF Delivery!Forget
  <2> QED
    BY <2>1, <2>2 DEF Delivery!Next
<1>8. CASE \E e \in Entities : done = {DispatchId(e)} /\ ReachedAll(e)
  <2>1. PICK e \in Entities : done = {DispatchId(e)} /\ ReachedAll(e)
    BY <1>8
  <2> DEFINE gone == (Dispatched \cup {e}) \ Dispatched'
  <2>2. Dispatched' \subseteq Dispatched \cup {e}
    BY <1>5, <1>6, <2>1 DEF DispatchId
  <2>3. Dispatched' = (Dispatched \cup {e}) \ gone /\ gone \in SUBSET Entities
    BY <1>6, <2>2
  <2>4. Reached[e] = Subscribed
    BY <2>1 DEF Reached, ReachedAll
  <2> HIDE DEF gone
  <2>5. Delivery!Dispatch(e, gone)
    BY <1>2, <1>4, <2>3, <2>4 DEF Delivery!Dispatch
  <2> QED
    BY <2>3, <2>5 DEF Delivery!Next
<1> QED
  BY <1>1, <1>7, <1>8

\* The bus starts where EventDelivery does.
LEMMA InitDelivers == Init => Delivery!Init
<1> SUFFICES ASSUME Init
             PROVE  Delivery!Init
  OBVIOUS
<1>1. Announced = {}
  BY DEF Init, Announced
<1>2. Reached = [e \in Entities |-> {}]
  BY IdTypes DEF Init, Reached
<1>3. Dispatched = {}
  BY IdTypes DEF Init, Dispatched, NoJob
<1> QED
  BY <1>1, <1>2, <1>3 DEF Delivery!Init

\* EventBus implements EventDelivery: for any number of dispatchers, faults
\* and repeated publishes, nobody is reached unannounced and a dispatch counts
\* as done only after everybody was reached.
THEOREM BusImplementsDelivery == Spec => ImplementsDelivery
<1>1. TypeOK /\ Consistent /\ [Next]_vars
        => [Delivery!Next]_(Delivery!deliveryVars)
  <2>1. ASSUME TypeOK, Consistent, NEW e \in Entities, Publish(e)
        PROVE  Delivery!Next
    BY <2>1, PublishAnnounces DEF Delivery!Next
  <2>2. ASSUME TypeOK, Consistent, NEW d \in Dispatchers, DispatchNext(d)
        PROVE  Delivery!Next
    BY <2>2, NextReaches DEF Delivery!Next
  <2>3. ASSUME TypeOK, Consistent, OtherStep
        PROVE  Delivery!Next
    BY <2>3, OtherMoves, MovesRecord
  <2> QED
    BY <2>1, <2>2, <2>3, ThreeSteps
<1> QED
  BY <1>1, InitDelivers, TypeCorrect, AlwaysConsistent, PTL
  DEF Spec, ImplementsDelivery, Delivery!Spec
=============================================================================
