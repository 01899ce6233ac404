------------------------------ MODULE EventBus ------------------------------
(***************************************************************************)
(* The durable event bus: EventBusService.publish puts one job per event   *)
(* and entity on the domain-events queue, DomainEventProcessor fans it out *)
(* into one job per subscriber, each queue's processor runs those.         *)
(*                                                                         *)
(* BullMQ is external and modelled by what the code relies on: an add with *)
(* the id of a job Redis still holds does nothing; a job that throws is    *)
(* tried again, Attempts times in all; a job whose worker lost its lock    *)
(* (died, or blocked for too long and still running) goes back to waiting, *)
(* MaxStalls times; a queue keeps its newest KeepCompleted completed and   *)
(* KeepFailed failed jobs and forgets the rest, ids included.              *)
(***************************************************************************)
EXTENDS Integers, Sequences, SequencesExt

CONSTANTS
  Entities,       \* orders
  Event,          \* DOMAIN_EVENTS.ORDER_PAID
  Subscribers,    \* EVENT_SUBSCRIBERS[Event]: a sequence of job names
  QueueOf,        \* QueueOf[n]: the queue jobs named n (or Event) go to
  Attempts,       \* DEFAULT_JOB_OPTIONS.attempts
  MaxStalls,      \* BullMQ's maxStalledCount
  KeepCompleted,  \* DEFAULT_JOB_OPTIONS.removeOnComplete.count
  KeepFailed,     \* DEFAULT_JOB_OPTIONS.removeOnFail.count
  Dispatchers,    \* DomainEventProcessor loops: one per API process
  MaxPublishes,   \* bound: publish calls for one entity
  MaxFaults       \* bound: throws and lost locks

Subscribed == ToSet(Subscribers)
Names == Subscribed \cup {Event}
Queues == {QueueOf[n] : n \in Names}

ASSUME TableAssumption ==
  /\ Subscribers \in Seq(Subscribed)
  /\ Event \notin Subscribed
  /\ DOMAIN QueueOf = Names

ASSUME OptionsAssumption ==
  /\ Attempts \in Nat \ {0}
  /\ MaxStalls \in Nat
  /\ KeepCompleted \in Nat
  /\ KeepFailed \in Nat
  /\ MaxPublishes \in Nat
  /\ MaxFaults \in Nat

\* jobIdOf(event, entity), subscriberJobId(event, job, entity).
JobIds == Names \X Entities
DispatchId(e) == <<Event, e>>
SubscriberId(s, e) == <<s, e>>

VARIABLES
  jobs,           \* Redis: the job with each id
  completed,      \* Redis: per queue, its completed jobs, oldest first
  failed,         \* Redis: per queue, its failed jobs, oldest first
  dispatcher,     \* the fan-out loop each dispatcher is in
  publishes,      \* publishes[e]: publish calls that returned
  created,        \* created[id]: jobs ever created under this id
  evicted,        \* ids whose job was forgotten at least once
  faults

redis == <<jobs, completed, failed, created, evicted>>
vars == <<redis, dispatcher, publishes, faults>>

Job == [state : {"absent", "waiting", "active", "completed", "failed"},
        attempts : Nat, stalls : 0 .. MaxStalls]
NoJob == [state |-> "absent", attempts |-> 0, stalls |-> 0]

\* next: the subscriber it adds next; locked: it still holds the job's lock.
Idle == [busy |-> FALSE]
Loop == [busy : {TRUE}, entity : Entities,
         next : 1 .. Len(Subscribers) + 1, locked : BOOLEAN]

TypeOK ==
  /\ jobs \in [JobIds -> Job]
  /\ completed \in [Queues -> Seq(JobIds)]
  /\ failed \in [Queues -> Seq(JobIds)]
  /\ dispatcher \in [Dispatchers -> Loop \cup {Idle}]
  /\ publishes \in [Entities -> 0 .. MaxPublishes]
  /\ created \in [JobIds -> Nat]
  /\ evicted \subseteq JobIds
  /\ faults \in 0 .. MaxFaults

Init ==
  /\ jobs = [id \in JobIds |-> NoJob]
  /\ completed = [q \in Queues |-> << >>]
  /\ failed = [q \in Queues |-> << >>]
  /\ dispatcher = [d \in Dispatchers |-> Idle]
  /\ publishes = [e \in Entities |-> 0]
  /\ created = [id \in JobIds |-> 0]
  /\ evicted = {}
  /\ faults = 0

-----------------------------------------------------------------------------
(* BullMQ (external)                                                       *)

\* MUTANT of Exists: a completed job's id is free at once.
ExistsUntilDone(id) == jobs[id].state \in {"waiting", "active"}

\* queue.add with a custom id.
Exists(id) == jobs[id].state # "absent"
Add(id) ==
  /\ jobs' = IF Exists(id) THEN jobs
             ELSE [jobs EXCEPT ![id] = [NoJob EXCEPT !.state = "waiting"]]
  /\ created' = IF Exists(id) THEN created
                ELSE [created EXCEPT ![id] = @ + 1]
  /\ UNCHANGED <<completed, failed, evicted>>

\* The newest keep jobs of a list, and the one that falls off its end.
Kept(list, keep) == IF Len(list) > keep THEN Tail(list) ELSE list
Dropped(list, keep) == IF Len(list) > keep THEN {Head(list)} ELSE {}

\* jobs once job id is done as j, and the jobs in gone are forgotten.
Done(id, j, gone) ==
  /\ jobs' = [i \in JobIds |-> IF i \in gone THEN NoJob
                               ELSE IF i = id THEN j ELSE jobs[i]]
  /\ evicted' = evicted \cup gone

\* Job id completes.
Complete(id) ==
  LET q == QueueOf[id[1]]
      list == Append(completed[q], id)
  IN
  /\ completed' = [completed EXCEPT ![q] = Kept(list, KeepCompleted)]
  /\ Done(id, [jobs[id] EXCEPT !.state = "completed"],
          Dropped(list, KeepCompleted))
  /\ UNCHANGED <<failed, created>>

\* Job id is given up as j.
GiveUp(id, j) ==
  LET q == QueueOf[id[1]]
      list == Append(failed[q], id)
  IN
  /\ failed' = [failed EXCEPT ![q] = Kept(list, KeepFailed)]
  /\ Done(id, [j EXCEPT !.state = "failed"], Dropped(list, KeepFailed))
  /\ UNCHANGED <<completed, created>>

\* Job id goes back to waiting as j.
Requeue(id, j) ==
  /\ jobs' = [jobs EXCEPT ![id] = [j EXCEPT !.state = "waiting"]]
  /\ UNCHANGED <<completed, failed, created, evicted>>

\* MUTANT of Throw: the job is neither tried again nor given up.
ThrowAndForget(id) ==
  /\ jobs' = [jobs EXCEPT ![id].state = "active"]
  /\ UNCHANGED <<completed, failed, created, evicted>>

\* Its handler threw.
Throw(id) ==
  LET j == [jobs[id] EXCEPT !.attempts = @ + 1] IN
  IF j.attempts < Attempts THEN Requeue(id, j) ELSE GiveUp(id, j)

\* Its worker lost the lock.
Stall(id) ==
  LET j == jobs[id] IN
  IF j.stalls < MaxStalls
  THEN Requeue(id, [j EXCEPT !.stalls = @ + 1])
  ELSE GiveUp(id, j)

Fault ==
  /\ faults < MaxFaults
  /\ faults' = faults + 1

-----------------------------------------------------------------------------
(* EventBusService, DomainEventProcessor                                   *)

\* publish: returns once add has, whether or not it created a job.
Publish(e) ==
  /\ publishes[e] < MaxPublishes
  /\ publishes' = [publishes EXCEPT ![e] = @ + 1]
  /\ Add(DispatchId(e))
  /\ UNCHANGED <<dispatcher, faults>>

\* process: a dispatcher takes the event's job ...
TakeEvent(d, e) ==
  /\ dispatcher[d] = Idle
  /\ jobs[DispatchId(e)].state = "waiting"
  /\ jobs' = [jobs EXCEPT ![DispatchId(e)].state = "active"]
  /\ dispatcher' = [dispatcher EXCEPT ![d] =
       [busy |-> TRUE, entity |-> e, next |-> 1, locked |-> TRUE]]
  /\ UNCHANGED <<completed, failed, created, evicted, publishes, faults>>

\* ... adds the subscribers' jobs one after the other, from the first on
\* every attempt ...
DispatchNext(d) ==
  /\ dispatcher[d].busy
  /\ LET l == dispatcher[d] IN
     /\ l.next <= Len(Subscribers)
     /\ Add(SubscriberId(Subscribers[l.next], l.entity))
     /\ dispatcher' = [dispatcher EXCEPT ![d].next = @ + 1]
  /\ UNCHANGED <<publishes, faults>>

\* MUTANT of FinishDispatch: the loop ends one subscriber early.
FinishDispatchEarly(d) ==
  /\ dispatcher[d].busy
  /\ LET l == dispatcher[d] IN
     /\ l.next >= Len(Subscribers)
     /\ IF l.locked THEN Complete(DispatchId(l.entity)) ELSE UNCHANGED redis
  /\ dispatcher' = [dispatcher EXCEPT ![d] = Idle]
  /\ UNCHANGED <<publishes, faults>>

\* ... and returns.  BullMQ ignores a worker that lost the lock meanwhile.
FinishDispatch(d) ==
  /\ dispatcher[d].busy
  /\ LET l == dispatcher[d] IN
     /\ l.next > Len(Subscribers)
     /\ IF l.locked THEN Complete(DispatchId(l.entity)) ELSE UNCHANGED redis
  /\ dispatcher' = [dispatcher EXCEPT ![d] = Idle]
  /\ UNCHANGED <<publishes, faults>>

\* An add throws, and with it the attempt.
DispatchThrows(d) ==
  /\ Fault
  /\ dispatcher[d].busy
  /\ LET l == dispatcher[d] IN
     /\ l.next <= Len(Subscribers)
     /\ IF l.locked THEN Throw(DispatchId(l.entity)) ELSE UNCHANGED redis
  /\ dispatcher' = [dispatcher EXCEPT ![d] = Idle]
  /\ UNCHANGED publishes

\* The dispatcher's process dies, or it blocks, loses the lock and goes on
\* later: the loop may then run twice at once.
DispatchStalls(d) ==
  /\ Fault
  /\ dispatcher[d].busy
  /\ dispatcher[d].locked
  /\ Stall(DispatchId(dispatcher[d].entity))
  /\ \/ dispatcher' = [dispatcher EXCEPT ![d] = Idle]
     \/ dispatcher' = [dispatcher EXCEPT ![d].locked = FALSE]
  /\ UNCHANGED publishes

-----------------------------------------------------------------------------
(* The subscribers' processors: that their handlers run is this module's   *)
(* business, what they do is not.                                          *)

SubscriberCompletes(s, e) ==
  /\ jobs[SubscriberId(s, e)].state = "waiting"
  /\ Complete(SubscriberId(s, e))
  /\ UNCHANGED <<dispatcher, publishes, faults>>

SubscriberThrows(s, e) ==
  /\ Fault
  /\ jobs[SubscriberId(s, e)].state = "waiting"
  /\ Throw(SubscriberId(s, e))
  /\ UNCHANGED <<dispatcher, publishes>>

SubscriberStalls(s, e) ==
  /\ Fault
  /\ jobs[SubscriberId(s, e)].state = "waiting"
  /\ Stall(SubscriberId(s, e))
  /\ UNCHANGED <<dispatcher, publishes>>

-----------------------------------------------------------------------------

DispatchStep(d) == DispatchNext(d) \/ FinishDispatch(d)

Next ==
  \/ \E e \in Entities : Publish(e)
  \/ \E d \in Dispatchers, e \in Entities : TakeEvent(d, e)
  \/ \E d \in Dispatchers :
       DispatchStep(d) \/ DispatchThrows(d) \/ DispatchStalls(d)
  \/ \E s \in Subscribed, e \in Entities :
       \/ SubscriberCompletes(s, e)
       \/ SubscriberThrows(s, e)
       \/ SubscriberStalls(s, e)

Spec == Init /\ [][Next]_vars

\* The workers run: a waiting job is taken, a loop goes on.
Fairness ==
  /\ \A e \in Entities : WF_vars(\E d \in Dispatchers : TakeEvent(d, e))
  /\ \A d \in Dispatchers : WF_vars(DispatchStep(d))
  /\ \A s \in Subscribed, e \in Entities : WF_vars(SubscriberCompletes(s, e))

FairSpec == Spec /\ Fairness

-----------------------------------------------------------------------------
(* Properties                                                              *)

\* A dispatch on record as completed skipped no subscriber, however often it
\* was retried and whichever of two overlapping loops completed it ("no
\* subscriber is skipped", domain-events.ts).
NoneSkipped == \A e \in Entities, s \in Subscribed :
  jobs[DispatchId(e)].state = "completed" => created[SubscriberId(s, e)] > 0

\* No job is created twice, by a second publish, a retried dispatch or two
\* dispatchers at once, unless its queue forgot the first one.
OnceUntilForgotten == \A id \in JobIds :
  created[id] > 1 => id \in evicted

\* The inductive invariant behind the two: a loop that got to subscriber next
\* left nobody before it out, and what Redis holds or forgot accounts for
\* every job ever created.
LoopsKeepUp == \A d \in Dispatchers : LET l == dispatcher[d] IN
  l.busy =>
    /\ created[DispatchId(l.entity)] > 0
    /\ \A k \in 1 .. l.next - 1 :
         created[SubscriberId(Subscribers[k], l.entity)] > 0

Accounted == \A id \in JobIds :
  /\ Exists(id) => created[id] > 0
  /\ id \notin evicted => created[id] = (IF Exists(id) THEN 1 ELSE 0)

OnlyPublished == \A e \in Entities :
  created[DispatchId(e)] > 0 => publishes[e] > 0

Consistent ==
  /\ LoopsKeepUp
  /\ Accounted
  /\ OnlyPublished
  /\ NoneSkipped

\* A published event reaches every subscriber's processor, which runs the job
\* to completion or gives it up, unless the dispatch itself was given up.
EveryoneServed == \A e \in Entities, s \in Subscribed :
  publishes[e] > 0 ~>
    \/ SubscriberId(s, e) \in evicted
    \/ jobs[SubscriberId(s, e)].state \in {"completed", "failed"}
    \/ jobs[DispatchId(e)].state = "failed"
    \/ DispatchId(e) \in evicted

\* The bus implements EventDelivery.
Announced == {e \in Entities : publishes[e] > 0}
Reached == [e \in Entities |->
              {s \in Subscribed : created[SubscriberId(s, e)] > 0}]
Dispatched == {e \in Entities : jobs[DispatchId(e)].state = "completed"}

Delivery == INSTANCE EventDelivery WITH
  announced <- Announced, reached <- Reached, dispatched <- Dispatched

ImplementsDelivery == Delivery!Spec

=============================================================================
