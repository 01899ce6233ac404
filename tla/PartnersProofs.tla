--------------------------- MODULE PartnersProofs ----------------------------
(***************************************************************************)
(* What TLAPS proves of the services outside that an order depends on.     *)
(*                                                                         *)
(* Fulfilment, for any connections, workers, webhook requests, attempts    *)
(* and stalls: types, that a job that completed has an order made at every *)
(* connection, that one that used up its attempts leaves no row PENDING    *)
(* but those created after onFailed had looked, and that what is shown to  *)
(* the seller and the buyer has happened.  The argument: an order at a     *)
(* provider only goes forward (Forward), so what a webhook request carries *)
(* stays true while it waits to be written; one worker at most has the     *)
(* lock of the job (JobSound); and every worker, with the lock or without, *)
(* keeps of every connection it has passed an order made and its number on *)
(* the row (WalkSound, Made).                                              *)
(*                                                                         *)
(* PayPalPayments, for any number of requests, PayPal orders, refunds and  *)
(* mishaps: types, that what is PAID or confirmed had a capture taken and  *)
(* what is announced had one settle, and that one PayPal order is charged  *)
(* unless another was put on the row meanwhile.  The argument: PayPal does *)
(* not take back a capture it took, or one that settled (Grows).  So a     *)
(* fact about it that held when a request was told of it, or an event was  *)
(* raised, holds for good; the inductive invariant says which fact each    *)
(* request, event and row carries.                                         *)
(***************************************************************************)
EXTENDS Fulfilment, PayPalPayments, FiniteSetTheorems, TLAPS

-----------------------------------------------------------------------------
(* Fulfilment                                                              *)

-----------------------------------------------------------------------------
(* The inductive invariant                                                 *)

Producing == {"production", "shipped", "delivered"}
Sent == {"shipped", "delivered"}
Arrived == {"delivered"}

\* Of all that was printed, some order of connection c is in one of states.
Real(all, c, states) == \E n \in DOMAIN all[c] : all[c][n] \in states

Made(c) == row[c].external # 0 /\ prints[c] # <<>>

RowsType ==
  /\ row \in [Connections -> Row]
  /\ prints \in [Connections -> Seq(PrintState)]
  /\ stage \in Stages \cup {"none"}
  /\ parcelOf \subseteq Connections
  /\ late \subseteq Connections

\* A worker on its way, with or without the job, has an order made and its
\* number written at every connection it has passed.
WalkSound(r) ==
  /\ r.at \in {"call", "write"} => r.conn \in r.left
  /\ r.at = "write" => r.external # 0 /\ prints[r.conn] # <<>>
  /\ r.at \in {"loop", "call", "write"}
       => \A c \in Connections \ r.left : Made(c)

\* The job is active while a worker, and then one only, has its lock.
JobSound ==
  /\ push \in Push
  /\ walk \in [Pushers -> Walk \cup {AtRest}]
  /\ push.state \in {"waiting", "active"} => push.attempts < PushAttempts
  /\ \A v \in Pushers : walk[v].locked => push.state = "active"
  /\ \A v, w \in Pushers : walk[v].locked /\ walk[w].locked => v = w
  /\ \A v \in Pushers : WalkSound(walk[v])

Passed ==
  push.state = "completed" => \A c \in Connections : Made(c)

NonePending ==
  push.state = "dead" =>
    \A c \in Connections \ late : row[c].status # "PENDING"

\* What a status says of a connection is so.
Tells(all, c, status) ==
  /\ status = "IN_PRODUCTION" => Real(all, c, Producing)
  /\ status = "FULFILLED" => Real(all, c, Sent)

\* What a stage says of the order is so of some connection.
Shows(all, s) ==
  /\ s # "none" => \E c \in Connections : Real(all, c, PrintState)
  /\ s \in {"PICKED_UP", "IN_TRANSIT"}
       => \E c \in Connections : Real(all, c, Sent)
  /\ s = "DELIVERED" => \E c \in Connections : Real(all, c, Arrived)

\* What a webhook request has yet to write is so.
Carries(all, r) ==
  /\ r.status # "none" \/ r.numbered => r.conn \in Connections
  /\ r.status # "PENDING"
  /\ r.conn \in Connections => Tells(all, r.conn, r.status)
  /\ r.numbered => Real(all, r.conn, Sent)
  /\ \A s \in r.stages : Shows(all, s)

PostSound ==
  /\ postman \in [Postmen -> Postman]
  /\ \A m \in Postmen : Carries(prints, postman[m])

PagesSound ==
  /\ \A c \in Connections : Tells(prints, c, row[c].status)
  /\ Shows(prints, stage)
  /\ \A c \in parcelOf : Real(prints, c, Sent)

FulfilInv ==
  /\ RowsType /\ JobSound /\ Passed /\ NonePending
  /\ PostSound /\ PagesSound

-----------------------------------------------------------------------------
(* Orders go forward                                                       *)

Forward ==
  \A c \in Connections :
    /\ prints[c] # <<>> => prints'[c] # <<>>
    /\ \A states \in {PrintState, Producing, Sent, Arrived} :
         Real(prints, c, states) => Real(prints', c, states)

LEMMA StandStill ==
  ASSUME UNCHANGED prints PROVE Forward
BY DEF Forward

LEMMA ShowsOn ==
  ASSUME Forward, NEW s, Shows(prints, s) PROVE Shows(prints', s)
BY DEF Shows, Forward

\* A request that carries what is so carries it on.
LEMMA CarriesOn ==
  ASSUME Forward, NEW r, Carries(prints, r)
  PROVE  Carries(prints', r)
<1>1. \A s \in r.stages : Shows(prints', s)
  BY ShowsOn DEF Carries
<1> QED
  BY <1>1 DEF Carries, Tells, Forward

LEMMA PostGoesOn ==
  ASSUME PostSound, Forward, UNCHANGED postman PROVE PostSound'
BY CarriesOn DEF PostSound

LEMMA PagesGoOn ==
  ASSUME RowsType, PagesSound, Forward, UNCHANGED <<stage, parcelOf>>,
         \A c \in Connections :
           \/ row'[c].status = row[c].status
           \/ row'[c].status \in {"PENDING", "FAILED", "SUBMITTED"}
  PROVE  PagesSound'
<1>1. Shows(prints', stage)
  BY ShowsOn DEF PagesSound
<1>2. \A c \in parcelOf' : Real(prints', c, Sent)
  BY DEF PagesSound, Forward, RowsType
<1>3. \A c \in Connections : Tells(prints', c, row'[c].status)
  BY DEF PagesSound, Tells, Forward
<1> QED
  BY <1>1, <1>2, <1>3 DEF PagesSound

\* The pages while nothing but the job moves.
LEMMA PagesStay ==
  ASSUME FulfilInv, UNCHANGED <<row, prints, postman, reports>>
  PROVE  PostSound' /\ PagesSound'
BY StandStill, PostGoesOn, PagesGoOn DEF FulfilInv, reports

-----------------------------------------------------------------------------
(* The job                                                                 *)

LEMMA RestIsRest == /\ AtRest.at = "none" /\ AtRest.locked = FALSE
                    /\ ~[AtRest EXCEPT !.locked = FALSE].locked
BY DEF AtRest

\* A worker that is not at rest has the fields of a Walk.
LEMMA OnItsWay ==
  ASSUME FulfilInv, NEW w \in Pushers, walk[w].at # "none"
  PROVE  walk[w] \in Walk
BY RestIsRest DEF FulfilInv, JobSound

\* Rows keep what they have of an order.
Keeps == \A c \in Connections : Made(c) => Made(c)'

LEMMA KeepsIf ==
  ASSUME Forward, \A c \in Connections :
           \/ row'[c].external = row[c].external
           \/ row'[c].external # 0
  PROVE  Keeps
BY DEF Keeps, Made, Forward

LEMMA WalkSoundOn ==
  ASSUME FulfilInv, Forward, Keeps, NEW w \in Pushers
  PROVE  WalkSound(walk[w])'
         \/ walk'[w] # walk[w]
<1>1. SUFFICES ASSUME walk'[w] = walk[w] PROVE WalkSound(walk[w])'
  OBVIOUS
<1>2. WalkSound(walk[w])
  BY DEF FulfilInv, JobSound
<1>3. CASE walk[w].at = "none"
  BY <1>1, <1>3 DEF WalkSound
<1>4. CASE walk[w].at # "none"
  <2>1. walk[w] \in Walk
    BY <1>4, OnItsWay
  <2>2. walk[w].at \in {"call", "write"} => walk[w].conn \in Connections
    BY <1>2, <2>1 DEF WalkSound, Walk
  <2> QED
    BY <1>1, <1>2, <2>2 DEF WalkSound, Forward, Keeps
<1> QED
  BY <1>3, <1>4

\* A worker turns to r: it goes on as it was, takes the job that waited, or
\* has held the job and lets go of it, whatever becomes of that.
LEMMA JobTurns ==
  ASSUME FulfilInv, Forward, Keeps, NEW w \in Pushers,
         NEW r \in Walk \cup {AtRest}, Turns(w, r), WalkSound(r)',
         push' \in Push,
         push'.state \in {"waiting", "active"} => push'.attempts < PushAttempts,
         \/ push' = push /\ (r.locked => walk[w].locked)
         \/ walk[w].locked /\ ~r.locked
         \/ push.state = "waiting" /\ push'.state = "active",
         push'.state = "completed" =>
           push.state = "completed" \/ \A c \in Connections : Made(c)
  PROVE  JobSound' /\ Passed'
<1>1. /\ walk' \in [Pushers -> Walk \cup {AtRest}]
      /\ walk'[w] = r
      /\ \A v \in Pushers : v # w => walk'[v] = walk[v]
  BY DEF Turns, FulfilInv, JobSound
<1>2. \A v \in Pushers : WalkSound(walk[v])'
  <2> SUFFICES ASSUME NEW v \in Pushers PROVE WalkSound(walk[v])'
    OBVIOUS
  <2>1. CASE v = w
    BY <1>1, <2>1 DEF WalkSound, Made
  <2>2. CASE v # w
    BY <1>1, <2>2, WalkSoundOn
  <2> QED
    BY <2>1, <2>2
<1>3. /\ \A v \in Pushers : walk'[v].locked => push'.state = "active"
      /\ \A u, v \in Pushers : walk'[u].locked /\ walk'[v].locked => u = v
  BY <1>1 DEF FulfilInv, JobSound
<1>4. JobSound'
  BY <1>1, <1>2, <1>3 DEF JobSound
<1>5. Passed'
  BY DEF FulfilInv, Passed, Keeps
<1> QED
  BY <1>4, <1>5

\* A step of a worker, with what it did to the rows and the orders.
LEMMA WorkerSteps ==
  ASSUME FulfilInv, Forward, JobSound', Passed', NonePending',
         row' \in [Connections -> Row],
         prints' \in [Connections -> Seq(PrintState)],
         late' \subseteq Connections,
         \A c \in Connections :
           \/ row'[c].status = row[c].status
           \/ row'[c].status \in {"PENDING", "FAILED", "SUBMITTED"},
         UNCHANGED <<postman, reports>>
  PROVE  FulfilInv'
<1>1. RowsType'
  BY DEF FulfilInv, RowsType, reports
<1>2. PostSound' /\ PagesSound'
  BY PostGoesOn, PagesGoOn DEF FulfilInv, reports
<1> QED
  BY <1>1, <1>2 DEF FulfilInv

\* The worker's step threw: it has yet to say so.
LEMMA ThrowsInv ==
  ASSUME FulfilInv, Forward, Keeps, NEW w \in Pushers, walk[w].at # "none",
         Throws(w), UNCHANGED push
  PROVE  JobSound' /\ Passed'
<1>1. walk[w] \in Walk
  BY OnItsWay
<1>2. PICK r \in Walk : /\ r = [walk[w] EXCEPT !.at = "threw"]
                        /\ r.at = "threw" /\ r.locked = walk[w].locked
  <2>1. [walk[w] EXCEPT !.at = "threw"] \in Walk
    BY <1>1 DEF Walk
  <2> QED
    BY <1>1, <2>1 DEF Walk
<1>3. WalkSound(r)'
  BY <1>2 DEF WalkSound
<1>4. Turns(w, r)
  BY <1>2 DEF Throws
<1> QED
  BY <1>2, <1>3, <1>4, JobTurns DEF FulfilInv, JobSound, Passed

\* The worker is through, and the job with it if it was the worker's.
LEMMA LeavesInv ==
  ASSUME FulfilInv, Forward, Keeps, NEW w \in Pushers, NEW state,
         NEW tries \in {0, 1}, Leaves(w, state, tries), walk[w].at # "none",
         state \in {"waiting", "completed", "refused", "exhausted"},
         state = "waiting" => push.attempts + tries < PushAttempts,
         state = "completed" => \A c \in Connections : Made(c)
  PROVE  /\ JobSound' /\ Passed'
         /\ push'.state = "dead" => push.state = "dead"
<1>1. /\ push \in Push /\ push.attempts \in Nat
      /\ walk[w].locked => push.attempts < PushAttempts
  BY FulfilBoundsAssumption DEF FulfilInv, JobSound, Push
<1>2. AtRest \in Walk \cup {AtRest} /\ ~AtRest.locked
  BY RestIsRest
<1>3. WalkSound(AtRest)'
  BY RestIsRest DEF WalkSound, AtRest
<1>4. Turns(w, AtRest)
  BY DEF Leaves
<1>5. CASE walk[w].locked
  <2>1. push.attempts + tries \in 0 .. PushAttempts
    BY <1>1, <1>5, FulfilBoundsAssumption
  <2>2. /\ push' = [push EXCEPT !.state = state, !.attempts = @ + tries]
    BY <1>5 DEF Leaves
  <2>3. /\ push' \in Push /\ push'.state = state
        /\ push'.attempts = push.attempts + tries
    BY <1>1, <2>1, <2>2 DEF Push
  <2> QED
    BY <1>2, <1>3, <1>4, <1>5, <2>3, JobTurns
<1>6. CASE ~walk[w].locked
  <2>1. push' = push
    BY <1>6 DEF Leaves
  <2>2. push'.state \in {"waiting", "active"} => push'.attempts < PushAttempts
    BY <2>1 DEF FulfilInv, JobSound
  <2> QED
    BY <1>1, <1>2, <1>3, <1>4, <2>1, <2>2, JobTurns
<1> QED
  BY <1>5, <1>6

\* Nothing becomes PENDING.
LEMMA PendingStays ==
  ASSUME FulfilInv, push'.state = "dead" => push.state = "dead",
         UNCHANGED late,
         \A c \in Connections :
           row'[c].status = "PENDING" => row[c].status = "PENDING"
  PROVE  NonePending'
BY DEF FulfilInv, NonePending

-----------------------------------------------------------------------------
(* Its steps                                                               *)

LEMMA TakePushInv ==
  ASSUME FulfilInv, NEW w \in Pushers, TakePush(w) PROVE FulfilInv'
<1>1. /\ UNCHANGED <<row, prints, postman, reports, late>>
      /\ push \in Push /\ push.state = "waiting"
      /\ push.attempts < PushAttempts
      /\ Forward /\ Keeps
  BY StandStill, KeepsIf DEF TakePush, FulfilInv, JobSound
<1>2. SUFFICES ASSUME TRUE PROVE JobSound' /\ Passed' /\ NonePending'
  BY <1>1, WorkerSteps DEF FulfilInv, RowsType
<1>3. CASE /\ push' = [push EXCEPT !.state = "active"]
           /\ \E files \in SUBSET Merchize :
                Turns(w, [at |-> "loop", conn |-> NoConn, left |-> Connections,
                          files |-> files, external |-> 0, locked |-> TRUE])
  <2>1. PICK files \in SUBSET Merchize :
          Turns(w, [at |-> "loop", conn |-> NoConn, left |-> Connections,
                    files |-> files, external |-> 0, locked |-> TRUE])
    BY <1>3
  <2>2. PICK r \in Walk : Turns(w, r) /\ r.at = "loop" /\ r.left = Connections
    <3>1. [at |-> "loop", conn |-> NoConn, left |-> Connections,
           files |-> files, external |-> 0, locked |-> TRUE] \in Walk
      BY DEF Walk
    <3> QED
      BY <2>1, <3>1
  <2>3. WalkSound(r)'
    BY <2>2 DEF WalkSound
  <2>4. /\ push' \in Push /\ push'.state = "active"
        /\ push'.attempts < PushAttempts
    BY <1>1, <1>3 DEF Push
  <2>5. JobSound' /\ Passed'
    BY <1>1, <2>2, <2>3, <2>4, JobTurns
  <2> QED
    BY <2>4, <2>5 DEF NonePending
<1>4. CASE push' = [push EXCEPT !.state = "skipped"] /\ UNCHANGED walk
  <2>1. push' \in Push /\ push'.state = "skipped"
    BY <1>1, <1>4 DEF Push
  <2>2. \A v \in Pushers : ~walk[v].locked
    BY <1>1 DEF FulfilInv, JobSound
  <2>3. \A v \in Pushers : WalkSound(walk[v])'
    BY <1>1, <1>4, WalkSoundOn
  <2>4. JobSound'
    BY <1>4, <2>1, <2>2, <2>3 DEF FulfilInv, JobSound
  <2> QED
    BY <2>1, <2>4 DEF Passed, NonePending
<1> QED
  BY <1>3, <1>4 DEF TakePush

LEMMA OpenRowInv ==
  ASSUME FulfilInv, NEW w \in Pushers, NEW c \in Connections, OpenRow(w, c)
  PROVE  FulfilInv'
<1>1. /\ UNCHANGED <<prints, push, postman, reports>>
      /\ walk[w].at = "loop" /\ walk[w] \in Walk /\ c \in walk[w].left
      /\ Forward
  BY StandStill, OnItsWay DEF OpenRow
<1>2. CASE Throws(w) /\ UNCHANGED <<row, late>>
  <2>1. Keeps
    BY <1>1, <1>2, KeepsIf
  <2>2. JobSound' /\ Passed' /\ NonePending'
    BY <1>1, <1>2, <2>1, ThrowsInv, PendingStays
  <2> QED
    BY <1>1, <1>2, <2>2, WorkerSteps DEF FulfilInv, RowsType
<1>3. CASE /\ row' = [row EXCEPT ![c].status = IF @ = "none" THEN "PENDING"
                                                            ELSE @]
           /\ late' = late \cup {d \in {c} : row[d].status = "none"
                                              /\ push.state = "dead"}
           /\ Turns(w, [walk[w] EXCEPT !.at = "call", !.conn = c])
  <2>1. /\ row' \in [Connections -> Row]
        /\ \A k \in Connections :
             /\ row'[k].external = row[k].external
             /\ \/ row'[k].status = row[k].status
                \/ k = c /\ row[k].status = "none" /\ row'[k].status = "PENDING"
    BY <1>3 DEF FulfilInv, RowsType, Row, RowStatus
  <2>2. Keeps
    BY <1>1, <2>1, KeepsIf
  <2>3. PICK r \in Walk : /\ Turns(w, r) /\ r.at = "call" /\ r.conn = c
                          /\ r.left = walk[w].left
                          /\ r.locked = walk[w].locked
    <3>1. [walk[w] EXCEPT !.at = "call", !.conn = c] \in Walk
      BY <1>1 DEF Walk
    <3> QED
      BY <1>1, <1>3, <3>1 DEF Walk
  <2>4. WalkSound(r)'
    <3>1. \A k \in Connections \ r.left : Made(k)
      BY <1>1, <2>3 DEF FulfilInv, JobSound, WalkSound
    <3> QED
      BY <1>1, <2>2, <2>3, <3>1 DEF WalkSound, Keeps
  <2>5. JobSound' /\ Passed'
    BY <1>1, <2>2, <2>3, <2>4, JobTurns DEF FulfilInv, JobSound
  <2>6. late' \subseteq Connections /\ late \subseteq late'
    BY <1>3 DEF FulfilInv, RowsType
  <2>7. NonePending'
    BY <1>1, <1>3, <2>1, <2>6 DEF FulfilInv, NonePending
  <2> QED
    BY <1>1, <2>1, <2>5, <2>6, <2>7, WorkerSteps DEF FulfilInv, RowsType
<1> QED
  BY <1>2, <1>3 DEF OpenRow

LEMMA RefuseInv ==
  ASSUME FulfilInv, NEW w \in Pushers, Refuse(w) PROVE FulfilInv'
<1>1. /\ UNCHANGED <<prints, postman, reports, late>>
      /\ walk[w].at # "none"
      /\ Forward
  BY StandStill DEF Refuse
<1>2. /\ row' \in [Connections -> Row]
      /\ \A k \in Connections :
           /\ row'[k].external = row[k].external
           /\ row'[k].status \in {row[k].status, "FAILED"}
  <2>1. row' = row \/ row' = [row EXCEPT ![walk[w].conn].status = "FAILED"]
    BY DEF Refuse
  <2>2. CASE row' = row
    BY <2>2 DEF FulfilInv, RowsType
  <2>3. CASE row' = [row EXCEPT ![walk[w].conn].status = "FAILED"]
    BY <2>3 DEF FulfilInv, RowsType, Row, RowStatus
  <2> QED
    BY <2>1, <2>2, <2>3
<1>3. Keeps
  BY <1>1, <1>2, KeepsIf
<1>4. /\ JobSound' /\ Passed'
      /\ push'.state = "dead" => push.state = "dead"
  <2>1. CASE Leaves(w, "refused", 1)
    BY <1>1, <1>3, <2>1, LeavesInv
  <2>2. CASE Throws(w) /\ UNCHANGED push
    BY <1>1, <1>3, <2>2, ThrowsInv
  <2> QED
    BY <2>1, <2>2 DEF Refuse
<1>5. NonePending'
  BY <1>1, <1>2, <1>4, PendingStays
<1> QED
  BY <1>1, <1>2, <1>4, <1>5, WorkerSteps DEF FulfilInv, RowsType

\* Another order at one connection.
LEMMA AppendForward ==
  ASSUME RowsType, NEW c \in Connections,
         prints' = [prints EXCEPT ![c] = Append(prints[c], "made")]
  PROVE  /\ Forward
         /\ prints' \in [Connections -> Seq(PrintState)]
         /\ prints'[c] # <<>>
         /\ Len(prints'[c]) = Len(prints[c]) + 1
<1>1. prints[c] \in Seq(PrintState) /\ "made" \in PrintState
  BY DEF RowsType, PrintState
<1>2. /\ prints'[c] = Append(prints[c], "made")
      /\ \A k \in Connections : k # c => prints'[k] = prints[k]
      /\ prints' \in [Connections -> Seq(PrintState)]
  BY <1>1 DEF RowsType
<1>3. /\ prints'[c] # <<>>
      /\ Len(prints'[c]) = Len(prints[c]) + 1
      /\ \A n \in DOMAIN prints[c] : /\ n \in DOMAIN prints'[c]
                                    /\ prints'[c][n] = prints[c][n]
  BY <1>1, <1>2
<1>4. Forward
  BY <1>2, <1>3 DEF Forward, Real
<1> QED
  BY <1>2, <1>3, <1>4

LEMMA CallProviderInv ==
  ASSUME FulfilInv, NEW w \in Pushers, CallProvider(w) PROVE FulfilInv'
<1>1. /\ walk[w] \in Walk /\ walk[w].at = "call"
      /\ UNCHANGED <<row, push, postman, reports, late>>
  BY OnItsWay DEF CallProvider
<1>2. PICK c \in Connections : c = walk[w].conn /\ c \in walk[w].left
  BY <1>1 DEF FulfilInv, JobSound, WalkSound, Walk
<1>3. prints[c] \in Seq(PrintState) /\ Len(prints[c]) \in Nat
  BY DEF FulfilInv, RowsType
<1>4. NonePending'
  BY <1>1, PendingStays
<1>5. CASE Throws(w) /\ UNCHANGED prints
  <2>1. Forward /\ Keeps
    BY <1>1, <1>5, StandStill, KeepsIf
  <2>2. JobSound' /\ Passed'
    BY <1>1, <1>5, <2>1, ThrowsInv
  <2> QED
    BY <1>1, <1>4, <1>5, <2>1, <2>2, WorkerSteps DEF FulfilInv, RowsType
<1>6. CASE prints' = [prints EXCEPT ![c] = Append(prints[c], "made")]
  <2>1. /\ Forward
        /\ prints' \in [Connections -> Seq(PrintState)]
        /\ prints'[c] # <<>>
    BY <1>6, AppendForward DEF FulfilInv, RowsType
  <2>2. Keeps
    BY <1>1, <2>1, KeepsIf
  <2>3. CASE Throws(w)
    <3>1. JobSound' /\ Passed'
      BY <1>1, <2>1, <2>2, <2>3, ThrowsInv
    <3> QED
      BY <1>1, <1>4, <2>1, <3>1, WorkerSteps DEF FulfilInv, RowsType
  <2>4. CASE Turns(w, [walk[w] EXCEPT !.at = "write",
                         !.external =
                           External(c, Len(Append(prints[c], "made")))])
    <3>1. PICK e \in Nat : e = External(c, Len(Append(prints[c], "made")))
                            /\ e # 0
      BY <1>3 DEF External
    <3>2. PICK r \in Walk :
            /\ Turns(w, r) /\ r.at = "write" /\ r.external # 0
            /\ r.left = walk[w].left /\ r.conn = c
            /\ r.locked = walk[w].locked
      <4>1. [walk[w] EXCEPT !.at = "write", !.external = e] \in Walk
        BY <1>1 DEF Walk
      <4> QED
        BY <1>1, <1>2, <2>4, <3>1, <4>1 DEF Walk
    <3>3. WalkSound(r)'
      <4>1. \A k \in Connections \ r.left : Made(k)
        BY <1>1, <3>2 DEF FulfilInv, JobSound, WalkSound
      <4> QED
        BY <1>2, <2>1, <2>2, <3>2, <4>1 DEF WalkSound, Keeps
    <3>4. JobSound' /\ Passed'
      BY <1>1, <2>1, <2>2, <3>2, <3>3, JobTurns DEF FulfilInv, JobSound
    <3> QED
      BY <1>1, <1>4, <2>1, <3>4, WorkerSteps DEF FulfilInv, RowsType
  <2> QED
    BY <1>2, <1>5, <1>6, <2>3, <2>4 DEF CallProvider
<1> QED
  BY <1>2, <1>5, <1>6 DEF CallProvider

LEMMA RecordSubmittedInv ==
  ASSUME FulfilInv, NEW w \in Pushers, RecordSubmitted(w) PROVE FulfilInv'
<1>1. /\ walk[w] \in Walk /\ walk[w].at = "write"
      /\ UNCHANGED <<prints, push, postman, reports, late>>
      /\ Forward
  BY OnItsWay, StandStill DEF RecordSubmitted
<1>2. PICK c \in Connections : c = walk[w].conn /\ c \in walk[w].left
  BY <1>1 DEF FulfilInv, JobSound, WalkSound, Walk
<1>3. /\ walk[w].external # 0 /\ prints[c] # <<>> /\ walk[w].external \in Nat
      /\ \A k \in Connections \ walk[w].left : Made(k)
  BY <1>1, <1>2 DEF FulfilInv, JobSound, WalkSound, Walk
<1>4. CASE Throws(w) /\ UNCHANGED row
  <2>1. Keeps
    BY <1>1, <1>4, KeepsIf
  <2>2. JobSound' /\ Passed' /\ NonePending'
    BY <1>1, <1>4, <2>1, ThrowsInv, PendingStays
  <2> QED
    BY <1>1, <1>4, <2>2, WorkerSteps DEF FulfilInv, RowsType
<1>5. CASE /\ row' = [row EXCEPT ![c] = [status |-> "SUBMITTED",
                                        external |-> walk[w].external]]
           /\ Turns(w, [walk[w] EXCEPT !.at = "loop", !.conn = NoConn,
                                      !.left = @ \ {c}, !.external = 0])
  <2>1. [status |-> "SUBMITTED", external |-> walk[w].external] \in Row
    BY <1>3 DEF Row, RowStatus
  <2>2. /\ row' \in [Connections -> Row]
        /\ row'[c].external # 0 /\ row'[c].status = "SUBMITTED"
        /\ \A k \in Connections : k # c => row'[k] = row[k]
    BY <1>3, <1>5, <2>1 DEF FulfilInv, RowsType
  <2>3. Keeps
    BY <1>1, <2>2, KeepsIf
  <2>4. PICK r \in Walk : /\ Turns(w, r) /\ r.at = "loop"
                          /\ r.left = walk[w].left \ {c}
                          /\ r.locked = walk[w].locked
    <3>1. [walk[w] EXCEPT !.at = "loop", !.conn = NoConn,
                          !.left = @ \ {c}, !.external = 0] \in Walk
      BY <1>1 DEF Walk
    <3> QED
      BY <1>1, <1>5, <3>1 DEF Walk
  <2>5. WalkSound(r)'
    <3>1. Made(c)'
      BY <1>1, <1>3, <2>2 DEF Made
    <3> QED
      BY <1>3, <2>3, <2>4, <3>1 DEF WalkSound, Keeps
  <2>6. JobSound' /\ Passed'
    BY <1>1, <2>3, <2>4, <2>5, JobTurns DEF FulfilInv, JobSound
  <2>7. NonePending'
    BY <1>1, <2>2, PendingStays
  <2> QED
    BY <1>1, <2>2, <2>6, <2>7, WorkerSteps DEF FulfilInv, RowsType
<1> QED
  BY <1>2, <1>4, <1>5 DEF RecordSubmitted

LEMMA PushEndsInv ==
  ASSUME FulfilInv, NEW w \in Pushers,
         \/ PushCompletes(w) \/ PushThrows(w) \/ PushStalled(w) \/ PusherDies(w)
  PROVE  FulfilInv'
<1>1. /\ UNCHANGED <<row, prints, postman, reports, late>>
      /\ Forward /\ Keeps
  BY StandStill, KeepsIf
     DEF PushCompletes, PushThrows, PushStalled, PusherDies
<1>2. /\ push \in Push /\ push.attempts \in Nat /\ push.stalls \in Nat
      /\ walk[w].locked => push.attempts < PushAttempts
      /\ walk[w] \in Walk \/ walk[w] = AtRest
  BY FulfilBoundsAssumption DEF FulfilInv, JobSound, Push
<1>3. SUFFICES ASSUME TRUE
               PROVE  /\ JobSound' /\ Passed'
                      /\ push'.state = "dead" => push.state = "dead"
  BY <1>1, PendingStays, WorkerSteps DEF FulfilInv, RowsType
<1>4. /\ AtRest \in Walk \cup {AtRest} /\ ~AtRest.locked
      /\ WalkSound(AtRest)'
  BY RestIsRest DEF WalkSound, AtRest
<1>5. CASE PushCompletes(w)
  <2>1. \A c \in Connections : Made(c)
    BY <1>5 DEF PushCompletes, FulfilInv, JobSound, WalkSound
  <2> QED
    BY <1>1, <1>2, <1>5, <2>1, LeavesInv DEF PushCompletes, FulfilInv
<1>6. CASE PushThrows(w)
  <2>1. PICK state : /\ Leaves(w, state, 1)
                     /\ state \in {"waiting", "exhausted"}
                     /\ state = "waiting" => push.attempts + 1 < PushAttempts
    BY <1>6 DEF PushThrows
  <2> QED
    BY <1>1, <1>6, <2>1, LeavesInv DEF PushThrows
<1>7. CASE PushStalled(w)
  <2>1. walk[w].locked /\ walk[w] \in Walk
    BY <1>2, <1>7, RestIsRest DEF PushStalled
  <2>2. /\ push' \in Push /\ push'.state \in {"waiting", "stalled"}
        /\ push'.attempts = push.attempts
    <3>1. CASE /\ push.stalls < PushStalls
               /\ push' = [push EXCEPT !.state = "waiting", !.stalls = @ + 1]
      <4>1. push.stalls + 1 \in 0 .. PushStalls
        BY <1>2, <3>1, FulfilBoundsAssumption
      <4> QED
        BY <1>2, <3>1, <4>1 DEF Push
    <3>2. CASE push' = [push EXCEPT !.state = "stalled"]
      BY <1>2, <3>2 DEF Push
    <3> QED
      BY <1>7, <3>1, <3>2 DEF PushStalled
  <2>3. PICK r \in Walk \cup {AtRest} : Turns(w, r) /\ ~r.locked /\ WalkSound(r)'
    <3>1. CASE Turns(w, AtRest)
      BY <1>4, <3>1
    <3>2. CASE Turns(w, [walk[w] EXCEPT !.locked = FALSE])
      <4>1. PICK r \in Walk :
              /\ r = [walk[w] EXCEPT !.locked = FALSE]
              /\ r.at = walk[w].at /\ r.conn = walk[w].conn
              /\ r.left = walk[w].left /\ r.external = walk[w].external
              /\ ~r.locked
        <5>1. [walk[w] EXCEPT !.locked = FALSE] \in Walk
          BY <2>1 DEF Walk
        <5> QED
          BY <2>1, <5>1 DEF Walk
      <4>2. WalkSound(walk[w])
        BY DEF FulfilInv, JobSound
      <4>3. WalkSound(r)
        BY <4>1, <4>2 DEF WalkSound
      <4>4. WalkSound(r)'
        BY <1>1, <4>3 DEF WalkSound, Made
      <4> QED
        BY <3>2, <4>1, <4>4
    <3> QED
      BY <1>7, <3>1, <3>2 DEF PushStalled
  <2>4. JobSound' /\ Passed'
    BY <1>1, <1>2, <2>1, <2>2, <2>3, JobTurns
  <2> QED
    BY <2>2, <2>4
<1>8. CASE PusherDies(w)
  <2>1. push' = push /\ Turns(w, AtRest)
    BY <1>8 DEF PusherDies
  <2>2. push'.state \in {"waiting", "active"} => push'.attempts < PushAttempts
    BY <2>1 DEF FulfilInv, JobSound
  <2> QED
    BY <1>1, <1>2, <1>4, <2>1, <2>2, JobTurns
<1> QED
  BY <1>5, <1>6, <1>7, <1>8

LEMMA OnFailedInv ==
  ASSUME FulfilInv, OnFailed PROVE FulfilInv'
<1>1. /\ UNCHANGED <<prints, walk, postman, reports, late>>
      /\ push \in Push /\ push.state = "exhausted"
      /\ Forward
  BY StandStill DEF OnFailed, FulfilInv, JobSound
<1>2. /\ push' \in Push /\ push'.state \in {"dead", "unmarked"}
  BY <1>1 DEF OnFailed, Push
<1>3. /\ row' \in [Connections -> Row]
      /\ \A k \in Connections :
           /\ row'[k].external = row[k].external
           /\ row'[k].status \in {row[k].status, "FAILED"}
           /\ push'.state = "dead" => row'[k].status # "PENDING"
  <2>1. CASE /\ row' = [c \in Connections |->
                          IF c \in GivenUp
                            THEN [row[c] EXCEPT !.status = "FAILED"]
                            ELSE row[c]]
    BY <2>1 DEF GivenUp, FulfilInv, RowsType, Row, RowStatus
  <2>2. CASE push' = [push EXCEPT !.state = "unmarked"] /\ UNCHANGED row
    BY <1>1, <2>2 DEF FulfilInv, RowsType, Push
  <2> QED
    BY <2>1, <2>2 DEF OnFailed
<1>4. Keeps
  BY <1>1, <1>3, KeepsIf
<1>5. JobSound'
  <2>1. \A v \in Pushers : WalkSound(walk[v])'
    BY <1>1, <1>4, WalkSoundOn
  <2>2. \A v \in Pushers : ~walk[v].locked
    BY <1>1 DEF FulfilInv, JobSound
  <2> QED
    BY <1>1, <1>2, <2>1, <2>2 DEF FulfilInv, JobSound
<1>6. Passed' /\ NonePending'
  BY <1>2, <1>3 DEF Passed, NonePending
<1> QED
  BY <1>1, <1>3, <1>5, <1>6, WorkerSteps DEF FulfilInv, RowsType

-----------------------------------------------------------------------------
(* The provider and its webhooks                                           *)

\* A step that leaves the job, the worker and what they rest on alone.
LEMMA JobStays ==
  ASSUME FulfilInv, Forward, UNCHANGED <<push, walk, late>>,
         \A c \in Connections :
           /\ row'[c].external = row[c].external
           /\ row'[c].status = "PENDING" => row[c].status = "PENDING"
  PROVE  JobSound' /\ Passed' /\ NonePending'
<1>1. Keeps
  BY KeepsIf
<1>2. \A w \in Pushers : WalkSound(walk[w])'
  BY <1>1, WalkSoundOn
<1>3. JobSound'
  BY <1>2 DEF FulfilInv, JobSound
<1>4. Passed'
  BY <1>1 DEF FulfilInv, Passed, Keeps
<1>5. NonePending'
  BY PendingStays
<1> QED
  BY <1>3, <1>4, <1>5

LEMMA FollowingGoesForward ==
  ASSUME NEW state \in PrintState, NEW next \in Following(state)
  PROVE  /\ next \in PrintState
         /\ \A states \in {PrintState, Producing, Sent, Arrived} :
              state \in states => next \in states
BY DEF Following, PrintState, Producing, Sent, Arrived

LEMMA PrintAdvancesInv ==
  ASSUME FulfilInv, NEW c \in Connections, NEW n \in DOMAIN prints[c],
         PrintAdvances(c, n)
  PROVE  FulfilInv'
<1>1. /\ prints[c] \in Seq(PrintState)
      /\ prints \in [Connections -> Seq(PrintState)]
  BY DEF FulfilInv, RowsType
<1>2. prints[c][n] \in PrintState
  BY <1>1
<1>3. PICK next \in Following(prints[c][n]) :
        prints' = [prints EXCEPT ![c][n] = next]
  BY DEF PrintAdvances
<1>4. next \in PrintState
  BY <1>2, <1>3, FollowingGoesForward
<1>5. /\ [prints[c] EXCEPT ![n] = next] \in Seq(PrintState)
      /\ DOMAIN [prints[c] EXCEPT ![n] = next] = DOMAIN prints[c]
  BY <1>1, <1>4
<1>6. /\ prints' \in [Connections -> Seq(PrintState)]
      /\ \A k \in Connections : k # c => prints'[k] = prints[k]
      /\ prints'[c] = [prints[c] EXCEPT ![n] = next]
  BY <1>1, <1>3, <1>5
<1>7. \A i \in DOMAIN prints[c] :
        /\ i \in DOMAIN prints'[c]
        /\ \A states \in {PrintState, Producing, Sent, Arrived} :
             prints[c][i] \in states => prints'[c][i] \in states
  BY <1>2, <1>3, <1>5, <1>6, FollowingGoesForward
<1>8. prints'[c] # <<>>
  BY <1>5, <1>6
<1>9. Forward
  BY <1>6, <1>7, <1>8 DEF Forward, Real
<1>10. JobSound' /\ Passed' /\ NonePending'
  BY <1>9, JobStays DEF PrintAdvances
<1>11. RowsType'
  BY <1>6 DEF PrintAdvances, FulfilInv, RowsType, reports
<1>12. PostSound' /\ PagesSound'
  BY <1>9, PostGoesOn, PagesGoOn DEF PrintAdvances, FulfilInv, reports
<1> QED
  BY <1>10, <1>11, <1>12 DEF FulfilInv

\* A request that now carries r, what is so, and has written nothing.
LEMMA PostTurns ==
  ASSUME FulfilInv, NEW m \in Postmen, NEW r \in Postman, Carries(prints, r),
         postman' = [postman EXCEPT ![m] = r], UNCHANGED prints
  PROVE  PostSound'
<1>1. postman' \in [Postmen -> Postman]
  BY DEF FulfilInv, PostSound
<1>2. \A k \in Postmen : postman'[k] = IF k = m THEN r ELSE postman[k]
  BY DEF FulfilInv, PostSound
<1> QED
  BY <1>1, <1>2 DEF FulfilInv, PostSound

LEMMA HomeCarries ==
  ASSUME NEW all PROVE Home \in Postman /\ Carries(all, Home)
BY DEF Home, Postman, Carries, Tells, Shows

\* What a report says of an order has happened to it.
LEMMA ReportIsSo ==
  ASSUME NEW state, NEW now \in PrintState, state \in Reached(now), NEW c,
         NEW kind \in Kinds(c, state)
  PROVE  /\ StatusOf(state) \in RowStatus \ {"PENDING"}
         /\ StatusOf(state) = "IN_PRODUCTION" => now \in Producing
         /\ StatusOf(state) = "FULFILLED" => now \in Sent
         /\ Numbered(kind, state) => now \in Sent
         /\ StagesOf(kind, state) \subseteq Stages
         /\ {"PICKED_UP", "IN_TRANSIT"} \cap StagesOf(kind, state) # {}
              => now \in Sent
         /\ "DELIVERED" \in StagesOf(kind, state) => now \in Arrived
<1>1. state \in PrintState
  BY DEF Reached, PrintState
<1>2. /\ StatusOf(state) \in RowStatus \ {"PENDING"}
      /\ StatusOf(state) = "IN_PRODUCTION" => now \in Producing
      /\ StatusOf(state) = "FULFILLED" => now \in Sent
  BY <1>1 DEF Reached, PrintState, StatusOf, RowStatus, Producing, Sent
<1>3. Numbered(kind, state) => now \in Sent
  BY <1>1 DEF Reached, PrintState, Numbered, Sent, Kinds
<1>4. /\ StagesOf(kind, state) \subseteq Stages
      /\ {"PICKED_UP", "IN_TRANSIT"} \cap StagesOf(kind, state) # {}
           => state = "shipped"
      /\ "DELIVERED" \in StagesOf(kind, state) => state = "delivered"
  <2>1. state = "cancelled" => kind \in {"updated", "error"}
    BY DEF Kinds
  <2>2. CASE kind \in {"updated", "error"}
    BY <2>2 DEF StagesOf, Stages
  <2>3. CASE kind \notin {"updated", "error"}
    BY <1>1, <2>1, <2>3 DEF PrintState, StagesOf, Stages
  <2> QED
    BY <2>2, <2>3
<1>5. /\ state = "delivered" => now \in Arrived
      /\ state = "shipped" => now \in Sent
  BY DEF Reached, PrintState, Arrived, Sent
<1> QED
  BY <1>2, <1>3, <1>4, <1>5

LEMMA ReceiveNoticeInv ==
  ASSUME FulfilInv, NEW m \in Postmen, NEW c \in Connections,
         NEW n \in DOMAIN prints[c], NEW state \in Reached(prints[c][n]),
         NEW kind \in Kinds(c, state), ReceiveNotice(m, c, n, kind, state)
  PROVE  FulfilInv'
<1> DEFINE r == [conn |-> c,
                 status |-> IF kind = "shipment" THEN "none"
                                                 ELSE StatusOf(state),
                 numbered |-> Numbered(kind, state),
                 stages |-> StagesOf(kind, state)]
<1>1. prints[c] \in Seq(PrintState)
  BY DEF FulfilInv, RowsType
<1>2. prints[c][n] \in PrintState
  BY <1>1
<1>3. /\ StatusOf(state) \in RowStatus \ {"PENDING"}
      /\ StatusOf(state) = "IN_PRODUCTION" => prints[c][n] \in Producing
      /\ StatusOf(state) = "FULFILLED" => prints[c][n] \in Sent
      /\ Numbered(kind, state) => prints[c][n] \in Sent
      /\ StagesOf(kind, state) \subseteq Stages
      /\ {"PICKED_UP", "IN_TRANSIT"} \cap StagesOf(kind, state) # {}
           => prints[c][n] \in Sent
      /\ "DELIVERED" \in StagesOf(kind, state) => prints[c][n] \in Arrived
  BY <1>2, ReportIsSo
<1>4. Numbered(kind, state) \in BOOLEAN
  BY DEF Numbered
<1>5. r \in Postman
  BY <1>3, <1>4 DEF Postman
<1>6. \A states : prints[c][n] \in states => Real(prints, c, states)
  BY DEF Real
<1>7. Carries(prints, r)
  <2>1. \A s \in StagesOf(kind, state) : Shows(prints, s)
    BY <1>2, <1>3, <1>6 DEF Shows
  <2> QED
    BY <1>3, <1>6, <2>1 DEF Carries, Tells
<1>8. postman' = [postman EXCEPT ![m] = r]
  BY DEF ReceiveNotice
<1> HIDE DEF r
<1>9. PostSound'
  BY <1>5, <1>7, <1>8, PostTurns DEF ReceiveNotice
<1>10. PagesSound'
  BY StandStill, PagesGoOn DEF ReceiveNotice, FulfilInv, reports
<1>11. JobSound' /\ Passed' /\ NonePending'
  BY StandStill, JobStays DEF ReceiveNotice
<1>12. RowsType'
  BY DEF ReceiveNotice, FulfilInv, RowsType, reports
<1> QED
  BY <1>9, <1>10, <1>11, <1>12 DEF FulfilInv

\* What is left of a request that was so is so.
LEMMA LeftCarries ==
  ASSUME NEW all, NEW work \in Postman, Carries(all, work),
         NEW status \in {work.status, "none"},
         NEW numbered \in BOOLEAN, numbered => work.numbered
  PROVE  /\ Left(work, status, numbered) \in Postman
         /\ Carries(all, Left(work, status, numbered))
<1>1. /\ work.stages \subseteq Stages /\ work.status \in RowStatus \cup {"none"}
      /\ work.conn \in Connections \cup {NoConn}
  BY DEF Postman
<1>2. CASE status = "none" /\ ~numbered
  <2>1. CASE work.stages = {}
    BY <1>2, <2>1, HomeCarries DEF Left
  <2>2. CASE work.stages # {}
    <3>1. Left(work, status, numbered) = [Home EXCEPT !.stages = work.stages]
      BY <1>2, <2>2 DEF Left
    <3>2. /\ [Home EXCEPT !.stages = work.stages] \in Postman
          /\ [Home EXCEPT !.stages = work.stages].stages = work.stages
          /\ [Home EXCEPT !.stages = work.stages].status = "none"
          /\ ~[Home EXCEPT !.stages = work.stages].numbered
      BY <1>1 DEF Home, Postman
    <3> QED
      BY <3>1, <3>2 DEF Carries, Tells
  <2> QED
    BY <2>1, <2>2
<1>3. CASE ~(status = "none" /\ ~numbered)
  <2> DEFINE r == [work EXCEPT !.status = status, !.numbered = numbered]
  <2>1. Left(work, status, numbered) = r
    BY <1>3 DEF Left
  <2>2. /\ r \in Postman /\ r.conn = work.conn /\ r.stages = work.stages
        /\ r.status = status /\ r.numbered = numbered
    BY <1>1 DEF Postman
  <2> HIDE DEF r
  <2>3. Carries(all, r)
    BY <2>2 DEF Carries, Tells
  <2> QED
    BY <2>1, <2>2, <2>3
<1> QED
  BY <1>2, <1>3

LEMMA WriteStatusInv ==
  ASSUME FulfilInv, NEW m \in Postmen, WriteStatus(m) PROVE FulfilInv'
<1>1. PICK w \in Postman : w = postman[m] /\ Carries(prints, w)
  BY DEF FulfilInv, PostSound
<1>2. /\ w.status # "none" /\ w.status # "PENDING" /\ w.status \in RowStatus
      /\ w.conn \in Connections /\ Tells(prints, w.conn, w.status)
      /\ w.numbered \in BOOLEAN
  BY <1>1 DEF WriteStatus, Carries, Postman
<1>3. PICK r : r = Left(w, "none", w.numbered)
  OBVIOUS
<1>4. r \in Postman /\ Carries(prints, r)
  BY <1>1, <1>2, <1>3, LeftCarries
<1>5. postman' = [postman EXCEPT ![m] = r] /\ UNCHANGED prints
  BY <1>1, <1>3 DEF WriteStatus, FulfilInv, PostSound
<1>6. PostSound'
  BY <1>4, <1>5, PostTurns
<1>7. /\ row' \in [Connections -> Row]
      /\ row'[w.conn].status = w.status
      /\ \A k \in Connections :
           /\ row'[k].external = row[k].external
           /\ k # w.conn => row'[k].status = row[k].status
  BY <1>1, <1>2 DEF WriteStatus, FulfilInv, RowsType, Row
<1>8. JobSound' /\ Passed' /\ NonePending'
  BY <1>2, <1>5, <1>7, StandStill, JobStays DEF WriteStatus
<1>9. RowsType'
  BY <1>7 DEF WriteStatus, FulfilInv, RowsType, reports
<1>10. PagesSound'
  BY <1>2, <1>5, <1>7 DEF WriteStatus, FulfilInv, PagesSound, Tells, reports
<1> QED
  BY <1>6, <1>8, <1>9, <1>10 DEF FulfilInv

LEMMA WriteNumberInv ==
  ASSUME FulfilInv, NEW m \in Postmen, WriteNumber(m) PROVE FulfilInv'
<1>1. PICK w \in Postman : w = postman[m] /\ Carries(prints, w)
  BY DEF FulfilInv, PostSound
<1>2. w.numbered /\ w.conn \in Connections /\ Real(prints, w.conn, Sent)
  BY <1>1 DEF WriteNumber, Carries
<1>3. PICK r : r = Left(w, w.status, FALSE)
  OBVIOUS
<1>4. r \in Postman /\ Carries(prints, r)
  BY <1>1, <1>3, LeftCarries
<1>5. postman' = [postman EXCEPT ![m] = r] /\ UNCHANGED prints
  BY <1>1, <1>3 DEF WriteNumber, FulfilInv, PostSound
<1>6. PostSound'
  BY <1>4, <1>5, PostTurns
<1>7. JobSound' /\ Passed' /\ NonePending'
  BY <1>5, StandStill, JobStays DEF WriteNumber
<1>8. parcelOf' = {w.conn}
  BY <1>1 DEF WriteNumber
<1>9. RowsType'
  BY <1>2, <1>8 DEF WriteNumber, FulfilInv, RowsType
<1>10. PagesSound'
  BY <1>2, <1>8 DEF WriteNumber, FulfilInv, PagesSound, Tells
<1> QED
  BY <1>6, <1>7, <1>9, <1>10 DEF FulfilInv

LEMMA WriteStageInv ==
  ASSUME FulfilInv, NEW m \in Postmen, WriteStage(m) PROVE FulfilInv'
<1>1. PICK w \in Postman : w = postman[m] /\ Carries(prints, w)
  BY DEF FulfilInv, PostSound
<1>2. stage' \in Stages /\ Shows(prints, stage')
  BY <1>1 DEF WriteStage, Carries, Postman
<1>3. PostSound'
  BY HomeCarries, PostTurns DEF WriteStage
<1>4. JobSound' /\ Passed' /\ NonePending'
  BY StandStill, JobStays DEF WriteStage
<1>5. RowsType'
  BY <1>2 DEF WriteStage, FulfilInv, RowsType
<1>6. PagesSound'
  BY <1>2 DEF WriteStage, FulfilInv, PagesSound
<1> QED
  BY <1>3, <1>4, <1>5, <1>6 DEF FulfilInv

LEMMA PostmanDiesInv ==
  ASSUME FulfilInv, NEW m \in Postmen, PostmanDies(m) PROVE FulfilInv'
<1>1. PostSound'
  BY HomeCarries, PostTurns DEF PostmanDies
<1>2. JobSound' /\ Passed' /\ NonePending'
  BY StandStill, JobStays DEF PostmanDies
<1>3. RowsType' /\ PagesSound'
  BY StandStill, PagesGoOn DEF PostmanDies, FulfilInv, RowsType, reports
<1> QED
  BY <1>1, <1>2, <1>3 DEF FulfilInv

-----------------------------------------------------------------------------
(* The theorems                                                            *)

LEMMA FulfilInitInv == FulfilInit => FulfilInv
<1> SUFFICES ASSUME FulfilInit PROVE FulfilInv
  OBVIOUS
<1>1. RowsType
  <2>1. [status |-> "none", external |-> 0] \in Row
    BY DEF Row
  <2>2. <<>> \in Seq(PrintState)
    OBVIOUS
  <2> QED
    BY <2>1, <2>2 DEF FulfilInit, RowsType
<1>2. JobSound
  <2>1. push \in Push /\ push.attempts < PushAttempts
    BY FulfilBoundsAssumption DEF FulfilInit, Push
  <2>2. \A w \in Pushers : walk[w] = AtRest
    BY DEF FulfilInit
  <2>3. \A w \in Pushers : WalkSound(walk[w]) /\ ~walk[w].locked
    BY <2>2, RestIsRest DEF WalkSound
  <2> QED
    BY <2>1, <2>3 DEF FulfilInit, JobSound
<1>3. Passed /\ NonePending
  BY DEF FulfilInit, Passed, NonePending
<1>4. PostSound
  BY HomeCarries DEF FulfilInit, PostSound
<1>5. PagesSound
  BY DEF FulfilInit, PagesSound, Tells, Shows
<1> QED
  BY <1>1, <1>2, <1>3, <1>4, <1>5 DEF FulfilInv

LEMMA FulfilStepInv == FulfilInv /\ [FulfilNext]_fulfilVars => FulfilInv'
<1> SUFFICES ASSUME FulfilInv, [FulfilNext]_fulfilVars PROVE FulfilInv'
  OBVIOUS
<1>1. CASE UNCHANGED fulfilVars
  <2>1. JobSound' /\ Passed' /\ NonePending'
    BY <1>1, StandStill, JobStays DEF fulfilVars
  <2>2. RowsType' /\ PostSound' /\ PagesSound'
    BY <1>1, PagesStay DEF fulfilVars, reports, FulfilInv, RowsType
  <2> QED
    BY <2>1, <2>2 DEF FulfilInv
<1>2. ASSUME NEW c \in Connections, NEW n \in DOMAIN prints[c],
             PrintAdvances(c, n)
      PROVE  FulfilInv'
  BY <1>2, PrintAdvancesInv
<1>3. ASSUME NEW m \in Postmen, NEW c \in Connections,
             NEW n \in DOMAIN prints[c], NEW state \in Reached(prints[c][n]),
             NEW kind \in Kinds(c, state), ReceiveNotice(m, c, n, kind, state)
      PROVE  FulfilInv'
  BY <1>3, ReceiveNoticeInv
<1>4. ASSUME NEW m \in Postmen,
             \/ WriteStatus(m) \/ WriteNumber(m) \/ WriteStage(m)
             \/ PostmanDies(m)
      PROVE  FulfilInv'
  BY <1>4, WriteStatusInv, WriteNumberInv, WriteStageInv, PostmanDiesInv
<1>5. ASSUME NEW w \in Pushers,
             \/ \E c \in Connections : OpenRow(w, c)
             \/ TakePush(w) \/ Refuse(w) \/ CallProvider(w)
             \/ RecordSubmitted(w) \/ PushCompletes(w) \/ PushThrows(w)
             \/ PushStalled(w) \/ PusherDies(w)
      PROVE  FulfilInv'
  BY <1>5, OpenRowInv, TakePushInv, RefuseInv, CallProviderInv,
     RecordSubmittedInv, PushEndsInv
<1>6. ASSUME OnFailed PROVE FulfilInv'
  BY <1>6, OnFailedInv
<1> QED
  BY <1>1, <1>2, <1>3, <1>4, <1>5, <1>6 DEF FulfilNext

\* Whatever throws, dies, is retried, delivered twice or out of order, the
\* rows, the job, its worker and the webhook requests have their types.
THEOREM FulfilTypeCorrect == FulfilSpec => []FulfilTypeOK
<1>1. FulfilInv => FulfilTypeOK
  BY DEF FulfilInv, RowsType, JobSound, WalkSound, PostSound, Carries,
     FulfilTypeOK
<1> QED
  BY <1>1, FulfilInitInv, FulfilStepInv, PTL DEF FulfilSpec

\* A push that completed has an order at every connection, and one that used
\* up its attempts leaves no row PENDING that was there when onFailed looked:
\* handlePushStoreOrder goes over all connections again however far an earlier
\* attempt came, and a worker that lost the job only adds to what was done.
THEOREM NeverForgotten == FulfilSpec => []NothingForgotten
<1>1. FulfilInv => NothingForgotten
  BY DEF FulfilInv, Passed, NonePending, Made, NothingForgotten
<1> QED
  BY <1>1, FulfilInitInv, FulfilStepInv, PTL DEF FulfilSpec

\* What the webhooks let the seller see of a connection has happened to an
\* order there, and what they let the buyer see of its way has happened to
\* some order, in whatever order and how often reports are delivered.
THEOREM AlwaysReportedIsReal == FulfilSpec => []ReportedIsReal
<1>1. FulfilInv => ReportedIsReal
  BY DEF FulfilInv, PagesSound, Tells, Shows, Real, Producing, Sent, Arrived,
     ReportedIsReal, SomePrint
<1> QED
  BY <1>1, FulfilInitInv, FulfilStepInv, PTL DEF FulfilSpec

-----------------------------------------------------------------------------
(* PayPalPayments                                                          *)

-----------------------------------------------------------------------------
(* The inductive invariant                                                 *)

\* An event tells of what PayPal did.
EventTrue(e) ==
  /\ e.type = "COMPLETED" => CapturedAt(e.id)
  /\ e.type = "REFUNDED" => CapturedAt(e.id) /\ e.amount <= paypal[e.id].given

\* A request carries an order PayPal made or took the capture of, or an event
\* it raised.
JobTrue(j) ==
  /\ j.op \in {"upsert", "capture"} => j.id \in DOMAIN paypal
  /\ j.op = "captured" => TakenAt(j.id)
  /\ j.op \in {"completed", "publish"} =>
       j.event \in sent /\ j.event.type = "COMPLETED"
  /\ j.op = "refunded" => /\ j.event \in sent /\ j.event.type = "REFUNDED"
                          /\ payment.captureId # 0
  /\ j.op = "denied" => j.event \in sent

\* What the rows say of PayPal.
RowsTrue ==
  /\ payment.captureId # 0 => TakenAt(payment.captureId)
  /\ payment.status = "PAID" => payment.captureId # 0
  /\ bill = "CONFIRMED" => \E id \in Ids : TakenAt(id)
  /\ bill = "COMPLETED" \/ announced => \E id \in Ids : CapturedAt(id)
  /\ payment.refunded > 0 =>
       /\ payment.captureId # 0
       /\ \E id \in Ids : CapturedAt(id) /\ payment.refunded <= paypal[id].given

\* The orders that are charged, or being captured, are the one on the row.
OnTheRow ==
  ~crossed =>
    /\ \A id \in Ids : ChargedAt(id) => payment.orderId = id
    /\ \A t \in Tellers : teller[t].op = "capture"
                            => payment.orderId = teller[t].id

PaypalInv ==
  /\ PaypalTypeOK
  /\ \A e \in sent : EventTrue(e)
  /\ \A t \in Tellers : JobTrue(teller[t])
  /\ RowsTrue

-----------------------------------------------------------------------------
(* Types                                                                   *)

\* The PayPal orders are numbered 1 .. n.
LEMMA PaypalDomain ==
  ASSUME PaypalTypeOK
  PROVE  \E n \in 0 .. MaxPaypalOrders :
           /\ paypal \in [1 .. n -> PaypalOrder]
           /\ Cardinality(DOMAIN paypal) = n
<1>1. PICK n \in 0 .. MaxPaypalOrders : paypal \in [1 .. n -> PaypalOrder]
  BY DEF PaypalTypeOK
<1>2. n \in Int /\ n >= 0
  BY PaypalAssumption, <1>1
<1>3. Cardinality(1 .. n) = n
  BY <1>2, FS_Interval
<1> QED
  BY <1>1, <1>3

\* A request goes on with a job.
LEMMA TellerType ==
  ASSUME PaypalTypeOK, NEW t \in Tellers, NEW job \in TellerJob,
         TellerGoes(t, job)
  PROVE  teller' \in [Tellers -> TellerJob]
BY DEF PaypalTypeOK, TellerGoes

\* The jobs the actions start, by shape.
LEMMA JobShapes ==
  /\ Waiting \in TellerJob
  /\ [op |-> "create"] \in TellerJob
  /\ [op |-> "cancel"] \in TellerJob
  /\ \A id \in Ids : /\ [op |-> "upsert", id |-> id] \in TellerJob
                     /\ [op |-> "capture", id |-> id] \in TellerJob
                     /\ [op |-> "captured", id |-> id] \in TellerJob
  /\ \A e \in PaypalEvent, b \in BillStatus :
       [op |-> HookOp(e.type), event |-> e, seen |-> b] \in TellerJob
BY DEF TellerJob, PageJob, CaptureJob, HookJob, HookOp, PaypalEvent

\* What the fields of a job are.
LEMMA JobFields ==
  ASSUME NEW j \in TellerJob
  PROVE  /\ j.op \in {"upsert", "capture", "captured"} => j.id \in Ids
         /\ j.op \in {"completed", "publish", "refunded", "denied"} =>
              /\ j.event \in PaypalEvent
              /\ j.seen \in BillStatus
              /\ [j EXCEPT !.op = "publish"] \in TellerJob
BY DEF TellerJob, PageJob, CaptureJob, HookJob, Waiting

\* PayPal's orders keep their type when one of them changes.
LEMMA OrderChanges ==
  ASSUME PaypalTypeOK, NEW id \in DOMAIN paypal, NEW o \in PaypalOrder,
         paypal' = [paypal EXCEPT ![id] = o]
  PROVE  \E n \in 0 .. MaxPaypalOrders : paypal' \in [1 .. n -> PaypalOrder]
BY DEF PaypalTypeOK

\* An event raised keeps the types of the events.
LEMMA EventsType ==
  ASSUME PaypalTypeOK, NEW id \in Ids, NEW amount \in Nat,
         NEW nth \in 0 .. MaxRefunds,
         NEW type \in {"COMPLETED", "REFUNDED", "DENIED"},
         Raise(type, id, nth, amount)
  PROVE  sent' \subseteq PaypalEvent /\ sent \subseteq sent'
BY DEF PaypalTypeOK, Raise, PaypalEvent

-----------------------------------------------------------------------------
\* The types are inductive.
LEMMA TypeInit == PaypalInit => PaypalTypeOK
<1> SUFFICES ASSUME PaypalInit PROVE PaypalTypeOK
  OBVIOUS
<1>1. MaxPaypalOrders \in Nat /\ MaxRefunds \in Nat /\ MaxMishaps \in Nat
  BY PaypalAssumption
<1>2. paypal \in [1 .. 0 -> PaypalOrder]
  BY DEF PaypalInit
<1>3. payment \in PaypalPayment
  BY DEF PaypalInit, PaypalPayment
<1>4. teller \in [Tellers -> TellerJob]
  BY JobShapes DEF PaypalInit
<1>5. \E n \in 0 .. MaxPaypalOrders : paypal \in [1 .. n -> PaypalOrder]
  BY <1>1, <1>2
<1>6. mishaps \in 0 .. MaxMishaps /\ bill \in BillStatus
  BY <1>1 DEF PaypalInit, BillStatus
<1> QED
  BY <1>3, <1>4, <1>5, <1>6 DEF PaypalInit, PaypalTypeOK

\* PayPal brings an order, or its capture, to state, and reports it.
Moves(id, state) ==
  /\ paypal[id].state \in {"created", "pending"}
  /\ state \in {"created", "pending", "captured", "denied"}
  /\ state = "created" => paypal[id].state = "created"
  /\ paypal' = [paypal EXCEPT ![id].state = state]
  /\ Reports(id, state)

\* What asking for a capture does at PayPal, and to the request that asks.
LEMMA CallMoves ==
  ASSUME NEW t \in Tellers, CallCapture(t), JobTrue(teller[t])
  PROVE  /\ teller[t].id \in DOMAIN paypal
         /\ \/ UNCHANGED <<paypal, sent>> /\ TellerGoes(t, Waiting)
            \/ \E state : /\ paypal[teller[t].id].state = "created"
                          /\ Moves(teller[t].id, state)
                          /\ TellerGoes(t, IF state # "created"
                                THEN [op |-> "captured", id |-> teller[t].id]
                                ELSE Waiting)
BY DEF CallCapture, JobTrue, Moves, Completed

LEMMA SettlesMoves ==
  ASSUME NEW id \in DOMAIN paypal, CaptureSettles(id)
  PROVE  paypal[id].state = "pending" /\ \E state : Moves(id, state)
<1>1. PICK state \in {"captured", "denied"} :
        paypal' = [paypal EXCEPT ![id].state = state] /\ Reports(id, state)
  BY DEF CaptureSettles
<1>2. paypal[id].state = "pending"
  BY DEF CaptureSettles
<1>3. Moves(id, state)
  BY <1>1, <1>2 DEF Moves
<1> QED
  BY <1>2, <1>3

\* How the orders are after that.
LEMMA MovesType ==
  ASSUME PaypalTypeOK, NEW id \in DOMAIN paypal, NEW state, Moves(id, state)
  PROVE  /\ \E n \in 0 .. MaxPaypalOrders : paypal' \in [1 .. n -> PaypalOrder]
         /\ sent' \subseteq PaypalEvent /\ sent \subseteq sent'
         /\ DOMAIN paypal' = DOMAIN paypal
         /\ paypal'[id].state = state /\ paypal'[id].given = paypal[id].given
         /\ \A i \in DOMAIN paypal : i # id => paypal'[i] = paypal[i]
<1>1. paypal[id] \in PaypalOrder /\ id \in Ids
  BY PaypalAssumption DEF PaypalTypeOK, Ids
<1>2. [paypal[id] EXCEPT !.state = state] \in PaypalOrder
  BY <1>1 DEF PaypalOrder, Moves
<1>3. \E n \in 0 .. MaxPaypalOrders : paypal' \in [1 .. n -> PaypalOrder]
  BY <1>2, OrderChanges DEF Moves
<1>4. sent' \subseteq PaypalEvent /\ sent \subseteq sent'
  <2>1. CASE state \in {"captured", "denied"}
    BY <1>1, <2>1, EventsType, PaypalAssumption DEF Moves, Reports
  <2>2. CASE state \notin {"captured", "denied"}
    BY <2>2 DEF Moves, Reports, PaypalTypeOK
  <2> QED
    BY <2>1, <2>2
<1>5. /\ DOMAIN paypal' = DOMAIN paypal
      /\ paypal'[id].state = state /\ paypal'[id].given = paypal[id].given
      /\ \A i \in DOMAIN paypal : i # id => paypal'[i] = paypal[i]
  BY <1>1 DEF Moves, PaypalOrder, PaypalTypeOK
<1> QED
  BY <1>3, <1>4, <1>5

LEMMA TypeStep ==
  ASSUME PaypalInv, PaypalNext
  PROVE  PaypalTypeOK'
<1> USE DEF PaypalInv
<1>1. /\ MaxPaypalOrders \in Nat /\ MaxRefunds \in Nat /\ MaxMishaps \in Nat
      /\ Price \in Nat
  BY PaypalAssumption
<1>2. ASSUME NEW t \in Tellers PROVE teller[t] \in TellerJob
  BY <1>2 DEF PaypalTypeOK
<1>3. ASSUME NEW t \in Tellers, ReadForPaypalOrder(t) PROVE PaypalTypeOK'
  <2>1. teller' \in [Tellers -> TellerJob]
    BY <1>3, JobShapes, TellerType DEF ReadForPaypalOrder
  <2> QED
    BY <1>3, <2>1 DEF ReadForPaypalOrder, PaypalTypeOK
<1>4. ASSUME NEW t \in Tellers, PostPaypalOrder(t) PROVE PaypalTypeOK'
  <2>1. PICK n \in 0 .. MaxPaypalOrders :
           /\ paypal \in [1 .. n -> PaypalOrder]
           /\ Cardinality(DOMAIN paypal) = n
    BY PaypalDomain
  <2>2. n + 1 \in Ids /\ n + 1 \in 0 .. MaxPaypalOrders
    BY <1>1, <1>4, <2>1 DEF PostPaypalOrder, Ids
  <2>3. [state |-> "created", refunds |-> 0, given |-> 0] \in PaypalOrder
    BY <1>1 DEF PaypalOrder
  <2>4. paypal' = [i \in 1 .. n + 1 |-> IF i = n + 1
                     THEN [state |-> "created", refunds |-> 0, given |-> 0]
                     ELSE paypal[i]]
    BY <1>4, <2>1 DEF PostPaypalOrder
  <2>5. paypal' \in [1 .. n + 1 -> PaypalOrder]
    <3>1. ASSUME NEW i \in 1 .. n + 1, i # n + 1 PROVE paypal[i] \in PaypalOrder
      <4>1. i \in 1 .. n
        BY <3>1
      <4> QED
        BY <2>1, <4>1
    <3> QED
      BY <2>3, <2>4, <3>1
  <2>6. teller' \in [Tellers -> TellerJob]
    BY <1>4, <2>1, <2>2, JobShapes, TellerType DEF PostPaypalOrder
  <2> QED
    BY <1>4, <2>2, <2>5, <2>6 DEF PostPaypalOrder, PaypalTypeOK
<1>5. ASSUME NEW t \in Tellers, UpsertPaypalPayment(t) PROVE PaypalTypeOK'
  <2>1. teller[t].id \in Ids
    BY <1>2, <1>5, JobFields DEF UpsertPaypalPayment
  <2>2. teller' \in [Tellers -> TellerJob]
    BY <1>5, JobShapes, TellerType DEF UpsertPaypalPayment
  <2>3. payment' \in PaypalPayment
    BY <1>5, <2>1 DEF UpsertPaypalPayment, PaypalTypeOK, PaypalPayment
  <2>4. crossed' \in BOOLEAN
    BY <1>5 DEF UpsertPaypalPayment, PaypalTypeOK
  <2> QED
    BY <1>5, <2>2, <2>3, <2>4 DEF UpsertPaypalPayment, PaypalTypeOK
<1>6. ASSUME NEW t \in Tellers, NEW id \in DOMAIN paypal,
             ReadForCapture(t, id)
      PROVE  PaypalTypeOK'
  <2>1. id \in Ids
    BY <1>1, <1>6 DEF PaypalTypeOK, Ids
  <2>2. teller' \in [Tellers -> TellerJob]
    BY <1>6, <2>1, JobShapes, TellerType DEF ReadForCapture
  <2> QED
    BY <1>6, <2>2 DEF ReadForCapture, PaypalTypeOK
<1>7. ASSUME NEW t \in Tellers, CallCapture(t) PROVE PaypalTypeOK'
  <2>1. JobTrue(teller[t])
    OBVIOUS
  <2>2. CASE UNCHANGED <<paypal, sent>> /\ TellerGoes(t, Waiting)
    <3>1. teller' \in [Tellers -> TellerJob]
      BY <2>2, JobShapes, TellerType
    <3> QED
      BY <1>7, <2>2, <3>1 DEF CallCapture, PaypalTypeOK
  <2>3. ASSUME NEW state, Moves(teller[t].id, state),
               TellerGoes(t, IF state # "created"
                               THEN [op |-> "captured", id |-> teller[t].id]
                               ELSE Waiting)
        PROVE  PaypalTypeOK'
    <3>1. teller[t].id \in DOMAIN paypal /\ teller[t].id \in Ids
      BY <1>2, <1>7, <2>1, CallMoves, JobFields DEF CallCapture
    <3>2. teller' \in [Tellers -> TellerJob]
      BY <2>3, <3>1, JobShapes, TellerType
    <3>3. /\ \E n \in 0 .. MaxPaypalOrders :
               paypal' \in [1 .. n -> PaypalOrder]
          /\ sent' \subseteq PaypalEvent /\ sent \subseteq sent'
      BY <2>3, <3>1, MovesType
    <3> QED
      BY <1>7, <3>2, <3>3 DEF CallCapture, PaypalTypeOK
  <2> QED
    BY <1>7, <2>1, <2>2, <2>3, CallMoves
<1>8. ASSUME NEW t \in Tellers, WriteCapture(t) PROVE PaypalTypeOK'
  <2>1. teller[t].id \in Ids
    BY <1>2, <1>8, JobFields DEF WriteCapture
  <2>2. teller' \in [Tellers -> TellerJob]
    BY <1>8, JobShapes, TellerType DEF WriteCapture
  <2>3. payment' \in PaypalPayment
    BY <1>8, <2>1 DEF WriteCapture, PaypalTypeOK, PaypalPayment
  <2> QED
    BY <1>8, <2>2, <2>3 DEF WriteCapture, PaypalTypeOK, BillStatus
<1>9. ASSUME NEW t \in Tellers, NEW e \in sent, ReceivePaypalEvent(t, e)
      PROVE  PaypalTypeOK'
  <2>1. e \in PaypalEvent /\ bill \in BillStatus
    BY DEF PaypalTypeOK
  <2>2. teller' \in [Tellers -> TellerJob]
    <3>1. [op |-> HookOp(e.type), event |-> e, seen |-> bill] \in TellerJob
      BY <2>1, JobShapes
    <3> QED
      BY <1>9, <3>1, TellerType DEF ReceivePaypalEvent, PaypalTypeOK
  <2>3. mishaps' \in 0 .. MaxMishaps
    BY <1>1, <1>9 DEF ReceivePaypalEvent, Mishap, PaypalTypeOK
  <2>4. answered' \subseteq sent
    BY <1>9 DEF ReceivePaypalEvent, PaypalTypeOK
  <2> QED
    BY <1>9, <2>2, <2>3, <2>4 DEF ReceivePaypalEvent, PaypalTypeOK
<1>10. ASSUME NEW t \in Tellers, HandleCompleted(t) PROVE PaypalTypeOK'
  <2>1. /\ teller[t].event \in PaypalEvent
        /\ [teller[t] EXCEPT !.op = "publish"] \in TellerJob
    BY <1>2, <1>10, JobFields DEF HandleCompleted
  <2>2. teller' \in [Tellers -> TellerJob]
    BY <1>10, <2>1, TellerType DEF HandleCompleted
  <2>3. payment' \in PaypalPayment
    BY <1>10, <2>1 DEF HandleCompleted, PaypalTypeOK, PaypalPayment,
       PaypalEvent
  <2>4. bill' \in BillStatus
    BY <1>10 DEF HandleCompleted, PaypalTypeOK, BillStatus
  <2> QED
    BY <1>10, <2>2, <2>3, <2>4 DEF HandleCompleted, PaypalTypeOK
<1>11. ASSUME NEW t \in Tellers, PublishPaid(t) PROVE PaypalTypeOK'
  <2>1. teller[t].event \in sent
    BY <1>11 DEF PublishPaid, JobTrue
  <2>2. teller' \in [Tellers -> TellerJob]
    BY <1>11, JobShapes, TellerType DEF PublishPaid
  <2>3. mishaps' \in 0 .. MaxMishaps
    BY <1>1, <1>11 DEF PublishPaid, Mishap, PaypalTypeOK
  <2>4. announced' \in BOOLEAN
    BY <1>11 DEF PublishPaid, PaypalTypeOK
  <2> QED
    BY <1>11, <2>1, <2>2, <2>3, <2>4 DEF PublishPaid, PaypalTypeOK
<1>12. ASSUME NEW t \in Tellers, HandleRefunded(t) PROVE PaypalTypeOK'
  <2>1. teller[t].event \in PaypalEvent /\ teller[t].event \in sent
    BY <1>2, <1>12, JobFields DEF HandleRefunded, JobTrue
  <2>2. teller' \in [Tellers -> TellerJob]
    BY <1>12, JobShapes, TellerType DEF HandleRefunded
  <2>3. payment' \in PaypalPayment
    BY <1>12, <2>1 DEF HandleRefunded, PaypalTypeOK, PaypalPayment,
       PaypalEvent
  <2> QED
    BY <1>12, <2>1, <2>2, <2>3 DEF HandleRefunded, PaypalTypeOK, BillStatus
<1>13. ASSUME NEW t \in Tellers, HandleDenied(t) PROVE PaypalTypeOK'
  <2>1. teller[t].event \in PaypalEvent /\ teller[t].event \in sent
    BY <1>2, <1>13, JobFields DEF HandleDenied, JobTrue
  <2>2. teller' \in [Tellers -> TellerJob]
    BY <1>13, JobShapes, TellerType DEF HandleDenied
  <2>3. payment' \in PaypalPayment
    BY <1>13, <2>1 DEF HandleDenied, PaypalTypeOK, PaypalPayment
  <2> QED
    BY <1>13, <2>1, <2>2, <2>3 DEF HandleDenied, PaypalTypeOK
<1>14. ASSUME NEW t \in Tellers, ReadForCancelling(t) PROVE PaypalTypeOK'
  <2>1. teller' \in [Tellers -> TellerJob]
    BY <1>14, JobShapes, TellerType DEF ReadForCancelling
  <2> QED
    BY <1>14, <2>1 DEF ReadForCancelling, PaypalTypeOK
<1>15. ASSUME NEW t \in Tellers, CancelBill(t) PROVE PaypalTypeOK'
  <2>1. teller' \in [Tellers -> TellerJob]
    BY <1>15, JobShapes, TellerType DEF CancelBill
  <2> QED
    BY <1>15, <2>1 DEF CancelBill, PaypalTypeOK, BillStatus
<1>16. ASSUME NEW t \in Tellers, TellerDies(t) PROVE PaypalTypeOK'
  <2>1. teller' \in [Tellers -> TellerJob]
    BY <1>16, JobShapes, TellerType DEF TellerDies
  <2>2. mishaps' \in 0 .. MaxMishaps
    BY <1>1, <1>16 DEF TellerDies, Mishap, PaypalTypeOK
  <2> QED
    BY <1>16, <2>1, <2>2 DEF TellerDies, PaypalTypeOK
<1>17. ASSUME NEW id \in DOMAIN paypal, NEW amount \in 1 .. Price,
              PaypalRefunds(id, amount)
       PROVE  PaypalTypeOK'
  <2>1. id \in Ids
    BY <1>1 DEF PaypalTypeOK, Ids
  <2>2. /\ paypal[id].refunds \in 0 .. MaxRefunds
        /\ paypal[id].given \in 0 .. Price
        /\ paypal[id] \in PaypalOrder
    BY DEF PaypalTypeOK, PaypalOrder
  <2>3. /\ paypal[id].refunds + 1 \in 0 .. MaxRefunds
        /\ paypal[id].given + amount \in 0 .. Price
        /\ amount \in Nat
    BY <1>1, <1>17, <2>2 DEF PaypalRefunds
  <2> DEFINE o == [paypal[id] EXCEPT !.refunds = @ + 1, !.given = @ + amount]
  <2>4. o \in PaypalOrder
    BY <2>2, <2>3 DEF PaypalOrder
  <2>5. paypal' = [paypal EXCEPT ![id] = o]
    BY <1>17, <2>2 DEF PaypalRefunds, PaypalOrder
  <2> HIDE DEF o
  <2>6. \E n \in 0 .. MaxPaypalOrders : paypal' \in [1 .. n -> PaypalOrder]
    BY <2>4, <2>5, OrderChanges
  <2>7. sent' \subseteq PaypalEvent /\ sent \subseteq sent'
    BY <1>17, <2>1, <2>3, EventsType DEF PaypalRefunds
  <2> QED
    BY <1>17, <2>6, <2>7 DEF PaypalRefunds, PaypalTypeOK
<1>18. ASSUME NEW id \in DOMAIN paypal, CaptureSettles(id)
       PROVE  PaypalTypeOK'
  <2>1. /\ \E n \in 0 .. MaxPaypalOrders : paypal' \in [1 .. n -> PaypalOrder]
        /\ sent' \subseteq PaypalEvent /\ sent \subseteq sent'
    BY <1>18, SettlesMoves, MovesType
  <2> QED
    BY <1>18, <2>1 DEF CaptureSettles, PaypalTypeOK
<1> QED
  BY <1>3, <1>4, <1>5, <1>6, <1>7, <1>8, <1>9, <1>10, <1>11, <1>12, <1>13,
     <1>14, <1>15, <1>16, <1>17, <1>18 DEF PaypalNext

-----------------------------------------------------------------------------
(* PayPal only adds to what it did                                         *)

Grows ==
  /\ \A id \in DOMAIN paypal : id \in DOMAIN paypal'
  /\ \A id \in DOMAIN paypal : CapturedAt(id) =>
       CapturedAt(id)' /\ paypal[id].given <= paypal'[id].given
  /\ \A id \in DOMAIN paypal : TakenAt(id) => TakenAt(id)'
  /\ sent \subseteq sent'
  /\ payment.captureId # 0 => payment'.captureId # 0

\* What PayPal's orders are.
LEMMA OrderFields ==
  ASSUME PaypalTypeOK, NEW id \in DOMAIN paypal
  PROVE  /\ id \in Ids
         /\ paypal[id] \in PaypalOrder
         /\ paypal[id].given \in Nat
BY PaypalAssumption DEF PaypalTypeOK, PaypalOrder, Ids

\* What a step of PayPal's leaves of its orders.
LEMMA GrowsStep ==
  ASSUME PaypalInv, PaypalNext
  PROVE  Grows
<1> USE DEF PaypalInv
<1>1. ASSUME NEW id \in DOMAIN paypal
      PROVE  paypal[id] \in PaypalOrder /\ paypal[id].given \in Nat
  BY <1>1, OrderFields
<1>2. ASSUME UNCHANGED paypal, sent \subseteq sent',
             payment.captureId # 0 => payment'.captureId # 0
      PROVE  Grows
  BY <1>1, <1>2 DEF Grows, CapturedAt, TakenAt
<1>3. ASSUME NEW t \in Tellers, PostPaypalOrder(t) PROVE Grows
  <2>1. PICK n \in 0 .. MaxPaypalOrders :
           /\ paypal \in [1 .. n -> PaypalOrder]
           /\ Cardinality(DOMAIN paypal) = n
    BY PaypalDomain
  <2>2. n \in Nat
    BY PaypalAssumption, <2>1
  <2>3. /\ DOMAIN paypal' = 1 .. n + 1
        /\ \A i \in 1 .. n : paypal'[i] = paypal[i]
    BY <1>3, <2>1, <2>2 DEF PostPaypalOrder
  <2> QED
    BY <1>1, <1>3, <2>1, <2>2, <2>3 DEF Grows, CapturedAt, TakenAt,
       PostPaypalOrder
<1>4. ASSUME NEW id \in DOMAIN paypal, NEW state, Moves(id, state),
             UNCHANGED payment
      PROVE  Grows
  <2>1. /\ DOMAIN paypal' = DOMAIN paypal /\ sent \subseteq sent'
        /\ paypal'[id].state = state /\ paypal'[id].given = paypal[id].given
        /\ \A i \in DOMAIN paypal : i # id => paypal'[i] = paypal[i]
    BY <1>4, MovesType
  <2> QED
    BY <1>1, <1>4, <2>1 DEF Grows, CapturedAt, TakenAt, Moves
<1>5. ASSUME NEW t \in Tellers, CallCapture(t) PROVE Grows
  <2>1. JobTrue(teller[t]) /\ UNCHANGED payment
    BY <1>5 DEF CallCapture
  <2> QED
    BY <1>2, <1>5, <1>4, <2>1, CallMoves
<1>6. ASSUME NEW id \in DOMAIN paypal, NEW amount \in 1 .. Price,
             PaypalRefunds(id, amount)
      PROVE  Grows
  <2>1. amount \in Nat /\ Price \in Nat
    BY PaypalAssumption
  <2>2. \A i \in DOMAIN paypal : /\ i \in DOMAIN paypal'
                                 /\ paypal'[i].state = paypal[i].state
                                 /\ paypal[i].given <= paypal'[i].given
    BY <1>1, <1>6, <2>1 DEF PaypalRefunds, PaypalOrder
  <2> QED
    BY <1>6, <2>2 DEF Grows, CapturedAt, TakenAt, PaypalRefunds, Raise
<1>7. ASSUME NEW t \in Tellers,
             \/ ReadForPaypalOrder(t) \/ UpsertPaypalPayment(t)
             \/ \E id \in DOMAIN paypal : ReadForCapture(t, id)
             \/ \E e \in sent : ReceivePaypalEvent(t, e)
             \/ PublishPaid(t) \/ HandleRefunded(t) \/ HandleDenied(t)
             \/ ReadForCancelling(t) \/ CancelBill(t) \/ TellerDies(t)
      PROVE  Grows
  <2>1. UNCHANGED <<paypal, sent>>
    BY <1>7 DEF ReadForPaypalOrder, UpsertPaypalPayment, ReadForCapture,
       ReceivePaypalEvent, PublishPaid, HandleRefunded, HandleDenied,
       ReadForCancelling, CancelBill, TellerDies
  <2>2. payment'.captureId = payment.captureId
    BY <1>7 DEF ReadForPaypalOrder, UpsertPaypalPayment, ReadForCapture,
       ReceivePaypalEvent, PublishPaid, HandleRefunded, HandleDenied,
       ReadForCancelling, CancelBill, TellerDies, PaypalTypeOK, PaypalPayment
  <2> QED
    BY <1>2, <2>1, <2>2
<1>8. ASSUME NEW t \in Tellers, WriteCapture(t) \/ HandleCompleted(t)
      PROVE  Grows
  <2>1. teller[t] \in TellerJob
    BY <1>8 DEF PaypalTypeOK
  <2>2. payment'.captureId \in Ids
    BY <1>8, <2>1, JobFields DEF WriteCapture, HandleCompleted, PaypalTypeOK,
       PaypalPayment, PaypalEvent
  <2>3. payment'.captureId # 0
    BY <2>2, PaypalAssumption DEF Ids
  <2> QED
    BY <1>2, <1>8, <2>3 DEF WriteCapture, HandleCompleted
<1>9. ASSUME NEW id \in DOMAIN paypal, CaptureSettles(id) PROVE Grows
  BY <1>4, <1>9, SettlesMoves DEF CaptureSettles
<1> QED
  BY <1>3, <1>5, <1>6, <1>7, <1>8, <1>9 DEF PaypalNext

-----------------------------------------------------------------------------
(* Events and requests stay true                                           *)

LEMMA EventsStep ==
  ASSUME PaypalInv, PaypalNext, NEW e \in sent'
  PROVE  EventTrue(e)'
<1> USE DEF PaypalInv
<1>1. Grows
  BY GrowsStep
<1>2. ASSUME e \in sent PROVE EventTrue(e)'
  <2>1. EventTrue(e)
    BY <1>2
  <2>2. CapturedAt(e.id) => e.id \in DOMAIN paypal
    BY DEF CapturedAt
  <2>3. e \in PaypalEvent /\ e.amount \in Nat
    BY <1>2 DEF PaypalTypeOK, PaypalEvent
  <2>4. e.id \in DOMAIN paypal =>
          paypal[e.id].given \in Nat /\ paypal'[e.id].given \in Nat
    <3>1. PaypalTypeOK'
      BY TypeStep
    <3>2. ASSUME NEW id \in DOMAIN paypal' PROVE paypal'[id].given \in Nat
      BY <3>1, <3>2, PaypalAssumption DEF PaypalTypeOK, PaypalOrder
    <3> QED
      BY <1>1, <3>2, OrderFields DEF Grows
  <2> QED
    BY <1>1, <2>1, <2>2, <2>3, <2>4 DEF Grows, EventTrue
<1>3. ASSUME NEW id \in DOMAIN paypal, NEW state, Moves(id, state),
             e \notin sent
      PROVE  EventTrue(e)'
  <2>1. /\ e.id = id /\ state \in {"captured", "denied"}
        /\ e.type = IF state = "captured" THEN "COMPLETED" ELSE "DENIED"
    BY <1>3 DEF Moves, Reports, Raise
  <2>2. id \in DOMAIN paypal' /\ paypal'[id].state = state
    BY <1>3, MovesType
  <2> QED
    BY <2>1, <2>2 DEF EventTrue, CapturedAt
<1>4. ASSUME NEW id \in DOMAIN paypal, NEW amount \in 1 .. Price,
             PaypalRefunds(id, amount), e \notin sent
      PROVE  EventTrue(e)'
  <2>1. e.type = "REFUNDED" /\ e.id = id /\ e.amount = amount
    BY <1>4 DEF PaypalRefunds, Raise
  <2>2. CapturedAt(id)'
    BY <1>1, <1>4 DEF Grows, PaypalRefunds
  <2>3. paypal'[id].given = paypal[id].given + amount
    BY <1>4, OrderFields DEF PaypalRefunds, PaypalOrder
  <2>4. paypal[id].given \in Nat /\ amount \in Nat
    BY OrderFields
  <2> QED
    BY <2>1, <2>2, <2>3, <2>4 DEF EventTrue
<1>5. ASSUME UNCHANGED sent PROVE EventTrue(e)'
  BY <1>2, <1>5
<1>6. ASSUME NEW t \in Tellers, CallCapture(t) PROVE EventTrue(e)'
  <2>1. JobTrue(teller[t])
    OBVIOUS
  <2> QED
    BY <1>2, <1>3, <1>5, <1>6, <2>1, CallMoves
<1>7. ASSUME NEW id \in DOMAIN paypal, CaptureSettles(id) PROVE EventTrue(e)'
  BY <1>2, <1>3, <1>7, SettlesMoves
<1> QED
  BY <1>2, <1>4, <1>5, <1>6, <1>7 DEF PaypalNext, ReadForPaypalOrder,
     PostPaypalOrder, UpsertPaypalPayment, ReadForCapture, WriteCapture,
     ReceivePaypalEvent, HandleCompleted, PublishPaid, HandleRefunded,
     HandleDenied, ReadForCancelling, CancelBill, TellerDies

\* A job that was true stays true.
LEMMA TellerJobStays ==
  ASSUME PaypalInv, PaypalNext, NEW t \in Tellers, UNCHANGED teller[t]
  PROVE  JobTrue(teller[t])'
<1>1. JobTrue(teller[t]) /\ Grows
  BY GrowsStep DEF PaypalInv
<1>2. teller[t].op = "captured" => teller[t].id \in DOMAIN paypal
  BY <1>1 DEF JobTrue, TakenAt
<1> QED
  BY <1>1, <1>2 DEF Grows, JobTrue

\* A teller that is at rest carries nothing.
LEMMA WaitingTrue == JobTrue(Waiting)'
BY DEF JobTrue, Waiting

LEMMA JobsStep ==
  ASSUME PaypalInv, PaypalNext, NEW u \in Tellers
  PROVE  JobTrue(teller[u])'
<1> USE DEF PaypalInv
<1>1. Grows
  BY GrowsStep
<1>2. ASSUME NEW t \in Tellers, NEW job, TellerGoes(t, job), JobTrue(job)'
      PROVE  JobTrue(teller[u])'
  <2>1. CASE u = t
    BY <1>2, <2>1 DEF TellerGoes, PaypalTypeOK
  <2>2. CASE u # t
    BY <1>2, <2>2, TellerJobStays DEF TellerGoes, PaypalTypeOK
  <2> QED
    BY <2>1, <2>2
<1>3. ASSUME NEW t \in Tellers, ReadForPaypalOrder(t) PROVE JobTrue(teller[u])'
  <2>1. JobTrue([op |-> "create"])'
    BY DEF JobTrue
  <2> QED
    BY <1>2, <1>3, <2>1 DEF ReadForPaypalOrder
<1>4. ASSUME NEW t \in Tellers, PostPaypalOrder(t) PROVE JobTrue(teller[u])'
  <2>1. PICK n \in 0 .. MaxPaypalOrders :
           /\ paypal \in [1 .. n -> PaypalOrder]
           /\ Cardinality(DOMAIN paypal) = n
    BY PaypalDomain
  <2>2. n + 1 \in DOMAIN paypal'
    BY <1>4, <2>1, PaypalAssumption DEF PostPaypalOrder
  <2>3. JobTrue([op |-> "upsert", id |-> n + 1])'
    BY <2>2 DEF JobTrue
  <2> QED
    BY <1>2, <1>4, <2>1, <2>3 DEF PostPaypalOrder
<1>5. ASSUME NEW t \in Tellers, NEW id \in DOMAIN paypal, ReadForCapture(t, id)
      PROVE  JobTrue(teller[u])'
  <2>1. JobTrue([op |-> "capture", id |-> id])'
    BY <1>1 DEF JobTrue, Grows
  <2> QED
    BY <1>2, <1>5, <2>1 DEF ReadForCapture
<1>6. ASSUME NEW t \in Tellers, CallCapture(t) PROVE JobTrue(teller[u])'
  <2>1. JobTrue(teller[t])
    OBVIOUS
  <2>2. CASE TellerGoes(t, Waiting)
    BY <1>2, <2>2, WaitingTrue
  <2>3. CASE ~TellerGoes(t, Waiting)
    <3>1. PICK id, state :
            /\ id = teller[t].id /\ id \in DOMAIN paypal
            /\ Moves(id, state) /\ state # "created"
            /\ TellerGoes(t, [op |-> "captured", id |-> id])
      BY <1>6, <2>1, <2>3, CallMoves
    <3>2. id \in DOMAIN paypal' /\ paypal'[id].state = state
      BY <3>1, MovesType
    <3>3. JobTrue([op |-> "captured", id |-> id])'
      BY <3>1, <3>2 DEF JobTrue, TakenAt
    <3> QED
      BY <1>2, <3>1, <3>3
  <2> QED
    BY <2>2, <2>3
<1>7. ASSUME NEW t \in Tellers, NEW e \in sent, ReceivePaypalEvent(t, e)
      PROVE  JobTrue(teller[u])'
  <2>1. e \in PaypalEvent
    BY DEF PaypalTypeOK
  <2>2. e \in sent'
    BY <1>1 DEF Grows
  <2>3. CASE UNCHANGED teller
    BY <2>3, TellerJobStays
  <2>4. CASE teller' # teller
    <3>1. /\ ToHandle(e)
          /\ TellerGoes(t, [op |-> HookOp(e.type), event |-> e, seen |-> bill])
          /\ UNCHANGED payment
      BY <1>7, <2>4 DEF ReceivePaypalEvent
    <3>2. e.id \in Ids /\ e.type \in {"COMPLETED", "REFUNDED", "DENIED"}
      BY <2>1 DEF PaypalEvent
    <3>3. e.type = "REFUNDED" => payment'.captureId # 0
      BY <3>1, <3>2, PaypalAssumption DEF ToHandle, IsAbout, Ids
    <3>4. /\ HookOp(e.type) \in {"completed", "refunded", "denied"}
          /\ HookOp(e.type) = "completed" => e.type = "COMPLETED"
          /\ HookOp(e.type) = "refunded" => e.type = "REFUNDED"
      BY <3>2 DEF HookOp
    <3>5. PICK b : b = bill
      OBVIOUS
    <3>6. JobTrue([op |-> HookOp(e.type), event |-> e, seen |-> b])'
      BY <2>2, <3>3, <3>4 DEF JobTrue
    <3> QED
      BY <1>2, <3>1, <3>5, <3>6
  <2> QED
    BY <2>3, <2>4
<1>8. ASSUME NEW t \in Tellers, HandleCompleted(t) PROVE JobTrue(teller[u])'
  <2>1. teller[t].event \in sent /\ teller[t].event.type = "COMPLETED"
    BY <1>8 DEF HandleCompleted, JobTrue
  <2>2. PICK j : j = [teller[t] EXCEPT !.op = "publish"]
    OBVIOUS
  <2>3. teller[t] \in HookJob
    BY <1>8 DEF HandleCompleted, PaypalTypeOK, TellerJob, Waiting, PageJob,
       CaptureJob
  <2>4. j.op = "publish" /\ j.event = teller[t].event
    BY <2>2, <2>3 DEF HookJob
  <2>5. JobTrue(j)'
    BY <1>1, <2>1, <2>4 DEF JobTrue, Grows
  <2> QED
    BY <1>2, <1>8, <2>2, <2>5 DEF HandleCompleted
<1>9. ASSUME NEW t \in Tellers, ReadForCancelling(t) PROVE JobTrue(teller[u])'
  <2>1. JobTrue([op |-> "cancel"])'
    BY DEF JobTrue
  <2> QED
    BY <1>2, <1>9, <2>1 DEF ReadForCancelling
<1>10. ASSUME NEW t \in Tellers, TellerGoes(t, Waiting)
       PROVE  JobTrue(teller[u])'
  BY <1>2, <1>10, WaitingTrue
<1>11. ASSUME NEW id \in DOMAIN paypal, NEW amount \in 1 .. Price,
              PaypalRefunds(id, amount)
       PROVE  JobTrue(teller[u])'
  BY <1>11, TellerJobStays DEF PaypalRefunds
<1>12. ASSUME NEW id \in DOMAIN paypal, CaptureSettles(id)
       PROVE  JobTrue(teller[u])'
  BY <1>12, TellerJobStays DEF CaptureSettles
<1> QED
  BY <1>3, <1>4, <1>5, <1>6, <1>7, <1>8, <1>9, <1>10, <1>11, <1>12
     DEF PaypalNext, UpsertPaypalPayment, WriteCapture, PublishPaid,
     HandleRefunded, HandleDenied, CancelBill, TellerDies

-----------------------------------------------------------------------------
(* The rows stay true                                                      *)

\* What PayPal took, or captured, stays so.
LEMMA CapturesStay ==
  ASSUME PaypalInv, PaypalNext
  PROVE  /\ \A id \in Ids : /\ CapturedAt(id) => CapturedAt(id)'
                            /\ TakenAt(id) => TakenAt(id)'
         /\ payment.captureId # 0 => TakenAt(payment.captureId)
         /\ payment.refunded > 0 =>
              \E id \in Ids : /\ CapturedAt(id)'
                              /\ payment.refunded <= paypal'[id].given
<1> USE DEF PaypalInv
<1>1. Grows /\ RowsTrue /\ PaypalTypeOK /\ PaypalTypeOK'
  BY GrowsStep, TypeStep
<1>2. \A id \in Ids : CapturedAt(id) =>
        /\ CapturedAt(id)'
        /\ paypal[id].given <= paypal'[id].given
  BY <1>1 DEF Grows, CapturedAt
<1>3. payment.refunded \in Nat
  BY <1>1 DEF PaypalTypeOK, PaypalPayment
<1>4. ASSUME NEW id \in DOMAIN paypal' PROVE paypal'[id].given \in Nat
  <2>1. PaypalTypeOK'
    BY <1>1
  <2> QED
    BY <1>4, <2>1, PaypalAssumption DEF PaypalTypeOK, PaypalOrder
<1>5. ASSUME NEW id \in Ids, CapturedAt(id), payment.refunded <= paypal[id].given
      PROVE  payment.refunded <= paypal'[id].given
  <2>1. id \in DOMAIN paypal /\ id \in DOMAIN paypal'
    BY <1>1, <1>5 DEF CapturedAt, Grows
  <2> QED
    BY <1>2, <1>3, <1>4, <1>5, <2>1, OrderFields
<1>6. payment.refunded > 0 =>
        \E id \in Ids : CapturedAt(id) /\ payment.refunded <= paypal[id].given
  BY <1>1 DEF RowsTrue
<1>7. \A id \in Ids : TakenAt(id) => TakenAt(id)'
  BY <1>1 DEF Grows, TakenAt
<1> QED
  BY <1>1, <1>2, <1>5, <1>6, <1>7 DEF RowsTrue

\* A payment row that has nothing new of PayPal, and no new confirmation.
LEMMA RowsStay ==
  ASSUME PaypalInv, PaypalNext,
         payment'.captureId = payment.captureId,
         payment'.refunded = payment.refunded,
         payment'.status = "PAID" => payment.status = "PAID",
         bill' \in {"CONFIRMED", "COMPLETED"} => bill' = bill,
         announced' => announced
  PROVE  RowsTrue'
<1>1. /\ RowsTrue /\ PaypalTypeOK
      /\ payment.captureId \in Ids \cup {0}
  BY DEF PaypalInv, PaypalTypeOK, PaypalPayment
<1>2. PICK k : k = payment.captureId
  OBVIOUS
<1>3. k # 0 => TakenAt(k)'
  BY <1>1, <1>2, CapturesStay
<1>4. payment'.captureId # 0 => TakenAt(payment.captureId)'
  BY <1>2, <1>3 DEF TakenAt
<1> QED
  BY <1>1, <1>4, CapturesStay DEF RowsTrue

\* A row PAID by a capture, and what it confirms or announces.
LEMMA RowsCapture ==
  ASSUME PaypalInv, PaypalNext, NEW id \in Ids, CapturedAt(id),
         payment'.captureId = id, payment'.refunded = payment.refunded
  PROVE  RowsTrue'
<1>1. CapturedAt(id)' /\ TakenAt(id)' /\ id # 0
  BY CapturesStay, PaypalAssumption DEF Ids, CapturedAt, TakenAt
<1>2. TakenAt(payment.captureId)'
  BY <1>1 DEF TakenAt
<1> QED
  BY <1>1, <1>2, CapturesStay DEF RowsTrue

\* A row PAID by an order whose capture was taken.
LEMMA RowsTaken ==
  ASSUME PaypalInv, PaypalNext, NEW id \in Ids, TakenAt(id),
         payment'.captureId = id, payment'.refunded = payment.refunded,
         bill' = "CONFIRMED", UNCHANGED announced
  PROVE  RowsTrue'
<1>1. TakenAt(id)' /\ id # 0
  BY CapturesStay, PaypalAssumption DEF Ids
<1>2. TakenAt(payment.captureId)'
  BY <1>1 DEF TakenAt
<1>3. announced' => \E i \in Ids : CapturedAt(i)'
  BY CapturesStay DEF PaypalInv, RowsTrue
<1> QED
  BY <1>1, <1>2, <1>3, CapturesStay DEF RowsTrue

LEMMA RowsStep ==
  ASSUME PaypalInv, PaypalNext
  PROVE  RowsTrue'
<1>1. ASSUME UNCHANGED <<payment, bill, announced>> PROVE RowsTrue'
  BY <1>1, RowsStay
<1>2. ASSUME NEW t \in Tellers, UpsertPaypalPayment(t) PROVE RowsTrue'
  BY <1>2, RowsStay DEF UpsertPaypalPayment, PaypalInv, PaypalTypeOK,
     PaypalPayment
<1>3. ASSUME NEW t \in Tellers, WriteCapture(t) PROVE RowsTrue'
  <2>1. TakenAt(teller[t].id) /\ teller[t].id \in Ids
    BY <1>3, JobFields DEF WriteCapture, PaypalInv, PaypalTypeOK, JobTrue
  <2>2. PICK id \in Ids : id = teller[t].id
    BY <2>1
  <2>3. /\ TakenAt(id)
        /\ payment'.captureId = id /\ payment'.refunded = payment.refunded
        /\ bill' = "CONFIRMED" /\ UNCHANGED announced
    BY <1>3, <2>1, <2>2 DEF WriteCapture, PaypalInv, PaypalTypeOK,
       PaypalPayment
  <2> QED
    BY <2>3, RowsTaken
<1>4. ASSUME NEW t \in Tellers, HandleCompleted(t) PROVE RowsTrue'
  <2>1. /\ teller[t].event \in sent /\ teller[t].event.type = "COMPLETED"
        /\ teller[t].event \in PaypalEvent
    BY <1>4, JobFields DEF HandleCompleted, PaypalInv, PaypalTypeOK, JobTrue
  <2>2. PICK id \in Ids : id = teller[t].event.id
    BY <2>1 DEF PaypalEvent
  <2>3. CapturedAt(id)
    BY <2>1, <2>2 DEF PaypalInv, EventTrue
  <2>4. payment'.captureId = id /\ payment'.refunded = payment.refunded
    BY <1>4, <2>2 DEF HandleCompleted, PaypalInv, PaypalTypeOK, PaypalPayment
  <2> QED
    BY <2>3, <2>4, RowsCapture
<1>5. ASSUME NEW t \in Tellers, PublishPaid(t) PROVE RowsTrue'
  <2>1. /\ teller[t].event \in sent /\ teller[t].event.type = "COMPLETED"
        /\ teller[t].event \in PaypalEvent
    BY <1>5, JobFields DEF PublishPaid, PaypalInv, PaypalTypeOK, JobTrue
  <2>2. PICK id \in Ids : id = teller[t].event.id
    BY <2>1 DEF PaypalEvent
  <2>3. CapturedAt(id)'
    BY <2>1, <2>2, CapturesStay DEF PaypalInv, EventTrue
  <2>4. UNCHANGED <<payment, bill, paypal>>
    BY <1>5 DEF PublishPaid
  <2> QED
    BY <2>3, <2>4 DEF PaypalInv, RowsTrue, CapturedAt, TakenAt
<1>6. ASSUME NEW t \in Tellers, HandleRefunded(t) PROVE RowsTrue'
  <2>1. /\ teller[t].event \in sent /\ teller[t].event.type = "REFUNDED"
        /\ teller[t].event \in PaypalEvent
        /\ payment.captureId # 0
    BY <1>6, JobFields DEF HandleRefunded, PaypalInv, PaypalTypeOK, JobTrue
  <2>2. PICK id \in Ids : id = teller[t].event.id
    BY <2>1 DEF PaypalEvent
  <2>3. CapturedAt(id) /\ teller[t].event.amount <= paypal[id].given
    BY <2>1, <2>2 DEF PaypalInv, EventTrue
  <2>4. /\ payment'.captureId = payment.captureId
        /\ payment'.refunded = teller[t].event.amount
        /\ payment'.status = "REFUNDED" /\ bill' = "REFUNDED"
        /\ UNCHANGED <<paypal, announced>>
    BY <1>6 DEF HandleRefunded, PaypalInv, PaypalTypeOK, PaypalPayment
  <2>5. TakenAt(payment.captureId)
    BY <2>1, CapturesStay
  <2>6. CapturedAt(id)' /\ payment'.refunded <= paypal'[id].given
    BY <2>3, <2>4 DEF CapturedAt
  <2>7. TakenAt(payment.captureId)'
    BY <2>4, <2>5 DEF TakenAt
  <2>8. announced' => \E i \in Ids : CapturedAt(i)'
    BY <2>4, CapturesStay DEF PaypalInv, RowsTrue
  <2> QED
    BY <2>1, <2>4, <2>6, <2>7, <2>8 DEF RowsTrue
<1>7. ASSUME NEW t \in Tellers, HandleDenied(t) PROVE RowsTrue'
  BY <1>7, RowsStay DEF HandleDenied, PaypalInv, PaypalTypeOK, PaypalPayment
<1>8. ASSUME NEW t \in Tellers, CancelBill(t) PROVE RowsTrue'
  BY <1>8, RowsStay DEF CancelBill
<1> QED
  BY <1>1, <1>2, <1>3, <1>4, <1>5, <1>6, <1>7, <1>8 DEF PaypalNext,
     ReadForPaypalOrder, PostPaypalOrder, ReadForCapture, CallCapture,
     CaptureSettles, PaypalRefunds, ReceivePaypalEvent, ReadForCancelling,
     TellerDies

-----------------------------------------------------------------------------
(* One PayPal order                                                        *)

\* The capture jobs are those there were, and none of the order is new.
LEMMA OnTheRowStays ==
  ASSUME PaypalInv, OnTheRow,
         crossed' => crossed, crossed => crossed',
         payment'.orderId = payment.orderId,
         \A id \in Ids : ChargedAt(id)' => ChargedAt(id),
         NEW t \in Tellers, NEW job, TellerGoes(t, job), job.op # "capture"
  PROVE  OnTheRow'
<1>1. \A u \in Tellers : teller'[u].op = "capture" => teller'[u] = teller[u]
  BY DEF TellerGoes, PaypalInv, PaypalTypeOK
<1> QED
  BY <1>1 DEF OnTheRow

LEMMA OnTheRowStep ==
  ASSUME PaypalInv, OnTheRow, PaypalNext
  PROVE  OnTheRow'
<1>1. PaypalTypeOK /\ Grows
  BY GrowsStep DEF PaypalInv
<1>2. ASSUME NEW t \in Tellers, PostPaypalOrder(t) PROVE OnTheRow'
  <2>1. PICK n \in 0 .. MaxPaypalOrders :
           /\ paypal \in [1 .. n -> PaypalOrder]
           /\ Cardinality(DOMAIN paypal) = n
    BY <1>1, PaypalDomain
  <2>2. \A id \in Ids : ChargedAt(id)' => ChargedAt(id)
    <3>1. n \in Nat
      BY PaypalAssumption
    <3>2. paypal' = [i \in 1 .. n + 1 |-> IF i = n + 1
                       THEN [state |-> "created", refunds |-> 0, given |-> 0]
                       ELSE paypal[i]]
      BY <1>2, <2>1 DEF PostPaypalOrder
    <3> QED
      BY <2>1, <3>1, <3>2 DEF ChargedAt
  <2>3. TellerGoes(t, [op |-> "upsert", id |-> n + 1])
    BY <1>2, <2>1 DEF PostPaypalOrder
  <2> QED
    BY <1>2, <2>2, <2>3, OnTheRowStays DEF PostPaypalOrder
<1>3. ASSUME NEW t \in Tellers, UpsertPaypalPayment(t) PROVE OnTheRow'
  <2>1. SUFFICES ASSUME ~crossed' PROVE OnTheRow'
    BY DEF OnTheRow
  <2>2. /\ \A u \in Tellers : teller[u].op # "capture"
        /\ \A id \in Ids : ~ChargedAt(id)
    BY <1>3, <2>1 DEF UpsertPaypalPayment
  <2>3. UNCHANGED paypal /\ TellerGoes(t, Waiting)
    BY <1>3 DEF UpsertPaypalPayment
  <2>4. \A u \in Tellers : teller'[u].op # "capture"
    BY <1>1, <2>2, <2>3 DEF TellerGoes, PaypalTypeOK, Waiting
  <2> QED
    BY <2>2, <2>3, <2>4 DEF OnTheRow, ChargedAt
<1>4. ASSUME NEW t \in Tellers, NEW id \in DOMAIN paypal, ReadForCapture(t, id)
      PROVE  OnTheRow'
  <2>1. \A u \in Tellers : teller'[u] = IF u = t
                             THEN [op |-> "capture", id |-> id] ELSE teller[u]
    BY <1>1, <1>4 DEF ReadForCapture, TellerGoes, PaypalTypeOK
  <2>2. payment.orderId = id /\ UNCHANGED <<payment, paypal, crossed>>
    BY <1>4 DEF ReadForCapture, MayCapture
  <2> QED
    BY <2>1, <2>2 DEF OnTheRow, ChargedAt
<1>5. ASSUME NEW t \in Tellers, CallCapture(t) PROVE OnTheRow'
  <2>1. UNCHANGED <<payment, crossed>>
    BY <1>5 DEF CallCapture
  <2>2. \A u \in Tellers : teller'[u].op = "capture" => teller'[u] = teller[u]
    BY <1>1, <1>5 DEF CallCapture, TellerGoes, PaypalTypeOK, Waiting
  <2>3. \A id \in Ids : ChargedAt(id)' => ChargedAt(id) \/ id = teller[t].id
    <3>1. JobTrue(teller[t])
      BY DEF PaypalInv
    <3>2. CASE UNCHANGED paypal
      BY <3>2 DEF ChargedAt
    <3>3. CASE \E state : Moves(teller[t].id, state)
      BY <1>1, <1>5, <3>1, <3>3, CallMoves, MovesType DEF ChargedAt
    <3> QED
      BY <1>5, <3>1, <3>2, <3>3, CallMoves
  <2>4. ~crossed => payment.orderId = teller[t].id
    BY <1>5 DEF CallCapture, OnTheRow
  <2> QED
    BY <2>1, <2>2, <2>3, <2>4 DEF OnTheRow
<1>6. ASSUME NEW id \in DOMAIN paypal, NEW amount \in 1 .. Price,
             PaypalRefunds(id, amount)
      PROVE  OnTheRow'
  <2>1. \A i \in Ids : ChargedAt(i)' => ChargedAt(i)
    BY <1>6, OrderFields, <1>1 DEF PaypalRefunds, ChargedAt, PaypalOrder
  <2> QED
    BY <1>6, <2>1 DEF OnTheRow, PaypalRefunds
<1>7. ASSUME NEW t \in Tellers, NEW job, TellerGoes(t, job),
             job.op # "capture",
             UNCHANGED <<crossed, paypal>>,
             payment'.orderId = payment.orderId
      PROVE  OnTheRow'
  BY <1>7, OnTheRowStays DEF ChargedAt
<1>8. ASSUME NEW t \in Tellers, WriteCapture(t) \/ HandleCompleted(t)
      PROVE  OnTheRow'
  <2>1. /\ UNCHANGED <<crossed, paypal>>
        /\ payment'.orderId = payment.orderId
    BY <1>1, <1>8 DEF WriteCapture, HandleCompleted, PaypalTypeOK,
       PaypalPayment
  <2>2. [teller[t] EXCEPT !.op = "publish"].op # "capture"
          \/ ~HandleCompleted(t)
    <3>1. teller[t] \in HookJob \/ ~HandleCompleted(t)
      BY <1>1 DEF HandleCompleted, PaypalTypeOK, TellerJob, Waiting, PageJob,
         CaptureJob
    <3> QED
      BY <3>1 DEF HookJob
  <2> QED
    BY <1>7, <1>8, <2>1, <2>2 DEF WriteCapture, HandleCompleted, Waiting
<1>9. ASSUME NEW t \in Tellers, NEW e \in sent, ReceivePaypalEvent(t, e)
      PROVE  OnTheRow'
  <2>1. e \in PaypalEvent
    BY <1>1 DEF PaypalTypeOK
  <2>2. HookOp(e.type) # "capture"
    BY <2>1 DEF PaypalEvent, HookOp
  <2>3. CASE UNCHANGED teller
    BY <1>9, <2>3 DEF OnTheRow, ReceivePaypalEvent, ChargedAt
  <2>4. CASE teller' # teller
    <3>1. TellerGoes(t, [op |-> HookOp(e.type), event |-> e, seen |-> bill])
      BY <1>9, <2>4 DEF ReceivePaypalEvent
    <3> QED
      BY <1>7, <1>9, <2>2, <3>1 DEF ReceivePaypalEvent
  <2> QED
    BY <2>3, <2>4
<1>10. ASSUME NEW t \in Tellers,
              \/ ReadForPaypalOrder(t) \/ PublishPaid(t) \/ HandleRefunded(t)
              \/ HandleDenied(t) \/ ReadForCancelling(t) \/ CancelBill(t)
              \/ TellerDies(t)
       PROVE  OnTheRow'
  <2>1. /\ UNCHANGED <<crossed, paypal>>
        /\ payment'.orderId = payment.orderId
    BY <1>1, <1>10 DEF ReadForPaypalOrder, PublishPaid, HandleRefunded,
       HandleDenied, ReadForCancelling, CancelBill, TellerDies, PaypalTypeOK,
       PaypalPayment
  <2>2. \E job \in {[op |-> "create"], [op |-> "cancel"], Waiting} :
          TellerGoes(t, job)
    BY <1>10 DEF ReadForPaypalOrder, PublishPaid, HandleRefunded,
       HandleDenied, ReadForCancelling, CancelBill, TellerDies
  <2> QED
    BY <1>7, <2>1, <2>2 DEF Waiting
<1>11. ASSUME NEW id \in DOMAIN paypal, CaptureSettles(id) PROVE OnTheRow'
  <2>1. paypal[id].state = "pending" /\ \E state : Moves(id, state)
    BY <1>11, SettlesMoves
  <2>2. \A i \in Ids : ChargedAt(i)' => ChargedAt(i)
    BY <1>1, <2>1, MovesType DEF ChargedAt
  <2> QED
    BY <1>11, <2>2 DEF OnTheRow, CaptureSettles
<1> QED
  BY <1>2, <1>3, <1>4, <1>5, <1>6, <1>8, <1>9, <1>10, <1>11 DEF PaypalNext

-----------------------------------------------------------------------------
(* The theorems                                                            *)

LEMMA InvInit == PaypalInit => PaypalInv /\ OnTheRow
<1> SUFFICES ASSUME PaypalInit PROVE PaypalInv /\ OnTheRow
  OBVIOUS
<1>1. PaypalTypeOK
  BY TypeInit
<1>2. \A id : ~CapturedAt(id) /\ ~ChargedAt(id)
  BY DEF CapturedAt, ChargedAt, PaypalInit
<1> QED
  BY <1>1, <1>2 DEF PaypalInv, OnTheRow, PaypalInit, JobTrue, Waiting, RowsTrue

LEMMA InvStep ==
  PaypalInv /\ OnTheRow /\ [PaypalNext]_paypalVars => PaypalInv' /\ OnTheRow'
<1> SUFFICES ASSUME PaypalInv, OnTheRow, [PaypalNext]_paypalVars
             PROVE  PaypalInv' /\ OnTheRow'
  OBVIOUS
<1>1. CASE PaypalNext
  BY <1>1, TypeStep, EventsStep, JobsStep, RowsStep, OnTheRowStep
     DEF PaypalInv
<1>2. CASE UNCHANGED paypalVars
  BY <1>2 DEF paypalVars, PaypalInv, OnTheRow, PaypalTypeOK, EventTrue,
     JobTrue, RowsTrue, CapturedAt, TakenAt, ChargedAt
<1> QED
  BY <1>1, <1>2

LEMMA InvariantHolds == PaypalSpec => [](PaypalInv /\ OnTheRow)
  BY InvInit, InvStep, PTL DEF PaypalSpec

\* Type correctness of the PayPal payment, its requests and its events.
THEOREM PaypalTypeCorrect == PaypalSpec => []PaypalTypeOK
<1>1. PaypalInv => PaypalTypeOK
  BY DEF PaypalInv
<1> QED
  BY <1>1, InvariantHolds, PTL

\* A payment is PAID, and an order CONFIRMED, only after PayPal took a capture,
\* which the code does not ask about further and which may be denied later; it
\* is announced, or a digital one COMPLETED, only after one settled, and a
\* refund on the row is one PayPal gave.
THEOREM AlwaysPaidIsCaptured == PaypalSpec => []PaypalPaidIsCaptured
<1>1. PaypalInv => PaypalPaidIsCaptured
  BY DEF PaypalInv, RowsTrue, PaypalPaidIsCaptured
<1> QED
  BY <1>1, InvariantHolds, PTL

\* However many PayPal orders a buyer has created, one is charging or has
\* charged, unless another came onto the row while or after it did.
THEOREM AlwaysChargedByOne == PaypalSpec => []ChargedByOne
<1>1. OnTheRow => ChargedByOne
  BY DEF OnTheRow, ChargedByOne
<1> QED
  BY <1>1, InvariantHolds, PTL
=============================================================================
