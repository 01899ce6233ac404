------------------------------- MODULE Threads -------------------------------
(***************************************************************************)
(* What a buyer and a shop write to each other, and what their lists say   *)
(* there is to read.                                                       *)
(*                                                                         *)
(*   messages.service.ts             createConversation, sendMessage,      *)
(*                                   openThreadWithBuyer, deleteMessage,   *)
(*                                   refreshPreview, markCustomerRead,     *)
(*                                   markAdminRead, foldConversation,      *)
(*                                   linkGuestConversations                *)
(*   seller-order-detail.service.ts  sendMessage, the order panel          *)
(*   inbox.service.ts                bulk read and unread                  *)
(*   auth.service.ts                 the sign-ins that link                *)
(*                                                                         *)
(* One buyer, who writes with an account and, before or without signing    *)
(* in, as a guest of the same address; one shop.  Two partial unique       *)
(* indexes keep one thread for each.  A sign-in folds the guest's thread   *)
(* into the account's: it reads both rows, and later, in one transaction,  *)
(* moves the messages, writes what it added up, and deletes the guest's    *)
(* row; the foreign key deletes what is still attached to it.  At READ     *)
(* COMMITTED the messages it moves are locked, and those that arrive       *)
(* between two of its statements are not.                                  *)
(*                                                                         *)
(* Left out: the folder a thread is filed in, stars, labels, notes, hiding *)
(* and reports, which nothing here reads; threads without a shop, which no *)
(* index binds; texts, attachments, notifications; SYSTEM as a sender.     *)
(***************************************************************************)
EXTENDS Integers, Sequences, FiniteSetsExt

CONSTANTS
  MaxThreads,   \* bound: Conversation rows
  MaxPosts,     \* bound: Message rows
  Callers       \* calls under way at one time

VARIABLES
  threads,      \* the Conversation rows
  posts,        \* the Message rows in the order of createdAt
  calls,        \* what each call is doing
  disturbed,    \* history: threads counted by hand, or by an outdated read
  lost          \* history: messages that were deleted with their thread

threadVars == <<threads, posts, calls, disturbed, lost>>

ASSUME ThreadBoundsAssumption ==
  /\ MaxThreads \in Nat /\ MaxPosts \in Nat
  /\ IsFiniteSet(Callers)

-----------------------------------------------------------------------------
Threads == 1 .. MaxThreads
Posts == 1 .. MaxPosts
Sides == {"CUSTOMER", "SHOP"}
Buyers == {"guest", "account"}

\* clientMessageId: the composer of a side has one for the thread it has
\* open, the order panel one of its own, whatever thread it finds.
Keys == (0 .. MaxThreads) \X Sides
NoKey == <<0, "CUSTOMER">>
PanelKey == <<0, "SHOP">>

\* unread: unreadByCustomer and unreadByAdmin.  last and at: the messages
\* lastMessage and lastMessageAt were taken from, 0 for NULL.
Summary == [unread : [Sides -> Nat], last : 0 .. MaxPosts, at : 0 .. MaxPosts]
Blank == [unread |-> [side \in Sides |-> 0], last |-> 0, at |-> 0]
Thread == [buyer : Buyers \cup {"none", "gone"}, list : Summary]

\* thread 0: the row was deleted.
Post == [thread : 0 .. MaxThreads, from : Sides, key : Keys,
         isRead : BOOLEAN, deleted : BOOLEAN]

Errand == [op : {"idle", "write", "reading", "unsend", "withdrawn",
                 "latest", "counted", "relabel", "keeper", "fold", "moved"},
           on : 0 .. MaxThreads, into : 0 .. MaxThreads, side : Sides,
           post : 0 .. MaxPosts, count : Nat,
           seen : Summary, seenInto : Summary, moved : SUBSET Posts]
NoCall == [op |-> "idle", on |-> 0, into |-> 0, side |-> "SHOP",
           post |-> 0, count |-> 0,
           seen |-> Blank, seenInto |-> Blank, moved |-> {}]

ThreadTypeOK ==
  /\ threads \in [Threads -> Thread]
  /\ posts \in Seq(Post) /\ Len(posts) <= MaxPosts
  /\ calls \in [Callers -> Errand]
  /\ disturbed \subseteq Threads
  /\ lost \subseteq Posts

ThreadInit ==
  /\ threads = [t \in Threads |-> [buyer |-> "none", list |-> Blank]]
  /\ posts = <<>>
  /\ calls = [r \in Callers |-> NoCall]
  /\ disturbed = {}
  /\ lost = {}

Alive(t) == t # 0 /\ threads[t].buyer \in Buyers
Has(buyer) == \E t \in Threads : threads[t].buyer = buyer
ThreadOf(buyer) == CHOOSE t \in Threads : threads[t].buyer = buyer
In(t) == {n \in DOMAIN posts : posts[n].thread = t}
Held(n) == \E r \in Callers : n \in calls[r].moved

\* What one side has yet to read: what the shop took back is not to be read.
Unread(t, side) ==
  {n \in In(t) : posts[n].from # side /\ ~posts[n].isRead /\ ~posts[n].deleted}

\* The two queries of refreshPreview.
ToRead(t) == Unread(t, "CUSTOMER")
Latest(t) == LET visible == {n \in In(t) : ~posts[n].deleted}
             IN IF visible = {} THEN 0 ELSE Max(visible)

\* Between two writes that belong together.
Midway(t) ==
  \E r \in Callers : /\ calls[r].on = t
                     /\ calls[r].op \in {"reading", "withdrawn", "latest",
                                         "counted"}

Go(r, work) == calls[r] = NoCall /\ calls' = [calls EXCEPT ![r] = work]
Goes(r, work) == calls' = [calls EXCEPT ![r] = work]
Ends(r) == Goes(r, NoCall)
listings == <<threads, posts>>
threadHistory == <<disturbed, lost>>

-----------------------------------------------------------------------------
(* Opening a thread and writing in it                                      *)

\* createConversation and findOrCreateConversation where there is no thread
\* yet.  The look before the insert decides nothing the index does not.
MakeThread(t, buyer) ==
  /\ ~Has(buyer)
  /\ threads[t].buyer = "none"
  /\ \A u \in 1 .. t - 1 : threads[u].buyer # "none"
  /\ threads' = [threads EXCEPT ![t].buyer = buyer]
  /\ UNCHANGED <<posts, calls, threadHistory>>

\* MUTANT of KeyTaken: only the look before the write asks.
KeyForgotten(t, key) == FALSE

\* The unique index on (conversationId, clientMessageId).
KeyTaken(t, key) == key # NoKey /\ \E n \in In(t) : posts[n].key = key

\* A fold that has not committed yet brings this thread the key.
KeyAwaited(t, key) ==
  /\ key # NoKey
  /\ \E r \in Callers : /\ calls[r].into = t
                        /\ \E n \in calls[r].moved : posts[n].key = key

\* The transaction of sendMessage, the message and the thread's counters; a
\* retry that comes second is answered with the first one's row.
Put(t, side, key) ==
  LET reader == CHOOSE other \in Sides : other # side
      list == threads[t].list
      n == Len(posts) + 1 IN
  /\ Alive(t)
  /\ ~KeyAwaited(t, key)
  /\ IF KeyTaken(t, key)
       THEN UNCHANGED <<threads, posts>>
       ELSE /\ n <= MaxPosts
            /\ posts' = Append(posts,
                               [thread |-> t, from |-> side, key |-> key,
                                isRead |-> FALSE, deleted |-> FALSE])
            /\ threads' = [threads EXCEPT ![t].list =
                 [unread |-> [list.unread EXCEPT ![reader] = @ + 1],
                  last |-> n, at |-> n]]
  /\ UNCHANGED threadHistory

\* Without a key nothing is read first: createConversation's message, and a
\* composer that has none.
PutUnkeyed(t, side) ==
  /\ Put(t, side, NoKey)
  /\ UNCHANGED calls

\* The order panel writes in the thread of its order's buyer; an order of the
\* guest may be given the account between two tries, apart from the threads.
PutFromPanel(t) ==
  /\ Put(t, "SHOP", PanelKey)
  /\ UNCHANGED calls

\* A composer's key is looked for first: a retry is answered at once.
Compose(r, t, side) ==
  /\ Alive(t)
  /\ \A n \in In(t) : posts[n].key # <<t, side>>
  /\ Go(r, [NoCall EXCEPT !.op = "write", !.on = t, !.side = side])
  /\ UNCHANGED <<listings, threadHistory>>

WritePost(r) ==
  LET t == calls[r].on
      side == calls[r].side IN
  /\ calls[r].op = "write"
  /\ Put(t, side, <<t, side>>)
  /\ Ends(r)

-----------------------------------------------------------------------------
(* Reading, and taking back                                                *)

\* markCustomerRead, for who is signed in, and markAdminRead: the counter ...
ResetBadge(r, t, side) ==
  /\ Alive(t)
  /\ side = "CUSTOMER" => threads[t].buyer = "account"
  /\ threads' = [threads EXCEPT ![t].list.unread[side] = 0]
  /\ Go(r, [NoCall EXCEPT !.op = "reading", !.on = t, !.side = side])
  /\ UNCHANGED <<posts, threadHistory>>

\* ... and then the messages, those that came in between too.
MarkRows(r) ==
  LET t == calls[r].on
      side == calls[r].side
      marked == {n \in In(t) : posts[n].from # side /\ ~posts[n].isRead} IN
  /\ calls[r].op = "reading"
  /\ \A n \in marked : ~Held(n)
  /\ posts' = [n \in DOMAIN posts |->
                 IF n \in marked THEN [posts[n] EXCEPT !.isRead = TRUE]
                                 ELSE posts[n]]
  /\ disturbed' = IF threads[t].list.unread[side] # 0
                    THEN disturbed \cup {t} ELSE disturbed
  /\ Ends(r)
  /\ UNCHANGED <<threads, lost>>

\* bulk: the badge alone, to 0 or to 1.
BulkBadge(t, n) ==
  /\ Alive(t)
  /\ threads' = [threads EXCEPT ![t].list.unread["SHOP"] = n]
  /\ disturbed' = disturbed \cup {t}
  /\ UNCHANGED <<posts, calls, lost>>

\* deleteMessage: only what the shop sent, and once.
ReadForUnsend(r, n) ==
  /\ posts[n].from = "SHOP" /\ ~posts[n].deleted
  /\ posts[n].thread # 0
  /\ Go(r, [NoCall EXCEPT !.op = "unsend", !.on = posts[n].thread, !.post = n])
  /\ UNCHANGED <<listings, threadHistory>>

\* By id, wherever it has been moved to meanwhile.
Withdraw(r) ==
  LET n == calls[r].post IN
  /\ calls[r].op = "unsend"
  /\ posts[n].thread # 0
  /\ ~Held(n)
  /\ posts' = [posts EXCEPT ![n].deleted = TRUE]
  /\ disturbed' = disturbed \cup ({posts[n].thread} \ {calls[r].on})
  /\ Goes(r, [calls[r] EXCEPT !.op = "withdrawn"])
  /\ UNCHANGED <<threads, lost>>

FindLatest(r) ==
  /\ calls[r].op = "withdrawn"
  /\ Goes(r, [calls[r] EXCEPT !.op = "latest",
                              !.post = Latest(calls[r].on)])
  /\ UNCHANGED <<listings, threadHistory>>

CountUnread(r) ==
  /\ calls[r].op = "latest"
  /\ Goes(r, [calls[r] EXCEPT
                !.op = "counted",
                !.count = Cardinality(ToRead(calls[r].on))])
  /\ UNCHANGED <<listings, threadHistory>>

RefreshPreview(r) ==
  LET t == calls[r].on
      list == threads[t].list
      latest == calls[r].post
      count == calls[r].count IN
  /\ calls[r].op = "counted"
  /\ Alive(t)
  /\ threads' = [threads EXCEPT ![t].list =
                   [unread |-> [list.unread EXCEPT !["CUSTOMER"] = count],
                    last |-> latest,
                    at |-> IF latest = 0 THEN list.at ELSE latest]]
  /\ disturbed' = IF latest # Latest(t) \/ count # Cardinality(ToRead(t))
                    THEN disturbed \cup {t} ELSE disturbed
  /\ Ends(r)
  /\ UNCHANGED <<posts, lost>>

-----------------------------------------------------------------------------
(* linkGuestConversations, at a sign-in                                    *)

ReadForLink(r) ==
  /\ Has("guest")
  /\ Go(r, [NoCall EXCEPT
              !.op = IF Has("account") THEN "keeper" ELSE "relabel",
              !.on = ThreadOf("guest"),
              !.into = IF Has("account") THEN ThreadOf("account") ELSE 0])
  /\ UNCHANGED <<listings, threadHistory>>

Relabel(r) ==
  LET t == calls[r].on IN
  /\ calls[r].op = "relabel"
  /\ threads[t].buyer = "guest"
  /\ ~Has("account")
  /\ threads' = [threads EXCEPT ![t].buyer = "account"]
  /\ Ends(r)
  /\ UNCHANGED <<posts, threadHistory>>

FoldRead(r) ==
  LET from == calls[r].on
      into == calls[r].into IN
  /\ calls[r].op = "keeper"
  /\ Alive(from) /\ Alive(into)
  /\ Goes(r, [calls[r] EXCEPT !.op = "fold",
                              !.seen = threads[from].list,
                              !.seenInto = threads[into].list])
  /\ UNCHANGED <<listings, threadHistory>>

\* message.updateMany, not committed yet.  It fails on a key the keeper has
\* (GiveUp).
FoldMove(r) ==
  LET from == calls[r].on
      into == calls[r].into IN
  /\ calls[r].op = "fold"
  /\ \A n \in In(from) : ~Held(n) /\ ~KeyTaken(into, posts[n].key)
  /\ Goes(r, [calls[r] EXCEPT !.op = "moved", !.moved = In(from)])
  /\ UNCHANGED <<listings, threadHistory>>

\* MUTANT of AddUp: the keeper's counters are kept.
KeepCounters(kept, folded) == kept.unread

AddUp(kept, folded) ==
  [side \in Sides |-> kept.unread[side] + folded.unread[side]]

Folded(kept, folded) ==
  LET newer == IF folded.at > kept.at THEN folded ELSE kept
  IN [unread |-> AddUp(kept, folded), last |-> newer.last, at |-> newer.at]

\* The keeper's row, the deletion of the other, and the commit.
FoldCommit(r) ==
  LET from == calls[r].on
      into == calls[r].into
      moved == calls[r].moved
      left == In(from) \ moved
      outdated == \/ threads[from].list # calls[r].seen
                  \/ threads[into].list # calls[r].seenInto
                  \/ Midway(from) \/ from \in disturbed IN
  /\ calls[r].op = "moved"
  /\ Alive(from)
  /\ threads' = [threads EXCEPT
                   ![into].list = Folded(calls[r].seenInto, calls[r].seen),
                   ![from] = [buyer |-> "gone", list |-> Blank]]
  /\ posts' = [n \in DOMAIN posts |->
                 CASE n \in moved -> [posts[n] EXCEPT !.thread = into]
                   [] n \in left -> [posts[n] EXCEPT !.thread = 0]
                   [] OTHER -> posts[n]]
  /\ lost' = lost \cup left
  /\ disturbed' = IF outdated THEN disturbed \cup {into} ELSE disturbed
  /\ Ends(r)

\* A call is refused, fails or dies; a transaction leaves nothing, and of two
\* statements the one that has run.
GiveUp(r) ==
  LET t == calls[r].on IN
  /\ calls[r] # NoCall
  /\ disturbed' = IF calls[r].op \in {"reading", "withdrawn", "latest",
                                      "counted"}
                    THEN disturbed \cup {t} ELSE disturbed
  /\ Ends(r)
  /\ UNCHANGED <<listings, lost>>

ThreadNext ==
  \/ \E t \in Threads :
       \/ PutFromPanel(t)
       \/ \E buyer \in Buyers : MakeThread(t, buyer)
       \/ \E side \in Sides : PutUnkeyed(t, side)
       \/ \E n \in 0 .. 1 : BulkBadge(t, n)
  \/ \E r \in Callers :
       \/ WritePost(r) \/ MarkRows(r) \/ Withdraw(r) \/ FindLatest(r)
       \/ CountUnread(r) \/ RefreshPreview(r) \/ ReadForLink(r) \/ Relabel(r)
       \/ FoldRead(r) \/ FoldMove(r) \/ FoldCommit(r) \/ GiveUp(r)
       \/ \E t \in Threads, side \in Sides :
            Compose(r, t, side) \/ ResetBadge(r, t, side)
       \/ \E n \in DOMAIN posts : ReadForUnsend(r, n)

ThreadSpec == ThreadInit /\ [][ThreadNext]_threadVars

-----------------------------------------------------------------------------
\* A composer that tries again with its key has its message in the thread
\* once, however the tries overlap, and after a fold as before it.  The order
\* panel's tries may find two threads.
SentOnce ==
  \A m, n \in DOMAIN posts :
    posts[m].key = posts[n].key /\ posts[m].key \notin {NoKey, PanelKey}
      => m = n

\* The badges count what there is to read and the preview shows nothing that
\* was taken back, in any thread no write has gone by an outdated read to.
ListIsTrue ==
  \A t \in Threads \ disturbed : Alive(t) /\ ~Midway(t) =>
    LET list == threads[t].list IN
    /\ \A side \in Sides : list.unread[side] = Cardinality(Unread(t, side))
    /\ list.last # 0 => /\ posts[list.last].thread = t
                        /\ ~posts[list.last].deleted

\* foldConversation: "Moves everything from one thread onto another and
\* deletes the source."
NothingLost == lost = {}
=============================================================================
