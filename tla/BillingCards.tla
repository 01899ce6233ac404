---------------------------- MODULE BillingCards ----------------------------
(***************************************************************************)
(* The cards a shop pays its bills with: finances.service.ts's             *)
(* confirmBillingCard, setDefaultBillingCard and deleteBillingCard over    *)
(* the StoreBillingCard rows and the payment methods attached to the       *)
(* shop's customer at Stripe.                                              *)
(*                                                                         *)
(* confirmBillingCard holds a lock on the Store row from its duplicate     *)
(* check to its commit; the other two take no lock.  disturbed becomes     *)
(* TRUE when a request acts on a default that has changed since it was     *)
(* read, or dies half way through a deletion.                              *)
(*                                                                         *)
(* A payment method is confirmed by the browser and attached by Stripe     *)
(* before the API hears of it, and is never attached again once detached.  *)
(* Left out: what is printed on a card, and ensureStripeCustomer: the      *)
(* customer exists.                                                        *)
(***************************************************************************)
EXTENDS Naturals, FiniteSets, Sequences, SequencesExt

CONSTANTS
  Methods,        \* payment methods, one per SetupIntent
  Fingerprints,   \* cards as Stripe tells them apart
  Desks,          \* requests under way at one time
  Nothing         \* no payment method

VARIABLES
  fingerprint,  \* pm.card.fingerprint
  attached,     \* methods attached to the customer at Stripe
  detached,     \* methods that were detached
  cards,        \* the StoreBillingCard rows, oldest first
  defaults,     \* the rows with isDefault
  lock,         \* who has the Store row FOR UPDATE
  desks,        \* what each request is doing
  disturbed     \* history: a request misread the default or died

cardVars == <<fingerprint, attached, detached, cards, defaults, lock, desks,
              disturbed>>

ASSUME CardKeysAssumption == /\ IsFiniteSet(Methods)
                             /\ Nothing \notin Methods \cup Desks

-----------------------------------------------------------------------------
\* first: existingCount was 0.  wasDefault: isDefault of the row deleted.
Desk == [at : {"idle", "add", "insert", "refuse", "default", "delete",
               "find", "promote"},
         method : Methods \cup {Nothing}, first : BOOLEAN,
         wasDefault : BOOLEAN]
Quiet == [at |-> "idle", method |-> Nothing, first |-> FALSE,
          wasDefault |-> FALSE]

Saved == ToSet(cards)

CardTypeOK ==
  /\ fingerprint \in [Methods -> Fingerprints]
  /\ attached \subseteq Methods
  /\ detached \subseteq Methods
  /\ attached \cap detached = {}
  /\ cards \in Seq(Methods)
  /\ defaults \subseteq Methods
  /\ lock \in Desks \cup {Nothing}
  /\ desks \in [Desks -> Desk]
  /\ disturbed \in BOOLEAN

CardInit ==
  /\ fingerprint \in [Methods -> Fingerprints]
  /\ attached = {}
  /\ detached = {}
  /\ cards = <<>>
  /\ defaults = {}
  /\ lock = Nothing
  /\ desks = [d \in Desks |-> Quiet]
  /\ disturbed = FALSE

DeskGoes(d, work) == desks' = [desks EXCEPT ![d] = work]
Detach(m) == /\ attached' = attached \ {m}
             /\ detached' = detached \cup {m}

-----------------------------------------------------------------------------
\* The browser confirms a SetupIntent.
StripeAttaches(m) ==
  /\ m \notin attached \cup detached
  /\ attached' = attached \cup {m}
  /\ UNCHANGED <<fingerprint, detached, cards, defaults, lock, desks,
                 disturbed>>

(* confirmBillingCard: a payment method of another customer is refused.    *)
ConfirmBillingCard(d, m) ==
  /\ desks[d].at = "idle"
  /\ m \in attached
  /\ DeskGoes(d, [Quiet EXCEPT !.at = "add", !.method = m])
  /\ UNCHANGED <<fingerprint, attached, detached, cards, defaults, lock,
                 disturbed>>

\* MUTANT of MayLock: the store row is not locked.
MayLockAnyway == TRUE

\* SELECT ... FOR UPDATE waits for the transaction that has the row.
MayLock == lock = Nothing

\* The duplicate check and the count, with the Store row locked.
LockAndCheck(d) ==
  LET m == desks[d].method
      duplicate == \E k \in Saved : fingerprint[k] = fingerprint[m] IN
  /\ desks[d].at = "add"
  /\ MayLock
  /\ IF duplicate
       THEN DeskGoes(d, [desks[d] EXCEPT !.at = "refuse"]) /\ UNCHANGED lock
       ELSE /\ DeskGoes(d, [desks[d] EXCEPT !.at = "insert",
                                            !.first = (cards = <<>>)])
            /\ lock' = d
  /\ UNCHANGED <<fingerprint, attached, detached, cards, defaults, disturbed>>

InsertCard(d) ==
  LET m == desks[d].method IN
  /\ desks[d].at = "insert"
  /\ cards' = Append(cards, m)
  /\ defaults' = IF desks[d].first THEN defaults \cup {m} ELSE defaults
  /\ disturbed' = (disturbed \/ desks[d].first # (cards = <<>>))
  /\ lock' = Nothing
  /\ DeskGoes(d, Quiet)
  /\ UNCHANGED <<fingerprint, attached, detached>>

\* A refused card is detached, whichever row it was a duplicate of.
DetachRefused(d) ==
  /\ desks[d].at = "refuse"
  /\ Detach(desks[d].method)
  /\ DeskGoes(d, Quiet)
  /\ UNCHANGED <<fingerprint, cards, defaults, lock, disturbed>>

-----------------------------------------------------------------------------
(* setDefaultBillingCard                                                   *)

ReadForDefault(d, m) ==
  /\ desks[d].at = "idle"
  /\ m \in Saved
  /\ DeskGoes(d, [Quiet EXCEPT !.at = "default", !.method = m])
  /\ UNCHANGED <<fingerprint, attached, detached, cards, defaults, lock,
                 disturbed>>

\* MUTANT of OnlyDefault: the other cards keep their flag.
OneMoreDefault(m) == defaults \cup {m}

OnlyDefault(m) == {m}

\* All rows false, this one true; a row deleted by now rolls both back.
SetDefaultBillingCard(d) ==
  LET m == desks[d].method IN
  /\ desks[d].at = "default"
  /\ defaults' = IF m \in Saved THEN OnlyDefault(m) ELSE defaults
  /\ DeskGoes(d, Quiet)
  /\ UNCHANGED <<fingerprint, attached, detached, cards, lock, disturbed>>

-----------------------------------------------------------------------------
(* deleteBillingCard: four calls, no transaction                           *)

ReadForDelete(d, m) ==
  /\ desks[d].at = "idle"
  /\ m \in Saved
  /\ DeskGoes(d, [Quiet EXCEPT !.at = "delete", !.method = m,
                               !.wasDefault = (m \in defaults)])
  /\ Detach(m)
  /\ UNCHANGED <<fingerprint, cards, defaults, lock, disturbed>>

DeleteCard(d) ==
  LET m == desks[d].method IN
  /\ desks[d].at = "delete"
  /\ \/ m \notin Saved /\ UNCHANGED cards
     \/ \E i \in DOMAIN cards : cards[i] = m /\ cards' = RemoveAt(cards, i)
  /\ defaults' = defaults \ {m}
  /\ disturbed' = (disturbed \/ desks[d].wasDefault # (m \in defaults))
  /\ DeskGoes(d, IF m \in Saved /\ desks[d].wasDefault
                   THEN [desks[d] EXCEPT !.at = "find"] ELSE Quiet)
  /\ UNCHANGED <<fingerprint, attached, detached, lock>>

FindOldest(d) ==
  /\ desks[d].at = "find"
  /\ DeskGoes(d, IF cards = <<>> THEN Quiet
                   ELSE [desks[d] EXCEPT !.at = "promote",
                                         !.method = Head(cards)])
  /\ UNCHANGED <<fingerprint, attached, detached, cards, defaults, lock,
                 disturbed>>

PromoteOldest(d) ==
  LET m == desks[d].method IN
  /\ desks[d].at = "promote"
  /\ defaults' = IF m \in Saved THEN defaults \cup {m} ELSE defaults
  /\ disturbed' = (disturbed \/ m \notin Saved \/ defaults # {})
  /\ DeskGoes(d, Quiet)
  /\ UNCHANGED <<fingerprint, attached, detached, cards, lock>>

\* A process dies; the transaction it was in is rolled back.
DeskDies(d) ==
  /\ desks[d].at # "idle"
  /\ lock' = IF lock = d THEN Nothing ELSE lock
  /\ disturbed' = (disturbed \/ desks[d].at \in {"delete", "find", "promote"})
  /\ DeskGoes(d, Quiet)
  /\ UNCHANGED <<fingerprint, attached, detached, cards, defaults>>

CardNext ==
  \/ \E m \in Methods : StripeAttaches(m)
  \/ \E d \in Desks, m \in Methods :
       ConfirmBillingCard(d, m) \/ ReadForDefault(d, m) \/ ReadForDelete(d, m)
  \/ \E d \in Desks :
       \/ LockAndCheck(d) \/ InsertCard(d) \/ DetachRefused(d)
       \/ SetDefaultBillingCard(d)
       \/ DeleteCard(d) \/ FindOldest(d) \/ PromoteOldest(d)
       \/ DeskDies(d)

CardSpec == CardInit /\ [][CardNext]_cardVars

-----------------------------------------------------------------------------
\* Whatever overlaps, a shop never has the same card twice: the check and
\* the insert of confirmBillingCard are one transaction on a locked row.
NoCardTwice ==
  \A i, j \in DOMAIN cards :
    fingerprint[cards[i]] = fingerprint[cards[j]] => i = j

\* "so two concurrent 'add card' calls for the same store can't both observe
\* existingCount === 0 and both become default": with no request under way a
\* shop that has cards has one default, unless a request acted on a default
\* that had changed since it read it, or died between its calls.
OneDefaultCard ==
  ~disturbed /\ (\A d \in Desks : desks[d].at = "idle") =>
    /\ defaults \subseteq Saved
    /\ cards # <<>> => Cardinality(defaults) = 1
=============================================================================
