------------------------------ MODULE Wishlist ------------------------------
(***************************************************************************)
(* Wishlist items, the decisions taken on them, the consumption records    *)
(* they produce, and the notifications that ask the user again, of one     *)
(* user: every query is restricted to the caller, and a request on another *)
(* user's item ends in 403 or 404 with no effect.                          *)
(*   src/src/features/wishlist-items/wishlist-items.service.js             *)
(*   src/src/features/temptations/temptations.service.js                   *)
(*   src/src/features/notifications/notifications.service.js               *)
(*                                                                         *)
(* update, delete and decide read the item first and write later.  Their   *)
(* writes are one transaction that takes the lock on the item's row, so    *)
(* each is one step; what they read, the time they computed a deadline     *)
(* from, and the instant their condition on notifyAt compares with, may be *)
(* stale by then.  Time is the clock of the server, wait_type *)
(* a number of ticks: an hour at least, longer than any request runs.      *)
(***************************************************************************)
EXTENDS Naturals, FiniteSets, Sequences

CONSTANTS
    Items,
    Notes,      \* ids of notification rows; a deleted row's id is reused
    Calls,      \* requests in progress at the same time
    Waits,      \* waiting times a request can ask for, in ticks
    NoNote,     \* no row with this id
    NoItem,     \* wishlist_item_id = NULL (ON DELETE SET NULL), or no call
    Latency,    \* how long a request may take: less than the shortest wait
    MaxClock    \* bound on time

ASSUME WaitsOutlastRequests ==
    /\ Latency \in Nat
    /\ Waits \subseteq Nat
    /\ \A wait \in Waits : wait > Latency
ASSUME ClockBound == MaxClock \in Nat
ASSUME NoItemIsNew == NoItem \notin Items
ASSUME NoNoteIsNew == NoNote \notin [item: Items \cup {NoItem}, at: Nat, read: BOOLEAN]

VARIABLES
    clock,
    status,     \* [Items -> {"none", "WAITING", "DECIDED", "deleted"}]
    waitUntil,  \* [Items -> Nat]
    priced,     \* items whose price is not NULL
    decisions,  \* decision rows of each item, in order
    records,    \* consumption records made from each item, in order
    notes,      \* notification rows
    call,       \* next step of each call and what it computed from
    written,    \* when the last transaction on each item's row committed
    excused     \* items whose next reminder the user removed or outran

itemVars == <<status, waitUntil, priced, decisions, records>>
vars == <<clock, itemVars, notes, call, written, excused>>

Note == [item: Items \cup {NoItem}, at: Nat, read: BOOLEAN]

(* A call: next step, its item, the time it started, the wait it asks for  *)
(* (0 = none), the decision it records, and whether the item it read had a *)
(* price.                                                                  *)
CallState == [step: {"idle", "update", "delete", "decide"},
              item: Items \cup {NoItem},
              began: 0..MaxClock,
              wait: Waits \cup {0},
              decision: {"BUY", "SKIP", "DELAY"}]

Idle == [step |-> "idle", item |-> NoItem, began |-> 0, wait |-> 0,
         decision |-> "DELAY"]

TypeOK ==
    /\ clock \in 0..MaxClock
    /\ status \in [Items -> {"none", "WAITING", "DECIDED", "deleted"}]
    /\ waitUntil \in [Items -> Nat]
    /\ priced \in SUBSET Items
    /\ decisions \in [Items -> Seq({"BUY", "SKIP", "DELAY"})]
    /\ records \in [Items -> Seq({"CONSUMED", "SKIPPED"})]
    /\ notes \in [Notes -> Note \cup {NoNote}]
    /\ call \in [Calls -> CallState]
    /\ written \in [Items -> 0..MaxClock]
    /\ excused \in SUBSET Items

Init ==
    /\ clock = 0
    /\ status = [i \in Items |-> "none"]
    /\ waitUntil = [i \in Items |-> 0]
    /\ priced = {}
    /\ decisions = [i \in Items |-> <<>>]
    /\ records = [i \in Items |-> <<>>]
    /\ notes = [n \in Notes |-> NoNote]
    /\ call = [c \in Calls |-> Idle]
    /\ written = [i \in Items |-> 0]
    /\ excused = {}

-----------------------------------------------------------------------------
At(c, step) == call[c].step = step
Reads(c, state) == call' = [call EXCEPT ![c] = state]
Finish(c) == Reads(c, Idle)
Writes(i) == written' = [written EXCEPT ![i] = clock]
Exists(i) == status[i] \in {"WAITING", "DECIDED"}

Rows == {n \in Notes : notes[n] # NoNote}
RowsOf(i) == {n \in Rows : notes[n].item = i}
AnyTime(i, time) == RowsOf(i)  \* mutant: no notifyAt condition

(* wishlistItemId = i, notificationType = 'TEMPTATION', notifyAt > time *)
Later(i, time) == {n \in RowsOf(i) : notes[n].at > time}
(* what listNotifications shows *)
Due == {n \in Rows : notes[n].at <= clock}
FreeNotes == Notes \ Rows

NewNoteNow(i, at) == [item |-> i, at |-> clock, read |-> FALSE]  \* mutant

(* createNotificationInTx *)
NewNote(i, at) == [item |-> i, at |-> at, read |-> FALSE]

Drop(S) == [n \in Notes |-> IF n \in S THEN NoNote ELSE notes[n]]
Move(S, at) == [n \in Notes |-> IF n \in S THEN [notes[n] EXCEPT !.at = at]
                                           ELSE notes[n]]

(* createWishlistItem: the item, "added" now and "ask again" at waitUntil. *)
CreateWishlistItem(i) ==
    /\ status[i] = "none"
    /\ \E wait \in Waits, m, n \in FreeNotes :
          /\ m # n
          /\ waitUntil' = [waitUntil EXCEPT ![i] = clock + wait]
          /\ notes' = [notes EXCEPT ![m] = NewNote(i, clock),
                                    ![n] = NewNote(i, clock + wait)]
    /\ status' = [status EXCEPT ![i] = "WAITING"]
    /\ priced' \in {priced, priced \cup {i}}
    /\ Writes(i)
    /\ UNCHANGED <<clock, decisions, records, call, excused>>

(* getValidatedItem, with the deadline computed when the call starts. *)
ReadForUpdate(c, i) ==
    /\ At(c, "idle")
    /\ Exists(i)
    /\ \E wait \in Waits \cup {0} :
          Reads(c, [Idle EXCEPT !.step = "update", !.item = i,
                                !.began = clock, !.wait = wait])
    /\ UNCHANGED <<clock, itemVars, notes, written, excused>>

(* The update transaction: no look at the status; with a wait type it sets *)
(* the new deadline and moves the reminders that are not due yet.  Not due *)
(* at an instant taken between the two statements: after the row is locked *)
(* (so after the last transaction on it), but before the reminders are     *)
(* written, and one may fall due and be listed in between.                 *)
ItemOnly(i, at, now) == notes  \* mutant: reminders are left where they are

UpdateReminds(i, at, now) ==  \* mutant: a missing reminder is made, DECIDED or not
    IF Later(i, now) = {} /\ FreeNotes # {}
    THEN [notes EXCEPT ![CHOOSE n \in FreeNotes : TRUE] = NewNote(i, at)]
    ELSE Move(Later(i, now), at)

UpdatedNotes(i, at, now) == Move(Later(i, now), at)

UpdateWishlistItem(c) ==
    LET i == call[c].item
        at == call[c].began + call[c].wait
    IN
    /\ At(c, "update")
    /\ Exists(i)
    /\ \/ /\ call[c].wait # 0
          /\ waitUntil' = [waitUntil EXCEPT ![i] = at]
          /\ \E now \in call[c].began..clock :
                /\ written[i] <= now
                /\ notes' = UpdatedNotes(i, at, now)
                /\ excused' = IF Later(i, now) = {} THEN excused \cup {i}
                                                    ELSE excused
       \/ /\ call[c].wait = 0
          /\ UNCHANGED <<waitUntil, notes, excused>>
    /\ priced' \in {priced, priced \cup {i}}
    /\ Writes(i)
    /\ Finish(c)
    /\ UNCHANGED <<clock, status, decisions, records>>

ReadForDelete(c, i) ==
    /\ At(c, "idle")
    /\ Exists(i)
    /\ Reads(c, [Idle EXCEPT !.step = "delete", !.item = i, !.began = clock])
    /\ UNCHANGED <<clock, itemVars, notes, written, excused>>

(* The delete transaction: reminders later than a time read before it, the *)
(* item, and by foreign keys its decisions; other notifications stay and   *)
(* lose their item.                                                        *)
DeleteWishlistItem(c) ==
    LET i == call[c].item IN
    /\ At(c, "delete")
    /\ Exists(i)
    /\ \E now \in call[c].began..clock :
          notes' = [n \in Notes |->
                      IF n \in Later(i, now) THEN NoNote
                      ELSE IF n \in RowsOf(i) THEN [notes[n] EXCEPT !.item = NoItem]
                      ELSE notes[n]]
    /\ status' = [status EXCEPT ![i] = "deleted"]
    /\ decisions' = [decisions EXCEPT ![i] = <<>>]
    /\ Writes(i)
    /\ Finish(c)
    /\ UNCHANGED <<clock, waitUntil, priced, records, excused>>

-----------------------------------------------------------------------------
(* createWishlistDecision up to its first write: the item is read WAITING, *)
(* and with a price unless the decision is DELAY.                          *)
ReadForDecision(c, i) ==
    /\ At(c, "idle")
    /\ status[i] = "WAITING"
    /\ \/ \E wait \in Waits :
             Reads(c, [Idle EXCEPT !.step = "decide", !.item = i,
                                   !.began = clock, !.wait = wait])
       \/ /\ i \in priced
          /\ \E decision \in {"BUY", "SKIP"} :
                Reads(c, [Idle EXCEPT !.step = "decide", !.item = i,
                                      !.began = clock,
                                      !.decision = decision])
    /\ UNCHANGED <<clock, itemVars, notes, written, excused>>

(* The conditional update that decides who wins: the item is still         *)
(* WAITING, and for DELAY its deadline had passed when the call looked.    *)
StillExists(i) == Exists(i)  \* mutant: no status condition

StillWaiting(i) == status[i] = "WAITING"

CanDecide(i, delay, now) ==
    /\ StillWaiting(i)
    /\ delay => waitUntil[i] <= now

(* BUY and SKIP: the record, and no reminder any more. *)
Decide(c) ==
    LET i == call[c].item
        decision == call[c].decision
    IN
    /\ At(c, "decide")
    /\ decision \in {"BUY", "SKIP"}
    /\ \E now \in call[c].began..clock :
          /\ CanDecide(i, FALSE, now)
          /\ notes' = Drop(Later(i, now))
    /\ status' = [status EXCEPT ![i] = "DECIDED"]
    /\ decisions' = [decisions EXCEPT ![i] = Append(@, decision)]
    /\ records' = [records EXCEPT ![i] =
                      Append(@, IF decision = "BUY" THEN "CONSUMED"
                                                    ELSE "SKIPPED")]
    /\ Writes(i)
    /\ Finish(c)
    /\ UNCHANGED <<clock, waitUntil, priced, excused>>

(* DELAY: the next deadline, and the pending reminder moved or, when there *)
(* is none, a new one.                                                     *)
Delay(c) ==
    LET i == call[c].item
        at == call[c].began + call[c].wait
    IN
    /\ At(c, "decide")
    /\ call[c].decision = "DELAY"
    /\ \E now \in call[c].began..clock :
          /\ CanDecide(i, TRUE, now)
          /\ IF Later(i, now) # {}
             THEN notes' = Move(Later(i, now), at)
             ELSE \E n \in FreeNotes : notes' = [notes EXCEPT ![n] = NewNote(i, at)]
    /\ waitUntil' = [waitUntil EXCEPT ![i] = at]
    /\ decisions' = [decisions EXCEPT ![i] = Append(@, "DELAY")]
    /\ excused' = excused \ {i}
    /\ Writes(i)
    /\ Finish(c)
    /\ UNCHANGED <<clock, status, priced, records>>

(* A call that throws after its read (lost race, missing item, failed      *)
(* database) rolls back and writes nothing.                                *)
Abort(c) ==
    /\ ~At(c, "idle")
    /\ Finish(c)
    /\ UNCHANGED <<clock, itemVars, notes, written, excused>>

-----------------------------------------------------------------------------
MarkRead(S) == [n \in Notes |-> IF n \in S THEN [notes[n] EXCEPT !.read = TRUE]
                                           ELSE notes[n]]

MarkNotificationRead(n) ==
    /\ n \in Rows
    /\ ~notes[n].read
    /\ notes' = MarkRead({n})
    /\ UNCHANGED <<clock, itemVars, call, written, excused>>

(* All rows of the user, the reminders that are not due yet included. *)
MarkAllNotificationsRead ==
    /\ notes' = MarkRead(Rows)
    /\ UNCHANGED <<clock, itemVars, call, written, excused>>

DeleteNotification(n) ==
    /\ n \in Rows
    /\ notes' = Drop({n})
    /\ excused' = excused \cup {i \in Items : /\ notes[n].item = i
                                             /\ notes[n].at = waitUntil[i]}
    /\ UNCHANGED <<clock, itemVars, call, written>>

Tick ==
    /\ clock < MaxClock
    /\ \A c \in Calls : ~At(c, "idle") => clock < call[c].began + Latency
    /\ clock' = clock + 1
    /\ UNCHANGED <<itemVars, notes, call, written, excused>>

Next ==
    \/ \E i \in Items : CreateWishlistItem(i)
    \/ \E c \in Calls :
          \/ \E i \in Items : \/ ReadForUpdate(c, i)
                              \/ ReadForDelete(c, i)
                              \/ ReadForDecision(c, i)
          \/ UpdateWishlistItem(c)
          \/ DeleteWishlistItem(c)
          \/ Decide(c)
          \/ Delay(c)
          \/ Abort(c)
    \/ MarkAllNotificationsRead
    \/ \E n \in Notes : MarkNotificationRead(n) \/ DeleteNotification(n)
    \/ Tick

Spec == Init /\ [][Next]_vars

-----------------------------------------------------------------------------
(* Two decisions on one item at the same time, from two devices or a       *)
(* retried request, produce one consumption record, and only a decided     *)
(* item has one.                                                           *)
OneRecordPerItem ==
    \A i \in Items :
        /\ Len(records[i]) <= 1
        /\ status[i] \in {"none", "WAITING"} => records[i] = <<>>
        /\ status[i] = "DECIDED" => Len(records[i]) = 1

(* However updates, delays and the clock interleave, the user is asked     *)
(* about an item at most once more, at the item's own deadline.            *)
ReminderAtDeadline ==
    \A i \in Items :
        /\ Cardinality(Later(i, clock)) <= 1
        /\ \A n \in Later(i, clock) : notes[n].at = waitUntil[i]

(* Once an item is decided or deleted its owner is not asked about it      *)
(* again, although a slow update may be writing its deadline.              *)
DecidedItemsAreQuiet ==
    \A i \in Items \cup {NoItem} :
        (i \in Items => status[i] # "WAITING") => Later(i, clock) = {}

(* A waiting item whose deadline is ahead has a reminder then, unless the  *)
(* user removed it or restarted the wait by an update after the reminder   *)
(* had fired (an update makes no new reminder).                            *)
EveryWaitIsAsked ==
    \A i \in Items :
        status[i] = "WAITING" /\ waitUntil[i] > clock /\ i \notin excused
            => \E n \in RowsOf(i) : notes[n].at = waitUntil[i]

(* What the user has been told stays told: a notification that was already *)
(* due when a request started is never taken back to the future.  Only one *)
(* that falls due while an update of its own item is running can be.       *)
DueStaysDue ==
    [][\A n \in Due :
          notes'[n] # NoNote /\ notes'[n].at > clock
              => \E c \in Calls : /\ At(c, "update")
                                  /\ call[c].item = notes[n].item
                                  /\ call[c].began < notes[n].at]_vars
=============================================================================
