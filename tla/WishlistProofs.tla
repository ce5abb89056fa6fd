--------------------------- MODULE WishlistProofs ---------------------------
(***************************************************************************)
(* The life of an item, and the import of the product it starts from.      *)
(*                                                                         *)
(* For any items, notifications, requests and waits: one record per        *)
(* decided item, and no reminder of an item that is decided or deleted,    *)
(* although every handler writes by what it read before.                   *)
(*                                                                         *)
(* For any pages, limits, redirects and addresses: the product of a page   *)
(* is the first in document order, although a stack is searched, and no    *)
(* dispatcher outlives its hop.                                            *)
(***************************************************************************)
EXTENDS Wishlist, ProductUrl, SequenceTheorems, FiniteSetTheorems, TLAPS

(* A call that has read an item still knows which.                         *)
CallsNameItems == \A c \in Calls : ~At(c, "idle") => call[c].item \in Items

IInv == TypeOK /\ CallsNameItems /\ OneRecordPerItem /\ DecidedItemsAreQuiet

(* What a call may hold.                                                   *)
LEMMA CallsHaveType ==
    ASSUME TypeOK, NEW c \in Calls, NEW state \in CallState, Reads(c, state)
    PROVE  call' \in [Calls -> CallState]
  BY DEF TypeOK, Reads

LEMMA IdleHasType == TypeOK => Idle \in CallState
  BY ClockBound DEF Idle, CallState

LEMMA FinishHasType ==
    ASSUME TypeOK, NEW c \in Calls, Finish(c)
    PROVE  call' \in [Calls -> CallState]
  BY IdleHasType, CallsHaveType DEF Finish

LEMMA CallHasType ==
    ASSUME TypeOK, NEW c \in Calls
    PROVE  /\ call[c].item \in Items \cup {NoItem}
           /\ call[c].began \in 0..MaxClock
           /\ call[c].wait \in Nat
           /\ call[c].began + call[c].wait \in Nat
           /\ call[c].decision \in {"BUY", "SKIP", "DELAY"}
<1>1. call[c] \in CallState
  BY DEF TypeOK
<1>2. /\ call[c].item \in Items \cup {NoItem}
      /\ call[c].began \in 0..MaxClock
      /\ call[c].wait \in Waits \cup {0}
      /\ call[c].decision \in {"BUY", "SKIP", "DELAY"}
  BY <1>1 DEF CallState
<1>3. call[c].wait \in Nat
  <2>1. Waits \cup {0} \subseteq Nat
    BY WaitsOutlastRequests
  <2> QED BY <1>2, <2>1, Zenon
<1> QED BY <1>2, <1>3, ClockBound

(* Moving, dropping and reading notifications keeps them notifications.    *)
LEMMA NotesHaveType ==
    ASSUME TypeOK, NEW S \in SUBSET Rows, NEW at \in Nat
    PROVE  /\ Move(S, at) \in [Notes -> Note \cup {NoNote}]
           /\ Drop(S) \in [Notes -> Note \cup {NoNote}]
           /\ MarkRead(S) \in [Notes -> Note \cup {NoNote}]
  BY DEF TypeOK, Move, Drop, MarkRead, Rows, Note

LEMMA LaterAreRows ==
    ASSUME NEW i, NEW time
    PROVE  Later(i, time) \subseteq RowsOf(i) /\ RowsOf(i) \subseteq Rows
           /\ Rows \subseteq Notes
  BY DEF Later, RowsOf, Rows

LEMMA NewNoteHasType ==
    ASSUME NEW i \in Items, NEW at \in Nat
    PROVE  NewNote(i, at) \in Note
  BY DEF NewNote, Note

LEMMA InitEstablishesIInv == Init => IInv
<1> SUFFICES ASSUME Init PROVE IInv
  OBVIOUS
<1>1. TypeOK
  BY ClockBound DEF Init, TypeOK, Idle, CallState
<1>2. OneRecordPerItem
  BY DEF Init, OneRecordPerItem
<1>3. DecidedItemsAreQuiet
  BY DEF Init, DecidedItemsAreQuiet, Later, RowsOf, Rows
<1>4. CallsNameItems
  BY DEF Init, CallsNameItems, At, Idle
<1> QED BY <1>1, <1>2, <1>3, <1>4 DEF IInv

-----------------------------------------------------------------------------
LEMMA StepPreservesTypes == TypeOK /\ CallsNameItems /\ [Next]_vars => TypeOK'
<1> SUFFICES ASSUME TypeOK, CallsNameItems, [Next]_vars PROVE TypeOK'
  OBVIOUS
<1> USE ClockBound DEF TypeOK
<1>1. ASSUME NEW i \in Items, CreateWishlistItem(i) PROVE TypeOK'
  <2>1. PICK wait \in Waits, m \in FreeNotes, n \in FreeNotes :
           /\ waitUntil' = [waitUntil EXCEPT ![i] = clock + wait]
           /\ notes' = [notes EXCEPT ![m] = NewNote(i, clock),
                                     ![n] = NewNote(i, clock + wait)]
    BY <1>1 DEF CreateWishlistItem
  <2>2. clock \in Nat /\ clock + wait \in Nat
    BY WaitsOutlastRequests
  <2>3. notes' \in [Notes -> Note \cup {NoNote}] /\ waitUntil' \in [Items -> Nat]
    BY <2>1, <2>2, NewNoteHasType DEF FreeNotes
  <2> QED BY <1>1, <2>3 DEF CreateWishlistItem, Writes
<1>2. ASSUME NEW c \in Calls, NEW i \in Items,
             ReadForUpdate(c, i) \/ ReadForDelete(c, i) \/ ReadForDecision(c, i)
      PROVE  TypeOK'
  <2>1. call' \in [Calls -> CallState]
    BY <1>2, IdleHasType, CallsHaveType
       DEF ReadForUpdate, ReadForDelete, ReadForDecision, Idle, CallState
  <2> QED BY <1>2, <2>1 DEF ReadForUpdate, ReadForDelete, ReadForDecision, itemVars
<1>3. ASSUME NEW c \in Calls, UpdateWishlistItem(c) PROVE TypeOK'
  <2> DEFINE i == call[c].item
             at == call[c].began + call[c].wait
  <2>1. at \in Nat /\ i \in Items
    BY <1>3, CallHasType DEF CallsNameItems, UpdateWishlistItem, At
  <2>2. \A now : UpdatedNotes(i, at, now) \in [Notes -> Note \cup {NoNote}]
    BY <2>1, NotesHaveType, LaterAreRows DEF UpdatedNotes
  <2>3. /\ notes' \in [Notes -> Note \cup {NoNote}]
        /\ waitUntil' \in [Items -> Nat]
        /\ excused' \in SUBSET Items /\ priced' \in SUBSET Items
    <3>1. CASE UNCHANGED <<waitUntil, notes, excused>>
      BY <1>3, <2>1, <3>1 DEF UpdateWishlistItem
    <3>2. ASSUME NEW now, waitUntil' = [waitUntil EXCEPT ![i] = at],
                 notes' = UpdatedNotes(i, at, now),
                 excused' \in {excused, excused \cup {i}}
          PROVE  /\ notes' \in [Notes -> Note \cup {NoNote}]
                 /\ waitUntil' \in [Items -> Nat]
                 /\ excused' \in SUBSET Items /\ priced' \in SUBSET Items
      <4>1. priced' \in {priced, priced \cup {i}}
        BY <1>3 DEF UpdateWishlistItem
      <4>2. waitUntil' \in [Items -> Nat]
        BY <2>1, <3>2
      <4> QED BY <2>1, <2>2, <3>2, <4>1, <4>2
    <3> QED BY <1>3, <3>1, <3>2 DEF UpdateWishlistItem
  <2> QED BY <1>3, <2>3, FinishHasType DEF UpdateWishlistItem, Writes
<1>4. ASSUME NEW c \in Calls, DeleteWishlistItem(c) PROVE TypeOK'
  <2> DEFINE i == call[c].item
  <2>1. PICK now \in call[c].began..clock :
           notes' = [n \in Notes |->
                       IF n \in Later(i, now) THEN NoNote
                       ELSE IF n \in RowsOf(i) THEN [notes[n] EXCEPT !.item = NoItem]
                       ELSE notes[n]]
    BY <1>4 DEF DeleteWishlistItem
  <2>2. notes' \in [Notes -> Note \cup {NoNote}]
    <3>1. ASSUME NEW n \in RowsOf(i) PROVE [notes[n] EXCEPT !.item = NoItem] \in Note
      BY DEF RowsOf, Rows, Note
    <3> QED BY <2>1, <3>1 DEF RowsOf, Rows
  <2>3. status' \in [Items -> {"none", "WAITING", "DECIDED", "deleted"}]
        /\ decisions' \in [Items -> Seq({"BUY", "SKIP", "DELAY"})]
    <3>1. <<>> \in Seq({"BUY", "SKIP", "DELAY"})
      OBVIOUS
    <3> QED BY <1>4, <3>1 DEF DeleteWishlistItem
  <2> QED BY <1>4, <2>2, <2>3, FinishHasType DEF DeleteWishlistItem, Writes
<1>5. ASSUME NEW c \in Calls, Decide(c) PROVE TypeOK'
  <2> DEFINE i == call[c].item
             decision == call[c].decision
             record == IF decision = "BUY" THEN "CONSUMED" ELSE "SKIPPED"
  <2>1. notes' \in [Notes -> Note \cup {NoNote}]
    <3>1. PICK now \in call[c].began..clock : notes' = Drop(Later(i, now))
      BY <1>5 DEF Decide
    <3> QED BY <3>1, NotesHaveType, LaterAreRows, 0 \in Nat
  <2>2. decision \in {"BUY", "SKIP"} /\ record \in {"CONSUMED", "SKIPPED"}
    BY <1>5 DEF Decide
  <2>3. /\ status' = [status EXCEPT ![i] = "DECIDED"]
        /\ decisions' = [decisions EXCEPT ![i] = Append(@, decision)]
        /\ records' = [records EXCEPT ![i] = Append(@, record)]
    BY <1>5 DEF Decide
  <2>4. /\ status' \in [Items -> {"none", "WAITING", "DECIDED", "deleted"}]
        /\ decisions' \in [Items -> Seq({"BUY", "SKIP", "DELAY"})]
        /\ records' \in [Items -> Seq({"CONSUMED", "SKIPPED"})]
    <3>1. /\ decisions[i] \in Seq({"BUY", "SKIP", "DELAY"})
          /\ records[i] \in Seq({"CONSUMED", "SKIPPED"})
      BY <1>5 DEF Decide, CallsNameItems, At
    <3>2. /\ Append(decisions[i], decision) \in Seq({"BUY", "SKIP", "DELAY"})
          /\ Append(records[i], record) \in Seq({"CONSUMED", "SKIPPED"})
      BY <2>2, <3>1
    <3> QED BY <2>3, <3>2
  <2> QED BY <1>5, <2>1, <2>4, FinishHasType DEF Decide, Writes
<1>6. ASSUME NEW c \in Calls, Delay(c) PROVE TypeOK'
  <2> DEFINE i == call[c].item
             at == call[c].began + call[c].wait
  <2>1. PICK now \in call[c].began..clock :
           /\ CanDecide(i, TRUE, now)
           /\ IF Later(i, now) # {}
              THEN notes' = Move(Later(i, now), at)
              ELSE \E n \in FreeNotes : notes' = [notes EXCEPT ![n] = NewNote(i, at)]
    BY <1>6 DEF Delay
  <2>2. at \in Nat /\ i \in Items
    BY <1>6, CallHasType DEF CallsNameItems, Delay, At
  <2>4. notes' \in [Notes -> Note \cup {NoNote}]
    <3>1. CASE notes' = Move(Later(i, now), at)
      BY <2>2, <3>1, NotesHaveType, LaterAreRows
    <3>2. CASE \E n \in FreeNotes : notes' = [notes EXCEPT ![n] = NewNote(i, at)]
      BY <2>2, <3>2, NewNoteHasType DEF FreeNotes
    <3> QED BY <2>1, <3>1, <3>2
  <2>5. waitUntil' \in [Items -> Nat]
        /\ decisions' \in [Items -> Seq({"BUY", "SKIP", "DELAY"})]
    <3>1. Append(decisions[i], "DELAY") \in Seq({"BUY", "SKIP", "DELAY"})
      BY <2>2
    <3> QED BY <1>6, <2>2, <3>1 DEF Delay
  <2> QED BY <1>6, <2>4, <2>5, FinishHasType DEF Delay, Writes
<1>7. ASSUME NEW c \in Calls, Abort(c) PROVE TypeOK'
  BY <1>7, FinishHasType DEF Abort, itemVars
<1>8. CASE MarkAllNotificationsRead
  BY <1>8, NotesHaveType, 0 \in Nat DEF MarkAllNotificationsRead, itemVars
<1>9. ASSUME NEW n \in Notes, MarkNotificationRead(n) \/ DeleteNotification(n)
      PROVE  TypeOK'
  <2>1. notes' \in [Notes -> Note \cup {NoNote}]
    <3>1. CASE n \in Rows /\ notes' = MarkRead({n})
      BY <3>1, NotesHaveType, 0 \in Nat
    <3>2. CASE n \in Rows /\ notes' = Drop({n})
      BY <3>2, NotesHaveType, 0 \in Nat
    <3> QED BY <1>9, <3>1, <3>2 DEF MarkNotificationRead, DeleteNotification
  <2>2. excused' \in SUBSET Items
    BY <1>9 DEF MarkNotificationRead, DeleteNotification, Rows, Note
  <2> QED BY <1>9, <2>1, <2>2 DEF MarkNotificationRead, DeleteNotification, itemVars
<1>10. CASE Tick
  BY <1>10 DEF Tick, itemVars
<1>11. CASE UNCHANGED vars
  BY <1>11 DEF vars, itemVars
<1> QED BY <1>1, <1>2, <1>3, <1>4, <1>5, <1>6, <1>7, <1>8, <1>9, <1>10, <1>11
        DEF Next

(* Records are made by the step that takes an item out of WAITING.         *)
LEMMA StepPreservesRecords == IInv /\ [Next]_vars => OneRecordPerItem'
<1> SUFFICES ASSUME IInv, [Next]_vars PROVE OneRecordPerItem'
  OBVIOUS
<1> USE DEF IInv, OneRecordPerItem
<1>1. ASSUME NEW c \in Calls, Decide(c) PROVE OneRecordPerItem'
  <2> DEFINE i == call[c].item
             record == IF call[c].decision = "BUY" THEN "CONSUMED" ELSE "SKIPPED"
  <2>1. /\ status[i] = "WAITING"
        /\ status' = [status EXCEPT ![i] = "DECIDED"]
        /\ records' = [records EXCEPT ![i] = Append(@, record)]
    BY <1>1 DEF Decide, CanDecide, StillWaiting
  <2>2. i \in Items => records[i] = <<>> /\ Len(Append(<<>>, record)) = 1
    BY <2>1
  <2>3. ASSUME NEW j \in Items
        PROVE  /\ Len(records'[j]) <= 1
               /\ status'[j] \in {"none", "WAITING"} => records'[j] = <<>>
               /\ status'[j] = "DECIDED" => Len(records'[j]) = 1
    <3>1. CASE j = i
      BY <2>1, <2>2, <3>1 DEF TypeOK
    <3>2. CASE j # i
      BY <2>1, <3>2 DEF TypeOK
    <3> QED BY <3>1, <3>2
  <2> QED BY <2>3
<1>2. ASSUME NEW i \in Items, CreateWishlistItem(i) PROVE OneRecordPerItem'
  BY <1>2 DEF CreateWishlistItem, TypeOK
<1>3. ASSUME NEW c \in Calls, DeleteWishlistItem(c) PROVE OneRecordPerItem'
  BY <1>3 DEF DeleteWishlistItem, TypeOK
<1>4. CASE UNCHANGED <<status, records>>
  BY <1>4
<1> QED
  BY <1>1, <1>2, <1>3, <1>4
     DEF Next, ReadForUpdate, ReadForDelete, ReadForDecision, UpdateWishlistItem,
         Delay, Abort, MarkAllNotificationsRead, MarkNotificationRead,
         DeleteNotification, Tick, vars, itemVars

-----------------------------------------------------------------------------
(* A step that adds no later reminder, except to items that wait.          *)
QuietStep ==
    \A i \in Items \cup {NoItem}, n \in Notes :
        n \in Later(i, clock)' =>
            \/ n \in Later(i, clock)
            \/ i \in Items /\ status'[i] = "WAITING"

(* No item begins to be quiet while it has a later reminder.               *)
LEMMA QuietIsKept ==
    ASSUME DecidedItemsAreQuiet, QuietStep,
           \A i \in Items : status'[i] = status[i] \/ status'[i] = "WAITING"
                            \/ Later(i, clock)' = {}
    PROVE  DecidedItemsAreQuiet'
<1> SUFFICES ASSUME NEW i \in Items \cup {NoItem},
                    (i \in Items => status'[i] # "WAITING"),
                    NEW n, n \in Later(i, clock)'
             PROVE  FALSE
  BY DEF DecidedItemsAreQuiet
<1>1. n \in Notes
  BY DEF Later, RowsOf, Rows
<1>2. n \in Later(i, clock)
  BY <1>1 DEF QuietStep
<1> QED BY <1>2 DEF DecidedItemsAreQuiet

LEMMA StepPreservesNames == IInv /\ [Next]_vars => CallsNameItems'
<1> SUFFICES ASSUME IInv, [Next]_vars, NEW c \in Calls, ~At(c, "idle")'
             PROVE  call'[c].item \in Items
  BY DEF CallsNameItems
<1> USE DEF IInv, CallsNameItems, At
<1>1. CASE call' = call
  BY <1>1
<1>2. ASSUME NEW d \in Calls, NEW state, Reads(d, state),
             state.step # "idle" => state.item \in Items
      PROVE  call'[c].item \in Items
  BY <1>2 DEF Reads, TypeOK
<1>3. ASSUME NEW d \in Calls, Finish(d) PROVE call'[c].item \in Items
  BY <1>2, <1>3 DEF Finish, Idle
<1>4. ASSUME NEW d \in Calls, NEW i \in Items,
             ReadForUpdate(d, i) \/ ReadForDelete(d, i) \/ ReadForDecision(d, i)
      PROVE  call'[c].item \in Items
  <2>1. CASE ReadForUpdate(d, i)
    <3>1. PICK wait \in Waits \cup {0} :
             Reads(d, [Idle EXCEPT !.step = "update", !.item = i,
                                   !.began = clock, !.wait = wait])
      BY <2>1 DEF ReadForUpdate
    <3> QED BY <1>2, <3>1 DEF Idle
  <2>2. CASE ReadForDelete(d, i)
    BY <1>2, <2>2 DEF ReadForDelete, Idle
  <2>3. CASE ReadForDecision(d, i)
    <3>1. CASE \E wait \in Waits :
             Reads(d, [Idle EXCEPT !.step = "decide", !.item = i,
                                   !.began = clock, !.wait = wait])
      BY <1>2, <3>1 DEF Idle
    <3>2. CASE \E decision \in {"BUY", "SKIP"} :
             Reads(d, [Idle EXCEPT !.step = "decide", !.item = i,
                                   !.began = clock, !.decision = decision])
      BY <1>2, <3>2 DEF Idle
    <3> QED BY <2>3, <3>1, <3>2 DEF ReadForDecision
  <2> QED BY <1>4, <2>1, <2>2, <2>3
<1> QED
  BY <1>1, <1>3, <1>4
     DEF Next, CreateWishlistItem, UpdateWishlistItem, DeleteWishlistItem, Decide,
         Delay, Abort, MarkAllNotificationsRead, MarkNotificationRead,
         DeleteNotification, Tick, vars

-----------------------------------------------------------------------------
(* The second strengthening: what a call has computed is recent, and the   *)
(* notifications of an item that were not due when its row was last        *)
(* written agree with its deadline: an update compares them with an        *)
(* instant after that, although not with the present one.                  *)

(* A request is not over its time, and one that delays asks for a wait.    *)
CallIsRecent(c) ==
    ~At(c, "idle") =>
        /\ clock <= call[c].began + Latency
        /\ At(c, "decide") /\ call[c].decision = "DELAY" => call[c].wait \in Waits

RemindersOK(i) ==
    /\ written[i] <= clock
    /\ status[i] = "none" => RowsOf(i) = {}
    /\ \A n \in RowsOf(i) :
          /\ notes[n].at <= waitUntil[i]
          /\ notes[n].at > written[i] => notes[n].at = waitUntil[i]
    /\ \A m, n \in RowsOf(i) :
          notes[m].at > written[i] /\ notes[n].at > written[i] => m = n
    /\ status[i] # "WAITING" => \A n \in RowsOf(i) : ~(notes[n].at > written[i])
    /\ status[i] = "WAITING" /\ waitUntil[i] > clock /\ i \notin excused
          => \E n \in RowsOf(i) : notes[n].at = waitUntil[i]

JInv == /\ IInv
        /\ \A c \in Calls : CallIsRecent(c)
        /\ \A i \in Items : RemindersOK(i)

LEMMA InitEstablishesJInv == Init => JInv
  BY InitEstablishesIInv
     DEF Init, JInv, CallIsRecent, RemindersOK, RowsOf, Rows, At, Idle

(* A deadline that is written is ahead of the clock.                       *)
LEMMA DeadlinesAreAhead ==
    ASSUME TypeOK, NEW c \in Calls, ~At(c, "idle"), CallIsRecent(c),
           call[c].wait # 0
    PROVE  /\ call[c].began + call[c].wait \in Nat
           /\ call[c].began + call[c].wait > clock
<1>1. call[c] \in CallState
  BY DEF TypeOK
<1>2. call[c].wait \in Waits /\ call[c].began \in 0..MaxClock
  BY <1>1 DEF CallState
<1>3. call[c].wait \in Nat /\ call[c].wait > Latency /\ Latency \in Nat
  BY <1>2, WaitsOutlastRequests
<1>4. clock \in Nat /\ call[c].began \in Nat
  BY <1>2, ClockBound DEF TypeOK
<1> QED BY <1>3, <1>4 DEF CallIsRecent

LEMMA RowsHaveTimes ==
    ASSUME TypeOK
    PROVE  /\ NoNote \notin Note
           /\ notes \in [Notes -> Note \cup {NoNote}]
           /\ clock \in Nat
           /\ \A i \in Items : written[i] \in Nat
           /\ \A n \in Rows : notes[n] \in Note /\ notes[n].at \in Nat
  BY NoNoteIsNew, ClockBound DEF TypeOK, Note, Rows

(* The instant a write compares notifyAt with has passed.                  *)
LEMMA InstantsArePast ==
    ASSUME TypeOK, NEW c \in Calls, NEW now \in call[c].began..clock
    PROVE  now \in Nat /\ now <= clock
  BY CallHasType, ClockBound DEF TypeOK

(* What an update moves was not due when the item was last written.        *)
LEMMA UpdatesComeAfter ==
    ASSUME TypeOK, NEW c \in Calls, NEW now \in call[c].began..clock,
           NEW i \in Items, written[i] <= now
    PROVE  /\ now \in Nat /\ now <= clock
           /\ \A n \in Later(i, now) : n \in RowsOf(i) /\ notes[n].at > written[i]
           /\ \A n \in RowsOf(i) : n \notin Later(i, now) => ~(notes[n].at > clock)
<1> QED BY InstantsArePast, RowsHaveTimes DEF Later, RowsOf

LEMMA StepPreservesQuiet == JInv /\ [Next]_vars => DecidedItemsAreQuiet'
<1> SUFFICES ASSUME JInv, [Next]_vars PROVE DecidedItemsAreQuiet'
  OBVIOUS
<1> USE DEF JInv, IInv
<1>0. NoNote \notin Note /\ notes \in [Notes -> Note \cup {NoNote}]
  BY NoNoteIsNew DEF Note, TypeOK
<1>1. ASSUME NEW i \in Items, CreateWishlistItem(i) PROVE DecidedItemsAreQuiet'
  <2>1. PICK wait \in Waits, m \in FreeNotes, n \in FreeNotes :
           notes' = [notes EXCEPT ![m] = NewNote(i, clock),
                                  ![n] = NewNote(i, clock + wait)]
    BY <1>1 DEF CreateWishlistItem
  <2>2. status' = [status EXCEPT ![i] = "WAITING"] /\ clock' = clock
    BY <1>1 DEF CreateWishlistItem
  <2>3. QuietStep
    BY <1>0, <2>1, <2>2 DEF QuietStep, Later, RowsOf, Rows, NewNote, FreeNotes, TypeOK
  <2> QED BY <2>2, <2>3, QuietIsKept DEF TypeOK
<1>2. ASSUME NEW c \in Calls, UpdateWishlistItem(c) PROVE DecidedItemsAreQuiet'
  <2>1. status' = status /\ clock' = clock
    BY <1>2 DEF UpdateWishlistItem
  <2>2. PICK i \in Items : i = call[c].item
    BY <1>2 DEF CallsNameItems, UpdateWishlistItem, At
  <2>3. QuietStep
    <3>1. CASE notes' = notes
      BY <2>1, <3>1 DEF QuietStep, Later, RowsOf, Rows
    <3>2. ASSUME NEW now \in call[c].began..clock, written[i] <= now, NEW at,
                 notes' = Move(Later(i, now), at)
          PROVE  QuietStep
      <4>1. CASE status[i] = "WAITING"
        BY <1>0, <2>1, <3>2, <4>1 DEF QuietStep, Move, Later, RowsOf, Rows, Note
      <4>2. CASE status[i] # "WAITING"
        <5>1. Later(i, now) = {}
          BY <3>2, <4>2, UpdatesComeAfter DEF RemindersOK, Later
        <5>2. notes' = notes
          BY <1>0, <3>2, <5>1 DEF Move
        <5> QED BY <3>1, <5>2
      <4> QED BY <4>1, <4>2
    <3> QED BY <1>2, <2>2, <3>1, <3>2 DEF UpdateWishlistItem, UpdatedNotes
  <2> QED BY <2>1, <2>3, QuietIsKept
<1>3. ASSUME NEW c \in Calls, DeleteWishlistItem(c) PROVE DecidedItemsAreQuiet'
  <2>1. PICK i \in Items : i = call[c].item
    BY <1>3 DEF CallsNameItems, DeleteWishlistItem, At
  <2>2. PICK now \in call[c].began..clock :
           notes' = [n \in Notes |->
                       IF n \in Later(i, now) THEN NoNote
                       ELSE IF n \in RowsOf(i) THEN [notes[n] EXCEPT !.item = NoItem]
                       ELSE notes[n]]
    BY <1>3, <2>1 DEF DeleteWishlistItem
  <2>3. status' = [status EXCEPT ![i] = "deleted"] /\ clock' = clock
    BY <1>3, <2>1 DEF DeleteWishlistItem
  <2>4. now <= clock /\ now \in Nat /\ clock \in Nat
    BY ClockBound, CallHasType DEF TypeOK
  <2>5. ASSUME NEW n \in RowsOf(i), n \notin Later(i, now)
        PROVE  ~(notes[n].at > clock)
    BY <1>0, <2>4, <2>5 DEF Later, RowsOf, Rows, Note
  <2>6. QuietStep
    BY <1>0, <2>2, <2>3, <2>5 DEF QuietStep, Later, RowsOf, Rows, Note
  <2>7. ASSUME NEW n \in Notes, notes'[n] # NoNote PROVE notes'[n].item # i
    <3>1. notes[n] \in Note
      BY <1>0, <2>2, <2>7 DEF RowsOf, Rows
    <3>2. CASE n \in RowsOf(i)
      BY <2>2, <2>7, <3>1, <3>2, NoItemIsNew DEF Note
    <3>3. CASE n \notin RowsOf(i)
      BY <2>2, <2>7, <3>1, <3>3 DEF RowsOf, Rows, Later
    <3> QED BY <3>2, <3>3
  <2>8. Later(i, clock)' = {}
    BY <2>7 DEF Later, RowsOf, Rows
  <2>9. \A j \in Items : status'[j] = status[j] \/ Later(j, clock)' = {}
    BY <2>3, <2>8 DEF TypeOK
  <2> QED BY <2>6, <2>9, QuietIsKept
<1>4. ASSUME NEW c \in Calls, Decide(c) PROVE DecidedItemsAreQuiet'
  <2>1. PICK i \in Items : i = call[c].item
    BY <1>4 DEF CallsNameItems, Decide, At
  <2>2. PICK now \in call[c].began..clock : notes' = Drop(Later(i, now))
    BY <1>4, <2>1 DEF Decide
  <2>3. status' = [status EXCEPT ![i] = "DECIDED"] /\ clock' = clock
    BY <1>4, <2>1 DEF Decide
  <2>4. now <= clock /\ now \in Nat /\ clock \in Nat
    BY ClockBound, CallHasType DEF TypeOK
  <2>5. QuietStep
    BY <1>0, <2>2, <2>3 DEF QuietStep, Drop, Later, RowsOf, Rows
  <2>6. ASSUME NEW n \in Notes, notes'[n] # NoNote, notes'[n].item = i
        PROVE  ~(notes'[n].at > clock)
    <3>1. notes'[n] = notes[n] /\ n \in RowsOf(i) /\ n \notin Later(i, now)
      BY <2>2, <2>6 DEF Drop, RowsOf, Rows
    <3>2. notes[n].at \in Nat /\ ~(notes[n].at > now)
      BY <1>0, <3>1 DEF Later, RowsOf, Rows, Note
    <3> QED BY <2>4, <3>1, <3>2
  <2>7. Later(i, clock)' = {}
    BY <2>3, <2>6 DEF Later, RowsOf, Rows
  <2>8. \A j \in Items : status'[j] = status[j] \/ Later(j, clock)' = {}
    BY <2>3, <2>7 DEF TypeOK
  <2> QED BY <2>5, <2>8, QuietIsKept
<1>5. ASSUME NEW c \in Calls, Delay(c) PROVE DecidedItemsAreQuiet'
  <2> DEFINE i == call[c].item
             at == call[c].began + call[c].wait
  <2>1. PICK now \in call[c].began..clock :
           /\ CanDecide(i, TRUE, now)
           /\ IF Later(i, now) # {}
              THEN notes' = Move(Later(i, now), at)
              ELSE \E n \in FreeNotes : notes' = [notes EXCEPT ![n] = NewNote(i, at)]
    BY <1>5 DEF Delay
  <2>2. status' = status /\ clock' = clock /\ status[i] = "WAITING"
    BY <1>5, <2>1 DEF Delay, CanDecide, StillWaiting
  <2>3. ASSUME NEW n \in Notes, notes'[n] # notes[n]
        PROVE  notes'[n] # NoNote => notes'[n].item = i
    BY <1>0, <2>1, <2>3 DEF Move, Later, RowsOf, Rows, Note, NewNote, FreeNotes
  <2>4. i \in Items
    BY <1>5 DEF CallsNameItems, Delay, At
  <2>5. QuietStep
    BY <2>2, <2>3, <2>4 DEF QuietStep, Later, RowsOf, Rows
  <2> QED BY <2>2, <2>5, QuietIsKept
<1>6. ASSUME NEW S \in SUBSET Rows, notes' = MarkRead(S), UNCHANGED <<status, clock>>
      PROVE  DecidedItemsAreQuiet'
  <2>1. QuietStep
    BY <1>0, <1>6 DEF QuietStep, MarkRead, Later, RowsOf, Rows, Note
  <2> QED BY <1>6, <2>1, QuietIsKept
<1>7. ASSUME NEW n \in Notes, DeleteNotification(n) PROVE DecidedItemsAreQuiet'
  <2>1. QuietStep
    BY <1>0, <1>7 DEF QuietStep, DeleteNotification, Drop, Later, RowsOf, Rows
  <2> QED BY <1>7, <2>1, QuietIsKept DEF DeleteNotification, itemVars
<1>8. CASE Tick
  <2>1. QuietStep
    BY <1>0, <1>8, ClockBound
       DEF QuietStep, Tick, itemVars, Later, RowsOf, Rows, Note, TypeOK
  <2> QED BY <1>8, <2>1, QuietIsKept DEF Tick, itemVars
<1>9. CASE UNCHANGED <<status, clock, notes>>
  BY <1>9 DEF DecidedItemsAreQuiet, Later, RowsOf, Rows
<1> QED
  BY <1>1, <1>2, <1>3, <1>4, <1>5, <1>6, <1>7, <1>8, <1>9
     DEF Next, ReadForUpdate, ReadForDelete, ReadForDecision, Abort,
         MarkAllNotificationsRead, MarkNotificationRead, vars, itemVars

(* A step that does not concern item i: no row of it comes or moves, and   *)
(* none goes while the item waits, unless the user removed it.             *)
Spares(i) ==
    /\ waitUntil'[i] = waitUntil[i]
    /\ clock <= clock' /\ written[i] <= written'[i] /\ written'[i] <= clock'
    /\ \/ status'[i] = status[i]
       \/ /\ status'[i] \notin {"none", "WAITING"}
          /\ \A n \in RowsOf(i)' : ~(notes'[n].at > written'[i])
    /\ \A n \in RowsOf(i)' : n \in RowsOf(i) /\ notes'[n].at = notes[n].at
    /\ i \notin excused' => i \notin excused
    /\ status'[i] = "WAITING" /\ i \notin excused' =>
          \A n \in RowsOf(i) : notes[n].at = waitUntil[i] => n \in RowsOf(i)'

LEMMA SparedStaysOK ==
    ASSUME TypeOK, TypeOK', NEW i \in Items, RemindersOK(i), Spares(i)
    PROVE  RemindersOK(i)'
<1>1. /\ clock \in Nat /\ clock' \in Nat /\ clock <= clock'
      /\ written[i] \in Nat /\ written'[i] \in Nat /\ written[i] <= written'[i]
      /\ written'[i] <= clock'
  BY ClockBound DEF TypeOK, Spares
<1>2. \A n \in RowsOf(i)' : /\ n \in RowsOf(i) /\ notes'[n].at = notes[n].at
                            /\ notes[n].at \in Nat
  BY RowsHaveTimes DEF Spares, RowsOf
<1>3. waitUntil'[i] = waitUntil[i] /\ waitUntil[i] \in Nat
  BY DEF Spares, TypeOK
<1>4. status'[i] = "none" => RowsOf(i)' = {}
  BY <1>2 DEF Spares, RemindersOK
<1>5. \A n \in RowsOf(i)' :
         /\ notes'[n].at <= waitUntil'[i]
         /\ notes'[n].at > written'[i] => notes'[n].at = waitUntil'[i]
  BY <1>1, <1>2, <1>3 DEF RemindersOK
<1>6. \A m, n \in RowsOf(i)' :
         notes'[m].at > written'[i] /\ notes'[n].at > written'[i] => m = n
  BY <1>1, <1>2 DEF RemindersOK
<1>8. status'[i] # "WAITING" => \A n \in RowsOf(i)' : ~(notes'[n].at > written'[i])
  BY <1>1, <1>2 DEF RemindersOK, Spares
<1>7. ASSUME status'[i] = "WAITING", waitUntil'[i] > clock', i \notin excused'
      PROVE  \E n \in RowsOf(i)' : notes'[n].at = waitUntil'[i]
  <2>1. status[i] = "WAITING" /\ waitUntil[i] > clock /\ i \notin excused
    BY <1>1, <1>3, <1>7 DEF Spares
  <2>2. PICK n \in RowsOf(i) : notes[n].at = waitUntil[i]
    BY <2>1 DEF RemindersOK
  <2>3. n \in RowsOf(i)'
    BY <1>7, <2>2 DEF Spares
  <2> QED BY <1>2, <1>3, <2>2, <2>3
<1> QED BY <1>1, <1>4, <1>5, <1>6, <1>7, <1>8 DEF RemindersOK

(* A new deadline that is ahead, with at most one reminder at it, and one  *)
(* unless the item is excused.                                             *)
LEMMA NewDeadlineIsOK ==
    ASSUME NEW i \in Items, clock \in Nat, waitUntil'[i] \in Nat, clock' = clock,
           waitUntil'[i] > clock, status'[i] # "none", written'[i] = clock,
           status'[i] # "WAITING" => \A n \in RowsOf(i)' : ~(notes'[n].at > clock),
           \A n \in RowsOf(i)' :
               /\ notes'[n].at \in Nat
               /\ notes'[n].at = waitUntil'[i] \/ ~(notes'[n].at > clock),
           \A m, n \in RowsOf(i)' :
               notes'[m].at > clock /\ notes'[n].at > clock => m = n,
           \/ i \in excused'
           \/ \E n \in RowsOf(i)' : notes'[n].at = waitUntil'[i]
    PROVE  RemindersOK(i)'
  BY DEF RemindersOK

(* Calls start now, and the clock waits for them.                          *)
LEMMA StepKeepsCallsRecent ==
    ASSUME JInv, [Next]_vars, TypeOK', NEW c \in Calls
    PROVE  CallIsRecent(c)'
<1> USE DEF JInv, IInv
<1>0. clock \in Nat /\ Latency \in Nat
  BY RowsHaveTimes, WaitsOutlastRequests
<1>1. CASE call' = call /\ clock' = clock
  BY <1>1 DEF CallIsRecent, At
<1>2. ASSUME NEW d \in Calls, NEW state, Reads(d, state), clock' = clock,
             state.step # "idle" =>
                /\ state.began = clock
                /\ state.step = "decide" /\ state.decision = "DELAY" =>
                      state.wait \in Waits
      PROVE  CallIsRecent(c)'
  <2>1. CASE c = d
    BY <1>0, <1>2, <2>1 DEF Reads, TypeOK, CallIsRecent, At
  <2>2. CASE c # d
    BY <1>2, <2>2 DEF Reads, TypeOK, CallIsRecent, At
  <2> QED BY <2>1, <2>2
<1>3. ASSUME NEW d \in Calls, Finish(d), clock' = clock PROVE CallIsRecent(c)'
  BY <1>2, <1>3 DEF Finish, Idle
<1>4. ASSUME NEW d \in Calls, NEW i \in Items, ReadForUpdate(d, i)
      PROVE  CallIsRecent(c)'
  <2>1. PICK wait \in Waits \cup {0} :
           Reads(d, [Idle EXCEPT !.step = "update", !.item = i,
                                 !.began = clock, !.wait = wait])
    BY <1>4 DEF ReadForUpdate
  <2> QED BY <1>2, <1>4, <2>1 DEF ReadForUpdate, Idle
<1>5. ASSUME NEW d \in Calls, NEW i \in Items, ReadForDelete(d, i)
      PROVE  CallIsRecent(c)'
  BY <1>2, <1>5 DEF ReadForDelete, Idle
<1>6. ASSUME NEW d \in Calls, NEW i \in Items, ReadForDecision(d, i)
      PROVE  CallIsRecent(c)'
  <2>1. CASE \E wait \in Waits :
           Reads(d, [Idle EXCEPT !.step = "decide", !.item = i,
                                 !.began = clock, !.wait = wait])
    <3>1. PICK wait \in Waits :
             Reads(d, [Idle EXCEPT !.step = "decide", !.item = i,
                                   !.began = clock, !.wait = wait])
      BY <2>1
    <3> QED BY <1>2, <1>6, <3>1 DEF ReadForDecision, Idle
  <2>2. CASE \E decision \in {"BUY", "SKIP"} :
           Reads(d, [Idle EXCEPT !.step = "decide", !.item = i,
                                 !.began = clock, !.decision = decision])
    <3>1. PICK decision \in {"BUY", "SKIP"} :
             Reads(d, [Idle EXCEPT !.step = "decide", !.item = i,
                                   !.began = clock, !.decision = decision])
      BY <2>2
    <3> QED BY <1>2, <1>6, <3>1 DEF ReadForDecision, Idle
  <2> QED BY <1>6, <2>1, <2>2 DEF ReadForDecision
<1>7. CASE Tick
  <2>1. call' = call /\ clock' = clock + 1
    BY <1>7 DEF Tick
  <2>2. ~At(c, "idle") => call[c].began \in Nat /\ clock < call[c].began + Latency
    BY <1>7, CallHasType, ClockBound DEF Tick
  <2>3. ~At(c, "idle") => clock' <= call[c].began + Latency
    BY <1>0, <2>1, <2>2
  <2> QED BY <2>1, <2>3 DEF CallIsRecent, At
<1> QED
  BY <1>1, <1>3, <1>4, <1>5, <1>6, <1>7
     DEF Next, CreateWishlistItem, UpdateWishlistItem, DeleteWishlistItem, Decide,
         Delay, Abort, MarkAllNotificationsRead, MarkNotificationRead,
         DeleteNotification, vars

(* The four handlers that write notifications, each for one item.          *)
LEMMA CreateKeepsReminders ==
    ASSUME JInv, TypeOK', NEW j \in Items, CreateWishlistItem(j), NEW i \in Items
    PROVE  RemindersOK(i)'
<1> USE RowsHaveTimes DEF JInv, IInv
<1>1. PICK wait \in Waits, m \in FreeNotes, n \in FreeNotes :
         /\ m # n
         /\ waitUntil' = [waitUntil EXCEPT ![j] = clock + wait]
         /\ notes' = [notes EXCEPT ![m] = NewNote(j, clock),
                                   ![n] = NewNote(j, clock + wait)]
  BY DEF CreateWishlistItem
<1>2. /\ clock \in Nat /\ wait \in Nat /\ wait > 0
      /\ m \in Notes /\ n \in Notes /\ m \notin Rows /\ n \notin Rows
  BY <1>1, WaitsOutlastRequests DEF FreeNotes
<1>3. /\ clock' = clock /\ excused' = excused /\ status[j] = "none"
      /\ status' = [status EXCEPT ![j] = "WAITING"]
      /\ written' = [written EXCEPT ![j] = clock]
  BY DEF CreateWishlistItem, Writes
<1>4. \A k \in Notes : notes'[k] = IF k = n THEN NewNote(j, clock + wait)
                                   ELSE IF k = m THEN NewNote(j, clock)
                                   ELSE notes[k]
  BY <1>1, <1>2
<1>5. CASE i = j
  <2>1. RowsOf(i) = {}
    BY <1>3, <1>5 DEF RemindersOK
  <2>2. RowsOf(i)' = {m, n}
    <3>1. NewNote(j, clock) # NoNote /\ NewNote(j, clock + wait) # NoNote
      BY <1>2, NewNoteHasType
    <3> QED BY <1>2, <1>4, <1>5, <2>1, <3>1 DEF RowsOf, Rows, NewNote
  <2>3. /\ waitUntil'[i] = clock + wait /\ status'[i] = "WAITING"
        /\ written'[i] = clock
        /\ notes'[m].at = clock /\ notes'[n].at = clock + wait
    BY <1>1, <1>2, <1>3, <1>4, <1>5 DEF NewNote, TypeOK
  <2> QED BY <1>2, <1>3, <2>2, <2>3 DEF RemindersOK
<1>6. CASE i # j
  <2>1. RowsOf(i)' = RowsOf(i) /\ \A k \in RowsOf(i) : notes'[k] = notes[k]
    BY <1>2, <1>4, <1>6 DEF RowsOf, Rows, NewNote
  <2>2. /\ waitUntil'[i] = waitUntil[i] /\ status'[i] = status[i]
        /\ written'[i] = written[i]
    BY <1>1, <1>3, <1>6 DEF TypeOK
  <2>3. Spares(i)
    BY <1>2, <1>3, <2>1, <2>2 DEF Spares, RemindersOK
  <2> QED BY <2>3, SparedStaysOK
<1> QED BY <1>5, <1>6

LEMMA UpdateKeepsReminders ==
    ASSUME JInv, TypeOK', NEW c \in Calls, UpdateWishlistItem(c), NEW i \in Items
    PROVE  RemindersOK(i)'
<1> USE RowsHaveTimes DEF JInv, IInv
<1>1. PICK j \in Items : j = call[c].item
  BY DEF CallsNameItems, UpdateWishlistItem, At
<1>2. /\ clock' = clock /\ status' = status /\ Exists(j) /\ ~At(c, "idle")
      /\ written' = [written EXCEPT ![j] = clock]
  BY <1>1 DEF UpdateWishlistItem, At, Writes
<1>3. /\ written'[j] = clock /\ i # j => written'[i] = written[i]
      /\ written[i] <= written'[i] /\ written'[i] <= clock
  BY <1>2 DEF RemindersOK, TypeOK
<1>4. CASE UNCHANGED <<waitUntil, notes, excused>>
  <2>1. Spares(i)
    BY <1>2, <1>3, <1>4 DEF Spares, RowsOf, Rows
  <2> QED BY <2>1, SparedStaysOK
<1>5. CASE call[c].wait # 0
  <2>1. PICK at \in Nat : at = call[c].began + call[c].wait /\ at > clock
    BY <1>2, <1>5, DeadlinesAreAhead
  <2>2. PICK now \in call[c].began..clock :
           /\ written[j] <= now
           /\ waitUntil' = [waitUntil EXCEPT ![j] = at]
           /\ notes' = Move(Later(j, now), at)
           /\ excused' = IF Later(j, now) = {} THEN excused \cup {j} ELSE excused
    BY <1>1, <1>5, <2>1 DEF UpdateWishlistItem, UpdatedNotes
  <2>3. \A k : RowsOf(k)' = RowsOf(k)
    BY <2>2 DEF Move, Later, RowsOf, Rows, Note
  <2>4. \A n \in Rows : notes'[n].at = IF n \in Later(j, now) THEN at ELSE notes[n].at
    BY <2>2 DEF Move, Rows, Note
  <2>5. CASE i = j
    <3>1. waitUntil'[i] = at /\ status'[i] # "none" /\ written'[i] = clock
      BY <1>2, <1>3, <2>2, <2>5 DEF Exists, TypeOK
    <3>2. /\ \A n \in RowsOf(i) : n \in Rows
          /\ \A n \in Later(j, now) : n \in RowsOf(i) /\ notes[n].at > written[i]
          /\ \A n \in RowsOf(i) : n \notin Later(j, now) => ~(notes[n].at > clock)
      BY <2>2, <2>5, UpdatesComeAfter DEF RowsOf
    <3>3. \A n \in RowsOf(i)' :
             /\ notes'[n].at \in Nat
             /\ notes'[n].at = at \/ ~(notes'[n].at > clock)
      BY <2>3, <2>4, <3>2
    <3>4. \A m, n \in RowsOf(i)' :
             notes'[m].at > clock /\ notes'[n].at > clock => m = n
      BY <2>3, <2>4, <3>2 DEF RemindersOK
    <3>5. i \in excused' \/ \E n \in RowsOf(i)' : notes'[n].at = at
      BY <2>2, <2>3, <2>4, <2>5, <3>2
    <3>6. status'[i] # "WAITING" => \A n \in RowsOf(i)' : ~(notes'[n].at > clock)
      BY <1>2, <2>3, <2>4, <3>2 DEF RemindersOK
    <3> QED BY <1>2, <2>1, <3>1, <3>3, <3>4, <3>5, <3>6, NewDeadlineIsOK
  <2>6. CASE i # j
    <3>1. \A n \in RowsOf(i) : n \in Rows /\ n \notin Later(j, now)
      BY <2>6 DEF Later, RowsOf
    <3>2. Spares(i)
      BY <1>2, <1>3, <2>2, <2>3, <2>4, <2>6, <3>1 DEF Spares, TypeOK
    <3> QED BY <3>2, SparedStaysOK
  <2> QED BY <2>5, <2>6
<1> QED BY <1>4, <1>5 DEF UpdateWishlistItem

(* A wait that is over has no reminder ahead, so that a delay makes one.   *)
LEMMA DelayMakesReminder ==
    ASSUME JInv, NEW c \in Calls, Delay(c)
    PROVE  \E j \in Items, n \in FreeNotes, at \in Nat :
              /\ j = call[c].item /\ at > clock /\ status[j] = "WAITING"
              /\ notes' = [notes EXCEPT ![n] = NewNote(j, at)]
              /\ waitUntil' = [waitUntil EXCEPT ![j] = at]
              /\ waitUntil[j] <= clock
<1> USE RowsHaveTimes DEF JInv, IInv
<1>1. PICK j \in Items : j = call[c].item
  BY DEF CallsNameItems, Delay, At
<1>2. call[c].wait \in Waits /\ ~At(c, "idle")
  BY DEF Delay, CallIsRecent, At
<1>3. PICK at \in Nat : at = call[c].began + call[c].wait /\ at > clock
  BY <1>2, DeadlinesAreAhead, WaitsOutlastRequests
<1>4. PICK now \in call[c].began..clock :
         /\ CanDecide(j, TRUE, now)
         /\ IF Later(j, now) # {}
            THEN notes' = Move(Later(j, now), at)
            ELSE \E n \in FreeNotes : notes' = [notes EXCEPT ![n] = NewNote(j, at)]
  BY <1>1, <1>3 DEF Delay
<1>5. now \in Nat /\ now <= clock /\ waitUntil[j] <= now /\ waitUntil[j] \in Nat
  BY <1>4, CallHasType, ClockBound DEF CanDecide, TypeOK
<1>6. Later(j, now) = {}
  BY <1>5 DEF RemindersOK, Later, RowsOf
<1>7. waitUntil[j] <= clock
  BY <1>5
<1> QED BY <1>1, <1>3, <1>4, <1>6, <1>7 DEF CanDecide, StillWaiting, Delay

LEMMA DelayKeepsReminders ==
    ASSUME JInv, TypeOK', NEW c \in Calls, Delay(c), NEW i \in Items
    PROVE  RemindersOK(i)'
<1> USE RowsHaveTimes DEF JInv, IInv
<1>1. PICK j \in Items, n \in FreeNotes, at \in Nat :
         /\ j = call[c].item /\ at > clock /\ status[j] = "WAITING"
         /\ notes' = [notes EXCEPT ![n] = NewNote(j, at)]
         /\ waitUntil' = [waitUntil EXCEPT ![j] = at]
         /\ waitUntil[j] <= clock
  BY DelayMakesReminder
<1>2. /\ clock' = clock /\ status' = status /\ excused' = excused \ {j}
      /\ written' = [written EXCEPT ![j] = clock]
  BY <1>1 DEF Delay, Writes
<1>3. n \in Notes /\ n \notin Rows /\ NewNote(j, at) # NoNote
  BY <1>1, NewNoteHasType DEF FreeNotes
<1>4. \A k \in Notes : notes'[k] = IF k = n THEN NewNote(j, at) ELSE notes[k]
  BY <1>1, <1>3
<1>5. CASE i = j
  <2>1. RowsOf(i)' = RowsOf(i) \cup {n}
    BY <1>3, <1>4, <1>5 DEF RowsOf, Rows, NewNote
  <2>2. notes'[n].at = at /\ waitUntil'[i] = at /\ waitUntil[i] \in Nat
    BY <1>1, <1>3, <1>4, <1>5 DEF NewNote, TypeOK
  <2>3. \A k \in RowsOf(i) : /\ notes'[k] = notes[k] /\ notes[k].at \in Nat
                             /\ notes[k].at <= waitUntil[i]
    BY <1>3, <1>4 DEF RemindersOK, RowsOf, Rows
  <2>4. \A k \in RowsOf(i) : notes'[k].at \in Nat /\ ~(notes'[k].at > clock)
    BY <1>1, <1>5, <2>2, <2>3
  <2>5. written'[i] = clock
    BY <1>2, <1>5 DEF TypeOK
  <2> QED BY <1>1, <1>2, <1>5, <2>1, <2>2, <2>4, <2>5, NewDeadlineIsOK
<1>6. CASE i # j
  <2>1. RowsOf(i)' = RowsOf(i) /\ \A k \in RowsOf(i) : notes'[k] = notes[k]
    BY <1>3, <1>4, <1>6 DEF RowsOf, Rows, NewNote
  <2>2. Spares(i)
    BY <1>1, <1>2, <1>6, <2>1 DEF Spares, RemindersOK, TypeOK
  <2> QED BY <2>2, SparedStaysOK
<1> QED BY <1>5, <1>6

LEMMA DeleteKeepsReminders ==
    ASSUME JInv, TypeOK', NEW c \in Calls, DeleteWishlistItem(c), NEW i \in Items
    PROVE  RemindersOK(i)'
<1> USE RowsHaveTimes DEF JInv, IInv
<1>1. PICK j \in Items : j = call[c].item
  BY DEF CallsNameItems, DeleteWishlistItem, At
<1>2. PICK now \in call[c].began..clock :
         notes' = [n \in Notes |->
                     IF n \in Later(j, now) THEN NoNote
                     ELSE IF n \in RowsOf(j) THEN [notes[n] EXCEPT !.item = NoItem]
                     ELSE notes[n]]
  BY <1>1 DEF DeleteWishlistItem
<1>3. /\ clock' = clock /\ excused' = excused /\ waitUntil' = waitUntil
      /\ status' = [status EXCEPT ![j] = "deleted"]
      /\ written' = [written EXCEPT ![j] = clock]
  BY <1>1 DEF DeleteWishlistItem, Writes
<1>4. ASSUME NEW n \in RowsOf(i)'
      PROVE  n \in RowsOf(i) /\ notes'[n].at = notes[n].at /\ i # j
  <2>1. n \in Notes /\ notes'[n] # NoNote /\ notes'[n].item = i /\ i # NoItem
    BY <1>4, NoItemIsNew DEF RowsOf, Rows
  <2>2. n \notin RowsOf(j)
    BY <1>2, <2>1 DEF RowsOf, Rows, Note
  <2> QED BY <1>2, <2>1, <2>2 DEF RowsOf, Rows, Later
<1>5. CASE i = j
  <2>1. Spares(i)
    BY <1>3, <1>4, <1>5 DEF Spares, RemindersOK, TypeOK
  <2> QED BY <2>1, SparedStaysOK
<1>6. CASE i # j
  <2>1. RowsOf(i) \subseteq RowsOf(i)'
    BY <1>2, <1>6 DEF RowsOf, Rows, Later
  <2>2. Spares(i)
    BY <1>3, <1>4, <1>6, <2>1 DEF Spares, RemindersOK, TypeOK
  <2> QED BY <2>2, SparedStaysOK
<1> QED BY <1>5, <1>6

LEMMA DecideKeepsReminders ==
    ASSUME JInv, TypeOK', NEW c \in Calls, Decide(c), NEW i \in Items
    PROVE  RemindersOK(i)'
<1> USE RowsHaveTimes DEF JInv, IInv
<1>1. PICK j \in Items : j = call[c].item
  BY DEF CallsNameItems, Decide, At
<1>2. PICK now \in call[c].began..clock : notes' = Drop(Later(j, now))
  BY <1>1 DEF Decide
<1>3. /\ clock' = clock /\ excused' = excused /\ waitUntil' = waitUntil
      /\ status' = [status EXCEPT ![j] = "DECIDED"]
      /\ written' = [written EXCEPT ![j] = clock]
  BY <1>1 DEF Decide, Writes
<1>4. \A n \in RowsOf(i)' : n \in RowsOf(i) /\ notes'[n] = notes[n]
  BY <1>2 DEF Drop, RowsOf, Rows
<1>7. i = j => \A n \in RowsOf(i)' : ~(notes'[n].at > clock)
  <2>1. now \in Nat /\ now <= clock
    BY InstantsArePast
  <2> QED BY <1>2, <1>4, <2>1 DEF Drop, Later, RowsOf, Rows
<1>5. i # j => RowsOf(i) \subseteq RowsOf(i)'
  BY <1>2 DEF Drop, RowsOf, Rows, Later
<1>6. Spares(i)
  <2>1. written[i] <= written'[i] /\ written'[i] <= clock /\ clock <= clock'
    BY <1>3 DEF RemindersOK, TypeOK
  <2>2. CASE i = j
    <3>1. written'[i] = clock /\ status'[i] = "DECIDED"
      BY <1>3, <2>2 DEF TypeOK
    <3> QED BY <1>3, <1>4, <1>7, <2>1, <2>2, <3>1 DEF Spares
  <2>3. CASE i # j
    BY <1>3, <1>4, <1>5, <2>1, <2>3 DEF Spares, TypeOK
  <2> QED BY <2>2, <2>3
<1> QED BY <1>6, SparedStaysOK

LEMMA StepKeepsReminders ==
    ASSUME JInv, [Next]_vars, TypeOK', NEW i \in Items
    PROVE  RemindersOK(i)'
<1> USE RowsHaveTimes DEF JInv, IInv
<1>1. ASSUME NEW S \in SUBSET Rows, notes' = MarkRead(S),
             UNCHANGED <<clock, status, waitUntil, written, excused>>
      PROVE  RemindersOK(i)'
  <2>1. RowsOf(i)' = RowsOf(i) /\ \A n \in RowsOf(i) : notes'[n].at = notes[n].at
    BY <1>1 DEF MarkRead, RowsOf, Rows, Note
  <2>2. Spares(i)
    BY <1>1, <2>1 DEF Spares, RemindersOK
  <2> QED BY <2>2, SparedStaysOK
<1>2. CASE MarkAllNotificationsRead
  BY <1>1, <1>2 DEF MarkAllNotificationsRead, itemVars
<1>3. ASSUME NEW n \in Notes, MarkNotificationRead(n) PROVE RemindersOK(i)'
  BY <1>1, <1>3 DEF MarkNotificationRead, itemVars
<1>4. ASSUME NEW n \in Notes, DeleteNotification(n) PROVE RemindersOK(i)'
  <2>1. \A k \in RowsOf(i)' : k \in RowsOf(i) /\ notes'[k] = notes[k]
    BY <1>4 DEF DeleteNotification, Drop, RowsOf, Rows
  <2>2. i \notin excused' =>
           i \notin excused /\ (n \in RowsOf(i) => notes[n].at # waitUntil[i])
    BY <1>4 DEF DeleteNotification, RowsOf, Rows
  <2>3. \A k \in RowsOf(i) : k # n => k \in RowsOf(i)'
    BY <1>4 DEF DeleteNotification, Drop, RowsOf, Rows
  <2>4. UNCHANGED <<clock, status, waitUntil, written>>
    BY <1>4 DEF DeleteNotification, itemVars
  <2>5. Spares(i)
    BY <2>1, <2>2, <2>3, <2>4 DEF Spares, RemindersOK
  <2> QED BY <2>5, SparedStaysOK
<1>5. CASE UNCHANGED <<notes, status, waitUntil, written, excused>> /\ clock <= clock'
  <2>1. clock' \in Nat
    BY ClockBound DEF TypeOK
  <2>2. Spares(i)
    BY <1>5, <2>1 DEF Spares, RemindersOK, RowsOf, Rows
  <2> QED BY <2>2, SparedStaysOK
<1>6. CASE Tick
  BY <1>5, <1>6 DEF Tick, itemVars
<1>7. ASSUME NEW c \in Calls, NEW j \in Items,
             \/ ReadForUpdate(c, j) \/ ReadForDelete(c, j)
             \/ ReadForDecision(c, j) \/ Abort(c)
      PROVE  RemindersOK(i)'
  <2>1. UNCHANGED <<notes, status, waitUntil, written, excused, clock>>
    BY <1>7 DEF ReadForUpdate, ReadForDelete, ReadForDecision, Abort, itemVars
  <2> QED BY <1>5, <2>1
<1>8. CASE UNCHANGED vars
  BY <1>5, <1>8 DEF vars, itemVars
<1> QED
  BY <1>2, <1>3, <1>4, <1>6, <1>7, <1>8, CreateKeepsReminders, UpdateKeepsReminders,
     DelayKeepsReminders, DeleteKeepsReminders, DecideKeepsReminders DEF Next

LEMMA StepPreservesJInv == JInv /\ [Next]_vars => JInv'
<1> SUFFICES ASSUME JInv, [Next]_vars PROVE JInv'
  OBVIOUS
<1>1. IInv'
  BY StepPreservesTypes, StepPreservesNames, StepPreservesRecords, StepPreservesQuiet
     DEF JInv, IInv
<1>2. TypeOK'
  BY <1>1 DEF IInv
<1> QED BY <1>1, <1>2, StepKeepsCallsRecent, StepKeepsReminders DEF JInv

LEMMA JInvIsInvariant == Spec => []JInv
  BY InitEstablishesJInv, StepPreservesJInv, PTL DEF Spec

-----------------------------------------------------------------------------
(* Items, calls and notifications are well typed in every state, whatever  *)
(* createWishlistItem, the updates and the decisions do.                   *)
THEOREM TypeCorrect == Spec => []TypeOK
<1>1. JInv => TypeOK
  BY DEF JInv, IInv
<1> QED BY <1>1, JInvIsInvariant, PTL

(* However many decisions on one item race, createWishlistDecision makes   *)
(* one consumption record of it, and none before it is decided.            *)
THEOREM DecidedOnce == Spec => []OneRecordPerItem
<1>1. JInv => OneRecordPerItem
  BY DEF JInv, IInv
<1> QED BY <1>1, JInvIsInvariant, PTL

(* No update, delay or deletion leaves a reminder of an item that is       *)
(* decided or deleted, although each computed its times before.            *)
THEOREM DecidedStayQuiet == Spec => []DecidedItemsAreQuiet
<1>1. JInv => DecidedItemsAreQuiet
  BY DEF JInv, IInv
<1> QED BY <1>1, JInvIsInvariant, PTL

(* Whatever updates and delays do, each item has one reminder ahead at     *)
(* most, and at its own deadline.                                          *)
THEOREM RemindersAtDeadline == Spec => []ReminderAtDeadline
<1>1. JInv => ReminderAtDeadline
  <2> SUFFICES ASSUME JInv, NEW i \in Items
               PROVE  /\ Cardinality(Later(i, clock)) <= 1
                      /\ \A n \in Later(i, clock) : notes[n].at = waitUntil[i]
    BY DEF ReminderAtDeadline
  <2>0. \A n \in Later(i, clock) : n \in RowsOf(i) /\ notes[n].at > written[i]
    BY RowsHaveTimes DEF JInv, IInv, RemindersOK, Later, RowsOf
  <2>1. \A n \in Later(i, clock) : notes[n].at = waitUntil[i]
    BY <2>0 DEF JInv, RemindersOK
  <2>2. CASE Later(i, clock) = {}
    BY <2>1, <2>2, FS_EmptySet
  <2>3. ASSUME NEW n \in Later(i, clock) PROVE Cardinality(Later(i, clock)) <= 1
    <3>1. Later(i, clock) = {n}
      BY <2>0, <2>3 DEF JInv, RemindersOK
    <3> QED BY <3>1, FS_Singleton
  <2> QED BY <2>1, <2>2, <2>3
<1> QED BY <1>1, JInvIsInvariant, PTL

(* A waiting item is asked about at its deadline, unless its user removed  *)
(* the reminder or restarted a wait that was over.                         *)
THEOREM WaitsAreAsked == Spec => []EveryWaitIsAsked
<1>1. JInv => EveryWaitIsAsked
  BY DEF JInv, RemindersOK, EveryWaitIsAsked
<1> QED BY <1>1, JInvIsInvariant, PTL

(* Only an update moves a reminder that is due, and only one that fell due *)
(* since the update began: a delay finds none.                             *)
MovedByUpdate(n) ==
    \E c \in Calls : /\ At(c, "update") /\ call[c].item = notes[n].item
                     /\ call[c].began < notes[n].at

LEMMA StepKeepsDue ==
    ASSUME JInv, [Next]_vars, NEW n \in Due, notes'[n] # NoNote, notes'[n].at > clock
    PROVE  MovedByUpdate(n)
<1> USE RowsHaveTimes DEF JInv, IInv
<1>1. n \in Rows /\ n \in Notes /\ n \notin FreeNotes /\ ~(notes[n].at > clock)
  BY DEF Due, Rows, FreeNotes
<1>2. notes'[n].at # notes[n].at
  BY <1>1
<1>3. ASSUME NEW j \in Items, CreateWishlistItem(j) PROVE FALSE
  <2>1. notes'[n] = notes[n]
    BY <1>1, <1>3 DEF CreateWishlistItem
  <2> QED BY <1>2, <2>1
<1>4. ASSUME NEW c \in Calls, UpdateWishlistItem(c) PROVE MovedByUpdate(n)
  <2>1. PICK now \in call[c].began..clock :
           n \in Later(call[c].item, now)
    BY <1>1, <1>2, <1>4 DEF UpdateWishlistItem, UpdatedNotes, Move
  <2>2. /\ now \in Nat /\ call[c].began \in Nat /\ call[c].began <= now
        /\ notes[n].at \in Nat /\ notes[n].at > now /\ notes[n].item = call[c].item
    BY <1>1, <2>1, CallHasType, ClockBound DEF Later, RowsOf, TypeOK
  <2>3. call[c].began < notes[n].at
    BY <2>2
  <2> QED BY <1>4, <2>2, <2>3 DEF MovedByUpdate, UpdateWishlistItem
<1>5. ASSUME NEW c \in Calls, Delay(c) PROVE FALSE
  <2>1. PICK j \in Items, m \in FreeNotes, at \in Nat :
           notes' = [notes EXCEPT ![m] = NewNote(j, at)]
    BY <1>5, DelayMakesReminder
  <2> QED BY <1>1, <1>2, <2>1
<1>6. ASSUME NEW c \in Calls, DeleteWishlistItem(c) PROVE FALSE
  <2>1. notes'[n] \in {notes[n], [notes[n] EXCEPT !.item = NoItem]}
    BY <1>1, <1>6 DEF DeleteWishlistItem
  <2> QED BY <1>1, <1>2, <2>1 DEF Note
<1>7. ASSUME NEW S, notes' = Drop(S) PROVE FALSE
  BY <1>1, <1>2, <1>7 DEF Drop
<1>8. ASSUME NEW S, notes' = MarkRead(S) PROVE FALSE
  BY <1>1, <1>2, <1>8 DEF MarkRead, Note
<1> QED
  BY <1>2, <1>3, <1>4, <1>5, <1>6, <1>7, <1>8
     DEF Next, ReadForUpdate, ReadForDelete, ReadForDecision, Decide, Abort,
         MarkAllNotificationsRead, MarkNotificationRead, DeleteNotification, Tick, vars

(* No handler takes back to the future what listNotifications had shown    *)
(* before it started; an update may, if it became due while it ran.        *)
THEOREM ShownStaysShown == Spec => DueStaysDue
<1>1. JInv /\ [Next]_vars =>
         [\A n \in Due : notes'[n] # NoNote /\ notes'[n].at > clock
              => \E c \in Calls : /\ At(c, "update")
                                  /\ call[c].item = notes[n].item
                                  /\ call[c].began < notes[n].at]_vars
  BY StepKeepsDue DEF MovedByUpdate
<1> QED BY <1>1, JInvIsInvariant, PTL DEF Spec, DueStaysDue

-----------------------------------------------------------------------------
(* The import.  Two facts about finite sets come first.                    *)

(* A collection of finite sets has a member that contains no other. *)
LEMMA SmallestMember ==
    ASSUME NEW S, IsFiniteSet(S), NEW B, B \subseteq SUBSET S, B # {}
    PROVE  \E m \in B : \A x \in B : x \subseteq m => x = m
<1>1. IsWellFoundedOn(StrictSubsetOrdering(S), FiniteSubsetsOf(S))
  BY FS_StrictSubsetOrderingWellFounded
<1>2. B \subseteq FiniteSubsetsOf(S)
  BY FS_FiniteSubsetsOfFinite
<1>3. \E m \in B : \A x \in B : ~ (<<x, m>> \in StrictSubsetOrdering(S))
  BY <1>1, <1>2, WFMin
<1>4. PICK m \in B : \A x \in B : ~ (<<x, m>> \in StrictSubsetOrdering(S))
  BY <1>3
<1>5. ASSUME NEW x \in B, x \subseteq m PROVE x = m
  BY <1>4, <1>5 DEF StrictSubsetOrdering
<1> QED BY <1>5

(* A set of numbers has a least one.                                       *)
LEMMA LeastNatural ==
    ASSUME NEW S \in SUBSET Nat, S # {}
    PROVE  \E x \in S : \A y \in S : x <= y
<1>1. PICK n \in S : TRUE
  OBVIOUS
<1> DEFINE I == 0..n
           B == {0..x : x \in {y \in S : y <= n}}
<1>2. IsFiniteSet(I)
  BY FS_Interval
<1>3. PICK m \in B : \A x \in B : x \subseteq m => x = m
  <2>1. B \subseteq SUBSET I
    OBVIOUS
  <2>2. 0..n \in B
    BY <1>1
  <2>3. B # {}
    BY <2>2
  <2> HIDE DEF B, I
  <2> QED BY <1>2, <2>1, <2>3, SmallestMember
<1>4. PICK x \in S : x <= n /\ m = 0..x
  OBVIOUS
<1>5. ASSUME NEW y \in S, ~(x <= y) PROVE FALSE
  <2>1. 0..y \in B /\ 0..y \subseteq m /\ x \notin 0..y /\ x \in m
    BY <1>4, <1>5
  <2> HIDE DEF B
  <2> QED BY <1>3, <2>1
<1> QED BY <1>5

-----------------------------------------------------------------------------
(* Trees in preorder. *)

(* Node m is n or in its subtree. *)
Within(t, n, m) == n <= m /\ \A k \in n + 1 .. m : t[k].depth > t[n].depth

ChildrenOf(t, n) ==
    {m \in n + 1 .. Len(t) : /\ t[m].depth = t[n].depth + 1
                             /\ \A k \in n + 1 .. m : t[k].depth > t[n].depth}

(* What the shape of a page says of its depths.                            *)
LEMMA TreesHaveDepths ==
    ASSUME NEW t \in Seq(Nodes), IsTree(t)
    PROVE  /\ Len(t) \in Nat /\ DOMAIN t = 1..Len(t)
           /\ \A n \in 1..Len(t) : t[n].depth \in Nat
           /\ \A n \in 2..Len(t) : t[n].depth >= 1 /\ t[n].depth <= t[n - 1].depth + 1
<1>1. Len(t) \in Nat /\ DOMAIN t = 1..Len(t) /\ \A n \in 1..Len(t) : t[n] \in Nodes
  OBVIOUS
<1>2. \A n \in 1..Len(t) : t[n].depth \in Nat
  BY <1>1 DEF Nodes
<1>3. \A n \in 2..Len(t) : n - 1 \in 1..Len(t)
  BY <1>1
<1> QED BY <1>1, <1>2, <1>3 DEF IsTree

(* What is below a node is within one of its children, and the first of    *)
(* them comes next.                                                        *)
LEMMA BelowIsWithinChild ==
    ASSUME NEW t \in Seq(Nodes), IsTree(t), NEW n \in 1..Len(t),
           NEW m \in n + 1 .. Len(t), Within(t, n, m)
    PROVE  /\ n + 1 \in ChildrenOf(t, n)
           /\ \E c \in ChildrenOf(t, n) : Within(t, c, m)
<1>0. /\ Len(t) \in Nat /\ \A k \in 1..Len(t) : t[k].depth \in Nat
      /\ \A k \in 2..Len(t) : t[k].depth >= 1 /\ t[k].depth <= t[k - 1].depth + 1
  BY TreesHaveDepths
<1>1. n + 1 \in ChildrenOf(t, n)
  <2>1. n + 1 \in n + 1 .. m /\ n + 1 \in 2..Len(t) /\ n + 1 - 1 = n
    OBVIOUS
  <2>2. t[n + 1].depth > t[n].depth
    BY <2>1 DEF Within
  <2>3. t[n + 1].depth <= t[n].depth + 1
    BY <1>0, <2>1
  <2>4. t[n + 1].depth = t[n].depth + 1
    BY <1>0, <2>1, <2>2, <2>3
  <2>5. \A k \in n + 1 .. n + 1 : k = n + 1
    OBVIOUS
  <2>6. n + 1 \in n + 1 .. Len(t)
    OBVIOUS
  <2> QED BY <2>2, <2>4, <2>5, <2>6 DEF ChildrenOf
<1> DEFINE Under(x) == \E c \in ChildrenOf(t, n) : Within(t, c, x)
           B == {x \in n + 1 .. Len(t) : Within(t, n, x) /\ ~Under(x)}
<1>2. m \notin B
  <2> SUFFICES ASSUME m \in B PROVE FALSE
    OBVIOUS
  <2>0. B \in SUBSET Nat
    OBVIOUS
  <2>1. PICK x \in B : \A y \in B : x <= y
    <3>1. B # {}
      OBVIOUS
    <3> HIDE DEF B
    <3> QED BY <2>0, <3>1, LeastNatural
  <2>2. x \in n + 1 .. Len(t) /\ Within(t, n, x) /\ ~Under(x)
    BY <2>1
  <2>3. CASE t[x].depth = t[n].depth + 1
    <3>1. x \in ChildrenOf(t, n)
      BY <2>2, <2>3 DEF ChildrenOf, Within
    <3>2. Within(t, x, x)
      BY <2>2 DEF Within
    <3> QED BY <2>2, <3>1, <3>2
  <2>4. CASE t[x].depth # t[n].depth + 1
    <3>1. t[x].depth > t[n].depth + 1
      <4>1. t[x].depth > t[n].depth
        BY <2>2 DEF Within
      <4> QED BY <1>0, <2>2, <2>4, <4>1
    <3>2. x # n + 1
      BY <1>1, <3>1, <1>0 DEF ChildrenOf
    <3>3. x - 1 \in n + 1 .. Len(t) /\ x - 1 < x
      BY <2>2, <3>2
    <3>4. Within(t, n, x - 1)
      BY <2>2, <3>3 DEF Within
    <3>5. Under(x - 1)
      BY <2>1, <3>3, <3>4
    <3>6. PICK c \in ChildrenOf(t, n) : Within(t, c, x - 1)
      BY <3>5
    <3>7. c \in n + 1 .. Len(t) /\ t[c].depth = t[n].depth + 1
      BY DEF ChildrenOf
    <3>8. c <= x - 1 /\ \A k \in c + 1 .. x - 1 : t[k].depth > t[c].depth
      BY <3>6 DEF Within
    <3>9. \A k \in c + 1 .. x : t[k].depth > t[c].depth
      <4>1. \A k \in c + 1 .. x : k \in c + 1 .. x - 1 \/ k = x
        BY <3>7, <2>2
      <4> QED BY <3>1, <3>7, <3>8, <4>1
    <3>10. Within(t, c, x)
      BY <2>2, <3>7, <3>8, <3>9 DEF Within
    <3> QED BY <2>2, <3>10
  <2> QED BY <2>3, <2>4
<1> QED BY <1>1, <1>2

(* The children in their order: there is such a sequence, and it has them  *)
(* all.                                                                    *)
Increasing(s) == \A i, j \in DOMAIN s : i < j => s[i] < s[j]

(* Every finite set of numbers can be listed in increasing order.          *)
LEMMA SetsHaveAnOrder ==
    ASSUME NEW S \in SUBSET Nat, IsFiniteSet(S)
    PROVE  \E s \in SetToSeqs(S) : Increasing(s)
<1> DEFINE Ordered(x) == \E s \in [1..Cardinality(x) -> x] : Increasing(s)
           B == {x \in SUBSET S : ~Ordered(x)}
<1>1. B = {}
  <2> SUFFICES ASSUME B # {} PROVE FALSE
    OBVIOUS
  <2>1. B \subseteq SUBSET S
    OBVIOUS
  <2>3. PICK m \in B : \A x \in B : x \subseteq m => x = m
    <3> DEFINE F == S
    <3>1. IsFiniteSet(F) /\ B \subseteq SUBSET F
      BY <2>1
    <3> HIDE DEF B, F
    <3> QED BY <3>1, SmallestMember
  <2>4. m \in SUBSET S /\ IsFiniteSet(m) /\ ~Ordered(m) /\ Cardinality(m) \in Nat
    BY <2>3, FS_Subset, FS_CardinalityType
  <2>5. CASE m = {}
    <3> DEFINE s == [i \in 1..0 |-> 0]
    <3>1. Cardinality(m) = 0
      BY <2>5, FS_EmptySet
    <3>2. s \in [1..0 -> m] /\ Increasing(s)
      BY DEF Increasing
    <3> QED BY <2>4, <3>1, <3>2
  <2>6. CASE m # {}
    <3>1. PICK x \in m : \A y \in m : x <= y
      BY <2>4, <2>6, LeastNatural
    <3> DEFINE r == m \ {x}
    <3>2. r \in SUBSET S /\ r \subseteq m /\ r # m
      BY <2>4, <3>1
    <3>3. r \notin B
      <4> HIDE DEF B, r
      <4> QED BY <2>3, <3>2
    <3>4. PICK s \in [1..Cardinality(r) -> r] : Increasing(s)
      BY <3>2, <3>3
    <3>5. Cardinality(r) = Cardinality(m) - 1
      BY <2>4, <3>1, FS_RemoveElement
    <3> DEFINE n == Cardinality(m)
               u == [i \in 1..n |-> IF i = 1 THEN x ELSE s[i - 1]]
    <3>6. n \in Nat /\ n - 1 \in Nat
      BY <2>4, <3>5, FS_RemoveElement, FS_CardinalityType
    <3>7. \A i \in 1..n : i # 1 => i - 1 \in 1..n - 1 /\ s[i - 1] \in r
      <4>1. \A i \in 1..n : i # 1 => i - 1 \in 1..n - 1
        BY <3>6
      <4>2. s \in [1..n - 1 -> r]
        BY <3>4, <3>5
      <4> HIDE DEF n, r
      <4> QED BY <4>1, <4>2
    <3>8. u \in [1..n -> m]
      BY <3>1, <3>7
    <3>9. Increasing(u)
      <4> SUFFICES ASSUME NEW i \in 1..n, NEW j \in 1..n, i < j PROVE u[i] < u[j]
        BY DEF Increasing
      <4>0. j # 1
        BY <3>6
      <4>1. u[j] = s[j - 1] /\ j - 1 \in 1..n - 1 /\ s[j - 1] \in r
        BY <3>7, <4>0
      <4>2. CASE i = 1
        <5>1. u[i] = x
          BY <4>2
        <5>2. x <= s[j - 1] /\ x # s[j - 1] /\ x \in Nat /\ s[j - 1] \in Nat
          BY <2>4, <3>1, <4>1
        <5> HIDE DEF u
        <5> QED BY <4>1, <5>1, <5>2
      <4>3. CASE i # 1
        <5>1. u[i] = s[i - 1] /\ i - 1 \in 1..n - 1 /\ i - 1 < j - 1
          BY <3>7, <4>3
        <5>2. s[i - 1] < s[j - 1]
          BY <3>4, <3>5, <4>1, <5>1 DEF Increasing
        <5> HIDE DEF u
        <5> QED BY <4>1, <5>1, <5>2
      <4> QED BY <4>2, <4>3
    <3> HIDE DEF u
    <3> QED BY <2>4, <3>8, <3>9
  <2> QED BY <2>5, <2>6
<1>2. PICK s \in [1..Cardinality(S) -> S] : Increasing(s)
  BY <1>1
<1>3. \A i, j \in 1..Cardinality(S) : i # j => s[i] # s[j]
  <2>1. Cardinality(S) \in Nat
    BY FS_CardinalityType
  <2> SUFFICES ASSUME NEW i \in 1..Cardinality(S), NEW j \in 1..Cardinality(S), i # j
               PROVE  s[i] # s[j]
    OBVIOUS
  <2>2. i < j \/ j < i
    BY <2>1
  <2>3. s[i] < s[j] \/ s[j] < s[i]
    BY <1>2, <2>2 DEF Increasing
  <2>4. s[i] \in Nat /\ s[j] \in Nat
    BY <1>2
  <2> QED BY <2>3, <2>4
<1>4. s \in SetToSeqs(S)
  BY <1>3 DEF SetToSeqs
<1> QED BY <1>2, <1>4

-----------------------------------------------------------------------------
(* The stack of a search.  Its entries go down the page from the top; what *)
(* the limit on depth lets the search see of the rest of the page is       *)
(* within one of them; and what comes before the top has been seen.        *)
Shallow(t) == {m \in 1..Len(t) : t[m].depth <= MaxDepth}

NextNode(t, stack) == IF stack = <<>> THEN Len(t) + 1 ELSE stack[Len(stack)].node

Seen(t, stack) == {m \in Shallow(t) : m < NextNode(t, stack)}

Entries(t) == [node: 1..Len(t), depth: 0..MaxDepth]

StackOK(t, stack) ==
    /\ stack \in Seq(Entries(t))
    /\ \A i \in 1..Len(stack) : stack[i].depth = t[stack[i].node].depth
    /\ \A i, j \in 1..Len(stack) :
          i < j => stack[i].node > stack[j].node /\ stack[i].depth <= stack[j].depth
    /\ \A m \in Shallow(t) : m >= NextNode(t, stack) =>
          \E i \in 1..Len(stack) : Within(t, stack[i].node, m)

(* The children of the top, the first of them last. *)
Pushes(t, n, pushed) ==
    /\ pushed \in Seq(Entries(t))
    /\ \A i \in 1..Len(pushed) : /\ pushed[i].node \in ChildrenOf(t, n)
                                 /\ pushed[i].depth = t[pushed[i].node].depth
    /\ \A i, j \in 1..Len(pushed) : i < j => pushed[i].node > pushed[j].node
    /\ \A c \in ChildrenOf(t, n) : \E i \in 1..Len(pushed) : pushed[i].node = c

(* What a stack is after its top has given way to what is pushed. *)
Replaces(E, stack, pushed, new) ==
    /\ new \in Seq(E) /\ Len(new) = Len(stack) - 1 + Len(pushed)
    /\ Len(stack) \in Nat \ {0} /\ Len(pushed) \in Nat
    /\ \A i \in 1..Len(stack) - 1 : new[i] = stack[i]
    /\ \A i \in 1..Len(pushed) : new[Len(stack) - 1 + i] = pushed[i]

(* The stack after a turn of the loop is such a stack.                     *)
LEMMA StackMoves ==
    ASSUME NEW E, NEW stack \in Seq(E), NEW pushed \in Seq(E), stack # <<>>,
           NEW new, new = Front(stack) \o pushed
    PROVE  Replaces(E, stack, pushed, new)
<1>1. Len(stack) \in Nat \ {0} /\ Len(pushed) \in Nat
  BY EmptySeq
<1>2. Front(stack) = SubSeq(stack, 1, Len(stack) - 1)
  BY DEF Front
<1>3. /\ SubSeq(stack, 1, Len(stack) - 1) \in Seq(E)
      /\ Len(SubSeq(stack, 1, Len(stack) - 1)) = Len(stack) - 1
      /\ \A i \in 1..Len(stack) - 1 : SubSeq(stack, 1, Len(stack) - 1)[i] = stack[i]
  <2> DEFINE n == Len(stack) - 1
             part == SubSeq(stack, 1, n)
  <2>1. n \in Int /\ 1 \in Int /\ \A i \in 1..n : stack[i] \in E
    BY <1>1
  <2>2. /\ part \in Seq(E)
        /\ Len(part) = IF 1 <= n THEN n - 1 + 1 ELSE 0
        /\ \A i \in 1..n - 1 + 1 : part[i] = stack[1 + i - 1]
    <3> HIDE DEF n
    <3> QED BY <2>1, SubSeqProperties, SMTT(20)
  <2>3. n \in Nat /\ n - 1 + 1 = n /\ \A i \in 1..n : 1 + i - 1 = i
    BY <1>1
  <2>4. Len(part) = n
    <3> HIDE DEF part, n
    <3> QED BY <2>2, <2>3
  <2> HIDE DEF part
  <2> QED BY <2>2, <2>3, <2>4 DEF part
<1> DEFINE front == Front(stack)
<1>4. /\ front \in Seq(E) /\ Len(front) = Len(stack) - 1
      /\ \A i \in 1..Len(stack) - 1 : front[i] = stack[i]
  BY <1>2, <1>3
<1> HIDE DEF front
<1>5. new = front \o pushed
  BY DEF front
<1>6. /\ new \in Seq(E) /\ Len(new) = Len(front) + Len(pushed)
      /\ \A i \in 1..Len(front) + Len(pushed) :
            new[i] = IF i <= Len(front) THEN front[i] ELSE pushed[i - Len(front)]
  <2> DEFINE both == front \o pushed
  <2>1. /\ both \in Seq(E) /\ Len(both) = Len(front) + Len(pushed)
        /\ \A i \in 1..Len(front) + Len(pushed) :
              both[i] = IF i <= Len(front) THEN front[i] ELSE pushed[i - Len(front)]
    BY <1>4, ConcatProperties, Zenon
  <2>2. new = both
    BY <1>5
  <2> HIDE DEF both
  <2> QED BY <2>1, <2>2
<1>7. \A i \in 1..Len(stack) - 1 : new[i] = stack[i]
  BY <1>1, <1>4, <1>6
<1>8. ASSUME NEW i \in 1..Len(pushed) PROVE new[Len(stack) - 1 + i] = pushed[i]
  <2>1. /\ Len(front) + i \in 1..Len(front) + Len(pushed)
        /\ ~(Len(front) + i <= Len(front)) /\ Len(front) + i - Len(front) = i
    BY <1>1, <1>4
  <2> QED BY <1>4, <1>6, <2>1
<1> QED BY <1>1, <1>4, <1>6, <1>7, <1>8 DEF Replaces

(* An enumeration of a set leaves nothing out.                             *)
LEMMA EnumerationsAreOnto ==
    ASSUME NEW S, IsFiniteSet(S), NEW s \in SetToSeqs(S)
    PROVE  \A x \in S : \E i \in 1..Cardinality(S) : s[i] = x
<1> DEFINE n == Cardinality(S)
           I == 1..n
<1>1. n \in Nat
  BY FS_CardinalityType
<1>2. IsFiniteSet(I) /\ Cardinality(I) = n
  <2> HIDE DEF n
  <2>1. 1 \in Int /\ n \in Int /\ (IF 1 > n THEN 0 ELSE n - 1 + 1) = n
    BY <1>1
  <2>2. IsFiniteSet(1..n) /\ Cardinality(1..n) = IF 1 > n THEN 0 ELSE n - 1 + 1
    BY <2>1, FS_Interval
  <2> QED BY <2>1, <2>2
<1>3. s \in Injection(I, S)
  BY DEF SetToSeqs, Injection, IsInjective
<1>4. s \in Surjection(I, S)
  <2>1. Cardinality(I) = Cardinality(S)
    BY <1>2
  <2> HIDE DEF I
  <2> QED BY <1>3, <2>1, FS_Injection
<1> QED BY <1>4 DEF Surjection

(* Children(n) lists the children of n, all of them and in their order.    *)
LEMMA ChildrenInOrder ==
    ASSUME NEW t \in Seq(Nodes), t = Tree, NEW n \in 1..Len(t)
    PROVE  /\ Children(n) \in Seq(ChildrenOf(t, n))
           /\ Increasing(Children(n))
           /\ \A c \in ChildrenOf(t, n) : \E i \in 1..Len(Children(n)) : Children(n)[i] = c
<1> DEFINE S == ChildrenOf(t, n)
           s == CHOOSE x \in SetToSeqs(S) : Increasing(x)
<1>1. Children(n) = s
  BY DEF Children, ChildrenOf, Increasing
<1>2. S \in SUBSET Nat /\ IsFiniteSet(S)
  <2> DEFINE F == n + 1 .. Len(t)
  <2>1. IsFiniteSet(F)
    <3>1. n + 1 \in Int /\ Len(t) \in Int
      OBVIOUS
    <3> QED BY <3>1, FS_Interval
  <2>2. S \in SUBSET F /\ F \in SUBSET Nat
    BY DEF ChildrenOf
  <2> HIDE DEF F, S
  <2> QED BY <2>1, <2>2, FS_Subset
<1> HIDE DEF S
<1>3. s \in SetToSeqs(S) /\ Increasing(s)
  BY <1>2, SetsHaveAnOrder
<1> HIDE DEF s
<1>4. /\ s \in [1..Cardinality(S) -> S] /\ Cardinality(S) \in Nat
      /\ \A x \in S : \E i \in 1..Cardinality(S) : s[i] = x
  BY <1>2, <1>3, FS_CardinalityType, EnumerationsAreOnto DEF SetToSeqs
<1>5. s \in Seq(S) /\ Len(s) = Cardinality(S)
  BY <1>4
<1> QED BY <1>1, <1>3, <1>4, <1>5 DEF S

(* What VisitNode pushes are the children, the first of them last.         *)
LEMMA PushedAreChildren ==
    ASSUME NEW t \in Seq(Nodes), t = Tree, IsTree(t), NEW n \in 1..Len(t),
           NEW depth, depth = t[n].depth, depth < MaxDepth
    PROVE  Pushes(t, n, Pushed(n, depth))
<1> DEFINE kids == Children(n)
           p == Pushed(n, depth)
           L == Len(kids)
<1>0. MaxDepth \in Nat /\ depth \in Nat
  BY TreesHaveDepths, ScanLimitsArePositive
<1>1. /\ kids \in Seq(ChildrenOf(t, n)) /\ Increasing(kids)
      /\ \A c \in ChildrenOf(t, n) : \E i \in 1..Len(kids) : kids[i] = c
  BY ChildrenInOrder
<1>2. \A c \in ChildrenOf(t, n) : c \in 1..Len(t) /\ t[c].depth = depth + 1
  BY DEF ChildrenOf
<1>3. Pushed(n, depth) = Reverse([i \in DOMAIN kids |-> [node |-> kids[i], depth |-> depth + 1]])
  BY DEF Pushed
<1> HIDE DEF kids, p
<1>4. L \in Nat /\ DOMAIN kids = 1..L /\ \A i \in 1..L : kids[i] \in ChildrenOf(t, n)
  BY <1>1
<1> DEFINE q == [i \in 1..L |-> [node |-> kids[i], depth |-> depth + 1]]
<1>5. q \in Seq(Entries(t)) /\ Len(q) = L
  <2>1. \A i \in 1..L : [node |-> kids[i], depth |-> depth + 1] \in Entries(t)
    BY <1>0, <1>2, <1>4 DEF Entries
  <2>2. q \in [1..L -> Entries(t)]
    BY <2>1
  <2> HIDE DEF q, L
  <2> QED BY <1>4, <2>2
<1>6. p = [i \in 1..L |-> q[L - i + 1]]
  BY <1>3, <1>4, <1>5 DEF Reverse, p
<1>7. \A i \in 1..L : L - i + 1 \in 1..L
  BY <1>4
<1>8. \A k \in 1..L : q[k].node = kids[k] /\ q[k].depth = depth + 1
  OBVIOUS
<1>9. \A i \in 1..L : p[i] = q[L - i + 1]
  BY <1>6
<1> HIDE DEF L, q
<1>10. p \in Seq(Entries(t)) /\ Len(p) = L
  <2>1. \A i \in 1..L : q[L - i + 1] \in Entries(t)
    BY <1>4, <1>5, <1>7
  <2> DEFINE E == Entries(t)
  <2>2. p \in [1..L -> E]
    BY <1>6, <2>1
  <2> HIDE DEF E
  <2>3. p \in Seq(E) /\ Len(p) = L
    BY <1>4, <2>2
  <2> QED BY <2>3 DEF E
<1>11. ASSUME NEW i \in 1..L
       PROVE  p[i].node \in ChildrenOf(t, n) /\ p[i].depth = t[p[i].node].depth
  <2> DEFINE k == L - i + 1
  <2>1. k \in 1..L
    BY <1>7
  <2>2. p[i].node = kids[k] /\ p[i].depth = depth + 1
    BY <1>7, <1>8, <1>9
  <2> HIDE DEF k
  <2> QED BY <1>2, <1>4, <2>1, <2>2
<1>12. ASSUME NEW i \in 1..L, NEW j \in 1..L, i < j PROVE p[i].node > p[j].node
  <2>1. L - i + 1 \in 1..L /\ L - j + 1 \in 1..L /\ L - j + 1 < L - i + 1
    BY <1>4, <1>12
  <2>2. kids[L - j + 1] < kids[L - i + 1]
    BY <1>1, <1>4, <2>1 DEF Increasing
  <2>3. kids[L - j + 1] \in Nat /\ kids[L - i + 1] \in Nat
    BY <1>2, <1>4, <2>1
  <2> QED BY <1>8, <1>9, <2>1, <2>2, <2>3
<1>13. ASSUME NEW c \in ChildrenOf(t, n) PROVE \E i \in 1..L : p[i].node = c
  <2>1. PICK i \in 1..L : kids[i] = c
    BY <1>1 DEF L
  <2>2. L - i + 1 \in 1..L /\ L - (L - i + 1) + 1 = i
    BY <1>4
  <2> DEFINE k == L - i + 1
  <2>3. k \in 1..L /\ L - k + 1 = i
    BY <2>2
  <2> HIDE DEF k
  <2>4. p[k].node = kids[i]
    BY <1>8, <1>9, <2>3
  <2> QED BY <2>1, <2>3, <2>4
<1> QED BY <1>10, <1>11, <1>12, <1>13 DEF Pushes, p

(* The children of a node come before whatever is not below it. *)
LEMMA ChildrenComeFirst ==
    ASSUME NEW t \in Seq(Nodes), IsTree(t), NEW n \in 1..Len(t),
           NEW c \in ChildrenOf(t, n), NEW m \in n + 1 .. Len(t), t[m].depth <= t[n].depth
    PROVE  c < m
<1>1. Len(t) \in Nat /\ t[m].depth \in Nat /\ t[n].depth \in Nat
  BY TreesHaveDepths
<1>2. c \in n + 1 .. Len(t) /\ \A k \in n + 1 .. c : t[k].depth > t[n].depth
  BY DEF ChildrenOf
<1>3. m \notin n + 1 .. c
  BY <1>1, <1>2
<1> QED BY <1>1, <1>2, <1>3

(* One turn of the loop: the top gives way to its children, unless it is   *)
(* as deep as the search goes.                                             *)
Visits(t, stack, new) ==
    \E pushed : /\ new = Front(stack) \o pushed
                /\ \/ /\ t[NextNode(t, stack)].depth < MaxDepth
                      /\ Pushes(t, NextNode(t, stack), pushed)
                   \/ t[NextNode(t, stack)].depth >= MaxDepth /\ pushed = <<>>

(* A turn of the loop sees the top and nothing else, and what is left to   *)
(* see stays below the new stack.                                          *)
LEMMA StackStep ==
    ASSUME NEW t \in Seq(Nodes), IsTree(t), NEW stack, StackOK(t, stack), stack # <<>>,
           NEW new, Visits(t, stack, new)
    PROVE  /\ NextNode(t, stack) \in Shallow(t) /\ NextNode(t, stack) \notin Seen(t, stack)
           /\ StackOK(t, new)
           /\ Seen(t, new) = Seen(t, stack) \cup {NextNode(t, stack)}
<1> SUFFICES ASSUME NEW n, n = stack[Len(stack)].node, NEW pushed,
                    \/ t[n].depth < MaxDepth /\ Pushes(t, n, pushed)
                    \/ t[n].depth >= MaxDepth /\ pushed = <<>>,
                    new = Front(stack) \o pushed
             PROVE  /\ n \in Shallow(t) /\ n \notin Seen(t, stack)
                    /\ StackOK(t, new)
                    /\ Seen(t, new) = Seen(t, stack) \cup {n}
  <2>1. NextNode(t, stack) = stack[Len(stack)].node
    BY DEF NextNode
  <2> QED BY <2>1 DEF Visits
<1> DEFINE L == Len(stack)
           P == Len(pushed)
           at(i) == stack[i].node
<1>0. MaxDepth \in Nat
  BY ScanLimitsArePositive
<1>1. /\ Len(t) \in Nat /\ \A k \in 1..Len(t) : t[k].depth \in Nat
      /\ \A k \in 2..Len(t) : t[k].depth >= 1 /\ t[k].depth <= t[k - 1].depth + 1
  BY TreesHaveDepths
<1>2. stack \in Seq(Entries(t)) /\ pushed \in Seq(Entries(t))
  BY EmptySeq DEF StackOK, Pushes
<1>3. /\ new \in Seq(Entries(t)) /\ Len(new) = L - 1 + P
      /\ L \in Nat \ {0} /\ P \in Nat
      /\ \A i \in 1..L - 1 : new[i] = stack[i]
      /\ \A i \in 1..P : new[L - 1 + i] = pushed[i]
  <2> DEFINE E == Entries(t)
  <2>1. stack \in Seq(E) /\ stack # <<>> /\ pushed \in Seq(E)
    BY <1>2
  <2> HIDE DEF E
  <2>2. Replaces(E, stack, pushed, new)
    BY <2>1, StackMoves
  <2> QED BY <2>2 DEF Replaces, E, L, P
<1> HIDE DEF L, P
<1>4. /\ \A i \in 1..L : stack[i] \in Entries(t)
      /\ \A i \in 1..P : pushed[i] \in Entries(t)
  BY <1>2 DEF L, P
<1>5. /\ \A i \in 1..L : at(i) \in 1..Len(t) /\ stack[i].depth \in 0..MaxDepth
      /\ \A i \in 1..P : pushed[i].node \in 1..Len(t) /\ pushed[i].depth \in 0..MaxDepth
  BY <1>4 DEF Entries
<1>6. /\ \A i \in 1..L : stack[i].depth = t[at(i)].depth
      /\ \A i, j \in 1..L :
            i < j => at(i) > at(j) /\ stack[i].depth <= stack[j].depth
  BY DEF StackOK, L
<1>7. L \in 1..L /\ n = at(L) /\ n \in 1..Len(t) /\ t[n].depth \in 0..MaxDepth
  <2>1. L \in 1..L /\ n = at(L)
    BY <1>3 DEF L
  <2> QED BY <1>5, <1>6, <2>1
<1>8. NextNode(t, stack) = n
  BY DEF NextNode
<1>9. \A i \in 1..L - 1 : /\ i \in 1..L /\ at(i) \in n + 1 .. Len(t)
                          /\ t[at(i)].depth <= t[n].depth
  <2> TAKE i \in 1..L - 1
  <2>1. i \in 1..L /\ i < L
    BY <1>3
  <2>2. at(i) > n /\ stack[i].depth <= stack[L].depth
    BY <1>6, <1>7, <2>1
  <2>3. at(i) \in n + 1 .. Len(t)
    <3>1. at(i) \in 1..Len(t)
      BY <1>5, <2>1
    <3> HIDE DEF at
    <3> QED BY <1>1, <1>7, <2>2, <3>1
  <2>4. t[at(i)].depth <= t[n].depth
    <3>1. stack[i].depth = t[at(i)].depth /\ stack[L].depth = t[n].depth
      BY <1>6, <1>7, <2>1
    <3> QED BY <2>2, <3>1
  <2> QED BY <2>1, <2>3, <2>4
<1>10. ASSUME NEW i \in 1..P
       PROVE  /\ pushed[i].node \in ChildrenOf(t, n)
              /\ pushed[i].node \in n + 1 .. Len(t)
              /\ pushed[i].depth = t[pushed[i].node].depth
              /\ pushed[i].depth = t[n].depth + 1
  <2>1. Pushes(t, n, pushed)
    <3>1. pushed # <<>>
      BY EmptySeq, <1>3 DEF P
    <3> QED BY <3>1
  <2>2. pushed[i].node \in ChildrenOf(t, n) /\ pushed[i].depth = t[pushed[i].node].depth
    BY <2>1 DEF Pushes, P
  <2> QED BY <2>2 DEF ChildrenOf
\* Where an entry of the new stack comes from.
<1>11. ASSUME NEW i \in 1..L - 1 + P
       PROVE  \/ i \in 1..L - 1 /\ new[i] = stack[i]
              \/ i - (L - 1) \in 1..P /\ new[i] = pushed[i - (L - 1)]
  <2>1. i \in 1..L - 1 \/ (i - (L - 1) \in 1..P /\ L - 1 + (i - (L - 1)) = i)
    BY <1>3
  <2> QED BY <1>3, <2>1
<1>12. ASSUME NEW i \in 1..Len(new) PROVE new[i].depth = t[new[i].node].depth
  <2>1. \/ i \in 1..L - 1 /\ new[i] = stack[i]
        \/ i - (L - 1) \in 1..P /\ new[i] = pushed[i - (L - 1)]
    BY <1>3, <1>11
  <2>2. CASE i \in 1..L - 1 /\ new[i] = stack[i]
    BY <1>6, <1>9, <2>2
  <2>3. CASE i - (L - 1) \in 1..P /\ new[i] = pushed[i - (L - 1)]
    BY <1>10, <2>3
  <2> QED BY <2>1, <2>2, <2>3
<1>13. ASSUME NEW i \in 1..Len(new), NEW j \in 1..Len(new), i < j
       PROVE  new[i].node > new[j].node /\ new[i].depth <= new[j].depth
  <2>1. CASE i \in 1..L - 1 /\ j \in 1..L - 1
    <3>1. i \in 1..L /\ j \in 1..L /\ new[i] = stack[i] /\ new[j] = stack[j]
      BY <1>3, <1>9, <2>1
    <3>2. at(i) > at(j) /\ stack[i].depth <= stack[j].depth
      BY <1>6, <1>13, <3>1
    <3> QED BY <3>1, <3>2
  <2>2. CASE i \in 1..L - 1 /\ j \notin 1..L - 1
    <3> DEFINE k == j - (L - 1)
    <3>1. k \in 1..P /\ new[j] = pushed[k] /\ new[i] = stack[i]
      BY <1>3, <1>11, <2>2
    <3> HIDE DEF k
    <3>2. at(i) \in n + 1 .. Len(t) /\ t[at(i)].depth <= t[n].depth /\ i \in 1..L
      BY <1>9, <2>2
    <3>3. pushed[k].node \in ChildrenOf(t, n) /\ pushed[k].depth = t[n].depth + 1
      BY <1>10, <3>1
    <3>4. pushed[k].node < at(i)
      BY <3>2, <3>3, <1>7, ChildrenComeFirst
    <3>5. stack[i].depth <= t[n].depth + 1
      <4>1. stack[i].depth = t[at(i)].depth
        BY <1>6, <3>2
      <4>2. t[at(i)].depth \in Nat /\ t[n].depth \in Nat
        BY <1>1, <1>7, <3>2
      <4> HIDE DEF at
      <4> QED BY <3>2, <4>1, <4>2
    <3> QED BY <3>1, <3>3, <3>4, <3>5, <1>5, <3>2
  <2>3. CASE i \notin 1..L - 1
    <3> DEFINE k == i - (L - 1)
               l == j - (L - 1)
    <3>1. k \in 1..P /\ l \in 1..P /\ k < l
      BY <1>3, <1>13, <2>3
    <3>2. i = L - 1 + k /\ j = L - 1 + l
      BY <1>3
    <3>3. new[i] = pushed[k] /\ new[j] = pushed[l]
      BY <1>3, <3>1, <3>2
    <3> HIDE DEF k, l
    <3>4. Pushes(t, n, pushed)
      <4>1. pushed # <<>>
        BY EmptySeq, <1>3, <3>1 DEF P
      <4> QED BY <4>1
    <3>5. pushed[k].node > pushed[l].node
      BY <3>1, <3>4 DEF Pushes, P
    <3>6. pushed[k].depth <= pushed[l].depth
      BY <1>10, <1>5, <3>1
    <3> QED BY <3>3, <3>5, <3>6
  <2> QED BY <2>1, <2>2, <2>3
\* A shallow node below n is within a child of n that is on the stack.
<1>14. ASSUME NEW m \in Shallow(t), m > n, Within(t, n, m)
       PROVE  \E i \in 1..P : Within(t, pushed[i].node, m) /\ n + 1 \in ChildrenOf(t, n)
  <2>1. m \in n + 1 .. Len(t) /\ t[m].depth <= MaxDepth /\ t[m].depth > t[n].depth
    BY <1>7, <1>14 DEF Shallow, Within
  <2>2. t[n].depth < MaxDepth
    BY <1>0, <1>1, <1>7, <2>1
  <2>3. Pushes(t, n, pushed)
    BY <1>0, <1>7, <2>2
  <2>4. PICK c \in ChildrenOf(t, n) : Within(t, c, m)
    BY <1>7, <1>14, <2>1, BelowIsWithinChild
  <2>5. n + 1 \in ChildrenOf(t, n)
    BY <1>7, <1>14, <2>1, BelowIsWithinChild
  <2>6. PICK i \in 1..P : pushed[i].node = c
    BY <2>3 DEF Pushes, P
  <2> QED BY <2>4, <2>5, <2>6
\* What is left to see is n, or it is under the new stack.
<1>15. ASSUME NEW m \in Shallow(t), m > n
       PROVE  \E i \in 1..Len(new) : Within(t, new[i].node, m)
  <2>1. m >= NextNode(t, stack)
    BY <1>7, <1>8, <1>15 DEF Shallow
  <2>2. PICK i \in 1..L : Within(t, at(i), m)
    BY <2>1 DEF StackOK, L
  <2>3. CASE i = L
    <3>1. PICK k \in 1..P : Within(t, pushed[k].node, m)
      BY <1>7, <1>14, <1>15, <2>2, <2>3
    <3>2. L - 1 + k \in 1..Len(new)
      BY <1>3
    <3>3. new[L - 1 + k] = pushed[k]
      BY <1>3
    <3> QED BY <3>1, <3>2, <3>3
  <2>4. CASE i # L
    <3>1. i \in 1..L - 1 /\ i \in 1..Len(new) /\ new[i] = stack[i]
      BY <1>3, <2>4
    <3> QED BY <2>2, <3>1
  <2> QED BY <2>3, <2>4
<1>16. NextNode(t, new) \in Nat /\ NextNode(t, new) > n
  <2>1. CASE new = <<>>
    BY <1>1, <1>7, <2>1 DEF NextNode
  <2>2. CASE new # <<>>
    <3> DEFINE last == Len(new)
    <3>1. last \in 1..L - 1 + P /\ NextNode(t, new) = new[last].node
      <4>1. Len(new) \in Nat \ {0}
        BY <1>3, <2>2, EmptySeq
      <4> QED BY <1>3, <2>2, <4>1 DEF NextNode
    <3> HIDE DEF last
    <3>2. \/ last \in 1..L - 1 /\ new[last] = stack[last]
          \/ last - (L - 1) \in 1..P /\ new[last] = pushed[last - (L - 1)]
      BY <1>11, <3>1
    <3>3. new[last].node \in n + 1 .. Len(t)
      BY <1>9, <1>10, <3>2
    <3> DEFINE next == new[last].node
    <3>4. next \in n + 1 .. Len(t) /\ NextNode(t, new) = next
      BY <3>1, <3>3
    <3> HIDE DEF next
    <3> QED BY <1>1, <1>7, <3>4
  <2> QED BY <2>1, <2>2
\* Nothing shallow lies between n and the next node.
<1>17. ASSUME NEW m \in Shallow(t), m > n PROVE m >= NextNode(t, new)
  <2>0. m \in 1..Len(t)
    BY DEF Shallow
  <2>1. PICK i \in 1..Len(new) : Within(t, new[i].node, m)
    BY <1>15, <1>17
  <2>2. new[i].node <= m
    BY <2>1 DEF Within
  <2> DEFINE last == Len(new)
  <2>3. NextNode(t, new) = new[last].node
    <3>1. new # <<>>
      BY <1>3, EmptySeq
    <3> QED BY <3>1 DEF NextNode
  <2>4. last \in 1..last /\ last \in Nat
    BY <1>3
  <2>5. new[i] \in Entries(t) /\ new[last] \in Entries(t)
    BY <1>3, <2>4
  <2>6. new[i].node \in 1..Len(t) /\ new[last].node \in 1..Len(t)
    BY <2>5 DEF Entries
  <2>7. new[i].node >= new[last].node
    <3>1. CASE i = last
      BY <2>6, <3>1
    <3>2. CASE i # last
      <4>1. i < last
        <5>1. i \in 1..last
          OBVIOUS
        <5> HIDE DEF last
        <5> QED BY <2>4, <3>2, <5>1
      <4>2. new[i].node > new[last].node
        BY <1>13, <2>4, <4>1, Zenon
      <4> QED BY <2>6, <4>2
    <3> QED BY <3>1, <3>2
  <2> DEFINE x == new[i].node
             y == new[last].node
  <2>8. x >= y /\ x <= m /\ x \in Nat /\ y \in Nat /\ m \in Nat
    <3>1. m \in Nat /\ Len(t) \in Nat
      BY <2>0, <1>1
    <3>2. x \in 1..Len(t) /\ y \in 1..Len(t) /\ x >= y /\ x <= m
      BY <2>2, <2>6, <2>7, Zenon
    <3> HIDE DEF x, y
    <3> QED BY <3>1, <3>2
  <2>9. m >= y
    <3> HIDE DEF x, y
    <3> QED BY <2>8
  <2> QED BY <2>3, <2>9
<1>18. n \in Shallow(t) /\ n \notin Seen(t, stack)
  BY <1>0, <1>7, <1>8 DEF Shallow, Seen
<1>19. Seen(t, new) = Seen(t, stack) \cup {n}
  <2>1. ASSUME NEW m \in Shallow(t) PROVE m \in Seen(t, new) <=> m \in Seen(t, stack) \cup {n}
    <3>1. m \in 1..Len(t)
      BY DEF Shallow
    <3>2. CASE m > n
      BY <1>7, <1>8, <1>16, <1>17, <3>1, <3>2 DEF Seen
    <3>3. CASE m <= n
      BY <1>7, <1>8, <1>16, <3>1, <3>3 DEF Seen
    <3> QED BY <1>7, <3>1, <3>2, <3>3
  <2>2. Seen(t, new) \subseteq Shallow(t) /\ Seen(t, stack) \cup {n} \subseteq Shallow(t)
    BY <1>18 DEF Seen
  <2> QED BY <2>1, <2>2
<1>20. ASSUME NEW m \in Shallow(t), m >= NextNode(t, new)
       PROVE  \E i \in 1..Len(new) : Within(t, new[i].node, m)
  <2>1. m > n
    <3>1. m \in Nat
      BY DEF Shallow
    <3> QED BY <1>7, <1>16, <1>20, <3>1
  <2> QED BY <1>15, <2>1
<1> QED BY <1>3, <1>12, <1>13, <1>18, <1>19, <1>20 DEF StackOK

-----------------------------------------------------------------------------
(* A search of one block has seen the first nodes of those that are not    *)
(* too deep; none of them is a product, and partial is the first name.     *)
SearchOK(t, stack, visited, partial) ==
    /\ StackOK(t, stack)
    /\ visited \in 0..MaxNodes
    /\ visited = Cardinality(Seen(t, stack))
    /\ \A m \in Seen(t, stack) : t[m].has # "product"
    /\ partial = 0 => \A m \in Seen(t, stack) : t[m].has # "name"
    /\ partial # 0 => /\ partial \in Seen(t, stack) /\ t[partial].has = "name"
                      /\ \A m \in Seen(t, stack) : t[m].has = "name" => partial <= m

UpTo(t, n) == {m \in Shallow(t) : m <= n}
Limits(t) == {n \in Shallow(t) : Cardinality(UpTo(t, n)) <= MaxNodes}

(* The nodes of a tree can be counted.                                     *)
LEMMA ShallowIsFinite ==
    ASSUME NEW t \in Seq(Nodes), NEW S \in SUBSET Shallow(t)
    PROVE  IsFiniteSet(S) /\ Cardinality(S) \in Nat /\ S \subseteq Nat
<1> DEFINE F == 1..Len(t)
<1>1. IsFiniteSet(F)
  <2>1. 1 \in Int /\ Len(t) \in Int
    OBVIOUS
  <2> QED BY <2>1, FS_Interval
<1>2. S \in SUBSET F /\ F \subseteq Nat
  BY DEF Shallow
<1> HIDE DEF F
<1> QED BY <1>1, <1>2, FS_Subset, FS_CardinalityType

(* The top of a stack is a node that is not too deep.                      *)
LEMMA TopOfStack ==
    ASSUME NEW t \in Seq(Nodes), NEW stack, StackOK(t, stack), stack # <<>>
    PROVE  /\ stack[Len(stack)] \in Entries(t)
           /\ stack[Len(stack)].depth = t[stack[Len(stack)].node].depth
           /\ NextNode(t, stack) = stack[Len(stack)].node
           /\ NextNode(t, stack) \in Shallow(t)
           /\ NextNode(t, stack) \in 1..Len(t)
<1> DEFINE E == Entries(t)
<1>1. stack \in Seq(E)
  BY DEF StackOK
<1>2. Len(stack) \in 1..Len(stack)
  <2> HIDE DEF E
  <2>1. Len(stack) \in Nat \ {0}
    BY <1>1, EmptySeq
  <2> QED BY <2>1
<1>3. stack[Len(stack)] \in Entries(t)
  BY <1>1, <1>2
<1>4. stack[Len(stack)].node \in 1..Len(t) /\ stack[Len(stack)].depth \in 0..MaxDepth
  BY <1>3 DEF Entries
<1>5. stack[Len(stack)].depth = t[stack[Len(stack)].node].depth
  BY <1>2 DEF StackOK
<1>6. NextNode(t, stack) = stack[Len(stack)].node
  BY DEF NextNode
<1>7. t[stack[Len(stack)].node].depth <= MaxDepth
  BY <1>4, <1>5, ScanLimitsArePositive
<1> QED BY <1>3, <1>4, <1>5, <1>6, <1>7 DEF Shallow

(* The next node is one of the tree, or past its end.                      *)
LEMMA NextIsANumber ==
    ASSUME NEW t \in Seq(Nodes), NEW stack, StackOK(t, stack)
    PROVE  NextNode(t, stack) \in Nat
<1>1. CASE stack = <<>>
  <2>1. Len(t) \in Nat
    OBVIOUS
  <2> QED BY <1>1, <2>1 DEF NextNode
<1>2. CASE stack # <<>>
  BY <1>2, TopOfStack
<1> QED BY <1>1, <1>2

(* A search that ended without a product has seen all there is to see. *)
LEMMA SearchedAll ==
    ASSUME NEW t \in Seq(Nodes), NEW stack, NEW visited, NEW partial,
           SearchOK(t, stack, visited, partial), stack = <<>> \/ visited >= MaxNodes
    PROVE  Limits(t) = Seen(t, stack)
<1> DEFINE S == Seen(t, stack)
<1>0. MaxNodes \in Nat /\ Len(t) \in Nat
  BY ScanLimitsArePositive
<1>1. /\ S \in SUBSET Shallow(t) /\ IsFiniteSet(S)
      /\ Cardinality(S) \in 0..MaxNodes /\ visited = Cardinality(S)
  <2>1. S \in SUBSET Shallow(t)
    BY DEF Seen
  <2> QED BY <2>1, ShallowIsFinite DEF SearchOK
<1>2. ASSUME NEW n \in S PROVE n \in Limits(t)
  <2> DEFINE U == UpTo(t, n)
  <2>1. U \in SUBSET S
    <3> SUFFICES ASSUME NEW m \in Shallow(t), m <= n PROVE m \in S
      BY DEF UpTo
    <3>1. n < NextNode(t, stack) /\ n \in 1..Len(t) /\ m \in 1..Len(t)
      BY <1>1 DEF Seen, Shallow
    <3>2. NextNode(t, stack) \in Nat
      BY NextIsANumber DEF SearchOK
    <3> QED BY <3>1, <3>2 DEF Seen
  <2>2. Cardinality(U) <= Cardinality(S)
    <3> HIDE DEF U, S
    <3> QED BY <1>1, <2>1, FS_Subset
  <2>3. Cardinality(U) \in Nat
    <3>1. U \in SUBSET Shallow(t)
      BY <1>1, <2>1
    <3> HIDE DEF U
    <3> QED BY <3>1, ShallowIsFinite
  <2> HIDE DEF S
  <2> QED BY <1>0, <1>1, <2>2, <2>3 DEF Limits
<1>3. ASSUME NEW n \in Limits(t), n \notin S PROVE FALSE
  <2> DEFINE U == UpTo(t, n)
  <2>1. n \in Shallow(t) /\ n \in 1..Len(t) /\ ~(n < NextNode(t, stack))
    BY <1>3 DEF Limits, Seen, Shallow
  <2>2. stack # <<>>
    BY <1>0, <2>1 DEF NextNode
  <2>3. Cardinality(S) = MaxNodes
    BY <1>0, <1>1, <2>2
  <2>4. S \cup {n} \in SUBSET U
    <3>1. ASSUME NEW m \in S PROVE m <= n
      <4>1. m < NextNode(t, stack) /\ m \in 1..Len(t)
        BY <1>1 DEF Seen, Shallow
      <4>2. NextNode(t, stack) \in Nat
        BY NextIsANumber DEF SearchOK
      <4> QED BY <2>1, <4>1, <4>2
    <3>2. n <= n
      BY <2>1
    <3> QED BY <1>1, <2>1, <3>1, <3>2 DEF UpTo
  <2>5. IsFiniteSet(U) /\ Cardinality(U) \in Nat
    <3>1. U \in SUBSET Shallow(t)
      BY DEF UpTo
    <3> HIDE DEF U
    <3> QED BY <3>1, ShallowIsFinite
  <2>6. Cardinality(S \cup {n}) = Cardinality(S) + 1
    <3> HIDE DEF S
    <3> QED BY <1>1, <1>3, FS_AddElement
  <2>7. Cardinality(S \cup {n}) <= Cardinality(U)
    <3> HIDE DEF S, U
    <3> DEFINE V == S \cup {n}
    <3>1. V \in SUBSET U
      BY <2>4
    <3> HIDE DEF V
    <3>2. Cardinality(V) <= Cardinality(U)
      BY <2>5, <3>1, FS_Subset
    <3> QED BY <3>2 DEF V
  <2>8. Cardinality(U) <= MaxNodes
    BY DEF Limits
  <2> HIDE DEF S, U
  <2> QED BY <1>0, <2>3, <2>5, <2>6, <2>7, <2>8
<1> QED BY <1>1, <1>2, <1>3 DEF Limits

(* The node a search is at is within the limits, and comes after all that  *)
(* it has seen.                                                            *)
LEMMA TopIsNext ==
    ASSUME NEW t \in Seq(Nodes), NEW stack, NEW visited, NEW partial,
           SearchOK(t, stack, visited, partial), stack # <<>>, visited < MaxNodes,
           NEW n, n = stack[Len(stack)].node
    PROVE  /\ n \in Limits(t)
           /\ \A m \in Shallow(t) : m < n => m \in Seen(t, stack)
<1> DEFINE S == Seen(t, stack)
<1>0. MaxNodes \in Nat
  BY ScanLimitsArePositive
<1>1. n = NextNode(t, stack) /\ n \in Shallow(t) /\ n \in 1..Len(t)
  BY TopOfStack DEF SearchOK
<1>2. S \in SUBSET Shallow(t) /\ IsFiniteSet(S) /\ Cardinality(S) \in Nat
  <2>1. S \in SUBSET Shallow(t)
    BY DEF Seen
  <2> QED BY <2>1, ShallowIsFinite
<1>3. UpTo(t, n) = S \cup {n}
  <2>1. \A m \in Shallow(t) : m \in 1..Len(t)
    BY DEF Shallow
  <2> QED BY <1>1, <2>1 DEF UpTo, Seen
<1>4. n \notin S
  BY <1>1 DEF Seen
<1>5. Cardinality(S \cup {n}) = Cardinality(S) + 1
  <2> HIDE DEF S
  <2> QED BY <1>2, <1>4, FS_AddElement
<1>6. Cardinality(S) < MaxNodes
  BY DEF SearchOK
<1>7. Cardinality(UpTo(t, n)) <= MaxNodes
  <2> HIDE DEF S
  <2> QED BY <1>0, <1>2, <1>3, <1>5, <1>6
<1> QED BY <1>1, <1>7 DEF Limits, Seen

(* A turn of the loop that meets no product keeps what the search knows.   *)
LEMMA SearchStep ==
    ASSUME NEW t \in Seq(Nodes), IsTree(t), NEW stack, NEW visited, NEW partial,
           SearchOK(t, stack, visited, partial), stack # <<>>, visited < MaxNodes,
           NEW n, n = NextNode(t, stack), t[n].has # "product",
           NEW new, Visits(t, stack, new),
           NEW name, name = IF partial = 0 /\ t[n].has = "name" THEN n ELSE partial
    PROVE  SearchOK(t, new, visited + 1, name)
<1> DEFINE S == Seen(t, stack)
           R == Seen(t, new)
<1>0. MaxNodes \in Nat /\ visited \in 0..MaxNodes
  BY ScanLimitsArePositive DEF SearchOK
<1>1. n \in Shallow(t) /\ n \notin S /\ StackOK(t, new) /\ R = S \cup {n}
  <2>1. StackOK(t, stack)
    BY DEF SearchOK
  <2>2. /\ n \in Shallow(t) /\ n \notin Seen(t, stack) /\ StackOK(t, new)
        /\ Seen(t, new) = Seen(t, stack) \cup {n}
    BY <2>1, StackStep
  <2> QED BY <2>2
<1>2. S \in SUBSET Shallow(t) /\ IsFiniteSet(S) /\ visited = Cardinality(S)
  <2>1. S \in SUBSET Shallow(t)
    BY DEF Seen
  <2> QED BY <2>1, ShallowIsFinite DEF SearchOK
<1>3. n \in 1..Len(t) /\ \A m \in S : m < n /\ m \in 1..Len(t)
  BY <1>1 DEF Seen, Shallow
<1>4. /\ \A m \in S : t[m].has # "product"
      /\ partial = 0 => \A m \in S : t[m].has # "name"
      /\ partial # 0 => /\ partial \in S /\ t[partial].has = "name"
                        /\ \A m \in S : t[m].has = "name" => partial <= m
  BY DEF SearchOK
<1> HIDE DEF S, R
<1>5. Cardinality(R) = visited + 1
  BY <1>1, <1>2, FS_AddElement
<1>6. visited + 1 \in 0..MaxNodes
  BY <1>0
<1>7. \A m \in R : t[m].has # "product"
  BY <1>1, <1>4
<1>8. CASE partial # 0
  <2>1. name = partial /\ name \in R /\ t[name].has = "name"
    BY <1>1, <1>4, <1>8
  <2>2. name <= n
    BY <1>3, <1>4, <1>8, <2>1
  <2>3. \A m \in R : t[m].has = "name" => name <= m
    BY <1>1, <1>4, <1>8, <2>1, <2>2
  <2> QED BY <1>1, <1>5, <1>6, <1>7, <1>8, <2>1, <2>3 DEF SearchOK, R
<1>9. CASE partial = 0 /\ t[n].has = "name"
  <2>1. name = n /\ name # 0 /\ name \in R
    BY <1>1, <1>3, <1>9
  <2>2. \A m \in R : t[m].has = "name" => name <= m
    BY <1>1, <1>3, <1>4, <1>9, <2>1
  <2> QED BY <1>1, <1>5, <1>6, <1>7, <1>9, <2>1, <2>2 DEF SearchOK, R
<1>10. CASE partial = 0 /\ t[n].has # "name"
  <2>1. name = 0 /\ \A m \in R : t[m].has # "name"
    BY <1>1, <1>4, <1>10
  <2> QED BY <1>1, <1>5, <1>6, <1>7, <2>1 DEF SearchOK, R
<1> QED BY <1>8, <1>9, <1>10

(* A search that has not begun knows nothing, and need not.                *)
LEMMA SearchStarts ==
    ASSUME NEW t \in Seq(Nodes), IsTree(t), NEW stack,
           stack = IF t = <<>> THEN <<>> ELSE <<[node |-> 1, depth |-> 0]>>
    PROVE  SearchOK(t, stack, 0, 0)
<1>0. MaxDepth \in Nat /\ MaxNodes \in Nat
  BY ScanLimitsArePositive
<1>1. Len(t) \in Nat /\ \A k \in 2..Len(t) : t[k].depth >= 1
  BY TreesHaveDepths
<1>2. Seen(t, stack) = {}
  <2>1. CASE t = <<>>
    <3>1. Shallow(t) = {}
      BY <2>1 DEF Shallow
    <3> QED BY <3>1 DEF Seen
  <2>2. CASE t # <<>>
    <3>1. NextNode(t, stack) = 1
      BY <2>2 DEF NextNode
    <3> QED BY <1>1, <3>1 DEF Seen, Shallow
  <2> QED BY <2>1, <2>2
<1>3. Cardinality(Seen(t, stack)) = 0
  BY <1>2, FS_EmptySet
<1>4. StackOK(t, stack)
  <2>1. CASE t = <<>>
    <3>1. Shallow(t) = {} /\ stack = <<>>
      BY <2>1 DEF Shallow
    <3> QED BY <3>1 DEF StackOK
  <2>2. CASE t # <<>>
    <3>1. stack = <<[node |-> 1, depth |-> 0]>>
      BY <2>2
    <3>2. Len(t) >= 1 /\ t[1].depth = 0
      <4>1. Len(t) \in Nat \ {0}
        BY <2>2, EmptySeq
      <4> QED BY <2>2, <4>1 DEF IsTree
    <3>3. [node |-> 1, depth |-> 0] \in Entries(t)
      BY <1>0, <1>1, <3>2 DEF Entries
    <3>4. stack \in Seq(Entries(t)) /\ Len(stack) = 1 /\ stack[1] = [node |-> 1, depth |-> 0]
      <4> DEFINE e == [node |-> 1, depth |-> 0]
                 E == Entries(t)
      <4>1. e \in E /\ stack = <<e>>
        BY <3>1, <3>3
      <4> HIDE DEF e, E
      <4>2. <<e>> \in Seq(E) /\ Len(<<e>>) = 1 /\ <<e>>[1] = e
        BY ONLY <4>1
      <4> QED BY <4>1, <4>2 DEF e, E
    <3>5. \A m \in 1..Len(t) : Within(t, 1, m)
      <4>1. \A m \in 1..Len(t) : \A k \in 1 + 1 .. m : k \in 2..Len(t) /\ t[k].depth > 0
        BY <1>1, TreesHaveDepths
      <4> QED BY <3>2, <4>1 DEF Within
    <3>6. \A m \in Shallow(t) : \E i \in 1..Len(stack) : Within(t, stack[i].node, m)
      BY <3>4, <3>5 DEF Shallow
    <3> HIDE <3>1
    <3> QED BY <3>2, <3>4, <3>6 DEF StackOK
  <2> QED BY <2>1, <2>2
<1> QED BY <1>0, <1>2, <1>3, <1>4 DEF SearchOK

-----------------------------------------------------------------------------
(* The blocks of a page, and the places in them the search may find.       *)
BlocksOf(p) == p.json \o p.state
Places == [block: Nat, node: Nat]

PlacesIn(p, has, I) ==
    {q \in Places : /\ q.block \in I
                    /\ q.node \in Limits(BlocksOf(p)[q.block])
                    /\ BlocksOf(p)[q.block][q.node].has = has}

Blocked(p, k) == {b \in DOMAIN BlocksOf(p) : b < k}
States(p, k) == {b \in DOMAIN BlocksOf(p) : b > Len(p.json) /\ b < k}

IsFirst(q, S) == q \in S /\ \A r \in S : Precedes(q, r)

(* What a search of the blocks in their order has established: there is no *)
(* product in the blocks before this one, and the first name of the        *)
(* embedded state among them is kept.                                      *)
ScanOK(p, s) ==
    /\ s \in [block: 0..Len(BlocksOf(p)) + 1, stack: Seq([node: Nat, depth: Nat]),
              visited: Nat, partial: Nat, kept: Places \cup {NoSource}]
    /\ s.block \in DOMAIN BlocksOf(p) =>
          SearchOK(BlocksOf(p)[s.block], s.stack, s.visited, s.partial)
    /\ s.block \notin DOMAIN BlocksOf(p) => s.stack = <<>>
    /\ PlacesIn(p, "product", Blocked(p, s.block)) = {}
    /\ \/ s.kept = NoSource /\ PlacesIn(p, "name", States(p, s.block)) = {}
       \/ IsFirst(s.kept, PlacesIn(p, "name", States(p, s.block)))

ScanInv == IsPage(page) /\ ScanOK(page, scan)

(* The blocks of a page are trees.                                         *)
LEMMA PageBlocks ==
    ASSUME NEW p, IsPage(p)
    PROVE  /\ BlocksOf(p) \in Seq(Seq(Nodes))
           /\ Len(p.json) \in Nat /\ Len(BlocksOf(p)) \in Nat
           /\ DOMAIN BlocksOf(p) = 1..Len(BlocksOf(p))
           /\ \A b \in 1..Len(BlocksOf(p)) :
                 BlocksOf(p)[b] \in Seq(Nodes) /\ IsTree(BlocksOf(p)[b])
<1> DEFINE T == Seq(Nodes)
           j == p.json
           s == p.state
           B == j \o s
<1>1. j \in Seq(T) /\ s \in Seq(T)
  BY DEF IsPage
<1>2. \A b \in 1..Len(j) : IsTree(j[b])
  <2>1. DOMAIN j = 1..Len(j)
    BY <1>1
  <2> QED BY <2>1 DEF IsPage
<1>3. \A b \in 1..Len(s) : IsTree(s[b])
  <2>1. DOMAIN s = 1..Len(s)
    BY <1>1
  <2> QED BY <2>1 DEF IsPage
<1> HIDE DEF T, j, s
<1>4. /\ B \in Seq(T) /\ Len(B) = Len(j) + Len(s)
      /\ \A b \in 1..Len(j) + Len(s) : B[b] = IF b <= Len(j) THEN j[b] ELSE s[b - Len(j)]
  BY <1>1, ConcatProperties, Zenon
<1>5. Len(j) \in Nat /\ Len(s) \in Nat
  BY <1>1
<1>6. BlocksOf(p) = B
  BY DEF BlocksOf, j, s
<1> HIDE DEF B
<1>7. ASSUME NEW b \in 1..Len(B) PROVE B[b] \in T /\ IsTree(B[b])
  <2>1. CASE b <= Len(j)
    <3>1. b \in 1..Len(j) /\ B[b] = j[b]
      BY <1>4, <1>5, <2>1
    <3> QED BY <1>2, <1>4, <3>1
  <2>2. CASE b > Len(j)
    <3> DEFINE c == b - Len(j)
    <3>1. c \in 1..Len(s) /\ B[b] = s[c]
      BY <1>4, <1>5, <2>2
    <3> HIDE DEF c
    <3> QED BY <1>3, <1>4, <3>1
  <2> QED BY <1>4, <1>5, <2>1, <2>2
<1>8. Len(B) \in Nat /\ DOMAIN B = 1..Len(B)
  BY <1>4
<1> QED BY <1>4, <1>5, <1>6, <1>7, <1>8 DEF T, j

(* A page that has just been loaded. *)
LEMMA ScanStarts ==
    ASSUME NEW p, IsPage(p)
    PROVE  ScanOK(p, NoScan)
<1>1. Len(BlocksOf(p)) \in Nat /\ DOMAIN BlocksOf(p) = 1..Len(BlocksOf(p))
  BY PageBlocks
<1>2. NoScan \in [block: 0..Len(BlocksOf(p)) + 1, stack: Seq([node: Nat, depth: Nat]),
                  visited: Nat, partial: Nat, kept: Places \cup {NoSource}]
  <2>1. <<>> \in Seq([node: Nat, depth: Nat])
    BY EmptySeq
  <2> DEFINE Stacks == Seq([node: Nat, depth: Nat])
  <2>2. <<>> \in Stacks
    BY <2>1
  <2>3. 0 \in 0..Len(BlocksOf(p)) + 1
    BY <1>1
  <2> HIDE DEF Stacks
  <2>4. NoScan \in [block: 0..Len(BlocksOf(p)) + 1, stack: Stacks,
                    visited: Nat, partial: Nat, kept: Places \cup {NoSource}]
    BY <2>2, <2>3 DEF NoScan
  <2> QED BY <2>4 DEF Stacks
<1>3. /\ NoScan.block = 0 /\ NoScan.stack = <<>> /\ NoScan.kept = NoSource
  BY DEF NoScan
<1>4. Blocked(p, 0) = {} /\ States(p, 0) = {}
  BY <1>1 DEF Blocked, States
<1>5. PlacesIn(p, "product", {}) = {} /\ PlacesIn(p, "name", {}) = {}
  BY DEF PlacesIn
<1>6. NoScan.block \notin DOMAIN BlocksOf(p)
  BY <1>1, <1>3
<1>7. PlacesIn(p, "product", Blocked(p, NoScan.block)) = {}
  BY <1>3, <1>4, <1>5, Zenon
<1>8. PlacesIn(p, "name", States(p, NoScan.block)) = {}
  BY <1>3, <1>4, <1>5, Zenon
<1> QED BY <1>2, <1>3, <1>6, <1>7, <1>8 DEF ScanOK

(* VisitNode keeps the invariant: it is a step of the search of one block. *)
LEMMA VisitKeepsScan ==
    ASSUME ScanInv, VisitNode PROVE ScanInv'
<1> DEFINE b == scan.block
           t == Blocks[b]
           stack == scan.stack
           top == Last(stack)
           pushed == IF top.depth >= MaxDepth THEN <<>> ELSE Pushed(top.node, top.depth)
           new == Front(stack) \o pushed
           name == IF scan.partial = 0 /\ t[top.node].has = "name" THEN top.node ELSE scan.partial
<1>1. IsPage(page) /\ ScanOK(page, scan) /\ Blocks = BlocksOf(page)
  BY DEF ScanInv, Blocks, BlocksOf
<1>2. /\ stack # <<>> /\ scan.visited < MaxNodes /\ t[top.node].has # "product"
      /\ page' = page
      /\ scan' = [scan EXCEPT !.stack = new, !.visited = scan.visited + 1, !.partial = name]
  BY DEF VisitNode, Searching, Tree
<1>3. b \in DOMAIN Blocks /\ SearchOK(t, stack, scan.visited, scan.partial)
  BY <1>1, <1>2 DEF ScanOK
<1>4. t \in Seq(Nodes) /\ IsTree(t) /\ t = Tree
  BY <1>1, <1>3, PageBlocks DEF Tree
<1> HIDE DEF t
<1>5. /\ top = stack[Len(stack)] /\ top \in Entries(t) /\ top.depth = t[top.node].depth
      /\ NextNode(t, stack) = top.node /\ top.node \in 1..Len(t)
  <2>1. StackOK(t, stack) /\ top = stack[Len(stack)]
    BY <1>3 DEF SearchOK, Last
  <2> HIDE DEF top, stack
  <2> QED BY <1>2, <1>4, <2>1, TopOfStack
<1> HIDE DEF top
<1>6. Visits(t, stack, new)
  <2>1. MaxDepth \in Nat /\ top.depth \in Nat
    BY <1>4, <1>5, TreesHaveDepths, ScanLimitsArePositive
  <2>2. CASE top.depth >= MaxDepth
    <3>1. pushed = <<>>
      BY <2>2
    <3> QED BY <1>5, <2>2, <3>1 DEF Visits
  <2>3. CASE top.depth < MaxDepth
    <3>1. pushed = Pushed(top.node, top.depth)
      BY <2>1, <2>3
    <3>2. Pushes(t, top.node, Pushed(top.node, top.depth))
      BY <1>4, <1>5, <2>3, PushedAreChildren
    <3> HIDE DEF pushed
    <3>3. Pushes(t, top.node, pushed)
      BY <3>1, <3>2
    <3> QED BY <1>5, <2>3, <3>3 DEF Visits
  <2> QED BY <2>1, <2>2, <2>3
<1>7. SearchOK(t, new, scan.visited + 1, name)
  <2>1. name = IF scan.partial = 0 /\ t[top.node].has = "name" THEN top.node ELSE scan.partial
    OBVIOUS
  <2>2. top.node = NextNode(t, stack)
    BY <1>5
  <2> HIDE DEF name, new, stack
  <2> QED BY <1>2, <1>3, <1>4, <1>6, <2>1, <2>2, SearchStep
<1>8. new \in Seq([node: Nat, depth: Nat])
  <2>1. new \in Seq(Entries(t))
    BY <1>7 DEF SearchOK, StackOK
  <2>2. Entries(t) \subseteq [node: Nat, depth: Nat]
    BY DEF Entries
  <2> DEFINE A == Entries(t)
             B == [node: Nat, depth: Nat]
  <2>3. new \in Seq(A) /\ A \subseteq B
    BY <2>1, <2>2
  <2> HIDE DEF new, A, B
  <2>4. new \in Seq(B)
    BY <2>3
  <2> QED BY <2>4 DEF B
<1>9. scan.visited + 1 \in Nat /\ name \in Nat
  BY <1>1, <1>5 DEF ScanOK
<1> HIDE DEF new, name, stack
<1>10. /\ scan'.block = b /\ scan'.kept = scan.kept
       /\ scan'.stack = new /\ scan'.visited = scan.visited + 1 /\ scan'.partial = name
       /\ scan' \in [block: 0..Len(BlocksOf(page)) + 1, stack: Seq([node: Nat, depth: Nat]),
                     visited: Nat, partial: Nat, kept: Places \cup {NoSource}]
  BY <1>1, <1>2, <1>8, <1>9 DEF ScanOK
<1>11. ScanOK(page, scan')
  BY <1>1, <1>3, <1>7, <1>10 DEF ScanOK, t
<1> QED BY <1>1, <1>2, <1>11 DEF ScanInv

(* NextBlock keeps it: a block is left when all of it within the limits    *)
(* has been seen, and the first name of the embedded state is kept.        *)
LEMMA NextBlockKeepsScan ==
    ASSUME ScanInv, NextBlock PROVE ScanInv'
<1> DEFINE b == scan.block
           c == b + 1
           t == Blocks[b]
           u == Blocks[c]
           keep == FromState(b) /\ scan.kept = NoSource /\ scan.partial # 0
           kept == IF keep THEN Place(b, scan.partial) ELSE scan.kept
           next == ScanOf(c, kept)
<1>1. IsPage(page) /\ ScanOK(page, scan) /\ Blocks = BlocksOf(page)
  BY DEF ScanInv, Blocks, BlocksOf
<1>2. /\ Len(Blocks) \in Nat /\ DOMAIN Blocks = 1..Len(Blocks) /\ Len(page.json) \in Nat
      /\ \A i \in 1..Len(Blocks) : Blocks[i] \in Seq(Nodes) /\ IsTree(Blocks[i])
  BY <1>1, PageBlocks
<1>3. /\ scan.stack = <<>> \/ ~(scan.visited < MaxNodes)
      /\ b <= Len(Blocks) /\ scan' = next /\ page' = page
  BY DEF NextBlock, Searching
<1>4. /\ b \in 0..Len(Blocks) + 1 /\ scan.visited \in Nat /\ scan.partial \in Nat
      /\ scan.kept \in Places \cup {NoSource}
      /\ b \in DOMAIN Blocks => SearchOK(t, scan.stack, scan.visited, scan.partial)
      /\ PlacesIn(page, "product", Blocked(page, b)) = {}
      /\ \/ scan.kept = NoSource /\ PlacesIn(page, "name", States(page, b)) = {}
         \/ IsFirst(scan.kept, PlacesIn(page, "name", States(page, b)))
  BY <1>1 DEF ScanOK
<1>5. c \in 1..Len(Blocks) + 1 /\ b \in 0..Len(Blocks)
  BY <1>2, <1>3, <1>4
\* What the search of this block has seen is what there is to see.
<1>6. ASSUME b \in DOMAIN Blocks
      PROVE  /\ \A m \in Limits(t) : m \in Nat /\ t[m].has # "product"
             /\ scan.partial = 0 => \A m \in Limits(t) : t[m].has # "name"
             /\ scan.partial # 0 =>
                   /\ scan.partial \in Limits(t) /\ t[scan.partial].has = "name"
                   /\ \A m \in Limits(t) : t[m].has = "name" => scan.partial <= m
  <2>1. t \in Seq(Nodes) /\ SearchOK(t, scan.stack, scan.visited, scan.partial)
    BY <1>2, <1>4, <1>6
  <2>2. scan.stack = <<>> \/ scan.visited >= MaxNodes
    BY <1>3, <1>4, ScanLimitsArePositive
  <2> HIDE DEF t
  <2>3. Limits(t) = Seen(t, scan.stack)
    BY <2>1, <2>2, SearchedAll
  <2>4. \A m \in Limits(t) : m \in Nat
    BY DEF Limits, Shallow
  <2> QED BY <2>1, <2>3, <2>4 DEF SearchOK
<1>7. /\ next.block = c /\ next.visited = 0 /\ next.partial = 0 /\ next.kept = kept
      /\ next.stack = IF c > Len(Blocks) \/ u = <<>> THEN <<>>
                      ELSE <<[node |-> 1, depth |-> 0]>>
  BY DEF ScanOf
<1>8. ASSUME c \in DOMAIN Blocks PROVE SearchOK(u, next.stack, 0, 0)
  <2>1. u \in Seq(Nodes) /\ IsTree(u)
    BY <1>2, <1>8
  <2>2. next.stack = IF u = <<>> THEN <<>> ELSE <<[node |-> 1, depth |-> 0]>>
    BY <1>2, <1>7, <1>8
  <2> HIDE DEF u, next
  <2> QED BY <2>1, <2>2, SearchStarts
<1>9. c \notin DOMAIN Blocks => next.stack = <<>>
  BY <1>2, <1>5, <1>7
<1>10. PlacesIn(page, "product", Blocked(page, c)) = {}
  <2> SUFFICES ASSUME NEW q \in PlacesIn(page, "product", Blocked(page, c)) PROVE FALSE
    OBVIOUS
  <2>1. /\ q \in Places /\ q.block \in DOMAIN Blocks /\ q.block < c
        /\ q.node \in Limits(Blocks[q.block]) /\ Blocks[q.block][q.node].has = "product"
    BY <1>1 DEF PlacesIn, Blocked
  <2>2. CASE q.block = b
    BY <1>6, <2>1, <2>2
  <2>3. CASE q.block # b
    <3>1. q.block < b
      BY <1>2, <1>5, <2>1, <2>3
    <3>2. q \in PlacesIn(page, "product", Blocked(page, b))
      BY <1>1, <2>1, <3>1 DEF PlacesIn, Blocked
    <3> QED BY <1>4, <3>2
  <2> QED BY <2>2, <2>3
\* The names before the next block.
<1>11. ASSUME NEW q \in PlacesIn(page, "name", States(page, c))
       PROVE  \/ q \in PlacesIn(page, "name", States(page, b))
              \/ /\ q.block = b /\ b \in DOMAIN Blocks /\ FromState(b)
                 /\ q.node \in Limits(t) /\ t[q.node].has = "name"
  <2>1. /\ q \in Places /\ q.block \in DOMAIN Blocks /\ q.block < c
        /\ q.block > Len(page.json)
        /\ q.node \in Limits(Blocks[q.block]) /\ Blocks[q.block][q.node].has = "name"
    BY <1>1 DEF PlacesIn, States
  <2>2. CASE q.block = b
    BY <2>1, <2>2 DEF FromState
  <2>3. CASE q.block # b
    <3>1. q.block < b
      BY <1>2, <1>5, <2>1, <2>3
    <3> QED BY <1>1, <2>1, <3>1 DEF PlacesIn, States
  <2> QED BY <2>2, <2>3
<1>12. PlacesIn(page, "name", States(page, b)) \subseteq PlacesIn(page, "name", States(page, c))
  <2>1. States(page, b) \subseteq States(page, c)
    BY <1>1, <1>2, <1>5 DEF States
  <2> QED BY <2>1 DEF PlacesIn
<1>13. \/ kept = NoSource /\ PlacesIn(page, "name", States(page, c)) = {}
       \/ IsFirst(kept, PlacesIn(page, "name", States(page, c)))
  <2>1. CASE scan.kept # NoSource
    <3>1. kept = scan.kept /\ IsFirst(kept, PlacesIn(page, "name", States(page, b)))
      BY <1>4, <2>1
    <3>2. kept.block < b /\ kept \in PlacesIn(page, "name", States(page, c))
      BY <1>12, <3>1 DEF IsFirst, PlacesIn, States
    <3>3. ASSUME NEW q \in PlacesIn(page, "name", States(page, c)) PROVE Precedes(kept, q)
      BY <1>11, <3>1, <3>2 DEF IsFirst, Precedes
    <3> QED BY <3>2, <3>3 DEF IsFirst
  <2>2. CASE scan.kept = NoSource
    <3>1. PlacesIn(page, "name", States(page, b)) = {}
      BY <1>4, <2>2, NoSourceIsNew DEF IsFirst, PlacesIn, Places
    <3>2. CASE keep
      <4>1. b \in DOMAIN Blocks /\ kept = Place(b, scan.partial) /\ b > Len(page.json)
        BY <1>2, <1>5, <3>2 DEF FromState
      <4>2. /\ scan.partial \in Limits(t) /\ t[scan.partial].has = "name"
            /\ \A m \in Limits(t) : t[m].has = "name" => scan.partial <= m
        BY <1>6, <3>2, <4>1
      <4>3. kept \in Places /\ kept.block = b /\ kept.node = scan.partial /\ b \in States(page, c)
        BY <1>1, <1>2, <1>4, <1>5, <4>1 DEF Place, Places, States
      <4>4. kept \in PlacesIn(page, "name", States(page, c))
        BY <1>1, <4>2, <4>3 DEF PlacesIn
      <4>5. ASSUME NEW q \in PlacesIn(page, "name", States(page, c)) PROVE Precedes(kept, q)
        BY <1>11, <3>1, <4>2, <4>3 DEF Precedes
      <4> QED BY <4>4, <4>5 DEF IsFirst
    <3>3. CASE ~keep
      <4>1. kept = NoSource /\ (~FromState(b) \/ scan.partial = 0)
        BY <2>2, <3>3
      <4>2. PlacesIn(page, "name", States(page, c)) = {}
        <5> SUFFICES ASSUME NEW q \in PlacesIn(page, "name", States(page, c)) PROVE FALSE
          OBVIOUS
        <5> QED BY <1>6, <1>11, <3>1, <4>1
      <4> QED BY <4>1, <4>2
    <3> QED BY <3>2, <3>3
  <2> QED BY <2>1, <2>2
<1>14. kept \in Places \cup {NoSource}
  BY <1>4, <1>5 DEF Place, Places
<1>15. next \in [block: 0..Len(Blocks) + 1, stack: Seq([node: Nat, depth: Nat]),
                 visited: Nat, partial: Nat, kept: Places \cup {NoSource}]
  <2> DEFINE E == [node: Nat, depth: Nat]
             e == [node |-> 1, depth |-> 0]
  <2>1. e \in E
    OBVIOUS
  <2>2. <<>> \in Seq(E) /\ <<e>> \in Seq(E)
    <3> HIDE DEF E, e
    <3> QED BY <2>1
  <2>3. next.stack \in Seq(E)
    BY <1>7, <2>2
  <2>4. next = [block |-> c, stack |-> next.stack, visited |-> 0, partial |-> 0, kept |-> kept]
    BY DEF ScanOf
  <2> DEFINE st == next.stack
  <2> HIDE DEF E, next, kept, st
  <2> QED BY <1>2, <1>5, <1>14, <2>3, <2>4 DEF E, st
<1> HIDE DEF next, kept
<1>16. ScanOK(page, next)
  BY <1>1, <1>7, <1>8, <1>9, <1>10, <1>13, <1>15 DEF ScanOK
<1> QED BY <1>1, <1>3, <1>16 DEF ScanInv

(* The places the expected product is chosen from are those of the         *)
(* invariant.                                                              *)
LEMMA PlacesAreThese ==
    ASSUME ScanInv, NEW has, NEW I \in SUBSET DOMAIN Blocks
    PROVE  PlacesOf(has, I) = PlacesIn(page, has, I)
<1>1. /\ Blocks = BlocksOf(page) /\ DOMAIN Blocks = 1..Len(Blocks)
      /\ \A b \in DOMAIN Blocks : Blocks[b] \in Seq(Nodes)
  <2>1. IsPage(page) /\ Blocks = BlocksOf(page)
    BY DEF ScanInv, Blocks, BlocksOf
  <2> QED BY <2>1, PageBlocks
<1>2. ASSUME NEW b \in DOMAIN Blocks PROVE WithinLimits(b) = Limits(Blocks[b])
  <2> DEFINE t == Blocks[b]
  <2>1. t \in Seq(Nodes)
    BY <1>1, <1>2
  <2>2. WithinLimits(b) = {n \in Shallow(t) : Cardinality({m \in Shallow(t) : m <= n}) <= MaxNodes}
    <3>1. DOMAIN t = 1..Len(t)
      BY <2>1
    <3>2. {n \in DOMAIN Blocks[b] : Blocks[b][n].depth <= MaxDepth} = Shallow(t)
      BY <3>1 DEF Shallow
    <3> QED BY <3>2 DEF WithinLimits
  <2> QED BY <2>2 DEF Limits, UpTo
<1>3. ASSUME NEW q PROVE q \in PlacesOf(has, I) <=> q \in PlacesIn(page, has, I)
  <2>1. ASSUME q \in PlacesOf(has, I) PROVE q \in PlacesIn(page, has, I)
    <3>1. PICK b \in I : q \in {Place(b, n) : n \in {m \in WithinLimits(b) : Blocks[b][m].has = has}}
      BY <2>1 DEF PlacesOf
    <3>2. PICK n \in WithinLimits(b) : Blocks[b][n].has = has /\ q = Place(b, n)
      BY <3>1
    <3>3. n \in Limits(Blocks[b]) /\ n \in Nat /\ b \in Nat
      BY <1>1, <1>2 DEF Limits, Shallow
    <3>4. q \in Places /\ q.block = b /\ q.node = n
      BY <3>2, <3>3 DEF Place, Places
    <3> QED BY <1>1, <3>2, <3>3, <3>4 DEF PlacesIn
  <2>2. ASSUME q \in PlacesIn(page, has, I) PROVE q \in PlacesOf(has, I)
    <3>1. /\ q.block \in I /\ q.node \in WithinLimits(q.block)
          /\ Blocks[q.block][q.node].has = has /\ q = Place(q.block, q.node)
      BY <1>1, <1>2, <2>2 DEF PlacesIn, Places, Place
    <3>2. q \in {Place(q.block, n) : n \in {m \in WithinLimits(q.block) : Blocks[q.block][m].has = has}}
      BY <3>1
    <3> QED BY <3>1, <3>2 DEF PlacesOf
  <2> QED BY <2>1, <2>2
<1> QED BY <1>3

(* There is only one first place.                                          *)
LEMMA FirstIsUnique ==
    ASSUME NEW S \in SUBSET Places, NEW q, IsFirst(q, S)
    PROVE  FirstOf(S) = q
<1>1. S # {} /\ q \in S /\ \A r \in S : Precedes(q, r)
  BY DEF IsFirst
<1>2. \A p \in S : (\A r \in S : Precedes(p, r)) => p = q
  <2> SUFFICES ASSUME NEW p \in S, Precedes(p, q), Precedes(q, p) PROVE p = q
    BY <1>1
  <2>1. p \in Places /\ q \in Places
    BY <1>1
  <2>2. p.block = q.block /\ p.node = q.node
    BY <2>1 DEF Places, Precedes
  <2> QED BY <2>1, <2>2 DEF Places
<1> QED BY <1>1, <1>2 DEF FirstOf

(* When the search is over it has found what it should. *)
LEMMA ScanFindsFirst ==
    ASSUME ScanInv, ScanIsOver PROVE ParsedProduct = ExpectedProduct
<1> DEFINE b == scan.block
           D == DOMAIN Blocks
           states == {i \in D : FromState(i)}
           t == Blocks[b]
<1>1. IsPage(page) /\ ScanOK(page, scan) /\ Blocks = BlocksOf(page)
  BY DEF ScanInv, Blocks, BlocksOf
<1>2. /\ Len(Blocks) \in Nat /\ D = 1..Len(Blocks) /\ Len(page.json) \in Nat
      /\ \A i \in 1..Len(Blocks) : Blocks[i] \in Seq(Nodes) /\ IsTree(Blocks[i])
  BY <1>1, PageBlocks
<1>3. /\ b \in 0..Len(Blocks) + 1
      /\ b \in D => SearchOK(t, scan.stack, scan.visited, scan.partial)
      /\ b \notin D => scan.stack = <<>>
      /\ PlacesIn(page, "product", Blocked(page, b)) = {}
      /\ \/ scan.kept = NoSource /\ PlacesIn(page, "name", States(page, b)) = {}
         \/ IsFirst(scan.kept, PlacesIn(page, "name", States(page, b)))
  BY <1>1 DEF ScanOK
<1>4. /\ PlacesOf("product", D) = PlacesIn(page, "product", D)
      /\ PlacesOf("name", states) = PlacesIn(page, "name", states)
  BY PlacesAreThese
<1>5. CASE FoundProduct
  <2> DEFINE n == Last(scan.stack).node
             found == Place(b, n)
  <2>1. scan.stack # <<>> /\ scan.visited < MaxNodes /\ t[n].has = "product" /\ b \in D
    BY <1>3, <1>5 DEF FoundProduct, Searching, Tree
  <2>2. t \in Seq(Nodes) /\ IsTree(t) /\ n = scan.stack[Len(scan.stack)].node
    BY <1>2, <2>1 DEF Last
  <2>3. n \in Limits(t) /\ \A m \in Shallow(t) : m < n => m \in Seen(t, scan.stack)
    <3> HIDE DEF t, n
    <3> QED BY <1>3, <2>1, <2>2, TopIsNext
  <2>4. \A m \in Seen(t, scan.stack) : t[m].has # "product"
    BY <1>3, <2>1 DEF SearchOK
  <2>5. \A m \in Limits(t) : m \in Shallow(t) /\ m \in Nat
    BY DEF Limits, Shallow
  <2>6. found \in Places /\ found.block = b /\ found.node = n
    BY <1>3, <2>3, <2>5 DEF Place, Places
  <2>7. IsFirst(found, PlacesIn(page, "product", D))
    <3>1. found \in PlacesIn(page, "product", D)
      BY <1>1, <2>1, <2>3, <2>6 DEF PlacesIn
    <3>2. ASSUME NEW q \in PlacesIn(page, "product", D) PROVE Precedes(found, q)
      <4>1. /\ q \in Places /\ q.block \in D
            /\ q.node \in Limits(Blocks[q.block]) /\ Blocks[q.block][q.node].has = "product"
        BY <1>1 DEF PlacesIn
      <4>2. ~(q.block < b)
        <5>1. q.block < b => q \in PlacesIn(page, "product", Blocked(page, b))
          BY <1>1, <4>1 DEF PlacesIn, Blocked
        <5> QED BY <1>3, <5>1
      <4>3. q.block = b => ~(q.node < n)
        BY <2>3, <2>4, <2>5, <4>1
      <4>4. q.block \in Nat /\ q.node \in Nat /\ n \in Nat /\ b \in Nat
        BY <2>6, <4>1 DEF Places
      <4> QED BY <2>6, <4>2, <4>3, <4>4 DEF Precedes
    <3> QED BY <3>1, <3>2 DEF IsFirst
  <2>8. FirstOf(PlacesOf("product", D)) = found /\ found # NoSource
    <3>1. PlacesIn(page, "product", D) \in SUBSET Places
      BY DEF PlacesIn
    <3> HIDE DEF found
    <3> QED BY <1>4, <2>6, <2>7, <3>1, FirstIsUnique, NoSourceIsNew DEF Places
  <2>9. ParsedProduct = WithStructured(found, found)
    BY <1>5 DEF ParsedProduct
  <2> HIDE DEF found
  <2> QED BY <2>8, <2>9 DEF ExpectedProduct
<1>6. CASE ~FoundProduct
  <2>1. b > Len(Blocks)
    BY <1>6 DEF ScanIsOver
  <2>2. Blocked(page, b) = D /\ States(page, b) = states
    BY <1>1, <1>2, <1>3, <2>1 DEF Blocked, States, FromState
  <2>3. FirstOf(PlacesOf("product", D)) = NoSource
    BY <1>3, <1>4, <2>2 DEF FirstOf
  <2>4. FirstOf(PlacesOf("name", states)) = scan.kept
    <3> DEFINE names == PlacesIn(page, "name", states)
    <3>1. names \in SUBSET Places
      BY DEF PlacesIn
    <3>2. (scan.kept = NoSource /\ names = {}) \/ IsFirst(scan.kept, names)
      BY <1>3, <2>2
    <3> HIDE DEF names
    <3>3. FirstOf(names) = scan.kept
      BY <3>1, <3>2, FirstIsUnique DEF FirstOf
    <3> QED BY <1>4, <3>3 DEF names
  <2>5. ParsedProduct = WithStructured(NoSource, scan.kept)
    BY <1>6 DEF ParsedProduct
  <2> QED BY <2>3, <2>4, <2>5 DEF ExpectedProduct
<1> QED BY <1>5, <1>6

(* The page before any is loaded.                                          *)
LEMMA EmptyPage == IsPage(NoPage)
<1> DEFINE T == Seq(Nodes)
<1>1. <<>> \in Seq(T)
  <2> HIDE DEF T
  <2> QED BY EmptySeq
<1>2. NoPage.json = <<>> /\ NoPage.state = <<>> /\ DOMAIN <<>> = {}
  BY DEF NoPage
<1> HIDE DEF T
<1>3. {NoPage.json, NoPage.state} \subseteq Seq(T)
  BY <1>1, <1>2
<1>4. \A source \in {NoPage.json, NoPage.state} : DOMAIN source = {}
  BY <1>2
<1> QED BY <1>3, <1>4 DEF IsPage, T

(* No page, no search.                                                     *)
LEMMA ScanInitially == ImportInit => ScanInv
<1> SUFFICES ASSUME ImportInit PROVE ScanInv
  OBVIOUS
<1>1. page = NoPage /\ scan = NoScan
  BY DEF ImportInit
<1>2. IsPage(NoPage)
  BY EmptyPage
<1> QED BY <1>1, <1>2, ScanStarts DEF ScanInv

(* Whatever an import does, the search knows what it must.                 *)
LEMMA ScanStays == ScanInv /\ [ImportNext]_importVars => ScanInv'
<1> SUFFICES ASSUME ScanInv, [ImportNext]_importVars PROVE ScanInv'
  OBVIOUS
<1>1. ASSUME UNCHANGED scanVars PROVE ScanInv'
  BY <1>1 DEF ScanInv, scanVars
<1>2. ASSUME LoadPage(Pages) \/ LoadPage({NoPage}) PROVE ScanInv'
  <2>1. page' \in Pages \cup {NoPage} /\ scan' = NoScan
    BY <1>2 DEF LoadPage
  <2>2. IsPage(page')
    BY <2>1, EmptyPage, PagesArePages
  <2>3. ScanOK(page', NoScan)
    BY <2>2, ScanStarts
  <2> QED BY <2>1, <2>2, <2>3 DEF ScanInv
<1>3. ASSUME ScanStep PROVE ScanInv'
  BY <1>3, VisitKeepsScan, NextBlockKeepsScan DEF ScanStep
<1>4. \/ UNCHANGED scanVars
      \/ LoadPage(Pages) \/ LoadPage({NoPage})
      \/ ScanStep
  <2>1. CASE UNCHANGED importVars
    BY <2>1 DEF importVars
  <2>2. CASE Own
    BY <2>2 DEF Own, Validate, Revalidate, ValidateTarget, Connect, Close, Search,
       FinishParse, RequestTimesOut, ReadTimesOut, ScrapeTimesOut, ScrapeEnds
  <2>3. CASE Peer
    BY <2>3 DEF Peer, Refused, Redirected, Rejected, Accepted, ReadPage, ReadFails,
       BodyEnds, Scraped, ScrapeFails, ScrapeEnds, ReadScraped
  <2>4. CASE Fire
    BY <2>4 DEF Fire
  <2>5. CASE NextCall
    BY <2>5 DEF NextCall
  <2> QED BY <2>1, <2>2, <2>3, <2>4, <2>5 DEF ImportNext
<1> QED BY <1>1, <1>2, <1>3, <1>4

(* A product that is answered is the first one within the limits, for      *)
(* every page and every limit: parseProductHtml over findStructuredProduct.*)
THEOREM FirstProductIsFound == ImportSpec => []ProductIsFirst
<1>1. ScanInv => ProductIsFirst
  BY ScanFindsFirst DEF ProductIsFirst
<1>2. ImportSpec => []ScanInv
  BY ScanInitially, ScanStays, PTL DEF ImportSpec
<1> QED BY <1>1, <1>2, PTL

-----------------------------------------------------------------------------
(* The dispatcher of a hop.  With the types, what the steps keep is that   *)
(* an open dispatcher and a response belong to the steps of a hop.         *)
Switches == keyed \in BOOLEAN /\ fired \in BOOLEAN

HopInv ==
    /\ step \in Steps
    /\ hop \in 0..MaxRedirects
    /\ left \in 0..MaxAddresses
    /\ open \in {0, 1}
    /\ body \in {None, "streaming", "ended"}
    /\ pending \in Codes \cup {None, "next", "html"}
    /\ directError \in Mended \cup {None}
    /\ answer \in Codes \cup {None, "200"}
    /\ DispatcherClosed
    /\ step \in {"validate", "revalidate", "connect", "request", "redirect", "read", "close"} =>
          directError = None
    /\ step = "connect" => left >= 1
    /\ step = "redirect" => hop < MaxRedirects
    /\ step = "close" => pending # None /\ (pending = "next" => hop < MaxRedirects /\ left >= 1)

ImportIInv == Switches /\ HopInv

(* The invariant of the hops holds before the first call.                  *)
LEMMA ImportInitially == ImportInit => ImportIInv
<1> SUFFICES ASSUME ImportInit PROVE ImportIInv
  OBVIOUS
<1>1. Switches
  BY Zenon DEF ImportInit, Switches
<1>2. HopInv
  BY HopLimits DEF ImportInit, HopInv, DispatcherClosed, Steps, None, Codes, Mended, Raw
<1> QED BY <1>1, <1>2 DEF ImportIInv

(* The direct way ends in a request to the scraping service or an answer. *)
LEMMA DirectEnds ==
    ASSUME NEW code \in Codes, DirectFails(code)
    PROVE  /\ fired' = FALSE
           /\ \/ step' = "scrape" /\ directError' = code /\ code \in Mended /\ answer' = answer
              \/ step' = "answered" /\ directError' = directError /\ answer' = code
<1>1. fired' = FALSE
  BY Zenon DEF DirectFails, Answer
<1>2. CASE keyed /\ code \in Mended
  <2>1. step' = "scrape" /\ directError' = code /\ UNCHANGED answer
    BY <1>2, Zenon DEF DirectFails
  <2> QED BY <1>1, <1>2, <2>1
<1>3. CASE ~(keyed /\ code \in Mended)
  <2>1. step' = "answered" /\ answer' = code /\ UNCHANGED directError
    BY <1>3, Zenon DEF DirectFails, Answer
  <2> QED BY <1>1, <2>1
<1> QED BY <1>2, <1>3

(* The key is given, and the timer is only set or reset. *)
LEMMA SwitchesStay == Switches /\ [ImportNext]_importVars => Switches'
<1> SUFFICES ASSUME Switches, [ImportNext]_importVars PROVE Switches'
  OBVIOUS
<1>1. keyed' = keyed
  BY DEF ImportNext, importVars, callVars, Own, Peer, Validate, Revalidate, Connect, Refused,
         RequestTimesOut, Redirected, ValidateTarget, Rejected, Accepted, BodyRead, ReadPage,
         ReadFails, ReadTimesOut, BodyEnds, Fire, Close, Search, FinishParse, ScrapeEnds, Scraped,
         ScrapeFails, ScrapeTimesOut, ReadScraped, NextCall
<1>2. fired' \in {TRUE, FALSE, fired}
  <2>1. \A code : DirectFails(code) \/ Answer(code) \/ Fails(code) => fired' = FALSE
    BY Zenon DEF DirectFails, Answer, Fails
  <2>2. CASE UNCHANGED importVars
    BY <2>2, Zenon DEF importVars, callVars
  <2>3. CASE Validate \/ Revalidate \/ FinishParse
    BY <2>1, <2>3, Zenon DEF Validate, Revalidate, FinishParse
  <2>4. CASE Refused \/ RequestTimesOut
    BY <2>1, <2>4, Zenon DEF Refused, RequestTimesOut, ConnectionLost
  <2>5. CASE Close
    <3>1. CASE pending = "next"
      BY <2>5, <3>1, Zenon DEF Close, NextHop
    <3>2. CASE pending = "html"
      BY <2>5, <3>2, Zenon DEF Close
    <3>3. CASE pending # "next" /\ pending # "html"
      BY <2>1, <2>5, <3>3, Zenon DEF Close
    <3> QED BY <3>1, <3>2, <3>3
  <2>6. CASE ScrapeFails \/ ScrapeTimesOut
    BY <2>1, <2>6, Zenon DEF ScrapeFails, ScrapeTimesOut, ScrapeEnds
  <2>7. CASE \/ Connect \/ Redirected \/ ValidateTarget \/ Rejected \/ Accepted \/ ReadPage
             \/ ReadFails \/ ReadTimesOut \/ BodyEnds \/ Fire
    BY <2>7, Zenon DEF Connect, Redirected, ValidateTarget, Rejected, Accepted, ReadPage,
       ReadFails, ReadTimesOut, BodyRead, BodyEnds, Fire
  <2>8. CASE Search \/ Scraped \/ ReadScraped \/ NextCall
    BY <2>8, Zenon DEF Search, callVars, Scraped, ReadScraped, NextCall
  <2> QED BY <2>2, <2>3, <2>4, <2>5, <2>6, <2>7, <2>8, Zenon DEF ImportNext, Own, Peer
<1> QED BY <1>1, <1>2, Zenon DEF Switches

(* Every step of an import keeps it.                                       *)
LEMMA HopsStay == HopInv /\ [ImportNext]_importVars => HopInv'
<1> SUFFICES ASSUME HopInv, [ImportNext]_importVars PROVE HopInv'
  OBVIOUS
<1>0. /\ MaxRedirects \in Nat /\ MaxAddresses \in Nat \ {0}
      /\ \A n \in Candidates : n \in 1..MaxAddresses
  BY HopLimits DEF Candidates
<1> USE DEF HopInv, DispatcherClosed, Steps, None, Codes, Mended, Raw, Answer, Invalid
<1>1. CASE UNCHANGED importVars
  BY <1>1 DEF importVars, callVars
<1>2. CASE Validate
  BY <1>0, <1>2 DEF Validate
<1>3. CASE Revalidate
  <2>1. \/ /\ left' \in Candidates /\ step' = "connect"
           /\ UNCHANGED <<fired, directError, answer>>
        \/ \E code \in Invalid : DirectFails(code) /\ UNCHANGED left
    BY <1>3 DEF Revalidate
  <2>2. step = "revalidate" /\ UNCHANGED <<keyed, hop, open, body, pending>>
    BY <1>3 DEF Revalidate
  <2>3. CASE left' \in Candidates /\ step' = "connect" /\ UNCHANGED <<fired, directError, answer>>
    BY <1>0, <2>2, <2>3
  <2>4. ASSUME NEW code \in Invalid, DirectFails(code), UNCHANGED left PROVE HopInv'
    <3>1. code \in Codes
      OBVIOUS
    <3> QED BY <2>2, <2>4, <3>1, DirectEnds
  <2> QED BY <2>1, <2>3, <2>4
<1>4. CASE ValidateTarget
  BY <1>0, <1>4 DEF ValidateTarget
<1>5. CASE Connect
  BY <1>0, <1>5 DEF Connect
<1>6. CASE Close
  <2>1. step = "close" /\ open' = open - 1 /\ body' = None /\ pending' = None
        /\ UNCHANGED <<keyed, left>>
    BY <1>6 DEF Close
  <2>2. CASE pending = "next"
    <3>1. NextHop
      BY <1>6, <2>2, Zenon DEF Close
    <3> QED BY <1>0, <2>1, <2>2, <3>1 DEF NextHop
  <2>3. CASE pending = "html"
    <3>1. step' = "parse" /\ fired' = FALSE /\ UNCHANGED <<hop, directError, answer>>
      BY <1>6, <2>3, Zenon DEF Close
    <3> QED BY <1>0, <2>1, <2>3, <3>1
  <2>4. CASE pending # "next" /\ pending # "html"
    <3>1. DirectFails(pending) /\ UNCHANGED hop
      BY <1>6, <2>4, Zenon DEF Close
    <3>2. PICK code \in Codes : code = pending
      BY <2>1, <2>4
    <3>3. DirectFails(code)
      BY <3>1, <3>2, Zenon
    <3>4. \/ step' = "scrape" /\ directError' = code /\ code \in Mended /\ answer' = answer
          \/ step' = "answered" /\ directError' = directError /\ answer' = code
      BY <3>3, DirectEnds
    <3> QED BY <1>0, <2>1, <3>1, <3>4
  <2> QED BY <2>2, <2>3, <2>4
<1>7. CASE Search
  BY <1>7 DEF Search, callVars
<1>8. CASE FinishParse
  <2>1. step = "parse" /\ UNCHANGED <<keyed, hop, left, open, body, pending>>
    BY <1>8 DEF FinishParse
  <2>2. \/ Answer("200")
        \/ directError = None /\ DirectFails("PRODUCT_URL4221")
        \/ Answer("PRODUCT_URL4221")
    BY <1>8 DEF FinishParse, Fails
  <2>3. CASE directError = None /\ DirectFails("PRODUCT_URL4221")
    <3>1. "PRODUCT_URL4221" \in Codes
      OBVIOUS
    <3> QED BY <1>0, <2>1, <2>3, <3>1, DirectEnds
  <2> QED BY <1>0, <2>1, <2>2, <2>3
<1>9. CASE RequestTimesOut
  <2>1. step = "request" /\ open' = open - 1 /\ UNCHANGED <<keyed, hop, left, body, pending>>
    BY <1>9 DEF RequestTimesOut, ConnectionLost
  <2>2. \/ left > 0 /\ step' = "connect" /\ UNCHANGED <<fired, directError, answer>>
        \/ DirectFails("PRODUCT_URL5041")
    BY <1>9 DEF RequestTimesOut, ConnectionLost
  <2>3. CASE left > 0 /\ step' = "connect" /\ UNCHANGED <<fired, directError, answer>>
    BY <1>0, <2>1, <2>3
  <2>4. CASE DirectFails("PRODUCT_URL5041")
    <3>1. "PRODUCT_URL5041" \in Codes
      OBVIOUS
    <3> QED BY <1>0, <2>1, <2>4, <3>1, DirectEnds
  <2> QED BY <2>2, <2>3, <2>4
<1>10. CASE ReadTimesOut
  BY <1>10 DEF ReadTimesOut, BodyRead
<1>11. CASE ScrapeTimesOut
  BY <1>11 DEF ScrapeTimesOut, ScrapeEnds
<1>12. CASE Refused
  <2>1. step = "request" /\ open' = open - 1 /\ UNCHANGED <<keyed, hop, left, body, pending>>
    BY <1>12 DEF Refused, ConnectionLost
  <2>2. \/ left > 0 /\ step' = "connect" /\ UNCHANGED <<fired, directError, answer>>
        \/ DirectFails("PRODUCT_URL5021")
    BY <1>12 DEF Refused, ConnectionLost
  <2>3. CASE left > 0 /\ step' = "connect" /\ UNCHANGED <<fired, directError, answer>>
    BY <1>0, <2>1, <2>3
  <2>4. CASE DirectFails("PRODUCT_URL5021")
    <3>1. "PRODUCT_URL5021" \in Codes
      OBVIOUS
    <3> QED BY <1>0, <2>1, <2>4, <3>1, DirectEnds
  <2> QED BY <2>2, <2>3, <2>4
<1>13. CASE Redirected
  BY <1>0, <1>13 DEF Redirected
<1>14. CASE Rejected
  BY <1>14 DEF Rejected
<1>15. CASE Accepted
  BY <1>15 DEF Accepted
<1>16. CASE ReadPage
  BY <1>16 DEF ReadPage, BodyRead
<1>17. CASE ReadFails
  BY <1>17 DEF ReadFails, BodyRead
<1>18. CASE BodyEnds
  BY <1>18 DEF BodyEnds
<1>19. CASE Scraped
  BY <1>19 DEF Scraped
<1>20. CASE ScrapeFails
  BY <1>20 DEF ScrapeFails, ScrapeEnds
<1>21. CASE ReadScraped
  BY <1>21 DEF ReadScraped
<1>22. CASE Fire
  BY <1>22 DEF Fire
<1>23. CASE NextCall
  BY <1>0, <1>23 DEF NextCall
<1> QED BY <1>1, <1>2, <1>3, <1>4, <1>5, <1>6, <1>7, <1>8, <1>9, <1>10, <1>11, <1>12,
           <1>13, <1>14, <1>15, <1>16, <1>17, <1>18, <1>19, <1>20, <1>21, <1>22, <1>23
        DEF ImportNext, Own, Peer

(* Both halves together.                                                   *)
LEMMA ImportStays == ImportIInv /\ [ImportNext]_importVars => ImportIInv'
  BY SwitchesStay, HopsStay DEF ImportIInv

(* The program types: every variable of an import keeps its range. *)
THEOREM ImportTypesAreKept == ImportSpec => []ImportTypeOK
<1>1. ImportIInv => ImportTypeOK
  BY Zenon DEF ImportIInv, Switches, HopInv, ImportTypeOK
<1> QED BY <1>1, ImportInitially, ImportStays, PTL DEF ImportSpec

(* No import leaves a dispatcher open, whichever way a hop ends, with any  *)
(* number of addresses and redirects (requestPinnedAddresses and the       *)
(* finally block of fetchProductPage).                                     *)
THEOREM NoDispatcherStaysOpen == ImportSpec => []DispatcherClosed
<1>1. ImportIInv => DispatcherClosed
  BY DEF ImportIInv, HopInv
<1> QED BY <1>1, ImportInitially, ImportStays, PTL DEF ImportSpec
=============================================================================
