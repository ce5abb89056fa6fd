------------------------------ MODULE Records ------------------------------
(***************************************************************************)
(* The consumption records of one account                                  *)
(* (src/src/features/consumption-records/consumption-records.service.js).  *)
(* A record keeps the hours of work its price stood for when it was        *)
(* written, and the answers the user gave to the intervention questions.   *)
(*                                                                         *)
(* Creating or changing a record is a transaction at the database's        *)
(* default isolation: it reads the wage without a lock and writes later,   *)
(* and other requests run between.  Its writes are one step: the row it    *)
(* changes is locked until the commit and, when only answers are given,    *)
(* the answers it deletes and the gap they leave are.  Each call is a      *)
(* single request; an answer is named by the request that gave it.         *)
(*                                                                         *)
(* All amounts are counted in hundredths of a won, the scale of the price  *)
(* column, DECIMAL(12, 2); a wage is a whole number of won (BIGINT).  A    *)
(* price in a body has no finer part: the column would round that off, but *)
(* only after the hours are computed.                                      *)
(***************************************************************************)
EXTENDS Integers, FiniteSets

CONSTANTS
    Calls,        \* requests
    MaxRecords,   \* bound: records ever created
    MaxTime,      \* bound: the latest time
    Questions,    \* the active intervention questions
    Bodies,       \* bodies of requests that create a record
    Patches,      \* bodies of requests that change one
    Wages,        \* hourly wages an account may have; 0 stands for NULL
    Starts,       \* situations the requests find: [table, wage, now, calls, ...]
    Null,         \* SQL's NULL, an absent row, and what was not read
    Gone          \* the wage of an account that was deleted

Ids == 1..MaxRecords
Times == 0..MaxTime
Types == {"CONSUMED", "SKIPPED"}

(* A stored record without its hours and answers. *)
Told == {"type", "price", "category", "at"}

(* A won in the unit of the amounts. *)
Won == 100

ASSUME WagesAreWhole == \A w \in Wages : w \in Nat /\ w % Won = 0
ASSUME BoundsAreNaturals == MaxRecords \in Nat /\ MaxTime \in Nat
ASSUME NullIsNew == Null \notin Nat \cup Calls /\ Gone \notin Nat
ASSUME BodiesAreWhole ==
    \A b \in Bodies : /\ DOMAIN b = Told \cup {"answers"}
                      /\ b.type \in Types /\ b.price \in Nat
                      /\ b.at \in Times \cup {Null}
                      /\ b.answers \subseteq Questions
ASSUME PatchesArePartial ==
    \A p \in Patches : /\ DOMAIN p \subseteq Told \cup {"answers"}
                       /\ "type" \in DOMAIN p => p.type \in Types
                       /\ "price" \in DOMAIN p => p.price \in Nat
                       /\ "at" \in DOMAIN p => p.at \in Times
                       /\ "answers" \in DOMAIN p => p.answers \subseteq Questions

ASSUME StartsAreWhole ==
    \A s \in Starts :
        /\ s.wage \in Wages /\ s.now \in Times /\ s.calls \in {"idle", "done"}
        /\ DOMAIN s.table \subseteq Ids /\ Cardinality(DOMAIN s.table) \in 0..MaxRecords
        /\ \A id \in DOMAIN s.table : /\ s.table[id].type \in Types
                                     /\ s.table[id].price \in Nat
                                     /\ s.table[id].at \in Times

VARIABLES
    rows,     \* the records of the account, Null where there is none
    nextId,   \* the AUTO_INCREMENT counter
    wage,     \* users.hourlyWage
    had,      \* every wage the account has had
    now,
    call      \* the requests: their step, body, record, and the wage they read

recordVars == <<rows, nextId, wage, had, now, call>>

-----------------------------------------------------------------------------
(* calculateWorkHoursNeeded, in hundredths, half up. *)
Hours(price, w) == IF w = 0 THEN Null ELSE (200 * price + w) \div (2 * w)

Answers(c, questions) == [q \in Questions |-> IF q \in questions THEN c ELSE Null]

Idle == [step |-> "idle", body |-> Null, id |-> Null, wage |-> Null]
Done == [step |-> "done", body |-> Null, id |-> Null, wage |-> Null]

End(c) == call' = [call EXCEPT ![c] = Done]

(* Records that were written while the wage was w, without answers. *)
Written(table, w) ==
    [id \in Ids |->
        IF id \notin DOMAIN table THEN Null
        ELSE [type |-> table[id].type, price |-> table[id].price,
              category |-> table[id].category, at |-> table[id].at,
              hours |-> Hours(table[id].price, w), answers |-> Answers(Null, {})]]

(* Calls that are done in a start leave it as it is. *)
RecordsFrom(s) ==
    /\ rows = Written(s.table, s.wage)
    /\ nextId = Cardinality(DOMAIN s.table) + 1
    /\ wage = s.wage
    /\ had = {s.wage}
    /\ now = s.now
    /\ call = [c \in Calls |-> IF s.calls = "idle" THEN Idle ELSE Done]

RecordsInit == \E s \in Starts : RecordsFrom(s)

-----------------------------------------------------------------------------
(* createConsumptionRecord, up to its reads: a missing time is now.  An    *)
(* account that is gone is answered 404.                                   *)
StartCreate(c) ==
    /\ call[c].step = "idle"
    /\ wage # Gone
    /\ \E b \in Bodies :
          call' = [call EXCEPT ![c] =
                      [step |-> "insert", id |-> Null, wage |-> wage,
                       body |-> [b EXCEPT !.at = IF b.at = Null THEN now ELSE b.at]]]
    /\ UNCHANGED <<rows, nextId, wage, had, now>>

Created(c) ==
    LET b == call[c].body IN
    [type |-> b.type, price |-> b.price, category |-> b.category, at |-> b.at,
     hours |-> Hours(b.price, call[c].wage), answers |-> Answers(c, b.answers)]

(* The foreign key refuses a record of an account that has gone (5001). *)
Insert(c) ==
    /\ call[c].step = "insert"
    /\ nextId \in Ids
    /\ IF wage = Gone
       THEN UNCHANGED <<rows, nextId>>
       ELSE /\ rows' = [rows EXCEPT ![nextId] = Created(c)]
            /\ nextId' = nextId + 1
    /\ End(c)
    /\ UNCHANGED <<wage, had, now>>

(* updateConsumptionRecord: the wage is only read when a price is given. *)
StartUpdate(c) ==
    /\ call[c].step = "idle"
    /\ \E p \in Patches, id \in Ids :
          IF "price" \in DOMAIN p /\ wage = Gone
          THEN End(c)
          ELSE call' = [call EXCEPT ![c] =
                  [step |-> "update", body |-> p, id |-> id,
                   wage |-> IF "price" \in DOMAIN p THEN wage ELSE Null]]
    /\ UNCHANGED <<rows, nextId, wage, had, now>>

(* As Patched, but the hours are not computed again. *)
PatchedPriceOnly(row, c) ==
    LET p == call[c].body
        given(f, old) == IF f \in DOMAIN p THEN p[f] ELSE old
    IN  [row EXCEPT !.type = given("type", @), !.price = given("price", @),
                    !.category = given("category", @), !.at = given("at", @),
                    !.answers = IF "answers" \in DOMAIN p
                                THEN Answers(c, p.answers) ELSE @]

(* Given fields are set, the hours with the price, and the answers of the  *)
(* record are deleted and created anew when the request has a list.        *)
Patched(row, c) ==
    LET p == call[c].body
        given(f, old) == IF f \in DOMAIN p THEN p[f] ELSE old
    IN  [type |-> given("type", row.type),
         price |-> given("price", row.price),
         category |-> given("category", row.category),
         at |-> given("at", row.at),
         hours |-> IF "price" \in DOMAIN p THEN Hours(p.price, call[c].wage)
                                           ELSE row.hours,
         answers |-> IF "answers" \in DOMAIN p THEN Answers(c, p.answers)
                                               ELSE row.answers]

(* A record that has gone meanwhile is answered 404. *)
CommitUpdate(c) ==
    /\ call[c].step = "update"
    /\ LET id == call[c].id IN
       rows' = IF rows[id] = Null THEN rows
               ELSE [rows EXCEPT ![id] = Patched(@, c)]
    /\ End(c)
    /\ UNCHANGED <<nextId, wage, had, now>>

(* deleteConsumptionRecord; the answers go with the record. *)
DeleteRecord(c) ==
    /\ call[c].step = "idle"
    /\ \E id \in Ids : rows' = [rows EXCEPT ![id] = Null]
    /\ End(c)
    /\ UNCHANGED <<nextId, wage, had, now>>

-----------------------------------------------------------------------------
(* setBudget may change the wage (Budget.tla has the whole transaction);   *)
(* records keep the hours they were written with.                          *)
ChangeWage(c) ==
    /\ call[c].step = "idle"
    /\ wage # Gone
    /\ wage' \in Wages
    /\ had' = had \cup {wage'}
    /\ End(c)
    /\ UNCHANGED <<rows, nextId, now>>

(* A withdrawal or a recovery, whose delete cascades to the records. *)
DeleteUser ==
    /\ wage # Gone
    /\ wage' = Gone
    /\ rows' = [id \in Ids |-> Null]
    /\ UNCHANGED <<nextId, had, now, call>>

(* A request of the account that writes no record. *)
OtherCall(c) ==
    /\ call[c].step = "idle"
    /\ wage # Gone
    /\ End(c)
    /\ UNCHANGED <<rows, nextId, wage, had, now>>

Tick ==
    /\ now < MaxTime
    /\ now' = now + 1
    /\ UNCHANGED <<rows, nextId, wage, had, call>>

RecordStep ==
    \/ \E c \in Calls : \/ StartCreate(c) \/ Insert(c)
                        \/ StartUpdate(c) \/ CommitUpdate(c)
                        \/ DeleteRecord(c) \/ ChangeWage(c) \/ OtherCall(c)
    \/ DeleteUser
    \/ Tick

RecordsSpec == RecordsInit /\ [][RecordStep]_recordVars

-----------------------------------------------------------------------------
RowOK(row) ==
    /\ row.type \in Types
    /\ row.price \in Nat
    /\ row.at \in Times
    /\ row.hours \in Nat \cup {Null}
    /\ row.answers \in [Questions -> Calls \cup {Null}]

CallOK(c) ==
    CASE c.step = "insert" -> /\ \E b \in Bodies, t \in Times : c.body = [b EXCEPT !.at = t]
                              /\ c.wage \in Wages
      [] c.step = "update" -> /\ c.body \in Patches /\ c.id \in Ids
                              /\ c.wage \in IF "price" \in DOMAIN c.body THEN Wages
                                                                        ELSE {Null}
      [] OTHER -> c \in {Idle, Done}

TypeOK ==
    /\ DOMAIN rows = Ids /\ \A id \in Ids : rows[id] # Null => RowOK(rows[id])
    /\ nextId \in 1..MaxRecords + 1
    /\ wage \in Wages \cup {Gone}
    /\ had \subseteq Wages
    /\ now \in Times
    /\ DOMAIN call = Calls /\ \A c \in Calls : CallOK(call[c])

(* The hours of a record are those of its own price at one wage the        *)
(* account has had, however updates of the record and of the wage cross;   *)
(* and its answers were all given by one request, never by two whose       *)
(* replacements mixed (updateConsumptionRecord, lines 414-455).            *)
RowIsWhole(row) ==
    /\ \E w \in had : row.hours = Hours(row.price, w)
    /\ \A p, q \in Questions :
          Null \notin {row.answers[p], row.answers[q]} => row.answers[p] = row.answers[q]

RowsAreWhole == \A id \in Ids : rows[id] # Null => RowIsWhole(rows[id])
=============================================================================
