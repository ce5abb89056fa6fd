--------------------------- MODULE RecordsProofs ---------------------------
(***************************************************************************)
(* A record's hours are those of its price at a wage the account has had,  *)
(* for any bodies, patches and wages.  The invariant says where a call's   *)
(* wage comes from: it was the account's when the call read it, and the    *)
(* wages an account has had are never forgotten.                           *)
(***************************************************************************)
EXTENDS Insights, FiniteSetTheorems, TLAPS

WageWasHad ==
    /\ wage # Gone => wage \in had
    /\ \A c \in Calls :
          /\ call[c].step = "insert" => call[c].wage \in had
          /\ call[c].step = "update" /\ "price" \in DOMAIN call[c].body =>
                call[c].wage \in had

IInv == TypeOK /\ RowsAreWhole /\ WageWasHad

-----------------------------------------------------------------------------
(* Hours are a natural number, or NULL for an account without a wage. *)
LEMMA HoursHaveType ==
    ASSUME NEW price \in Nat, NEW w \in Wages
    PROVE  Hours(price, w) \in Nat \cup {Null}
<1>1. w \in Nat
  BY WagesAreWhole
<1>2. CASE w = 0
  BY <1>2 DEF Hours
<1>3. CASE w # 0
  <2>1. 200 * price + w \in Nat /\ 2 * w \in Nat /\ 2 * w > 0
    BY <1>1, <1>3
  <2>2. (200 * price + w) \div (2 * w) \in Nat
    BY <2>1
  <2> QED BY <2>2, <1>3 DEF Hours
<1> QED BY <1>2, <1>3

(* The answers of one request. *)
LEMMA AnswersAreOfOneCall ==
    ASSUME NEW c \in Calls \cup {Null}, NEW Q \in SUBSET Questions
    PROVE  /\ Answers(c, Q) \in [Questions -> Calls \cup {Null}]
           /\ \A p, q \in Questions :
                 Null \notin {Answers(c, Q)[p], Answers(c, Q)[q]} =>
                    Answers(c, Q)[p] = Answers(c, Q)[q]
  BY DEF Answers

LEMMA InitEstablishesIInv == RecordsInit => IInv
<1> SUFFICES ASSUME NEW s \in Starts, RecordsFrom(s) PROVE IInv
  BY DEF RecordsInit
<1>1. /\ s.wage \in Wages /\ s.now \in Times /\ DOMAIN s.table \subseteq Ids
      /\ \A id \in DOMAIN s.table : /\ s.table[id].type \in Types
                                    /\ s.table[id].price \in Nat
                                    /\ s.table[id].at \in Times
  BY StartsAreWhole
<1>2. /\ rows = Written(s.table, s.wage) /\ nextId = Cardinality(DOMAIN s.table) + 1
      /\ wage = s.wage /\ had = {s.wage} /\ now = s.now
      /\ DOMAIN call = Calls /\ \A c \in Calls : call[c] \in {Idle, Done}
  BY DEF RecordsFrom
<1>3. nextId \in 1..MaxRecords + 1
  BY <1>2, StartsAreWhole, BoundsAreNaturals
<1>4. ASSUME NEW id \in Ids, rows[id] # Null
      PROVE  RowOK(rows[id]) /\ RowIsWhole(rows[id])
  <2>1. id \in DOMAIN s.table
    BY <1>2, <1>4 DEF Written
  <2>2. /\ rows[id].type = s.table[id].type /\ rows[id].price = s.table[id].price
        /\ rows[id].at = s.table[id].at
        /\ rows[id].hours = Hours(s.table[id].price, s.wage)
        /\ rows[id].answers = Answers(Null, {})
    BY <1>2, <2>1 DEF Written
  <2>3. Hours(s.table[id].price, s.wage) \in Nat \cup {Null}
    BY <1>1, <2>1, HoursHaveType
  <2>4. RowOK(rows[id])
    BY <1>1, <2>1, <2>2, <2>3, AnswersAreOfOneCall DEF RowOK
  <2>5. RowIsWhole(rows[id])
    BY <1>2, <2>2, AnswersAreOfOneCall DEF RowIsWhole
  <2> QED BY <2>4, <2>5
<1>5. \A c \in Calls : call[c].step \notin {"insert", "update"} /\ CallOK(call[c])
  BY <1>2 DEF Idle, Done, CallOK
<1>6. DOMAIN rows = Ids
  BY <1>2 DEF Written
<1>7. TypeOK
  BY <1>1, <1>2, <1>3, <1>4, <1>5, <1>6 DEF TypeOK
<1>8. RowsAreWhole /\ WageWasHad
  BY <1>2, <1>4, <1>5 DEF RowsAreWhole, WageWasHad
<1> QED BY <1>7, <1>8 DEF IInv

-----------------------------------------------------------------------------
(* What a call that moves on needs, the records being as they were. *)
LEMMA CallMoves ==
    ASSUME IInv, UNCHANGED <<rows, nextId, wage, had, now>>,
           NEW c \in Calls, NEW state, call' = [call EXCEPT ![c] = state],
           CallOK(state),
           state.step = "insert" => state.wage \in had,
           state.step = "update" /\ "price" \in DOMAIN state.body => state.wage \in had
    PROVE  IInv'
<1>1. \A d \in Calls : call'[d] = IF d = c THEN state ELSE call[d]
  BY DEF IInv, TypeOK
<1>2. DOMAIN call' = Calls
  BY DEF IInv, TypeOK
<1>3. \A d \in Calls : CallOK(call'[d])
  BY <1>1 DEF IInv, TypeOK
<1>4. TypeOK'
  BY <1>2, <1>3 DEF IInv, TypeOK, RowOK, CallOK
<1>5. WageWasHad'
  BY <1>1 DEF IInv, WageWasHad
<1>6. RowsAreWhole'
  BY DEF IInv, RowsAreWhole, RowIsWhole
<1> QED BY <1>4, <1>5, <1>6 DEF IInv

LEMMA DoneIsOK == CallOK(Done) /\ CallOK(Idle) /\ Done.step = "done"
  BY DEF CallOK, Done, Idle

(* A call that ends and leaves rows that are whole. *)
LEMMA CallEnds ==
    ASSUME IInv, NEW c \in Calls, End(c), DOMAIN rows' = Ids,
           nextId' \in 1..MaxRecords + 1,
           had \subseteq had', had' \subseteq Wages,
           wage' \in Wages \cup {Gone}, wage' # Gone => wage' \in had',
           UNCHANGED now,
           \A id \in Ids : rows'[id] # Null => RowOK(rows[id])' /\ RowIsWhole(rows[id])'
    PROVE  IInv'
<1>1. \A d \in Calls : call'[d] = IF d = c THEN Done ELSE call[d]
  BY DEF IInv, TypeOK, End
<1>2. DOMAIN call' = Calls
  BY DEF IInv, TypeOK, End
<1>3. \A d \in Calls : CallOK(call'[d])
  BY <1>1, DoneIsOK DEF IInv, TypeOK
<1>4. TypeOK'
  BY <1>2, <1>3 DEF IInv, TypeOK, RowOK, CallOK
<1>5. WageWasHad'
  BY <1>1, DoneIsOK DEF IInv, WageWasHad
<1>6. RowsAreWhole'
  BY DEF RowsAreWhole
<1> QED BY <1>4, <1>5, <1>6 DEF IInv

(* A row that is whole stays so when the account gets another wage. *)
LEMMA RowsStayWhole ==
    ASSUME IInv, NEW id \in Ids, rows[id] # Null, had \subseteq had',
           rows'[id] = rows[id]
    PROVE  RowOK(rows[id])' /\ RowIsWhole(rows[id])'
  BY DEF IInv, TypeOK, RowsAreWhole, RowIsWhole, RowOK

-----------------------------------------------------------------------------
LEMMA InsertPreservesIInv ==
    ASSUME IInv, NEW c \in Calls, Insert(c)
    PROVE  IInv'
<1>1. /\ End(c) /\ UNCHANGED <<wage, had, now>> /\ call[c].step = "insert" /\ nextId \in Ids
  BY DEF Insert
<1>2. /\ DOMAIN rows = Ids /\ wage \in Wages \cup {Gone} /\ had \subseteq Wages
      /\ wage # Gone => wage \in had
      /\ call[c].wage \in Wages /\ call[c].wage \in had
  BY <1>1 DEF IInv, TypeOK, WageWasHad, CallOK
<1>3. PICK b \in Bodies, t \in Times : call[c].body = [b EXCEPT !.at = t]
  BY <1>1 DEF IInv, TypeOK, CallOK
<1>4. CASE wage = Gone
  <2>1. UNCHANGED <<rows, nextId>>
    BY <1>4 DEF Insert
  <2>2. \A id \in Ids : rows[id]' # Null => RowOK(rows[id])' /\ RowIsWhole(rows[id])'
    BY <2>1, <1>1, RowsStayWhole
  <2> QED BY <1>1, <1>2, <2>1, <2>2, CallEnds DEF IInv, TypeOK
<1>5. CASE wage # Gone
  <2>1. rows' = [rows EXCEPT ![nextId] = Created(c)] /\ nextId' = nextId + 1
    BY <1>5 DEF Insert
  <2>2. /\ b.type \in Types /\ b.price \in Nat /\ b.answers \subseteq Questions
        /\ DOMAIN b = Told \cup {"answers"}
    BY <1>3, BodiesAreWhole
  <2>3. /\ call[c].body.type = b.type /\ call[c].body.price = b.price
        /\ call[c].body.at = t /\ call[c].body.answers = b.answers
    BY <1>3, <2>2 DEF Told
  <2>4. RowOK(Created(c))
    BY <1>2, <2>2, <2>3, HoursHaveType, AnswersAreOfOneCall DEF RowOK, Created
  <2>5. RowIsWhole(Created(c))
    BY <1>2, <2>2, <2>3, AnswersAreOfOneCall DEF RowIsWhole, Created
  <2>6. ASSUME NEW id \in Ids, rows[id]' # Null
        PROVE  RowOK(rows[id])' /\ RowIsWhole(rows[id])'
    <3>1. CASE id = nextId
      <4>1. rows[id]' = Created(c) /\ had' = had
        BY <1>1, <1>2, <2>1, <3>1
      <4> QED BY <4>1, <2>4, <2>5 DEF RowOK, RowIsWhole
    <3>2. CASE id # nextId
      BY <3>2, <2>1, <2>6, <1>1, <1>2, RowsStayWhole
    <3> QED BY <3>1, <3>2
  <2>7. nextId' \in 1..MaxRecords + 1 /\ DOMAIN rows' = Ids
    BY <1>1, <1>2, <2>1, BoundsAreNaturals DEF Ids
  <2> QED BY <1>1, <1>2, <2>6, <2>7, CallEnds
<1> QED BY <1>4, <1>5

(* Only an update with a price changes the price, and then the hours too. *)
LEMMA PatchedIsWhole ==
    ASSUME IInv, NEW c \in Calls, call[c].step = "update",
           NEW row, RowOK(row), RowIsWhole(row)
    PROVE  RowOK(Patched(row, c)) /\ RowIsWhole(Patched(row, c))
<1> DEFINE p == call[c].body
           new == Patched(row, c)
<1>1. /\ p \in Patches
      /\ "price" \in DOMAIN p => call[c].wage \in Wages /\ call[c].wage \in had
  BY DEF IInv, TypeOK, CallOK, WageWasHad
<1>2. /\ "type" \in DOMAIN p => p.type \in Types
      /\ "price" \in DOMAIN p => p.price \in Nat
      /\ "at" \in DOMAIN p => p.at \in Times
      /\ "answers" \in DOMAIN p => p.answers \subseteq Questions
  BY <1>1, PatchesArePartial
<1>3. new.type \in Types /\ new.price \in Nat /\ new.at \in Times
  BY <1>2 DEF Patched, RowOK
<1>4. /\ new.hours \in Nat \cup {Null}
      /\ \E w \in had : new.hours = Hours(new.price, w)
  <2>1. CASE "price" \in DOMAIN p
    <3>1. new.hours = Hours(p.price, call[c].wage) /\ new.price = p.price
      BY <2>1 DEF Patched
    <3> QED BY <1>1, <1>2, <2>1, <3>1, HoursHaveType
  <2>2. CASE "price" \notin DOMAIN p
    <3>1. new.hours = row.hours /\ new.price = row.price
      BY <2>2 DEF Patched
    <3> QED BY <3>1 DEF RowOK, RowIsWhole
  <2> QED BY <2>1, <2>2
<1>5. /\ new.answers \in [Questions -> Calls \cup {Null}]
      /\ \A q, r \in Questions :
            Null \notin {new.answers[q], new.answers[r]} => new.answers[q] = new.answers[r]
  <2>1. CASE "answers" \in DOMAIN p
    BY <1>2, <2>1, AnswersAreOfOneCall DEF Patched
  <2>2. CASE "answers" \notin DOMAIN p
    BY <2>2 DEF Patched, RowOK, RowIsWhole
  <2> QED BY <2>1, <2>2
<1> QED BY <1>3, <1>4, <1>5 DEF RowOK, RowIsWhole

LEMMA UpdatePreservesIInv ==
    ASSUME IInv, NEW c \in Calls, CommitUpdate(c)
    PROVE  IInv'
<1> DEFINE id == call[c].id
<1>1. /\ call[c].step = "update" /\ End(c) /\ UNCHANGED <<nextId, wage, had, now>>
      /\ rows' = IF rows[id] = Null THEN rows ELSE [rows EXCEPT ![id] = Patched(rows[id], c)]
  BY DEF CommitUpdate
<1>2. /\ id \in Ids /\ DOMAIN rows = Ids /\ nextId \in 1..MaxRecords + 1
      /\ wage \in Wages \cup {Gone} /\ had \subseteq Wages
      /\ wage # Gone => wage \in had
  BY <1>1 DEF IInv, TypeOK, CallOK, WageWasHad
<1>3. ASSUME NEW i \in Ids, rows[i]' # Null
      PROVE  RowOK(rows[i])' /\ RowIsWhole(rows[i])'
  <2>1. CASE i = id /\ rows[id] # Null
    <3>1. rows[i]' = Patched(rows[id], c) /\ had' = had
      BY <1>1, <1>2, <2>1
    <3>2. RowOK(rows[id]) /\ RowIsWhole(rows[id])
      BY <1>2, <2>1 DEF IInv, TypeOK, RowsAreWhole
    <3>3. RowOK(Patched(rows[id], c)) /\ RowIsWhole(Patched(rows[id], c))
      BY <1>1, <3>2, PatchedIsWhole
    <3> HIDE DEF id
    <3> QED BY <3>1, <3>3 DEF RowOK, RowIsWhole
  <2>2. CASE ~(i = id /\ rows[id] # Null)
    <3>1. rows[i]' = rows[i]
      BY <1>1, <1>2, <2>2
    <3> QED BY <3>1, <1>1, <1>3, RowsStayWhole
  <2> QED BY <2>1, <2>2
<1>4. DOMAIN rows' = Ids
  <2>1. CASE rows[id] = Null
    BY <1>1, <1>2, <2>1
  <2>2. CASE rows[id] # Null
    <3>1. rows' = [rows EXCEPT ![id] = Patched(rows[id], c)]
      BY <1>1, <2>2
    <3> HIDE DEF id
    <3> QED BY <1>2, <3>1
  <2> QED BY <2>1, <2>2
<1>5. /\ nextId' = nextId /\ had' = had /\ wage' = wage /\ now' = now /\ End(c)
  BY <1>1
<1>6. /\ nextId' \in 1..MaxRecords + 1
      /\ had \subseteq had' /\ had' \subseteq Wages
      /\ wage' \in Wages \cup {Gone} /\ (wage' # Gone => wage' \in had')
  BY <1>2, <1>5
<1> HIDE DEF id
<1> QED BY <1>3, <1>4, <1>5, <1>6, CallEnds

LEMMA StepPreservesIInv == IInv /\ [RecordStep]_recordVars => IInv'
<1> SUFFICES ASSUME IInv, [RecordStep]_recordVars PROVE IInv'
  OBVIOUS
<1>0. /\ DOMAIN rows = Ids /\ nextId \in 1..MaxRecords + 1 /\ now \in Times
      /\ wage \in Wages \cup {Gone} /\ had \subseteq Wages
      /\ wage # Gone => wage \in had
  BY DEF IInv, TypeOK, WageWasHad
<1>1. ASSUME NEW c \in Calls, StartCreate(c) PROVE IInv'
  <2>1. PICK b \in Bodies :
           call' = [call EXCEPT ![c] =
                      [step |-> "insert", id |-> Null, wage |-> wage,
                       body |-> [b EXCEPT !.at = IF b.at = Null THEN now ELSE b.at]]]
    BY <1>1 DEF StartCreate
  <2>2. wage \in Wages /\ wage \in had /\ UNCHANGED <<rows, nextId, wage, had, now>>
    BY <1>0, <1>1 DEF StartCreate
  <2>3. (IF b.at = Null THEN now ELSE b.at) \in Times
    BY <1>0, BodiesAreWhole
  <2> DEFINE state == [step |-> "insert", id |-> Null, wage |-> wage,
                       body |-> [b EXCEPT !.at = IF b.at = Null THEN now ELSE b.at]]
  <2>4. CallOK(state) /\ state.step = "insert" /\ state.wage \in had
    BY <2>2, <2>3 DEF CallOK
  <2> HIDE DEF state
  <2> QED BY <2>1, <2>2, <2>4, CallMoves DEF state
<1>2. ASSUME NEW c \in Calls, Insert(c) PROVE IInv'
  BY <1>2, InsertPreservesIInv
<1>3. ASSUME NEW c \in Calls, StartUpdate(c) PROVE IInv'
  <2>1. UNCHANGED <<rows, nextId, wage, had, now>>
    BY <1>3 DEF StartUpdate
  <2>2. PICK p \in Patches, id \in Ids :
          IF "price" \in DOMAIN p /\ wage = Gone
          THEN End(c)
          ELSE call' = [call EXCEPT ![c] =
                  [step |-> "update", body |-> p, id |-> id,
                   wage |-> IF "price" \in DOMAIN p THEN wage ELSE Null]]
    BY <1>3 DEF StartUpdate
  <2>3. CASE "price" \in DOMAIN p /\ wage = Gone
    BY <2>1, <2>2, <2>3, CallMoves, DoneIsOK DEF End
  <2>4. CASE ~("price" \in DOMAIN p /\ wage = Gone)
    <3> DEFINE state == [step |-> "update", body |-> p, id |-> id,
                         wage |-> IF "price" \in DOMAIN p THEN wage ELSE Null]
    <3>1. /\ CallOK(state) /\ state.step = "update"
          /\ "price" \in DOMAIN state.body => state.wage \in had
      BY <1>0, <2>4 DEF CallOK
    <3>2. call' = [call EXCEPT ![c] = state]
      BY <2>2, <2>4
    <3> HIDE DEF state
    <3> QED BY <2>1, <3>1, <3>2, CallMoves
  <2> QED BY <2>3, <2>4
<1>4. ASSUME NEW c \in Calls, CommitUpdate(c) PROVE IInv'
  BY <1>4, UpdatePreservesIInv
<1>5. ASSUME NEW c \in Calls, DeleteRecord(c) PROVE IInv'
  <2>1. PICK id \in Ids : rows' = [rows EXCEPT ![id] = Null]
    BY <1>5 DEF DeleteRecord
  <2>2. End(c) /\ UNCHANGED <<nextId, wage, had, now>>
    BY <1>5 DEF DeleteRecord
  <2>3. ASSUME NEW i \in Ids, rows[i]' # Null
        PROVE  RowOK(rows[i])' /\ RowIsWhole(rows[i])'
    BY <1>0, <2>1, <2>2, <2>3, RowsStayWhole
  <2> QED BY <1>0, <2>1, <2>2, <2>3, CallEnds
<1>6. ASSUME NEW c \in Calls, ChangeWage(c) PROVE IInv'
  <2>1. /\ wage' \in Wages /\ had' = had \cup {wage'} /\ End(c)
        /\ UNCHANGED <<rows, nextId, now>>
    BY <1>6 DEF ChangeWage
  <2>2. ASSUME NEW i \in Ids, rows[i]' # Null
        PROVE  RowOK(rows[i])' /\ RowIsWhole(rows[i])'
    BY <2>1, <2>2, RowsStayWhole
  <2> QED BY <1>0, <2>1, <2>2, CallEnds
<1>7. ASSUME NEW c \in Calls, OtherCall(c) PROVE IInv'
  <2>1. End(c) /\ UNCHANGED <<rows, nextId, wage, had, now>>
    BY <1>7 DEF OtherCall
  <2>2. ASSUME NEW i \in Ids, rows[i]' # Null
        PROVE  RowOK(rows[i])' /\ RowIsWhole(rows[i])'
    BY <2>1, <2>2, RowsStayWhole
  <2> QED BY <1>0, <2>1, <2>2, CallEnds
<1>8. CASE DeleteUser
  BY <1>8 DEF DeleteUser, IInv, TypeOK, RowsAreWhole, WageWasHad
<1>9. CASE Tick
  <2>1. UNCHANGED <<rows, nextId, wage, had, call>> /\ now' \in Times
    BY <1>0, <1>9, BoundsAreNaturals DEF Tick, Times
  <2> QED BY <2>1 DEF IInv, TypeOK, RowsAreWhole, WageWasHad, RowIsWhole
<1>10. CASE UNCHANGED recordVars
  BY <1>10 DEF recordVars, IInv, TypeOK, RowsAreWhole, WageWasHad, RowIsWhole, RowOK
<1> QED BY <1>1, <1>2, <1>3, <1>4, <1>5, <1>6, <1>7, <1>8, <1>9, <1>10 DEF RecordStep

LEMMA IInvIsInvariant == RecordsSpec => []IInv
  BY InitEstablishesIInv, StepPreservesIInv, PTL DEF RecordsSpec

(* To the records, everything else an account does is one request that     *)
(* writes no record: the insights run over the records' own specification. *)
THEOREM InsightsRunOverRecords == Spec => RecordsSpec
<1>1. Init => RecordsInit
  BY DEF Init, RecordsInit
<1>2. [Next]_vars => [RecordStep]_recordVars
  <2>1. CASE RecordsAndSettings
    BY <2>1 DEF RecordsAndSettings
  <2>2. ASSUME NEW c \in Calls, SettingsStep(c) PROVE RecordStep
    BY <2>2 DEF SettingsStep, UpdateSavingGoal, DeleteSavingGoal, UpdateOnboarding,
                SetBudget, RecordStep
  <2>3. CASE StartHome \/ QueryHome \/ AnswerHome
    BY <2>3 DEF StartHome, QueryHome, AnswerHome
  <2>4. CASE UNCHANGED vars
    BY <2>4 DEF vars, recordVars
  <2> QED BY <2>1, <2>2, <2>3, <2>4 DEF Next
<1> QED BY <1>1, <1>2, PTL DEF Spec, RecordsSpec

(* Types: every record's price, time and hours, and every call's body. *)
THEOREM TypeCorrect == Spec => []TypeOK
<1>1. IInv => TypeOK
  BY DEF IInv
<1> QED BY <1>1, IInvIsInvariant, InsightsRunOverRecords, PTL

(* The hours of every record follow its price, and its answers come from   *)
(* one request, whatever requests and changes of the wage cross.           *)
THEOREM RecordsStayWhole == Spec => []RowsAreWhole
<1>1. IInv => RowsAreWhole
  BY DEF IInv
<1> QED BY <1>1, IInvIsInvariant, InsightsRunOverRecords, PTL

-----------------------------------------------------------------------------
(* Sums over finite sets.  The library's induction theorems cannot be used *)
(* (they are about operators): instead, a set whose sum had not the        *)
(* property would have a smallest subset without it.                       *)

(* A collection of finite sets has a member that contains no other. *)
LEMMA SmallestMember ==
    ASSUME NEW S, IsFiniteSet(S), NEW B, B \subseteq SUBSET S, B # {}
    PROVE  \E m \in B : \A x \in B : x \subseteq m => x = m
<1>1. IsWellFoundedOn(StrictSubsetOrdering(S), FiniteSubsetsOf(S))
  BY FS_StrictSubsetOrderingWellFounded
<1>2. B \subseteq FiniteSubsetsOf(S)
  BY FS_FiniteSubsetsOfFinite
<1>3. \E m \in B : \A x \in B : ~ (<<x, m>> \in StrictSubsetOrdering(S))
  BY <1>1, <1>2, WFMin
<1>4. PICK m \in B : \A x \in B : ~ (<<x, m>> \in StrictSubsetOrdering(S))
  BY <1>3
<1>5. ASSUME NEW x \in B, x \subseteq m PROVE x = m
  BY <1>4, <1>5 DEF StrictSubsetOrdering
<1> QED BY <1>5

(* The recursive function behind a sum. *)
Pick(s) == CHOOSE x \in s : TRUE
IsSum(f, S, g) ==
    g = [s \in SUBSET S |-> IF s = {} THEN 0 ELSE f[Pick(s)] + g[s \ {Pick(s)}]]

LEMMA PickIsMember == \A s : s # {} => Pick(s) \in s
BY DEF Pick

LEMMA SumIsChosen ==
    ASSUME NEW f, NEW S PROVE SumOf(f, S) = (CHOOSE g : IsSum(f, S, g))[S]
BY DEF SumOf, MapThenSumSet, MapThenFoldSet, IsSum, Pick

(* It is the same function on the subsets that two sets share. *)
LEMMA SumsAgree ==
    ASSUME NEW f, NEW S, IsFiniteSet(S), NEW T \in SUBSET S,
           NEW g, IsSum(f, S, g), NEW h, IsSum(f, T, h)
    PROVE  \A s \in SUBSET T : g[s] = h[s]
<1> DEFINE B == {s \in SUBSET T : g[s] # h[s]}
<1> SUFFICES ASSUME B # {} PROVE FALSE
  OBVIOUS
<1>1. IsFiniteSet(T) /\ B \subseteq SUBSET T
  BY FS_Subset
<1>2. PICK m \in B : \A x \in B : x \subseteq m => x = m
  <2> HIDE DEF B
  <2> QED BY <1>1, SmallestMember
<1>3. m \in SUBSET T /\ m \in SUBSET S /\ g[m] # h[m]
  BY <1>2
<1>4. /\ g[m] = IF m = {} THEN 0 ELSE f[Pick(m)] + g[m \ {Pick(m)}]
      /\ h[m] = IF m = {} THEN 0 ELSE f[Pick(m)] + h[m \ {Pick(m)}]
  BY <1>3, Zenon DEF IsSum
<1>5. m # {}
  BY <1>3, <1>4
<1>6. Pick(m) \in m
  BY <1>5, PickIsMember
<1>7. m \ {Pick(m)} \notin B
  BY <1>2, <1>6
<1>8. g[m \ {Pick(m)}] = h[m \ {Pick(m)}]
  BY <1>3, <1>7
<1> QED BY <1>3, <1>4, <1>5, <1>8

(* It exists: the value at s is that of the function for s. *)
LEMMA SumExists ==
    ASSUME NEW f, NEW S, IsFiniteSet(S)
    PROVE  \E g : IsSum(f, S, g)
<1> DEFINE B == {s \in SUBSET S : ~ \E g : IsSum(f, s, g)}
<1> SUFFICES ASSUME B # {} PROVE FALSE
  OBVIOUS
<1>0. B \subseteq SUBSET S
  OBVIOUS
<1>1. PICK m \in B : \A x \in B : x \subseteq m => x = m
  <2> HIDE DEF B
  <2> QED BY <1>0, SmallestMember
<1>2. m \in SUBSET S /\ IsFiniteSet(m) /\ ~ \E g : IsSum(f, m, g)
  BY <1>1, FS_Subset
<1> DEFINE fcn(s) == CHOOSE g : IsSum(f, s, g)
           val(s) == fcn(s)[s]
           new == [s \in SUBSET m |-> IF s = {} THEN 0
                                      ELSE f[Pick(s)] + val(s \ {Pick(s)})]
<1>3. \A s \in SUBSET m : s # m => IsSum(f, s, fcn(s))
  BY <1>1, <1>2
<1>4. \A s \in SUBSET m : s # m => new[s] = val(s)
  <2> SUFFICES ASSUME NEW s \in SUBSET m, s # m PROVE new[s] = val(s)
    OBVIOUS
  <2>1. IsSum(f, s, fcn(s))
    BY <1>3
  <2>2. val(s) = IF s = {} THEN 0 ELSE f[Pick(s)] + fcn(s)[s \ {Pick(s)}]
    <3> HIDE DEF fcn
    <3> QED BY <2>1, Zenon DEF IsSum
  <2>3. CASE s = {}
    BY <2>2, <2>3
  <2>4. CASE s # {}
    <3>1. Pick(s) \in s
      BY <2>4, PickIsMember
    <3> DEFINE r == s \ {Pick(s)}
    <3>2. r \in SUBSET m /\ r # m /\ r \in SUBSET s
      BY <3>1
    <3>3. IsSum(f, r, fcn(r))
      BY <1>3, <3>2
    <3>4. IsFiniteSet(s)
      BY <1>2, FS_Subset
    <3>5. fcn(s)[r] = fcn(r)[r]
      <4> HIDE DEF fcn, r
      <4> QED BY <2>1, <3>2, <3>3, <3>4, SumsAgree
    <3>6. new[s] = f[Pick(s)] + val(r)
      BY <2>4
    <3> QED BY <2>2, <2>4, <3>5, <3>6
  <2> QED BY <2>3, <2>4
<1>5. IsSum(f, m, new)
  <2>1. ASSUME NEW s \in SUBSET m, s # {}
        PROVE  val(s \ {Pick(s)}) = new[s \ {Pick(s)}]
    <3>1. Pick(s) \in s
      BY <2>1, PickIsMember
    <3>2. s \ {Pick(s)} \in SUBSET m /\ s \ {Pick(s)} # m
      BY <3>1
    <3> HIDE DEF val, new
    <3> QED BY <1>4, <3>2
  <2> DEFINE rec == [s \in SUBSET m |-> IF s = {} THEN 0
                                        ELSE f[Pick(s)] + new[s \ {Pick(s)}]]
  <2>2. \A s \in SUBSET m : new[s] = IF s = {} THEN 0 ELSE f[Pick(s)] + val(s \ {Pick(s)})
    OBVIOUS
  <2>3. DOMAIN new = SUBSET m
    OBVIOUS
  <2>4. new = [s \in SUBSET m |-> new[s]]
    OBVIOUS
  <2> HIDE DEF new, val
  <2>5. \A s \in SUBSET m : new[s] = rec[s]
    BY <2>1, <2>2
  <2>6. new = rec
    <3>1. DOMAIN rec = SUBSET m /\ rec = [s \in SUBSET m |-> rec[s]]
      OBVIOUS
    <3> HIDE DEF rec
    <3> QED BY <2>4, <2>5, <3>1
  <2> QED BY <2>6 DEF IsSum
<1> QED BY <1>2, <1>5

LEMMA SumUnfolds ==
    ASSUME NEW f, NEW S, IsFiniteSet(S)
    PROVE  /\ SumOf(f, {}) = 0
           /\ S # {} => SumOf(f, S) = f[Pick(S)] + SumOf(f, S \ {Pick(S)})
<1> DEFINE fcn(s) == CHOOSE g : IsSum(f, s, g)
<1>1. \A s : IsFiniteSet(s) => IsSum(f, s, fcn(s))
  BY SumExists
<1>2. \A s : SumOf(f, s) = fcn(s)[s]
  BY SumIsChosen
<1> HIDE DEF fcn
<1>3. SumOf(f, {}) = 0
  <2>1. IsSum(f, {}, fcn({}))
    BY <1>1, FS_EmptySet
  <2>2. fcn({})[{}] = 0
    BY <2>1 DEF IsSum
  <2> QED BY <1>2, <2>2
<1>4. ASSUME S # {}
      PROVE  SumOf(f, S) = f[Pick(S)] + SumOf(f, S \ {Pick(S)})
  <2> DEFINE r == S \ {Pick(S)}
  <2>1. IsSum(f, S, fcn(S))
    BY <1>1
  <2>2. r \in SUBSET S /\ IsFiniteSet(r)
    BY FS_Subset
  <2>3. IsSum(f, r, fcn(r))
    BY <1>1, <2>2
  <2>4. fcn(S)[S] = f[Pick(S)] + fcn(S)[r]
    BY <1>4, <2>1, Zenon DEF IsSum
  <2> HIDE DEF r
  <2>5. fcn(S)[r] = fcn(r)[r]
    BY <2>1, <2>2, <2>3, SumsAgree
  <2>6. SumOf(f, S) = f[Pick(S)] + SumOf(f, r)
    BY <1>2, <2>4, <2>5
  <2> QED BY <2>6 DEF r
<1> QED BY <1>3, <1>4

(* Amounts add up to a natural number, from whichever member one begins.   *)
LEMMA SumOfMembers ==
    ASSUME NEW S, IsFiniteSet(S), NEW f, \A x \in S : f[x] \in Nat
    PROVE  /\ SumOf(f, S) \in Nat
           /\ \A x \in S : SumOf(f, S) = f[x] + SumOf(f, S \ {x})
<1> DEFINE Good(s) == /\ SumOf(f, s) \in Nat
                      /\ \A x \in s : SumOf(f, s) = f[x] + SumOf(f, s \ {x})
           B == {s \in SUBSET S : ~Good(s)}
<1> SUFFICES ASSUME B # {} PROVE FALSE
  OBVIOUS
<1>0. B \subseteq SUBSET S
  OBVIOUS
<1>1. PICK m \in B : \A x \in B : x \subseteq m => x = m
  <2> HIDE DEF B
  <2> QED BY <1>0, SmallestMember
<1>2. m \in SUBSET S /\ IsFiniteSet(m) /\ ~Good(m)
  BY <1>1, FS_Subset
<1>3. \A s \in SUBSET m : s # m => Good(s)
  BY <1>1, <1>2
<1> HIDE DEF B
<1>4. m # {}
  <2>1. SumOf(f, {}) = 0
    BY SumUnfolds, FS_EmptySet
  <2>2. Good({})
    BY <2>1
  <2> HIDE DEF Good
  <2> QED BY <1>2, <2>2
<1> DEFINE p == Pick(m)
<1>5. p \in m /\ f[p] \in Nat
  BY <1>2, <1>4, PickIsMember
<1>6. SumOf(f, m) = f[p] + SumOf(f, m \ {p})
  BY <1>2, <1>4, SumUnfolds
<1> HIDE DEF p
<1>7. SumOf(f, m \ {p}) \in Nat
  BY <1>3, <1>5
<1>8. SumOf(f, m) \in Nat
  BY <1>5, <1>6, <1>7
<1>9. ASSUME NEW x \in m, x # p
      PROVE  SumOf(f, m) = f[x] + SumOf(f, m \ {x})
  <2>1. m \ {x} # m /\ m \ {p} # m /\ p \in m \ {x} /\ x \in m \ {p}
    BY <1>5, <1>9
  <2>2. SumOf(f, m \ {p}) = f[x] + SumOf(f, (m \ {p}) \ {x})
    BY <1>3, <2>1
  <2>3. SumOf(f, m \ {x}) = f[p] + SumOf(f, (m \ {x}) \ {p})
    BY <1>3, <2>1
  <2>4. (m \ {p}) \ {x} = (m \ {x}) \ {p}
    OBVIOUS
  <2>5. SumOf(f, (m \ {p}) \ {x}) \in Nat /\ f[x] \in Nat
    <3>1. (m \ {p}) \ {x} \in SUBSET m /\ (m \ {p}) \ {x} # m
      BY <1>5
    <3>2. SumOf(f, (m \ {p}) \ {x}) \in Nat
      BY <1>3, <3>1
    <3> QED BY <1>2, <3>2
  <2> QED BY <1>5, <1>6, <2>2, <2>3, <2>4, <2>5
<1>10. \A x \in m : SumOf(f, m) = f[x] + SumOf(f, m \ {x})
  BY <1>6, <1>9
<1>11. Good(m)
  BY <1>8, <1>10
<1> HIDE DEF Good
<1> QED BY <1>2, <1>11

(* Only the amounts of the members count. *)
LEMMA SameAmountsSameSum ==
    ASSUME NEW S, IsFiniteSet(S), NEW f, NEW g, \A x \in S : f[x] = g[x]
    PROVE  SumOf(f, S) = SumOf(g, S)
<1> DEFINE B == {s \in SUBSET S : SumOf(f, s) # SumOf(g, s)}
<1> SUFFICES ASSUME B # {} PROVE FALSE
  OBVIOUS
<1>0. B \subseteq SUBSET S
  OBVIOUS
<1>1. PICK m \in B : \A x \in B : x \subseteq m => x = m
  <2> HIDE DEF B
  <2> QED BY <1>0, SmallestMember
<1>2. m \in SUBSET S /\ IsFiniteSet(m) /\ SumOf(f, m) # SumOf(g, m)
  BY <1>1, FS_Subset
<1>3. \A s \in SUBSET m : s # m => SumOf(f, s) = SumOf(g, s)
  BY <1>1, <1>2
<1>4. m # {}
  BY SumUnfolds, <1>2
<1>5. Pick(m) \in m
  BY <1>4, PickIsMember
<1>6. SumOf(f, m \ {Pick(m)}) = SumOf(g, m \ {Pick(m)})
  BY <1>3, <1>5
<1>7. SumOf(f, m) = f[Pick(m)] + SumOf(f, m \ {Pick(m)})
  BY <1>2, <1>4, SumUnfolds
<1>8. SumOf(g, m) = g[Pick(m)] + SumOf(g, m \ {Pick(m)})
  BY <1>2, <1>4, SumUnfolds
<1>9. f[Pick(m)] = g[Pick(m)]
  BY <1>2, <1>5
<1> QED BY <1>2, <1>6, <1>7, <1>8, <1>9

(* Two parts of a set add up to the sum of the set. *)
LEMMA SumOfParts ==
    ASSUME NEW S, IsFiniteSet(S), NEW f, \A x \in S : f[x] \in Nat,
           NEW T \in SUBSET S
    PROVE  /\ SumOf(f, S) = SumOf(f, T) + SumOf(f, S \ T)
           /\ SumOf(f, S) \in Nat /\ SumOf(f, T) \in Nat /\ SumOf(f, S \ T) \in Nat
           /\ SumOf(f, T) <= SumOf(f, S)
<1>0. \A s \in SUBSET S : IsFiniteSet(s) /\ SumOf(f, s) \in Nat
  BY FS_Subset, SumOfMembers
<1> DEFINE B == {s \in SUBSET T : SumOf(f, S \ (T \ s)) # SumOf(f, s) + SumOf(f, S \ T)}
<1>1. B = {}
  <2> SUFFICES ASSUME B # {} PROVE FALSE
    OBVIOUS
  <2>0. B \subseteq SUBSET T /\ IsFiniteSet(T)
    BY <1>0
  <2>1. PICK m \in B : \A x \in B : x \subseteq m => x = m
    <3> HIDE DEF B
    <3> QED BY <2>0, SmallestMember
  <2>2. m \in SUBSET T /\ SumOf(f, S \ (T \ m)) # SumOf(f, m) + SumOf(f, S \ T)
    BY <2>1
  <2>3. \A s \in SUBSET m : s # m =>
           SumOf(f, S \ (T \ s)) = SumOf(f, s) + SumOf(f, S \ T)
    BY <2>1, <2>2
  <2> HIDE DEF B
  <2>4. CASE m = {}
    <3>1. S \ (T \ m) = S \ T
      BY <2>4
    <3>2. SumOf(f, {}) = 0
      BY SumUnfolds, FS_EmptySet
    <3>3. SumOf(f, S \ T) \in Nat
      <4>1. S \ T \in SUBSET S
        OBVIOUS
      <4> QED BY <1>0, <4>1
    <3>4. SumOf(f, m) = 0
      BY <2>4, <3>2
    <3>5. SumOf(f, S \ (T \ m)) = SumOf(f, S \ T)
      BY <3>1, Zenon
    <3>6. SumOf(f, S \ T) # SumOf(f, m) + SumOf(f, S \ T)
      BY <2>2, <3>5, Zenon
    <3> QED BY <3>3, <3>4, <3>6
  <2>5. CASE m # {}
    <3>1. PICK x \in m : TRUE
      BY <2>5
    <3> DEFINE A == S \ (T \ m)
               r == m \ {x}
    <3>2. A \in SUBSET S /\ x \in A /\ A \ {x} = S \ (T \ r) /\ r \in SUBSET m /\ r # m
          /\ m \in SUBSET S
      BY <2>2
    <3>3. SumOf(f, S \ (T \ r)) = SumOf(f, r) + SumOf(f, S \ T)
      BY <2>3, <3>2
    <3>4. SumOf(f, A) = f[x] + SumOf(f, A \ {x})
      <4> HIDE DEF A
      <4>1. IsFiniteSet(A) /\ \A y \in A : f[y] \in Nat
        BY <1>0, <3>2
      <4> QED BY <3>2, <4>1, SumOfMembers
    <3>5. SumOf(f, m) = f[x] + SumOf(f, r)
      <4>1. IsFiniteSet(m) /\ \A y \in m : f[y] \in Nat
        BY <1>0, <3>2
      <4> QED BY <4>1, SumOfMembers
    <3>6. /\ f[x] \in Nat /\ SumOf(f, r) \in Nat /\ SumOf(f, S \ T) \in Nat
      <4>1. r \in SUBSET S /\ S \ T \in SUBSET S /\ f[x] \in Nat
        BY <3>2
      <4> HIDE DEF r, A
      <4>2. SumOf(f, r) \in Nat
        BY <1>0, <4>1
      <4>3. SumOf(f, S \ T) \in Nat
        BY <1>0, <4>1
      <4> QED BY <4>1, <4>2, <4>3
    <3>7. SumOf(f, A) # SumOf(f, m) + SumOf(f, S \ T)
      BY <2>2
    <3>8. SumOf(f, A \ {x}) = SumOf(f, r) + SumOf(f, S \ T)
      BY <3>2, <3>3
    <3> HIDE DEF A, r
    <3> QED BY <3>4, <3>5, <3>6, <3>7, <3>8
  <2> QED BY <2>4, <2>5
<1>2. SumOf(f, S \ (T \ T)) = SumOf(f, T) + SumOf(f, S \ T)
  BY <1>1
<1>3. S \ (T \ T) = S /\ S \ T \in SUBSET S
  OBVIOUS
<1>4. SumOf(f, S) = SumOf(f, T) + SumOf(f, S \ T)
  BY <1>2, <1>3
<1>5. SumOf(f, S) \in Nat /\ SumOf(f, T) \in Nat /\ SumOf(f, S \ T) \in Nat
  BY <1>0, <1>3
<1> QED BY <1>4, <1>5

(* Nothing adds up to nothing, and no member is more than the sum. *)
LEMMA SumOfNothing ==
    ASSUME NEW S, IsFiniteSet(S), NEW f, \A x \in S : f[x] = 0
    PROVE  SumOf(f, S) = 0
<1> DEFINE B == {s \in SUBSET S : SumOf(f, s) # 0}
<1> SUFFICES ASSUME B # {} PROVE FALSE
  OBVIOUS
<1>0. B \subseteq SUBSET S
  OBVIOUS
<1>1. PICK m \in B : \A x \in B : x \subseteq m => x = m
  <2> HIDE DEF B
  <2> QED BY <1>0, SmallestMember
<1>2. m \in SUBSET S /\ IsFiniteSet(m) /\ SumOf(f, m) # 0
  BY <1>1, FS_Subset
<1>3. \A s \in SUBSET m : s # m => SumOf(f, s) = 0
  BY <1>1, <1>2
<1>4. m # {}
  BY SumUnfolds, <1>2
<1>5. Pick(m) \in m
  BY <1>4, PickIsMember
<1>6. SumOf(f, m) = f[Pick(m)] + SumOf(f, m \ {Pick(m)})
  BY <1>2, <1>4, SumUnfolds
<1>7. f[Pick(m)] = 0 /\ SumOf(f, m \ {Pick(m)}) = 0
  BY <1>2, <1>3, <1>5
<1> QED BY <1>2, <1>6, <1>7

LEMMA MemberIsAtMostSum ==
    ASSUME NEW S, IsFiniteSet(S), NEW f, \A x \in S : f[x] \in Nat, NEW x \in S
    PROVE  f[x] <= SumOf(f, S)
<1>1. SumOf(f, S) = f[x] + SumOf(f, S \ {x})
  BY SumOfMembers
<1>2. SumOf(f, S \ {x}) \in Nat
  <2>1. IsFiniteSet(S \ {x}) /\ \A y \in S \ {x} : f[y] \in Nat
    BY FS_Subset
  <2> QED BY <2>1, SumOfMembers
<1> QED BY <1>1, <1>2

(* The sums of the parts that a key splits a set into add up to its sum.   *)
LEMMA SumByKey ==
    ASSUME NEW S, IsFiniteSet(S), NEW f, \A x \in S : f[x] \in Nat,
           NEW C, IsFiniteSet(C), NEW key, \A x \in S : key[x] \in C
    PROVE  SumOf([c \in C |-> SumOf(f, {x \in S : key[x] = c})], C) = SumOf(f, S)
<1> DEFINE Parts(s) == [c \in C |-> SumOf(f, {x \in s : key[x] = c})]
           B == {s \in SUBSET S : SumOf(Parts(s), C) # SumOf(f, s)}
<1> SUFFICES ASSUME B # {} PROVE FALSE
  OBVIOUS
<1>0. B \subseteq SUBSET S
  OBVIOUS
<1>1. PICK m \in B : \A x \in B : x \subseteq m => x = m
  <2> HIDE DEF B
  <2> QED BY <1>0, SmallestMember
<1>2. m \in SUBSET S /\ IsFiniteSet(m) /\ SumOf(Parts(m), C) # SumOf(f, m)
  BY <1>1, FS_Subset
<1>3. \A s \in SUBSET m : s # m => SumOf(Parts(s), C) = SumOf(f, s)
  BY <1>1, <1>2
<1> HIDE DEF B
<1>4. SumOf(f, {}) = 0
  BY SumUnfolds, FS_EmptySet
<1>5. SumOf(Parts({}), C) = 0
  <2>1. \A c \in C : Parts({})[c] = SumOf(f, {})
    <3> SUFFICES ASSUME NEW c \in C PROVE Parts({})[c] = SumOf(f, {})
      OBVIOUS
    <3>1. {x \in {} : key[x] = c} = {}
      OBVIOUS
    <3>2. Parts({})[c] = SumOf(f, {x \in {} : key[x] = c})
      OBVIOUS
    <3> QED BY <3>1, <3>2, Zenon
  <2>2. \A c \in C : Parts({})[c] = 0
    BY <1>4, <2>1
  <2> HIDE DEF Parts
  <2> QED BY <2>2, SumOfNothing
<1>6. m # {}
  <2> HIDE DEF Parts
  <2> QED BY <1>2, <1>4, <1>5
<1>7. PICK x \in m : TRUE
  BY <1>6
<1> DEFINE r == m \ {x}
           d == key[x]
           In(s, c) == {y \in s : key[y] = c}
<1>8. SumOf(Parts(r), C) = SumOf(f, r)
  <2> HIDE DEF Parts
  <2> QED BY <1>3
<1>9. \A s \in SUBSET S : IsFiniteSet(s) /\ SumOf(f, s) \in Nat
  BY FS_Subset, SumOfMembers
<1>10. \A s \in SUBSET S, c \in C : Parts(s)[c] = SumOf(f, In(s, c)) /\ Parts(s)[c] \in Nat
  <2> SUFFICES ASSUME NEW s \in SUBSET S, NEW c \in C
               PROVE  Parts(s)[c] = SumOf(f, In(s, c)) /\ Parts(s)[c] \in Nat
    OBVIOUS
  <2>1. In(s, c) \in SUBSET S
    OBVIOUS
  <2>2. Parts(s)[c] = SumOf(f, In(s, c))
    OBVIOUS
  <2> HIDE DEF In, Parts
  <2> QED BY <1>9, <2>1, <2>2
<1>11. d \in C /\ r \in SUBSET S /\ m \in SUBSET S /\ x \in S
  BY <1>2
<1>12. SumOf(f, m) = f[x] + SumOf(f, r)
  <2>1. \A y \in m : f[y] \in Nat
    BY <1>2
  <2> QED BY <1>2, <2>1, SumOfMembers
<1>13. Parts(m)[d] = f[x] + Parts(r)[d]
  <2>1. x \in In(m, d) /\ In(m, d) \in SUBSET S /\ In(m, d) \ {x} = In(r, d)
    BY <1>2
  <2>2. IsFiniteSet(In(m, d)) /\ \A y \in In(m, d) : f[y] \in Nat
    <3> HIDE DEF In
    <3> QED BY <1>9, <2>1
  <2>3. SumOf(f, In(m, d)) = f[x] + SumOf(f, In(m, d) \ {x})
    <3> HIDE DEF In
    <3> QED BY <2>1, <2>2, SumOfMembers
  <2> HIDE DEF In, Parts, r, d
  <2> QED BY <1>10, <1>11, <2>1, <2>3
<1>14. \A c \in C \ {d} : Parts(m)[c] = Parts(r)[c]
  <2> SUFFICES ASSUME NEW c \in C \ {d} PROVE Parts(m)[c] = Parts(r)[c]
    OBVIOUS
  <2>1. In(m, c) = In(r, c)
    OBVIOUS
  <2> HIDE DEF In, Parts, r, d
  <2> QED BY <1>10, <1>11, <2>1
<1> HIDE DEF Parts, In, r, d
<1>15. ASSUME NEW s \in SUBSET S
       PROVE  /\ SumOf(Parts(s), C) = Parts(s)[d] + SumOf(Parts(s), C \ {d})
              /\ SumOf(Parts(s), C \ {d}) \in Nat /\ Parts(s)[d] \in Nat
  <2>1. \A c \in C : Parts(s)[c] \in Nat
    BY <1>10
  <2>2. IsFiniteSet(C \ {d}) /\ \A c \in C \ {d} : Parts(s)[c] \in Nat
    BY <2>1, FS_Subset
  <2>3. SumOf(Parts(s), C \ {d}) \in Nat
    BY <2>2, SumOfMembers
  <2> QED BY <1>11, <2>1, <2>3, SumOfMembers
<1>16. SumOf(Parts(m), C \ {d}) = SumOf(Parts(r), C \ {d})
  <2>1. IsFiniteSet(C \ {d})
    BY FS_Subset
  <2> QED BY <1>14, <2>1, SameAmountsSameSum
<1>17. f[x] \in Nat /\ SumOf(f, r) \in Nat
  BY <1>9, <1>11
<1> QED BY <1>2, <1>8, <1>11, <1>12, <1>13, <1>15, <1>16, <1>17

(* Some member of a finite set has the largest amount.                     *)
LEMMA SomeIsLargest ==
    ASSUME NEW S, IsFiniteSet(S), S # {}, NEW f, \A x \in S : f[x] \in Nat
    PROVE  \E x \in S : \A y \in S : f[y] <= f[x]
<1> DEFINE Up(x) == {y \in S : f[y] >= f[x]}
           B == {Up(x) : x \in S}
<1>1. B \subseteq SUBSET S /\ B # {}
  OBVIOUS
<1>2. PICK m \in B : \A x \in B : x \subseteq m => x = m
  <2> HIDE DEF B
  <2> QED BY <1>1, SmallestMember
<1>3. PICK x \in S : m = Up(x)
  OBVIOUS
<1>4. ASSUME NEW y \in S, ~(f[y] <= f[x]) PROVE FALSE
  <2>1. f[x] \in Nat /\ f[y] \in Nat /\ f[y] > f[x]
    BY <1>4
  <2>2. Up(y) \subseteq Up(x)
    BY <2>1
  <2>3. Up(y) \in B
    OBVIOUS
  <2>4. Up(y) = Up(x)
    <3> HIDE DEF B, Up
    <3> QED BY <1>2, <1>3, <2>2, <2>3
  <2>5. x \in Up(x) /\ x \notin Up(y)
    BY <2>1
  <2> QED BY <2>4, <2>5
<1> QED BY <1>4

(* An image of a finite set is finite.                                     *)
LEMMA ImageIsFinite ==
    ASSUME NEW S, IsFiniteSet(S), NEW f
    PROVE  IsFiniteSet({f[x] : x \in S})
<1> DEFINE T == {f[x] : x \in S}
           g == [x \in S |-> f[x]]
<1>1. g \in [S -> T] /\ \A t \in T : \E s \in S : g[s] = t
  OBVIOUS
<1>2. g \in Surjection(S, T)
  <2> HIDE DEF g, T
  <2> QED BY <1>1 DEF Surjection
<1> HIDE DEF g, T
<1>3. IsFiniteSet(T)
  BY <1>2, FS_Surjection
<1> QED BY <1>3 DEF T

LEMMA LeastAndGreatest ==
    ASSUME NEW a \in Int, NEW b \in Int
    PROVE  /\ Min({a, b}) = IF a <= b THEN a ELSE b
           /\ Max({a, b}) = IF a >= b THEN a ELSE b
<1>1. \E x \in {a, b} : \A y \in {a, b} : x <= y
  OBVIOUS
<1>2. \E x \in {a, b} : \A y \in {a, b} : x >= y
  OBVIOUS
<1>3. /\ Min({a, b}) \in {a, b} /\ \A y \in {a, b} : Min({a, b}) <= y
      /\ Max({a, b}) \in {a, b} /\ \A y \in {a, b} : Max({a, b}) >= y
  BY <1>1, <1>2, Zenon DEF Min, Max
<1> QED BY <1>3

(* A finite, nonempty set of naturals has a maximum.                       *)
LEMMA MaximumIsMember ==
    ASSUME NEW S \in SUBSET Nat, IsFiniteSet(S), S # {}
    PROVE  Max(S) \in S
<1> DEFINE f == [x \in S |-> x]
<1>1. \A x \in S : f[x] = x /\ f[x] \in Nat
  OBVIOUS
<1> HIDE DEF f
<1>2. \E x \in S : \A y \in S : f[y] <= f[x]
  BY <1>1, SomeIsLargest
<1>3. \E x \in S : \A y \in S : x >= y
  BY <1>1, <1>2
<1> QED BY <1>3, Zenon DEF Max

-----------------------------------------------------------------------------
(* Charts, shares and rates. *)

(* There are n largest amounts, or as many as there are.                   *)
LEMMA LargestExist ==
    ASSUME NEW n \in Nat, NEW amounts, IsFiniteSet(DOMAIN amounts),
           \A c \in DOMAIN amounts : amounts[c] \in Nat
    PROVE  Largest(n, amounts) \in SUBSET DOMAIN amounts
<1> DEFINE D == DOMAIN amounts
           k == Min({n, Cardinality(D)})
           Top(C) == \A c \in C, d \in D \ C : amounts[c] >= amounts[d]
           B == {D \ C : C \in {E \in SUBSET D : Cardinality(E) <= k /\ Top(E)}}
<1>1. Cardinality(D) \in Nat
  BY FS_CardinalityType
<1>2. k \in Nat /\ k <= Cardinality(D)
  BY <1>1, LeastAndGreatest
<1>3. B \subseteq SUBSET D
  OBVIOUS
<1>4. D \in B
  <2>1. {} \in SUBSET D /\ Cardinality({}) <= k /\ Top({}) /\ D = D \ {}
    BY <1>2, FS_EmptySet
  <2> HIDE DEF D, k, Top
  <2> QED BY <2>1
<1>5. PICK rest \in B : \A x \in B : x \subseteq rest => x = rest
  <2> HIDE DEF B, D
  <2> QED BY <1>3, <1>4, SmallestMember DEF D
<1>6. PICK C \in SUBSET D : rest = D \ C /\ Cardinality(C) <= k /\ Top(C)
  BY <1>5
<1>7. IsFiniteSet(C) /\ IsFiniteSet(D \ C)
  BY FS_Subset, FS_Difference
<1>8. Cardinality(C) = k
  <2> SUFFICES ASSUME Cardinality(C) # k PROVE FALSE
    OBVIOUS
  <2>1. Cardinality(C) \in Nat /\ Cardinality(C) < k
    <3> HIDE DEF k
    <3> QED BY <1>2, <1>6, <1>7, FS_CardinalityType
  <2>2. C # D
    <3> HIDE DEF k
    <3> QED BY <1>2, <2>1
  <2>3. D \ C # {}
    BY <1>6, <2>2
  <2>4. PICK x \in D \ C : \A y \in D \ C : amounts[y] <= amounts[x]
    <3>1. \A y \in D \ C : amounts[y] \in Nat
      OBVIOUS
    <3> HIDE DEF D
    <3> QED BY <1>7, <2>3, <3>1, SomeIsLargest
  <2> DEFINE E == C \cup {x}
  <2>5. Cardinality(E) = Cardinality(C) + 1
    BY <1>7, FS_AddElement
  <2>6. E \in SUBSET D
    OBVIOUS
  <2>7. Top(E)
    BY <1>6, <2>4
  <2>8. Cardinality(E) <= k
    <3> HIDE DEF E, k
    <3> QED BY <1>2, <2>1, <2>5
  <2>9. D \ E \in B
    <3> HIDE DEF E, D, k, Top
    <3> QED BY <2>6, <2>7, <2>8
  <2>10. D \ E \subseteq rest /\ D \ E # rest
    BY <1>6
  <2> HIDE DEF B, E, D
  <2> QED BY <1>5, <2>9, <2>10
<1>9. \E S \in SUBSET DOMAIN amounts :
        /\ Cardinality(S) = Min({n, Cardinality(DOMAIN amounts)})
        /\ \A c \in S, d \in DOMAIN amounts \ S : amounts[c] >= amounts[d]
  BY <1>6, <1>8
<1> QED BY <1>9, Zenon DEF Largest

(* A chart adds up to the amounts it is given; what it shows, the others   *)
(* taken together too, is part of that, and something if they all are.     *)
LEMMA ChartAddsUp ==
    ASSUME TopCategories \in Nat,
           NEW amounts, IsFiniteSet(DOMAIN amounts),
           \A c \in DOMAIN amounts : amounts[c] \in Nat
    PROVE  /\ ChartTotal(Chart(amounts)) = SumOf(amounts, DOMAIN amounts)
           /\ ChartTotal(Chart(amounts)) \in Nat
           /\ \A x \in Shown(Chart(amounts)) : x \in Nat /\ x <= ChartTotal(Chart(amounts))
           /\ (\A c \in DOMAIN amounts : amounts[c] > 0) =>
                 \A x \in Shown(Chart(amounts)) : x > 0
<1> DEFINE D == DOMAIN amounts
           top == Largest(TopCategories, amounts)
           rest == D \ top
           sum == SumOf(amounts, D)
           chart == Chart(amounts)
<1>1. top \in SUBSET D
  BY LargestExist
<1> HIDE DEF top
<1>2. /\ DOMAIN chart.top = top /\ \A c \in top : chart.top[c] = amounts[c]
      /\ chart.others = IF rest = {} THEN Null ELSE SumOf(amounts, rest)
  BY DEF Chart, Restrict, top
<1> HIDE DEF chart
<1>3. IsFiniteSet(top) /\ IsFiniteSet(rest) /\ rest \in SUBSET D
  BY <1>1, FS_Subset
<1>4. /\ sum = SumOf(amounts, top) + SumOf(amounts, rest)
      /\ sum \in Nat /\ SumOf(amounts, rest) \in Nat /\ SumOf(amounts, top) \in Nat
  BY <1>1, SumOfParts
<1>5. SumOf(chart.top, top) = SumOf(amounts, top)
  BY <1>2, <1>3, SameAmountsSameSum
<1>6. (IF chart.others = Null THEN 0 ELSE chart.others) = SumOf(amounts, rest)
  <2>1. CASE rest = {}
    <3>1. SumOf(amounts, {}) = 0
      BY SumUnfolds, FS_EmptySet
    <3> HIDE DEF rest
    <3> QED BY <1>2, <2>1, <3>1
  <2>2. CASE rest # {}
    <3> HIDE DEF rest
    <3> QED BY <1>2, <1>4, <2>2, NullIsNew
  <2> QED BY <2>1, <2>2
<1> HIDE DEF D, rest, sum
<1>7. ChartTotal(chart) = sum
  BY <1>2, <1>4, <1>5, <1>6 DEF ChartTotal
<1>8. ASSUME NEW x \in Shown(chart)
      PROVE  \/ \E c \in D : x = amounts[c]
             \/ rest # {} /\ x = SumOf(amounts, rest)
  <2>1. CASE \E c \in DOMAIN chart.top : x = chart.top[c]
    BY <1>1, <1>2, <2>1
  <2>2. CASE x = chart.others /\ x # Null
    BY <1>2, <2>2
  <2> QED BY <1>8, <2>1, <2>2 DEF Shown
<1>9. \A c \in D : amounts[c] \in Nat /\ amounts[c] <= sum
  BY MemberIsAtMostSum DEF D, sum
<1>10. ASSUME \A c \in D : amounts[c] > 0, rest # {}
       PROVE  SumOf(amounts, rest) > 0
  <2>1. PICK c \in rest : TRUE
    BY <1>10
  <2>2. \A d \in rest : amounts[d] \in Nat
    BY <1>3, <1>9
  <2>3. amounts[c] <= SumOf(amounts, rest)
    BY <1>3, <2>2, MemberIsAtMostSum
  <2>4. amounts[c] \in Nat /\ amounts[c] > 0
    BY <1>3, <1>10, <2>2
  <2> QED BY <1>4, <2>3, <2>4
<1>11. \A x \in Shown(chart) : x \in Nat /\ x <= sum
  BY <1>4, <1>8, <1>9
<1>12. (\A c \in D : amounts[c] > 0) => \A x \in Shown(chart) : x > 0
  BY <1>8, <1>10
<1> QED BY <1>4, <1>7, <1>11, <1>12 DEF chart, D, sum

(* Products of naturals are naturals, and keep the order.                  *)
LEMMA Products ==
    ASSUME NEW a \in Nat, NEW b \in Nat, NEW y \in Nat
    PROVE  /\ a * y \in Nat
           /\ a < b => a * y + y <= b * y
           /\ a <= b => a * y <= b * y
<1>1. a * y \in Nat
  OBVIOUS
<1>2. ASSUME a <= b PROVE a * y <= b * y
  <2>1. b - a \in Nat /\ (b - a) * y \in Nat
    BY <1>2
  <2>2. (b - a) * y = b * y - a * y
    OBVIOUS
  <2> QED BY <2>1, <2>2
<1>3. ASSUME a < b PROVE a * y + y <= b * y
  <2>1. b - (a + 1) \in Nat /\ (b - (a + 1)) * y \in Nat
    BY <1>3
  <2>2. (b - (a + 1)) * y = b * y - (a * y + y)
    OBVIOUS
  <2> QED BY <2>1, <2>2
<1> QED BY <1>1, <1>2, <1>3

LEMMA Quotient ==
    ASSUME NEW x \in Nat, NEW y \in Nat \ {0}
    PROVE  /\ x \div y \in Nat
           /\ (x \div y) * y <= x /\ x < (x \div y) * y + y
  OBVIOUS

(* Rounded to the nearest, a share of a total is at most a hundred.        *)
LEMMA PercentsAreShares ==
    ASSUME NEW x \in Nat, NEW y \in Nat \ {0}
    PROVE  /\ Percents(x, y) \subseteq Nat
           /\ x <= y => Percents(x, y) \subseteq 0..100
<1> DEFINE q == (100 * x) \div y
<1>1. q \in Nat /\ q * y <= 100 * x /\ 100 * x < q * y + y
  BY Quotient
<1>2. Percents(x, y) = {n \in {q, q + 1} : /\ 2 * (100 * x) <= (2 * n + 1) * y
                                           /\ (2 * n - 1) * y <= 2 * (100 * x)}
  BY DEF Percents, Nearest
<1> HIDE DEF q
<1>3. Percents(x, y) \subseteq Nat
  BY <1>1, <1>2
<1>4. ASSUME x <= y, NEW n \in Percents(x, y) PROVE n <= 100
  <2>1. n \in Nat /\ (2 * n - 1) * y <= 200 * x
    BY <1>1, <1>2, <1>4
  <2> SUFFICES ASSUME 101 <= n PROVE FALSE
    BY <2>1
  <2>2. 201 <= 2 * n - 1 /\ 2 * n - 1 \in Nat
    BY <2>1
  <2>3. 201 * y <= (2 * n - 1) * y
    BY <2>2, Products
  <2> QED BY <1>4, <2>1, <2>3
<1> QED BY <1>3, <1>4

(* The guarded ratio is one even of nothing. *)
LEMMA HomeRatiosAreShares ==
    ASSUME NEW x \in Nat, NEW y \in Nat, x <= y
    PROVE  HomeRatio(x, y) \subseteq 0..100
<1>1. CASE y = 0
  BY <1>1 DEF HomeRatio
<1>2. CASE y # 0
  BY <1>2, PercentsAreShares DEF HomeRatio
<1> QED BY <1>1, <1>2

(* Half up is one way of rounding to the nearest, and reaches a hundred    *)
(* only with the goal.                                                     *)
LEMMA RatesAgree ==
    ASSUME NEW s \in Nat, NEW g \in Nat \ {0}
    PROVE  /\ (200 * s + g) \div (2 * g) \in Percents(s, g)
           /\ s >= g => AchievementRate(s, g) = 100
<1> DEFINE q == (200 * s + g) \div (2 * g)
           d == (100 * s) \div g
<1>1. 200 * s + g \in Nat /\ 2 * g \in Nat \ {0} /\ 100 * s \in Nat
  OBVIOUS
<1>2. q \in Nat /\ q * (2 * g) <= 200 * s + g /\ 200 * s + g < q * (2 * g) + 2 * g
  BY <1>1, Quotient
<1>3. d \in Nat /\ d * g <= 100 * s /\ 100 * s < d * g + g
  BY <1>1, Quotient
<1>4. Percents(s, g) = {n \in {d, d + 1} : /\ 2 * (100 * s) <= (2 * n + 1) * g
                                           /\ (2 * n - 1) * g <= 2 * (100 * s)}
  BY DEF Percents, Nearest
<1>5. s >= g => AchievementRate(s, g) = IF 100 <= q THEN 100 ELSE q
  BY <1>2, LeastAndGreatest DEF AchievementRate
<1> HIDE DEF q, d
<1>6. /\ q * (2 * g) = 2 * (q * g) /\ q * g \in Nat /\ d * g \in Nat
      /\ (2 * q + 1) * g = 2 * (q * g) + g /\ (2 * q - 1) * g = 2 * (q * g) - g
  BY <1>2, <1>3
<1>7. q \in {d, d + 1}
  <2>1. ~(q < d)
    <3> SUFFICES ASSUME q < d PROVE FALSE
      OBVIOUS
    <3>1. q * g + g <= d * g
      BY <1>2, <1>3, Products
    <3> QED BY <1>2, <1>3, <1>6, <3>1
  <2>2. ~(d + 1 < q)
    <3> SUFFICES ASSUME d + 1 < q PROVE FALSE
      OBVIOUS
    <3>1. (d + 1) * g + g <= q * g
      BY <1>2, <1>3, Products
    <3>2. (d + 1) * g = d * g + g
      BY <1>3
    <3> QED BY <1>2, <1>3, <1>6, <3>1, <3>2
  <2> QED BY <1>2, <1>3, <2>1, <2>2
<1>8. q \in Percents(s, g)
  BY <1>2, <1>4, <1>6, <1>7
<1>9. ASSUME s >= g PROVE 100 <= q
  <2> SUFFICES ASSUME q < 100 PROVE FALSE
    BY <1>2
  <2>1. q * g + g <= 100 * g
    BY <1>2, Products
  <2> QED BY <1>2, <1>6, <1>9, <2>1
<1> QED BY <1>5, <1>8, <1>9 DEF q

-----------------------------------------------------------------------------
(* Tables of records: finitely many, with prices. *)
Ledger(table) == /\ IsFiniteSet(DOMAIN table)
                 /\ \A id \in DOMAIN table : table[id].price \in Nat

Prices(table) == [id \in DOMAIN table |-> table[id].price]

Existing == {id \in Ids : rows[id] # Null}

(* Some of the records of a table. *)
LEMMA PartOfLedger ==
    ASSUME NEW table, Ledger(table), NEW P \in SUBSET DOMAIN table
    PROVE  /\ Ledger(Restrict(table, P)) /\ DOMAIN Restrict(table, P) = P
           /\ \A id \in P : Restrict(table, P)[id] = table[id]
           /\ Total(Restrict(table, P)) = SumOf(Prices(table), P)
           /\ Total(table) = SumOf(Prices(table), DOMAIN table)
           /\ SumOf(Prices(table), P) \in Nat /\ Total(table) \in Nat
           /\ SumOf(Prices(table), P) <= Total(table)
<1> DEFINE part == Restrict(table, P)
           D == DOMAIN table
           f == Prices(table)
<1>1. IsFiniteSet(D) /\ IsFiniteSet(P)
  BY FS_Subset DEF Ledger
<1>2. DOMAIN part = P /\ \A id \in P : part[id] = table[id]
  BY DEF Restrict
<1>3. \A id \in D : f[id] = table[id].price /\ f[id] \in Nat
  BY DEF Prices, Ledger
<1>4. Ledger(part)
  BY <1>1, <1>2 DEF Ledger
<1>5. Total(table) = SumOf(f, D)
  BY DEF Total, Prices
<1>6. Total(part) = SumOf(Prices(part), P)
  BY <1>2 DEF Total, Prices
<1>7. \A id \in P : Prices(part)[id] = f[id]
  BY <1>2, <1>3 DEF Prices
<1> HIDE DEF part, f, D
<1>8. SumOf(Prices(part), P) = SumOf(f, P)
  BY <1>1, <1>7, SameAmountsSameSum
<1>9. /\ SumOf(f, D) \in Nat /\ SumOf(f, P) \in Nat
      /\ SumOf(f, P) <= SumOf(f, D)
  BY <1>1, <1>3, SumOfParts DEF D
<1> QED BY <1>2, <1>4, <1>5, <1>6, <1>8, <1>9 DEF part, f, D

(* The categories of a table have amounts, that add up to its total.       *)
LEMMA CategoriesAddUp ==
    ASSUME NEW table, Ledger(table)
    PROVE  /\ IsFiniteSet(DOMAIN ByCategory(table))
           /\ \A c \in DOMAIN ByCategory(table) : ByCategory(table)[c] \in Nat
           /\ SumOf(ByCategory(table), DOMAIN ByCategory(table)) = Total(table)
<1> DEFINE D == DOMAIN table
           key == [id \in D |-> CategoryOf(table[id])]
           C == {key[id] : id \in D}
           f == Prices(table)
           In(c) == {id \in D : key[id] = c}
           amounts == [c \in C |-> SumOf(f, In(c))]
<1>1. \A id \in D : key[id] \in C /\ f[id] \in Nat
  BY DEF Prices, Ledger
<1>2. IsFiniteSet(D)
  BY DEF Ledger
<1>3. IsFiniteSet(C)
  <2> HIDE DEF D, key
  <2> QED BY <1>2, ImageIsFinite
<1>4. \A c \in C : In(c) \in SUBSET D
  OBVIOUS
<1>5. \A c \in C : /\ Total(Restrict(table, In(c))) = SumOf(f, In(c))
                   /\ SumOf(f, In(c)) \in Nat
  <2> HIDE DEF In
  <2> QED BY <1>4, PartOfLedger
<1>6. ByCategory(table) = [c \in C |-> Total(Restrict(table, In(c)))]
  <2>1. {CategoryOf(table[id]) : id \in D} = C
    OBVIOUS
  <2>2. \A c : {id \in D : CategoryOf(table[id]) = c} = In(c)
    OBVIOUS
  <2> HIDE DEF C, In
  <2> QED BY <2>1, <2>2 DEF ByCategory
<1>7. ByCategory(table) = amounts
  <2> HIDE DEF C, In, f
  <2> QED BY <1>5, <1>6
<1>8. SumOf(amounts, C) = SumOf(f, D)
  <2> HIDE DEF D, key, f, C
  <2> QED BY <1>1, <1>2, <1>3, SumByKey
<1>9. SumOf(f, D) = Total(table)
  <2>1. D \in SUBSET D
    OBVIOUS
  <2> QED BY <2>1, PartOfLedger
<1>10. DOMAIN amounts = C /\ \A c \in C : amounts[c] \in Nat
  <2> HIDE DEF C, In, f
  <2> QED BY <1>5
<1> HIDE DEF amounts, C, f, D
<1> QED BY <1>3, <1>7, <1>8, <1>9, <1>10

-----------------------------------------------------------------------------
(* The account's own records. *)
LEMMA RowsAreLedger ==
    ASSUME TypeOK, NEW P \in SUBSET Existing
    PROVE  /\ Ledger(Restrict(rows, P)) /\ DOMAIN Restrict(rows, P) = P
           /\ \A id \in P : Restrict(rows, P)[id] = rows[id] /\ rows[id].price \in Nat
           /\ Total(Restrict(rows, P)) \in Nat
           /\ P = {} => Total(Restrict(rows, P)) = 0
<1> DEFINE part == Restrict(rows, P)
<1>1. IsFiniteSet(Ids)
  BY BoundsAreNaturals, FS_Interval DEF Ids
<1>2. IsFiniteSet(P)
  BY <1>1, FS_Subset DEF Existing
<1>3. DOMAIN part = P /\ \A id \in P : part[id] = rows[id]
  BY DEF Restrict
<1>4. \A id \in P : rows[id].price \in Nat
  BY DEF TypeOK, RowOK, Existing
<1>5. Ledger(part)
  BY <1>2, <1>3, <1>4 DEF Ledger
<1> HIDE DEF part
<1>6. Total(part) \in Nat
  <2>1. DOMAIN part \in SUBSET DOMAIN part
    OBVIOUS
  <2> QED BY <1>5, <2>1, PartOfLedger
<1>7. ASSUME P = {} PROVE Total(part) = 0
  <2>1. DOMAIN part = {}
    BY <1>3, <1>7
  <2> QED BY <2>1, SumUnfolds, FS_EmptySet DEF Total
<1> QED BY <1>3, <1>4, <1>5, <1>6, <1>7 DEF part

(* Some of them cost no more, and make no difference when the others are   *)
(* free.                                                                   *)
LEMMA SomeOfTheRows ==
    ASSUME TypeOK, NEW P \in SUBSET Existing, NEW Q \in SUBSET P
    PROVE  /\ Total(Restrict(rows, Q)) <= Total(Restrict(rows, P))
           /\ (\A id \in P \ Q : rows[id].price = 0) =>
                 Total(Restrict(rows, Q)) = Total(Restrict(rows, P))
<1> DEFINE all == Restrict(rows, P)
           f == Prices(all)
<1>1. /\ Ledger(all) /\ DOMAIN all = P
      /\ \A id \in P : all[id] = rows[id] /\ rows[id].price \in Nat
  BY RowsAreLedger
<1>2. Restrict(all, Q) = Restrict(rows, Q)
  BY DEF Restrict
<1> HIDE DEF all
<1>3. /\ Total(Restrict(rows, Q)) = SumOf(f, Q) /\ Total(all) = SumOf(f, P)
      /\ SumOf(f, Q) <= Total(all)
  <2>1. Q \in SUBSET DOMAIN all
    BY <1>1
  <2>2. /\ Total(Restrict(all, Q)) = SumOf(f, Q)
        /\ Total(all) = SumOf(f, DOMAIN all)
        /\ SumOf(f, Q) <= Total(all)
    BY <1>1, <2>1, PartOfLedger
  <2> QED BY <1>1, <1>2, <2>2
<1>4. \A id \in P : f[id] = rows[id].price /\ f[id] \in Nat
  BY <1>1 DEF Prices
<1>5. IsFiniteSet(P)
  BY <1>1 DEF Ledger
<1> HIDE DEF f
<1>6. ASSUME \A id \in P \ Q : rows[id].price = 0
      PROVE  SumOf(f, Q) = SumOf(f, P)
  <2>1. \A id \in P \ Q : f[id] = 0
    BY <1>4, <1>6
  <2>2. IsFiniteSet(P \ Q)
    BY <1>5, FS_Difference
  <2>3. SumOf(f, P \ Q) = 0
    BY <2>1, <2>2, SumOfNothing
  <2>4. SumOf(f, P) = SumOf(f, Q) + SumOf(f, P \ Q) /\ SumOf(f, Q) \in Nat
    BY <1>4, <1>5, SumOfParts
  <2> QED BY <2>3, <2>4
<1> QED BY <1>3, <1>6 DEF all

(* The records of a type among some, and those of them with a price. *)
LEMMA OfTheRows ==
    ASSUME NEW P, NEW type
    PROVE  Of(type, Restrict(rows, P)) = Restrict(rows, {id \in P : rows[id].type = type})
<1> DEFINE part == Restrict(rows, P)
           Q == {id \in P : rows[id].type = type}
<1>1. DOMAIN part = P /\ \A id \in P : part[id] = rows[id]
  BY DEF Restrict
<1>2. {id \in DOMAIN part : part[id].type = type} = Q
  BY <1>1
<1>3. Restrict(part, Q) = Restrict(rows, Q)
  BY <1>1 DEF Restrict
<1> HIDE DEF part, Q
<1> QED BY <1>2, <1>3 DEF Of, part, Q

Priced(P) == {id \in P : rows[id].price > 0}

LEMMA FreeAddNothing ==
    ASSUME TypeOK, NEW P \in SUBSET Existing
    PROVE  Total(Restrict(rows, Priced(P))) = Total(Restrict(rows, P))
<1>1. Priced(P) \in SUBSET P
  BY DEF Priced
<1>2. \A id \in P \ Priced(P) : rows[id].price = 0
  BY RowsAreLedger DEF Priced
<1> QED BY <1>1, <1>2, SomeOfTheRows

-----------------------------------------------------------------------------
(* The settings. *)
SettingsOK ==
    /\ target \in (Nat \ {0}) \cup {Null}
    /\ active \in BOOLEAN
    /\ budget \in [Months -> Nat \cup {Null}]

LEMMA SettingsAreInvariant ==
    /\ Init => SettingsOK
    /\ SettingsOK /\ [Next]_vars => SettingsOK'
<1>1. ASSUME Init PROVE SettingsOK
  BY <1>1, StartsHaveSettings DEF Init, SettingsOK
<1>2. ASSUME SettingsOK, [Next]_vars PROVE SettingsOK'
  <2>1. CASE RecordsAndSettings
    BY <1>2, <2>1 DEF RecordsAndSettings, SettingsOK, settings
  <2>2. ASSUME NEW c \in Calls, SettingsStep(c) PROVE SettingsOK'
    BY <1>2, <2>2, AmountsAreWhole
    DEF SettingsStep, UpdateSavingGoal, DeleteSavingGoal, UpdateOnboarding, SetBudget,
        SettingsOK
  <2>3. CASE StartHome \/ QueryHome \/ AnswerHome
    BY <1>2, <2>3 DEF StartHome, QueryHome, AnswerHome, SettingsOK, settings
  <2>4. CASE UNCHANGED vars
    BY <1>2, <2>4 DEF vars, SettingsOK
  <2> QED BY <1>2, <2>1, <2>2, <2>3, <2>4 DEF Next
<1> QED BY <1>1, <1>2

(* This month is the same to every service. *)
LEMMA OneCalendar ==
    ASSUME NEW t \in Times
    PROVE  /\ MonthAt(t) \in Nat
           /\ HomeMonth(t, 0) = BudgetMonth(MonthAt(t))
           /\ HomeMonth(t, 0) = ReportMonth(MonthAt(t))
<1>1. MonthAt(t) \in Nat
  BY BoundsAreNaturals, CalendarIsWhole, Quotient DEF Times, MonthAt
<1> QED BY <1>1 DEF HomeMonth, BudgetMonth, ReportMonth

(* The records of a type in a month. *)
Spell(type, m) ==
    {id \in Ids : /\ rows[id] # Null /\ rows[id].type = type
                  /\ During(ReportMonth(m), rows[id].at)}

LEMMA SpellsOfReport ==
    ASSUME TypeOK, NEW m, NEW type
    PROVE  /\ Spell(type, m) \in SUBSET Existing
           /\ Of(type, ReportRecords(m)) = Restrict(rows, Priced(Spell(type, m)))
           /\ Total(Of(type, ReportRecords(m))) = Total(Restrict(rows, Spell(type, m)))
<1> DEFINE P == {id \in Ids : /\ rows[id] # Null
                              /\ rows[id].price > 0 /\ During(ReportMonth(m), rows[id].at)}
<1>1. Spell(type, m) \in SUBSET Existing
  BY DEF Spell, Existing
<1>2. ReportRecords(m) = Restrict(rows, P)
  BY DEF ReportRecords, Where
<1>3. {id \in P : rows[id].type = type} = Priced(Spell(type, m))
  BY DEF Spell, Priced
<1> HIDE DEF P
<1>4. Of(type, ReportRecords(m)) = Restrict(rows, Priced(Spell(type, m)))
  BY <1>2, <1>3, OfTheRows
<1> QED BY <1>1, <1>4, FreeAddNothing

(* Free records make no difference to whether the prices are whole. *)
LEMMA WholeIfPricedAre ==
    ASSUME TypeOK, NEW P \in SUBSET Existing
    PROVE  Whole(Restrict(rows, Priced(P))) <=> Whole(Restrict(rows, P))
<1>1. Priced(P) \in SUBSET P
  BY DEF Priced
<1>2. \A Q \in SUBSET P :
         Whole(Restrict(rows, Q)) <=> \A id \in Q : rows[id].price % Won = 0
  BY DEF Whole, Restrict
<1>3. \A id \in P \ Priced(P) : rows[id].price % Won = 0
  <2>1. \A id \in P \ Priced(P) : rows[id].price = 0
    BY RowsAreLedger DEF Priced
  <2> QED BY <2>1 DEF Won
<1> QED BY <1>1, <1>2, <1>3

(* What the report says of an active goal, once it has decided. *)
Verdict(saved, achieved) ==
    [status |-> IF achieved THEN "ACHIEVED" ELSE "IN_PROGRESS",
     rates |-> {Min({100, n}) : n \in Percents(saved, target)},
     remaining |-> IF achieved THEN Null ELSE Max({target - saved, 0})]

LEMMA WhatIsReported ==
    ASSUME target # Null, active = TRUE, NEW reported \in ReportGoals
    PROVE  LET skipped == Of("SKIPPED", ReportRecords(MonthAt(now)))
           IN  \E achieved \in Reached(skipped, target) :
                  reported = Verdict(Total(skipped), achieved)
  BY Zenon DEF ReportGoals, Verdict

LEMMA GoalsAgreeInEveryState ==
    ASSUME TypeOK, SettingsOK
    PROVE  GoalsAgree
<1> SUFFICES ASSUME target # Null PROVE GoalsAgree
  BY DEF GoalsAgree
<1> DEFINE m == MonthAt(now)
           S == Spell("SKIPPED", m)
           s == Total(Restrict(rows, S))
           skipped == Where(LAMBDA r : r.type = "SKIPPED" /\ During(HomeMonth(now, 0), r.at))
           priced == Of("SKIPPED", ReportRecords(m))
<1>1. target \in Nat \ {0}
  BY DEF SettingsOK
<1>2. m \in Nat /\ HomeMonth(now, 0) = BudgetMonth(m) /\ HomeMonth(now, 0) = ReportMonth(m)
  BY OneCalendar DEF TypeOK
<1> HIDE DEF m
<1>3. S \in SUBSET Existing /\ priced = Restrict(rows, Priced(S)) /\ Total(priced) = s
  BY SpellsOfReport
<1>4. s \in Nat
  <2> HIDE DEF S
  <2> QED BY <1>3, RowsAreLedger
<1>5. skipped = Restrict(rows, S)
  BY <1>2 DEF Where, Spell
<1>6. Saved(HomeMonth(now, 0)) = s
  <2>1. Priced(S) = {id \in Ids : /\ rows[id] # Null
                                  /\ rows[id].type = "SKIPPED" /\ rows[id].price > 0
                                  /\ During(HomeMonth(now, 0), rows[id].at)}
    BY <1>2 DEF Priced, Spell
  <2>2. Saved(HomeMonth(now, 0)) = Total(Restrict(rows, Priced(S)))
    BY <2>1 DEF Saved, Where
  <2> HIDE DEF S
  <2> QED BY <1>3, <2>2, FreeAddNothing
<1>7. Total(skipped) = s /\ (Whole(priced) <=> Whole(skipped))
  <2> HIDE DEF S, skipped, priced
  <2> QED BY <1>3, <1>5, WholeIfPricedAre
<1> HIDE DEF skipped, s, priced
<1>8. SavingGoal = AchievementRate(s, target) /\ Cheer = AchievementRate(s, target)
  BY <1>2, <1>6 DEF SavingGoal, Cheer, m
<1> DEFINE goal == HomeGoal(s, target)
<1>9. goal.rate = AchievementRate(s, target)
  BY <1>1, <1>4, RatesAgree, NullIsNew DEF HomeGoal
<1>10. ASSUME active = TRUE, NEW reported \in ReportGoals
       PROVE  /\ goal.rate \in reported.rates
              /\ \/ reported.status = goal.status /\ reported.remaining = goal.remaining
                 \/ /\ s = target /\ ~Whole(skipped)
                    /\ reported.status = "IN_PROGRESS" /\ reported.remaining = 0
  <2> DEFINE q == (200 * s + target) \div (2 * target)
  <2>1. PICK achieved \in Reached(priced, target) : reported = Verdict(s, achieved)
    BY <1>3, <1>10, WhatIsReported DEF m, priced
  <2>2. AchievementRate(s, target) = Min({100, q}) /\ q \in Percents(s, target)
    <3>1. AchievementRate(s, target) = Min({100, q})
      BY <1>1, SMT DEF AchievementRate
    <3> QED BY <1>1, <1>4, <3>1, RatesAgree
  <2>3. goal.rate \in reported.rates
    <3> HIDE DEF q, goal
    <3> QED BY <1>9, <2>1, <2>2 DEF Verdict
  <2>4. \/ reported = Verdict(s, s >= target)
        \/ s = target /\ ~Whole(priced) /\ reported = Verdict(s, FALSE)
    <3>1. CASE Total(priced) = target /\ ~Whole(priced)
      <4>1. achieved \in BOOLEAN
        BY <2>1, <3>1 DEF Reached
      <4>2. s = target /\ (s >= target) = TRUE
        BY <1>1, <1>3, <3>1
      <4> QED BY <2>1, <3>1, <4>1, <4>2
    <3>2. CASE ~(Total(priced) = target /\ ~Whole(priced))
      BY <1>3, <2>1, <3>2 DEF Reached
    <3> QED BY <3>1, <3>2
  <2>5. CASE reported = Verdict(s, s >= target)
    <3>1. CASE s >= target
      <4>1. reported.status = "ACHIEVED" /\ reported.remaining = Null
        BY <2>5, <3>1 DEF Verdict
      <4> QED BY <1>1, <2>3, <3>1, <4>1, NullIsNew DEF HomeGoal
    <3>2. CASE ~(s >= target)
      <4>1. /\ reported.status = "IN_PROGRESS"
            /\ reported.remaining = Max({target - s, 0})
        BY <2>5, <3>2 DEF Verdict
      <4>2. target - s \in Int /\ target - s >= 0
        BY <1>1, <1>4, <3>2
      <4>3. Max({target - s, 0}) = target - s
        BY <4>2, LeastAndGreatest
      <4> QED BY <1>1, <2>3, <3>2, <4>1, <4>3, NullIsNew DEF HomeGoal
    <3> QED BY <3>1, <3>2
  <2>6. CASE s = target /\ ~Whole(priced) /\ reported = Verdict(s, FALSE)
    <3>1. reported.status = "IN_PROGRESS" /\ reported.remaining = Max({target - s, 0})
      BY <2>6 DEF Verdict
    <3>2. Max({target - s, 0}) = 0
      BY <1>1, <2>6, LeastAndGreatest
    <3> HIDE DEF goal
    <3> QED BY <1>7, <2>3, <2>6, <3>1, <3>2
  <2> QED BY <2>4, <2>5, <2>6
<1> HIDE DEF goal
<1> QED BY <1>7, <1>8, <1>9, <1>10 DEF GoalsAgree, goal, skipped

(* What a home summary shows of the records it has read adds up to them,   *)
(* and every share of it is one, though they may all be free.              *)
LEMMA ChartOfRecords ==
    ASSUME NEW table, Ledger(table)
    PROVE  /\ ChartTotal(HomeChart(table)) = Total(table)
           /\ \A shares \in HomeShares(HomeChart(table)) : shares \subseteq 0..100
<1> DEFINE amounts == ByCategory(table)
           chart == Chart(amounts)
<1>1. /\ IsFiniteSet(DOMAIN amounts) /\ \A c \in DOMAIN amounts : amounts[c] \in Nat
      /\ SumOf(amounts, DOMAIN amounts) = Total(table)
  BY CategoriesAddUp
<1> HIDE DEF amounts
<1>2. /\ ChartTotal(chart) = SumOf(amounts, DOMAIN amounts) /\ ChartTotal(chart) \in Nat
      /\ \A x \in Shown(chart) : x \in Nat /\ x <= ChartTotal(chart)
  BY <1>1, CalendarIsWhole, ChartAddsUp
<1>3. HomeChart(table) = chart
  BY DEF HomeChart, amounts
<1> HIDE DEF chart
<1>4. \A x \in Shown(chart) : HomeRatio(x, ChartTotal(chart)) \subseteq 0..100
  BY <1>2, HomeRatiosAreShares
<1> QED BY <1>1, <1>2, <1>3, <1>4 DEF HomeShares

(* The report's chart: only categories with consumption. *)
LEMMA ChartOfReport ==
    ASSUME TypeOK, NEW m
    PROVE  /\ ChartTotal(ReportChart(m)) = ReportSpent(m)
           /\ \A shares \in ReportShares(ReportChart(m)) : shares \subseteq 0..100
<1> DEFINE table == Of("CONSUMED", ReportRecords(m))
           spent == ByCategory(table)
           C == DOMAIN spent
           D == {c \in C : spent[c] > 0}
           amounts == Restrict(spent, D)
<1>1. Ledger(table)
  <2>1. Priced(Spell("CONSUMED", m)) \in SUBSET Existing
    BY DEF Priced, Spell, Existing
  <2> QED BY <2>1, RowsAreLedger, SpellsOfReport
<1>2. /\ IsFiniteSet(C) /\ \A c \in C : spent[c] \in Nat
      /\ SumOf(spent, C) = Total(table)
  <2> HIDE DEF table
  <2> QED BY <1>1, CategoriesAddUp
<1>3. ReportChart(m) = Chart(amounts) /\ Total(table) = ReportSpent(m)
  BY DEF ReportChart, ReportSpent
<1> HIDE DEF table, spent
<1>4. D \in SUBSET C /\ C \ D = {c \in C : spent[c] = 0}
  BY <1>2
<1>5. IsFiniteSet(D) /\ IsFiniteSet(C \ D)
  BY <1>2, <1>4, FS_Subset, FS_Difference
<1>6. DOMAIN amounts = D /\ \A c \in D : amounts[c] = spent[c] /\ amounts[c] \in Nat \ {0}
  BY <1>2, <1>4 DEF Restrict
<1>7. SumOf(spent, C \ D) = 0
  <2>1. \A c \in C \ D : spent[c] = 0
    BY <1>4
  <2> HIDE DEF C, D
  <2> QED BY <1>5, <2>1, SumOfNothing
<1> HIDE DEF C, D, amounts
<1>8. SumOf(spent, C) = SumOf(spent, D) + SumOf(spent, C \ D) /\ SumOf(spent, D) \in Nat
  BY <1>2, <1>4, SumOfParts
<1>9. SumOf(amounts, D) = SumOf(spent, D)
  BY <1>5, <1>6, SameAmountsSameSum
<1> DEFINE chart == Chart(amounts)
<1>10. /\ ChartTotal(chart) = SumOf(amounts, D) /\ ChartTotal(chart) \in Nat
       /\ \A x \in Shown(chart) : x \in Nat /\ x <= ChartTotal(chart) /\ x > 0
  BY <1>5, <1>6, CalendarIsWhole, ChartAddsUp
<1> HIDE DEF chart
<1>11. \A x \in Shown(chart) : Percents(x, ChartTotal(chart)) \subseteq 0..100
  <2> SUFFICES ASSUME NEW x \in Shown(chart)
               PROVE  Percents(x, ChartTotal(chart)) \subseteq 0..100
    OBVIOUS
  <2>1. x \in Nat /\ x <= ChartTotal(chart) /\ ChartTotal(chart) \in Nat \ {0}
    BY <1>10
  <2> QED BY <2>1, PercentsAreShares
<1>12. ReportChart(m) = chart
  BY <1>3 DEF chart
<1> QED BY <1>2, <1>3, <1>7, <1>8, <1>9, <1>10, <1>11, <1>12 DEF ReportShares

(* The amounts of the ratio. *)
LEMMA RatioIsOfHistory ==
    ASSUME TypeOK, NEW type
    PROVE  RatioAmount(type) = Total(Of(type, History)) /\ RatioAmount(type) \in Nat
<1> DEFINE H == {id \in Ids : rows[id] # Null /\ Recent(rows[id].at)}
           P == {id \in H : rows[id].type = type}
<1>1. P \in SUBSET Existing
  BY DEF Existing
<1>2. Of(type, History) = Restrict(rows, P)
  <2>1. History = Restrict(rows, H)
    BY DEF History, Where
  <2> HIDE DEF H
  <2> QED BY <2>1, OfTheRows
<1>3. Priced(P) = {id \in Ids : /\ rows[id] # Null /\ rows[id].type = type
                                /\ rows[id].price > 0 /\ Recent(rows[id].at)}
  BY DEF Priced
<1>4. RatioAmount(type) = Total(Restrict(rows, Priced(P)))
  BY <1>3 DEF RatioAmount, Where
<1> HIDE DEF P
<1>5. Total(Restrict(rows, P)) \in Nat
  BY <1>1, RowsAreLedger
<1> QED BY <1>1, <1>2, <1>4, <1>5, FreeAddNothing

LEMMA SpendingAgreesInEveryState ==
    ASSUME TypeOK
    PROVE  SpendingAgrees
<1> DEFINE m == MonthAt(now)
           S == Spell("CONSUMED", m)
           bought == Where(LAMBDA r : r.type = "CONSUMED" /\ During(HomeMonth(now, 0), r.at))
<1>1. HomeMonth(now, 0) = BudgetMonth(m) /\ HomeMonth(now, 0) = ReportMonth(m)
  BY OneCalendar DEF TypeOK
<1>2. S \in SUBSET Existing /\ ReportSpent(m) = Total(Restrict(rows, S))
  BY SpellsOfReport DEF ReportSpent
<1> HIDE DEF m
<1>3. bought = Restrict(rows, S) /\ Spent(m) = Restrict(rows, S)
  BY <1>1 DEF Where, Spell, Spent
<1> HIDE DEF S, bought
<1>4. Total(bought) = Total(Spent(m)) /\ Total(bought) = ReportSpent(m)
  BY <1>2, <1>3
<1>5. ChartTotal(HomeChart(bought)) = Total(bought)
  BY <1>2, <1>3, RowsAreLedger, ChartOfRecords
<1>6. ChartTotal(ReportChart(m)) = Total(bought)
  BY <1>4, ChartOfReport
<1>7. \A type \in Types : RatioAmount(type) = Total(Of(type, History))
  BY RatioIsOfHistory
<1>8. \A id \in DOMAIN History : RecentOfCategory(id) \subseteq DOMAIN History
  BY DEF History, Where, Restrict, RecentOfCategory
<1> QED BY <1>4, <1>5, <1>6, <1>7, <1>8 DEF SpendingAgrees, m, bought

-----------------------------------------------------------------------------
(* Shares. *)

(* What was skipped of a category is at most what the category cost. *)
LEMMA DefenseIsShare ==
    ASSUME TypeOK, NEW m
    PROVE  \A shares \in Defense(m) : shares \subseteq 0..100
<1> DEFINE table == ReportRecords(m)
           some == Of("SKIPPED", table)
           all == ByCategory(table)
           skipped == ByCategory(some)
           In(t, c) == {id \in DOMAIN t : CategoryOf(t[id]) = c}
<1> SUFFICES ASSUME NEW c \in DOMAIN all, all[c] > 0
             PROVE  Percents(IF c \in DOMAIN skipped THEN skipped[c] ELSE 0, all[c])
                       \subseteq 0..100
  BY Zenon DEF Defense
<1>1. Ledger(table)
  <2> DEFINE P == {id \in Ids : /\ rows[id] # Null
                                /\ rows[id].price > 0 /\ During(ReportMonth(m), rows[id].at)}
  <2>1. P \in SUBSET Existing /\ table = Restrict(rows, P)
    BY DEF Existing, ReportRecords, Where
  <2> HIDE DEF P, table
  <2> QED BY <2>1, RowsAreLedger
<1> HIDE DEF table
<1>2. /\ Ledger(some) /\ DOMAIN some \subseteq DOMAIN table
      /\ \A id \in DOMAIN some : some[id] = table[id]
  <2> DEFINE Q == {id \in DOMAIN table : table[id].type = "SKIPPED"}
  <2>1. some = Restrict(table, Q) /\ Q \in SUBSET DOMAIN table
    BY DEF Of
  <2> HIDE DEF Q, some
  <2> QED BY <1>1, <2>1, PartOfLedger
<1> HIDE DEF some
<1>3. \A d \in DOMAIN all : all[d] = SumOf(Prices(table), In(table, d)) /\ all[d] \in Nat
  <2> SUFFICES ASSUME NEW d \in DOMAIN all
               PROVE  all[d] = SumOf(Prices(table), In(table, d)) /\ all[d] \in Nat
    OBVIOUS
  <2>1. In(table, d) \in SUBSET DOMAIN table
    OBVIOUS
  <2>2. all[d] = Total(Restrict(table, In(table, d)))
    BY DEF ByCategory
  <2> HIDE DEF In, all
  <2> QED BY <1>1, <2>1, <2>2, PartOfLedger
<1>4. ASSUME NEW d \in DOMAIN skipped
      PROVE  skipped[d] = SumOf(Prices(some), In(some, d)) /\ skipped[d] \in Nat
  <2>1. In(some, d) \in SUBSET DOMAIN some
    OBVIOUS
  <2>2. skipped[d] = Total(Restrict(some, In(some, d)))
    BY DEF ByCategory
  <2> HIDE DEF In, skipped
  <2> QED BY <1>2, <2>1, <2>2, PartOfLedger
<1>5. ASSUME c \in DOMAIN skipped PROVE skipped[c] <= all[c]
  <2> DEFINE big == In(table, c)
             small == In(some, c)
  <2>1. small \in SUBSET big /\ big \in SUBSET DOMAIN table /\ small \subseteq DOMAIN some
    BY <1>2
  <2>2. IsFiniteSet(big) /\ IsFiniteSet(small)
    <3> HIDE DEF big, small
    <3> QED BY <1>1, <2>1, FS_Subset DEF Ledger
  <2> HIDE DEF big, small
  <2>3. \A id \in small : Prices(some)[id] = Prices(table)[id]
    BY <1>2, <2>1 DEF Prices
  <2>4. \A id \in big : Prices(table)[id] \in Nat
    BY <1>1, <2>1 DEF Prices, Ledger
  <2>5. SumOf(Prices(some), small) = SumOf(Prices(table), small)
    BY <2>2, <2>3, SameAmountsSameSum
  <2>6. SumOf(Prices(table), small) <= SumOf(Prices(table), big)
    BY <2>1, <2>2, <2>4, SumOfParts
  <2>7. skipped[c] = SumOf(Prices(some), small) /\ all[c] = SumOf(Prices(table), big)
    BY <1>3, <1>4, <1>5 DEF small, big
  <2> HIDE DEF all, skipped
  <2> QED BY <2>5, <2>6, <2>7
<1> HIDE DEF all, skipped, In
<1>6. all[c] \in Nat \ {0}
  BY <1>3
<1> QED BY <1>4, <1>5, <1>6, PercentsAreShares

(* The most spent in one hour of the week is at most what was spent. *)
LEMMA VulnerableIsShare ==
    ASSUME TypeOK, NEW m
    PROVE  Vulnerable(m) \subseteq 0..100
<1> DEFINE consumed == Of("CONSUMED", ReportRecords(m))
           D == DOMAIN consumed
           slot == [id \in D |-> (consumed[id].at + Offset) % WeekLen]
           In(w) == {id \in D : slot[id] = w}
           amount == [id \in D |-> Total(Restrict(consumed, In(slot[id])))]
           A == {amount[id] : id \in D}
<1> SUFFICES ASSUME ~(Cardinality(D) < 3)
             PROVE  Percents(Max(A), Total(consumed)) \subseteq 0..100
  <2>1. \A id \in D : {x \in D : (consumed[x].at + Offset) % WeekLen
                                    = (consumed[id].at + Offset) % WeekLen} = In(slot[id])
    OBVIOUS
  <2>2. A = {Total(Restrict(consumed, {x \in D : (consumed[x].at + Offset) % WeekLen
                                    = (consumed[id].at + Offset) % WeekLen})) : id \in D}
    <3> HIDE DEF D, slot, In
    <3> QED BY <2>1
  <2> HIDE DEF A
  <2> QED BY <2>2 DEF Vulnerable
<1> DEFINE P == Priced(Spell("CONSUMED", m))
<1>1. P \in SUBSET Existing /\ consumed = Restrict(rows, P)
  BY SpellsOfReport DEF Priced
<1>2. /\ Ledger(consumed) /\ D = P
      /\ \A id \in D : consumed[id].price \in Nat \ {0}
  <2>1. \A id \in P : rows[id].price > 0
    BY DEF Priced
  <2> HIDE DEF P, consumed
  <2> QED BY <1>1, <2>1, RowsAreLedger
<1> HIDE DEF P, consumed
<1>3. IsFiniteSet(D) /\ D # {}
  BY <1>2, FS_EmptySet DEF Ledger
<1>4. \A id \in D : In(slot[id]) \in SUBSET D
  OBVIOUS
<1>5. \A id \in D : amount[id] \in Nat /\ amount[id] <= Total(consumed)
  <2> SUFFICES ASSUME NEW id \in D
               PROVE  amount[id] \in Nat /\ amount[id] <= Total(consumed)
    OBVIOUS
  <2> DEFINE Q == In(slot[id])
  <2>1. amount[id] = Total(Restrict(consumed, Q)) /\ Q \in SUBSET DOMAIN consumed
    BY <1>4
  <2> HIDE DEF Q, amount
  <2> QED BY <1>2, <2>1, PartOfLedger
<1>6. Total(consumed) \in Nat \ {0}
  <2>1. PICK id \in D : TRUE
    BY <1>3
  <2>2. D \in SUBSET DOMAIN consumed
    OBVIOUS
  <2>3. Total(consumed) = SumOf(Prices(consumed), D) /\ Total(consumed) \in Nat
    BY <1>2, <2>2, PartOfLedger
  <2>4. \A x \in D : Prices(consumed)[x] \in Nat \ {0}
    BY <1>2 DEF Prices
  <2>5. Prices(consumed)[id] <= SumOf(Prices(consumed), D)
    BY <1>3, <2>4, MemberIsAtMostSum
  <2> QED BY <2>3, <2>4, <2>5
<1> HIDE DEF amount, D
<1>7. A \in SUBSET Nat /\ A # {} /\ IsFiniteSet(A)
  <2>1. IsFiniteSet(A)
    BY <1>3, ImageIsFinite
  <2> QED BY <1>3, <1>5, <2>1
<1>8. Max(A) \in A
  <2> HIDE DEF A
  <2> QED BY <1>7, MaximumIsMember
<1>9. Max(A) \in Nat /\ Max(A) <= Total(consumed)
  BY <1>5, <1>8
<1> HIDE DEF A
<1> QED BY <1>6, <1>9, PercentsAreShares

(* How much of a budget is used: a hundred when it is spent. *)
LEMMA UsageIsShare ==
    ASSUME NEW amount \in Nat, NEW spent \in Nat
    PROVE  Usage(amount, spent) \subseteq 0..100
<1>1. CASE amount = 0
  BY <1>1 DEF Usage
<1>2. CASE amount > 0
  <2>1. Usage(amount, spent) = {Min({100, n}) : n \in Percents(spent, amount)}
    BY <1>2 DEF Usage
  <2>2. \A n \in Percents(spent, amount) : n \in Nat
    BY <1>2, PercentsAreShares
  <2>3. ASSUME NEW n \in Nat PROVE Min({100, n}) \in 0..100
    <3>1. 100 \in Int /\ n \in Int
      OBVIOUS
    <3>2. Min({100, n}) = IF 100 <= n THEN 100 ELSE n
      BY <3>1, LeastAndGreatest
    <3> QED BY <3>2
  <2> QED BY <2>1, <2>2, <2>3
<1> QED BY <1>1, <1>2

(* The home summary: what it has read is a table of records and a budget,  *)
(* whatever other requests have done since, and the shares it answers with *)
(* are shares.                                                             *)
HomeOK ==
    /\ DOMAIN home = DOMAIN Unread
    /\ home.step = "idle" => home = Unread
    /\ home.step = "reading" =>
          /\ home.now \in Times
          /\ "records" \in DOMAIN home.read => Ledger(home.read["records"])
          /\ "budget" \in DOMAIN home.read =>
                home.read["budget"] = Null \/ home.read["budget"].amount \in Nat
    /\ home.step = "answered" =>
          \A shares \in home.answer.shares : shares \subseteq 0..100

LEMMA SharesAreDefinedInEveryState ==
    ASSUME TypeOK, SettingsOK, HomeOK
    PROVE  SharesAreDefined
<1>1. \A m : \A shares \in ReportShares(ReportChart(m)) : shares \subseteq 0..100
  BY ChartOfReport
<1>2. \A m \in Months : budget[m] # Null => BudgetView(m).usage \subseteq 0..100
  <2> SUFFICES ASSUME NEW m \in Months, budget[m] # Null
               PROVE  BudgetView(m).usage \subseteq 0..100
    OBVIOUS
  <2>1. budget[m] \in Nat
    BY DEF SettingsOK
  <2>2. Total(Spent(m)) \in Nat
    <3> DEFINE P == {id \in Ids : /\ rows[id] # Null /\ rows[id].type = "CONSUMED"
                                  /\ During(BudgetMonth(m), rows[id].at)}
    <3>1. P \in SUBSET Existing /\ Spent(m) = Restrict(rows, P)
      BY DEF Existing, Spent, Where
    <3> HIDE DEF P
    <3> QED BY <3>1, RowsAreLedger
  <2> QED BY <2>1, <2>2, UsageIsShare DEF BudgetView
<1>3. SkippedRatio \subseteq 0..100
  <2> DEFINE x == RatioAmount("SKIPPED")
             y == RatioAmount("CONSUMED")
  <2>1. x \in Nat /\ y \in Nat
    BY RatioIsOfHistory
  <2>2. SkippedRatio = IF x + y = 0 THEN {0} ELSE Percents(x, x + y)
    BY DEF SkippedRatio
  <2> HIDE DEF x, y
  <2>3. CASE x + y = 0
    BY <2>2, <2>3
  <2>4. CASE x + y # 0
    <3>1. x + y \in Nat \ {0} /\ x <= x + y
      BY <2>1, <2>4
    <3> QED BY <2>1, <2>2, <2>4, <3>1, PercentsAreShares
  <2> QED BY <2>3, <2>4
<1> DEFINE reports == UNION {ReportShares(ReportChart(m)) \cup Defense(m) \cup {Vulnerable(m)} :
                                m \in 0..MonthAt(now)}
           budgets == {BudgetView(m).usage : m \in {n \in Months : budget[n] # Null}}
           answered == IF home.step = "answered" THEN home.answer.shares ELSE {}
<1>4. \A shares \in reports : shares \subseteq 0..100
  BY <1>1, DefenseIsShare, VulnerableIsShare
<1>5. \A shares \in budgets : shares \subseteq 0..100
  BY <1>2
<1>6. \A shares \in answered : shares \subseteq 0..100
  BY DEF HomeOK
<1>7. Shares = UNION (reports \cup budgets \cup answered \cup {SkippedRatio})
  BY DEF Shares
<1> HIDE DEF reports, budgets, answered
<1> QED BY <1>3, <1>4, <1>5, <1>6, <1>7 DEF SharesAreDefined

-----------------------------------------------------------------------------
LEMMA QueriesAreWhole ==
    ASSUME TypeOK, SettingsOK, home.now \in Times
    PROVE  /\ Ledger(HomeQuery("records"))
           /\ HomeQuery("budget") = Null \/ HomeQuery("budget").amount \in Nat
<1>1. Ledger(HomeQuery("records"))
  <2> DEFINE P == {id \in Ids : /\ rows[id] # Null /\ rows[id].type = "CONSUMED"
                                /\ During(HomeMonth(home.now, 0), rows[id].at)}
  <2>1. P \in SUBSET Existing /\ HomeQuery("records") = Restrict(rows, P)
    BY DEF Existing, HomeQuery, Where
  <2> HIDE DEF P
  <2> QED BY <2>1, RowsAreLedger
<1>2. MonthAt(home.now) \in Months
  <2>1. MonthAt(home.now) \in Nat /\ MonthAt(MaxTime) \in Nat
    BY OneCalendar, BoundsAreNaturals DEF Times
  <2>2. MonthAt(home.now) <= MonthAt(MaxTime)
    <3> DEFINE x == home.now + Offset
               y == MaxTime + Offset
               a == x \div MonthLen
               b == y \div MonthLen
    <3>1. x \in Nat /\ y \in Nat /\ x <= y /\ MonthLen \in Nat \ {0}
      BY BoundsAreNaturals, CalendarIsWhole DEF Times
    <3> HIDE DEF x, y
    <3>2. /\ a \in Nat /\ b \in Nat
          /\ a * MonthLen <= x /\ y < b * MonthLen + MonthLen
      BY <3>1, Quotient
    <3> HIDE DEF a, b
    <3>3. a <= b
      <4> SUFFICES ASSUME b < a PROVE FALSE
        BY <3>2
      <4>1. b * MonthLen + MonthLen <= a * MonthLen
        BY <3>1, <3>2, Products
      <4>2. a * MonthLen \in Nat /\ b * MonthLen \in Nat
        BY <3>1, <3>2, Products
      <4> QED BY <3>1, <3>2, <4>1, <4>2
    <3> QED BY <3>3 DEF MonthAt, a, b, x, y
  <2> QED BY <2>1, <2>2 DEF Months
<1>3. HomeQuery("budget") = Null \/ HomeQuery("budget").amount \in Nat
  <2> DEFINE m == MonthAt(home.now)
  <2>1. HomeQuery("budget") = IF budget[m] = Null THEN Null ELSE BudgetView(m)
    BY DEF HomeQuery
  <2>2. budget[m] \in Nat \cup {Null} /\ BudgetView(m).amount = budget[m]
    BY <1>2 DEF SettingsOK, BudgetView
  <2> HIDE DEF m
  <2> QED BY <2>1, <2>2
<1> QED BY <1>1, <1>3

LEMMA HomeIsInvariant ==
    /\ Init => HomeOK /\ SummaryAddsUp
    /\ TypeOK /\ SettingsOK /\ HomeOK /\ SummaryAddsUp /\ [Next]_vars
          => HomeOK' /\ SummaryAddsUp'
<1>1. ASSUME Init PROVE HomeOK /\ SummaryAddsUp
  BY <1>1 DEF Init, Unread, HomeOK, SummaryAddsUp
<1>2. ASSUME TypeOK, SettingsOK, HomeOK, SummaryAddsUp, [Next]_vars
      PROVE  HomeOK' /\ SummaryAddsUp'
  <2>1. CASE UNCHANGED home
    BY <1>2, <2>1 DEF HomeOK, SummaryAddsUp, Ledger, ChartTotal
  <2>2. CASE StartHome
    <3>1. home' = [Unread EXCEPT !.step = "reading", !.now = now, !.target = target]
      BY <1>2, <2>2 DEF StartHome, HomeOK
    <3>2. /\ home'.step = "reading" /\ home'.now = now /\ home'.read = <<>>
          /\ DOMAIN home' = DOMAIN Unread
      BY <3>1 DEF Unread
    <3>3. UNCHANGED now /\ now \in Times
      BY <1>2, <2>2 DEF StartHome, recordVars, TypeOK
    <3> QED BY <3>2, <3>3 DEF HomeOK, SummaryAddsUp
  <2>3. CASE QueryHome
    <3>1. /\ home.step = "reading" /\ home.now \in Times /\ DOMAIN home = DOMAIN Unread
      BY <1>2, <2>3 DEF QueryHome, HomeOK
    <3>2. PICK q \in Queries :
             IF q = "budget" /\ wage = Gone
             THEN home' = [Unread EXCEPT !.step = "refused"]
             ELSE home' = [home EXCEPT !.read =
                     [p \in DOMAIN @ \cup {q} |-> IF p = q THEN HomeQuery(q) ELSE @[p]]]
      BY <2>3 DEF QueryHome
    <3>3. CASE q = "budget" /\ wage = Gone
      BY <3>2, <3>3 DEF HomeOK, SummaryAddsUp, Unread
    <3>4. CASE ~(q = "budget" /\ wage = Gone)
      <4> DEFINE read == [p \in DOMAIN home.read \cup {q} |->
                             IF p = q THEN HomeQuery(q) ELSE home.read[p]]
      <4>1. home' = [home EXCEPT !.read = read]
        BY <3>2, <3>4
      <4>2. /\ DOMAIN read = DOMAIN home.read \cup {q}
            /\ \A p \in DOMAIN read : read[p] = IF p = q THEN HomeQuery(q) ELSE home.read[p]
        OBVIOUS
      <4> HIDE DEF read
      <4>3. /\ home'.step = "reading" /\ home'.now = home.now /\ home'.read = read
            /\ DOMAIN home' = DOMAIN Unread
        BY <3>1, <4>1 DEF Unread
      <4>4. /\ Ledger(HomeQuery("records"))
            /\ HomeQuery("budget") = Null \/ HomeQuery("budget").amount \in Nat
        BY <1>2, <3>1, QueriesAreWhole
      <4>5. /\ "records" \in DOMAIN read => Ledger(read["records"])
            /\ "budget" \in DOMAIN read =>
                  read["budget"] = Null \/ read["budget"].amount \in Nat
        BY <1>2, <3>1, <4>2, <4>4 DEF HomeOK
      <4>6. /\ "records" \in DOMAIN home'.read => Ledger(home'.read["records"])
            /\ "budget" \in DOMAIN home'.read =>
                  home'.read["budget"] = Null \/ home'.read["budget"].amount \in Nat
        BY <4>3, <4>5
      <4>7. Ledger(home.read["records"])' = Ledger(home'.read["records"])
        BY DEF Ledger
      <4>8. HomeOK'
        BY <3>1, <4>3, <4>6, <4>7 DEF HomeOK
      <4> QED BY <4>3, <4>8 DEF SummaryAddsUp
    <3> QED BY <3>3, <3>4
  <2>4. CASE AnswerHome
    <3> DEFINE records == home.read["records"]
               month == home.read["budget"]
               spent == Total(records)
               answer == home'.answer
    <3>1. /\ home.step = "reading" /\ Ledger(records)
          /\ month = Null \/ month.amount \in Nat
      BY <1>2, <2>4 DEF AnswerHome, HomeOK, Queries
    <3>2. /\ home'.step = "answered" /\ DOMAIN home' = DOMAIN Unread
          /\ answer.chart = HomeChart(records) /\ answer.spending = spent
          /\ answer.budget = month /\ answer.remaining = RemainingBudget(spent, month)
          /\ answer.shares = HomeShares(HomeChart(records))
      BY <2>4 DEF AnswerHome, Unread
    <3> HIDE DEF records, month
    <3>3. /\ ChartTotal(HomeChart(records)) = spent
          /\ \A shares \in answer.shares : shares \subseteq 0..100
      BY <3>1, <3>2, ChartOfRecords
    <3>4. spent \in Nat
      <4>1. DOMAIN records \in SUBSET DOMAIN records
        OBVIOUS
      <4> QED BY <3>1, <4>1, PartOfLedger
    <3>5. ASSUME month # Null
          PROVE  RemainingBudget(spent, month) + spent = month.amount
      BY <3>1, <3>4, <3>5 DEF RemainingBudget
    <3> HIDE DEF spent, answer
    <3>6. /\ ChartTotal(answer.chart) = answer.spending
          /\ answer.budget # Null => answer.remaining + answer.spending = answer.budget.amount
      BY <3>2, <3>3, <3>5
    <3>7. ChartTotal(home.answer.chart)' = ChartTotal(answer.chart)
      BY DEF ChartTotal, answer
    <3> QED BY <3>2, <3>3, <3>6, <3>7 DEF HomeOK, SummaryAddsUp, answer
  <2>5. CASE RecordsAndSettings
    BY <2>1, <2>5 DEF RecordsAndSettings
  <2>6. ASSUME NEW c \in Calls, SettingsStep(c) PROVE UNCHANGED home
    BY <2>6 DEF SettingsStep, UpdateSavingGoal, DeleteSavingGoal, UpdateOnboarding, SetBudget
  <2>7. CASE UNCHANGED vars
    BY <2>1, <2>7 DEF vars
  <2> QED BY <1>2, <2>1, <2>2, <2>3, <2>4, <2>5, <2>6, <2>7 DEF Next
<1> QED BY <1>1, <1>2

-----------------------------------------------------------------------------
ViewsIInv == IInv /\ SettingsOK /\ HomeOK /\ SummaryAddsUp

LEMMA ViewsAreInvariant == Spec => []ViewsIInv
<1>1. Init => SettingsOK /\ HomeOK /\ SummaryAddsUp
  BY SettingsAreInvariant, HomeIsInvariant
<1>2. IInv /\ (SettingsOK /\ HomeOK /\ SummaryAddsUp) /\ [Next]_vars
         => (SettingsOK /\ HomeOK /\ SummaryAddsUp)'
  BY SettingsAreInvariant, HomeIsInvariant DEF IInv
<1> QED BY <1>1, <1>2, IInvIsInvariant, InsightsRunOverRecords, PTL DEF Spec, ViewsIInv

(* The saving goal, the home summary and the cheer message show the same   *)
(* rate of this month's goal, and so does the report but for the rounding  *)
(* of a half, with the same status and remainder unless prices that are    *)
(* not whole add up to the target exactly: for any records, goals and      *)
(* calendar, and whatever the noise of the doubles decides there.          *)
THEOREM GoalsAlwaysAgree == Spec => []GoalsAgree
<1>1. ViewsIInv => GoalsAgree
  BY GoalsAgreeInEveryState DEF ViewsIInv, IInv
<1> QED BY <1>1, ViewsAreInvariant, PTL

(* What was spent this month is the same amount wherever it is shown, and  *)
(* the charts that show only some categories on their own add up to it.    *)
THEOREM SpendingAlwaysAgrees == Spec => []SpendingAgrees
<1>1. ViewsIInv => SpendingAgrees
  BY SpendingAgreesInEveryState DEF ViewsIInv, IInv
<1> QED BY <1>1, ViewsAreInvariant, PTL

(* No share that is shown divides by nothing or leaves 0 to 100, those of  *)
(* a home summary of free records included.                                *)
THEOREM SharesStayDefined == Spec => []SharesAreDefined
<1>1. ViewsIInv => SharesAreDefined
  BY SharesAreDefinedInEveryState DEF ViewsIInv, IInv
<1> QED BY <1>1, ViewsAreInvariant, PTL

(* The numbers of a home summary add up, however other requests come       *)
(* between its four reads.                                                 *)
THEOREM SummariesAddUp == Spec => []SummaryAddsUp
<1>1. ViewsIInv => SummaryAddsUp
  BY DEF ViewsIInv
<1> QED BY <1>1, ViewsAreInvariant, PTL
=============================================================================
