------------------------------ MODULE Insights ------------------------------
(***************************************************************************)
(* What an account is told about its records: the saving goal, the home    *)
(* summary and the cheer message, the monthly report, the budget of a      *)
(* month, the consumption ratio and the history                            *)
(* (src/src/features: users/users.service.js, home/home.service.js,        *)
(* reports/reports.service.js, consumption-records/...service.js).  Each   *)
(* computes the month, filters the records and rounds in its own way, and  *)
(* a user sees the numbers side by side.                                   *)
(*                                                                         *)
(* Answers that take one read of the records are operators over the state. *)
(* The home summary takes four reads, outside any transaction, with the    *)
(* account's other requests between them: it is a sequence of actions.     *)
(*                                                                         *)
(* Amounts are hundredths of a won, as in Records.  The database adds them *)
(* exactly; the report and the home summary add some as doubles, which     *)
(* only sums of whole won are sure to survive.  An amount that is shown is *)
(* therefore meant to the nearest hundredth, and where the program         *)
(* branches on such a sum (Reached) both branches are taken if the noise   *)
(* can decide.                                                             *)
(*                                                                         *)
(* Time is counted in ticks; a month has MonthLen of them, a day DayLen,   *)
(* and Seoul is Offset ticks ahead of the server's clock.                  *)
(***************************************************************************)
EXTENDS Records, FiniteSetsExt, Functions

CONSTANTS
    Offset, MonthLen, DayLen, WeekLen,  \* KST_OFFSET_MS and the calendar
    HistoryDays,      \* CONSUMPTION_HISTORY_DAYS
    TopCategories,    \* the four categories that are shown on their own
    Etc,              \* the category code "ETC"
    Targets,          \* targetSavingAmount values a request may set
    Amounts           \* monthlyBudget values a request may set

(* A goal is at least 1000 won (savingGoalDto, upsertOnboardingDto), a     *)
(* budget at least nothing (setBudgetDto); both are whole (BIGINT).        *)
ASSUME AmountsAreWhole ==
    /\ \A t \in Targets : t \in Nat \ {0} /\ t % Won = 0
    /\ \A a \in Amounts : a \in Nat /\ a % Won = 0
ASSUME CalendarIsWhole ==
    Offset \in Nat /\ {MonthLen, DayLen, WeekLen} \subseteq Nat \ {0} /\ TopCategories \in Nat

VARIABLES
    target,   \* users.targetSavingAmount
    active,   \* users.savingGoalIsActive
    budget,   \* [months -> monthlyBudget, Null without a row]
    home      \* the home summary in progress: what it has read, its answer

vars == <<recordVars, target, active, budget, home>>
settings == <<target, active, budget>>

Unread == [step |-> "idle", now |-> Null, target |-> Null, read |-> <<>>,
           answer |-> Null]

Init ==
    \E s \in Starts :
        /\ RecordsFrom(s)
        /\ target = s.target
        /\ active = s.active
        /\ budget = s.budget
        /\ home = Unread

-----------------------------------------------------------------------------
(* The calendar.  Month m of Seoul begins Offset ticks before it begins in *)
(* UTC; each service has its own copy of the computation.                  *)
MonthAt(t) == (t + Offset) \div MonthLen
Months == 0..MonthAt(MaxTime)

ASSUME StartsHaveSettings ==
    \A s \in Starts : /\ s.target \in (Nat \ {0}) \cup {Null} /\ s.active \in BOOLEAN
                      /\ s.budget \in [Months -> Nat \cup {Null}]

(* getMonthRange of home.service.js *)
HomeMonth(t, back) ==
    LET m == MonthAt(t) - back
    IN  [first |-> m * MonthLen - Offset, next |-> (m + 1) * MonthLen - Offset]

(* As ReportMonth, but up to and with the first moment of the next month. *)
ReportMonthThrough(m) ==
    [first |-> m * MonthLen - Offset, next |-> (m + 1) * MonthLen - Offset + 1]

(* getMonthRange of reports.service.js, for a month of the past or this    *)
(* one.                                                                    *)
ReportMonth(m) == [first |-> m * MonthLen - Offset, next |-> (m + 1) * MonthLen - Offset]

(* getKstMonthRange of users.service.js *)
BudgetMonth(m) == [first |-> m * MonthLen - Offset, next |-> (m + 1) * MonthLen - Offset]

(* getConsumptionHistoryRange: whole days of Seoul, up to this moment. *)
HistoryStart(t) == ((t + Offset) \div DayLen - (HistoryDays - 1)) * DayLen - Offset

During(range, t) == range.first <= t /\ t < range.next

-----------------------------------------------------------------------------
(* The records of the account that meet a condition, and what they add up  *)
(* to.                                                                     *)
Where(cond(_)) == Restrict(rows, {id \in Ids : rows[id] # Null /\ cond(rows[id])})

SumOf(amounts, C) == MapThenSumSet(LAMBDA c : amounts[c], C)

Total(table) == SumOf([id \in DOMAIN table |-> table[id].price], DOMAIN table)

Of(type, table) == Restrict(table, {id \in DOMAIN table : table[id].type = type})

CategoryOf(row) == IF row.category = Null THEN Etc ELSE row.category

ByCategory(table) ==
    [c \in {CategoryOf(table[id]) : id \in DOMAIN table} |->
        Total(Restrict(table, {id \in DOMAIN table : CategoryOf(table[id]) = c}))]

(* Math.round of a quotient of doubles, which nothing guards: the nearest  *)
(* integer, or either one when the exact value lies halfway; NaN without a *)
(* divisor.                                                                *)
NaN == Null
Nearest(x, y) ==
    IF y = 0 THEN {NaN}
    ELSE {n \in {x \div y, x \div y + 1} : 2 * x <= (2 * n + 1) * y /\ (2 * n - 1) * y <= 2 * x}
Percents(x, y) == Nearest(100 * x, y)

UnguardedRatio(x, y) ==  \* mutant: without total === 0
    Percents(x, y)

(* calculateRatio of home.service.js: 0 of a total of nothing. *)
HomeRatio(x, y) == IF y = 0 THEN {0} ELSE Percents(x, y)

(* As AchievementRate, but cut off instead of rounded. *)
RateCutOff(saved, goal) == IF goal <= 0 THEN 0 ELSE Min({100, (100 * saved) \div goal})

(* calculateAchievementRate: exact, halves up, at most 100. *)
AchievementRate(saved, goal) ==
    IF goal <= 0 THEN 0 ELSE Min({100, (200 * saved + goal) \div (2 * goal)})

-----------------------------------------------------------------------------
(* getSavingGoal and getCheerMessage leave out records without a price,    *)
(* the home summary does not.                                              *)
Saved(range) ==
    Total(Where(LAMBDA r : r.type = "SKIPPED" /\ r.price > 0 /\ During(range, r.at)))

SavingGoal == AchievementRate(Saved(BudgetMonth(MonthAt(now))), target)
Cheer == AchievementRate(Saved(HomeMonth(now, 0)), target)

(* buildGoalAchievement *)
HomeGoal(skipped, goal) ==
    IF goal \in {Null, 0} THEN [status |-> "NOT_SET", rate |-> 0, remaining |-> Null]
    ELSE IF skipped >= goal THEN [status |-> "ACHIEVED", rate |-> 100, remaining |-> Null]
    ELSE [status |-> "IN_PROGRESS", rate |-> AchievementRate(skipped, goal),
          remaining |-> goal - skipped]

(* getConsumptionReportDetail: records with a price, of either type. *)
ReportRecords(m) == Where(LAMBDA r : r.price > 0 /\ During(ReportMonth(m), r.at))
ReportSpent(m) == Total(Of("CONSUMED", ReportRecords(m)))

(* skippedAmount >= target, of prices added as doubles: the noise decides  *)
(* when their exact sum is the target and one of them is not whole.        *)
Whole(table) == \A id \in DOMAIN table : table[id].price % Won = 0
Reached(table, goal) ==
    IF Total(table) = goal /\ ~Whole(table) THEN BOOLEAN ELSE {Total(table) >= goal}

(* getGoalAchievement: of an active goal only; what it may answer.         *)
ReportGoals ==
    LET skipped == Of("SKIPPED", ReportRecords(MonthAt(now)))
        saved == Total(skipped)
    IN  IF target = Null \/ ~active
        THEN {[status |-> "NOT_SET", rates |-> {0}, remaining |-> Null]}
        ELSE {[status |-> IF achieved THEN "ACHIEVED" ELSE "IN_PROGRESS",
               rates |-> {Min({100, n}) : n \in Percents(saved, target)},
               remaining |-> IF achieved THEN Null ELSE Max({target - saved, 0})] :
                 achieved \in Reached(skipped, target)}

(* The n largest amounts, and the sum of the others. *)
Largest(n, amounts) ==
    CHOOSE C \in SUBSET DOMAIN amounts :
        /\ Cardinality(C) = Min({n, Cardinality(DOMAIN amounts)})
        /\ \A c \in C, d \in DOMAIN amounts \ C : amounts[c] >= amounts[d]

(* buildConsumptionChart and getTotalConsumption; others is null when      *)
(* every category is shown on its own.                                     *)
Chart(amounts) ==
    LET top == Largest(TopCategories, amounts)
        rest == DOMAIN amounts \ top
    IN  [top |-> Restrict(amounts, top),
         others |-> IF rest = {} THEN Null ELSE SumOf(amounts, rest)]

ChartTotal(chart) ==
    SumOf(chart.top, DOMAIN chart.top) + (IF chart.others = Null THEN 0 ELSE chart.others)

(* The amounts a chart shows, each with its share of the total. *)
Shown(chart) == {chart.top[c] : c \in DOMAIN chart.top} \cup ({chart.others} \ {Null})

HomeChart(records) == Chart(ByCategory(records))
HomeShares(chart) == {HomeRatio(x, ChartTotal(chart)) : x \in Shown(chart)}

(* Categories without consumption are left out, in the report only. *)
ReportChart(m) ==
    LET spent == ByCategory(Of("CONSUMED", ReportRecords(m)))
    IN  Chart(Restrict(spent, {c \in DOMAIN spent : spent[c] > 0}))
ReportShares(chart) == {Percents(x, ChartTotal(chart)) : x \in Shown(chart)}

(* getCategoryDefenseSummary: the share of each category that was resisted *)
Defense(m) ==
    LET all == ByCategory(ReportRecords(m))
        skipped == ByCategory(Of("SKIPPED", ReportRecords(m)))
    IN  {Percents(IF c \in DOMAIN skipped THEN skipped[c] ELSE 0, all[c]) :
            c \in {d \in DOMAIN all : all[d] > 0}}

(* getVulnerableTime, once three records have been consumed. *)
Vulnerable(m) ==
    LET consumed == Of("CONSUMED", ReportRecords(m))
        slot(id) == (consumed[id].at + Offset) % WeekLen
        amount(w) == Total(Restrict(consumed, {id \in DOMAIN consumed : slot(id) = w}))
    IN  IF Cardinality(DOMAIN consumed) < 3 THEN {}
        ELSE Percents(Max({amount(slot(id)) : id \in DOMAIN consumed}), Total(consumed))

(* getBudget *)
Spent(m) == Where(LAMBDA r : r.type = "CONSUMED" /\ During(BudgetMonth(m), r.at))
Usage(amount, spent) ==
    IF amount > 0 THEN {Min({100, n}) : n \in Percents(spent, amount)} ELSE {0}
BudgetView(m) ==
    [amount |-> budget[m], spent |-> Total(Spent(m)),
     remaining |-> budget[m] - Total(Spent(m)), usage |-> Usage(budget[m], Total(Spent(m)))]

(* listConsumptionRecords, getConsumptionRatio, and what                   *)
(* getConsumptionRecord shows beside a record.                             *)
Recent(t) == HistoryStart(now) <= t /\ t <= now
History == Where(LAMBDA r : Recent(r.at))
RatioAmount(type) == Total(Where(LAMBDA r : r.type = type /\ r.price > 0 /\ Recent(r.at)))
SkippedRatio ==
    LET all == RatioAmount("SKIPPED") + RatioAmount("CONSUMED")
    IN  IF all = 0 THEN {0} ELSE Percents(RatioAmount("SKIPPED"), all)
RecentOfCategory(id) ==
    IF rows[id].category = Null THEN {}
    ELSE {other \in Ids \ {id} : /\ rows[other] # Null
                                 /\ rows[other].type = "CONSUMED"
                                 /\ rows[other].category = rows[id].category
                                 /\ Recent(rows[other].at)}

-----------------------------------------------------------------------------
(* Requests that change what the numbers are compared with.                *)

(* updateSavingGoal sets what it is given. *)
UpdateSavingGoal(c) ==
    /\ OtherCall(c)
    /\ target' \in {target} \cup Targets
    /\ active' \in BOOLEAN
    /\ UNCHANGED <<budget, home>>

DeleteSavingGoal(c) ==
    /\ OtherCall(c)
    /\ target' = Null
    /\ active' = FALSE
    /\ UNCHANGED <<budget, home>>

(* updateOnboarding sets the target and leaves the goal as active as it    *)
(* was.                                                                    *)
UpdateOnboarding(c) ==
    /\ OtherCall(c)
    /\ target' \in Targets
    /\ UNCHANGED <<active, budget, home>>

(* setBudget without a wage; ChangeWage is the part that sets one. *)
SetBudget(c) ==
    /\ OtherCall(c)
    /\ \E m \in Months, amount \in Amounts : budget' = [budget EXCEPT ![m] = amount]
    /\ UNCHANGED <<target, active, home>>

-----------------------------------------------------------------------------
(* getHomeSummary: the user first, and the time the call was made; then    *)
(* four queries at once, in any order.                                     *)
StartHome ==
    /\ home.step = "idle"
    /\ wage # Gone
    /\ home' = [home EXCEPT !.step = "reading", !.now = now, !.target = target]
    /\ UNCHANGED <<recordVars, settings>>

HomeQuery(q) ==
    LET this == HomeMonth(home.now, 0)
        last == HomeMonth(home.now, 1)
    IN  CASE q = "records" -> Where(LAMBDA r : r.type = "CONSUMED" /\ During(this, r.at))
          [] q = "last" -> Total(Where(LAMBDA r : r.type = "CONSUMED" /\ During(last, r.at)))
          [] q = "skipped" -> Total(Where(LAMBDA r : r.type = "SKIPPED" /\ During(this, r.at)))
          [] q = "budget" -> IF budget[MonthAt(home.now)] = Null THEN Null
                             ELSE BudgetView(MonthAt(home.now))

Queries == {"records", "last", "skipped", "budget"}

(* getBudget looks the user up again: an account that has gone meanwhile   *)
(* fails the summary (404); the other queries find nothing.                *)
QueryHome ==
    /\ home.step = "reading"
    /\ \E q \in Queries \ DOMAIN home.read :
          IF q = "budget" /\ wage = Gone
          THEN home' = [Unread EXCEPT !.step = "refused"]
          ELSE home' = [home EXCEPT !.read =
                  [p \in DOMAIN @ \cup {q} |-> IF p = q THEN HomeQuery(q) ELSE @[p]]]
    /\ UNCHANGED <<recordVars, settings>>

(* buildRemainingBudget uses the spending the summary itself adds up;      *)
(* BudgetRemainder is what getBudget has computed from a read of its own.  *)
BudgetRemainder(bought, month) == IF month = Null THEN Null ELSE month.remaining
RemainingBudget(bought, month) == IF month = Null THEN Null ELSE month.amount - bought

(* buildThisMonthSpending; the rate is rounded towards either neighbour    *)
(* and is negative after a cheaper month.                                  *)
ComparisonRates(this, last) ==
    IF last <= 0 THEN {Null}
    ELSE {n - 100 : n \in Percents(this, last)}

AnswerHome ==
    /\ home.step = "reading"
    /\ DOMAIN home.read = Queries
    /\ LET read == home.read
           bought == Total(read["records"])
       IN  home' = [Unread EXCEPT
                       !.step = "answered",
                       !.target = home.target,
                       !.answer = [goal |-> HomeGoal(read["skipped"], home.target),
                                   chart |-> HomeChart(read["records"]),
                                   shares |-> HomeShares(HomeChart(read["records"])),
                                   spending |-> bought,
                                   rates |-> ComparisonRates(bought, read["last"]),
                                   budget |-> read["budget"],
                                   remaining |-> RemainingBudget(bought, read["budget"])]]
    /\ UNCHANGED <<recordVars, settings>>

-----------------------------------------------------------------------------
SettingsStep(c) ==
    UpdateSavingGoal(c) \/ DeleteSavingGoal(c) \/ UpdateOnboarding(c) \/ SetBudget(c)

(* The budgets of an account that is deleted go with it. *)
RecordsAndSettings ==
    /\ RecordStep
    /\ IF wage # Gone /\ wage' = Gone
       THEN target' = Null /\ active' = FALSE /\ budget' = [m \in Months |-> Null]
       ELSE UNCHANGED settings
    /\ UNCHANGED home

Next ==
    \/ RecordsAndSettings
    \/ \E c \in Calls : SettingsStep(c)
    \/ StartHome \/ QueryHome \/ AnswerHome

Spec == Init /\ [][Next]_vars

-----------------------------------------------------------------------------
(* The rate of this month's saving goal is the same on the saving goal, in *)
(* the home summary and in the cheer message                               *)
(* (src/tests/home-cheer-message.test.js:101), although each has its own   *)
(* month and filter.  The report of an active goal shows the same rate but *)
(* for the rounding of a half, and the same status and remainder but for   *)
(* one case: prices that are not whole and add up to the target, which the *)
(* report may call not yet reached, with nothing left to the nearest       *)
(* hundredth.                                                              *)
GoalsAgree ==
    target # Null =>
        LET skipped == Where(LAMBDA r : r.type = "SKIPPED" /\ During(HomeMonth(now, 0), r.at))
            goal == HomeGoal(Total(skipped), target)
        IN  /\ goal.rate = SavingGoal /\ goal.rate = Cheer
            /\ active => \A reported \in ReportGoals :
                  /\ goal.rate \in reported.rates
                  /\ \/ /\ reported.status = goal.status
                        /\ reported.remaining = goal.remaining
                     \/ /\ Total(skipped) = target /\ ~Whole(skipped)
                        /\ reported.status = "IN_PROGRESS" /\ reported.remaining = 0

(* What was spent this month is the same amount, to the nearest hundredth, *)
(* in the home summary, in the month's budget and in the report, and each  *)
(* chart adds up to it; the amounts of the ratio are those of the history  *)
(* that is listed.                                                         *)
SpendingAgrees ==
    LET m == MonthAt(now)
        bought == Where(LAMBDA r : r.type = "CONSUMED" /\ During(HomeMonth(now, 0), r.at))
    IN  /\ Total(bought) = Total(Spent(m))
        /\ Total(bought) = ReportSpent(m)
        /\ ChartTotal(HomeChart(bought)) = Total(bought)
        /\ ChartTotal(ReportChart(m)) = Total(bought)
        /\ \A type \in Types : RatioAmount(type) = Total(Of(type, History))
        /\ \A id \in DOMAIN History : RecentOfCategory(id) \subseteq DOMAIN History

(* Every share that is shown is a number from 0 to 100: no view divides by *)
(* a total of nothing, not even the chart of a home summary when all that  *)
(* was consumed in the month was free.                                     *)
Shares ==
    LET reports == UNION {ReportShares(ReportChart(m)) \cup Defense(m) \cup {Vulnerable(m)} :
                             m \in 0..MonthAt(now)}
        budgets == {BudgetView(m).usage : m \in {n \in Months : budget[n] # Null}}
        answered == IF home.step = "answered" THEN home.answer.shares ELSE {}
    IN  UNION (reports \cup budgets \cup answered \cup {SkippedRatio})

SharesAreDefined == Shares \subseteq 0..100

(* The numbers of one home summary fit together, although it is put        *)
(* together from four reads that other requests may come between: the      *)
(* chart adds up to the spending, and with what remains of the budget it   *)
(* makes the budget.                                                       *)
SummaryAddsUp ==
    home.step = "answered" =>
        /\ ChartTotal(home.answer.chart) = home.answer.spending
        /\ home.answer.budget # Null =>
              home.answer.remaining + home.answer.spending = home.answer.budget.amount
=============================================================================
