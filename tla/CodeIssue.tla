----------------------------- MODULE CodeIssue -----------------------------
(***************************************************************************)
(* Issuing six-digit codes for one mailbox under a resend cooldown and a   *)
(* send limit per window.  Three handlers do it in three ways:             *)
(*                                                                         *)
(*   EMAIL_VERIFY    requestEmailVerification: looks at the code rows, and *)
(*                   inserts one in a later statement                      *)
(*   PASSWORD_RESET  requestPasswordReset: recordRecoveryRequest checks    *)
(*                   and logs the request in one serializable transaction, *)
(*                   then the row is inserted; requestLoginIdRecovery      *)
(*                   takes the same first step and has no code             *)
(*   EMAIL_CHANGE    requestEmailChangeVerification: checks, retires the   *)
(*                   old codes and inserts under a lock of the user's row  *)
(*                                                                         *)
(* The first two retire the other codes after the mail went out.  A row    *)
(* whose mail was not delivered is deleted (production).  Nothing bounds   *)
(* how long a request runs: the mailer's timeouts are per connection and   *)
(* per silence, and the cooldown may be configured to any span.  A row is  *)
(* named by the request that inserts it; ids grow with the insertion, and  *)
(* so does created_at, which the database sets.                            *)
(***************************************************************************)
EXTENDS Naturals, FiniteSets

CONSTANTS
    Requests,   \* issue requests (bounds how many are made)
    TokenTypes, \* token types that are issued
    Cooldown,   \* AUTH_EMAIL_RESEND_COOLDOWN_SECONDS, in ticks
    Window,     \* AUTH_EMAIL_SEND_LIMIT_WINDOW_SECONDS, in ticks
    Limit,      \* AUTH_EMAIL_SEND_LIMIT
    MaxTime     \* bound on the clock

ASSUME TokenTypesAreKnown ==
    TokenTypes \subseteq {"EMAIL_VERIFY", "PASSWORD_RESET", "EMAIL_CHANGE"}
ASSUME SendLimitsArePositive == Limit \in Nat \ {0} /\ Cooldown \in Nat \ {0}
ASSUME RequestsAreFinite == IsFiniteSet(Requests)
ASSUME SpansAreNat == Window \in Nat \ {0} /\ MaxTime \in Nat

VARIABLES
    clock,      \* the clock
    tokenType,  \* token_type requested for this mailbox, never changes
    step,       \* next step of each request
    started,    \* its const now = new Date()
    code,       \* state of the row it inserted
    createdAt,  \* created_at of that row
    id,         \* id of that row, 0 = none
    rivals,     \* requests with older rows that were running at its insertion
    logged,     \* auth_request_logs: created_at of its log row, or NoLog
    pruned,     \* requests whose log row has been deleted
    spent       \* requests whose code a confirmation took or retired

codeVars == <<code, createdAt, id, rivals>>
logVars == <<logged, pruned>>
issueVars == <<clock, tokenType, step, started, codeVars, logVars, spent>>

Times == 0..MaxTime
NoLog == MaxTime + 1

IssueTypeOK ==
    /\ clock \in Times
    /\ tokenType \in TokenTypes
    /\ step \in [Requests -> {"idle", "window", "log", "insert", "send",
                              "retire", "delete", "ok", "failed"}]
    /\ started \in [Requests -> Times]
    /\ code \in [Requests -> {"none", "unused", "used", "deleted"}]
    /\ createdAt \in [Requests -> Times]
    /\ id \in [Requests -> 0..Cardinality(Requests)]
    /\ rivals \in [Requests -> SUBSET Requests]
    /\ logged \in [Requests -> Times \cup {NoLog}]
    /\ pruned \in SUBSET Requests
    /\ spent \in SUBSET Requests

IssueInit ==
    /\ clock = 0
    /\ tokenType \in TokenTypes
    /\ step = [r \in Requests |-> "idle"]
    /\ started = [r \in Requests |-> 0]
    /\ code = [r \in Requests |-> "none"]
    /\ createdAt = [r \in Requests |-> 0]
    /\ id = [r \in Requests |-> 0]
    /\ rivals = [r \in Requests |-> {}]
    /\ logged = [r \in Requests |-> NoLog]
    /\ pruned = {}
    /\ spent = {}

-----------------------------------------------------------------------------
StepIs(r, s) == step[r] = s
Goto(r, s) == step' = [step EXCEPT ![r] = s]
Running(r) == step[r] \notin {"idle", "ok", "failed"}
Rows == {r \in Requests : code[r] \in {"unused", "used"}}
Granted == {r \in Requests : logged[r] # NoLog}
Logs == Granted \ pruned

(* createdAt > t - span, for the rows of S stamped by at *)
Recent(S, at, t, span) == {r \in S : at[r] + span > t}

(* The cooldown and the window, for a request of time t. *)
Cooling(S, at, t) == Recent(S, at, t, Cooldown) # {}

LimitReachedLate(S, at, t) ==  \* mutant: > for >=
    Cardinality(Recent(S, at, t, Window)) > Limit

LimitReached(S, at, t) == Cardinality(Recent(S, at, t, Window)) >= Limit

AllowedByWindow(S, at, t) ==  \* mutant: the cooldown is not looked at
    ~LimitReached(S, at, t)

Allowed(S, at, t) == ~Cooling(S, at, t) /\ ~LimitReached(S, at, t)

(* A new row in the state of the rows given. *)
Insert(r, rows) ==
    /\ code' = [rows EXCEPT ![r] = "unused"]
    /\ createdAt' = [createdAt EXCEPT ![r] = clock]
    /\ id' = [id EXCEPT ![r] = Cardinality({q \in Requests : id[q] # 0}) + 1]
    /\ rivals' = [rivals EXCEPT ![r] = {q \in Requests : id[q] # 0 /\ Running(q)}]

(* usedAt is set on the unused rows of S. *)
Retired(S) == [r \in Requests |->
                 IF r \in S /\ code[r] = "unused" THEN "used" ELSE code[r]]

-----------------------------------------------------------------------------
(* requestEmailVerification: findFirst for the cooldown, then findMany for *)
(* the window, each a statement of its own.                                *)
CheckCooldown(r) ==
    /\ tokenType = "EMAIL_VERIFY"
    /\ StepIs(r, "idle")
    /\ started' = [started EXCEPT ![r] = clock]
    /\ Goto(r, IF Cooling(Rows, createdAt, clock) THEN "failed" ELSE "window")
    /\ UNCHANGED <<clock, tokenType, codeVars, logVars, spent>>

CheckWindow(r) ==
    /\ StepIs(r, "window")
    /\ Goto(r, IF LimitReached(Rows, createdAt, started[r]) THEN "failed"
                                                            ELSE "insert")
    /\ UNCHANGED <<clock, tokenType, started, codeVars, logVars, spent>>

(* requestPasswordReset and requestLoginIdRecovery: const now. *)
StartRecovery(r) ==
    /\ tokenType = "PASSWORD_RESET"
    /\ StepIs(r, "idle")
    /\ started' = [started EXCEPT ![r] = clock]
    /\ Goto(r, "log")
    /\ UNCHANGED <<clock, tokenType, codeVars, logVars, spent>>

(* recordRecoveryRequest: log rows that left the window are deleted, the   *)
(* others counted, and the request logged at the time it started; a        *)
(* refusal rolls the deletion back.                                        *)
RecordRecoveryRequest(r) ==
    LET kept == Recent(Logs, logged, started[r], Window) IN
    /\ StepIs(r, "log")
    /\ IF Allowed(kept, logged, started[r])
       THEN /\ logged' = [logged EXCEPT ![r] = started[r]]
            /\ pruned' = Granted \ kept
            /\ Goto(r, "insert")
       ELSE /\ Goto(r, "failed")
            /\ UNCHANGED logVars
    /\ UNCHANGED <<clock, tokenType, started, codeVars, spent>>

InsertCode(r) ==
    /\ StepIs(r, "insert")
    /\ Insert(r, code)
    /\ Goto(r, "send")
    /\ UNCHANGED <<clock, tokenType, started, logVars, spent>>

(* requestEmailChangeVerification, its transaction. *)
IssueUnderLock(r) ==
    /\ tokenType = "EMAIL_CHANGE"
    /\ StepIs(r, "idle")
    /\ started' = [started EXCEPT ![r] = clock]
    /\ IF Allowed(Rows, createdAt, clock)
       THEN Insert(r, Retired(Requests)) /\ Goto(r, "send")
       ELSE Goto(r, "failed") /\ UNCHANGED codeVars
    /\ UNCHANGED <<clock, tokenType, logVars, spent>>

(* The mail goes out or does not. *)
Send(r) ==
    /\ StepIs(r, "send")
    /\ \/ Goto(r, IF tokenType = "EMAIL_CHANGE" THEN "ok" ELSE "retire")
       \/ Goto(r, "delete")
    /\ UNCHANGED <<clock, tokenType, started, codeVars, logVars, spent>>

RetiresItself(r) == Requests  \* mutant: without id: { not }

CodesBeforeStart(r) ==  \* mutant: only what was there when the request began
    {q \in Requests \ {r} : createdAt[q] < started[r]}

(* id: { not: authToken.id }: also a code inserted after this one. *)
OtherCodes(r) == Requests \ {r}

RetireOthers(r) ==
    /\ StepIs(r, "retire")
    /\ code' = Retired(OtherCodes(r))
    /\ Goto(r, "ok")
    /\ UNCHANGED <<clock, tokenType, started, createdAt, id, rivals, logVars, spent>>

DeleteUndelivered(r) ==
    /\ StepIs(r, "delete")
    /\ code' = [code EXCEPT ![r] = "deleted"]
    /\ Goto(r, "failed")
    /\ UNCHANGED <<clock, tokenType, started, createdAt, id, rivals, logVars, spent>>

-----------------------------------------------------------------------------
(* A confirmation (CodeConfirm) takes the newest row, if it is unused; all *)
(* but confirmEmailVerification retire the other codes with it.            *)
Newer(r) == {s \in Rows : id[s] > id[r]}

Confirm(r) ==
    /\ code[r] = "unused"
    /\ Newer(r) = {}
    /\ code' = IF tokenType = "EMAIL_VERIFY" THEN [code EXCEPT ![r] = "used"]
                                        ELSE Retired(Requests)
    /\ spent' = spent \cup {q \in Requests : code'[q] # code[q]}
    /\ UNCHANGED <<clock, tokenType, step, started, createdAt, id, rivals, logVars>>

(* The process dies, the database fails (or conflicts three times), or the *)
(* account has no password to reset: nothing is undone.                    *)
Crash(r) ==
    /\ Running(r)
    /\ Goto(r, "failed")
    /\ UNCHANGED <<clock, tokenType, started, codeVars, logVars, spent>>

TimePasses ==
    /\ clock < MaxTime
    /\ clock' = clock + 1
    /\ UNCHANGED <<tokenType, step, started, codeVars, logVars, spent>>

RequestStep(r) ==
    \/ CheckCooldown(r)
    \/ CheckWindow(r)
    \/ StartRecovery(r)
    \/ RecordRecoveryRequest(r)
    \/ InsertCode(r)
    \/ IssueUnderLock(r)
    \/ Send(r)
    \/ RetireOthers(r)
    \/ DeleteUndelivered(r)
    \/ Crash(r)

IssueNext ==
    \/ \E r \in Requests : RequestStep(r) \/ Confirm(r)
    \/ TimePasses

IssueSpec == IssueInit /\ [][IssueNext]_issueVars

-----------------------------------------------------------------------------
(* The requests the rate limit is about, and the times it counts them at:  *)
(* every request that was ever logged, also when its log row has gone, or  *)
(* else those whose row is still there.                                    *)
Counted == IF tokenType = "PASSWORD_RESET" THEN Granted ELSE Rows
CountedAt(r) == IF tokenType = "PASSWORD_RESET" THEN logged[r] ELSE createdAt[r]

(* A log row that left the window is not looked at for the cooldown either. *)
Spacing == IF tokenType = "PASSWORD_RESET" /\ Window < Cooldown THEN Window
                                                               ELSE Cooldown

Spaced ==
    \A r, s \in Counted :
        r # s => \/ CountedAt(r) + Spacing <= CountedAt(s)
                 \/ CountedAt(s) + Spacing <= CountedAt(r)

(* The second of two requests that are too near, in the order of their     *)
(* rows, had looked before the row of the first was there.                 *)
OnlyOverlapping ==
    \A r, s \in Counted :
        /\ id[s] < id[r]
        /\ createdAt[r] < createdAt[s] + Cooldown
        => started[r] <= createdAt[s]

(* auth-login-id-recovery.test.js: of parallel requests for one mailbox    *)
(* one is accepted; a transaction that was delayed, and checks with the    *)
(* time it started at, does not slip in beside a later one.  Sign-up codes *)
(* are checked without a lock: a resend is refused                         *)
(* (auth-signup.test.js), but requests that overlap may both be accepted.  *)
CooldownKept == IF tokenType = "EMAIL_VERIFY" THEN OnlyOverlapping ELSE Spaced

(* No window of the configured length holds more requests than the limit,  *)
(* although log rows are pruned by requests that disagree about the time.  *)
(* Not for EMAIL_VERIFY: its window is looked at without a lock, so that   *)
(* requests at once pass it together.                                      *)
LimitKept ==
    tokenType # "EMAIL_VERIFY" =>
        \A r \in Counted :
            Cardinality({s \in Counted :
                CountedAt(s) \in CountedAt(r)..(CountedAt(r) + Window - 1)})
            <= Limit

(* Once a request has been answered with success, every code whose row is  *)
(* older is dead, also one whose own request is still running: auth-signup *)
(* .test.js and auth-password-reset.test.js expect it of the code existing *)
(* then, users-email-change.test.js as soon as the new row is there.       *)
OlderCodesAreDead ==
    \A r, s \in Requests :
        /\ id[r] # 0 /\ id[r] < id[s]
        /\ StepIs(s, "ok") \/ tokenType = "EMAIL_CHANGE"
        => code[r] # "unused"

(* A newer code replaces an older one; one whose mail is not delivered     *)
(* gives its place back, except for an e-mail change.                      *)
Replaced(r) ==
    \E s \in Requests : id[s] > id[r] /\ (tokenType = "EMAIL_CHANGE" \/ s \in Rows)

(* The newest code that was answered with success works until it is used,  *)
(* unless a request with an older row, still running when this row was     *)
(* inserted, retires it when it is done: the clean-up does not keep to the *)
(* existing codes, as auth-password-reset.test.js:196 has it.  For a       *)
(* password reset one of the two has then been running for a cooldown; for *)
(* an e-mail change it never happens.                                      *)
OnlyRivalsRetire ==
    \A r \in Requests :
        StepIs(r, "ok") /\ r \notin spent /\ ~Replaced(r) /\ code[r] # "unused"
        => /\ tokenType # "EMAIL_CHANGE"
           /\ \E s \in rivals[r] :
                 /\ StepIs(s, "ok")
                 /\ tokenType = "PASSWORD_RESET" =>
                       \/ started[s] + Spacing <= started[r]
                       \/ started[r] + Spacing <= started[s]
=============================================================================
