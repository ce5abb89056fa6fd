---------------------------- MODULE CodeConfirm ----------------------------
(***************************************************************************)
(* Confirming a six-digit code under concurrent guesses: one row of        *)
(* auth_tokens, the calls that read it, compare a guess (bcrypt, slow) and *)
(* then write, and the attempt counter and lock that bound the guesses.    *)
(*                                                                         *)
(*   confirmEmailVerification, confirmPasswordReset,                       *)
(*   kakaoLinkByEmail (its code; the link is KakaoLink)  auth.service.js   *)
(*   recordEmailVerificationFailedAttempt                auth.service.js   *)
(*   changeEmail, recordEmailChangeFailedAttempt         users.service.js  *)
(*                                                                         *)
(* A wrong guess makes up to four separate statements, each a conditional  *)
(* UPDATE or a read, and each an action here.  A call keeps the time it    *)
(* started with and compares everything with that time, however late.      *)
(***************************************************************************)
EXTENDS Naturals

CONSTANTS
    Calls,     \* confirmation requests in progress at the same time
    Kinds,     \* token types that are confirmed
    Max,       \* AUTH_EMAIL_CONFIRM_MAX_ATTEMPTS
    Lock,      \* AUTH_EMAIL_CONFIRM_LOCK_SECONDS, in ticks
    Ttl,       \* AUTH_EMAIL_CODE_TTL_SECONDS, in ticks
    MaxClock   \* bound on the clock

ASSUME KindsAreKnown ==
    Kinds \subseteq {"EMAIL_VERIFY", "PASSWORD_RESET", "EMAIL_CHANGE",
                     "KAKAO_LINK_EMAIL"}
ASSUME LimitsArePositive == Max \in Nat \ {0} /\ Lock \in Nat \ {0}
ASSUME TimesAreNat == Ttl \in Nat /\ MaxClock \in Nat

VARIABLES
    now,           \* the clock
    kind,          \* token_type of the row, never changes
    exists,        \* FALSE once the row is deleted
    used,          \* used_at is set
    count,         \* failed_attempt_count
    blockedUntil,  \* blocked_until, 0 = NULL
    call,          \* next step of each call, its time, and what it has read
    accepted,      \* number of guesses that were let through
    died           \* a call died between two statements

rowVars == <<exists, used, count, blockedUntil>>
vars == <<now, kind, rowVars, call, accepted, died>>

Time == 0..MaxClock
LockTime == 0..(MaxClock + Lock)

CallState == [step: {"idle", "read", "consume", "clear", "count", "reread",
                     "lock"},
              at: Time, count: 0..Max, blocked: LockTime]

Idle == [step |-> "idle", at |-> 0, count |-> 0, blocked |-> 0]

TypeOK ==
    /\ now \in Time
    /\ kind \in Kinds
    /\ exists \in BOOLEAN
    /\ used \in BOOLEAN
    /\ count \in 0..Max
    /\ blockedUntil \in LockTime
    /\ call \in [Calls -> CallState]
    /\ accepted \in Nat
    /\ died \in BOOLEAN

(* The row as it is inserted at time 0. *)
Init ==
    /\ now = 0
    /\ kind \in Kinds
    /\ exists = TRUE
    /\ used = FALSE
    /\ count = 0
    /\ blockedUntil = 0
    /\ call = [c \in Calls |-> Idle]
    /\ accepted = 0
    /\ died = FALSE

-----------------------------------------------------------------------------
At(c, step) == call[c].step = step
Step(c, step) == call' = [call EXCEPT ![c].step = step]
Finish(c) == call' = [call EXCEPT ![c] = Idle]
Usable == exists /\ ~used

(* confirmEmailVerification and kakaoLinkByEmail, which take a code on the *)
(* strength of the lock and the expiry they read.                          *)
TakenAsRead == kind \in {"EMAIL_VERIFY", "KAKAO_LINK_EMAIL"}

(* blockedUntil is NULL or over, for a call that started at time t *)
Unlocked(t) == blockedUntil = 0 \/ blockedUntil <= t
InTime(t) == t < Ttl /\ Unlocked(t)

(* const now = new Date() *)
Start(c) ==
    /\ At(c, "idle")
    /\ call' = [call EXCEPT ![c].step = "read", ![c].at = now]
    /\ UNCHANGED <<now, kind, rowVars, accepted, died>>

(* findFirst, the early errors, and the comparison with the hash.  A right *)
(* code goes on, or ends here when the new password is the old one; on a   *)
(* wrong one a lock that is over is cleared first.                         *)
Read(c) ==
    LET t == call[c].at IN
    /\ At(c, "read")
    /\ \/ /\ Usable /\ InTime(t)
          /\ \/ Step(c, "consume")
             \/ /\ kind = "PASSWORD_RESET"
                /\ Finish(c)
             \/ /\ blockedUntil # 0
                /\ call' = [call EXCEPT ![c] =
                               [step |-> "clear", at |-> t, count |-> count,
                                blocked |-> blockedUntil]]
             \/ /\ blockedUntil = 0
                /\ Step(c, "count")
       \/ /\ ~(Usable /\ InTime(t))
          /\ Finish(c)
    /\ UNCHANGED <<now, kind, rowVars, accepted, died>>

(* The conditional UPDATE that takes the code asks for used_at IS NULL,    *)
(* and in the two other handlers for the lock and the expiry too.          *)
ConsumableTwice(c) ==  \* mutant: without usedAt: null
    exists /\ (TakenAsRead \/ InTime(call[c].at))

Consumable(c) ==
    Usable /\ (TakenAsRead \/ InTime(call[c].at))

MarkUsed ==
    /\ used' = TRUE
    /\ count' = 0
    /\ blockedUntil' = 0

Consume(c) ==
    /\ At(c, "consume")
    /\ IF Consumable(c)
       THEN MarkUsed /\ accepted' = accepted + 1
       ELSE UNCHANGED <<used, count, blockedUntil, accepted>>
    /\ Finish(c)
    /\ UNCHANGED <<now, kind, exists, died>>

-----------------------------------------------------------------------------
(* A wrong guess, statement by statement.                                  *)

(* The lock that was over at the read is cleared, unless the counter or    *)
(* the lock has changed since.                                             *)
ClearableAnyway(c) == Usable  \* mutant: without the values that were read

Clearable(c) ==
    /\ Usable
    /\ count = call[c].count
    /\ blockedUntil = call[c].blocked

ClearLock(c) ==
    /\ At(c, "clear")
    /\ IF Clearable(c)
       THEN count' = 0 /\ blockedUntil' = 0
       ELSE UNCHANGED <<count, blockedUntil>>
    /\ Step(c, "count")
    /\ UNCHANGED <<now, kind, exists, used, accepted, died>>

Countable(c) ==
    /\ Usable
    /\ count < Max
    /\ Unlocked(call[c].at)

CountFailure(c) ==
    /\ At(c, "count")
    /\ IF Countable(c)
       THEN count' = count + 1 /\ blockedUntil' = 0
       ELSE UNCHANGED <<count, blockedUntil>>
    /\ Step(c, "reread")
    /\ UNCHANGED <<now, kind, exists, used, accepted, died>>

(* The row is read again: exhausted and not locked yet means this call     *)
(* goes on to lock it.                                                     *)
ExhaustedLate == count > Max  \* mutant: > for >=

Exhausted == count >= Max

Reread(c) ==
    /\ At(c, "reread")
    /\ IF Usable /\ Unlocked(call[c].at) /\ Exhausted
       THEN Step(c, "lock")
       ELSE Finish(c)
    /\ UNCHANGED <<now, kind, rowVars, accepted, died>>

(* The first of the exhausting calls sets the lock. *)
LockableAgain(c) ==  \* mutant: without the test of blockedUntil
    Usable /\ Exhausted

Lockable(c) ==
    /\ Usable
    /\ Exhausted
    /\ Unlocked(call[c].at)

LockRow(c) ==
    /\ At(c, "lock")
    /\ IF Lockable(c)
       THEN blockedUntil' = call[c].at + Lock
       ELSE UNCHANGED blockedUntil
    /\ Finish(c)
    /\ UNCHANGED <<now, kind, exists, used, count, accepted, died>>

-----------------------------------------------------------------------------
(* A newer code makes this one used (for a link, so does the link made     *)
(* with a password; counter and lock are left there).  A code that was not *)
(* delivered is deleted, used or not, as is every code of a deleted        *)
(* account.                                                                *)
Supersede ==
    /\ Usable
    /\ IF kind = "KAKAO_LINK_EMAIL"
       THEN used' = TRUE /\ UNCHANGED <<count, blockedUntil>>
       ELSE MarkUsed
    /\ UNCHANGED <<now, kind, exists, call, accepted, died>>

DeleteCode ==
    /\ exists
    /\ exists' = FALSE
    /\ UNCHANGED <<now, kind, used, count, blockedUntil, call, accepted, died>>

(* The process dies or the database fails: nothing is undone. *)
Abort(c) ==
    /\ ~At(c, "idle")
    /\ Finish(c)
    /\ died' = TRUE
    /\ UNCHANGED <<now, kind, rowVars, accepted>>

Tick ==
    /\ now < MaxClock
    /\ now' = now + 1
    /\ UNCHANGED <<kind, rowVars, call, accepted, died>>

CallStep(c) ==
    \/ Start(c)
    \/ Read(c)
    \/ Consume(c)
    \/ ClearLock(c)
    \/ CountFailure(c)
    \/ Reread(c)
    \/ LockRow(c)
    \/ Abort(c)

Next ==
    \/ \E c \in Calls : CallStep(c)
    \/ Supersede
    \/ DeleteCode
    \/ Tick

Spec == Init /\ [][Next]_vars

-----------------------------------------------------------------------------
(* auth-password-reset.test.js: however many requests carry the right code *)
(* at the same time, one of them is let through.                           *)
AcceptedOnce == accepted <= 1

(* A lock that is on stays on, at the same time, until it runs out or the  *)
(* code is taken out of use; and while it is on a password reset and an    *)
(* e-mail change refuse even the right code that was read before the lock. *)
(* (The two handlers that take a code as read let such a code through.)    *)
LockHolds ==
    exists /\ blockedUntil > now =>
        \/ blockedUntil' = blockedUntil
        \/ used' /\ (accepted' = accepted \/ TakenAsRead)

LockIsKept == [][LockHolds]_vars

(* No counted failure is forgotten: concurrent calls that clear an old     *)
(* lock and count their failures never reset a counter that is in use.     *)
CountHolds ==
    count' < count => used' \/ (blockedUntil # 0 /\ blockedUntil <= now)

FailuresAreRemembered == [][CountHolds]_vars

(* When the last allowed failure is counted, some call is on its way to    *)
(* set the lock: guessing cannot go on unlocked, except after a call died  *)
(* between the two statements.                                             *)
ExhaustionIsLocked ==
    Usable /\ count = Max /\ blockedUntil = 0 =>
        died \/ \E c \in Calls : At(c, "reread") \/ At(c, "lock")
=============================================================================
