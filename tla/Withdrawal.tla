----------------------------- MODULE Withdrawal -----------------------------
(***************************************************************************)
(* Account withdrawal (DELETE /api/v1/users/me), the durable               *)
(* withdrawal_attempts rows and the recovery command that finishes them:   *)
(* src/src/features/users/users.withdrawal.service.js and                  *)
(* src/scripts/reconcile-withdrawals.js, with the account changes made by  *)
(* other handlers that a withdrawal races with.                            *)
(*                                                                         *)
(* A step is what a process does between two awaits that reach the         *)
(* database or Kakao.  A transaction that only writes, or reads and writes *)
(* under one compare-and-swap, is one step; finalize, which reads and then *)
(* deletes, is two.  A request id stands for one DELETE call, so the row   *)
(* it inserts is known by that id, and the row's columns (user, Kakao id,  *)
(* credential fingerprint) are what that request had read.                 *)
(***************************************************************************)
EXTENDS Naturals, FiniteSets

CONSTANTS
    Accounts,      \* rows that the users table may ever hold
    KakaoIds,      \* Kakao identities
    Requests,      \* DELETE calls (bounds how many are made)
    Reconcilers,   \* concurrent executions of the recovery command
    NoKakao,       \* kakaoUserId = NULL
    NoRow,         \* a recovery worker holding no attempt
    MaxPasswords,  \* bound on the passwords an account goes through
    MaxStates,     \* bound on the re-authentication URLs issued per account
    StallPossible  \* may a request still run when its row is 2 minutes old?

ASSUME ProcessesDisjoint == Requests \cap Reconcilers = {}
ASSUME NullsDistinct == NoKakao \notin KakaoIds /\ NoRow \notin Requests
ASSUME BoundsAreNat == MaxPasswords \in Nat /\ MaxStates \in Nat
ASSUME StallIsBoolean == StallPossible \in BOOLEAN

VARIABLES
    account,       \* "absent" until it signs up, then "active", then "deleted"
    passwordHash,  \* password version of each account, 0 = NULL
    kakaoUserId,   \* Kakao identity the account is linked to, or NoKakao
    issuedState,   \* number of KAKAO_WITHDRAWAL tokens issued to the account
    liveState,     \* is the last of them unused and unexpired?
    attempt,       \* status of the row a request inserted, "none" if no row
    connected,     \* identities connected to the app, on Kakao's side
    pc,            \* next step of each request and recovery worker
    target,        \* account a request is about
    seenPassword,  \* passwordHash a request read first (fingerprint of its row)
    seenKakao,     \* kakaoUserId a request read first (kakao_user_id of its row)
    presented,     \* number of the state string a request carries, 0 = none
    working,       \* attempt row a recovery worker handles
    audits,        \* withdrawal_audits rows written for the account
    severed,       \* accounts for whose row Kakao reported the link as gone
    accepted       \* requests that a state was accepted from

userVars    == <<account, passwordHash, kakaoUserId>>
stateVars   == <<issuedState, liveState>>
requestVars == <<target, seenPassword, seenKakao, presented>>
ghostVars   == <<audits, severed, accepted>>
vars == <<userVars, stateVars, attempt, connected, pc, requestVars, working,
          ghostVars>>

Processes == Requests \cup Reconcilers
RequestSteps == {"begin", "checkAttempt", "deleteLocal", "consumeState",
                 "readIdentity", "createAttempt"}
RecoverySteps == {"pick", "recheckUnlinked"}
SharedSteps == {"recheck", "unlink", "mark", "finalize", "commit", "done"}
RowStatus == {"none", "UNLINK_PENDING", "UNLINKED"}

TypeOK ==
    /\ account \in [Accounts -> {"absent", "active", "deleted"}]
    /\ passwordHash \in [Accounts -> 0..MaxPasswords]
    /\ kakaoUserId \in [Accounts -> KakaoIds \cup {NoKakao}]
    /\ issuedState \in [Accounts -> 0..MaxStates]
    /\ liveState \in [Accounts -> BOOLEAN]
    /\ attempt \in [Requests -> RowStatus]
    /\ connected \in SUBSET KakaoIds
    /\ pc \in [Processes -> RequestSteps \cup RecoverySteps \cup SharedSteps]
    /\ target \in [Requests -> Accounts]
    /\ seenPassword \in [Requests -> 0..MaxPasswords]
    /\ seenKakao \in [Requests -> KakaoIds \cup {NoKakao}]
    /\ presented \in [Requests -> 0..MaxStates]
    /\ working \in [Reconcilers -> Requests \cup {NoRow}]
    /\ audits \in [Accounts -> Nat]
    /\ severed \in SUBSET Accounts
    /\ accepted \in SUBSET Requests

Init ==
    /\ account = [a \in Accounts |-> "absent"]
    /\ passwordHash = [a \in Accounts |-> 0]
    /\ kakaoUserId = [a \in Accounts |-> NoKakao]
    /\ issuedState = [a \in Accounts |-> 0]
    /\ liveState = [a \in Accounts |-> FALSE]
    /\ attempt = [r \in Requests |-> "none"]
    /\ connected = {}
    /\ pc = [p \in Processes |-> IF p \in Requests THEN "begin" ELSE "pick"]
    /\ target \in [Requests -> Accounts]
    /\ seenPassword = [r \in Requests |-> 0]
    /\ seenKakao = [r \in Requests |-> NoKakao]
    /\ presented = [r \in Requests |-> 0]
    /\ working = [c \in Reconcilers |-> NoRow]
    /\ audits = [a \in Accounts |-> 0]
    /\ severed = {}
    /\ accepted = {}

-----------------------------------------------------------------------------
(* The users table and Kakao, as changed by the other handlers.            *)

Active(a) == account[a] = "active"
KakaoTaken(k) == \E a \in Accounts : Active(a) /\ kakaoUserId[a] = k
HasAttempt(a) == \E r \in Requests : target[r] = a /\ attempt[r] # "none"

(* auth.service.js signup: a local account with its first password. *)
SignUp(a) ==
    /\ account[a] = "absent"
    /\ MaxPasswords > 0
    /\ account' = [account EXCEPT ![a] = "active"]
    /\ passwordHash' = [passwordHash EXCEPT ![a] = 1]
    /\ UNCHANGED <<kakaoUserId, stateVars, attempt, connected, pc, requestVars,
                   working, ghostVars>>

(* kakaoLogin without a member or an e-mail match creates the account;     *)
(* users.kakao_user_id is unique.                                          *)
KakaoSignUp(a, k) ==
    /\ account[a] = "absent"
    /\ k \in connected
    /\ ~KakaoTaken(k)
    /\ account' = [account EXCEPT ![a] = "active"]
    /\ kakaoUserId' = [kakaoUserId EXCEPT ![a] = k]
    /\ UNCHANGED <<passwordHash, stateVars, attempt, connected, pc, requestVars,
                   working, ghostVars>>

(* completeKakaoLink: only an account with no identity yet changes. *)
CompleteKakaoLink(a, k) ==
    /\ Active(a)
    /\ kakaoUserId[a] = NoKakao
    /\ k \in connected
    /\ ~KakaoTaken(k)
    /\ kakaoUserId' = [kakaoUserId EXCEPT ![a] = k]
    /\ UNCHANGED <<account, passwordHash, stateVars, attempt, connected, pc,
                   requestVars, working, ghostVars>>

(* changePassword (compare-and-swap on the old hash) or confirmPasswordReset;  *)
(* both refuse an account that has no password.  bcrypt salts every hash, so   *)
(* a new version never equals an old one.                                      *)
ChangePassword(a) ==
    /\ Active(a)
    /\ passwordHash[a] \in 1..(MaxPasswords - 1)
    /\ passwordHash' = [passwordHash EXCEPT ![a] = @ + 1]
    /\ UNCHANGED <<account, kakaoUserId, stateVars, attempt, connected, pc,
                   requestVars, working, ghostVars>>

(* A person consents to the app at Kakao (login screen), or withdraws the  *)
(* consent in Kakao's own settings.                                        *)
KakaoConsent(k) ==
    /\ connected' \in {connected \cup {k}, connected \ {k}}
    /\ UNCHANGED <<userVars, stateVars, attempt, pc, requestVars, working,
                   ghostVars>>

-----------------------------------------------------------------------------
(* startKakaoWithdrawal: the previous state tokens are deleted and one is  *)
(* created in one transaction; a token later expires.                      *)
StartKakaoWithdrawal(a) ==
    /\ Active(a)
    /\ passwordHash[a] = 0
    /\ kakaoUserId[a] # NoKakao
    /\ ~HasAttempt(a)
    /\ issuedState[a] < MaxStates
    /\ issuedState' = [issuedState EXCEPT ![a] = @ + 1]
    /\ liveState' = [liveState EXCEPT ![a] = TRUE]
    /\ UNCHANGED <<userVars, attempt, connected, pc, requestVars, working,
                   ghostVars>>

ExpireState(a) ==
    /\ liveState[a]
    /\ liveState' = [liveState EXCEPT ![a] = FALSE]
    /\ UNCHANGED <<userVars, issuedState, attempt, connected, pc, requestVars,
                   working, ghostVars>>

-----------------------------------------------------------------------------
(* deleteUser.  Step(p, next) is the control part of a step of process p.  *)

At(p, step) == pc[p] = step
Step(p, next) == pc' = [pc EXCEPT ![p] = next]
Fail(p) == Step(p, "done")

(* findUnique of the user; 404 when there is none. *)
Begin(r) ==
    LET a == target[r] IN
    /\ At(r, "begin")
    /\ \/ /\ Active(a)
          /\ seenPassword' = [seenPassword EXCEPT ![r] = passwordHash[a]]
          /\ seenKakao' = [seenKakao EXCEPT ![r] = kakaoUserId[a]]
          /\ \E s \in 0..issuedState[a] :
                presented' = [presented EXCEPT ![r] = s]
          /\ Step(r, "checkAttempt")
       \/ /\ account[a] = "deleted"
          /\ Fail(r)
          /\ UNCHANGED <<seenPassword, seenKakao, presented>>
    /\ UNCHANGED <<userVars, stateVars, attempt, connected, target, working,
                   ghostVars>>

(* 409 while an attempt row exists; then the password is compared with the *)
(* hash read first, or the Kakao-only account must carry code and state.   *)
CheckAttempt(r) ==
    /\ At(r, "checkAttempt")
    /\ \/ /\ ~HasAttempt(target[r])
          /\ seenPassword[r] # 0
          /\ Step(r, IF seenKakao[r] = NoKakao THEN "deleteLocal"
                                               ELSE "createAttempt")
       \/ /\ ~HasAttempt(target[r])
          /\ seenPassword[r] = 0
          /\ seenKakao[r] # NoKakao
          /\ presented[r] # 0
          /\ Step(r, "consumeState")
       \/ Fail(r)
    /\ UNCHANGED <<userVars, stateVars, attempt, connected, requestVars,
                   working, ghostVars>>

DropAccount(a) ==
    /\ account' = [account EXCEPT ![a] = "deleted"]
    /\ liveState' = [liveState EXCEPT ![a] = FALSE]
    /\ audits' = [audits EXCEPT ![a] = @ + 1]

(* deleteLocalUser: audit, auth tokens and user in one transaction that is *)
(* rolled back unless the user row still has the hash that was verified.   *)
(* The Kakao link is not looked at again.                                  *)
LocalDeleteUnconditional(r) == TRUE  \* mutant: deleted.count is not looked at

LocalDeleteMatches(r) ==
    Active(target[r]) /\ passwordHash[target[r]] = seenPassword[r]

DeleteLocalUser(r) ==
    /\ At(r, "deleteLocal")
    /\ IF LocalDeleteMatches(r)
       THEN DropAccount(target[r])
       ELSE UNCHANGED <<account, liveState, audits>>
    /\ Step(r, "done")
    /\ UNCHANGED <<passwordHash, kakaoUserId, issuedState, attempt, connected,
                   requestVars, working, severed, accepted>>

(* consumeKakaoWithdrawalState: compare-and-swap on the newest token. *)
StateMatchesWhenUsed(r) ==  \* mutant: without usedAt: null
    presented[r] = issuedState[target[r]]

StateMatches(r) ==
    liveState[target[r]] /\ presented[r] = issuedState[target[r]]

ConsumeState(r) ==
    /\ At(r, "consumeState")
    /\ IF StateMatches(r)
       THEN /\ liveState' = [liveState EXCEPT ![target[r]] = FALSE]
            /\ Step(r, "readIdentity")
            /\ accepted' = accepted \cup {r}
       ELSE /\ Fail(r)
            /\ UNCHANGED <<liveState, accepted>>
    /\ UNCHANGED <<userVars, issuedState, attempt, connected, requestVars,
                   working, audits, severed>>

(* getKakaoWithdrawalIdentity: the code was issued to whoever logged in at *)
(* Kakao, perhaps another identity than the account's.                     *)
ReadIdentity(r) ==
    /\ At(r, "readIdentity")
    /\ \E k \in connected :
          IF k = seenKakao[r] THEN Step(r, "createAttempt") ELSE Fail(r)
    /\ UNCHANGED <<userVars, stateVars, attempt, connected, requestVars,
                   working, ghostVars>>

(* Insert of the row; user_id is unique (P2002 becomes 409), and there is  *)
(* no foreign key to users.                                                *)
CreateAttempt(r) ==
    /\ At(r, "createAttempt")
    /\ IF HasAttempt(target[r])
       THEN /\ Fail(r)
            /\ UNCHANGED attempt
       ELSE /\ attempt' = [attempt EXCEPT ![r] = "UNLINK_PENDING"]
            /\ Step(r, "recheck")
    /\ UNCHANGED <<userVars, stateVars, connected, requestVars, working,
                   ghostVars>>

-----------------------------------------------------------------------------
(* The recovery command.  A row is retried once it is two minutes old,     *)
(* which a request outlives only when it stalls.                           *)

Retriable(r) ==
    /\ attempt[r] # "none"
    /\ StallPossible \/ At(r, "done")

(* A row is listed and read by id (a listed row that is gone is skipped).  *)
PickAttempt(c) ==
    /\ At(c, "pick")
    /\ \E r \in Requests :
          /\ Retriable(r)
          /\ working' = [working EXCEPT ![c] = r]
          /\ Step(c, IF attempt[r] = "UNLINKED" THEN "recheckUnlinked"
                                                ELSE "recheck")
    /\ UNCHANGED <<userVars, stateVars, attempt, connected, requestVars,
                   ghostVars>>

(* The loop of the command goes on with another row, or the operator runs  *)
(* it again.                                                               *)
NextAttempt(c) ==
    /\ At(c, "done")
    /\ Step(c, "pick")
    /\ working' = [working EXCEPT ![c] = NoRow]
    /\ UNCHANGED <<userVars, stateVars, attempt, connected, requestVars,
                   ghostVars>>

-----------------------------------------------------------------------------
(* Shared by the request and the recovery command: row RowOf(p).           *)

RowOf(p) == IF p \in Requests THEN p ELSE working[p]

(* assertCredentialUnchanged against the user row as it is now: next is    *)
(* the unlink, or finalize when recovery had read status UNLINKED.         *)
CredentialUnchanged(r) ==
    Active(target[r]) /\ passwordHash[target[r]] = seenPassword[r]

RecheckThenMark(p) ==  \* mutant: the status is written before the unlink call
    /\ pc[p] \in {"recheck", "recheckUnlinked"}
    /\ Step(p, IF CredentialUnchanged(RowOf(p)) THEN "mark" ELSE "done")
    /\ UNCHANGED <<userVars, stateVars, attempt, connected, requestVars,
                   working, ghostVars>>

Recheck(p) ==
    LET next == IF At(p, "recheck") THEN "unlink" ELSE "finalize" IN
    /\ pc[p] \in {"recheck", "recheckUnlinked"}
    /\ Step(p, IF CredentialUnchanged(RowOf(p)) THEN next ELSE "done")
    /\ UNCHANGED <<userVars, stateVars, attempt, connected, requestVars,
                   working, ghostVars>>

(* unlinkKakaoUser: Kakao drops the connection, and the answer arrives or  *)
(* is lost.  An identity that is not connected is an error for a request   *)
(* and success for the recovery command (allowAlreadyUnlinked, code -101). *)
NeverAlreadyUnlinked(p) == FALSE  \* mutant: -101 is an error for recovery too

AllowAlreadyUnlinked(p) == p \in Reconcilers

Unlink(p) ==
    LET r == RowOf(p) IN
    /\ At(p, "unlink")
    /\ \/ /\ seenKakao[r] \in connected
          /\ connected' = connected \ {seenKakao[r]}
          /\ severed' = severed \cup {target[r]}
          /\ Step(p, "mark") \/ Fail(p)
       \/ /\ seenKakao[r] \notin connected
          /\ AllowAlreadyUnlinked(p)
          /\ severed' = severed \cup {target[r]}
          /\ Step(p, "mark")
          /\ UNCHANGED connected
       \/ /\ seenKakao[r] \notin connected
          /\ ~AllowAlreadyUnlinked(p)
          /\ Fail(p)
          /\ UNCHANGED <<connected, severed>>
    /\ UNCHANGED <<userVars, stateVars, attempt, requestVars, working, audits,
                   accepted>>

(* The row becomes UNLINKED.  A request updates it by id and fails when it *)
(* is gone; the recovery command updates it only while it is pending and   *)
(* goes on either way.                                                     *)
MarkedStatus == "UNLINKED"

Mark(p) ==
    LET r == RowOf(p) IN
    /\ At(p, "mark")
    /\ attempt' = IF attempt[r] = "none" THEN attempt
                  ELSE [attempt EXCEPT ![r] = MarkedStatus]
    /\ Step(p, IF attempt[r] = "none" /\ p \in Requests THEN "done"
                                                        ELSE "finalize")
    /\ UNCHANGED <<userVars, stateVars, connected, requestVars, working,
                   ghostVars>>

(* finalizeKakaoWithdrawalAttempt, its reads: row, user and fingerprint. *)
Finalizable(r) ==
    /\ attempt[r] = "UNLINKED"
    /\ CredentialUnchanged(r)
    /\ kakaoUserId[target[r]] = seenKakao[r]

FinalizeRead(p) ==
    /\ At(p, "finalize")
    /\ Step(p, IF Finalizable(RowOf(p)) THEN "commit" ELSE "done")
    /\ UNCHANGED <<userVars, stateVars, attempt, connected, requestVars,
                   working, ghostVars>>

(* Its writes: all of them, or none when the conditional delete of the     *)
(* user or the delete of the row finds nothing.                            *)
CommitMatchesAnyHash(r) ==  \* mutant: without passwordHash in the where
    /\ Active(target[r])
    /\ kakaoUserId[target[r]] = seenKakao[r]
    /\ attempt[r] # "none"

CommitMatches(r) ==
    /\ Active(target[r])
    /\ kakaoUserId[target[r]] = seenKakao[r]
    /\ passwordHash[target[r]] = seenPassword[r]
    /\ attempt[r] # "none"

FinalizeCommit(p) ==
    LET r == RowOf(p) IN
    /\ At(p, "commit")
    /\ IF CommitMatches(r)
       THEN /\ DropAccount(target[r])
            /\ attempt' = [attempt EXCEPT ![r] = "none"]
       ELSE UNCHANGED <<account, liveState, audits, attempt>>
    /\ Step(p, "done")
    /\ UNCHANGED <<passwordHash, kakaoUserId, issuedState, connected,
                   requestVars, working, severed, accepted>>

(* The process dies, the database or Kakao answers with an error, or a     *)
(* timeout fires before the step took effect.                              *)
InterruptDropsRow(p) ==  \* mutant: the catch block removes the attempt
    /\ p \in Requests /\ pc[p] \in {"unlink", "mark", "finalize", "commit"}
    /\ Fail(p)
    /\ attempt' = [attempt EXCEPT ![p] = "none"]
    /\ UNCHANGED <<userVars, stateVars, connected, requestVars, working,
                   ghostVars>>

Interrupt(p) ==
    /\ pc[p] \notin {"begin", "pick", "done"}
    /\ Fail(p)
    /\ UNCHANGED <<userVars, stateVars, attempt, connected, requestVars,
                   working, ghostVars>>

-----------------------------------------------------------------------------
RequestStep(r) ==
    \/ Begin(r)
    \/ CheckAttempt(r)
    \/ DeleteLocalUser(r)
    \/ ConsumeState(r)
    \/ ReadIdentity(r)
    \/ CreateAttempt(r)

RecoveryStep(c) ==
    \/ PickAttempt(c)
    \/ NextAttempt(c)

FinishStep(p) ==
    \/ Recheck(p)
    \/ Unlink(p)
    \/ Mark(p)
    \/ FinalizeRead(p)
    \/ FinalizeCommit(p)

Environment ==
    \/ \E a \in Accounts :
          \/ SignUp(a)
          \/ ChangePassword(a)
          \/ StartKakaoWithdrawal(a)
          \/ ExpireState(a)
          \/ \E k \in KakaoIds : KakaoSignUp(a, k) \/ CompleteKakaoLink(a, k)
    \/ \E k \in KakaoIds : KakaoConsent(k)

Next ==
    \/ Environment
    \/ \E r \in Requests : RequestStep(r)
    \/ \E c \in Reconcilers : RecoveryStep(c)
    \/ \E p \in Processes : FinishStep(p) \/ Interrupt(p)

Spec == Init /\ [][Next]_vars

(* Kakao answers a call that is retried for ever; the operator keeps       *)
(* running the recovery command, which walks over every row; a request     *)
(* that started runs to its end.                                           *)
Fairness ==
    /\ \A r \in Requests :
          /\ WF_vars(pc[r] # "begin" /\ RequestStep(r))
          /\ WF_vars(FinishStep(r))
    /\ \A c \in Reconcilers :
          /\ WF_vars(RecoveryStep(c))
          /\ \A r \in Requests :
                SF_vars(PickAttempt(c) /\ working'[c] = r)
          /\ SF_vars(Unlink(c) /\ pc'[c] = "mark")
          /\ SF_vars(Mark(c))
          /\ SF_vars(FinalizeRead(c))
          /\ SF_vars(FinalizeCommit(c))
          /\ SF_vars(Recheck(c))

FairSpec == Spec /\ Fairness

-----------------------------------------------------------------------------
(* Properties.                                                             *)

(* Once Kakao has severed the link on behalf of an account, an account     *)
(* that still exists keeps the row from which the withdrawal is finished:  *)
(* what the schema's missing foreign key and the catch block of deleteUser *)
(* are there for, over every crash, lost answer and concurrent worker.     *)
RecoveryStateSurvives ==
    \A a \in severed : Active(a) => HasAttempt(a)

(* A row says UNLINKED only if Kakao did report the link as gone for its   *)
(* account: recovery skips the unlink call on the strength of that status. *)
UnlinkedMeansSevered ==
    \A r \in Requests : attempt[r] = "UNLINKED" => target[r] \in severed

(* However reads and writes interleave, an account is deleted only for a   *)
(* request that proved the credential the account has at that moment and,  *)
(* when a row is finalized, saw the identity it has at that moment.        *)
ProvenFor(r, a) ==
    /\ target[r] = a
    /\ seenPassword[r] = passwordHash[a]
    /\ \/ At(r, "deleteLocal")
       \/ attempt[r] = "UNLINKED" /\ seenKakao[r] = kakaoUserId[a]

DeletionIsProven ==
    [][\A a \in Accounts : Active(a) /\ account'[a] = "deleted" =>
          \E r \in Requests : ProvenFor(r, a)]_vars

(* Two workers that finish the same withdrawal, or a rolled-back attempt,  *)
(* leave one audit row per deleted account and none for the others.        *)
AuditMatchesDeletion ==
    \A a \in Accounts : audits[a] = IF account[a] = "deleted" THEN 1 ELSE 0

(* A re-authentication state lets one request through: neither one that    *)
(* presents it at the same time nor one that does so when the first has    *)
(* come to its end, or failed, is accepted.                                *)
ReauthenticationUsedOnce ==
    \A r, s \in accepted :
        target[r] = target[s] /\ presented[r] = presented[s] => r = s

(* A withdrawal whose row was inserted ends in the deletion of the account *)
(* unless the password is rotated meanwhile, which leaves it to a person.  *)
PendingWithdrawalCompletes ==
    \A r \in Requests :
        attempt[r] # "none" /\ CredentialUnchanged(r)
            ~> ~CredentialUnchanged(r)

(* openapi.js: withdrawing a Kakao-linked account also severs the link.    *)
(* (Violated: deleteLocalUser trusts the kakaoUserId it read first.)       *)
LinkedDeletionSevers ==
    [][\A a \in Accounts :
          /\ Active(a) /\ account'[a] = "deleted"
          /\ kakaoUserId[a] # NoKakao
          => a \in severed]_vars
=============================================================================
