------------------------------ MODULE KakaoLink ------------------------------
(***************************************************************************)
(* Linking an existing account to a Kakao identity (auth.service.js).      *)
(* kakaoLogin offers a link when an account has the identity's e-mail      *)
(* address; the offer is a one-time session (KAKAO_LINK row), which its    *)
(* holder completes after a proof of the account: its password             *)
(* (kakaoLinkByPassword), or a code mailed to it                           *)
(* (requestKakaoLinkEmailVerification, kakaoLinkByEmail).                  *)
(*                                                                         *)
(* Addresses change, at Kakao and here, so a login may find any account or *)
(* none by its e-mail.  A session is named by the row; the codes of a      *)
(* session are numbered in the order of their rows.  What a wrong code     *)
(* does to the code's counter and lock is CodeConfirm; the tokens of the   *)
(* login that a link ends in are Sessions.                                 *)
(***************************************************************************)
EXTENDS Naturals

CONSTANTS
    Accounts,     \* rows that the users table may ever hold
    KakaoIds,
    Links,        \* link sessions that are ever offered (a bound)
    Calls,        \* requests in progress at the same time
    NoKakao,      \* kakao_user_id = NULL, or no identity
    NoUser,
    NoLink,
    MaxAttempts,  \* KAKAO_LINK_PASSWORD_MAX_ATTEMPTS
    MaxCodes      \* bound on the codes mailed for one session

ASSUME NullsAreNew == /\ NoKakao \notin KakaoIds
                     /\ NoUser \notin Accounts
                     /\ NoLink \notin Links
ASSUME LimitsAreNat == MaxAttempts \in Nat \ {0} /\ MaxCodes \in Nat

VARIABLES
    account,     \* [Accounts -> {"absent", "active", "deleted"}]
    local,       \* accounts that have a password
    kakaoUserId, \* identity of each account, or NoKakao
    link,        \* rows of the link sessions
    code,        \* state of the codes of each session
    call,        \* next step of each call and what it has read
    completions  \* how often each session was completed

userVars == <<account, local, kakaoUserId>>
vars == <<userVars, link, code, call, completions>>

CodeIds == 1..MaxCodes
Locks == {"off", "on", "over"}  \* blocked_until: NULL, ahead, or past

LinkState == [state: {"free", "live", "used", "gone"},
              user: Accounts \cup {NoUser},
              kakao: KakaoIds \cup {NoKakao},
              count: 0..MaxAttempts,
              lock: Locks]

CallState == [step: {"idle", "findEmail", "createLink", "createUser",
                     "recordFailure", "checkRecent", "insertCode", "mail",
                     "retire", "dropCode", "findCode", "useCode",
                     "checkIdentity", "complete"},
              kakao: KakaoIds \cup {NoKakao},
              user: Accounts \cup {NoUser},
              link: Links \cup {NoLink},
              index: 0..MaxCodes,
              count: 0..MaxAttempts,
              lock: Locks]

Free == [state |-> "free", user |-> NoUser, kakao |-> NoKakao, count |-> 0,
         lock |-> "off"]
Idle == [step |-> "idle", kakao |-> NoKakao, user |-> NoUser, link |-> NoLink,
         index |-> 0, count |-> 0, lock |-> "off"]

TypeOK ==
    /\ account \in [Accounts -> {"absent", "active", "deleted"}]
    /\ local \in SUBSET Accounts
    /\ kakaoUserId \in [Accounts -> KakaoIds \cup {NoKakao}]
    /\ link \in [Links -> LinkState]
    /\ code \in [Links -> [CodeIds -> {"none", "unused", "used", "gone"}]]
    /\ call \in [Calls -> CallState]
    /\ completions \in [Links -> Nat]

Init ==
    /\ account = [a \in Accounts |-> "absent"]
    /\ local = {}
    /\ kakaoUserId = [a \in Accounts |-> NoKakao]
    /\ link = [s \in Links |-> Free]
    /\ code = [s \in Links |-> [i \in CodeIds |-> "none"]]
    /\ call = [c \in Calls |-> Idle]
    /\ completions = [s \in Links |-> 0]

-----------------------------------------------------------------------------
At(c, step) == call[c].step = step
Becomes(c, state) == call' = [call EXCEPT ![c] = state]
Finish(c) == Becomes(c, Idle)
Goto(c, step) == Becomes(c, [call[c] EXCEPT !.step = step])

Active(a) == a \in Accounts /\ account[a] = "active"
Owners(k) == {a \in Accounts : Active(a) /\ kakaoUserId[a] = k}

(* signup, and a withdrawal with the rows it deletes (Withdrawal). *)
SignUp(a) ==
    /\ account[a] = "absent"
    /\ account' = [account EXCEPT ![a] = "active"]
    /\ local' = local \cup {a}
    /\ UNCHANGED <<kakaoUserId, link, code, call, completions>>

Withdraw(a) ==
    /\ Active(a)
    /\ account' = [account EXCEPT ![a] = "deleted"]
    /\ link' = [s \in Links |-> IF link[s].user = a
                                THEN [link[s] EXCEPT !.state = "gone"]
                                ELSE link[s]]
    /\ code' = [s \in Links |->
                   [i \in CodeIds |-> IF link[s].user = a /\ code[s][i] # "none"
                                      THEN "gone" ELSE code[s][i]]]
    /\ UNCHANGED <<local, kakaoUserId, call, completions>>

-----------------------------------------------------------------------------
(* kakaoLogin, statement by statement.  An identity that a member has logs *)
(* in at once and changes nothing here.                                    *)
FindMember(c, k) ==
    /\ At(c, "idle")
    /\ Owners(k) = {}
    /\ Becomes(c, [Idle EXCEPT !.step = "findEmail", !.kakao = k])
    /\ UNCHANGED <<userVars, link, code, completions>>

(* 409 when the account of that address has another identity. *)
FindEmail(c) ==
    /\ At(c, "findEmail")
    /\ \/ \E a \in Accounts :
             /\ Active(a)
             /\ IF kakaoUserId[a] \in {NoKakao, call[c].kakao}
                THEN Becomes(c, [call[c] EXCEPT !.step = "createLink",
                                                !.user = a])
                ELSE Finish(c)
       \/ Goto(c, "createUser")
    /\ UNCHANGED <<userVars, link, code, completions>>

(* createKakaoLinkSession; the row refers to a user that must exist. *)
CreateLink(c) ==
    /\ At(c, "createLink")
    /\ \E s \in Links :
          /\ link[s].state = "free"
          /\ link' = IF Active(call[c].user)
                     THEN [link EXCEPT ![s] = [Free EXCEPT
                               !.state = "live", !.user = call[c].user,
                               !.kakao = call[c].kakao]]
                     ELSE link
    /\ Finish(c)
    /\ UNCHANGED <<userVars, code, completions>>

(* A new account, unless its identity or its address is taken by now.      *)
CreateUser(c) ==
    /\ At(c, "createUser")
    /\ \/ \E a \in Accounts :
             /\ account[a] = "absent"
             /\ Owners(call[c].kakao) = {}
             /\ account' = [account EXCEPT ![a] = "active"]
             /\ kakaoUserId' = [kakaoUserId EXCEPT ![a] = call[c].kakao]
       \/ /\ \E a \in Accounts : Active(a)
          /\ UNCHANGED <<account, kakaoUserId>>
    /\ Finish(c)
    /\ UNCHANGED <<local, link, code, completions>>

-----------------------------------------------------------------------------
(* getKakaoLinkSession.  A session past its expiresAt is one that no call  *)
(* opens any more.                                                         *)
Open(s) == link[s].state = "live"

Reads(c, s, step) == Becomes(c, [Idle EXCEPT !.step = step, !.link = s])

(* kakaoLinkByPassword: 429 during a lock, and then the comparison with    *)
(* the hash that came with the session.                                    *)
TryPassword(c, s) ==
    /\ At(c, "idle")
    /\ Open(s)
    /\ link[s].lock # "on"
    /\ \/ link[s].user \in local /\ Reads(c, s, "checkIdentity")
       \/ Becomes(c, [Idle EXCEPT !.step = "recordFailure", !.link = s,
                                   !.count = link[s].count,
                                   !.lock = link[s].lock])
    /\ UNCHANGED <<userVars, link, code, completions>>

(* The counter is computed from the one that was read, and written with    *)
(* the lock whatever the row holds by now.                                 *)
NextAttempts(c) == IF call[c].lock = "over" THEN 1 ELSE call[c].count + 1

RecordFailure(c) ==
    LET s == call[c].link
        n == NextAttempts(c)
    IN  /\ At(c, "recordFailure")
        /\ link' = IF link[s].state = "gone" THEN link
                   ELSE [link EXCEPT ![s].count = n,
                                     ![s].lock = IF n >= MaxAttempts
                                                 THEN "on" ELSE "off"]
        /\ Finish(c)
        /\ UNCHANGED <<userVars, code, completions>>

-----------------------------------------------------------------------------
(* requestKakaoLinkEmailVerification *)
RequestCode(c, s) ==
    /\ At(c, "idle")
    /\ Open(s)
    /\ Reads(c, s, "checkRecent")
    /\ UNCHANGED <<userVars, link, code, completions>>

(* The last code, if there is one, may be within the resend cooldown. *)
CheckRecent(c) ==
    /\ At(c, "checkRecent")
    /\ \/ /\ \E i \in CodeIds : code[call[c].link][i] \in {"unused", "used"}
          /\ Finish(c)
       \/ Goto(c, "insertCode")
    /\ UNCHANGED <<userVars, link, code, completions>>

InsertCode(c) ==
    LET s == call[c].link IN
    /\ At(c, "insertCode")
    /\ IF link[s].state = "gone"
       THEN Finish(c) /\ UNCHANGED code
       ELSE \E i \in CodeIds :
              /\ code[s][i] = "none"
              /\ \A j \in 1..(i - 1) : code[s][j] # "none"
              /\ code' = [code EXCEPT ![s][i] = "unused"]
              /\ Becomes(c, [call[c] EXCEPT !.step = "mail", !.index = i])
    /\ UNCHANGED <<userVars, link, completions>>

(* The mail goes out, and the older codes are retired; or it does not, and *)
(* the new one is deleted.                                                 *)
Mail(c) ==
    /\ At(c, "mail")
    /\ Goto(c, "retire") \/ Goto(c, "dropCode")
    /\ UNCHANGED <<userVars, link, code, completions>>

RetireAll(s, kept) ==
    [code EXCEPT ![s] = [i \in CodeIds |->
        IF code[s][i] = "unused" /\ i # kept THEN "used" ELSE code[s][i]]]

RetireOthers(c) ==
    /\ At(c, "retire")
    /\ code' = RetireAll(call[c].link, call[c].index)
    /\ Finish(c)
    /\ UNCHANGED <<userVars, link, completions>>

DropCode(c) ==
    /\ At(c, "dropCode")
    /\ code' = [code EXCEPT ![call[c].link][call[c].index] = "gone"]
    /\ Finish(c)
    /\ UNCHANGED <<userVars, link, completions>>

-----------------------------------------------------------------------------
(* kakaoLinkByEmail: the newest unused code is found, and taken by a       *)
(* conditional update when the guess is right.  A wrong guess, or a code   *)
(* that is locked or expired, ends the call (CodeConfirm).                 *)
TryCode(c, s) ==
    /\ At(c, "idle")
    /\ Open(s)
    /\ Reads(c, s, "findCode")
    /\ UNCHANGED <<userVars, link, code, completions>>

FindCode(c) ==
    LET s == call[c].link IN
    /\ At(c, "findCode")
    /\ \/ \E i \in CodeIds :
             /\ code[s][i] = "unused"
             /\ \A j \in CodeIds : j > i => code[s][j] # "unused"
             /\ Becomes(c, [call[c] EXCEPT !.step = "useCode", !.index = i])
       \/ Finish(c)
    /\ UNCHANGED <<userVars, link, code, completions>>

TakeableTwice(s, i) ==  \* mutant: without usedAt: null
    code[s][i] \in {"unused", "used"}

Takeable(s, i) == code[s][i] = "unused"

UseCode(c) ==
    LET s == call[c].link
        i == call[c].index
    IN  /\ At(c, "useCode")
        /\ IF Takeable(s, i)
           THEN /\ code' = [code EXCEPT ![s][i] = "used"]
                /\ Goto(c, "checkIdentity")
           ELSE /\ Finish(c)
                /\ UNCHANGED code
        /\ UNCHANGED <<userVars, link, completions>>

-----------------------------------------------------------------------------
(* completeKakaoLink: 409 when another account has the identity.           *)
CheckIdentity(c) ==
    LET s == call[c].link IN
    /\ At(c, "checkIdentity")
    /\ IF Owners(link[s].kakao) \subseteq {link[s].user}
       THEN Goto(c, "complete")
       ELSE Finish(c)
    /\ UNCHANGED <<userVars, link, code, completions>>

(* The transaction: the session is used up, the identity set on an account *)
(* that has none or has it already (the column is unique), and the codes   *)
(* retired; or everything is rolled back.  Its expiry was read before.     *)
CompletableTwice(s) ==  \* mutant: without usedAt: null
    /\ link[s].state \in {"live", "used"}
    /\ Active(link[s].user)
    /\ kakaoUserId[link[s].user] \in {NoKakao, link[s].kakao}
    /\ Owners(link[s].kakao) \subseteq {link[s].user}

CompletableByAnyone(s) ==  \* mutant: without the condition on kakaoUserId
    /\ link[s].state = "live"
    /\ Active(link[s].user)
    /\ Owners(link[s].kakao) \subseteq {link[s].user}

Completable(s) ==
    /\ link[s].state = "live"
    /\ Active(link[s].user)
    /\ kakaoUserId[link[s].user] \in {NoKakao, link[s].kakao}
    /\ Owners(link[s].kakao) \subseteq {link[s].user}

AfterRefusalUsed(s) ==  \* mutant: the session is used up outside of it
    [link EXCEPT ![s].state = IF @ = "live" THEN "used" ELSE @]

AfterRefusal(s) == link

Complete(c) ==
    LET s == call[c].link IN
    /\ At(c, "complete")
    /\ IF Completable(s)
       THEN /\ link' = [link EXCEPT ![s].state = "used"]
            /\ kakaoUserId' = [kakaoUserId EXCEPT ![link[s].user] =
                                  link[s].kakao]
            /\ code' = RetireAll(s, 0)
            /\ completions' = [completions EXCEPT ![s] = @ + 1]
       ELSE /\ link' = AfterRefusal(s)
            /\ UNCHANGED <<kakaoUserId, code, completions>>
    /\ Finish(c)
    /\ UNCHANGED <<account, local>>

-----------------------------------------------------------------------------
(* A lock runs out, of a session that can still be used.                   *)
LockRunsOut(s) ==
    /\ Open(s)
    /\ link[s].lock = "on"
    /\ link' = [link EXCEPT ![s].lock = "over"]
    /\ UNCHANGED <<userVars, code, call, completions>>

(* The process dies, or the database or the mail server fails. *)
Abort(c) ==
    /\ ~At(c, "idle")
    /\ Finish(c)
    /\ UNCHANGED <<userVars, link, code, completions>>

Login(c) ==
    \/ \E k \in KakaoIds : FindMember(c, k)
    \/ FindEmail(c)
    \/ CreateLink(c)
    \/ CreateUser(c)

Prove(c) ==
    \/ \E s \in Links : TryPassword(c, s) \/ RequestCode(c, s) \/ TryCode(c, s)
    \/ RecordFailure(c)
    \/ CheckRecent(c)
    \/ InsertCode(c)
    \/ Mail(c)
    \/ RetireOthers(c)
    \/ DropCode(c)
    \/ FindCode(c)
    \/ UseCode(c)

Environment ==
    \/ \E a \in Accounts : SignUp(a) \/ Withdraw(a)
    \/ \E s \in Links : LockRunsOut(s)

Next ==
    \/ \E c \in Calls :
          Login(c) \/ Prove(c) \/ CheckIdentity(c) \/ Complete(c) \/ Abort(c)
    \/ Environment

Spec == Init /\ [][Next]_vars

-----------------------------------------------------------------------------
(* However many sessions are open for an account, and whichever identities *)
(* they are for, an identity that was linked stays until the account goes. *)
IdentityNeverReplaced ==
    [][\A a \in Accounts :
          Active(a) /\ Active(a)' /\ kakaoUserId[a] # NoKakao
              => kakaoUserId'[a] = kakaoUserId[a]]_vars

(* A session lets its holder in once, also when a password and a code      *)
(* prove it at the same time.                                              *)
LinkCompletesOnce == \A s \in Links : completions[s] <= 1

(* A session that is used up did link its account: a link that is refused  *)
(* in the middle leaves the session for another try.                       *)
UsedLinkIsLinked ==
    \A s \in Links :
        link[s].state = "used" => kakaoUserId[link[s].user] = link[s].kakao

(* One mailed code proves one request, although the code is used up        *)
(* before, and apart from, the link that it proves.                        *)
Proven(c) == At(c, "checkIdentity") \/ At(c, "complete")

CodeProvesOnce ==
    \A c, d \in Calls :
        /\ Proven(c) /\ Proven(d) /\ call[c].index # 0
        /\ call[c].link = call[d].link /\ call[c].index = call[d].index
        => c = d

(* auth-kakao.test.js: repeated failures lock the password of a session.   *)
(* (Violated: a failure that was read before the lock is written over it.) *)
PasswordLockHolds ==
    [][\A s \in Links :
          link[s].lock = "on" /\ link'[s].state = "live"
              => link'[s].lock # "off"]_vars
=============================================================================
