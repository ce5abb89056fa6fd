------------------------------ MODULE Sessions ------------------------------
(***************************************************************************)
(* Refresh-token sessions of src/src/features/auth/auth.service.js: login, *)
(* rotation with reuse detection, logout, and the password reset, password *)
(* change and withdrawal they interleave with.                             *)
(*                                                                         *)
(* A refresh token is a row of auth_tokens; the tokens that descend from   *)
(* one login form a family.  Every handler reads first and writes in a     *)
(* later transaction, so each is two steps.  Only the owner of a token     *)
(* string, or a thief of it, presents it: any token ever issued may be     *)
(* presented at any time.  A new UUID for a family is named by the token   *)
(* that is inserted with it.                                               *)
(***************************************************************************)
EXTENDS Naturals, FiniteSets

CONSTANTS
    Users,
    Tokens,        \* refresh tokens that are ever issued (a bound)
    LegacyTokens,  \* those issued before families existed, family NULL
    Calls,         \* HTTP requests in progress at the same time
    NoFamily,      \* token_family_id = NULL
    NoToken,       \* a call that carries no token
    NoUser,        \* a row not issued yet, a call of nobody
    MaxPasswords   \* bound on the passwords a user goes through

ASSUME LegacyAreTokens == LegacyTokens \subseteq Tokens
ASSUME NullsAreNew == /\ NoFamily \notin Tokens
                     /\ NoToken \notin Tokens
                     /\ NoUser \notin Users
ASSUME PasswordBound == MaxPasswords \in Nat \ {0}

VARIABLES
    account,    \* [Users -> {"active", "deleted"}]
    password,   \* [Users -> version of the password hash]
    row,        \* state of each token's row; "free" = not issued yet
    family,     \* token_family_id of each token
    owner,      \* user_id of each token
    expired,    \* tokens past their expiresAt
    call,       \* next step of each call and what it has read
    proof,      \* password version the first login of a token's family proved
    lastReset,  \* password version set by the last confirmPasswordReset
    revoked     \* families that a logout, a reuse or a reset has revoked

userVars  == <<account, password>>
tokenVars == <<row, family, owner, expired>>
ghostVars == <<proof, lastReset, revoked>>
vars == <<userVars, tokenVars, call, ghostVars>>

(* A call: its next step, the user it acts for, the token it carries, the  *)
(* family read with that token, and the password version a login verified  *)
(* (0 = the user was proved by Kakao).                                     *)
CallState == [step: {"idle", "issue", "rotate", "reused", "logout"},
              user: Users \cup {NoUser},
              token: Tokens \cup {NoToken},
              family: Tokens \cup {NoFamily},
              proof: 0..MaxPasswords]

Idle == [step |-> "idle", user |-> NoUser, token |-> NoToken,
         family |-> NoFamily, proof |-> 0]

TypeOK ==
    /\ account \in [Users -> {"active", "deleted"}]
    /\ password \in [Users -> 1..MaxPasswords]
    /\ row \in [Tokens -> {"free", "live", "used", "gone"}]
    /\ family \in [Tokens -> Tokens \cup {NoFamily}]
    /\ owner \in [Tokens -> Users \cup {NoUser}]
    /\ expired \in SUBSET Tokens
    /\ call \in [Calls -> CallState]
    /\ proof \in [Tokens -> 0..MaxPasswords]
    /\ lastReset \in [Users -> 0..MaxPasswords]
    /\ revoked \in SUBSET Tokens

Init ==
    /\ account = [u \in Users |-> "active"]
    /\ password = [u \in Users |-> 1]
    /\ row = [t \in Tokens |-> IF t \in LegacyTokens THEN "live" ELSE "free"]
    /\ family = [t \in Tokens |-> NoFamily]
    /\ owner \in {o \in [Tokens -> Users \cup {NoUser}] :
                     \A t \in Tokens : o[t] = NoUser <=> t \notin LegacyTokens}
    /\ expired = {}
    /\ call = [c \in Calls |-> Idle]
    /\ proof = [t \in Tokens |-> IF t \in LegacyTokens THEN 1 ELSE 0]
    /\ lastReset = [u \in Users |-> 0]
    /\ revoked = {}

-----------------------------------------------------------------------------
At(c, step) == call[c].step = step
Reads(c, state) == call' = [call EXCEPT ![c] = state]
Finish(c) == Reads(c, Idle)
LiveIn(f) == {t \in Tokens : row[t] = "live" /\ family[t] = f}
LiveOf(u) == {t \in Tokens : row[t] = "live" /\ owner[t] = u}

(* updateMany of the unused tokens in S to usedAt = now *)
UseAll(S) == row' = [t \in Tokens |-> IF t \in S THEN "used" ELSE row[t]]

(* createRefreshToken: a new row t of user u, beside the other rows. *)
CreateRefreshToken(t, u, rows) ==
    /\ row' = [rows EXCEPT ![t] = "live"]
    /\ owner' = [owner EXCEPT ![t] = u]

(* login and kakaoLogin up to the transaction: the credential is verified  *)
(* against the user row read here.                                         *)
Authenticate(c, u) ==
    /\ At(c, "idle")
    /\ account[u] = "active"
    /\ \E p \in {0, password[u]} :
          Reads(c, [Idle EXCEPT !.step = "issue", !.user = u, !.proof = p])
    /\ UNCHANGED <<userVars, tokenVars, ghostVars>>

(* The transaction: user.update finds the user or throws; a token of a new *)
(* family is inserted.  The credential is not looked at again.             *)
IssueWithoutUser(c, t) ==  \* mutant: lastLoginAt is written by updateMany
    row[t] = "free"

CanIssue(c, t) ==
    row[t] = "free" /\ account[call[c].user] = "active"

IssueSession(c) ==
    /\ At(c, "issue")
    /\ \E t \in Tokens :
          /\ CanIssue(c, t)
          /\ CreateRefreshToken(t, call[c].user, row)
          /\ family' = [family EXCEPT ![t] = t]
          /\ proof' = [proof EXCEPT ![t] = call[c].proof]
    /\ Finish(c)
    /\ UNCHANGED <<userVars, expired, lastReset, revoked>>

WithToken(step, t) ==
    [step |-> step, user |-> owner[t], token |-> t, family |-> family[t],
     proof |-> 0]

(* refreshAccessToken up to its write.  A used token means reuse; a row of *)
(* no user, a deleted or an expired one is a plain 401.                    *)
ReadRefreshToken(c, t) ==
    /\ At(c, "idle")
    /\ \/ /\ row[t] = "live"
          /\ t \notin expired
          /\ Reads(c, WithToken("rotate", t))
       \/ /\ row[t] = "used"
          /\ Reads(c, WithToken("reused", t))
    /\ UNCHANGED <<userVars, tokenVars, ghostVars>>

(* revokeRefreshTokenFamily; a legacy token has no family to revoke. *)
RevokeFamily(c) ==
    /\ At(c, "reused")
    /\ UseAll(IF call[c].family = NoFamily THEN {} ELSE LiveIn(call[c].family))
    /\ revoked' = revoked \cup ({call[c].family} \ {NoFamily})
    /\ Finish(c)
    /\ UNCHANGED <<userVars, family, owner, expired, proof, lastReset>>

(* The rotation transaction: compare-and-swap on usedAt (its expiry test   *)
(* uses the time read first), then the next token in the same family; a    *)
(* legacy token starts a family.  Losing the race is a plain 401.          *)
CanRotateUsed(t) == row[t] \in {"live", "used"}  \* mutant: no usedAt: null

CanRotate(t) == row[t] = "live"

RotateToken(c) ==
    LET t == call[c].token IN
    /\ At(c, "rotate")
    /\ \/ /\ CanRotate(t)
          /\ \E next \in Tokens :
                LET f == IF call[c].family = NoFamily THEN next
                                                     ELSE call[c].family
                IN  /\ row[next] = "free"
                    /\ CreateRefreshToken(next, call[c].user,
                                          [row EXCEPT ![t] = "used"])
                    /\ family' = [family EXCEPT ![t] = f, ![next] = f]
                    /\ proof' = [proof EXCEPT ![next] = proof[t]]
       \/ /\ ~CanRotate(t)
          /\ UNCHANGED <<row, family, owner, proof>>
    /\ Finish(c)
    /\ UNCHANGED <<userVars, expired, lastReset, revoked>>

(* logout: the token must be the caller's, in a family and not expired,    *)
(* but may be used; then the family's unused tokens are marked used.       *)
ReadLogoutToken(c, u, t) ==
    /\ At(c, "idle")
    /\ row[t] \in {"live", "used"}
    /\ owner[t] = u
    /\ family[t] # NoFamily
    /\ t \notin expired
    /\ Reads(c, WithToken("logout", t))
    /\ UNCHANGED <<userVars, tokenVars, ghostVars>>

LogoutPresentedOnly(c) ==  \* mutant: only the presented token is marked
    LiveIn(call[c].family) \cap {call[c].token}

LogoutTargets(c) ==
    LiveIn(call[c].family) \cap LiveOf(call[c].user)

RevokeOnLogout(c) ==
    /\ At(c, "logout")
    /\ UseAll(LogoutTargets(c))
    /\ revoked' = revoked \cup {call[c].family}
    /\ Finish(c)
    /\ UNCHANGED <<userVars, family, owner, expired, proof, lastReset>>

-----------------------------------------------------------------------------
(* confirmPasswordReset once its code is accepted: one transaction.        *)
ConfirmPasswordReset(u) ==
    /\ account[u] = "active"
    /\ password[u] < MaxPasswords
    /\ password' = [password EXCEPT ![u] = @ + 1]
    /\ lastReset' = [lastReset EXCEPT ![u] = password[u] + 1]
    /\ UseAll(LiveOf(u))
    /\ revoked' = revoked \cup ({family[t] : t \in LiveOf(u)} \ {NoFamily})
    /\ UNCHANGED <<account, family, owner, expired, call, proof>>

(* changePassword leaves the sessions alone. *)
ChangePassword(u) ==
    /\ account[u] = "active"
    /\ password[u] < MaxPasswords
    /\ password' = [password EXCEPT ![u] = @ + 1]
    /\ UNCHANGED <<account, tokenVars, call, ghostVars>>

(* The deletion transaction of a withdrawal: tokens, then the user. *)
DeleteAccount(u) ==
    /\ account[u] = "active"
    /\ account' = [account EXCEPT ![u] = "deleted"]
    /\ row' = [t \in Tokens |-> IF owner[t] = u THEN "gone" ELSE row[t]]
    /\ UNCHANGED <<password, family, owner, expired, call, ghostVars>>

Expire(t) ==
    /\ row[t] \in {"live", "used"}
    /\ expired' = expired \cup {t}
    /\ UNCHANGED <<userVars, row, family, owner, call, ghostVars>>

(* The process dies or the database fails between two steps of a call. *)
Abort(c) ==
    /\ ~At(c, "idle")
    /\ Finish(c)
    /\ UNCHANGED <<userVars, tokenVars, ghostVars>>

Next ==
    \/ \E c \in Calls :
          \/ \E u \in Users : Authenticate(c, u)
          \/ IssueSession(c)
          \/ \E t \in Tokens : ReadRefreshToken(c, t)
          \/ RevokeFamily(c)
          \/ RotateToken(c)
          \/ \E u \in Users, t \in Tokens : ReadLogoutToken(c, u, t)
          \/ RevokeOnLogout(c)
          \/ Abort(c)
    \/ \E u \in Users :
          \/ ConfirmPasswordReset(u)
          \/ ChangePassword(u)
          \/ DeleteAccount(u)
    \/ \E t \in Tokens : Expire(t)

Spec == Init /\ [][Next]_vars

-----------------------------------------------------------------------------
(* Rotation never forks a session: two refreshes that present the same     *)
(* token at the same time leave one usable token in the family.            *)
OneLiveTokenPerFamily ==
    \A s, t \in Tokens :
        /\ row[s] = "live" /\ row[t] = "live"
        /\ family[s] = family[t] /\ family[s] # NoFamily
        => s = t

(* A family revoked by a logout, a detected reuse or a password reset      *)
(* never has a usable token again, not even from a rotation that had read  *)
(* its token before the revocation.                                        *)
RevokedFamilyStaysDead == \A f \in revoked : LiveIn(f) = {}

(* No usable session belongs to an account that is gone, although a login  *)
(* or a rotation may have been under way when it was deleted.              *)
NoSessionWithoutAccount ==
    \A t \in Tokens : row[t] = "live" => account[owner[t]] = "active"

(* A usable session that proved a password a reset has replaced. *)
Stale(t) == row[t] = "live" /\ proof[t] # 0 /\ proof[t] < lastReset[owner[t]]

LateLogin(c, u) ==
    At(c, "issue") /\ call[c].user = u /\ call[c].proof \in 1..(lastReset[u] - 1)

(* A reset discards every session opened with the old password             *)
(* (auth-password-reset.test.js:351), those of a rotation under way too.   *)
(* Only a login that verified that password before the reset and inserts   *)
(* its token after it gets past, and what is rotated from that token.      *)
OnlyLateLoginsOutliveReset ==
    [][\A t \in Tokens :
          ~Stale(t) /\ Stale(t)' =>
             \/ \E c \in Calls : row[t] = "free" /\ LateLogin(c, owner'[t])
             \/ \E s \in Tokens : Stale(s) /\ family[s] = family'[t]]_vars
=============================================================================
