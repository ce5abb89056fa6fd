--------------------------- MODULE SessionsProofs ---------------------------
(***************************************************************************)
(* The session invariants for any number of users, tokens and concurrent   *)
(* calls.  What a call read may be stale when it writes; CallsAreSound     *)
(* says how much of it still holds.                                        *)
(***************************************************************************)
EXTENDS Sessions, TLAPS

(* A family is named by a token that was issued, and has one owner.        *)
FamiliesAreIssued ==
    \A t \in Tokens : family[t] # NoFamily =>
        /\ row[t] # "free"
        /\ row[family[t]] # "free"

FamilyHasOneOwner ==
    \A s, t \in Tokens :
        family[s] = family[t] /\ family[s] # NoFamily => owner[s] = owner[t]

RevokedAreIssued == \A f \in revoked : row[f] # "free"

CallsAreSound ==
    \A c \in Calls :
        /\ call[c].step = "issue" => call[c].user \in Users
        /\ call[c].step = "rotate" =>
              /\ call[c].token \in Tokens
              /\ row[call[c].token] # "free"
              /\ row[call[c].token] = "live" =>
                    /\ family[call[c].token] = call[c].family
                    /\ owner[call[c].token] = call[c].user
        /\ call[c].family # NoFamily => row[call[c].family] # "free"
        /\ call[c].step = "logout" =>
              /\ call[c].family # NoFamily
              /\ \A t \in Tokens :
                    family[t] = call[c].family => owner[t] = call[c].user

LiveHasUser == \A t \in Tokens : row[t] = "live" => owner[t] \in Users

FreeHasNoUser == \A t \in Tokens : row[t] = "free" => owner[t] = NoUser

IInv ==
    /\ TypeOK
    /\ FamiliesAreIssued
    /\ FamilyHasOneOwner
    /\ RevokedAreIssued
    /\ CallsAreSound
    /\ LiveHasUser
    /\ FreeHasNoUser
    /\ OneLiveTokenPerFamily
    /\ RevokedFamilyStaysDead
    /\ NoSessionWithoutAccount

USE DEF At, Reads, Finish

LEMMA InitEstablishesIInv == Init => IInv
  BY LegacyAreTokens, NullsAreNew, PasswordBound
     DEF Init, IInv, TypeOK, CallState, Idle, FamiliesAreIssued,
         FamilyHasOneOwner, RevokedAreIssued, CallsAreSound, LiveHasUser,
         FreeHasNoUser, OneLiveTokenPerFamily, RevokedFamilyStaysDead,
         NoSessionWithoutAccount

(* A step that marks, deletes or leaves rows, and issues none. *)
NoIssue ==
    /\ UNCHANGED <<family, owner>>
    /\ \A t \in Tokens :
          /\ row'[t] = "live" => row[t] = "live"
          /\ row'[t] = "free" <=> row[t] = "free"

LEMMA NoIssueStep ==
    ASSUME IInv, TypeOK', NoIssue, CallsAreSound',
           \A f \in revoked' \ revoked :
              row[f] # "free" /\ \A t \in Tokens : row'[t] = "live" =>
                                                       family[t] # f,
           \A t \in Tokens : row'[t] = "live" =>
                                 account'[owner[t]] = account[owner[t]]
    PROVE  IInv'
<1> USE DEF NoIssue, IInv, TypeOK
<1>1. FamiliesAreIssued' /\ FamilyHasOneOwner' /\ RevokedAreIssued'
  BY DEF FamiliesAreIssued, FamilyHasOneOwner, RevokedAreIssued
<1>2. LiveHasUser' /\ FreeHasNoUser' /\ OneLiveTokenPerFamily' /\ NoSessionWithoutAccount'
  BY DEF LiveHasUser, FreeHasNoUser, OneLiveTokenPerFamily, NoSessionWithoutAccount
<1>3. RevokedFamilyStaysDead'
  BY DEF RevokedFamilyStaysDead, LiveIn
<1> QED BY <1>1, <1>2, <1>3

(* What a call has read stays sound over the steps that issue nothing.     *)
LEMMA CallsStaySound ==
    ASSUME IInv, NoIssue, NEW c \in Calls, NEW state \in CallState,
           call' = [call EXCEPT ![c] = state],
           state.step = "issue" => state.user \in Users,
           state.step = "rotate" =>
              /\ state.token \in Tokens
              /\ row[state.token] # "free"
              /\ row[state.token] = "live" =>
                    /\ family[state.token] = state.family
                    /\ owner[state.token] = state.user,
           state.family # NoFamily => row[state.family] # "free",
           state.step = "logout" =>
              /\ state.family # NoFamily
              /\ \A t \in Tokens :
                    family[t] = state.family => owner[t] = state.user
    PROVE  CallsAreSound'
<1>1. \A d \in Calls : call'[d] = IF d = c THEN state ELSE call[d]
  BY DEF IInv, TypeOK
<1> QED BY <1>1 DEF NoIssue, IInv, TypeOK, CallState, CallsAreSound

-----------------------------------------------------------------------------
LEMMA TypeStep == IInv /\ [Next]_vars => TypeOK'
<1> SUFFICES ASSUME TypeOK, CallsAreSound, [Next]_vars PROVE TypeOK'
  BY DEF IInv
<1> USE LegacyAreTokens, NullsAreNew, PasswordBound
    DEF TypeOK, CallState, Idle, userVars, tokenVars, ghostVars
<1>1. ASSUME NEW c \in Calls, NEW u \in Users, Authenticate(c, u)
      PROVE  TypeOK'
  <2> DEFINE Login(p) == [Idle EXCEPT !.step = "issue", !.user = u, !.proof = p]
  <2>1. PICK p \in {0, password[u]} : call' = [call EXCEPT ![c] = Login(p)]
    BY <1>1 DEF Authenticate
  <2>2. p \in 0..MaxPasswords
    BY <2>1
  <2>3. Login(p) \in CallState
    BY <2>2
  <2>4. call' \in [Calls -> CallState]
    BY <2>1, <2>3
  <2> QED BY <1>1, <2>4 DEF Authenticate
<1>2. ASSUME NEW c \in Calls, IssueSession(c) PROVE TypeOK'
  <2>1. call[c].user \in Users \cup {NoUser} /\ call[c].proof \in 0..MaxPasswords
    OBVIOUS
  <2> QED BY <1>2, <2>1 DEF IssueSession, CanIssue, CreateRefreshToken
<1>3. ASSUME NEW c \in Calls, NEW t \in Tokens, ReadRefreshToken(c, t)
      PROVE  TypeOK'
  BY <1>3 DEF ReadRefreshToken, WithToken
<1>4. ASSUME NEW c \in Calls, RevokeFamily(c) PROVE TypeOK'
  <2>1. call[c].family \in Tokens \cup {NoFamily}
    OBVIOUS
  <2> QED BY <1>4, <2>1 DEF RevokeFamily, UseAll
<1>5. ASSUME NEW c \in Calls, RotateToken(c) PROVE TypeOK'
  <2> DEFINE t == call[c].token
  <2>1. /\ call[c].user \in Users \cup {NoUser}
        /\ call[c].family \in Tokens \cup {NoFamily}
    OBVIOUS
  <2>2. call' \in [Calls -> CallState]
    BY <1>5 DEF RotateToken
  <2>3. CASE UNCHANGED <<row, family, owner, proof>>
    BY <1>5, <2>2, <2>3 DEF RotateToken
  <2>4. ASSUME NEW next \in Tokens, NEW f \in Tokens,
               CreateRefreshToken(next, call[c].user,
                                  [row EXCEPT ![t] = "used"]),
               family' = [family EXCEPT ![t] = f, ![next] = f],
               proof' = [proof EXCEPT ![next] = proof[t]],
               t \in Tokens
        PROVE  TypeOK'
    BY <1>5, <2>1, <2>2, <2>4 DEF RotateToken, CreateRefreshToken
  <2>5. ASSUME CanRotate(t) PROVE t \in Tokens
    BY <1>5, <2>5 DEF RotateToken, CallsAreSound
  <2> QED BY <1>5, <2>1, <2>3, <2>4, <2>5 DEF RotateToken
<1>6. ASSUME NEW c \in Calls, NEW u \in Users, NEW t \in Tokens,
             ReadLogoutToken(c, u, t)
      PROVE  TypeOK'
  BY <1>6 DEF ReadLogoutToken, WithToken
<1>7. ASSUME NEW c \in Calls, RevokeOnLogout(c) PROVE TypeOK'
  BY <1>7 DEF RevokeOnLogout, UseAll, CallsAreSound
<1>8. ASSUME NEW c \in Calls, Abort(c) PROVE TypeOK'
  BY <1>8 DEF Abort
<1>9. ASSUME NEW u \in Users, ConfirmPasswordReset(u) PROVE TypeOK'
  BY <1>9 DEF ConfirmPasswordReset, UseAll, LiveOf
<1>10. ASSUME NEW u \in Users, ChangePassword(u) PROVE TypeOK'
  BY <1>10 DEF ChangePassword
<1>11. ASSUME NEW u \in Users, DeleteAccount(u) PROVE TypeOK'
  BY <1>11 DEF DeleteAccount
<1>12. ASSUME NEW t \in Tokens, Expire(t) PROVE TypeOK'
  BY <1>12 DEF Expire
<1>13. CASE UNCHANGED vars
  BY <1>13 DEF vars
<1> QED
  BY <1>1, <1>2, <1>3, <1>4, <1>5, <1>6, <1>7, <1>8, <1>9, <1>10, <1>11,
     <1>12, <1>13 DEF Next

-----------------------------------------------------------------------------
(* The reads, and the steps of a call that ends, change no row. *)
LEMMA ReadPreservesIInv ==
    ASSUME IInv, TypeOK', NEW c \in Calls,
           \/ \E u \in Users : Authenticate(c, u)
           \/ \E t \in Tokens : ReadRefreshToken(c, t)
           \/ \E u \in Users, t \in Tokens : ReadLogoutToken(c, u, t)
           \/ Abort(c)
    PROVE  IInv'
<1> USE DEF userVars, tokenVars, ghostVars
<1>1. UNCHANGED <<account, row, family, owner, revoked>>
  BY DEF Authenticate, ReadRefreshToken, ReadLogoutToken, Abort
<1>2. NoIssue
  BY <1>1 DEF NoIssue
<1>3. CallsAreSound'
  <2>1. ASSUME NEW u \in Users, Authenticate(c, u) PROVE CallsAreSound'
    <3> DEFINE Login(p) ==
                 [Idle EXCEPT !.step = "issue", !.user = u, !.proof = p]
    <3>1. PICK p \in {0, password[u]} : call' = [call EXCEPT ![c] = Login(p)]
      BY <2>1 DEF Authenticate
    <3>2. p \in 0..MaxPasswords
      BY <3>1, PasswordBound DEF IInv, TypeOK
    <3>3. /\ Login(p) \in CallState
          /\ Login(p).step = "issue" /\ Login(p).user \in Users
          /\ Login(p).family = NoFamily
      BY <3>2 DEF Idle, CallState
    <3> HIDE DEF Login
    <3> QED BY <1>2, <3>1, <3>3, CallsStaySound
  <2>2. CASE Abort(c)
    <3>1. Idle \in CallState /\ Idle.step = "idle" /\ Idle.family = NoFamily
      BY PasswordBound DEF Idle, CallState
    <3> QED BY <1>2, <2>2, <3>1, CallsStaySound DEF Abort
  <2>3. ASSUME NEW t \in Tokens,
               \/ ReadRefreshToken(c, t)
               \/ \E u \in Users : ReadLogoutToken(c, u, t)
        PROVE  CallsAreSound'
    <3>1. PICK step \in {"rotate", "reused", "logout"} :
             /\ call' = [call EXCEPT ![c] = WithToken(step, t)]
             /\ step = "logout" => family[t] # NoFamily
      BY <2>3 DEF ReadRefreshToken, ReadLogoutToken
    <3>2. /\ row[t] # "free"
          /\ family[t] # NoFamily => row[family[t]] # "free"
      BY <2>3 DEF ReadRefreshToken, ReadLogoutToken, IInv, FamiliesAreIssued
    <3>3. family[t] # NoFamily =>
             \A s \in Tokens : family[s] = family[t] => owner[s] = owner[t]
      BY DEF IInv, FamilyHasOneOwner
    <3>4. /\ WithToken(step, t) \in CallState
          /\ WithToken(step, t).step = step
          /\ WithToken(step, t).token = t
          /\ WithToken(step, t).user = owner[t]
          /\ WithToken(step, t).family = family[t]
      BY PasswordBound DEF WithToken, CallState, IInv, TypeOK
    <3> QED BY <1>2, <3>1, <3>2, <3>3, <3>4, CallsStaySound
  <2> QED BY <2>1, <2>2, <2>3
<1> QED BY <1>1, <1>2, <1>3, NoIssueStep

(* Revocations mark every usable row of the family they record as dead. *)
LEMMA RevocationPreservesIInv ==
    ASSUME IInv, TypeOK', NEW c \in Calls, RevokeFamily(c) \/ RevokeOnLogout(c)
    PROVE  IInv'
<1> USE DEF IInv, TypeOK
<1>1. call[c] \in CallState
  OBVIOUS
<1>2. NoIssue
  BY DEF NoIssue, RevokeFamily, RevokeOnLogout, UseAll, LiveIn, LogoutTargets
<1>3. CallsAreSound'
  <2>1. Idle \in CallState /\ Idle.step = "idle" /\ Idle.family = NoFamily
    BY PasswordBound DEF Idle, CallState
  <2> QED BY <1>2, <2>1, CallsStaySound DEF RevokeFamily, RevokeOnLogout
<1>4. ASSUME NEW f \in revoked' \ revoked
      PROVE  /\ row[f] # "free"
             /\ \A t \in Tokens : row'[t] = "live" => family[t] # f
  <2>1. f = call[c].family /\ f # NoFamily
    BY <1>4 DEF RevokeFamily, RevokeOnLogout, CallsAreSound
  <2>2. CASE RevokeFamily(c)
    BY <2>1, <2>2 DEF RevokeFamily, UseAll, LiveIn, CallsAreSound
  <2>3. CASE RevokeOnLogout(c)
    BY <2>1, <2>3 DEF RevokeOnLogout, UseAll, LogoutTargets, LiveIn, LiveOf,
                      CallsAreSound
  <2> QED BY <2>2, <2>3
<1>5. account' = account
  BY DEF RevokeFamily, RevokeOnLogout, userVars
<1> HIDE DEF IInv, TypeOK
<1> QED BY <1>2, <1>3, <1>4, <1>5, NoIssueStep

(* What other requests do to the user and its rows. *)
LEMMA UserStepPreservesIInv ==
    ASSUME IInv, TypeOK',
           \/ \E u \in Users : \/ ConfirmPasswordReset(u)
                              \/ ChangePassword(u)
                              \/ DeleteAccount(u)
           \/ \E t \in Tokens : Expire(t)
    PROVE  IInv'
<1> USE DEF IInv, TypeOK, userVars, tokenVars, ghostVars
<1>1. NoIssue
  <2>1. ASSUME NEW u \in Users, DeleteAccount(u) PROVE NoIssue
    BY <2>1, NullsAreNew DEF DeleteAccount, NoIssue, FreeHasNoUser
  <2> QED BY <2>1 DEF ConfirmPasswordReset, ChangePassword, Expire, NoIssue,
                      UseAll, LiveOf
<1>2. call' = call
  BY DEF ConfirmPasswordReset, ChangePassword, DeleteAccount, Expire
<1>3. CallsAreSound'
  BY <1>1, <1>2 DEF CallsAreSound, NoIssue, CallState
<1>4. ASSUME NEW f \in revoked' \ revoked
      PROVE  /\ row[f] # "free"
             /\ \A s \in Tokens : row'[s] = "live" => family[s] # f
  <2>1. PICK u \in Users : ConfirmPasswordReset(u)
    BY <1>4 DEF ChangePassword, DeleteAccount, Expire
  <2>2. PICK s \in LiveOf(u) : f = family[s] /\ f # NoFamily
    BY <1>4, <2>1 DEF ConfirmPasswordReset
  <2>3. row[f] # "free"
    BY <2>2 DEF LiveOf, FamiliesAreIssued
  <2>4. ASSUME NEW r \in Tokens, row'[r] = "live" PROVE family[r] # f
    <3>1. row[r] = "live" /\ r \notin LiveOf(u)
      BY <2>1, <2>4 DEF ConfirmPasswordReset, UseAll
    <3> QED BY <2>2, <3>1 DEF LiveOf, FamilyHasOneOwner
  <2> QED BY <2>3, <2>4
<1>5. \A s \in Tokens : row'[s] = "live" =>
                            account'[owner[s]] = account[owner[s]]
  BY DEF ConfirmPasswordReset, ChangePassword, DeleteAccount, Expire,
         LiveHasUser
<1> HIDE DEF IInv, TypeOK
<1> QED BY <1>1, <1>3, <1>4, <1>5, NoIssueStep

-----------------------------------------------------------------------------
(* A login inserts a token that is the only one of its family. *)
LEMMA IssuePreservesIInv ==
    ASSUME IInv, TypeOK', NEW c \in Calls, IssueSession(c)
    PROVE  IInv'
<1> USE DEF IInv, TypeOK
<1> DEFINE u == call[c].user
<1>1. PICK t \in Tokens :
         /\ CanIssue(c, t)
         /\ CreateRefreshToken(t, u, row)
         /\ family' = [family EXCEPT ![t] = t]
  BY DEF IssueSession
<1>2. u \in Users /\ account[u] = "active" /\ row[t] = "free"
  BY <1>1 DEF CanIssue, IssueSession, CallsAreSound
<1>3. /\ row' = [row EXCEPT ![t] = "live"]
      /\ owner' = [owner EXCEPT ![t] = u]
      /\ call' = [call EXCEPT ![c] = Idle]
      /\ UNCHANGED <<account, revoked>>
  BY <1>1 DEF CreateRefreshToken, IssueSession, userVars
<1>4. \A s \in Tokens : family[s] # t
  BY <1>2, NullsAreNew DEF FamiliesAreIssued
<1>5. FamiliesAreIssued' /\ FamilyHasOneOwner'
  BY <1>1, <1>2, <1>3, <1>4 DEF FamiliesAreIssued, FamilyHasOneOwner
<1>6. RevokedAreIssued' /\ LiveHasUser' /\ FreeHasNoUser'
  BY <1>2, <1>3 DEF RevokedAreIssued, LiveHasUser, FreeHasNoUser
<1>7. OneLiveTokenPerFamily' /\ NoSessionWithoutAccount'
  BY <1>1, <1>2, <1>3, <1>4 DEF OneLiveTokenPerFamily, NoSessionWithoutAccount
<1>8. RevokedFamilyStaysDead'
  BY <1>1, <1>2, <1>3 DEF RevokedFamilyStaysDead, LiveIn, RevokedAreIssued
<1>9. CallsAreSound'
  <2>1. \A d \in Calls : call'[d] = IF d = c THEN Idle ELSE call[d]
    BY <1>3
  <2>2. ASSUME NEW d \in Calls, d # c, call[d].family # NoFamily
        PROVE  call[d].family # t
    BY <1>2, <2>2 DEF CallsAreSound
  <2> QED BY <1>1, <1>2, <1>3, <2>1, <2>2
          DEF CallsAreSound, CallState, Idle
<1> QED BY <1>5, <1>6, <1>7, <1>8, <1>9

(* A rotation marks the presented token, still live, and inserts the next; *)
(* the compare-and-swap is what makes the family it read still valid.      *)
LEMMA RotatePreservesIInv ==
    ASSUME IInv, TypeOK', NEW c \in Calls, RotateToken(c)
    PROVE  IInv'
<1> USE DEF IInv, TypeOK
<1> DEFINE t == call[c].token
           u == call[c].user
<1>1. call' = [call EXCEPT ![c] = Idle] /\ UNCHANGED <<account, revoked>>
  BY DEF RotateToken, userVars
<1>2. CASE UNCHANGED <<row, family, owner>>
  <2>1. NoIssue
    BY <1>2 DEF NoIssue
  <2>2. Idle \in CallState /\ Idle.step = "idle" /\ Idle.family = NoFamily
    BY PasswordBound DEF Idle, CallState
  <2>3. CallsAreSound'
    BY <1>1, <2>1, <2>2, CallsStaySound
  <2> HIDE DEF IInv, TypeOK
  <2> QED BY <1>1, <1>2, <2>1, <2>3, NoIssueStep
<1>3. ASSUME NEW next \in Tokens, NEW f, row[t] = "live", row[next] = "free",
             f = IF call[c].family = NoFamily THEN next ELSE call[c].family,
             CreateRefreshToken(next, u, [row EXCEPT ![t] = "used"]),
             family' = [family EXCEPT ![t] = f, ![next] = f]
      PROVE  IInv'
  <2>1. /\ t \in Tokens /\ t # next
        /\ family[t] = call[c].family
        /\ owner[t] = u /\ u \in Users /\ account[u] = "active"
    BY <1>3 DEF RotateToken, CallsAreSound, LiveHasUser,
                NoSessionWithoutAccount
  <2>2. /\ row' = [row EXCEPT ![t] = "used", ![next] = "live"]
        /\ owner' = [owner EXCEPT ![next] = u]
    BY <1>3, <2>1 DEF CreateRefreshToken
  <2>3. \A s \in Tokens : family[s] # next
    BY <1>3, NullsAreNew DEF FamiliesAreIssued
  <2>4. f \in Tokens /\ (f = next \/ f = family[t])
    BY <1>3, <2>1
  <2>5. \A s \in Tokens : family[s] = f => owner[s] = u
    BY <2>1, <2>3, <2>4, NullsAreNew DEF FamilyHasOneOwner
  <2>6. \A s \in Tokens : family[s] = f /\ row[s] = "live" => s = t
    BY <1>3, <2>1, <2>3, <2>4, NullsAreNew DEF OneLiveTokenPerFamily
  <2>7. f \notin revoked
    BY <1>3, <2>1, <2>4 DEF RevokedFamilyStaysDead, LiveIn, RevokedAreIssued
  <2>8. FamiliesAreIssued'
    BY <1>3, <2>1, <2>2, <2>3, <2>4 DEF FamiliesAreIssued
  <2>9. FamilyHasOneOwner'
    BY <1>3, <2>1, <2>2, <2>3, <2>4, <2>5 DEF FamilyHasOneOwner
  <2>10. RevokedAreIssued' /\ LiveHasUser' /\ FreeHasNoUser'
    BY <1>1, <1>3, <2>1, <2>2 DEF RevokedAreIssued, LiveHasUser, FreeHasNoUser
  <2>11. OneLiveTokenPerFamily'
    BY <1>3, <2>1, <2>2, <2>6 DEF OneLiveTokenPerFamily
  <2>12. NoSessionWithoutAccount'
    BY <1>1, <2>1, <2>2 DEF NoSessionWithoutAccount
  <2>13. RevokedFamilyStaysDead'
    BY <1>1, <1>3, <2>1, <2>2, <2>7 DEF RevokedFamilyStaysDead, LiveIn
  <2>14. CallsAreSound'
    <3>1. \A d \in Calls : call'[d] = IF d = c THEN Idle ELSE call[d]
      BY <1>1
    <3>2. ASSUME NEW d \in Calls, d # c
          PROVE  /\ call[d].family # NoFamily => /\ call[d].family # next
                                                /\ row'[call[d].family] # "free"
                 /\ call[d].step = "rotate" => call[d].token # next
      BY <1>3, <2>1, <2>2, <3>2 DEF CallsAreSound, CallState
    <3>3. ASSUME NEW d \in Calls, d # c, call[d].step = "logout",
                 NEW s \in Tokens, family'[s] = call[d].family
          PROVE  owner'[s] = call[d].user
      <4>1. call[d].family # NoFamily /\ call[d].family # next
        BY <3>2, <3>3 DEF CallsAreSound
      <4>2. CASE s \notin {t, next}
        BY <1>3, <2>2, <3>3, <4>2 DEF CallsAreSound
      <4>3. CASE s \in {t, next}
        <5>1. family'[s] = f
          BY <1>3, <2>1, <4>3
        <5>2. family[t] = call[d].family
          BY <2>4, <3>3, <4>1, <5>1
        <5>3. call[d].user = u
          BY <2>1, <3>3, <5>2 DEF CallsAreSound
        <5> QED BY <2>1, <2>2, <4>3, <5>3
      <4> QED BY <4>2, <4>3
    <3>4. ASSUME NEW d \in Calls, d # c, call[d].step = "rotate"
          PROVE  /\ call[d].token \in Tokens
                 /\ row'[call[d].token] # "free"
                 /\ row'[call[d].token] = "live" =>
                       /\ family'[call[d].token] = call[d].family
                       /\ owner'[call[d].token] = call[d].user
      BY <1>3, <2>1, <2>2, <3>2, <3>4 DEF CallsAreSound
    <3>5. Idle.step = "idle" /\ Idle.family = NoFamily
      BY DEF Idle
    <3>6. \A d \in Calls : d # c /\ call[d].step = "issue" =>
                               call[d].user \in Users
      BY DEF CallsAreSound
    <3>7. \A d \in Calls : d # c /\ call[d].step = "logout" =>
                               call[d].family # NoFamily
      BY DEF CallsAreSound
    <3> HIDE DEF IInv, TypeOK
    <3> QED BY <3>1, <3>2, <3>3, <3>4, <3>5, <3>6, <3>7 DEF CallsAreSound
  <2> QED BY <2>8, <2>9, <2>10, <2>11, <2>12, <2>13, <2>14
<1> QED BY <1>2, <1>3 DEF RotateToken, CanRotate

LEMMA IInvIsInvariant == Spec => []IInv
<1>1. ASSUME IInv, [Next]_vars PROVE IInv'
  <2>1. TypeOK'
    BY <1>1, TypeStep
  <2>2. CASE UNCHANGED vars
    BY <1>1, <2>2 DEF vars, userVars, tokenVars, ghostVars, IInv, TypeOK,
       FamiliesAreIssued, FamilyHasOneOwner, RevokedAreIssued, CallsAreSound,
       LiveHasUser, FreeHasNoUser, OneLiveTokenPerFamily,
       RevokedFamilyStaysDead, LiveIn, NoSessionWithoutAccount
  <2>3. ASSUME NEW c \in Calls, IssueSession(c) PROVE IInv'
    BY <1>1, <2>1, <2>3, IssuePreservesIInv
  <2>4. ASSUME NEW c \in Calls, RotateToken(c) PROVE IInv'
    BY <1>1, <2>1, <2>4, RotatePreservesIInv
  <2>5. ASSUME NEW c \in Calls, RevokeFamily(c) \/ RevokeOnLogout(c)
        PROVE  IInv'
    BY <1>1, <2>1, <2>5, RevocationPreservesIInv
  <2>6. ASSUME NEW c \in Calls,
               \/ \E u \in Users : Authenticate(c, u)
               \/ \E t \in Tokens : ReadRefreshToken(c, t)
               \/ \E u \in Users, t \in Tokens : ReadLogoutToken(c, u, t)
               \/ Abort(c)
        PROVE  IInv'
    BY <1>1, <2>1, <2>6, ReadPreservesIInv
  <2>7. ASSUME \/ \E u \in Users : \/ ConfirmPasswordReset(u)
                                  \/ ChangePassword(u)
                                  \/ DeleteAccount(u)
               \/ \E t \in Tokens : Expire(t)
        PROVE  IInv'
    BY <1>1, <2>1, <2>7, UserStepPreservesIInv
  <2> QED
    BY <1>1, <2>2, <2>3, <2>4, <2>5, <2>6, <2>7 DEF Next
<1> QED BY InitEstablishesIInv, <1>1, PTL DEF Spec

(* Every variable keeps its type. *)
THEOREM TypeCorrect == Spec => []TypeOK
<1>1. IInv => TypeOK
  BY DEF IInv
<1> QED BY <1>1, IInvIsInvariant, PTL

(* Refreshing one token twice at the same time never leaves two usable     *)
(* tokens: the compare-and-swap on usedAt in the rotation transaction.     *)
THEOREM RotationNeverForks == Spec => []OneLiveTokenPerFamily
<1>1. IInv => OneLiveTokenPerFamily
  BY DEF IInv
<1> QED BY <1>1, IInvIsInvariant, PTL

(* A logout, a detected reuse or a password reset ends a family for good,  *)
(* whatever rotation was under way.                                        *)
THEOREM RevocationIsFinal == Spec => []RevokedFamilyStaysDead
<1>1. IInv => RevokedFamilyStaysDead
  BY DEF IInv
<1> QED BY <1>1, IInvIsInvariant, PTL

(* The deletion transaction and the token inserts leave no usable session  *)
(* of a deleted account.                                                   *)
THEOREM SessionsNeedAccounts == Spec => []NoSessionWithoutAccount
<1>1. IInv => NoSessionWithoutAccount
  BY DEF IInv
<1> QED BY <1>1, IInvIsInvariant, PTL

-----------------------------------------------------------------------------
(* A token from before families was not issued by a late login, and a      *)
(* reset uses up those that are live: its successor never inherits one.    *)
LegacyIsFresh == \A t \in Tokens : family[t] = NoFamily => ~Stale(t)

LEMMA LegacyStaysFresh ==
    ASSUME IInv, LegacyIsFresh, [Next]_vars
    PROVE  LegacyIsFresh'
<1> USE DEF IInv, TypeOK
<1> SUFFICES ASSUME NEW t \in Tokens, family'[t] = NoFamily, Stale(t)'
             PROVE  FALSE
  BY DEF LegacyIsFresh
<1>1. CASE UNCHANGED vars
  BY <1>1 DEF vars, userVars, tokenVars, ghostVars, LegacyIsFresh, Stale
<1>2. ASSUME NEW c \in Calls, IssueSession(c) PROVE FALSE
  BY <1>2, NullsAreNew DEF IssueSession, CreateRefreshToken, userVars, LegacyIsFresh, Stale
<1>3. ASSUME NEW c \in Calls, RotateToken(c) PROVE FALSE
  BY <1>3, NullsAreNew
     DEF RotateToken, CanRotate, CreateRefreshToken, userVars, LegacyIsFresh, Stale,
         CallState
<1>4. ASSUME NEW u \in Users, ConfirmPasswordReset(u) PROVE FALSE
  BY <1>4 DEF ConfirmPasswordReset, UseAll, LiveOf, LegacyIsFresh, Stale
<1>5. ASSUME NEW c \in Calls, RevokeFamily(c) \/ RevokeOnLogout(c) PROVE FALSE
  BY <1>5 DEF RevokeFamily, RevokeOnLogout, UseAll, userVars, LegacyIsFresh, Stale
<1>6. ASSUME NEW c \in Calls,
             \/ \E u \in Users : Authenticate(c, u)
             \/ \E s \in Tokens : ReadRefreshToken(c, s)
             \/ \E u \in Users, s \in Tokens : ReadLogoutToken(c, u, s)
             \/ Abort(c)
      PROVE  FALSE
  BY <1>6 DEF Authenticate, ReadRefreshToken, ReadLogoutToken, Abort, tokenVars,
              ghostVars, LegacyIsFresh, Stale
<1>7. ASSUME \/ \E u \in Users : ChangePassword(u) \/ DeleteAccount(u)
             \/ \E s \in Tokens : Expire(s)
      PROVE  FALSE
  BY <1>7 DEF ChangePassword, DeleteAccount, Expire, tokenVars, ghostVars,
              LegacyIsFresh, Stale
<1> QED BY <1>1, <1>2, <1>3, <1>4, <1>5, <1>6, <1>7 DEF Next

(* What one step may do to a token that is not stale. *)
StaleOnlyLate(t) ==
    ~Stale(t) /\ Stale(t)' =>
       \/ \E c \in Calls : row[t] = "free" /\ LateLogin(c, owner'[t])
       \/ \E s \in Tokens : Stale(s) /\ family[s] = family'[t]

LEMMA StepIsOnlyLate ==
    ASSUME IInv, LegacyIsFresh, [Next]_vars, NEW t \in Tokens
    PROVE  StaleOnlyLate(t)
<1> USE DEF IInv, TypeOK
<1> SUFFICES ASSUME ~Stale(t), Stale(t)'
             PROVE  \/ \E c \in Calls : row[t] = "free" /\ LateLogin(c, owner'[t])
                    \/ \E s \in Tokens : Stale(s) /\ family[s] = family'[t]
  BY DEF StaleOnlyLate
<1>1. CASE UNCHANGED vars
  BY <1>1 DEF vars, userVars, tokenVars, ghostVars, Stale
<1>2. ASSUME NEW c \in Calls, IssueSession(c) PROVE row[t] = "free" /\ LateLogin(c, owner'[t])
  <2>1. PICK next \in Tokens : /\ CanIssue(c, next)
                               /\ CreateRefreshToken(next, call[c].user, row)
                               /\ proof' = [proof EXCEPT ![next] = call[c].proof]
    BY <1>2 DEF IssueSession
  <2>2. t = next
    BY <1>2, <2>1 DEF IssueSession, CreateRefreshToken, Stale
  <2>3. /\ call[c].user \in Users
        /\ call[c].proof \in 0..MaxPasswords
    BY <1>2 DEF IssueSession, CallsAreSound, CallState
  <2>4. owner'[t] = call[c].user /\ proof'[t] = call[c].proof
    BY <2>1, <2>2 DEF CreateRefreshToken
  <2>5. call[c].proof # 0 /\ call[c].proof < lastReset[call[c].user]
    BY <1>2, <2>4 DEF IssueSession, Stale
  <2>6. lastReset[call[c].user] \in 0..MaxPasswords
    BY <2>3
  <2>7. call[c].proof \in 1..(lastReset[call[c].user] - 1)
    BY <2>3, <2>5, <2>6, PasswordBound
  <2> QED BY <1>2, <2>1, <2>2, <2>4, <2>7 DEF IssueSession, CanIssue, LateLogin
<1>3. ASSUME NEW c \in Calls, RotateToken(c)
      PROVE  \E s \in Tokens : Stale(s) /\ family[s] = family'[t]
  <2> DEFINE old == call[c].token
  <2>1. /\ old \in Tokens
        /\ row[old] = "live" => family[old] = call[c].family /\ owner[old] = call[c].user
    BY <1>3 DEF RotateToken, CallsAreSound
  <2>2. CASE ~CanRotate(old)
    BY <1>3, <2>2 DEF RotateToken, userVars, Stale
  <2>3. CASE CanRotate(old)
    <3>1. PICK next \in Tokens :
             LET f == IF call[c].family = NoFamily THEN next ELSE call[c].family
             IN  /\ row[next] = "free"
                 /\ CreateRefreshToken(next, call[c].user, [row EXCEPT ![old] = "used"])
                 /\ family' = [family EXCEPT ![old] = f, ![next] = f]
                 /\ proof' = [proof EXCEPT ![next] = proof[old]]
      BY <1>3, <2>3 DEF RotateToken
    <3>2. row[old] = "live"
      BY <2>3 DEF CanRotate
    <3>3. t = next
      BY <1>3, <2>1, <3>1, <3>2 DEF RotateToken, CreateRefreshToken, Stale
    <3>4. /\ proof'[t] = proof[old]
          /\ owner'[t] = owner[old]
      BY <2>1, <3>1, <3>2, <3>3 DEF CreateRefreshToken
    <3>5. Stale(old)
      BY <1>3, <3>2, <3>4 DEF RotateToken, Stale
    <3>6. family[old] # NoFamily
      BY <2>1, <3>5 DEF LegacyIsFresh
    <3>7. family'[t] = family[old]
      BY <2>1, <3>1, <3>2, <3>3, <3>6
    <3> QED BY <2>1, <3>5, <3>7
  <2> QED BY <2>2, <2>3
<1>4. ASSUME NEW u \in Users, ConfirmPasswordReset(u) PROVE FALSE
  BY <1>4 DEF ConfirmPasswordReset, UseAll, LiveOf, LiveHasUser, Stale
<1>5. ASSUME NEW c \in Calls, RevokeFamily(c) \/ RevokeOnLogout(c) PROVE FALSE
  BY <1>5 DEF RevokeFamily, RevokeOnLogout, UseAll, userVars, Stale
<1>6. ASSUME NEW c \in Calls,
             \/ \E u \in Users : Authenticate(c, u)
             \/ \E s \in Tokens : ReadRefreshToken(c, s)
             \/ \E u \in Users, s \in Tokens : ReadLogoutToken(c, u, s)
             \/ Abort(c)
      PROVE  FALSE
  BY <1>6 DEF Authenticate, ReadRefreshToken, ReadLogoutToken, Abort, tokenVars,
              ghostVars, Stale
<1>7. ASSUME \/ \E u \in Users : ChangePassword(u) \/ DeleteAccount(u)
             \/ \E s \in Tokens : Expire(s)
      PROVE  FALSE
  BY <1>7 DEF ChangePassword, DeleteAccount, Expire, tokenVars, ghostVars, Stale
<1> QED BY <1>1, <1>2, <1>3, <1>4, <1>5, <1>6, <1>7 DEF Next

(* A password reset leaves no session of the old password alive, however   *)
(* its transaction crosses logins and rotations, except by a login that    *)
(* had verified that password before.                                      *)
THEOREM ResetsEndSessions == Spec => OnlyLateLoginsOutliveReset
<1>1. Init => LegacyIsFresh
  BY DEF Init, LegacyIsFresh, Stale
<1>2. IInv /\ LegacyIsFresh /\ [Next]_vars => LegacyIsFresh'
  BY LegacyStaysFresh
<1>3. IInv /\ LegacyIsFresh /\ [Next]_vars =>
         [\A t \in Tokens :
            ~Stale(t) /\ Stale(t)' =>
               \/ \E c \in Calls : row[t] = "free" /\ LateLogin(c, owner'[t])
               \/ \E s \in Tokens : Stale(s) /\ family[s] = family'[t]]_vars
  BY StepIsOnlyLate DEF StaleOnlyLate
<1> QED BY <1>1, <1>2, <1>3, IInvIsInvariant, PTL DEF Spec, OnlyLateLoginsOutliveReset
=============================================================================
