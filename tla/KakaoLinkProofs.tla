-------------------------- MODULE KakaoLinkProofs --------------------------
(***************************************************************************)
(* Linking is safe for any numbers of accounts, identities, sessions,      *)
(* codes and concurrent requests: an identity is never replaced, a session *)
(* is completed once, and one that is used up did link its account.        *)
(*                                                                         *)
(* A request holds on to a session (and a code) that it read long ago.     *)
(* CallOK says what still holds of it: rows never return to an earlier     *)
(* state (NothingReturns), so the session was really offered, and a code   *)
(* that proved a request is used up for good.                              *)
(***************************************************************************)
EXTENDS KakaoLink, TLAPS

USE DEF At, Becomes, Finish, Goto

LinkOK(s) ==
    /\ link[s].state = "free" => link[s].user = NoUser
    /\ link[s].state # "free" =>
          /\ link[s].user \in Accounts
          /\ account[link[s].user] # "absent"
          /\ link[s].kakao \in KakaoIds
    /\ link[s].lock = "off" => link[s].count < MaxAttempts
    /\ completions[s] <= 1
    /\ link[s].state \in {"free", "live"} => completions[s] = 0
    /\ link[s].state = "used" => kakaoUserId[link[s].user] = link[s].kakao

LinkSteps == {"recordFailure", "checkRecent", "insertCode", "mail", "retire",
              "dropCode", "findCode", "useCode", "checkIdentity", "complete"}

CallOK(state) ==
    /\ state.step = "createLink" =>
          state.user \in Accounts /\ account[state.user] # "absent"
    /\ state.step \in {"findEmail", "createLink", "createUser"} =>
          state.kakao \in KakaoIds
    /\ state.step \in LinkSteps =>
          state.link \in Links /\ link[state.link].state # "free"
    /\ state.step \in {"mail", "retire", "dropCode", "useCode"} =>
          state.index \in CodeIds
    /\ state.step = "recordFailure" /\ state.lock # "over" =>
          state.count < MaxAttempts
    /\ state.step \in {"checkIdentity", "complete"} /\ state.index # 0 =>
          code[state.link][state.index] \in {"used", "gone"}

IInv ==
    /\ TypeOK
    /\ \A s \in Links : LinkOK(s)
    /\ \A c \in Calls : CallOK(call[c])
    /\ CodeProvesOnce

LEMMA IdleHasType == Idle \in CallState /\ Free \in LinkState
BY LimitsAreNat DEF Idle, Free, CallState, LinkState, Locks

LEMMA InitEstablishesIInv == Init => IInv
<1> SUFFICES ASSUME Init PROVE IInv
  OBVIOUS
<1>1. TypeOK
  BY IdleHasType DEF Init, TypeOK
<1>2. \A s \in Links : LinkOK(s)
  BY LimitsAreNat DEF Init, LinkOK, Free
<1>3. (\A c \in Calls : CallOK(call[c])) /\ CodeProvesOnce
  BY DEF Init, Idle, CallOK, LinkSteps, CodeProvesOnce, Proven
<1> QED BY <1>1, <1>2, <1>3 DEF IInv

-----------------------------------------------------------------------------
(* The rows: their types, and that none returns to an earlier state.       *)
RowsHaveType ==
    /\ account \in [Accounts -> {"absent", "active", "deleted"}]
    /\ local \in SUBSET Accounts
    /\ kakaoUserId \in [Accounts -> KakaoIds \cup {NoKakao}]
    /\ link \in [Links -> LinkState]
    /\ code \in [Links -> [CodeIds -> {"none", "unused", "used", "gone"}]]
    /\ completions \in [Links -> Nat]

NothingReturns ==
    /\ \A a \in Accounts : account[a] # "absent" => account'[a] # "absent"
    /\ \A s \in Links : link[s].state # "free" => link'[s].state # "free"
    /\ \A s \in Links, i \in CodeIds :
          code[s][i] \in {"used", "gone"} => code'[s][i] \in {"used", "gone"}

rows == <<userVars, link, code, completions>>

LEMMA RetireAllHasType ==
    ASSUME RowsHaveType, NEW s \in Links, NEW kept
    PROVE  /\ RetireAll(s, kept) \in
                 [Links -> [CodeIds -> {"none", "unused", "used", "gone"}]]
           /\ \A t \in Links, i \in CodeIds :
                 code[t][i] \in {"used", "gone"} =>
                     RetireAll(s, kept)[t][i] \in {"used", "gone"}
  BY DEF RowsHaveType, RetireAll

LEMMA OneCodeMoves ==
    ASSUME RowsHaveType, NEW s \in Links, NEW i \in CodeIds,
           NEW v \in {"unused", "used", "gone"},
           v = "unused" => code[s][i] = "none",
           code' = [code EXCEPT ![s][i] = v]
    PROVE  /\ code' \in [Links -> [CodeIds -> {"none", "unused", "used", "gone"}]]
           /\ \A t \in Links, j \in CodeIds :
                 code[t][j] \in {"used", "gone"} => code'[t][j] \in {"used", "gone"}
<1> HIDE DEF CodeIds
<1>1. /\ code[s] \in [CodeIds -> {"none", "unused", "used", "gone"}]
      /\ code \in [Links -> [CodeIds -> {"none", "unused", "used", "gone"}]]
  BY DEF RowsHaveType
<1> DEFINE new == [code[s] EXCEPT ![i] = v]
<1>2. /\ new \in [CodeIds -> {"none", "unused", "used", "gone"}]
      /\ \A j \in CodeIds :
            code[s][j] \in {"used", "gone"} => new[j] \in {"used", "gone"}
  BY <1>1
<1>3. code' = [code EXCEPT ![s] = new]
  BY <1>1
<1> HIDE DEF new
<1> QED BY <1>1, <1>2, <1>3

LEMMA RowsStep ==
    ASSUME IInv, [Next]_vars
    PROVE  RowsHaveType' /\ NothingReturns
<1>0. RowsHaveType
  BY DEF IInv, TypeOK, RowsHaveType
<1> USE DEF RowsHaveType, NothingReturns, userVars
<1>1. CASE UNCHANGED rows
  BY <1>0, <1>1 DEF rows
<1>2. ASSUME NEW a \in Accounts, SignUp(a) \/ Withdraw(a)
      PROVE  RowsHaveType' /\ NothingReturns
  <2>1. CASE SignUp(a)
    BY <1>0, <2>1 DEF SignUp
  <2>2. CASE Withdraw(a)
    <3>1. \A s \in Links : [link[s] EXCEPT !.state = "gone"] \in LinkState
      BY <1>0 DEF LinkState
    <3> QED BY <1>0, <2>2, <3>1 DEF Withdraw, Active
  <2> QED BY <1>2, <2>1, <2>2
<1>3. ASSUME NEW c \in Calls, CreateLink(c) \/ CreateUser(c)
      PROVE  RowsHaveType' /\ NothingReturns
  <2>0. CallOK(call[c])
    BY DEF IInv
  <2>1. CASE CreateLink(c)
    <3>1. PICK s \in Links :
             /\ link[s].state = "free"
             /\ link' = IF Active(call[c].user)
                        THEN [link EXCEPT ![s] = [Free EXCEPT
                                  !.state = "live", !.user = call[c].user,
                                  !.kakao = call[c].kakao]]
                        ELSE link
      BY <2>1 DEF CreateLink
    <3>2. [Free EXCEPT !.state = "live", !.user = call[c].user,
                       !.kakao = call[c].kakao] \in LinkState
      <4>1. call[c].user \in Accounts /\ call[c].kakao \in KakaoIds
        BY <2>0, <2>1 DEF CreateLink, CallOK
      <4> QED BY <4>1, IdleHasType DEF LinkState
    <3> QED BY <1>0, <2>1, <3>1, <3>2 DEF CreateLink, Free
  <2>2. CASE CreateUser(c)
    <3>1. call[c].kakao \in KakaoIds
      BY <2>0, <2>2 DEF CreateUser, CallOK
    <3> QED BY <1>0, <2>2, <3>1 DEF CreateUser
  <2> QED BY <1>3, <2>1, <2>2
<1>4. ASSUME NEW c \in Calls,
             RecordFailure(c) \/ InsertCode(c) \/ RetireOthers(c)
             \/ DropCode(c) \/ UseCode(c) \/ Complete(c)
      PROVE  RowsHaveType' /\ NothingReturns
  <2>0. /\ call[c].link \in Links
        /\ link[call[c].link].state # "free"
        /\ call[c].step \in {"mail", "retire", "dropCode", "useCode"} =>
              call[c].index \in CodeIds
        /\ call[c].count \in 0..MaxAttempts
        /\ call[c].step = "recordFailure" /\ call[c].lock # "over" =>
              call[c].count < MaxAttempts
    BY <1>4 DEF IInv, TypeOK, CallState, CallOK, LinkSteps, RecordFailure,
                InsertCode, RetireOthers, DropCode, UseCode, Complete
  <2>1. CASE RecordFailure(c)
    <3>1. NextAttempts(c) \in 0..MaxAttempts
      BY <2>0, <2>1, LimitsAreNat DEF RecordFailure, NextAttempts
    <3> DEFINE s == call[c].link
               lock == IF NextAttempts(c) >= MaxAttempts THEN "on" ELSE "off"
               row == [link[s] EXCEPT !.count = NextAttempts(c), !.lock = lock]
    <3>2. s \in Links /\ link[s] \in LinkState
      BY <1>0, <2>0
    <3>3. row \in LinkState /\ row.state = link[s].state
      BY <3>1, <3>2 DEF LinkState, Locks
    <3>4. link' = link \/ link' = [link EXCEPT ![s] = row]
      BY <1>0, <3>2, <2>1 DEF RecordFailure
    <3>5. link' \in [Links -> LinkState]
          /\ \A t \in Links : link'[t].state = link[t].state
      <4> HIDE DEF s, row
      <4> QED BY <1>0, <3>2, <3>3, <3>4
    <3> QED BY <1>0, <2>1, <3>5 DEF RecordFailure
  <2>2. CASE InsertCode(c)
    <3>1. \/ code' = code
          \/ \E i \in CodeIds :
                /\ code[call[c].link][i] = "none"
                /\ code' = [code EXCEPT ![call[c].link][i] = "unused"]
      BY <2>2 DEF InsertCode
    <3>2. CASE code' = code
      BY <1>0, <2>2, <3>2 DEF InsertCode
    <3>3. ASSUME NEW i \in CodeIds, code[call[c].link][i] = "none",
                 code' = [code EXCEPT ![call[c].link][i] = "unused"]
          PROVE  RowsHaveType' /\ NothingReturns
      <4>1. RowsHaveType
        BY <1>0
      <4>2. /\ code' \in [Links -> [CodeIds -> {"none", "unused", "used", "gone"}]]
            /\ \A t \in Links, j \in CodeIds :
                  code[t][j] \in {"used", "gone"} => code'[t][j] \in {"used", "gone"}
        BY <4>1, <2>0, <3>3, OneCodeMoves
      <4> QED BY <1>0, <2>2, <4>2 DEF InsertCode
    <3> QED BY <3>1, <3>2, <3>3
  <2>3. CASE RetireOthers(c)
    BY <1>0, <2>0, <2>3, RetireAllHasType DEF RetireOthers
  <2>4. CASE DropCode(c)
    BY <1>0, <2>0, <2>4 DEF DropCode
  <2>5. CASE UseCode(c)
    <3>1. \/ code' = code
          \/ /\ call[c].index \in CodeIds
             /\ code' = [code EXCEPT ![call[c].link][call[c].index] = "used"]
      BY <2>0, <2>5 DEF UseCode
    <3>2. code' \in [Links -> [CodeIds -> {"none", "unused", "used", "gone"}]]
          /\ \A t \in Links, i \in CodeIds :
                code[t][i] \in {"used", "gone"} => code'[t][i] \in {"used", "gone"}
      <4>1. RowsHaveType
        BY <1>0
      <4> QED BY <4>1, <1>0, <2>0, <3>1, OneCodeMoves
    <3> QED BY <1>0, <2>5, <3>2 DEF UseCode
  <2>6. CASE Complete(c)
    <3>1. CASE Completable(call[c].link)
      <4>1. /\ [link[call[c].link] EXCEPT !.state = "used"] \in LinkState
            /\ [link[call[c].link] EXCEPT !.state = "used"].state = "used"
        <5>1. link[call[c].link] \in LinkState
          BY <1>0, <2>0
        <5> QED BY <5>1 DEF LinkState
      <4>2. link[call[c].link].kakao \in KakaoIds \cup {NoKakao}
        BY <1>0, <2>0 DEF LinkState
      <4>3. /\ link' = [link EXCEPT ![call[c].link].state = "used"]
            /\ kakaoUserId' = [kakaoUserId EXCEPT ![link[call[c].link].user] =
                                  link[call[c].link].kakao]
            /\ code' = RetireAll(call[c].link, 0)
            /\ completions' = [completions EXCEPT ![call[c].link] = @ + 1]
            /\ UNCHANGED <<account, local>>
        BY <2>6, <3>1 DEF Complete
      <4>4. /\ code' \in [Links -> [CodeIds -> {"none", "unused", "used", "gone"}]]
            /\ \A t \in Links, i \in CodeIds :
                  code[t][i] \in {"used", "gone"} => code'[t][i] \in {"used", "gone"}
        BY <1>0, <2>0, <4>3, RetireAllHasType
      <4>5. /\ link' \in [Links -> LinkState]
            /\ \A t \in Links : link'[t].state \in {link[t].state, "used"}
        BY <1>0, <2>0, <4>1, <4>3
      <4>6. /\ kakaoUserId' \in [Accounts -> KakaoIds \cup {NoKakao}]
            /\ completions' \in [Links -> Nat]
        <5>1. \A n \in Nat : n + 1 \in Nat
          OBVIOUS
        <5>2. completions[call[c].link] + 1 \in Nat
          BY <1>0, <2>0, <5>1
        <5>3. kakaoUserId' \in [Accounts -> KakaoIds \cup {NoKakao}]
          BY <1>0, <4>2, <4>3, Zenon
        <5> QED BY <1>0, <4>3, <5>2, <5>3
      <4> QED BY <1>0, <4>3, <4>4, <4>5, <4>6
    <3>2. CASE ~Completable(call[c].link)
      BY <1>0, <2>6, <3>2 DEF Complete, AfterRefusal
    <3> QED BY <3>1, <3>2
  <2> QED BY <1>4, <2>1, <2>2, <2>3, <2>4, <2>5, <2>6
<1>5. ASSUME NEW s \in Links, LockRunsOut(s)
      PROVE  RowsHaveType' /\ NothingReturns
  <2>1. [link[s] EXCEPT !.lock = "over"] \in LinkState
    BY <1>0 DEF LinkState, Locks
  <2> QED BY <1>0, <1>5, <2>1 DEF LockRunsOut, LinkState
<1>6. \/ UNCHANGED rows
      \/ \E a \in Accounts : SignUp(a) \/ Withdraw(a)
      \/ \E c \in Calls : CreateLink(c) \/ CreateUser(c)
      \/ \E c \in Calls : RecordFailure(c) \/ InsertCode(c) \/ RetireOthers(c)
                          \/ DropCode(c) \/ UseCode(c) \/ Complete(c)
      \/ \E s \in Links : LockRunsOut(s)
  BY DEF Next, Environment, Login, Prove, vars, rows, FindMember, FindEmail,
         TryPassword, RequestCode, TryCode, CheckRecent, Mail, FindCode,
         CheckIdentity, Abort
<1> QED BY <1>1, <1>2, <1>3, <1>4, <1>5, <1>6

-----------------------------------------------------------------------------
(* What is known of each session survives every step. *)
LEMMA LinksStep ==
    ASSUME IInv, [Next]_vars
    PROVE  \A s \in Links : LinkOK(s)'
<1> SUFFICES ASSUME NEW s \in Links PROVE LinkOK(s)'
  OBVIOUS
<1>0. /\ LinkOK(s) /\ RowsHaveType /\ RowsHaveType' /\ NothingReturns
      /\ link[s] \in LinkState /\ completions[s] \in Nat
  BY RowsStep DEF IInv, TypeOK, RowsHaveType
<1>1. CASE UNCHANGED rows
  BY <1>0, <1>1 DEF LinkOK, rows, userVars
<1>2. ASSUME NEW a \in Accounts, SignUp(a) PROVE LinkOK(s)'
  BY <1>0, <1>2 DEF SignUp, LinkOK, RowsHaveType
<1>3. ASSUME NEW a \in Accounts, Withdraw(a) PROVE LinkOK(s)'
  <2>1. /\ link'[s].user = link[s].user /\ link'[s].kakao = link[s].kakao
        /\ link'[s].count = link[s].count /\ link'[s].lock = link[s].lock
        /\ link'[s].state \in {link[s].state, "gone"}
        /\ link'[s].state = "free" => link[s].state = "free"
        /\ link[s].state = "free" => link'[s].state = "free"
    BY <1>0, <1>3, NullsAreNew DEF Withdraw, LinkState, LinkOK, Active
  <2>2. UNCHANGED <<kakaoUserId, completions>>
    BY <1>3 DEF Withdraw
  <2> QED BY <1>0, <2>1, <2>2 DEF LinkOK, RowsHaveType, NothingReturns, LinkState
<1>4. ASSUME NEW c \in Calls, CreateLink(c) PROVE LinkOK(s)'
  <2>1. /\ call[c].user \in Accounts /\ account[call[c].user] # "absent"
        /\ call[c].kakao \in KakaoIds
    BY <1>4 DEF IInv, CallOK, CreateLink
  <2>2. PICK t \in Links :
           /\ link[t].state = "free"
           /\ link' = IF Active(call[c].user)
                      THEN [link EXCEPT ![t] = [Free EXCEPT
                                !.state = "live", !.user = call[c].user,
                                !.kakao = call[c].kakao]]
                      ELSE link
    BY <1>4 DEF CreateLink
  <2>3. UNCHANGED <<userVars, completions>>
    BY <1>4 DEF CreateLink
  <2>4. CASE s = t /\ Active(call[c].user)
    <3>1. /\ link'[s].state = "live" /\ link'[s].user = call[c].user
          /\ link'[s].kakao = call[c].kakao
          /\ link'[s].count = 0 /\ link'[s].lock = "off"
      <4> DEFINE row == [Free EXCEPT !.state = "live", !.user = call[c].user,
                                     !.kakao = call[c].kakao]
      <4>1. link'[s] = row
        BY <1>0, <2>2, <2>4 DEF RowsHaveType
      <4>2. /\ row.state = "live" /\ row.user = call[c].user
            /\ row.kakao = call[c].kakao /\ row.count = 0 /\ row.lock = "off"
        BY DEF Free
      <4> QED BY <4>1, <4>2
    <3>2. completions'[s] = 0 /\ account' = account /\ 0 < MaxAttempts
      BY <1>0, <2>2, <2>3, <2>4, LimitsAreNat DEF LinkOK, userVars
    <3> QED BY <2>1, <3>1, <3>2 DEF LinkOK
  <2>5. CASE ~(s = t /\ Active(call[c].user))
    <3>1. link'[s] = link[s]
      BY <1>0, <2>2, <2>5 DEF RowsHaveType
    <3> QED BY <1>0, <2>3, <3>1 DEF LinkOK, userVars
  <2> QED BY <2>4, <2>5
<1>5. ASSUME NEW c \in Calls, CreateUser(c) PROVE LinkOK(s)'
  <2>1. \A a \in Accounts : account[a] # "absent" =>
            account'[a] # "absent" /\ kakaoUserId'[a] = kakaoUserId[a]
    BY <1>0, <1>5 DEF CreateUser, RowsHaveType
  <2> QED BY <1>0, <1>5, <2>1 DEF CreateUser, LinkOK
<1>6. ASSUME NEW c \in Calls, RecordFailure(c) PROVE LinkOK(s)'
  <2>1. /\ call[c].link \in Links
        /\ NextAttempts(c) \in Nat
    BY <1>6, LimitsAreNat DEF IInv, TypeOK, CallState, CallOK, LinkSteps, RecordFailure,
                 NextAttempts
  <2>2. /\ link'[s].user = link[s].user /\ link'[s].kakao = link[s].kakao
        /\ link'[s].state = link[s].state
        /\ \/ link'[s].count = link[s].count /\ link'[s].lock = link[s].lock
           \/ /\ link'[s].count = NextAttempts(c)
              /\ link'[s].lock = IF NextAttempts(c) >= MaxAttempts
                                 THEN "on" ELSE "off"
    BY <1>0, <1>6, <2>1 DEF RecordFailure, RowsHaveType, LinkState
  <2>3. link'[s].lock = "off" => link'[s].count < MaxAttempts
    BY <1>0, <2>1, <2>2, LimitsAreNat DEF LinkOK
  <2> QED BY <1>0, <1>6, <2>2, <2>3 DEF LinkOK, RecordFailure, userVars
<1>7. ASSUME NEW c \in Calls,
             InsertCode(c) \/ RetireOthers(c) \/ DropCode(c) \/ UseCode(c)
      PROVE  LinkOK(s)'
  BY <1>0, <1>7 DEF InsertCode, RetireOthers, DropCode, UseCode, LinkOK,
                    userVars
<1>8. ASSUME NEW c \in Calls, Complete(c) PROVE LinkOK(s)'
  <2> DEFINE t == call[c].link
  <2>1. t \in Links /\ LinkOK(t)
    BY <1>8 DEF IInv, CallOK, LinkSteps, Complete
  <2>2. CASE ~Completable(t)
    BY <1>0, <1>8, <2>2 DEF Complete, AfterRefusal, LinkOK
  <2>3. CASE Completable(t)
    <3>1. /\ link' = [link EXCEPT ![t].state = "used"]
          /\ kakaoUserId' = [kakaoUserId EXCEPT ![link[t].user] =
                                link[t].kakao]
          /\ completions' = [completions EXCEPT ![t] = @ + 1]
          /\ UNCHANGED <<account, local>>
      BY <1>8, <2>3 DEF Complete
    <3>2. /\ link[t].state = "live" /\ completions[t] = 0
          /\ link[t].user \in Accounts /\ link[t].kakao \in KakaoIds
          /\ kakaoUserId[link[t].user] \in {NoKakao, link[t].kakao}
      BY <2>1, <2>3 DEF Completable, LinkOK
    <3>3. kakaoUserId'[link[t].user] = link[t].kakao
      BY <1>0, <3>1, <3>2 DEF RowsHaveType
    <3>4. \A a \in Accounts : a # link[t].user =>
              kakaoUserId'[a] = kakaoUserId[a]
      BY <1>0, <3>1, <3>2 DEF RowsHaveType
    <3>5. CASE s = t
      <4>1. /\ link'[s] = [link[s] EXCEPT !.state = "used"]
            /\ completions'[s] = 1
        BY <1>0, <3>1, <3>2, <3>5, <2>1 DEF RowsHaveType
      <4>2. /\ link'[s].user = link[s].user /\ link'[s].kakao = link[s].kakao
            /\ link'[s].count = link[s].count /\ link'[s].lock = link[s].lock
            /\ link'[s].state = "used"
        BY <1>0, <4>1 DEF LinkState
      <4> QED BY <1>0, <3>1, <3>2, <3>3, <3>5, <4>1, <4>2 DEF LinkOK
    <3>6. CASE s # t
      <4>1. link'[s] = link[s] /\ completions'[s] = completions[s]
        BY <1>0, <3>1, <3>6, <2>1 DEF RowsHaveType
      <4>2. link[s].state = "used" /\ link[s].user = link[t].user =>
                link[s].kakao = link[t].kakao
        BY <1>0, <3>2, NullsAreNew DEF LinkOK
      <4>3. link[s].state = "used" =>
                kakaoUserId'[link[s].user] = link[s].kakao
        BY <1>0, <3>3, <3>4, <4>2 DEF LinkOK
      <4>4. account' = account
        BY <3>1
      <4> QED BY <1>0, <4>1, <4>3, <4>4 DEF LinkOK
    <3> QED BY <3>5, <3>6
  <2> QED BY <2>2, <2>3
<1>9. ASSUME NEW t \in Links, LockRunsOut(t) PROVE LinkOK(s)'
  <2>1. /\ link'[s].user = link[s].user /\ link'[s].kakao = link[s].kakao
        /\ link'[s].count = link[s].count
        /\ link'[s].lock \in {link[s].lock, "over"}
        /\ link'[s].state = link[s].state
    BY <1>0, <1>9 DEF LockRunsOut, RowsHaveType, LinkState
  <2> QED BY <1>0, <1>9, <2>1 DEF LockRunsOut, LinkOK, userVars
<1>10. \/ UNCHANGED rows
       \/ \E a \in Accounts : SignUp(a) \/ Withdraw(a)
       \/ \E c \in Calls :
             \/ CreateLink(c) \/ CreateUser(c) \/ RecordFailure(c)
             \/ InsertCode(c) \/ RetireOthers(c) \/ DropCode(c) \/ UseCode(c)
             \/ Complete(c)
       \/ \E t \in Links : LockRunsOut(t)
  BY DEF Next, Environment, Login, Prove, vars, rows, FindMember, FindEmail,
         TryPassword, RequestCode, TryCode, CheckRecent, Mail, FindCode,
         CheckIdentity, Abort
<1> QED BY <1>1, <1>2, <1>3, <1>4, <1>5, <1>6, <1>7, <1>8, <1>9, <1>10

-----------------------------------------------------------------------------
(* What is known of a call stays true while others move the rows. *)
LEMMA CallStays ==
    ASSUME IInv, [Next]_vars, NEW state \in CallState, CallOK(state)
    PROVE  CallOK(state)'
<1>1. NothingReturns
  BY RowsStep
<1>2. state.index \in 0..MaxCodes
  BY DEF CallState
<1>3. state.step \in {"checkIdentity", "complete"} /\ state.index # 0 =>
          /\ state.link \in Links /\ state.index \in CodeIds
          /\ code[state.link][state.index] \in {"used", "gone"}
  BY <1>2, LimitsAreNat DEF CallOK, LinkSteps, CodeIds
<1> QED BY <1>1, <1>3 DEF NothingReturns, CallOK, LinkSteps

(* One call moves, to a state that is right.  It does not hold a code that *)
(* another call was proved by.                                             *)
LEMMA CallMoves ==
    ASSUME IInv, [Next]_vars, NEW c \in Calls, NEW state \in CallState,
           call' = [call EXCEPT ![c] = state], CallOK(state)',
           state.step \in {"checkIdentity", "complete"} /\ state.index # 0 =>
               \A d \in Calls \ {c} :
                   ~(/\ Proven(d) /\ call[d].link = state.link
                     /\ call[d].index = state.index)
    PROVE  /\ call' \in [Calls -> CallState]
           /\ (\A d \in Calls : CallOK(call[d]))'
           /\ CodeProvesOnce'
<1>1. call \in [Calls -> CallState] /\ \A d \in Calls : CallOK(call[d])
  BY DEF IInv, TypeOK
<1>2. /\ call'[c] = state
      /\ \A d \in Calls \ {c} : call'[d] = call[d]
  BY <1>1
<1>3. \A d \in Calls : CallOK(call[d])'
  <2> SUFFICES ASSUME NEW d \in Calls PROVE CallOK(call[d])'
    OBVIOUS
  <2>1. CASE d = c
    BY <1>2, <2>1 DEF CallOK
  <2>2. CASE d # c
    <3>1. CallOK(call[d]) /\ call[d] \in CallState /\ call'[d] = call[d]
      BY <1>1, <1>2, <2>2
    <3> DEFINE old == call[d]
    <3>2. \A e \in CallState : CallOK(e) => CallOK(e)'
      BY CallStays
    <3> QED BY <3>1, <3>2 DEF CallOK
  <2> QED BY <2>1, <2>2
<1>4. CodeProvesOnce'
  BY <1>2 DEF IInv, CodeProvesOnce, Proven
<1> QED BY <1>1, <1>3, <1>4

(* The same for a call whose next step is right already before the step,   *)
(* and which comes to hold no code.                                        *)
LEMMA CallReads ==
    ASSUME IInv, [Next]_vars, NEW c \in Calls, NEW state \in CallState,
           call' = [call EXCEPT ![c] = state], CallOK(state),
           state.step \in {"checkIdentity", "complete"} /\ state.index # 0 =>
               /\ Proven(c)
               /\ call[c].link = state.link
               /\ call[c].index = state.index
    PROVE  /\ call' \in [Calls -> CallState]
           /\ (\A d \in Calls : CallOK(call[d]))'
           /\ CodeProvesOnce'
<1>1. CallOK(state)'
  BY CallStays
<1>2. state.step \in {"checkIdentity", "complete"} /\ state.index # 0 =>
          \A d \in Calls \ {c} :
              ~(/\ Proven(d) /\ call[d].link = state.link
                /\ call[d].index = state.index)
  BY DEF IInv, CodeProvesOnce
<1> QED BY <1>1, <1>2, CallMoves

LEMMA CallsStep ==
    ASSUME IInv, [Next]_vars
    PROVE  /\ call' \in [Calls -> CallState]
           /\ (\A c \in Calls : CallOK(call[c]))'
           /\ CodeProvesOnce'
<1> DEFINE Kept == /\ call' \in [Calls -> CallState]
                   /\ (\A c \in Calls : CallOK(call[c]))'
                   /\ CodeProvesOnce'
<1>0. /\ call \in [Calls -> CallState] /\ \A c \in Calls : CallOK(call[c])
      /\ \A s \in Links : link[s] \in LinkState /\ LinkOK(s)
  BY DEF IInv, TypeOK
<1>r. ASSUME NEW c \in Calls, NEW state \in CallState,
             call' = [call EXCEPT ![c] = state], CallOK(state),
             state.step \in {"checkIdentity", "complete"} /\ state.index # 0 =>
                 /\ Proven(c)
                 /\ call[c].link = state.link
                 /\ call[c].index = state.index
      PROVE  Kept
  BY <1>r, CallReads
<1>i. /\ Idle \in CallState
      /\ Idle = [step |-> "idle", kakao |-> NoKakao, user |-> NoUser,
                 link |-> NoLink, index |-> 0, count |-> 0, lock |-> "off"]
  BY IdleHasType DEF Idle
<1>1. CASE UNCHANGED call
  <2>1. \A e \in CallState : CallOK(e) => CallOK(e)'
    BY CallStays
  <2> QED BY <1>0, <1>1, <2>1 DEF IInv, CodeProvesOnce, Proven, CallOK
<1>2. ASSUME NEW c \in Calls, Finish(c) PROVE Kept
  <2>1. CallOK(Idle)
    BY <1>i DEF CallOK, LinkSteps
  <2> HIDE DEF Kept
  <2> QED BY <1>2, <1>i, <2>1, <1>r
<1> HIDE DEF Kept
(* The steps that only move on to the next one. *)
<1>3. ASSUME NEW c \in Calls, NEW step,
             \/ step = "createUser" /\ At(c, "findEmail")
             \/ step = "insertCode" /\ At(c, "checkRecent")
             \/ step \in {"retire", "dropCode"} /\ At(c, "mail")
             \/ step = "complete" /\ At(c, "checkIdentity"),
             Goto(c, step)
      PROVE  Kept
  <2> DEFINE state == [call[c] EXCEPT !.step = step]
  <2>0. call[c] \in CallState /\ CallOK(call[c])
    BY <1>0
  <2>1. /\ state \in CallState /\ state.step = step
        /\ state.kakao = call[c].kakao /\ state.user = call[c].user
        /\ state.link = call[c].link /\ state.index = call[c].index
        /\ state.count = call[c].count /\ state.lock = call[c].lock
    BY <1>3, <2>0 DEF CallState
  <2>2. call' = [call EXCEPT ![c] = state]
    BY <1>3
  <2> HIDE DEF state
  <2>3. CallOK(state)
    BY <1>3, <2>0, <2>1 DEF CallOK, LinkSteps
  <2>4. step = "complete" => Proven(c)
    BY <1>3 DEF Proven
  <2> QED BY <1>r, <1>3, <2>1, <2>2, <2>3, <2>4
(* The steps that begin with a session that is live. *)
<1>4. ASSUME NEW c \in Calls, NEW s \in Links, Open(s),
             NEW step \in {"checkIdentity", "checkRecent", "findCode"},
             Reads(c, s, step)
      PROVE  Kept
  <2> DEFINE state == [Idle EXCEPT !.step = step, !.link = s]
  <2>1. /\ state \in CallState /\ state.step = step
        /\ state.link = s /\ state.index = 0
    BY <1>i DEF CallState
  <2>2. call' = [call EXCEPT ![c] = state]
    BY <1>4 DEF Reads
  <2> HIDE DEF state
  <2>3. CallOK(state)
    BY <1>4, <2>1 DEF CallOK, LinkSteps, Open
  <2> QED BY <1>r, <2>1, <2>2, <2>3
<1>5. ASSUME NEW c \in Calls, NEW k \in KakaoIds, FindMember(c, k) PROVE Kept
  <2> DEFINE state == [Idle EXCEPT !.step = "findEmail", !.kakao = k]
  <2>1. state \in CallState /\ state.step = "findEmail" /\ state.kakao = k
    BY <1>i DEF CallState
  <2>2. call' = [call EXCEPT ![c] = state]
    BY <1>5 DEF FindMember
  <2> HIDE DEF state
  <2>3. CallOK(state)
    BY <2>1 DEF CallOK, LinkSteps
  <2> QED BY <1>r, <2>1, <2>2, <2>3
<1>6. ASSUME NEW c \in Calls, FindEmail(c) PROVE Kept
  <2>1. ASSUME NEW a \in Accounts, Active(a),
               call' = [call EXCEPT ![c] = [call[c] EXCEPT
                            !.step = "createLink", !.user = a]]
        PROVE  Kept
    <3> DEFINE state == [call[c] EXCEPT !.step = "createLink", !.user = a]
    <3>0. /\ call[c] \in CallState /\ CallOK(call[c])
          /\ call[c].step = "findEmail"
      BY <1>0, <1>6 DEF FindEmail
    <3>1. /\ state \in CallState /\ state.step = "createLink"
          /\ state.user = a /\ state.kakao = call[c].kakao
      BY <3>0 DEF CallState
    <3>2. call' = [call EXCEPT ![c] = state]
      BY <2>1
    <3> HIDE DEF state
    <3>3. CallOK(state)
      BY <2>1, <3>0, <3>1 DEF CallOK, LinkSteps, Active
    <3> QED BY <1>r, <3>1, <3>2, <3>3
  <2>2. \/ Goto(c, "createUser") /\ At(c, "findEmail")
        \/ Finish(c)
        \/ \E a \in Accounts :
              /\ Active(a)
              /\ call' = [call EXCEPT ![c] = [call[c] EXCEPT
                              !.step = "createLink", !.user = a]]
    BY <1>6 DEF FindEmail
  <2> QED BY <2>1, <2>2, <1>2, <1>3
<1>7. ASSUME NEW c \in Calls, NEW s \in Links, TryPassword(c, s) PROVE Kept
  <2> DEFINE state == [Idle EXCEPT !.step = "recordFailure", !.link = s,
                                   !.count = link[s].count,
                                   !.lock = link[s].lock]
  <2>0. link[s] \in LinkState /\ LinkOK(s) /\ link[s].lock # "on" /\ Open(s)
    BY <1>0, <1>7 DEF TryPassword
  <2>1. /\ state \in CallState /\ state.step = "recordFailure"
        /\ state.link = s /\ state.index = 0
        /\ state.count = link[s].count /\ state.lock = link[s].lock
    <3>1. link[s].count \in 0..MaxAttempts /\ link[s].lock \in Locks
      BY <2>0 DEF LinkState
    <3> QED BY <1>i, <3>1 DEF CallState
  <2>2. CASE call' = [call EXCEPT ![c] = state]
    <3> HIDE DEF state
    <3>1. link[s].lock \in Locks
      BY <2>0 DEF LinkState
    <3>2. CallOK(state)
      BY <2>0, <2>1, <3>1 DEF CallOK, LinkSteps, Open, LinkOK, Locks
    <3> QED BY <1>r, <2>1, <2>2, <3>2
  <2>3. CASE Reads(c, s, "checkIdentity")
    BY <2>0, <2>3, <1>4
  <2> QED BY <1>7, <2>2, <2>3 DEF TryPassword
(* A call that has found or created the row of a code. *)
<1>8. ASSUME NEW c \in Calls, NEW i \in CodeIds,
             NEW step \in {"mail", "useCode"},
             call[c].step \in {"insertCode", "findCode"},
             call' = [call EXCEPT ![c] = [call[c] EXCEPT !.step = step,
                                                         !.index = i]]
      PROVE  Kept
  <2> DEFINE state == [call[c] EXCEPT !.step = step, !.index = i]
  <2>0. call[c] \in CallState /\ CallOK(call[c]) /\ i \in 0..MaxCodes
    BY <1>0, LimitsAreNat DEF CodeIds
  <2>1. /\ state \in CallState /\ state.step = step
        /\ state.link = call[c].link /\ state.index = i
    BY <2>0 DEF CallState
  <2>2. call' = [call EXCEPT ![c] = state]
    BY <1>8
  <2> HIDE DEF state
  <2>3. CallOK(state)
    BY <1>8, <2>0, <2>1 DEF CallOK, LinkSteps
  <2> QED BY <1>r, <2>1, <2>2, <2>3
(* A code that is taken was unused, so that no other call holds it. *)
<1>9. ASSUME NEW c \in Calls, UseCode(c) PROVE Kept
  <2> DEFINE s == call[c].link
             i == call[c].index
  <2>0. /\ call[c] \in CallState /\ call[c].step = "useCode"
        /\ s \in Links /\ i \in CodeIds /\ link[s].state # "free"
    BY <1>0, <1>9 DEF CallOK, LinkSteps, UseCode
  <2>1. CASE ~Takeable(s, i)
    <3>1. Finish(c)
      BY <1>9, <2>1 DEF UseCode
    <3> QED BY <3>1, <1>2
  <2>2. CASE Takeable(s, i)
    <3>1. PICK state : state = [call[c] EXCEPT !.step = "checkIdentity"]
      OBVIOUS
    <3>2. /\ state \in CallState /\ state.step = "checkIdentity"
          /\ state.link = s /\ state.index = i
      BY <2>0, <3>1 DEF CallState
    <3>3. call' = [call EXCEPT ![c] = state] /\ link' = link
      BY <1>9, <2>2, <3>1 DEF UseCode
    <3>4. code'[s][i] = "used"
      BY <1>9, <2>0, <2>2 DEF UseCode, IInv, TypeOK
    <3>5. CallOK(state)'
      BY <2>0, <3>2, <3>3, <3>4 DEF CallOK, LinkSteps
    <3>6. \A d \in Calls \ {c} :
              ~(/\ Proven(d) /\ call[d].link = state.link
                /\ call[d].index = state.index)
      <4>1. i # 0
        BY <2>0 DEF CodeIds
      <4> QED BY <1>0, <2>2, <3>2, <4>1 DEF Takeable, Proven, CallOK
    <3> QED BY <3>2, <3>3, <3>5, <3>6, CallMoves DEF Kept
  <2> QED BY <2>1, <2>2
<1>10. ASSUME NEW c \in Calls, Login(c) PROVE Kept
  BY <1>10, <1>2, <1>5, <1>6 DEF Login, CreateLink, CreateUser
<1>11. ASSUME NEW c \in Calls, NEW s \in Links,
              TryPassword(c, s) \/ RequestCode(c, s) \/ TryCode(c, s)
       PROVE  Kept
  BY <1>11, <1>4, <1>7 DEF RequestCode, TryCode
<1>12. ASSUME NEW c \in Calls,
              \/ RecordFailure(c) \/ CheckRecent(c) \/ InsertCode(c) \/ Mail(c)
              \/ RetireOthers(c) \/ DropCode(c) \/ FindCode(c) \/ UseCode(c)
       PROVE  Kept
  <2>1. CASE RecordFailure(c) \/ RetireOthers(c) \/ DropCode(c)
    BY <2>1, <1>2 DEF RecordFailure, RetireOthers, DropCode
  <2>2. CASE CheckRecent(c) \/ Mail(c)
    BY <2>2, <1>2, <1>3 DEF CheckRecent, Mail
  <2>3. CASE InsertCode(c)
    <3>1. \/ Finish(c)
          \/ \E i \in CodeIds :
                call' = [call EXCEPT ![c] = [call[c] EXCEPT !.step = "mail",
                                                            !.index = i]]
      BY <2>3 DEF InsertCode
    <3>2. call[c].step = "insertCode"
      BY <2>3 DEF InsertCode
    <3> QED BY <3>1, <3>2, <1>2, <1>8
  <2>4. CASE FindCode(c)
    <3>1. \/ Finish(c)
          \/ \E i \in CodeIds :
                call' = [call EXCEPT ![c] = [call[c] EXCEPT !.step = "useCode",
                                                            !.index = i]]
      BY <2>4 DEF FindCode
    <3>2. call[c].step = "findCode"
      BY <2>4 DEF FindCode
    <3> QED BY <3>1, <3>2, <1>2, <1>8
  <2> QED BY <1>12, <2>1, <2>2, <2>3, <2>4, <1>9
<1>13. ASSUME NEW c \in Calls, CheckIdentity(c) \/ Complete(c) \/ Abort(c)
       PROVE  Kept
  BY <1>13, <1>2, <1>3 DEF CheckIdentity, Complete, Abort
<1>14. CASE Environment
  BY <1>14, <1>1 DEF Environment, SignUp, Withdraw, LockRunsOut, Kept
<1>15. Kept
  BY <1>1, <1>10, <1>11, <1>12, <1>13, <1>14 DEF Next, Prove, vars, Kept
<1> QED BY <1>15 DEF Kept

-----------------------------------------------------------------------------
LEMMA StepPreservesIInv == IInv /\ [Next]_vars => IInv'
<1> SUFFICES ASSUME IInv, [Next]_vars PROVE IInv'
  OBVIOUS
<1>1. RowsHaveType'
  BY RowsStep
<1>2. \A s \in Links : LinkOK(s)'
  BY LinksStep
<1>3. /\ call' \in [Calls -> CallState]
      /\ (\A c \in Calls : CallOK(call[c]))'
      /\ CodeProvesOnce'
  BY CallsStep
<1> QED BY <1>1, <1>2, <1>3 DEF IInv, TypeOK, RowsHaveType

LEMMA IInvIsInvariant == Spec => []IInv
BY InitEstablishesIInv, StepPreservesIInv, PTL DEF Spec

(* Every reachable state of the link sessions has its type: the counter of *)
(* a session never passes the limit at which its lock is set.              *)
THEOREM TypeCorrect == Spec => []TypeOK
<1>1. IInv => TypeOK
  BY DEF IInv
<1> QED BY <1>1, IInvIsInvariant, PTL

(* However many proofs of one session are under way, at most one of them   *)
(* ends in a login (completeKakaoLink).                                    *)
THEOREM SessionCompletesOnce == Spec => []LinkCompletesOnce
<1>1. IInv => LinkCompletesOnce
  BY DEF IInv, LinkCompletesOnce, LinkOK
<1> QED BY <1>1, IInvIsInvariant, PTL

(* A session is used up by the transaction that links its account, and by  *)
(* nothing else: also after any sequence of refused or interrupted links.  *)
THEOREM SessionUsedOnlyByLink == Spec => []UsedLinkIsLinked
<1>1. IInv => UsedLinkIsLinked
  BY DEF IInv, UsedLinkIsLinked, LinkOK
<1> QED BY <1>1, IInvIsInvariant, PTL

(* A mailed code is a proof for one request of those that found it.        *)
THEOREM CodeIsOneProof == Spec => []CodeProvesOnce
<1>1. IInv => CodeProvesOnce
  BY DEF IInv
<1> QED BY <1>1, IInvIsInvariant, PTL

(* No login, link, or sequence of them gives an account that has a Kakao   *)
(* identity another one.                                                   *)
THEOREM IdentityIsKept == Spec => IdentityNeverReplaced
<1> DEFINE Keeps == \A a \in Accounts :
                        Active(a) /\ Active(a)' /\ kakaoUserId[a] # NoKakao
                            => kakaoUserId'[a] = kakaoUserId[a]
<1>1. IInv /\ [Next]_vars => [Keeps]_vars
  <2> SUFFICES ASSUME IInv, [Next]_vars, NEW a \in Accounts, Active(a),
                      kakaoUserId[a] # NoKakao
               PROVE  kakaoUserId'[a] = kakaoUserId[a]
    OBVIOUS
  <2>0. kakaoUserId \in [Accounts -> KakaoIds \cup {NoKakao}]
    BY DEF IInv, TypeOK
  <2>1. CASE UNCHANGED kakaoUserId
    BY <2>1
  <2>2. ASSUME NEW c \in Calls, CreateUser(c)
        PROVE  kakaoUserId'[a] = kakaoUserId[a]
    BY <2>0, <2>2 DEF CreateUser, Active
  <2>3. ASSUME NEW c \in Calls, Complete(c)
        PROVE  kakaoUserId'[a] = kakaoUserId[a]
    BY <2>0, <2>3 DEF Complete, Completable
  <2>4. \/ UNCHANGED kakaoUserId
        \/ \E c \in Calls : CreateUser(c) \/ Complete(c)
    BY DEF Next, Environment, Login, Prove, vars, userVars, FindMember,
           FindEmail, CreateLink, TryPassword, RecordFailure, RequestCode,
           TryCode, CheckRecent, InsertCode, Mail, RetireOthers, DropCode,
           FindCode, UseCode, CheckIdentity, Abort, SignUp, Withdraw,
           LockRunsOut
  <2> QED BY <2>1, <2>2, <2>3, <2>4
<1> QED BY <1>1, IInvIsInvariant, PTL DEF Spec, IdentityNeverReplaced
=============================================================================
