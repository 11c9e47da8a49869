---------------------------- MODULE AccountProofs ----------------------------
(***************************************************************************)
(* What a code, a refresh token and a reset are worth, and what the guard  *)
(* of the endpoints holds back, for any number of calls and any limits.    *)
(***************************************************************************)
EXTENDS Account, AbuseGuard, FiniteSetTheorems, TLAPS

-----------------------------------------------------------------------------
(***************************************************************************)
(* Types                                                                   *)
(***************************************************************************)
CallStages == {"idle", "issuing", "deleting", "compared", "codeMarked",
               "accountMarked", "accepted", "done"}
WithSubject == Verifies \union Refreshes \union Resets

CallsTyped ==
  /\ stage \in [AccountCalls -> CallStages]
  /\ subject \in [WithSubject -> AccountCalls \union {Absent}]
  /\ guess \in [Verifies -> BOOLEAN]
  /\ compared \in [Issuers -> Nat]
  /\ redeemed \in [Signers -> SUBSET Refreshes]

AccountTypes == AccountTypeOK /\ CallsTyped

Accounts == [exists : BOOLEAN, active : BOOLEAN, verified : BOOLEAN,
             version : Nat, password : Nat]
CodeRows == {Absent} \union
              [guesses : Nat, verified : BOOLEAN,
               age : {"fresh", "expired", "old"}]
Tokens == {Absent} \union [version : Nat, password : Nat]

LEMMA StageTyped ==
  ASSUME AccountTypes, NEW c \in AccountCalls, NEW s \in CallStages,
         ToStage(c, s)
  PROVE  /\ stage' \in [AccountCalls -> CallStages]
         /\ stage'[c] = s
         /\ \A d \in AccountCalls : d # c => stage'[d] = stage[d]
BY DEF AccountTypes, CallsTyped, ToStage

LEMMA CodesTyped ==
  ASSUME AccountTypes, NEW i \in Issuers
  PROVE  ReplaceCodes(i) \in [Issuers -> CodeRows]
BY DEF AccountTypes, AccountTypeOK, ReplaceCodes, NewCode, CodeRows

\* A token is signed by the last step of its call, and a refresh goes on with
\* a token that has been signed.
TokensAreSigned ==
  /\ \A s \in Sessions : stage[s] = "done"
  /\ \A c \in Refreshes : Changing(c) => subject[c] \in Sessions

LEMMA AccountTypesStep ==
  AccountTypes /\ TokensAreSigned /\ [AccountNext]_accountVars => AccountTypes'
<1> SUFFICES ASSUME AccountTypes, TokensAreSigned, [AccountNext]_accountVars
             PROVE  AccountTypes'
  OBVIOUS
<1> USE DEF AccountTypes, AccountTypeOK, CallsTyped, codeVars, sessionVars
<1>1. CASE UNCHANGED accountVars
  BY <1>1 DEF accountVars
<1>2. CASE RegisterAccount
  <2>1. account' \in Accounts
    BY <1>2 DEF RegisterAccount, Accounts
  <2>2. stage' \in [AccountCalls -> CallStages]
    BY <1>2 DEF RegisterAccount, ToStage, CallStages
  <2>3. code' \in [Issuers -> CodeRows]
    BY <1>2, CodesTyped DEF RegisterAccount, Issuers, CodeRows
  <2> QED
    BY <1>2, <2>1, <2>2, <2>3 DEF RegisterAccount, Accounts, CodeRows
<1>3. ASSUME NEW i \in Issuers, CheckResend(i)
      PROVE  AccountTypes'
  BY <1>3 DEF CheckResend, ToStage, CallStages
<1>4. ASSUME NEW i \in Issuers, FindCodes(i)
      PROVE  AccountTypes'
  BY <1>4 DEF FindCodes, ToStage, CallStages, Unverified, Codes
<1>5. ASSUME NEW i \in Issuers, IssueCode(i)
      PROVE  AccountTypes'
  <2>1. stage' \in [AccountCalls -> CallStages]
    BY <1>5 DEF IssueCode, ToStage, CallStages
  <2>2. code' \in [Issuers -> CodeRows]
    BY <1>5, CodesTyped DEF IssueCode
  <2> QED
    BY <1>5, <2>1, <2>2 DEF IssueCode, CodeRows
<1>6. ASSUME NEW i \in Issuers, AgeCode(i)
      PROVE  AccountTypes'
  <2>1. code' \in [Issuers -> CodeRows]
    BY <1>6 DEF AgeCode, Codes, CodeRows
  <2> QED
    BY <1>6, <2>1 DEF AgeCode, CodeRows
<1>7. ASSUME NEW v \in Verifies, ReadCode(v)
      PROVE  AccountTypes'
  <2>1. stage' \in [AccountCalls -> CallStages]
    BY <1>7 DEF ReadCode, ToStage, CallStages
  <2>2. PICK i \in Codes, right \in BOOLEAN :
          /\ subject' = [subject EXCEPT ![v] = i]
          /\ guess' = [guess EXCEPT ![v] = right]
          /\ compared' = IF right THEN compared
                         ELSE [compared EXCEPT ![i] = @ + 1]
    BY <1>7 DEF ReadCode
  <2>3. i \in Issuers /\ i \in AccountCalls
    BY DEF Codes, AccountCalls
  <2>4. /\ subject' \in [WithSubject -> AccountCalls \union {Absent}]
        /\ guess' \in [Verifies -> BOOLEAN]
    BY <2>2, <2>3
  <2>5. compared' \in [Issuers -> Nat]
    BY <2>2, <2>3
  <2>6. UNCHANGED <<kind, account, code, found, token, link, redeemed>>
    BY <1>7 DEF ReadCode
  <2> QED
    BY <2>1, <2>4, <2>5, <2>6
<1>8. ASSUME NEW v \in Verifies, CountGuess(v)
      PROVE  AccountTypes'
  <2>1. stage' \in [AccountCalls -> CallStages]
    BY <1>8 DEF CountGuess, ToStage, CallStages
  <2>2. code' \in [Issuers -> CodeRows]
    BY <1>8 DEF CountGuess, Codes, CodeRows
  <2> QED
    BY <1>8, <2>1, <2>2 DEF CountGuess, CodeRows
<1>9. ASSUME NEW v \in Verifies, MarkAccount(v)
      PROVE  AccountTypes'
  <2>1. account' \in Accounts
    BY <1>9 DEF MarkAccount, Accounts
  <2>2. stage' \in [AccountCalls -> CallStages]
    BY <1>9 DEF MarkAccount, ToStage, CallStages
  <2> QED
    BY <1>9, <2>1, <2>2 DEF MarkAccount, Accounts
<1>10. ASSUME NEW v \in Verifies, MarkCode(v)
       PROVE  AccountTypes'
  <2>1. stage' \in [AccountCalls -> CallStages]
    BY <1>10 DEF MarkCode, ToStage, CallStages
  <2>2. code' \in [Issuers -> CodeRows]
    <3> DEFINE i == subject[v]
               row == [code[i] EXCEPT !.verified = TRUE]
    <3>1. CASE i \in Codes
      <4>3. i \in Issuers /\ code[i] # Absent
        BY <3>1 DEF Codes
      <4>4. code[i] \in [guesses : Nat, verified : BOOLEAN,
                         age : {"fresh", "expired", "old"}]
        BY <4>3
      <4>1. i \in Issuers /\ row \in CodeRows
        BY <4>3, <4>4 DEF CodeRows
      <4>2. code' = [code EXCEPT ![i] = row]
        BY <1>10, <3>1 DEF MarkCode
      <4> QED
        BY <4>1, <4>2 DEF CodeRows
    <3>2. CASE i \notin Codes
      BY <1>10, <3>2 DEF MarkCode, CodeRows
    <3> QED
      BY <3>1, <3>2
  <2> QED
    BY <1>10, <2>1, <2>2 DEF MarkCode, CodeRows
<1>11. ASSUME NEW c \in Logins, ReadLogin(c)
       PROVE  AccountTypes'
  <2>1. stage' \in [AccountCalls -> CallStages]
    BY <1>11 DEF ReadLogin, ToStage, CallStages
  <2>2. token' \in [Signers -> Tokens]
    BY <1>11 DEF ReadLogin, Sign, Tokens
  <2> QED
    BY <1>11, <2>1, <2>2 DEF ReadLogin, Tokens
<1>12. ASSUME NEW c \in Refreshes, AcceptToken(c)
       PROVE  AccountTypes'
  <2>1. stage' \in [AccountCalls -> CallStages]
    BY <1>12 DEF AcceptToken, ToStage, CallStages
  <2>2. PICK t \in Sessions :
          /\ subject' = [subject EXCEPT ![c] = t]
          /\ redeemed' = [redeemed EXCEPT ![t] = @ \union {c}]
    BY <1>12 DEF AcceptToken
  <2>3. t \in Signers /\ t \in AccountCalls
    BY DEF Sessions, AccountCalls
  <2>4. /\ subject' \in [WithSubject -> AccountCalls \union {Absent}]
        /\ redeemed' \in [Signers -> SUBSET Refreshes]
    BY <2>2, <2>3
  <2> QED
    BY <1>12, <2>1, <2>4 DEF AcceptToken
<1>13. ASSUME NEW c \in Refreshes, RotateToken(c)
       PROVE  AccountTypes'
  <2> DEFINE t == token[subject[c]]
  <2>4. t \in [version : Nat, password : Nat]
    BY <1>13 DEF RotateToken, TokensAreSigned, Sessions
  <2>1. stage' \in [AccountCalls -> CallStages]
    BY <1>13 DEF RotateToken, ToStage, CallStages
  <2>2. account' \in Accounts
    BY <1>13 DEF RotateToken, NextVersion, Accounts
  <2>3. token' \in [Signers -> Tokens]
    BY <1>13, <2>2, <2>4 DEF RotateToken, Sign, Tokens, Accounts
  <2> QED
    BY <1>13, <2>1, <2>2, <2>3 DEF RotateToken, Accounts, Tokens
<1>14. ASSUME NEW f \in Forgots, SendLink(f)
       PROVE  AccountTypes'
  <2>1. stage' \in [AccountCalls -> CallStages]
    BY <1>14 DEF SendLink, ToStage, CallStages
  <2> QED
    BY <1>14, <2>1 DEF SendLink
<1>15. ASSUME NEW r \in Resets, AcceptLink(r)
       PROVE  AccountTypes'
  <2>1. stage' \in [AccountCalls -> CallStages]
    BY <1>15 DEF AcceptLink, ToStage, CallStages
  <2>2. subject' \in [WithSubject -> AccountCalls \union {Absent}]
    BY <1>15 DEF AcceptLink, AccountCalls
  <2> QED
    BY <1>15, <2>1, <2>2 DEF AcceptLink
<1>16. ASSUME NEW r \in Resets, WritePassword(r)
       PROVE  AccountTypes'
  <2>1. stage' \in [AccountCalls -> CallStages]
    BY <1>16 DEF WritePassword, ToStage, CallStages
  <2>2. account' \in Accounts
    <3>1. account.password + 1 \in Nat /\ account.version + 1 \in Nat
      OBVIOUS
    <3>2. account' = [account EXCEPT !.password = account.password + 1,
                                     !.version = account.version + 1]
      BY <1>16 DEF WritePassword, NewPassword
    <3> QED
      BY <3>1, <3>2 DEF Accounts
  <2> QED
    BY <1>16, <2>1, <2>2 DEF WritePassword, Accounts
<1>17. CASE SetOwnerStatus
  <2>1. account' \in Accounts
    BY <1>17 DEF SetOwnerStatus, Accounts
  <2> QED
    BY <1>17, <2>1 DEF SetOwnerStatus, Accounts
<1> QED
  BY <1>1, <1>2, <1>3, <1>4, <1>5, <1>6, <1>7, <1>8, <1>9, <1>10, <1>11,
     <1>12, <1>13, <1>14, <1>15, <1>16, <1>17 DEF AccountNext

-----------------------------------------------------------------------------
(***************************************************************************)
(* Sessions                                                                *)
(***************************************************************************)

\* Neither the codes nor the flags of an account touch its sessions.
SessionsAside ==
  /\ kind' = kind /\ token' = token /\ redeemed' = redeemed
  /\ tokenRaced' = tokenRaced
  /\ account'.version = account.version
  /\ account'.password = account.password
  /\ \A c \in Signers \union Resets : stage'[c] = stage[c]
  /\ \A c \in Refreshes : subject'[c] = subject[c]

CodeStep ==
  \/ RegisterAccount \/ SetOwnerStatus
  \/ \E i \in Issuers :
       CheckResend(i) \/ FindCodes(i) \/ IssueCode(i) \/ AgeCode(i)
  \/ \E v \in Verifies :
       ReadCode(v) \/ CountGuess(v) \/ MarkAccount(v) \/ MarkCode(v)
  \/ \E f \in Forgots : SendLink(f)

LEMMA CodesLeaveSessions == AccountTypes /\ CodeStep => SessionsAside
<1> SUFFICES ASSUME AccountTypes, CodeStep
             PROVE  SessionsAside
  OBVIOUS
<1> USE AccountAssumption
    DEF AccountTypes, AccountTypeOK, CallsTyped, codeVars, sessionVars,
        SessionsAside, ToStage, AccountCalls, Signers
<1>1. CASE RegisterAccount
  BY <1>1 DEF RegisterAccount, Issuers
<1>2. CASE SetOwnerStatus
  BY <1>2 DEF SetOwnerStatus
<1>3. ASSUME NEW i \in Issuers,
             CheckResend(i) \/ FindCodes(i) \/ IssueCode(i) \/ AgeCode(i)
      PROVE  SessionsAside
  BY <1>3 DEF CheckResend, FindCodes, IssueCode, AgeCode
<1>4. ASSUME NEW v \in Verifies, ReadCode(v)
      PROVE  SessionsAside
  BY <1>4 DEF ReadCode
<1>5. ASSUME NEW v \in Verifies, CountGuess(v) \/ MarkCode(v)
      PROVE  SessionsAside
  BY <1>5 DEF CountGuess, MarkCode
<1>6. ASSUME NEW v \in Verifies, MarkAccount(v)
      PROVE  SessionsAside
  BY <1>6 DEF MarkAccount
<1>7. ASSUME NEW f \in Forgots, SendLink(f)
      PROVE  SessionsAside
  BY <1>7 DEF SendLink
<1> QED
  BY <1>1, <1>2, <1>3, <1>4, <1>5, <1>6, <1>7 DEF CodeStep

LEMMA TokensAreSignedStep ==
  AccountTypes /\ TokensAreSigned /\ [AccountNext]_accountVars
    => TokensAreSigned'
<1> SUFFICES ASSUME AccountTypes, TokensAreSigned, [AccountNext]_accountVars
             PROVE  TokensAreSigned'
  OBVIOUS
<1> USE AccountAssumption
    DEF AccountTypes, CallsTyped, TokensAreSigned, Sessions, Changing, Signers,
        AccountCalls, WithSubject
<1>1. CASE UNCHANGED accountVars
  BY <1>1 DEF accountVars, sessionVars
<1>2. CASE CodeStep
  BY <1>2, CodesLeaveSessions DEF SessionsAside
<1>3. ASSUME NEW c \in Logins, ReadLogin(c)
      PROVE  TokensAreSigned'
  <2>1. /\ stage[c] = "idle" /\ stage'[c] = "done"
        /\ \A d \in AccountCalls : d # c => stage'[d] = stage[d]
        /\ subject' = subject
    BY <1>3 DEF ReadLogin, ToStage, Unused
  <2>2. \A s \in Signers : s # c => token'[s] = token[s]
    BY <1>3 DEF ReadLogin, Sign, AccountTypeOK
  <2>3. c \notin Sessions
    BY <2>1
  <2> QED
    BY <2>1, <2>2, <2>3
<1>4. ASSUME NEW c \in Refreshes, AcceptToken(c)
      PROVE  TokensAreSigned'
  BY <1>4 DEF AcceptToken, ToStage, Unused
<1>5. ASSUME NEW c \in Refreshes, RotateToken(c)
      PROVE  TokensAreSigned'
  <2>1. /\ stage'[c] = "done"
        /\ \A d \in AccountCalls : d # c => stage'[d] = stage[d]
        /\ subject' = subject
    BY <1>5 DEF RotateToken, ToStage
  <2>2. \A s \in Signers : s # c => token'[s] = token[s]
    BY <1>5 DEF RotateToken, Sign, AccountTypeOK
  <2>3. c \notin Sessions
    BY <1>5 DEF RotateToken
  <2> QED
    BY <2>1, <2>2, <2>3
<1>6. ASSUME NEW r \in Resets, AcceptLink(r) \/ WritePassword(r)
      PROVE  TokensAreSigned'
  BY <1>6 DEF AcceptLink, WritePassword, ToStage, sessionVars
<1> QED
  BY <1>1, <1>2, <1>3, <1>4, <1>5, <1>6 DEF AccountNext, CodeStep

\* For a player, while no two calls changed the version at once: one call at
\* most is about to, and a refresh that is carries the version and the password
\* of the account.  No token is ahead of the account, one of its version is of
\* its password, and one that was accepted is behind it or is just being
\* replaced.
SessionsHold ==
  kind = "player" /\ ~tokenRaced =>
    /\ \A c, d \in Refreshes \union Resets :
         Changing(c) /\ Changing(d) => c = d
    /\ \A t \in Sessions :
         /\ token[t].version <= account.version
         /\ token[t].version = account.version
              => token[t].password = account.password
    /\ \A c \in Refreshes : Changing(c) =>
         /\ token[subject[c]].version = account.version
         /\ token[subject[c]].password = account.password
    /\ \A t \in Signers : \A c \in redeemed[t] :
         /\ t \in Sessions
         /\ \/ Changing(c) /\ subject[c] = t
            \/ token[t].version < account.version
    /\ \A t \in Signers : \A c, d \in redeemed[t] : c = d

SessionInv == AccountTypes /\ TokensAreSigned /\ SessionsHold

LEMMA SessionsHoldStep ==
  SessionInv /\ [AccountNext]_accountVars => SessionsHold'
<1> SUFFICES ASSUME SessionInv, [AccountNext]_accountVars,
                    kind' = "player", ~tokenRaced'
             PROVE  SessionsHold'
  BY DEF SessionsHold
<1> USE AccountAssumption
    DEF SessionInv, AccountTypes, CallsTyped, Sessions, Changing, Signers,
        AccountCalls, WithSubject
<1>0. /\ \A t \in Sessions : token[t] \in [version : Nat, password : Nat]
      /\ account.version \in Nat /\ account.password \in Nat
      /\ token \in [Signers -> Tokens]
      /\ \A t \in Signers : redeemed[t] \subseteq Refreshes
  BY DEF AccountTypeOK, Tokens
<1>1. CASE UNCHANGED accountVars
  BY <1>1 DEF accountVars, sessionVars, SessionsHold
<1>2. CASE CodeStep
  <2>1. SessionsAside
    BY <1>2, CodesLeaveSessions
  <2>2. Sessions' = Sessions
    BY <2>1 DEF SessionsAside
  <2> QED
    BY <1>0, <2>1, <2>2 DEF SessionsAside, SessionsHold, TokensAreSigned
<1>3. ASSUME NEW c \in Logins, ReadLogin(c)
      PROVE  SessionsHold'
  <2>1. /\ stage[c] = "idle" /\ stage'[c] = "done"
        /\ \A d \in Refreshes \union Resets : stage'[d] = stage[d]
        /\ UNCHANGED <<kind, account, subject, redeemed, tokenRaced>>
    BY <1>3 DEF ReadLogin, ToStage, Unused
  <2>2. /\ token'[c] = [version |-> account.version,
                        password |-> account.password]
        /\ \A t \in Signers : t # c => token'[t] = token[t]
    BY <1>0, <1>3 DEF ReadLogin, Sign
  <2>3. c \notin Sessions
    BY <2>1 DEF TokensAreSigned
  <2>4. \A t \in Sessions : t \in Sessions' /\ token'[t] = token[t]
    BY <2>2, <2>3
  <2>5. \A t \in Sessions' : t = c \/ t \in Sessions
    BY <2>2
  <2>6. kind = "player" /\ ~tokenRaced
    BY <2>1
  <2>7. \A d \in Refreshes : Changing(d)' =>
          Changing(d) /\ subject'[d] \in Sessions
    BY <2>1 DEF TokensAreSigned
  <2> QED
    BY <1>0, <2>1, <2>2, <2>4, <2>5, <2>6, <2>7 DEF SessionsHold
<1>4. ASSUME NEW c \in Refreshes, AcceptToken(c)
      PROVE  SessionsHold'
  <2>1. /\ stage[c] = "idle" /\ stage'[c] = "accepted"
        /\ \A d \in Refreshes \union Resets : d # c => stage'[d] = stage[d]
        /\ UNCHANGED <<kind, account, token>>
    BY <1>4 DEF AcceptToken, ToStage, Unused
  <2>2. ~tokenRaced /\ \A d \in Refreshes \union Resets : ~Changing(d)
    BY <1>4, <2>1 DEF AcceptToken, Race
  <2>3. PICK t \in Sessions :
          /\ Good(t)
          /\ subject' = [subject EXCEPT ![c] = t]
          /\ redeemed' = [redeemed EXCEPT ![t] = @ \union {c}]
    BY <1>4 DEF AcceptToken
  <2>4. /\ token[t].version = account.version
        /\ token[t].password = account.password
    BY <2>1, <2>2, <2>3 DEF Good, SessionsHold
  <2>5. redeemed[t] = {}
    BY <1>0, <2>1, <2>2, <2>4 DEF SessionsHold
  <2>6. /\ redeemed'[t] = {c}
        /\ \A s \in Signers : s # t => redeemed'[s] = redeemed[s]
        /\ subject'[c] = t
        /\ \A d \in Refreshes : d # c => subject'[d] = subject[d]
    BY <2>3, <2>5
  <2>7. \A d \in Refreshes \union Resets : Changing(d)' <=> d = c
    BY <2>1, <2>2
  <2>8. Sessions' = Sessions
    BY <2>1
  <2> QED
    BY <1>0, <2>1, <2>2, <2>4, <2>6, <2>7, <2>8 DEF SessionsHold
<1>5. ASSUME NEW c \in Refreshes, RotateToken(c)
      PROVE  SessionsHold'
  <2>1. /\ Changing(c) /\ stage'[c] = "done"
        /\ \A d \in Refreshes \union Resets : d # c => stage'[d] = stage[d]
        /\ UNCHANGED <<kind, subject, redeemed, tokenRaced>>
    BY <1>5 DEF RotateToken, ToStage
  <2>2. /\ account'.version = account.version + 1
        /\ account'.password = account.password
    BY <1>5, <2>1 DEF RotateToken, NextVersion, AccountTypeOK
  <2>3. /\ token'[c] = [version |-> account'.version,
                        password |-> token[subject[c]].password]
        /\ \A t \in Signers : t # c => token'[t] = token[t]
    BY <1>0, <1>5 DEF RotateToken, Sign
  <2>4. c \notin Sessions
    BY <2>1 DEF TokensAreSigned
  <2>5. \A t \in Sessions : t \in Sessions' /\ token'[t] = token[t]
    BY <2>3, <2>4
  <2>6. \A t \in Sessions' : t = c \/ t \in Sessions
    BY <2>3
  <2>7. kind = "player" /\ ~tokenRaced
    BY <2>1
  <2>8. \A d \in Refreshes \union Resets : ~Changing(d)'
    BY <2>1, <2>7 DEF SessionsHold
  <2>9. \A t \in Sessions : token'[t].version < account'.version
    BY <1>0, <2>2, <2>5, <2>7 DEF SessionsHold
  <2>10. /\ token'[c].version = account'.version
         /\ token'[c].password = account'.password
    BY <2>1, <2>2, <2>3, <2>7 DEF SessionsHold
  <2>11. \A t \in Signers : \A d \in redeemed[t] : t \in Sessions
    BY <2>7 DEF SessionsHold
  <2>12. \A t \in Signers : \A d, e \in redeemed[t] : d = e
    BY <2>7 DEF SessionsHold
  <2>13. \A t \in Sessions' :
           /\ token'[t].version <= account'.version
           /\ token'[t].version = account'.version
                => token'[t].password = account'.password
    <3>1. account'.version \in Nat
      BY <1>0, <2>2
    <3>2. \A t \in Sessions : token'[t].version \in Nat
      BY <1>0, <2>5
    <3> QED
      BY <2>6, <2>9, <2>10, <3>1, <3>2
  <2> QED
    BY <2>1, <2>5, <2>8, <2>9, <2>11, <2>12, <2>13 DEF SessionsHold
<1>6. ASSUME NEW r \in Resets, AcceptLink(r)
      PROVE  SessionsHold'
  <2>1. /\ stage'[r] = "accepted"
        /\ \A d \in Refreshes \union Resets : d # r => stage'[d] = stage[d]
        /\ \A d \in Refreshes : subject'[d] = subject[d]
        /\ UNCHANGED <<kind, account, token, redeemed>>
    BY <1>6 DEF AcceptLink, ToStage
  <2>2. ~tokenRaced /\ \A d \in Refreshes \union Resets : d # r => ~Changing(d)
    BY <1>6 DEF AcceptLink, Race
  <2>3. r \notin Refreshes /\ Sessions' = Sessions
    BY <2>1
  <2> QED
    BY <1>0, <2>1, <2>2, <2>3 DEF SessionsHold
<1>7. ASSUME NEW r \in Resets, WritePassword(r)
      PROVE  SessionsHold'
  <2>1. /\ Changing(r) /\ stage'[r] = "done"
        /\ \A d \in Refreshes \union Resets : d # r => stage'[d] = stage[d]
        /\ UNCHANGED <<kind, subject, token, redeemed, tokenRaced>>
    BY <1>7 DEF WritePassword, ToStage, sessionVars
  <2>2. account'.version = account.version + 1
    BY <1>7 DEF WritePassword, NewPassword, AccountTypeOK
  <2>3. kind = "player" /\ ~tokenRaced /\ Sessions' = Sessions
    BY <2>1
  <2>4. \A d \in Refreshes \union Resets : ~Changing(d)'
    BY <2>1, <2>3 DEF SessionsHold
  <2>5. \A t \in Sessions : token[t].version < account'.version
    BY <1>0, <2>2, <2>3 DEF SessionsHold
  <2>6. \A t \in Sessions :
          token[t].version \in Nat /\ account'.version \in Nat
    BY <1>0, <2>2
  <2>7. \A t \in Signers : \A d \in redeemed[t] : t \in Sessions
    BY <2>3 DEF SessionsHold
  <2>8. \A t \in Signers : \A d, e \in redeemed[t] : d = e
    BY <2>3 DEF SessionsHold
  <2> QED
    BY <2>1, <2>3, <2>4, <2>5, <2>6, <2>7, <2>8 DEF SessionsHold
<1> QED
  BY <1>1, <1>2, <1>3, <1>4, <1>5, <1>6, <1>7 DEF AccountNext, CodeStep

LEMMA SessionInvariant == AccountSpec => []SessionInv
<1>1. AccountInit => SessionInv
  <2> SUFFICES ASSUME AccountInit
               PROVE  SessionInv
    OBVIOUS
  <2> USE DEF AccountInit
  <2>1. AccountTypeOK
    <3>1. account \in Accounts
      BY DEF Accounts
    <3>2. code \in [Issuers -> CodeRows] /\ token \in [Signers -> Tokens]
      BY DEF CodeRows, Tokens
    <3>3. found \in [Issuers -> SUBSET Issuers]
      OBVIOUS
    <3>4. link \in [Forgots -> {Absent} \union Nat]
      OBVIOUS
    <3> QED
      BY <3>1, <3>2, <3>3, <3>4
         DEF AccountTypeOK, Accounts, CodeRows, Tokens
  <2>2. CallsTyped
    <3>1. stage \in [AccountCalls -> CallStages]
      BY DEF CallStages
    <3>2. subject \in [WithSubject -> AccountCalls \union {Absent}]
      BY DEF WithSubject
    <3>3. guess \in [Verifies -> BOOLEAN] /\ compared \in [Issuers -> Nat]
      OBVIOUS
    <3>4. redeemed \in [Signers -> SUBSET Refreshes]
      OBVIOUS
    <3> QED
      BY <3>1, <3>2, <3>3, <3>4 DEF CallsTyped
  <2>3. Sessions = {} /\ \A c \in AccountCalls : ~Changing(c)
    BY DEF Sessions, Changing
  <2>4. TokensAreSigned
    BY <2>3 DEF TokensAreSigned, AccountCalls, Signers
  <2>5. SessionsHold
    BY <2>3 DEF SessionsHold, AccountCalls, Signers
  <2> QED
    BY <2>1, <2>2, <2>4, <2>5 DEF SessionInv, AccountTypes
<1>2. SessionInv /\ [AccountNext]_accountVars => SessionInv'
  BY AccountTypesStep, TokensAreSignedStep, SessionsHoldStep DEF SessionInv
<1> QED
  BY <1>1, <1>2, PTL DEF AccountSpec

LEMMA AtMostOne ==
  ASSUME NEW S, \A x, y \in S : x = y
  PROVE  Cardinality(S) \in Nat /\ Cardinality(S) <= 1
<1>1. CASE S = {}
  BY <1>1, FS_EmptySet
<1>2. CASE S # {}
  <2>1. PICK x \in S : TRUE
    BY <1>2
  <2>2. S = {x}
    BY <2>1
  <2> QED
    BY <2>2, FS_Singleton
<1> QED
  BY <1>1, <1>2

\* TokenUsedOnceUnlessRaced: a player's refresh token is accepted once.
THEOREM TokenUsedOnce == AccountSpec => []TokenUsedOnceUnlessRaced
<1>1. SessionInv => TokenUsedOnceUnlessRaced
  <2> SUFFICES ASSUME SessionInv, kind # "owner", ~tokenRaced,
                      NEW t \in Signers
               PROVE  Cardinality(redeemed[t]) <= 1
    BY DEF TokenUsedOnceUnlessRaced
  <2>1. kind = "player"
    BY DEF SessionInv, AccountTypes, AccountTypeOK
  <2>2. \A c, d \in redeemed[t] : c = d
    BY <2>1 DEF SessionInv, SessionsHold
  <2> QED
    BY <2>2, AtMostOne
<1> QED
  BY <1>1, SessionInvariant, PTL

\* ResetEndsSessionsUnlessRaced: a token that is good was signed, or its
\* ancestor was, with the password the account has.
THEOREM ResetEndsSessions == AccountSpec => []ResetEndsSessionsUnlessRaced
<1>1. SessionInv => ResetEndsSessionsUnlessRaced
  BY DEF SessionInv, AccountTypes, AccountTypeOK, SessionsHold, Good,
         ResetEndsSessionsUnlessRaced
<1> QED
  BY <1>1, SessionInvariant, PTL

-----------------------------------------------------------------------------
(***************************************************************************)
(* Codes                                                                   *)
(***************************************************************************)

\* No code is there, and none is being issued, before the registration; a code
\* comes with the last step of the call that issues it, and is guessed later.
CodesComeLast ==
  /\ Unused(Register) => ~account.exists /\ Codes = {} /\ Issuing = {}
  /\ \A i \in Issuers : i \in Codes \/ compared[i] # 0 => stage[i] = "done"

\* While no two verifications of a code overlapped: one at most has compared
\* and not written, and only it may be missing from the counter.
GuessesAreCounted ==
  ~guessRaced =>
    /\ \A v, w \in Verifies :
         (stage[v] = "compared" /\ stage[w] = "compared"
            /\ subject[v] = subject[w]) => v = w
    /\ \A i \in Issuers : compared[i] <= MaxGuesses
    /\ \A i \in Codes :
         \/ compared[i] <= code[i].guesses
         \/ /\ compared[i] = code[i].guesses + 1
            /\ \E v \in Verifies :
                 stage[v] = "compared" /\ ~guess[v] /\ subject[v] = i

\* While no two codes were being issued at once: the one that is knows every
\* unverified code there is, which is one at most.
OneIsIssued ==
  ~issueRaced =>
    /\ \A i, j \in Issuing : i = j
    /\ \A i, j \in Unverified : i = j
    /\ \A i \in Issuers :
         stage[i] = "deleting" => Unverified \subseteq found[i]

CodeInv == CodesComeLast /\ GuessesAreCounted /\ OneIsIssued

SessionStep ==
  \/ \E c \in Logins : ReadLogin(c)
  \/ \E c \in Refreshes : AcceptToken(c) \/ RotateToken(c)
  \/ \E f \in Forgots : SendLink(f)
  \/ \E r \in Resets : AcceptLink(r) \/ WritePassword(r)
  \/ SetOwnerStatus
  \/ UNCHANGED accountVars

\* Sessions leave the codes alone.
CodesAside ==
  /\ code' = code /\ found' = found /\ guess' = guess /\ compared' = compared
  /\ guessRaced' = guessRaced /\ issueRaced' = issueRaced
  /\ account'.exists = account.exists
  /\ \A c \in Issuers \union Verifies : stage'[c] = stage[c]
  /\ \A c \in Verifies : subject'[c] = subject[c]

LEMMA SessionsLeaveCodes == AccountTypes /\ SessionStep => CodesAside
<1> SUFFICES ASSUME AccountTypes, SessionStep
             PROVE  CodesAside
  OBVIOUS
<1> USE AccountAssumption
    DEF AccountTypes, AccountTypeOK, CallsTyped, codeVars, sessionVars,
        CodesAside, ToStage, AccountCalls, Signers, WithSubject
<1>1. CASE UNCHANGED accountVars
  BY <1>1 DEF accountVars
<1>2. CASE SetOwnerStatus
  BY <1>2 DEF SetOwnerStatus
<1>3. ASSUME NEW c \in Logins, ReadLogin(c)
      PROVE  CodesAside
  BY <1>3 DEF ReadLogin
<1>4. ASSUME NEW c \in Refreshes, AcceptToken(c)
      PROVE  CodesAside
  BY <1>4 DEF AcceptToken
<1>5. ASSUME NEW c \in Refreshes, RotateToken(c)
      PROVE  CodesAside
  BY <1>5 DEF RotateToken, NextVersion
<1>6. ASSUME NEW f \in Forgots, SendLink(f)
      PROVE  CodesAside
  <2>1. UNCHANGED <<account, codeVars, subject>>
    BY <1>6 DEF SendLink
  <2>2. \A c \in Issuers \union Verifies : stage'[c] = stage[c]
    BY <1>6 DEF SendLink
  <2> QED
    BY <2>1, <2>2
<1>7. ASSUME NEW r \in Resets, AcceptLink(r)
      PROVE  CodesAside
  BY <1>7 DEF AcceptLink
<1>8. ASSUME NEW r \in Resets, WritePassword(r)
      PROVE  CodesAside
  BY <1>8 DEF WritePassword, NewPassword
<1> QED
  BY <1>1, <1>2, <1>3, <1>4, <1>5, <1>6, <1>7, <1>8 DEF SessionStep

LEMMA SessionsKeepCodeInv ==
  AccountTypes /\ CodeInv /\ SessionStep => CodeInv'
<1> SUFFICES ASSUME AccountTypes, CodeInv, SessionStep
             PROVE  CodeInv'
  OBVIOUS
<1>1. CodesAside
  BY SessionsLeaveCodes
<1>2. Codes' = Codes /\ Unverified' = Unverified /\ Issuing' = Issuing
  BY <1>1 DEF CodesAside, Codes, Unverified, Issuing
<1>3. Register \in Issuers
  BY DEF Issuers
<1>4. CodesComeLast'
  BY <1>1, <1>2, <1>3 DEF CodeInv, CodesComeLast, CodesAside, Unused
<1>5. GuessesAreCounted'
  BY <1>1, <1>2 DEF CodeInv, GuessesAreCounted, CodesAside, Codes
<1>6. OneIsIssued'
  BY <1>1, <1>2 DEF CodeInv, OneIsIssued, CodesAside
<1> QED
  BY <1>4, <1>5, <1>6 DEF CodeInv

\* What ReplaceCodes leaves: its own code and those that were not found.
LEMMA Replaced ==
  ASSUME AccountTypes, NEW i \in Issuers, code' = ReplaceCodes(i)
  PROVE  /\ Codes' \subseteq Codes \union {i}
         /\ Unverified' \subseteq (Unverified \ found[i]) \union {i}
         /\ i \in Codes' => code'[i].guesses = 0
         /\ \A j \in Codes' : j # i => j \in Codes /\ code'[j] = code[j]
<1>1. \A j \in Issuers :
        code'[j] = IF j = i THEN NewCode
                   ELSE IF j \in found[i] THEN Absent ELSE code[j]
  BY DEF ReplaceCodes
<1> QED
  BY <1>1 DEF Codes, Unverified, NewCode

LEMMA IssuedGuesses ==
  ASSUME AccountTypes, CodeInv, NEW i \in Issuers, stage[i] # "done",
         code' = ReplaceCodes(i),
         UNCHANGED <<subject, guess, compared, guessRaced>>,
         \A v \in Verifies : stage'[v] = stage[v]
  PROVE  GuessesAreCounted'
<1>1. compared[i] = 0
  BY DEF CodeInv, CodesComeLast
<1>2. compared[i] <= 0
  BY <1>1
<1> QED
  BY <1>2, Replaced DEF CodeInv, GuessesAreCounted

LEMMA RegisterStep ==
  ASSUME AccountTypes, CodeInv, RegisterAccount
  PROVE  CodeInv'
<1> USE AccountAssumption DEF AccountCalls
<1>1. Register \in Issuers
  BY DEF Issuers
<1>2. /\ stage[Register] = "idle" /\ Codes = {} /\ Issuing = {}
      /\ stage'[Register] \in {"done", "issuing"}
      /\ \A c \in AccountCalls : c # Register => stage'[c] = stage[c]
      /\ UNCHANGED <<subject, guess, compared, guessRaced, found>>
  BY <1>1 DEF RegisterAccount, CodeInv, CodesComeLast, Unused, ToStage,
              AccountTypes, CallsTyped
<1>3. Codes' \subseteq {Register}
  BY <1>1, <1>2, Replaced DEF RegisterAccount, Codes
<1>4. CodesComeLast'
  <2>1. ASSUME NEW i \in Issuers, i \in Codes' \/ compared'[i] # 0
        PROVE  stage'[i] = "done"
    <3>1. CASE compared[i] # 0
      BY <1>2, <3>1 DEF CodeInv, CodesComeLast
    <3>2. CASE i \in Codes'
      <4>1. i = Register
        BY <1>3, <3>2
      <4>2. code' # code
        BY <1>2, <3>2 DEF Codes
      <4>3. ToStage(Register, "done")
        BY <4>2 DEF RegisterAccount
      <4> QED
        BY <1>1, <4>1, <4>3 DEF ToStage, AccountTypes, CallsTyped
    <3> QED
      BY <1>2, <2>1, <3>1, <3>2
  <2> QED
    BY <1>2, <2>1 DEF CodesComeLast, Unused
<1>5. GuessesAreCounted'
  <2>1. \A v \in Verifies : stage'[v] = stage[v]
    BY <1>1, <1>2
  <2>2. CASE code' = ReplaceCodes(Register)
    BY <1>1, <1>2, <2>1, <2>2, IssuedGuesses
  <2>3. CASE code' = code
    BY <1>2, <2>1, <2>3 DEF CodeInv, GuessesAreCounted, Codes
  <2> QED
    BY <2>2, <2>3 DEF RegisterAccount
<1>6. OneIsIssued'
  <2>1. Issuing' \subseteq {Register}
    BY <1>1, <1>2 DEF Issuing
  <2>2. Unverified' \subseteq {Register}
    BY <1>3 DEF Unverified
  <2>3. \A i \in Issuers : stage'[i] # "deleting"
    BY <1>1, <1>2 DEF Issuing
  <2> QED
    BY <2>1, <2>2, <2>3 DEF OneIsIssued
<1> QED
  BY <1>4, <1>5, <1>6 DEF CodeInv

LEMMA IssuingStep ==
  ASSUME AccountTypes, CodeInv, NEW i \in Issuers,
         CheckResend(i) \/ FindCodes(i)
  PROVE  CodeInv'
<1> USE AccountAssumption DEF AccountCalls
<1>1. /\ UNCHANGED <<account, code, subject, guess, compared, guessRaced>>
      /\ Codes' = Codes /\ Unverified' = Unverified
  BY DEF CheckResend, FindCodes, Codes, Unverified
<1>2. /\ stage[i] \in {"idle", "issuing"}
      /\ stage'[i] \in {"issuing", "deleting"}
      /\ \A c \in AccountCalls : c # i => stage'[c] = stage[c]
  BY DEF CheckResend, FindCodes, ToStage, Unused, AccountTypes, CallsTyped
<1>3. \A v \in Verifies : stage'[v] = stage[v]
  BY <1>2
<1>4. CodesComeLast'
  <2>1. Register \in Issuers /\ (Unused(Register)' => Unused(Register))
    BY <1>2 DEF Unused, Issuers
  <2>2. ~Unused(Register)
    <3>1. CASE CheckResend(i)
      BY <3>1 DEF CheckResend, CodeInv, CodesComeLast
    <3>2. CASE FindCodes(i)
      BY <3>2 DEF FindCodes, CodeInv, CodesComeLast, Issuing
    <3> QED
      BY <3>1, <3>2
  <2> QED
    BY <1>1, <1>2, <2>1, <2>2 DEF CodeInv, CodesComeLast
<1>5. GuessesAreCounted'
  BY <1>1, <1>3 DEF CodeInv, GuessesAreCounted
<1>6. OneIsIssued'
  <2>1. CASE CheckResend(i)
    <3>1. ~issueRaced' => ~issueRaced /\ Issuing = {}
      BY <2>1 DEF CheckResend
    <3>2. stage'[i] = "issuing"
      BY <2>1 DEF CheckResend, ToStage, AccountTypes, CallsTyped
    <3> QED
      BY <1>1, <1>2, <3>1, <3>2 DEF CodeInv, OneIsIssued, Issuing
  <2>2. CASE FindCodes(i)
    <3>1. issueRaced' = issueRaced /\ found' = [found EXCEPT ![i] = Unverified]
      BY <2>2 DEF FindCodes
    <3>2. Issuing' = Issuing
      BY <1>2, <2>2 DEF FindCodes, Issuing
    <3>3. \A j \in Issuers : stage'[j] = "deleting" /\ j # i =>
            stage[j] = "deleting" /\ found'[j] = found[j]
      BY <1>2, <3>1
    <3>4. found'[i] = Unverified
      BY <3>1 DEF AccountTypes, AccountTypeOK
    <3> QED
      BY <1>1, <3>1, <3>2, <3>3, <3>4 DEF CodeInv, OneIsIssued
  <2> QED
    BY <2>1, <2>2
<1> QED
  BY <1>4, <1>5, <1>6 DEF CodeInv

LEMMA IssueStep ==
  ASSUME AccountTypes, CodeInv, NEW i \in Issuers, IssueCode(i)
  PROVE  CodeInv'
<1> USE AccountAssumption DEF AccountCalls
<1>1. /\ UNCHANGED <<account, found, subject, guess, compared, guessRaced,
                     issueRaced>>
      /\ code' = ReplaceCodes(i)
  BY DEF IssueCode
<1>2. /\ stage[i] = "deleting" /\ stage'[i] = "done"
      /\ \A c \in AccountCalls : c # i => stage'[c] = stage[c]
  BY DEF IssueCode, ToStage, AccountTypes, CallsTyped
<1>3. \A v \in Verifies : stage'[v] = stage[v]
  BY <1>2
<1>4. i \in Issuing /\ Register \in Issuers
  BY <1>2 DEF Issuing, Issuers
<1>5. CodesComeLast'
  <2>1. ~Unused(Register)'
    BY <1>2, <1>4 DEF CodeInv, CodesComeLast, Unused
  <2> QED
    BY <1>1, <1>2, <2>1, Replaced DEF CodeInv, CodesComeLast
<1>6. GuessesAreCounted'
  BY <1>1, <1>2, <1>3, IssuedGuesses
<1>7. OneIsIssued'
  <2> SUFFICES ASSUME ~issueRaced'
               PROVE  OneIsIssued'
    BY DEF OneIsIssued
  <2>1. Issuing' \subseteq Issuing \ {i}
    BY <1>2 DEF Issuing
  <2>2. Unverified' \subseteq {i}
    BY <1>1, <1>2, Replaced DEF CodeInv, OneIsIssued
  <2>3. \A j \in Issuing : j = i
    BY <1>1, <1>4 DEF CodeInv, OneIsIssued
  <2>4. \A j \in Issuers : stage'[j] # "deleting"
    BY <2>1, <2>3 DEF Issuing
  <2> QED
    BY <2>1, <2>2, <2>3, <2>4 DEF OneIsIssued
<1> QED
  BY <1>5, <1>6, <1>7 DEF CodeInv

\* A step of one row: no code is added and none is unverified again.
RowKept(i) ==
  /\ \A j \in Issuers : j # i => code'[j] = code[j]
  /\ i \in Codes
  /\ code'[i] # Absent =>
       /\ code'[i].verified \/ ~code[i].verified
       /\ code'[i].guesses >= code[i].guesses

LEMMA KeptRow ==
  ASSUME AccountTypes, NEW i \in Issuers, RowKept(i)
  PROVE  /\ Codes' \subseteq Codes
         /\ Unverified' \subseteq Unverified
         /\ \A j \in Codes' : code'[j].guesses >= code[j].guesses
<1>1. \A j \in Codes : code[j].guesses \in Nat
  BY DEF AccountTypes, AccountTypeOK, Codes
<1> QED
  BY <1>1 DEF RowKept, Codes, Unverified

\* Fewer codes, and verifications and calls as before, disturb no issuing.
LEMMA FewerCodes ==
  ASSUME AccountTypes, CodeInv,
         Codes' \subseteq Codes, Unverified' \subseteq Unverified,
         UNCHANGED <<found, issueRaced>>, account'.exists = account.exists,
         \A i \in Issuers : stage'[i] = stage[i],
         \A i \in Issuers : compared'[i] # 0 => compared[i] # 0 \/ i \in Codes
  PROVE  CodesComeLast' /\ OneIsIssued'
<1>1. Issuing' = Issuing /\ Register \in Issuers
  BY DEF Issuing, Issuers
<1>2. CodesComeLast'
  BY <1>1 DEF CodeInv, CodesComeLast, Unused
<1>3. OneIsIssued'
  BY <1>1 DEF CodeInv, OneIsIssued
<1> QED
  BY <1>2, <1>3

LEMMA AgeStep ==
  ASSUME AccountTypes, CodeInv, NEW i \in Issuers, AgeCode(i)
  PROVE  CodeInv'
<1>1. UNCHANGED <<account, found, stage, subject, guess, compared, guessRaced,
                  issueRaced>>
  BY DEF AgeCode
<1>2. i \in Codes /\ code[i] \in CodeRows \ {Absent}
  BY DEF AgeCode, Codes, AccountTypes, AccountTypeOK, CodeRows
<1>3. /\ \A j \in Issuers : j # i => code'[j] = code[j]
      /\ code'[i].guesses = code[i].guesses
      /\ code'[i].verified = code[i].verified
  BY <1>2 DEF AgeCode, AccountTypes, AccountTypeOK, CodeRows
<1>4. RowKept(i)
  BY <1>2, <1>3 DEF RowKept, CodeRows
<1>5. Codes' \subseteq Codes /\ Unverified' \subseteq Unverified
  BY <1>4, KeptRow
<1>6. CodesComeLast' /\ OneIsIssued'
  BY <1>1, <1>5, FewerCodes
<1>7. GuessesAreCounted'
  BY <1>1, <1>3, <1>5 DEF CodeInv, GuessesAreCounted, Codes
<1> QED
  BY <1>6, <1>7 DEF CodeInv

LEMMA ReadStep ==
  ASSUME AccountTypes, CodeInv, NEW v \in Verifies, ReadCode(v)
  PROVE  CodeInv'
<1> USE AccountAssumption DEF AccountCalls, WithSubject
<1>1. UNCHANGED <<account, code, found, issueRaced>>
  BY DEF ReadCode
<1>2. /\ stage[v] = "idle" /\ stage'[v] = "compared"
      /\ \A c \in Issuers \union Verifies : c # v => stage'[c] = stage[c]
  BY DEF ReadCode, ToStage, Unused, AccountTypes, CallsTyped
<1>3. PICK i \in Codes, right \in BOOLEAN :
        /\ Usable(i)
        /\ subject' = [subject EXCEPT ![v] = i]
        /\ guessRaced' = (guessRaced \/ \E w \in Verifies :
                            stage[w] = "compared" /\ subject[w] = i)
        /\ guess' = [guess EXCEPT ![v] = right]
        /\ compared' = IF right THEN compared
                       ELSE [compared EXCEPT ![i] = @ + 1]
  BY DEF ReadCode
<1>4. i \in Issuers /\ Codes' = Codes /\ Unverified' = Unverified
  BY <1>1 DEF Codes, Unverified
<1>5. /\ subject'[v] = i /\ guess'[v] = right
      /\ \A w \in Verifies : w # v =>
           subject'[w] = subject[w] /\ guess'[w] = guess[w]
  BY <1>3 DEF AccountTypes, CallsTyped
<1>6. /\ \A j \in Issuers : compared[j] \in Nat
      /\ \A j \in Issuers : j # i => compared'[j] = compared[j]
      /\ compared'[i] = IF right THEN compared[i] ELSE compared[i] + 1
  BY <1>3, <1>4 DEF AccountTypes, CallsTyped
<1>7. CodesComeLast' /\ OneIsIssued'
  <2>1. \A j \in Issuers : stage'[j] = stage[j]
    BY <1>2
  <2>2. \A j \in Issuers : compared'[j] # 0 => compared[j] # 0 \/ j \in Codes
    BY <1>4, <1>6
  <2> QED
    BY <1>1, <1>4, <2>1, <2>2, FewerCodes
<1>8. GuessesAreCounted'
  <2> SUFFICES ASSUME ~guessRaced'
               PROVE  GuessesAreCounted'
    BY DEF GuessesAreCounted
  <2>1. ~guessRaced /\ \A w \in Verifies :
          ~(stage[w] = "compared" /\ subject[w] = i)
    BY <1>3
  <2>2. \A w, x \in Verifies :
          (stage'[w] = "compared" /\ stage'[x] = "compared"
             /\ subject'[w] = subject'[x]) => w = x
    BY <1>2, <1>5, <2>1 DEF CodeInv, GuessesAreCounted
  <2>3. /\ compared[i] <= code[i].guesses /\ code[i].guesses \in Nat
        /\ code[i].guesses < MaxGuesses
    BY <1>3, <1>4, <2>1
       DEF CodeInv, GuessesAreCounted, Usable, Unverified, Codes,
           AccountTypes, AccountTypeOK
  <2>4. \A j \in Issuers : compared'[j] <= MaxGuesses
    <3>1. compared'[i] <= MaxGuesses
      BY <1>4, <1>6, <2>3
    <3> QED
      BY <1>6, <2>1, <3>1 DEF CodeInv, GuessesAreCounted
  <2>5. ASSUME NEW j \in Codes
        PROVE  \/ compared'[j] <= code[j].guesses
               \/ /\ compared'[j] = code[j].guesses + 1
                  /\ \E w \in Verifies :
                       stage'[w] = "compared" /\ ~guess'[w] /\ subject'[w] = j
    <3>1. CASE j # i
      <4>1. compared'[j] = compared[j]
        BY <1>6, <3>1 DEF Codes
      <4>2. ASSUME NEW w \in Verifies, stage[w] = "compared", ~guess[w],
                   subject[w] = j
            PROVE  stage'[w] = "compared" /\ ~guess'[w] /\ subject'[w] = j
        BY <1>2, <1>5, <4>2
      <4> QED
        BY <2>1, <4>1, <4>2 DEF CodeInv, GuessesAreCounted
    <3>2. CASE j = i /\ right
      BY <1>6, <2>3, <3>2
    <3>3. CASE j = i /\ ~right
      BY <1>2, <1>4, <1>5, <1>6, <2>3, <3>3
    <3> QED
      BY <3>1, <3>2, <3>3
  <2> QED
    BY <1>1, <1>4, <2>2, <2>4, <2>5 DEF GuessesAreCounted
<1> QED
  BY <1>7, <1>8 DEF CodeInv

\* The step that follows the comparison.
LEMMA WroteGuess ==
  ASSUME AccountTypes, NEW v \in Verifies,
         CountGuess(v) \/ MarkAccount(v) \/ MarkCode(v)
  PROVE  /\ stage'[v] # "compared"
         /\ \A c \in Issuers \union Verifies : c # v => stage'[c] = stage[c]
         /\ UNCHANGED <<found, subject, guess, compared, guessRaced,
                        issueRaced>>
         /\ account'.exists = account.exists
<1> USE AccountAssumption
    DEF AccountTypes, AccountTypeOK, CallsTyped, AccountCalls, ToStage,
        codeVars
<1>1. CASE CountGuess(v)
  BY <1>1 DEF CountGuess
<1>2. CASE MarkAccount(v)
  BY <1>2 DEF MarkAccount
<1>3. CASE MarkCode(v)
  BY <1>3 DEF MarkCode
<1> QED
  BY <1>1, <1>2, <1>3

LEMMA RightGuessStep ==
  ASSUME AccountTypes, CodeInv, NEW v \in Verifies,
         MarkAccount(v) \/ MarkCode(v)
  PROVE  CodeInv'
<1> USE AccountAssumption
<1> DEFINE i == subject[v]
<1>1. /\ stage'[v] # "compared" /\ guess[v]
      /\ \A c \in Issuers \union Verifies : c # v => stage'[c] = stage[c]
      /\ UNCHANGED <<found, subject, guess, compared, guessRaced, issueRaced>>
      /\ account'.exists = account.exists
  BY WroteGuess DEF MarkAccount, MarkCode
<1>2. \A j \in Issuers : stage'[j] = stage[j]
  BY <1>1
<1>3. /\ Codes' \subseteq Codes /\ Unverified' \subseteq Unverified
      /\ \A j \in Codes' : code'[j].guesses = code[j].guesses
  <2>1. CASE code' = code
    BY <2>1 DEF Codes, Unverified
  <2>2. CASE i \in Codes /\ code' = [code EXCEPT ![i].verified = TRUE]
    <3>1. i \in Issuers /\ code[i] \in CodeRows \ {Absent}
      BY <2>2 DEF Codes, AccountTypes, AccountTypeOK, CodeRows
    <3>2. /\ \A j \in Issuers : j # i => code'[j] = code[j]
          /\ code'[i].guesses = code[i].guesses /\ code'[i].verified
      BY <2>2, <3>1 DEF AccountTypes, AccountTypeOK, CodeRows
    <3> QED
      BY <2>2, <3>1, <3>2 DEF Codes, Unverified
  <2> QED
    BY <2>1, <2>2 DEF MarkAccount, MarkCode, codeVars
<1>4. CodesComeLast' /\ OneIsIssued'
  BY <1>1, <1>2, <1>3, FewerCodes
<1>5. GuessesAreCounted'
  BY <1>1, <1>3 DEF CodeInv, GuessesAreCounted
<1> QED
  BY <1>4, <1>5 DEF CodeInv

LEMMA WrongGuessStep ==
  ASSUME AccountTypes, CodeInv, NEW v \in Verifies, CountGuess(v)
  PROVE  CodeInv'
<1> USE AccountAssumption
<1> DEFINE i == subject[v]
<1>1. /\ stage[v] = "compared" /\ stage'[v] # "compared"
      /\ \A c \in Issuers \union Verifies : c # v => stage'[c] = stage[c]
      /\ UNCHANGED <<found, subject, guess, compared, guessRaced, issueRaced>>
      /\ account'.exists = account.exists
  BY WroteGuess DEF CountGuess
<1>2. \A j \in Issuers : stage'[j] = stage[j]
  BY <1>1
<1>3. /\ Codes' \subseteq Codes /\ Unverified' \subseteq Unverified
      /\ \A j \in Codes' : j # i => code'[j] = code[j]
      /\ i \in Codes' => code'[i].guesses = code[i].guesses + 1
  <2>1. CASE i \notin Codes
    BY <2>1 DEF CountGuess, Codes, Unverified
  <2>2. CASE i \in Codes
    <3>1. i \in Issuers /\ code[i] \in CodeRows \ {Absent}
      BY <2>2 DEF Codes, AccountTypes, AccountTypeOK, CodeRows
    <3>2. /\ \A j \in Issuers : j # i => code'[j] = code[j]
          /\ code'[i].guesses = code[i].guesses + 1
          /\ code'[i].verified = code[i].verified
      BY <2>2, <3>1 DEF CountGuess, AccountTypes, AccountTypeOK, CodeRows
    <3> QED
      BY <2>2, <3>1, <3>2 DEF Codes, Unverified
  <2> QED
    BY <2>1, <2>2
<1>4. CodesComeLast' /\ OneIsIssued'
  BY <1>1, <1>2, <1>3, FewerCodes
<1>5. GuessesAreCounted'
  <2> SUFFICES ASSUME ~guessRaced
               PROVE  GuessesAreCounted'
    BY <1>1 DEF GuessesAreCounted
  <2>1. \A w, x \in Verifies :
          (stage'[w] = "compared" /\ stage'[x] = "compared"
             /\ subject'[w] = subject'[x]) => w = x
    BY <1>1 DEF CodeInv, GuessesAreCounted
  <2>2. ASSUME NEW j \in Codes'
        PROVE  \/ compared[j] <= code'[j].guesses
               \/ /\ compared[j] = code'[j].guesses + 1
                  /\ \E w \in Verifies :
                       stage'[w] = "compared" /\ ~guess[w] /\ subject[w] = j
    <3>1. /\ j \in Codes /\ compared[j] \in Nat /\ code[j].guesses \in Nat
      BY <1>3 DEF Codes, AccountTypes, AccountTypeOK, CallsTyped
    <3>2. CASE j = i
      BY <1>3, <2>2, <3>1, <3>2 DEF CodeInv, GuessesAreCounted
    <3>3. CASE j # i
      BY <1>1, <1>3, <2>2, <3>1, <3>3 DEF CodeInv, GuessesAreCounted
    <3> QED
      BY <3>2, <3>3
  <2> QED
    BY <1>1, <2>1, <2>2 DEF CodeInv, GuessesAreCounted
<1> QED
  BY <1>4, <1>5 DEF CodeInv

\* CodesHoldUnlessRaced: one code is good at a time, unless two were issued at
\* once; and no more guesses are compared with it than are allowed, unless two
\* were compared at once.
THEOREM CodesHold == AccountSpec => []CodesHoldUnlessRaced
<1>1. AccountInit => CodeInv
  <2> SUFFICES ASSUME AccountInit
               PROVE  CodeInv
    OBVIOUS
  <2> USE DEF AccountInit
  <2>1. Codes = {} /\ Unverified = {} /\ Issuing = {}
    BY DEF Codes, Unverified, Issuing, AccountCalls
  <2>2. CodesComeLast
    BY <2>1 DEF CodesComeLast
  <2>3. GuessesAreCounted
    BY <2>1, AccountAssumption DEF GuessesAreCounted, AccountCalls
  <2>4. OneIsIssued
    BY <2>1 DEF OneIsIssued, AccountCalls
  <2> QED
    BY <2>2, <2>3, <2>4 DEF CodeInv
<1>2. SessionInv /\ CodeInv /\ [AccountNext]_accountVars => CodeInv'
  <2> SUFFICES ASSUME AccountTypes, CodeInv, [AccountNext]_accountVars
               PROVE  CodeInv'
    BY DEF SessionInv
  <2>1. CASE SessionStep
    BY <2>1, SessionsKeepCodeInv
  <2>2. CASE RegisterAccount
    BY <2>2, RegisterStep
  <2>3. ASSUME NEW i \in Issuers,
               CheckResend(i) \/ FindCodes(i) \/ IssueCode(i) \/ AgeCode(i)
        PROVE  CodeInv'
    BY <2>3, IssuingStep, IssueStep, AgeStep
  <2>4. ASSUME NEW v \in Verifies,
               ReadCode(v) \/ CountGuess(v) \/ MarkAccount(v) \/ MarkCode(v)
        PROVE  CodeInv'
    BY <2>4, ReadStep, WrongGuessStep, RightGuessStep
  <2> QED
    BY <2>1, <2>2, <2>3, <2>4 DEF AccountNext, SessionStep
<1>3. CodeInv => CodesHoldUnlessRaced
  <2> SUFFICES ASSUME CodeInv
               PROVE  CodesHoldUnlessRaced
    OBVIOUS
  <2>1. OneCodeUnlessRaced
    <3>1. CASE ~issueRaced
      <4>1. \A i, j \in Unverified : i = j
        BY <3>1 DEF CodeInv, OneIsIssued
      <4> QED
        BY <4>1, AtMostOne DEF OneCodeUnlessRaced
    <3> QED
      BY <3>1 DEF OneCodeUnlessRaced
  <2>2. GuessesBoundedUnlessRaced
    BY DEF CodeInv, GuessesAreCounted, GuessesBoundedUnlessRaced
  <2> QED
    BY <2>1, <2>2 DEF CodesHoldUnlessRaced
<1> QED
  BY <1>1, <1>2, <1>3, SessionInvariant, PTL DEF AccountSpec
-----------------------------------------------------------------------------
(***************************************************************************)
(* The guard of the endpoints                                              *)
(***************************************************************************)

\* What resolveLevel makes of a score.
LEMMA Levels ==
  ASSUME NEW s \in Nat
  PROVE  /\ LevelOf(s) \in 1..5
         /\ s < 30 <=> LevelOf(s) = 1
<1> DEFINE Passed == {t \in {30, 60, 100, 160} : s >= t}
<1>1. /\ IsFiniteSet({}) /\ Cardinality({}) = 0
      /\ IsFiniteSet({30}) /\ Cardinality({30}) = 1
  BY FS_EmptySet, FS_Singleton
<1>2. IsFiniteSet({30, 60}) /\ Cardinality({30, 60}) = 2
  <2>1. {30, 60} = {30} \union {60} /\ 60 \notin {30}
    OBVIOUS
  <2> QED
    BY <1>1, <2>1, FS_AddElement
<1>3. IsFiniteSet({30, 60, 100}) /\ Cardinality({30, 60, 100}) = 3
  <2>1. {30, 60, 100} = {30, 60} \union {100} /\ 100 \notin {30, 60}
    OBVIOUS
  <2> QED
    BY <1>2, <2>1, FS_AddElement
<1>4. Cardinality({30, 60, 100, 160}) = 4
  <2> DEFINE T == {30, 60, 100}
  <2>1. {30, 60, 100, 160} = T \union {160}
    OBVIOUS
  <2>2. 160 \notin T /\ IsFiniteSet(T) /\ Cardinality(T) = 3
    BY <1>3
  <2> HIDE DEF T
  <2>3. Cardinality(T \union {160}) = 4
    BY <2>2, FS_AddElement
  <2> QED
    BY <2>1, <2>3
<1>5. \/ s < 30 /\ Passed = {}
      \/ s >= 30 /\ Passed \in {{30}, {30, 60}, {30, 60, 100},
                                {30, 60, 100, 160}}
  <2>1. s < 30 => Passed = {}
    OBVIOUS
  <2>2. s >= 30 /\ s < 60 => Passed = {30}
    OBVIOUS
  <2>3. s >= 60 /\ s < 100 => Passed = {30, 60}
    OBVIOUS
  <2>4. s >= 100 /\ s < 160 => Passed = {30, 60, 100}
    OBVIOUS
  <2>5. s >= 160 => Passed = {30, 60, 100, 160}
    OBVIOUS
  <2> HIDE DEF Passed
  <2> QED
    BY <2>1, <2>2, <2>3, <2>4, <2>5
<1> HIDE DEF Passed
<1>6. \/ s < 30 /\ Cardinality(Passed) = 0
      \/ s >= 30 /\ Cardinality(Passed) \in 1..4
  BY <1>1, <1>2, <1>3, <1>4, <1>5
<1>7. LevelOf(s) = 1 + Cardinality(Passed)
  BY DEF LevelOf, Passed
<1> QED
  BY <1>6, <1>7

\* A request that has not been counted yet has its window at hand.
WindowsAtHand ==
  \A r \in Arrivals : guardPc[r] = "free" => own[r] \in Windows

\* In a window where no count was lost, the requests let through have been
\* counted.
PassedAreCounted ==
  \A w \in Windows \ blind : passed[w] <= hits[w] /\ passed[w] <= MaxRequests

\* The cooldown fits the score until a request raises it, and then that
\* request is the only one that may set the cooldown, with the score at hand.
CooldownInStep ==
  \/ outrun
  \/ \E r \in Arrivals : guardPc[r] = "failed"
  \/ /\ \A r \in Scored : own[r] = risk /\ Scored = {r}
     /\ Scored = {} /\ cooldown # 0 => cooldown = CooldownOf(LevelOf(risk))
     /\ CooldownOf(LevelOf(risk)) = 0 => cooldown = 0

AbuseInv ==
  AbuseTypeOK /\ WindowsAtHand /\ PassedAreCounted /\ CooldownInStep

LEMMA ScoresAreNatural ==
  \A n \in Nat : RiskDelta(n) \in Nat
BY DEF RiskDelta

LEMMA AbuseTypesKept ==
  AbuseTypeOK /\ WindowsAtHand /\ [AbuseNext]_abuseVars
    => AbuseTypeOK' /\ WindowsAtHand'
<1> SUFFICES ASSUME AbuseTypeOK, WindowsAtHand, [AbuseNext]_abuseVars
             PROVE  AbuseTypeOK' /\ WindowsAtHand'
  OBVIOUS
<1> USE AbuseAssumption DEF AbuseTypeOK, WindowsAtHand
<1>0. Windows \subseteq Nat
  BY DEF Windows
<1>1. CASE UNCHANGED abuseVars
  BY <1>1 DEF abuseVars
<1>2. CASE NextWindow \/ EndCooldown \/ ForgetRisk
  <2>1. CASE NextWindow
    <3>1. window' \in Windows
      BY <2>1 DEF NextWindow, Windows
    <3> QED
      BY <2>1, <3>1 DEF NextWindow
  <2>2. CASE EndCooldown
    BY <2>2 DEF EndCooldown
  <2>3. CASE ForgetRisk
    BY <2>3 DEF ForgetRisk
  <2> QED
    BY <1>2, <2>1, <2>2, <2>3
<1>3. ASSUME NEW r \in Arrivals, ReadCooldown(r)
      PROVE  AbuseTypeOK' /\ WindowsAtHand'
  BY <1>0, <1>3 DEF ReadCooldown
<1>4. ASSUME NEW r \in Arrivals, Count(r)
      PROVE  AbuseTypeOK' /\ WindowsAtHand'
  <2>1. own[r] \in Windows /\ Counted(own[r]) \in Nat
    BY <1>4 DEF Count, Counted
  <2> QED
    BY <1>0, <1>4, <2>1 DEF Count
<1>5. ASSUME NEW r \in Arrivals, LoseCount(r)
      PROVE  AbuseTypeOK' /\ WindowsAtHand'
  <2>1. own[r] \in Windows
    BY <1>5 DEF LoseCount
  <2>2. PICK n \in {0, 1} : hits' = [hits EXCEPT ![own[r]] = @ + n]
    BY <1>5 DEF LoseCount
  <2>3. hits' \in [Windows -> Nat]
    BY <2>1, <2>2
  <2>4. passed' \in [Windows -> Nat] /\ blind' \subseteq Windows
    BY <1>5, <2>1 DEF LoseCount
  <2> QED
    BY <1>5, <2>3, <2>4 DEF LoseCount
<1>6. ASSUME NEW r \in Arrivals, BumpRisk(r)
      PROVE  AbuseTypeOK' /\ WindowsAtHand'
  BY <1>6, ScoresAreNatural DEF BumpRisk, Score
<1>7. ASSUME NEW r \in Arrivals, SetCooldown(r)
      PROVE  AbuseTypeOK' /\ WindowsAtHand'
  <2>1. LevelOf(own[r]) \in 1..5
    BY Levels
  <2>2. CooldownOf(LevelOf(own[r])) \in {0, 2, 3, 4, 5}
    BY <2>1 DEF CooldownOf
  <2> QED
    BY <1>7, <2>2 DEF SetCooldown
<1>8. ASSUME NEW r \in Arrivals, SetReview(r) \/ FailRequest(r)
      PROVE  AbuseTypeOK' /\ WindowsAtHand'
  <2>1. CASE SetReview(r)
    BY <2>1 DEF SetReview
  <2>2. CASE FailRequest(r)
    <3>1. risk' \in Nat
      BY <2>2, ScoresAreNatural DEF FailRequest
    <3> QED
      BY <2>2, <3>1 DEF FailRequest
  <2> QED
    BY <1>8, <2>1, <2>2
<1> QED
  BY <1>1, <1>2, <1>3, <1>4, <1>5, <1>6, <1>7, <1>8 DEF AbuseNext

LEMMA PassedKept ==
  AbuseInv /\ [AbuseNext]_abuseVars => PassedAreCounted'
<1> SUFFICES ASSUME AbuseInv, [AbuseNext]_abuseVars
             PROVE  PassedAreCounted'
  OBVIOUS
<1> USE AbuseAssumption
<1>0. AbuseTypeOK /\ WindowsAtHand /\ PassedAreCounted
  BY DEF AbuseInv
<1>1. ASSUME NEW r \in Arrivals, Count(r)
      PROVE  PassedAreCounted'
  <2>1. own[r] \in Windows
    BY <1>0, <1>1 DEF Count, WindowsAtHand
  <2> QED
    BY <1>0, <1>1, <2>1 DEF Count, Counted, AbuseTypeOK, PassedAreCounted
<1>2. ASSUME NEW r \in Arrivals, LoseCount(r)
      PROVE  PassedAreCounted'
  <2>1. /\ blind' = blind \union {own[r]}
        /\ \A w \in Windows \ {own[r]} :
             hits'[w] = hits[w] /\ passed'[w] = passed[w]
    BY <1>0, <1>2 DEF LoseCount, AbuseTypeOK
  <2> QED
    BY <1>0, <2>1 DEF PassedAreCounted
<1>3. CASE UNCHANGED <<hits, passed, blind>>
  BY <1>0, <1>3 DEF PassedAreCounted
<1>4. ASSUME \/ UNCHANGED abuseVars
             \/ NextWindow \/ EndCooldown \/ ForgetRisk
             \/ \E r \in Arrivals :
                  \/ ReadCooldown(r) \/ BumpRisk(r) \/ SetCooldown(r)
                  \/ SetReview(r) \/ FailRequest(r)
      PROVE  UNCHANGED <<hits, passed, blind>>
  <2>1. CASE \/ UNCHANGED abuseVars
             \/ NextWindow \/ EndCooldown \/ ForgetRisk
    BY <2>1 DEF abuseVars, NextWindow, EndCooldown, ForgetRisk
  <2>2. ASSUME NEW r \in Arrivals,
               \/ ReadCooldown(r) \/ BumpRisk(r) \/ SetCooldown(r)
               \/ SetReview(r) \/ FailRequest(r)
        PROVE  UNCHANGED <<hits, passed, blind>>
    BY <2>2 DEF ReadCooldown, BumpRisk, SetCooldown, SetReview, FailRequest
  <2> QED
    BY <1>4, <2>1, <2>2
<1> QED
  BY <1>1, <1>2, <1>3, <1>4 DEF AbuseNext

\* What excuses a cooldown that does not fit stays.
LEMMA ExcusesStay ==
  ASSUME AbuseTypeOK, [AbuseNext]_abuseVars
  PROVE  /\ outrun \in BOOLEAN /\ (outrun => outrun')
         /\ \A r \in Arrivals : guardPc[r] = "failed" => guardPc'[r] = "failed"
<1>0. /\ guardPc \in [Arrivals -> {"idle", "free", "over", "scored", "flag",
                                  "passed", "refused", "failed"}]
      /\ outrun \in BOOLEAN
  BY DEF AbuseTypeOK
<1>1. CASE \/ UNCHANGED abuseVars
           \/ NextWindow \/ EndCooldown \/ ForgetRisk
  BY <1>0, <1>1 DEF abuseVars, NextWindow, EndCooldown, ForgetRisk
<1>2. ASSUME NEW s \in Arrivals,
             \/ ReadCooldown(s) \/ Count(s) \/ LoseCount(s) \/ BumpRisk(s)
             \/ SetCooldown(s) \/ SetReview(s) \/ FailRequest(s)
      PROVE  /\ outrun => outrun'
             /\ \A r \in Arrivals : guardPc[r] = "failed"
                                   => guardPc'[r] = "failed"
  <2>1. outrun => outrun'
    BY <1>0, <1>2 DEF ReadCooldown, Count, LoseCount, BumpRisk, SetCooldown,
                      SetReview, FailRequest
  <2>2. guardPc[s] # "failed"
    BY <1>2 DEF ReadCooldown, Count, LoseCount, BumpRisk, SetCooldown,
                SetReview, FailRequest
  <2>3. \A r \in Arrivals \ {s} : guardPc'[r] = guardPc[r]
    BY <1>0, <1>2 DEF ReadCooldown, Count, LoseCount, BumpRisk, SetCooldown,
                      SetReview, FailRequest
  <2> QED
    BY <2>1, <2>2, <2>3
<1> QED
  BY <1>0, <1>1, <1>2 DEF AbuseNext

LEMMA CooldownKept ==
  AbuseInv /\ [AbuseNext]_abuseVars => CooldownInStep'
<1> SUFFICES ASSUME AbuseInv, [AbuseNext]_abuseVars, ~outrun',
                    \A r \in Arrivals : guardPc'[r] # "failed"
             PROVE  CooldownInStep'
  BY DEF CooldownInStep
<1>0. /\ AbuseTypeOK /\ WindowsAtHand /\ AbuseTypeOK'
  BY AbuseTypesKept DEF AbuseInv
<1>00. /\ outrun \in BOOLEAN /\ (outrun => outrun')
       /\ \A r \in Arrivals : guardPc[r] = "failed" => guardPc'[r] = "failed"
  BY <1>0, ExcusesStay
<1>01. ~outrun /\ \A r \in Arrivals : guardPc[r] # "failed"
  BY <1>00
<1>02. /\ \A r \in Scored : own[r] = risk /\ Scored = {r}
       /\ Scored = {} /\ cooldown # 0 => cooldown = CooldownOf(LevelOf(risk))
       /\ CooldownOf(LevelOf(risk)) = 0 => cooldown = 0
  BY <1>00, <1>01 DEF AbuseInv, CooldownInStep
<1>1. ASSUME UNCHANGED <<risk, cooldown>>, Scored' = Scored,
             \A r \in Scored : own'[r] = own[r]
      PROVE  CooldownInStep'
  BY <1>02, <1>1 DEF CooldownInStep
<1>2. ASSUME NEW r \in Arrivals,
             ReadCooldown(r) \/ Count(r) \/ LoseCount(r) \/ SetReview(r)
      PROVE  CooldownInStep'
  <2>1. UNCHANGED <<risk, cooldown>>
    BY <1>2 DEF ReadCooldown, Count, LoseCount, SetReview
  <2>2. guardPc[r] # "scored" /\ guardPc'[r] # "scored"
    BY <1>0, <1>2 DEF ReadCooldown, Count, LoseCount, SetReview, AbuseTypeOK
  <2>3. \A s \in Arrivals \ {r} :
          guardPc'[s] = guardPc[s] /\ own'[s] = own[s]
    BY <1>0, <1>2 DEF ReadCooldown, Count, LoseCount, SetReview, AbuseTypeOK
  <2>4. Scored' = Scored /\ \A s \in Scored : own'[s] = own[s]
    BY <2>2, <2>3 DEF Scored
  <2> QED
    BY <1>1, <2>1, <2>4
<1>3. CASE NextWindow \/ UNCHANGED abuseVars
  BY <1>1, <1>3 DEF NextWindow, abuseVars, Scored
<1>4. CASE EndCooldown
  <2>1. cooldown' = 0 /\ UNCHANGED <<risk, own>> /\ Scored' = Scored
    BY <1>4 DEF EndCooldown, Scored
  <2> QED
    BY <1>02, <2>1 DEF CooldownInStep
<1>5. CASE ForgetRisk
  <2>1. /\ cooldown' = 0 /\ Scored' = {}
    BY <1>5 DEF ForgetRisk, Scored
  <2> QED
    BY <2>1 DEF CooldownInStep
<1>6. ASSUME NEW r \in Arrivals, BumpRisk(r)
      PROVE  CooldownInStep'
  <2>1. Scored = {}
    BY <1>6 DEF BumpRisk
  <2>2. /\ risk' \in Nat /\ risk' >= risk /\ own'[r] = risk'
        /\ UNCHANGED cooldown
    BY <1>0, <1>6, ScoresAreNatural DEF BumpRisk, Score, AbuseTypeOK
  <2>3. Scored' = {r}
    BY <1>0, <1>6, <2>1 DEF BumpRisk, Scored, AbuseTypeOK
  <2>4. ASSUME CooldownOf(LevelOf(risk')) = 0
        PROVE  cooldown' = 0
    <3>1. LevelOf(risk') = 1
      BY <2>2, <2>4, Levels DEF CooldownOf
    <3>2. LevelOf(risk) = 1
      BY <1>0, <2>2, <3>1, Levels DEF AbuseTypeOK
    <3> QED
      BY <1>02, <2>2, <3>2 DEF CooldownOf
  <2> QED
    BY <2>2, <2>3, <2>4 DEF CooldownInStep
<1>7. ASSUME NEW r \in Arrivals, SetCooldown(r)
      PROVE  CooldownInStep'
  <2>1. r \in Scored
    BY <1>7 DEF SetCooldown, Scored
  <2>2. own[r] = risk /\ Scored = {r}
    BY <1>02, <2>1
  <2>3. Scored' = {}
    BY <1>0, <1>7, <2>2 DEF SetCooldown, Scored, AbuseTypeOK
  <2>4. /\ risk' = risk
        /\ IF CooldownOf(LevelOf(risk)) > 0
             THEN cooldown' = CooldownOf(LevelOf(risk))
             ELSE cooldown' = cooldown
    BY <1>7, <2>2 DEF SetCooldown
  <2>5. CooldownOf(LevelOf(risk)) \in Nat
    BY <1>0, Levels DEF CooldownOf, AbuseTypeOK
  <2>6. CASE CooldownOf(LevelOf(risk)) = 0
    <3>1. cooldown' = cooldown /\ cooldown = 0
      BY <1>02, <2>4, <2>6
    <3> QED
      BY <2>3, <3>1 DEF CooldownInStep
  <2>7. CASE CooldownOf(LevelOf(risk)) > 0
    <3>1. cooldown' = CooldownOf(LevelOf(risk'))
      BY <2>4, <2>7
    <3>2. CooldownOf(LevelOf(risk')) # 0
      BY <2>4, <2>7
    <3> QED
      BY <2>3, <3>1, <3>2 DEF CooldownInStep
  <2> QED
    BY <2>5, <2>6, <2>7
<1>8. ASSUME NEW r \in Arrivals, FailRequest(r)
      PROVE  FALSE
  BY <1>0, <1>8 DEF FailRequest, AbuseTypeOK
<1> QED
  BY <1>2, <1>3, <1>4, <1>5, <1>6, <1>7, <1>8 DEF AbuseNext

\* BurstsAreHeld: the guard lets no more requests through in a window than
\* maxRequestsPerWindow, unless its counter failed, and the cooldown in force
\* is the one of the score, unless requests overtook each other or failed.
THEOREM GuardHoldsBursts == AbuseSpec => []BurstsAreHeld
<1>1. AbuseInit => AbuseInv
  <2> SUFFICES ASSUME AbuseInit
               PROVE  AbuseInv
    OBVIOUS
  <2> USE AbuseAssumption DEF AbuseInit
  <2>1. 0 \in Windows
    BY DEF Windows
  <2>2. AbuseTypeOK
    BY <2>1 DEF AbuseTypeOK
  <2>3. WindowsAtHand /\ PassedAreCounted
    BY DEF WindowsAtHand, PassedAreCounted
  <2>4. CooldownInStep
    BY DEF CooldownInStep, Scored
  <2> QED
    BY <2>2, <2>3, <2>4 DEF AbuseInv
<1>2. AbuseInv /\ [AbuseNext]_abuseVars => AbuseInv'
  BY AbuseTypesKept, PassedKept, CooldownKept DEF AbuseInv
<1>3. AbuseInv => BurstsAreHeld
  BY DEF AbuseInv, PassedAreCounted, CooldownInStep, BurstsAreHeld,
         LimitHoldsUnlessBlind, CooldownFitsUnlessOutrun
<1> QED
  BY <1>1, <1>2, <1>3, PTL DEF AbuseSpec
=============================================================================
