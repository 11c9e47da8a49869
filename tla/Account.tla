------------------------------- MODULE Account ------------------------------
(***************************************************************************)
(* One account, of a player or of an owner: registering, proving the email *)
(* address with a one-time code, logging in, refreshing a session, and     *)
(* resetting a forgotten password.                                         *)
(*                                                                         *)
(* A session is a refresh token.  The program keeps no list of them: a     *)
(* player's token carries the version the account had when the token was   *)
(* signed, and is good while the account still has it; an owner's is good  *)
(* while the account is active.  A reset link carries a fingerprint of the *)
(* password it replaces.                                                   *)
(*                                                                         *)
(* Every call reads the account or the code, decides, and writes later.    *)
(***************************************************************************)
EXTENDS Naturals, FiniteSets

CONSTANTS
  Register,       \* the registration, which issues the first code
  Resends,        \* calls of OtpService.resendOtp
  Verifies,       \* calls of OtpService.verifyOtp
  Logins,         \* calls of login
  Refreshes,      \* calls of refresh
  Forgots,        \* calls of forgotPassword
  Resets,         \* calls of resetPassword
  MaxGuesses,     \* otpMaxAttempts
  Absent          \* no code, no token, no call

Issuers == {Register} \union Resends      \* each issues one code, its own
Signers == Logins \union Refreshes        \* each signs one token, its own
AccountCalls == Issuers \union Verifies \union Signers \union Forgots
                  \union Resets

ASSUME AccountAssumption ==
  /\ MaxGuesses \in Nat \ {0}
  /\ Absent \notin AccountCalls
  /\ Register \notin Resends
  /\ Issuers \intersect
       (Verifies \union Signers \union Forgots \union Resets) = {}
  /\ Verifies \intersect (Signers \union Forgots \union Resets) = {}
  /\ Logins \intersect Refreshes = {}
  /\ Signers \intersect (Forgots \union Resets) = {}
  /\ Forgots \intersect Resets = {}

VARIABLES
  kind,        \* whose account it is
  account,     \* the users or owners row
  code,        \* the email_verification_otps row of each issuer
  found,       \* the codes each issuer's transaction is to delete
  token,       \* the refresh token of each signer
  link,        \* the fingerprint in the mail of each forgotPassword
  stage,       \* how far each call has come
  subject,     \* the code, token or link a call is about
  guess,       \* whether a verification was given the right code
  compared,    \* history: wrong guesses compared with each code
  redeemed,    \* history: the refreshes that accepted each token
  guessRaced,  \* history: two verifications of a code at once
  issueRaced,  \* history: two codes were being issued at once
  tokenRaced   \* history: two calls that change the version at once

codeVars == <<code, found, guess, compared, guessRaced, issueRaced>>
sessionVars == <<token, link, redeemed, tokenRaced>>
accountVars == <<kind, account, codeVars, sessionVars, stage, subject>>

-----------------------------------------------------------------------------
ToStage(c, s) == stage' = [stage EXCEPT ![c] = s]
Unused(c) == stage[c] = "idle"

Sessions == {t \in Signers : token[t] # Absent}

\* The checks a refresh token passes now.
Good(t) ==
  /\ account.active
  /\ kind = "player" => token[t].version = account.version

NewCode == [guesses |-> 0, verified |-> FALSE, age |-> "fresh"]
Codes == {i \in Issuers : code[i] # Absent}
Unverified == {i \in Codes : ~code[i].verified}

\* The transaction of createOtpRecord: the codes it found go, and one comes.
ReplaceCodes(i) ==
  [j \in Issuers |-> IF j = i THEN NewCode
                     ELSE IF j \in found[i] THEN Absent ELSE code[j]]

-----------------------------------------------------------------------------
\* Each password is a number, the next one larger.
AccountInit ==
  /\ kind \in {"player", "owner"}
  /\ account = [exists |-> FALSE, active |-> TRUE, verified |-> FALSE,
                version |-> 0, password |-> 0]
  /\ code = [i \in Issuers |-> Absent]
  /\ found = [i \in Issuers |-> {}]
  /\ token = [s \in Signers |-> Absent]
  /\ link = [f \in Forgots |-> Absent]
  /\ stage = [c \in AccountCalls |-> "idle"]
  /\ subject = [c \in Verifies \union Refreshes \union Resets |-> Absent]
  /\ guess = [v \in Verifies |-> FALSE]
  /\ compared = [i \in Issuers |-> 0]
  /\ redeemed = [s \in Signers |-> {}]
  /\ guessRaced = FALSE /\ issueRaced = FALSE /\ tokenRaced = FALSE

-----------------------------------------------------------------------------
(***************************************************************************)
(* Codes                                                                   *)
(***************************************************************************)

\* A player and the first code are one transaction; an owner's code follows.
RegisterAccount ==
  /\ Unused(Register)
  /\ account' = [account EXCEPT !.exists = TRUE]
  /\ IF kind = "player"
       THEN code' = ReplaceCodes(Register) /\ ToStage(Register, "done")
       ELSE ToStage(Register, "issuing") /\ UNCHANGED code
  /\ UNCHANGED <<kind, found, sessionVars, subject, guess, compared,
                 guessRaced, issueRaced>>

Issuing == {i \in Issuers : stage[i] \in {"issuing", "deleting"}}

\* resendOtp: not for a verified account, nor within an hour of another code.
CheckResend(r) ==
  /\ r \in Resends
  /\ Unused(r)
  /\ account.exists /\ ~account.verified
  /\ \A i \in Codes : code[i].age = "old"
  /\ ToStage(r, "issuing")
  /\ issueRaced' = (issueRaced \/ Issuing # {})
  /\ UNCHANGED <<kind, account, code, found, sessionVars, subject, guess,
                 compared, guessRaced>>

\* Another transaction that has not committed is not seen.
FindCodes(i) ==
  /\ stage[i] = "issuing"
  /\ found' = [found EXCEPT ![i] = Unverified]
  /\ ToStage(i, "deleting")
  /\ UNCHANGED <<kind, account, code, sessionVars, subject, guess, compared,
                 guessRaced, issueRaced>>

IssueCode(i) ==
  /\ stage[i] = "deleting"
  /\ code' = ReplaceCodes(i)
  /\ ToStage(i, "done")
  /\ UNCHANGED <<kind, account, found, sessionVars, subject, guess, compared,
                 guessRaced, issueRaced>>

\* expires_at passes, and then an hour since created_at.
AgeCode(i) ==
  /\ i \in Codes
  /\ code[i].age # "old"
  /\ code' = [code EXCEPT ![i].age = IF @ = "fresh" THEN "expired" ELSE "old"]
  /\ UNCHANGED <<kind, account, found, sessionVars, stage, subject, guess,
                 compared, guessRaced, issueRaced>>

\* Mutant of Usable: the attempts are counted and not looked at.
UsableAlways(i) == i \in Unverified /\ code[i].age = "fresh"

\* verifyOtp: an unverified code that has not expired and has attempts left.
Usable(i) ==
  /\ i \in Unverified
  /\ code[i].age = "fresh"
  /\ code[i].guesses < MaxGuesses

ReadCode(v) ==
  /\ v \in Verifies
  /\ Unused(v)
  /\ \E i \in Codes :
       /\ Usable(i)
       /\ subject' = [subject EXCEPT ![v] = i]
       /\ guessRaced' = (guessRaced \/ \E w \in Verifies :
                           stage[w] = "compared" /\ subject[w] = i)
       /\ \E right \in BOOLEAN :
            /\ guess' = [guess EXCEPT ![v] = right]
            /\ compared' = IF right THEN compared
                           ELSE [compared EXCEPT ![i] = @ + 1]
  /\ ToStage(v, "compared")
  /\ UNCHANGED <<kind, account, code, found, sessionVars, issueRaced>>

\* A wrong guess is counted; the code may have been replaced by now.
CountGuess(v) ==
  LET i == subject[v] IN
  /\ stage[v] = "compared"
  /\ ~guess[v]
  /\ IF i \in Codes
       THEN code' = [code EXCEPT ![i].guesses = @ + 1]
       ELSE UNCHANGED code
  /\ ToStage(v, "done")
  /\ UNCHANGED <<kind, account, found, sessionVars, subject, guess, compared,
                 guessRaced, issueRaced>>

\* A right one marks the code and the account, in parallel and each on its own.
MarkAccount(v) ==
  /\ stage[v] \in {"compared", "codeMarked"}
  /\ guess[v]
  /\ account' = [account EXCEPT !.verified = TRUE]
  /\ ToStage(v, IF stage[v] = "compared" THEN "accountMarked" ELSE "done")
  /\ UNCHANGED <<kind, codeVars, sessionVars, subject>>

MarkCode(v) ==
  LET i == subject[v] IN
  /\ stage[v] \in {"compared", "accountMarked"}
  /\ guess[v]
  /\ IF i \in Codes
       THEN code' = [code EXCEPT ![i].verified = TRUE]
       ELSE UNCHANGED code
  /\ ToStage(v, IF stage[v] = "compared" THEN "codeMarked" ELSE "done")
  /\ UNCHANGED <<kind, account, found, sessionVars, subject, guess, compared,
                 guessRaced, issueRaced>>

-----------------------------------------------------------------------------
(***************************************************************************)
(* Sessions                                                                *)
(***************************************************************************)
Sign(c, version, password) ==
  token' = [token EXCEPT ![c] = [version |-> version, password |-> password]]

\* login, of either kind of account.
MayLogIn == account.exists /\ account.active /\ account.verified

\* login reads the account once; what it signs carries what it read.
ReadLogin(c) ==
  /\ c \in Logins
  /\ Unused(c)
  /\ MayLogIn
  /\ Sign(c, account.version, account.password)
  /\ ToStage(c, "done")
  /\ UNCHANGED <<kind, account, codeVars, link, subject, redeemed, tokenRaced>>

Changing(c) == stage[c] = "accepted"
Race(c) ==
  tokenRaced' = (tokenRaced \/ \E d \in Refreshes \union Resets :
                   d # c /\ Changing(d))

\* refresh: the token is good for the account that was read.
AcceptToken(c) ==
  /\ c \in Refreshes
  /\ Unused(c)
  /\ \E t \in Sessions :
       /\ Good(t)
       /\ subject' = [subject EXCEPT ![c] = t]
       /\ redeemed' = [redeemed EXCEPT ![t] = @ \union {c}]
  /\ ToStage(c, "accepted")
  /\ Race(c)
  /\ UNCHANGED <<kind, account, codeVars, token, link>>

\* Mutant of NextVersion: the token that was accepted stays good.
NextVersionSame == account

NextVersion == [account EXCEPT !.version = @ + 1]

\* The version is raised whatever it has become, and the new one is signed; an
\* owner has no version.
RotateToken(c) ==
  /\ c \in Refreshes
  /\ Changing(c)
  /\ account' = IF kind = "player" THEN NextVersion ELSE account
  /\ Sign(c, account'.version, token[subject[c]].password)
  /\ ToStage(c, "done")
  /\ UNCHANGED <<kind, codeVars, link, subject, redeemed, tokenRaced>>

\* forgotPassword: only players have it.
SendLink(f) ==
  /\ f \in Forgots
  /\ kind = "player"
  /\ Unused(f)
  /\ account.exists
  /\ link' = [link EXCEPT ![f] = account.password]
  /\ ToStage(f, "done")
  /\ UNCHANGED <<kind, account, codeVars, token, subject, redeemed,
                 tokenRaced>>

\* resetPassword: the fingerprint is that of the password.
AcceptLink(r) ==
  /\ r \in Resets
  /\ Unused(r)
  /\ \E f \in Forgots :
       /\ link[f] = account.password
       /\ subject' = [subject EXCEPT ![r] = f]
  /\ ToStage(r, "accepted")
  /\ Race(r)
  /\ UNCHANGED <<kind, account, codeVars, token, link, redeemed>>

\* Mutant of NewPassword: the sessions go on.
NewPasswordOnly == [account EXCEPT !.password = @ + 1]

NewPassword ==
  [account EXCEPT !.password = @ + 1, !.version = @ + 1]

WritePassword(r) ==
  /\ r \in Resets
  /\ Changing(r)
  /\ account' = NewPassword
  /\ ToStage(r, "done")
  /\ UNCHANGED <<kind, codeVars, sessionVars, subject>>

\* AdminOwnersService.updateOwnerStatus
SetOwnerStatus ==
  /\ kind = "owner"
  /\ account.exists
  /\ account' = [account EXCEPT !.active = ~@]
  /\ UNCHANGED <<kind, codeVars, sessionVars, stage, subject>>

-----------------------------------------------------------------------------
AccountNext ==
  \/ RegisterAccount
  \/ \E i \in Issuers :
       CheckResend(i) \/ FindCodes(i) \/ IssueCode(i) \/ AgeCode(i)
  \/ \E v \in Verifies :
       ReadCode(v) \/ CountGuess(v) \/ MarkAccount(v) \/ MarkCode(v)
  \/ \E c \in Logins : ReadLogin(c)
  \/ \E c \in Refreshes : AcceptToken(c) \/ RotateToken(c)
  \/ \E f \in Forgots : SendLink(f)
  \/ \E r \in Resets : AcceptLink(r) \/ WritePassword(r)
  \/ SetOwnerStatus

AccountSpec == AccountInit /\ [][AccountNext]_accountVars

-----------------------------------------------------------------------------
(***************************************************************************)
(* Properties                                                              *)
(***************************************************************************)
AccountTypeOK ==
  /\ kind \in {"player", "owner"}
  /\ account \in [exists : BOOLEAN, active : BOOLEAN, verified : BOOLEAN,
                  version : Nat, password : Nat]
  /\ code \in [Issuers -> {Absent} \union
                 [guesses : Nat, verified : BOOLEAN,
                  age : {"fresh", "expired", "old"}]]
  /\ found \in [Issuers -> SUBSET Issuers]
  /\ token \in [Signers -> {Absent} \union [version : Nat, password : Nat]]
  /\ link \in [Forgots -> {Absent} \union Nat]

\* No more than otpMaxAttempts wrong guesses are ever compared with a code,
\* unless two were under way at once: the counter is read, and raised later.
GuessesBoundedUnlessRaced ==
  guessRaced \/ \A i \in Issuers : compared[i] <= MaxGuesses

\* An account has one unverified code at most, unless two were being issued at
\* once: the older one is not good any more when the newer one is.
OneCodeUnlessRaced ==
  issueRaced \/ Cardinality(Unverified) <= 1

\* What a code is worth: one is good at a time, for a few guesses.
CodesHoldUnlessRaced == OneCodeUnlessRaced /\ GuessesBoundedUnlessRaced

\* A player's refresh token is accepted once ("version check prevents replay
\* of rotated tokens"), unless it was presented twice before the first answer.
TokenUsedOnceUnlessRaced ==
  \/ kind = "owner" \/ tokenRaced
  \/ \A t \in Signers : Cardinality(redeemed[t]) <= 1

\* resetPassword ends every session that began with the old password, however
\* often it has been refreshed, unless a refresh was under way.
ResetEndsSessionsUnlessRaced ==
  \/ kind = "owner" \/ tokenRaced
  \/ \A t \in Sessions : Good(t) => token[t].password = account.password
=============================================================================
