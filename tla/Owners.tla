------------------------------- MODULE Owners -------------------------------
(***************************************************************************)
(* An owner of internal/services/owners: its two-factor authentication,    *)
(* the keys and seeds it guards, the cache of owners and the commands that *)
(* encrypt and decrypt all owners.                                         *)
(*                                                                         *)
(* The calls for one owner touch no other one, so one owner is modelled.   *)
(* A TOTP secret is a number, a token is the secret it was made with.  The *)
(* row holds the state of the authentication twice: in otp_data, and in    *)
(* the older columns otp_secret and otp_confirmed.                         *)
(***************************************************************************)
EXTENDS Naturals, FiniteSets

CONSTANTS
    Caller,           \* calls and commands, each used once
    MaxSecret,        \* bound: TOTP secrets that are generated
    MaxFailures       \* bound: failed statements and restarts

ASSUME OwnersAssumption == MaxSecret \in Nat \ {0} /\ MaxFailures \in Nat

VARIABLES
    row,              \* the row of table owners
    cached,           \* the entry of the cache of owners, or NoEntry
    caller,           \* the state of each call
    fresh,            \* secrets generated so far
    known,            \* the secrets that the owner was shown
    answers,          \* history: what calls for keys and seeds were answered
    excuses,          \* history: what has gone wrong so far
    failures

ownerVars == <<row, cached, caller, fresh, known, answers, excuses, failures>>

(***************************************************************************)
(* Encryption: sealed is the prefix of encrypted text.                     *)
(***************************************************************************)

Sealed(x) == [text |-> x, sealed |-> TRUE]

Plain(x) == [text |-> x, sealed |-> FALSE]

IsEncrypted(d) == d.sealed

\* Decrypt refuses what is not encrypted.
Decrypts(d) == IsEncrypted(d)

Decrypt(d) == Plain(d.text)

(***************************************************************************)
(* The owner                                                               *)
(***************************************************************************)

OTPData(s, c) == [secret |-> s, confirmed |-> c]

OTP == [secret: 1..MaxSecret, confirmed: BOOLEAN]

Row == [data: [text: OTP, sealed: BOOLEAN], secret: 1..MaxSecret, confirmed: BOOLEAN,
        mnemonic: [text: {"words"}, sealed: BOOLEAN]]

NoEntry == [entry |-> "none"]

\* getOTPSecret and getOTPConfirmed: otp_data, encrypted or not.
getOTPSecret(o) == o.data.text.secret

getOTPConfirmed(o) == o.data.text.confirmed

\* totp.Validate
Valid(o, token) == token = getOTPSecret(o)

\* owners.Create leaves an owner with one secret, not confirmed yet, in both
\* places.
InitOwner ==
    /\ row = [data |-> Sealed(OTPData(1, FALSE)), secret |-> 1, confirmed |-> FALSE,
              mnemonic |-> Sealed("words")]
    /\ cached = NoEntry
    /\ caller = [r \in Caller |-> [pc |-> "idle"]]
    /\ fresh = 1
    /\ known = {}
    /\ answers = {} /\ excuses = {}
    /\ failures = MaxFailures

Current(token) == token = getOTPSecret(row) /\ getOTPConfirmed(row)

Writers == {r \in Caller : caller[r].pc \in {"data", "columns", "write"}}

(***************************************************************************)
(* GetByID                                                                 *)
(***************************************************************************)

\* A call of the owner, with a token where one is asked for.  was is history:
\* the token was good when the call began or when it read the owner.
BeginCall(r, op, token) ==
    /\ caller[r].pc = "idle"
    /\ caller' = [caller EXCEPT ![r] =
                 [pc |-> "load", op |-> op, token |-> token, was |-> Current(token),
                  again |-> op = "validate", mnemonic |-> Plain("")]]
    /\ UNCHANGED <<row, cached, fresh, known, answers, excuses, failures>>

\* The handlers of the interface.
HandleGetTwoFactorAuthData(r) == BeginCall(r, "show", 0)

HandleConfirmTwoFactorAuth(r, token) == BeginCall(r, "confirm", token)

HandleDisableTwoFactorAuth(r, token) == BeginCall(r, "disable", token)

HandleGetSeeds(r, token) == BeginCall(r, "seeds", token)

HandleGetHotWalletKeys(r, token) == BeginCall(r, "hotKeys", token)

HandleGetPrivateKeys(r, token) == BeginCall(r, "allKeys", token)

HandleValidateTwoFactorToken(r, token) == BeginCall(r, "validate", token)

\* The owner from the cache, or from the table.  seen is history: the row at
\* that moment.
GetByID(r) ==
    /\ caller[r].pc = "load"
    /\ caller' = [caller EXCEPT ![r] =
                 [pc |-> IF cached = NoEntry THEN "fill" ELSE "act", op |-> @.op, token |-> @.token,
                  was |-> @.was \/ Current(@.token), again |-> @.again, mnemonic |-> @.mnemonic,
                  owner |-> IF cached = NoEntry THEN row ELSE cached, seen |-> row]]
    /\ UNCHANGED <<row, cached, fresh, known, answers, excuses, failures>>

\* What was read is cached for an hour.
CacheSet(r) ==
    /\ caller[r].pc = "fill"
    /\ cached' = caller[r].owner
    /\ caller' = [caller EXCEPT ![r].pc = "act"]
    /\ excuses' = IF caller[r].owner # row \/ Writers # {} THEN excuses \cup {"race"} ELSE excuses
    /\ UNCHANGED <<row, fresh, known, answers, failures>>

Return(r) == caller' = [caller EXCEPT ![r] = [pc |-> "done"]]

(***************************************************************************)
(* Two-factor authentication                                               *)
(***************************************************************************)

\* GetTwoFactorAuthData: the secret, as long as it is not confirmed.
GetTwoFactorAuthData(r) ==
    /\ caller[r].pc = "act" /\ caller[r].op = "show"
    /\ known' = IF caller[r].owner.confirmed THEN known ELSE known \cup {caller[r].owner.secret}
    /\ Return(r)
    /\ UNCHANGED <<row, cached, fresh, answers, excuses, failures>>

\* The entry of the cache is deleted, then the row is written in two statements.
Change(r, s, c) ==
    /\ cached' = NoEntry
    /\ caller' = [caller EXCEPT ![r] = [pc |-> "data", op |-> @.op, new |-> OTPData(s, c)]]
    /\ excuses' = IF Writers # {} \/ caller[r].seen # row THEN excuses \cup {"clash"} ELSE excuses

ConfirmTwoFactorAuth(r) ==
    LET c == caller[r] IN
    /\ c.pc = "act" /\ c.op = "confirm"
    /\ IF Valid(c.owner, c.token) /\ ~getOTPConfirmed(c.owner)
       THEN Change(r, getOTPSecret(c.owner), TRUE)
       ELSE Return(r) /\ UNCHANGED <<cached, excuses>>
    /\ UNCHANGED <<row, fresh, known, answers, failures>>

\* Mutant of DisableTwoFactorAuth: the entry of the cache stays.
DisableKeepsCache(r) ==
    LET c == caller[r] IN
    /\ c.pc = "act" /\ c.op = "disable"
    /\ IF Valid(c.owner, c.token) /\ getOTPConfirmed(c.owner)
       THEN /\ fresh < MaxSecret /\ fresh' = fresh + 1
            /\ caller' = [caller EXCEPT ![r] = [pc |-> "data", op |-> @.op, new |-> OTPData(fresh', FALSE)]]
       ELSE Return(r) /\ UNCHANGED fresh
    /\ UNCHANGED <<row, cached, known, answers, excuses, failures>>

\* A new secret takes the place of the old one.
DisableTwoFactorAuth(r) ==
    LET c == caller[r] IN
    /\ c.pc = "act" /\ c.op = "disable"
    /\ IF Valid(c.owner, c.token) /\ getOTPConfirmed(c.owner)
       THEN fresh < MaxSecret /\ fresh' = fresh + 1 /\ Change(r, fresh', FALSE)
       ELSE Return(r) /\ UNCHANGED <<cached, fresh, excuses>>
    /\ UNCHANGED <<row, known, answers, failures>>

SetOTPData(r) ==
    /\ caller[r].pc = "data"
    /\ row' = [row EXCEPT !.data = Sealed(caller[r].new)]
    /\ caller' = [caller EXCEPT ![r].pc = "columns"]
    /\ UNCHANGED <<cached, fresh, known, answers, excuses, failures>>

\* Mutant of SetColumns: the old secret stays.
SetConfirmedOnly(r) ==
    /\ caller[r].pc = "columns"
    /\ row' = [row EXCEPT !.confirmed = caller[r].new.confirmed]
    /\ Return(r)
    /\ UNCHANGED <<cached, fresh, known, answers, excuses, failures>>

\* The queries ConfirmTwoFactorAuth and DisableTwoFactorAuth on the older columns.
SetColumns(r) ==
    LET new == caller[r].new IN
    /\ caller[r].pc = "columns"
    /\ row' = IF new.confirmed THEN [row EXCEPT !.confirmed = TRUE]
              ELSE [row EXCEPT !.confirmed = FALSE, !.secret = new.secret]
    /\ Return(r)
    /\ UNCHANGED <<cached, fresh, known, answers, excuses, failures>>

(***************************************************************************)
(* Keys and seeds                                                          *)
(***************************************************************************)

Answer(r, what) ==
    /\ answers' = answers \cup {[op |-> caller[r].op, what |-> what,
                                 good |-> caller[r].was \/ Current(caller[r].token)]}
    /\ Return(r)

\* The token is validated next, with an owner that is read again.
AskToken(r, enabled) ==
    LET c == caller[r] IN
    /\ ~c.again
    /\ IF enabled
       THEN /\ caller' = [caller EXCEPT ![r] =
                         [pc |-> "load", op |-> c.op, token |-> c.token, was |-> c.was,
                          again |-> TRUE, mnemonic |-> c.owner.mnemonic]]
            /\ UNCHANGED answers
       ELSE Answer(r, "refused")
    /\ UNCHANGED <<row, cached, fresh, known, excuses, failures>>

\* Is the authentication enabled at all?  GetSeeds asks otp_data, the other two
\* ask otp_confirmed.
GetSeeds(r) ==
    /\ caller[r].pc = "act" /\ caller[r].op = "seeds"
    /\ AskToken(r, getOTPConfirmed(caller[r].owner))

GetHotWalletKeys(r) ==
    /\ caller[r].pc = "act" /\ caller[r].op = "hotKeys"
    /\ AskToken(r, caller[r].owner.confirmed)

GetAllPrivateKeys(r) ==
    /\ caller[r].pc = "act" /\ caller[r].op = "allKeys"
    /\ AskToken(r, caller[r].owner.confirmed)

\* GetHotWalletKeys decrypts the mnemonic once, in the service of the wallets;
\* GetAllPrivateKeys decrypts it for the processing wallets, and the service of
\* the hot wallets decrypts the result again.
Keys(op, mnemonic) ==
    CASE op = "validate" -> "valid"
      [] op \in {"seeds", "hotKeys"} -> IF Decrypts(mnemonic) THEN "granted" ELSE "error"
      [] op = "allKeys" ->
           IF Decrypts(mnemonic) /\ Decrypts(Decrypt(mnemonic)) THEN "granted" ELSE "error"

\* ValidateTwoFactorToken, with an owner that it reads again, and the answer,
\* from the mnemonic that was read first.
ValidateTwoFactorToken(r) ==
    LET c == caller[r] IN
    /\ c.pc = "act" /\ c.again
    /\ Answer(r, IF getOTPConfirmed(c.owner) /\ Valid(c.owner, c.token)
                 THEN Keys(c.op, c.mnemonic) ELSE "refused")
    /\ UNCHANGED <<row, cached, fresh, known, excuses, failures>>

(***************************************************************************)
(* Commands for all owners: the rows are read first, and then written in   *)
(* one transaction.                                                        *)
(***************************************************************************)

BeginCommand(r, op) ==
    /\ caller[r].pc = "idle"
    /\ caller' = [caller EXCEPT ![r] = [pc |-> "write", op |-> op, owner |-> row]]
    /\ excuses' = IF Writers # {} THEN excuses \cup {"clash"} ELSE excuses
    /\ UNCHANGED <<row, cached, fresh, known, answers, failures>>

EncryptOTPDataForAllOwners(r) ==
    LET o == caller[r].owner IN
    /\ caller[r].pc = "write" /\ caller[r].op = "encryptData"
    /\ row' = IF IsEncrypted(o.data) THEN row ELSE [row EXCEPT !.data = Sealed(o.data.text)]
    /\ Return(r)
    /\ UNCHANGED <<cached, fresh, known, answers, excuses, failures>>

DecryptOTPDataForAllOwners(r) ==
    LET o == caller[r].owner IN
    /\ caller[r].pc = "write" /\ caller[r].op = "decryptData"
    /\ row' = IF IsEncrypted(o.data) THEN [row EXCEPT !.data = Decrypt(o.data)] ELSE row
    /\ Return(r)
    /\ UNCHANGED <<cached, fresh, known, answers, excuses, failures>>

EncryptSeedsForAllOwners(r) ==
    LET o == caller[r].owner IN
    /\ caller[r].pc = "write" /\ caller[r].op = "encryptSeeds"
    /\ row' = IF IsEncrypted(o.mnemonic) THEN row
              ELSE [row EXCEPT !.mnemonic = Sealed(o.mnemonic.text)]
    /\ Return(r)
    /\ UNCHANGED <<cached, fresh, known, answers, excuses, failures>>

DecryptSeedsForAllOwners(r) ==
    LET o == caller[r].owner IN
    /\ caller[r].pc = "write" /\ caller[r].op = "decryptSeeds"
    /\ row' = IF IsEncrypted(o.mnemonic) THEN [row EXCEPT !.mnemonic = Decrypt(o.mnemonic)]
              ELSE row
    /\ Return(r)
    /\ UNCHANGED <<cached, fresh, known, answers, excuses, failures>>

(***************************************************************************)
(* Faults and time                                                         *)
(***************************************************************************)

\* A statement fails, and the call ends where it is.
CallerFails(r) ==
    /\ caller[r].pc \in {"load", "data", "columns", "write"}
    /\ failures > 0 /\ failures' = failures - 1
    /\ Return(r)
    /\ excuses' = IF caller[r].pc \in {"data", "columns"} THEN excuses \cup {"fault"} ELSE excuses
    /\ UNCHANGED <<row, cached, fresh, known, answers>>

\* The service starts again: calls and cache are gone, and start encrypts the
\* data and the seeds of all owners before it serves.
Restart ==
    /\ failures > 0 /\ failures' = failures - 1
    /\ cached' = NoEntry
    /\ caller' = [r \in Caller |-> IF caller[r].pc \in {"idle", "write"} THEN caller[r] ELSE [pc |-> "done"]]
    /\ row' = [row EXCEPT !.data = Sealed(@.text), !.mnemonic = Sealed(@.text)]
    /\ excuses' = IF Writers # {} THEN excuses \cup {"fault"} ELSE excuses
    /\ UNCHANGED <<fresh, known, answers>>

\* The hour of the entry is over.
Expire ==
    /\ cached # NoEntry
    /\ cached' = NoEntry
    /\ UNCHANGED <<row, caller, fresh, known, answers, excuses, failures>>

CallerStep(r) ==
    \/ GetByID(r) \/ CacheSet(r)
    \/ GetTwoFactorAuthData(r) \/ ConfirmTwoFactorAuth(r) \/ DisableTwoFactorAuth(r)
    \/ SetOTPData(r) \/ SetColumns(r)
    \/ GetSeeds(r) \/ GetHotWalletKeys(r) \/ GetAllPrivateKeys(r) \/ ValidateTwoFactorToken(r)
    \/ EncryptOTPDataForAllOwners(r) \/ DecryptOTPDataForAllOwners(r)
    \/ EncryptSeedsForAllOwners(r) \/ DecryptSeedsForAllOwners(r)

NextOwner ==
    \/ \E r \in Caller :
         \/ HandleGetTwoFactorAuthData(r)
         \/ \E token \in known :
              \/ HandleConfirmTwoFactorAuth(r, token) \/ HandleDisableTwoFactorAuth(r, token)
              \/ HandleGetSeeds(r, token) \/ HandleGetHotWalletKeys(r, token)
              \/ HandleGetPrivateKeys(r, token) \/ HandleValidateTwoFactorToken(r, token)
         \/ \E op \in {"encryptData", "decryptData", "encryptSeeds", "decryptSeeds"} :
              BeginCommand(r, op)
         \/ CallerStep(r)
         \/ CallerFails(r)
    \/ Restart
    \/ Expire

SpecOwner == InitOwner /\ [][NextOwner]_ownerVars

(***************************************************************************)
(* Properties                                                              *)
(***************************************************************************)

Op == {"show", "confirm", "disable", "seeds", "hotKeys", "allKeys", "validate"}

Command == {"encryptData", "decryptData", "encryptSeeds", "decryptSeeds"}

Guarded == {"seeds", "hotKeys", "allKeys", "validate"}

\* A call before it has read the owner, after it, and during the two writes of a
\* change; and a command that has read the rows.
Loading ==
    {c \in [pc: {"load"}, op: Op, token: 0..MaxSecret, was: BOOLEAN, again: BOOLEAN,
            mnemonic: [text: {"", "words"}, sealed: BOOLEAN]] : c.again => c.op \in Guarded}

Acting ==
    {c \in [pc: {"fill", "act"}, op: Op, token: 0..MaxSecret, was: BOOLEAN, again: BOOLEAN,
            mnemonic: [text: {"", "words"}, sealed: BOOLEAN], owner: Row, seen: Row] :
       c.again => c.op \in Guarded}

Changing == [pc: {"data", "columns"}, op: Op, new: OTP]

Commanding == [pc: {"write"}, op: Command, owner: Row]

TypeOK ==
    /\ row \in Row
    /\ cached \in Row \cup {NoEntry}
    /\ caller \in [Caller -> [pc: {"idle", "done"}] \cup Loading \cup Acting \cup Changing \cup Commanding]
    /\ fresh \in 1..MaxSecret
    /\ known \subseteq 1..MaxSecret
    /\ answers \subseteq [op: Op, what: {"granted", "valid", "refused", "error"}, good: BOOLEAN]
    /\ excuses \subseteq {"race", "clash", "fault"}
    /\ failures \in 0..MaxFailures

\* The owner can always authenticate: the two places of the row agree, and the
\* owner knows the secret or can have it shown.  Lost are only owners whose two
\* statements were separated by a fault, ran at the same time as another change,
\* or began from an owner that was put into the cache during a change.
OwnerCanAuthenticate ==
    Writers = {} /\ excuses = {} =>
       /\ row.secret = getOTPSecret(row) /\ row.confirmed = getOTPConfirmed(row)
       /\ row.confirmed => row.secret \in known

\* Keys and seeds are given, and a token is called valid, for a token of the
\* confirmed secret: one that was disabled before the call is refused, unless an
\* owner was cached while it was being changed.
RevokedIsRefused ==
    "race" \notin excuses => \A a \in answers : a.what \in {"granted", "valid"} => a.good

=============================================================================
