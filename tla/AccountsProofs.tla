--------------------------- MODULE AccountsProofs ---------------------------
(***************************************************************************)
(* Theorems about owners, their secrets and their wallets.                 *)
(***************************************************************************)
EXTENDS Owners, Wallets, FiniteSetTheorems, WellFoundedInduction, TLAPS

(***************************************************************************)
(* The owner: types                                                        *)
(***************************************************************************)

CallerState == [pc: {"idle", "done"}] \cup Loading \cup Acting \cup Changing \cup Commanding

LEMMA StateOf ==
    ASSUME TypeOK, NEW r \in Caller
    PROVE  /\ caller[r].pc = "load" => caller[r] \in Loading
           /\ caller[r].pc \in {"fill", "act"} => caller[r] \in Acting
           /\ caller[r].pc \in {"data", "columns"} => caller[r] \in Changing
           /\ caller[r].pc = "write" => caller[r] \in Commanding
           /\ caller[r].pc \in {"idle", "done", "load", "fill", "act", "data", "columns", "write"}
<1>1. caller[r] \in CallerState
  BY DEF TypeOK, CallerState
<1> QED
  BY <1>1 DEF CallerState, Loading, Acting, Changing, Commanding

\* What a step does to one caller, and to no other.
Sets(r, x) == caller' = [caller EXCEPT ![r] = x]

LEMMA SetsOne ==
    ASSUME TypeOK, NEW r \in Caller, NEW x, Sets(r, x)
    PROVE  /\ caller'[r] = x
           /\ \A q \in Caller : q # r => caller'[q] = caller[q]
           /\ x \in CallerState => caller' \in [Caller -> CallerState]
BY DEF TypeOK, Sets, CallerState

LEMMA RowType == row \in Row => /\ row.data.text \in OTP
                                /\ row.secret \in 1..MaxSecret /\ row.confirmed \in BOOLEAN
                                /\ row.data.text.secret \in 1..MaxSecret
                                /\ row.data.text.confirmed \in BOOLEAN
BY DEF Row, OTP

\* The states of a caller after a step, by name.
Begun(op, token, good) ==
    [pc |-> "load", op |-> op, token |-> token, was |-> good, again |-> op = "validate", mnemonic |-> Plain("")]

Read(c, good) ==
    [pc |-> IF cached = NoEntry THEN "fill" ELSE "act", op |-> c.op, token |-> c.token,
     was |-> good, again |-> c.again, mnemonic |-> c.mnemonic,
     owner |-> IF cached = NoEntry THEN row ELSE cached, seen |-> row]

Again(c) ==
    [pc |-> "load", op |-> c.op, token |-> c.token, was |-> c.was, again |-> TRUE, mnemonic |-> c.owner.mnemonic]

Moved(c, p) == [c EXCEPT !.pc = p]

Changed(c, new) == [pc |-> "data", op |-> c.op, new |-> new]

Finished == [pc |-> "done"]

LEMMA BegunState ==
    ASSUME NEW op \in Op, NEW token \in 0..MaxSecret, NEW good \in BOOLEAN
    PROVE  Begun(op, token, good) \in Loading
BY DEF Begun, Loading, Plain, Op, Guarded

LEMMA ReadState ==
    ASSUME TypeOK, NEW c \in Loading, NEW good \in BOOLEAN
    PROVE  Read(c, good) \in Acting
<1>1. cached # NoEntry => cached \in Row
  BY DEF TypeOK
<1>2. row \in Row
  BY DEF TypeOK
<1> QED
  BY <1>1, <1>2 DEF Read, Acting, Loading

LEMMA AgainState == ASSUME NEW c \in Acting, c.op \in Guarded PROVE Again(c) \in Loading
BY DEF Again, Acting, Loading, Row

LEMMA MovedState ==
    /\ \A c \in Acting : /\ Moved(c, "act") \in Acting /\ Moved(c, "act").pc = "act"
                         /\ Moved(c, "act").op = c.op /\ Moved(c, "act").token = c.token
                         /\ Moved(c, "act").owner = c.owner /\ Moved(c, "act").seen = c.seen
                         /\ Moved(c, "act").was = c.was
    /\ \A c \in Changing : /\ Moved(c, "columns") \in Changing /\ Moved(c, "columns").pc = "columns"
                           /\ Moved(c, "columns").op = c.op /\ Moved(c, "columns").new = c.new
BY DEF Moved, Acting, Changing

LEMMA ChangedState ==
    ASSUME NEW c \in Acting, NEW new \in OTP
    PROVE  Changed(c, new) \in Changing
BY DEF Changed, Acting, Changing

(***************************************************************************)
(* The steps, each as what it does to its caller                           *)
(***************************************************************************)

Starts(r) ==
    /\ caller[r].pc = "idle"
    /\ \E op \in Op, token \in 0..MaxSecret, good \in BOOLEAN :
          Sets(r, Begun(op, token, good)) /\ (op = "show" \/ token \in known)
    /\ UNCHANGED <<row, cached, fresh, known, answers, excuses, failures>>

Reads(r) ==
    /\ caller[r].pc = "load" /\ caller[r] \in Loading
    /\ \E good \in BOOLEAN :
          /\ Sets(r, Read(caller[r], good))
          /\ Current(caller[r].token) => good
    /\ UNCHANGED <<row, cached, fresh, known, answers, excuses, failures>>

Fills(r) ==
    /\ caller[r].pc = "fill" /\ caller[r] \in Acting
    /\ Sets(r, Moved(caller[r], "act"))
    /\ cached' = caller[r].owner
    /\ excuses' \in {excuses, excuses \cup {"race"}}
    /\ (caller[r].owner # row \/ Writers # {}) => "race" \in excuses'
    /\ UNCHANGED <<row, fresh, known, answers, failures>>

\* A call ends, perhaps with an answer, and the owner may have seen its secret.
Ends(r) ==
    /\ caller[r].pc \in {"act", "load", "data", "columns", "write"}
    /\ Sets(r, Finished)
    /\ known \subseteq known' /\ known' \subseteq 1..MaxSecret
    /\ excuses' \in {excuses, excuses \cup {"fault"}}
    /\ caller[r].pc \in {"data", "columns"} => "fault" \in excuses'
    /\ failures' \in 0..MaxFailures
    /\ \A a \in answers' \ answers :
          /\ a \in [op: Op, what: {"granted", "valid", "refused", "error"}, good: BOOLEAN]
          /\ a.what \in {"granted", "valid"} =>
                /\ caller[r].pc = "act" /\ caller[r] \in Acting
                /\ caller[r].owner.data.text.confirmed /\ caller[r].token = caller[r].owner.data.text.secret
                /\ caller[r].was => a.good
    /\ answers \subseteq answers'
    /\ UNCHANGED <<row, cached, fresh>>

AsksAgain(r) ==
    /\ caller[r].pc = "act" /\ caller[r] \in Acting /\ caller[r].op \in Guarded
    /\ Sets(r, Again(caller[r]))
    /\ UNCHANGED <<row, cached, fresh, known, answers, excuses, failures>>

\* A change begins: a confirmation of the secret in the owner that was read, or a
\* new secret.
Changes(r) ==
    /\ caller[r].pc = "act" /\ caller[r] \in Acting /\ caller[r].op # "show"
    /\ \E new \in OTP :
          /\ Sets(r, Changed(caller[r], new))
          /\ new.confirmed => /\ new.secret = caller[r].owner.data.text.secret
                              /\ caller[r].token = caller[r].owner.data.text.secret
    /\ cached' = NoEntry
    /\ fresh' \in 1..MaxSecret
    /\ excuses' \in {excuses, excuses \cup {"clash"}}
    /\ (Writers # {} \/ caller[r].seen # row) => "clash" \in excuses'
    /\ UNCHANGED <<row, known, answers, failures>>

WritesData(r) ==
    /\ caller[r].pc = "data" /\ caller[r] \in Changing
    /\ Sets(r, Moved(caller[r], "columns"))
    /\ row' = [row EXCEPT !.data = Sealed(caller[r].new)]
    /\ UNCHANGED <<cached, fresh, known, answers, excuses, failures>>

WritesColumns(r) ==
    /\ caller[r].pc = "columns" /\ caller[r] \in Changing
    /\ Sets(r, Finished)
    /\ row' = IF caller[r].new.confirmed THEN [row EXCEPT !.confirmed = TRUE]
              ELSE [row EXCEPT !.confirmed = FALSE, !.secret = caller[r].new.secret]
    /\ UNCHANGED <<cached, fresh, known, answers, excuses, failures>>

StartsCommand(r) ==
    /\ caller[r].pc = "idle"
    /\ \E op \in Command : Sets(r, [pc |-> "write", op |-> op, owner |-> row])
    /\ excuses' \in {excuses, excuses \cup {"clash"}}
    /\ Writers # {} => "clash" \in excuses'
    /\ UNCHANGED <<row, cached, fresh, known, answers, failures>>

\* A command writes back what it has read, sealed or not.
Rewrites(r) ==
    /\ caller[r].pc = "write" /\ caller[r] \in Commanding
    /\ Sets(r, Finished)
    /\ row' \in Row /\ row'.secret = row.secret /\ row'.confirmed = row.confirmed
    /\ row'.data.text \in {row.data.text, caller[r].owner.data.text}
    /\ UNCHANGED <<cached, fresh, known, answers, excuses, failures>>

Restarts ==
    /\ cached' = NoEntry
    /\ caller' = [r \in Caller |-> IF caller[r].pc \in {"idle", "write"} THEN caller[r] ELSE Finished]
    /\ row' \in Row /\ row'.secret = row.secret /\ row'.confirmed = row.confirmed
    /\ row'.data.text = row.data.text
    /\ excuses' \in {excuses, excuses \cup {"fault"}}
    /\ Writers # {} => "fault" \in excuses'
    /\ failures' \in 0..MaxFailures
    /\ UNCHANGED <<fresh, known, answers>>

Forgets ==
    /\ cached' = NoEntry
    /\ UNCHANGED <<row, caller, fresh, known, answers, excuses, failures>>

OwnerMoves ==
    \/ \E r \in Caller : \/ Starts(r) \/ Reads(r) \/ Fills(r) \/ Ends(r) \/ AsksAgain(r) \/ Changes(r)
                         \/ WritesData(r) \/ WritesColumns(r) \/ StartsCommand(r) \/ Rewrites(r)
    \/ Restarts
    \/ Forgets
    \/ UNCHANGED ownerVars

LEMMA StartSteps ==
    ASSUME TypeOK, NEW r \in Caller, NEW op \in Op, NEW token, BeginCall(r, op, token),
           (op = "show" /\ token = 0) \/ token \in known
    PROVE  Starts(r)
<1>1. token \in 0..MaxSecret /\ (op = "show" \/ token \in known)
  <2>1. MaxSecret \in Nat /\ known \subseteq 1..MaxSecret
    BY OwnersAssumption DEF TypeOK
  <2>2. CASE token \in known
    BY <2>1, <2>2
  <2>3. CASE op = "show" /\ token = 0
    BY <2>1, <2>3
  <2> QED
    BY <2>2, <2>3
<1>2. Current(token) \in BOOLEAN
  BY DEF Current, getOTPConfirmed
<1> DEFINE good == Current(token)
<1>3. Sets(r, Begun(op, token, good))
  BY DEF BeginCall, Sets, Begun
<1> HIDE DEF good
<1> QED
  BY <1>1, <1>2, <1>3 DEF Starts, BeginCall, good

LEMMA ReadSteps == ASSUME TypeOK, NEW r \in Caller, GetByID(r) PROVE Reads(r)
<1> DEFINE c == caller[r]
           good == c.was \/ Current(c.token)
<1>1. c.pc = "load" /\ c \in Loading
  BY StateOf DEF GetByID
<1>2. good \in BOOLEAN /\ (Current(c.token) => good)
  OBVIOUS
<1>3. caller' = [caller EXCEPT ![r] = Read(c, good)]
  BY <1>1 DEF GetByID, Read, Loading
<1> HIDE DEF good
<1> QED
  BY <1>1, <1>2, <1>3 DEF Reads, GetByID, Sets

LEMMA FillSteps == ASSUME TypeOK, NEW r \in Caller, CacheSet(r) PROVE Fills(r)
BY StateOf DEF CacheSet, Fills, Sets, Moved

LEMMA ShowSteps == ASSUME TypeOK, NEW r \in Caller, GetTwoFactorAuthData(r) PROVE Ends(r)
<1>1. caller[r].pc = "act" /\ caller[r] \in Acting
  BY StateOf DEF GetTwoFactorAuthData
<1>2. caller[r].owner.secret \in 1..MaxSecret
  BY <1>1 DEF Acting, Row
<1> QED
  BY <1>1, <1>2 DEF GetTwoFactorAuthData, Ends, Return, Sets, Finished, TypeOK

LEMMA ChangeSteps ==
    ASSUME TypeOK, NEW r \in Caller, ConfirmTwoFactorAuth(r) \/ DisableTwoFactorAuth(r)
    PROVE  Changes(r) \/ Ends(r)
<1> DEFINE c == caller[r]
<1>1. c.pc = "act" /\ c \in Acting /\ c.op \in {"confirm", "disable"}
  BY StateOf DEF ConfirmTwoFactorAuth, DisableTwoFactorAuth
<1>2. c.owner.data.text.secret \in 1..MaxSecret /\ MaxSecret \in Nat
  BY <1>1, OwnersAssumption DEF Acting, Row, OTP
<1>3. CASE Return(r) /\ UNCHANGED <<cached, excuses, row, fresh, known, answers, failures>>
  BY <1>1, <1>3 DEF Ends, Return, Sets, Finished, TypeOK
<1>4. CASE /\ ConfirmTwoFactorAuth(r) /\ Valid(c.owner, c.token)
           /\ Change(r, getOTPSecret(c.owner), TRUE)
  <2>1. Sets(r, Changed(c, OTPData(getOTPSecret(c.owner), TRUE)))
    BY <1>1, <1>4 DEF Change, Sets, Changed
  <2>2. /\ OTPData(getOTPSecret(c.owner), TRUE) \in OTP
        /\ OTPData(getOTPSecret(c.owner), TRUE).secret = c.owner.data.text.secret
        /\ c.token = c.owner.data.text.secret
    BY <1>2, <1>4 DEF OTPData, OTP, getOTPSecret, Valid
  <2> HIDE DEF c
  <2>3. cached' = NoEntry /\ excuses' = IF Writers # {} \/ caller[r].seen # row THEN excuses \cup {"clash"} ELSE excuses
    BY <1>4 DEF Change
  <2>4. UNCHANGED <<row, fresh, known, answers, failures>>
    BY <1>4 DEF ConfirmTwoFactorAuth
  <2>5. fresh' \in 1..MaxSecret
    BY <2>4 DEF TypeOK
  <2> QED
    BY <1>1, <2>1, <2>2, <2>3, <2>4, <2>5 DEF Changes, c
<1>5. CASE /\ DisableTwoFactorAuth(r) /\ fresh < MaxSecret /\ fresh' = fresh + 1
           /\ Change(r, fresh', FALSE)
  <2>1. Sets(r, Changed(c, OTPData(fresh', FALSE)))
    BY <1>1, <1>5 DEF Change, Sets, Changed
  <2>2. fresh' \in 1..MaxSecret
    BY <1>2, <1>5 DEF TypeOK
  <2>3. OTPData(fresh', FALSE) \in OTP /\ ~OTPData(fresh', FALSE).confirmed
    BY <2>2 DEF OTPData, OTP
  <2> HIDE DEF c
  <2>4. cached' = NoEntry /\ excuses' = IF Writers # {} \/ caller[r].seen # row THEN excuses \cup {"clash"} ELSE excuses
    BY <1>5 DEF Change
  <2>5. UNCHANGED <<row, known, answers, failures>>
    BY <1>5 DEF DisableTwoFactorAuth
  <2> QED
    BY <1>1, <2>1, <2>2, <2>3, <2>4, <2>5 DEF Changes, c
<1> QED
  BY <1>3, <1>4, <1>5 DEF ConfirmTwoFactorAuth, DisableTwoFactorAuth

LEMMA WriteSteps ==
    ASSUME TypeOK, NEW r \in Caller
    PROVE  (SetOTPData(r) => WritesData(r)) /\ (SetColumns(r) => WritesColumns(r))
<1>1. SetOTPData(r) => WritesData(r)
  BY StateOf DEF SetOTPData, WritesData, Sets, Moved
<1>2. SetColumns(r) => WritesColumns(r)
  BY StateOf DEF SetColumns, WritesColumns, Sets, Return, Finished
<1> QED
  BY <1>1, <1>2

LEMMA AnswerSteps ==
    ASSUME TypeOK, NEW r \in Caller, NEW what \in {"granted", "valid", "refused", "error"}, Answer(r, what),
           caller[r].pc = "act", UNCHANGED <<row, cached, fresh, known, excuses, failures>>,
           what \in {"granted", "valid"} => getOTPConfirmed(caller[r].owner) /\ Valid(caller[r].owner, caller[r].token)
    PROVE  Ends(r)
<1> DEFINE c == caller[r]
           good == c.was \/ Current(c.token)
           a == [op |-> c.op, what |-> what, good |-> good]
<1>1. c \in Acting
  BY StateOf
<1>2. good \in BOOLEAN /\ (c.was => good)
  OBVIOUS
<1>3. answers' = answers \cup {a} /\ Sets(r, Finished)
  BY DEF Answer, Return, Sets, Finished
<1> HIDE DEF good
<1>4. a \in [op: Op, what: {"granted", "valid", "refused", "error"}, good: BOOLEAN]
      /\ a.what = what /\ a.good = good
  BY <1>1, <1>2 DEF Acting
<1>5. what \in {"granted", "valid"} => c.owner.data.text.confirmed /\ c.token = c.owner.data.text.secret
  BY DEF getOTPConfirmed, Valid, getOTPSecret
<1>6. excuses' = excuses /\ known' \subseteq 1..MaxSecret /\ known \subseteq known' /\ failures' \in 0..MaxFailures
  BY DEF TypeOK
<1> HIDE DEF a, c
<1> QED
  BY <1>1, <1>2, <1>3, <1>4, <1>5, <1>6 DEF Ends, c

LEMMA KeySteps ==
    ASSUME TypeOK, NEW r \in Caller,
           GetSeeds(r) \/ GetHotWalletKeys(r) \/ GetAllPrivateKeys(r) \/ ValidateTwoFactorToken(r)
    PROVE  AsksAgain(r) \/ Ends(r)
<1>1. caller[r].pc = "act" /\ caller[r] \in Acting
  BY StateOf DEF GetSeeds, GetHotWalletKeys, GetAllPrivateKeys, ValidateTwoFactorToken
<1>2. ASSUME NEW enabled, AskToken(r, enabled), caller[r].op \in Guarded PROVE AsksAgain(r) \/ Ends(r)
  <2>1. CASE caller' = [caller EXCEPT ![r] = Again(caller[r])] /\ UNCHANGED answers
    BY <1>1, <1>2, <2>1 DEF AsksAgain, Sets, AskToken
  <2>2. CASE Answer(r, "refused")
    BY <1>1, <1>2, <2>2, AnswerSteps DEF AskToken
  <2> QED
    BY <1>2, <2>1, <2>2 DEF AskToken, Again
<1>3. ASSUME ValidateTwoFactorToken(r) PROVE Ends(r)
  <2> DEFINE c == caller[r]
             what == IF getOTPConfirmed(c.owner) /\ Valid(c.owner, c.token) THEN Keys(c.op, c.mnemonic) ELSE "refused"
  <2>1. c.op \in Guarded
    BY <1>1, <1>3 DEF ValidateTwoFactorToken, Acting
  <2>2. Keys(c.op, c.mnemonic) \in {"granted", "valid", "error"}
    BY <2>1 DEF Keys, Guarded
  <2>3. what \in {"granted", "valid", "refused", "error"}
    BY <2>2
  <2>4. what \in {"granted", "valid"} => getOTPConfirmed(c.owner) /\ Valid(c.owner, c.token)
    OBVIOUS
  <2>5. Answer(r, what)
    BY <1>3 DEF ValidateTwoFactorToken
  <2>6. UNCHANGED <<row, cached, fresh, known, excuses, failures>>
    BY <1>3 DEF ValidateTwoFactorToken
  <2> HIDE DEF what
  <2> QED
    BY <1>1, <2>3, <2>4, <2>5, <2>6, AnswerSteps
<1> QED
  BY <1>2, <1>3 DEF GetSeeds, GetHotWalletKeys, GetAllPrivateKeys, Guarded

LEMMA CommandSteps ==
    ASSUME TypeOK, NEW r \in Caller
    PROVE  /\ \A op \in Command : BeginCommand(r, op) => StartsCommand(r)
           /\ EncryptOTPDataForAllOwners(r) => Rewrites(r)
           /\ DecryptOTPDataForAllOwners(r) => Rewrites(r)
           /\ EncryptSeedsForAllOwners(r) => Rewrites(r)
           /\ DecryptSeedsForAllOwners(r) => Rewrites(r)
<1>1. \A op \in Command : BeginCommand(r, op) => StartsCommand(r)
  BY DEF BeginCommand, StartsCommand, Sets
<1>2. caller[r].pc = "write" => /\ caller[r] \in Commanding
                                /\ caller[r].owner.data.text \in OTP
                                /\ caller[r].owner.mnemonic.text = "words"
  BY StateOf DEF Commanding, Row
<1>3. row \in Row
  BY DEF TypeOK
<1>4. ASSUME NEW d \in [text: OTP, sealed: BOOLEAN]
      PROVE  /\ [row EXCEPT !.data = d] \in Row /\ [row EXCEPT !.data = d].data = d
             /\ [row EXCEPT !.data = d].secret = row.secret /\ [row EXCEPT !.data = d].confirmed = row.confirmed
  BY <1>3 DEF Row
<1>5. ASSUME NEW m \in [text: {"words"}, sealed: BOOLEAN]
      PROVE  /\ [row EXCEPT !.mnemonic = m] \in Row /\ [row EXCEPT !.mnemonic = m].data = row.data
             /\ [row EXCEPT !.mnemonic = m].secret = row.secret
             /\ [row EXCEPT !.mnemonic = m].confirmed = row.confirmed
  BY <1>3 DEF Row
<1>6. /\ \A t \in OTP : Sealed(t) \in [text: OTP, sealed: BOOLEAN] /\ Sealed(t).text = t
      /\ \A t \in OTP : Plain(t) \in [text: OTP, sealed: BOOLEAN] /\ Plain(t).text = t
      /\ Sealed("words") \in [text: {"words"}, sealed: BOOLEAN]
      /\ Plain("words") \in [text: {"words"}, sealed: BOOLEAN]
  BY DEF Sealed, Plain
<1>d. ASSUME NEW d \in [text: OTP, sealed: BOOLEAN], caller[r].pc = "write", d.text = caller[r].owner.data.text,
             row' = row \/ row' = [row EXCEPT !.data = d],
             Return(r), UNCHANGED <<cached, fresh, known, answers, excuses, failures>>
      PROVE  Rewrites(r)
  <2>1. row' \in Row /\ row'.secret = row.secret /\ row'.confirmed = row.confirmed
    BY <1>3, <1>4, <1>d
  <2>2. row'.data = row.data \/ row'.data = d
    BY <1>4, <1>d
  <2> QED
    BY <1>2, <1>d, <2>1, <2>2 DEF Rewrites, Sets, Return, Finished
<1>7. EncryptOTPDataForAllOwners(r) => Rewrites(r)
  BY <1>2, <1>6, <1>d DEF EncryptOTPDataForAllOwners
<1>8. DecryptOTPDataForAllOwners(r) => Rewrites(r)
  BY <1>2, <1>6, <1>d DEF DecryptOTPDataForAllOwners, Decrypt
<1>9. EncryptSeedsForAllOwners(r) => Rewrites(r)
  BY <1>2, <1>3, <1>5, <1>6 DEF EncryptSeedsForAllOwners, Rewrites, Sets, Return, Finished
<1>10. DecryptSeedsForAllOwners(r) => Rewrites(r)
  BY <1>2, <1>3, <1>5, <1>6 DEF DecryptSeedsForAllOwners, Decrypt, Rewrites, Sets, Return, Finished
<1> QED
  BY <1>1, <1>7, <1>8, <1>9, <1>10

LEMMA FaultSteps ==
    ASSUME TypeOK
    PROVE  /\ \A r \in Caller : CallerFails(r) => Ends(r)
           /\ Restart => Restarts
           /\ Expire => Forgets
<1>1. MaxFailures \in Nat /\ (failures > 0 => failures - 1 \in 0..MaxFailures)
  BY OwnersAssumption DEF TypeOK
<1>2. ASSUME NEW r \in Caller, CallerFails(r) PROVE Ends(r)
  <2>1. known' = known /\ answers' = answers /\ known \subseteq 1..MaxSecret
    BY <1>2 DEF CallerFails, TypeOK
  <2> QED
    BY <1>1, <1>2, <2>1 DEF CallerFails, Ends, Return, Sets, Finished
<1>3. ASSUME Restart PROVE Restarts
  <2>1. /\ row' \in Row /\ row'.secret = row.secret /\ row'.confirmed = row.confirmed
        /\ row'.data.text = row.data.text
    BY <1>3 DEF Restart, TypeOK, Row, Sealed
  <2> QED
    BY <1>1, <1>3, <2>1 DEF Restart, Restarts, Finished
<1>4. Expire => Forgets
  BY DEF Expire, Forgets
<1> QED
  BY <1>2, <1>3, <1>4

LEMMA OwnerSteps == TypeOK /\ [NextOwner]_ownerVars => OwnerMoves
<1> SUFFICES ASSUME TypeOK, [NextOwner]_ownerVars PROVE OwnerMoves
  OBVIOUS
<1> USE DEF OwnerMoves
<1>1. ASSUME NEW r \in Caller, CallerStep(r) PROVE OwnerMoves
  BY <1>1, ReadSteps, FillSteps, ShowSteps, ChangeSteps, WriteSteps, KeySteps, CommandSteps DEF CallerStep
<1>2. ASSUME NEW r \in Caller, HandleGetTwoFactorAuthData(r) PROVE OwnerMoves
  BY <1>2, StartSteps DEF HandleGetTwoFactorAuthData, Op
<1>3. ASSUME NEW r \in Caller, NEW token \in known,
             \/ HandleConfirmTwoFactorAuth(r, token) \/ HandleDisableTwoFactorAuth(r, token)
             \/ HandleGetSeeds(r, token) \/ HandleGetHotWalletKeys(r, token)
             \/ HandleGetPrivateKeys(r, token) \/ HandleValidateTwoFactorToken(r, token)
      PROVE  OwnerMoves
  BY <1>3, StartSteps DEF HandleConfirmTwoFactorAuth, HandleDisableTwoFactorAuth, HandleGetSeeds,
     HandleGetHotWalletKeys, HandleGetPrivateKeys, HandleValidateTwoFactorToken, Op
<1>4. ASSUME NEW r \in Caller, NEW op \in Command, BeginCommand(r, op) PROVE OwnerMoves
  BY <1>4, CommandSteps
<1>5. ASSUME NEW r \in Caller, CallerFails(r) PROVE OwnerMoves
  BY <1>5, FaultSteps
<1>6. (Restart \/ Expire \/ UNCHANGED ownerVars) => OwnerMoves
  BY FaultSteps
<1> HIDE DEF OwnerMoves
<1> QED
  BY <1>1, <1>2, <1>3, <1>4, <1>5, <1>6 DEF NextOwner, Command

(***************************************************************************)
(* The invariant                                                           *)
(***************************************************************************)

\* Unless an owner was cached while it was being changed, the cached one has the
\* authentication of the row, and so has every owner that was read.
CacheInv ==
    "race" \notin excuses =>
        /\ cached # NoEntry =>
              /\ cached.data.text = row.data.text
              /\ \A r \in Caller : /\ caller[r].pc \notin {"data", "columns"}
                                   /\ caller[r].pc = "write" => caller[r].owner.data.text = row.data.text
        /\ \A r \in Caller : caller[r].pc \in {"fill", "act"} =>
              /\ caller[r].owner.data.text = caller[r].seen.data.text
              /\ caller[r].owner.data.text.confirmed /\ caller[r].token = caller[r].owner.data.text.secret
                   => caller[r].was

TokensInv ==
    \A r \in Caller : caller[r].pc \in {"load", "fill", "act"} /\ caller[r].op # "show" => caller[r].token \in known

\* The two places of the row agree, and the owner knows a secret that is confirmed.
Agree ==
    /\ row.secret = row.data.text.secret
    /\ row.confirmed = row.data.text.confirmed
    /\ row.confirmed => row.secret \in known

\* Unless something has gone wrong one change or command at most is under way, what
\* it has read is still in the row, and between its two writes the row has the new
\* data, of which the columns lack no more than it will write.
ChangeInv ==
    excuses = {} =>
        /\ \A r, q \in Writers : r = q
        /\ (\A r \in Caller : caller[r].pc # "columns") => Agree
        /\ \A r \in Caller :
              /\ caller[r].pc = "data" /\ caller[r].new.confirmed =>
                    caller[r].new.secret = row.secret /\ row.secret \in known
              /\ caller[r].pc = "columns" =>
                    /\ row.data.text = caller[r].new
                    /\ caller[r].new.confirmed => caller[r].new.secret = row.secret /\ row.secret \in known
              /\ caller[r].pc = "write" => caller[r].owner.data.text = row.data.text

OwnerInv == TypeOK /\ CacheInv /\ TokensInv /\ ChangeInv /\ RevokedIsRefused

LEMMA InitOwnerInv == InitOwner => OwnerInv
<1> SUFFICES ASSUME InitOwner PROVE OwnerInv
  OBVIOUS
<1>1. TypeOK
  BY OwnersAssumption DEF InitOwner, TypeOK, Row, OTP, OTPData, Sealed
<1>2. CacheInv /\ TokensInv /\ RevokedIsRefused
  BY DEF InitOwner, CacheInv, TokensInv, RevokedIsRefused
<1>3. Agree
  BY DEF InitOwner, Agree, OTPData, Sealed
<1>4. ChangeInv
  BY <1>3 DEF InitOwner, ChangeInv, Writers
<1> QED
  BY <1>1, <1>2, <1>4 DEF OwnerInv

LEMMA OwnerTypes == TypeOK /\ OwnerMoves => TypeOK'
<1> SUFFICES ASSUME TypeOK, OwnerMoves PROVE TypeOK'
  OBVIOUS
<1> DEFINE Rest == /\ row' \in Row /\ cached' \in Row \cup {NoEntry} /\ fresh' \in 1..MaxSecret
                   /\ known' \subseteq 1..MaxSecret /\ failures' \in 0..MaxFailures
                   /\ answers' \subseteq [op: Op, what: {"granted", "valid", "refused", "error"}, good: BOOLEAN]
                   /\ excuses' \subseteq {"race", "clash", "fault"}
<1>1. ASSUME NEW r \in Caller, NEW x \in CallerState, Sets(r, x), Rest PROVE TypeOK'
  <2>1. caller' \in [Caller -> CallerState]
    BY <1>1, SetsOne
  <2> QED
    BY <1>1, <2>1 DEF TypeOK, CallerState
<1>2. Loading \subseteq CallerState /\ Acting \subseteq CallerState /\ Changing \subseteq CallerState
      /\ Commanding \subseteq CallerState /\ Finished \in CallerState
  BY DEF CallerState, Finished
<1>3. UNCHANGED <<row, cached, fresh, known, answers, excuses, failures>> => Rest
  BY DEF TypeOK
<1> HIDE DEF Rest
<1>4. ASSUME NEW r \in Caller, Starts(r) PROVE TypeOK'
  BY <1>1, <1>2, <1>3, <1>4, BegunState DEF Starts
<1>5. ASSUME NEW r \in Caller, Reads(r) PROVE TypeOK'
  BY <1>1, <1>2, <1>3, <1>5, ReadState DEF Reads
<1>6. ASSUME NEW r \in Caller, Fills(r) PROVE TypeOK'
  <2>1. caller[r].owner \in Row /\ Moved(caller[r], "act") \in Acting
    BY <1>6, MovedState DEF Fills, Acting
  <2>2. Rest
    BY <1>6, <2>1 DEF Rest, Fills, TypeOK
  <2> QED
    BY <1>1, <1>2, <1>6, <2>1, <2>2 DEF Fills
<1>7. ASSUME NEW r \in Caller, Ends(r) PROVE TypeOK'
  <2>1. Rest
    <3>1. row' \in Row /\ cached' \in Row \cup {NoEntry} /\ fresh' \in 1..MaxSecret
          /\ known' \subseteq 1..MaxSecret /\ failures' \in 0..MaxFailures
      BY <1>7 DEF Ends, TypeOK
    <3>2. answers' \subseteq [op: Op, what: {"granted", "valid", "refused", "error"}, good: BOOLEAN]
      BY <1>7 DEF Ends, TypeOK
    <3>3. excuses' \subseteq {"race", "clash", "fault"}
      BY <1>7 DEF Ends, TypeOK
    <3> QED
      BY <3>1, <3>2, <3>3 DEF Rest
  <2> QED
    BY <1>1, <1>2, <1>7, <2>1 DEF Ends
<1>8. ASSUME NEW r \in Caller, AsksAgain(r) PROVE TypeOK'
  BY <1>1, <1>2, <1>3, <1>8, AgainState DEF AsksAgain
<1>9. ASSUME NEW r \in Caller, Changes(r) PROVE TypeOK'
  <2>1. PICK new \in OTP : Sets(r, Changed(caller[r], new))
    BY <1>9 DEF Changes
  <2>2. Changed(caller[r], new) \in Changing
    BY <1>9, ChangedState DEF Changes
  <2>3. Rest
    BY <1>9 DEF Rest, Changes, TypeOK
  <2> QED
    BY <1>1, <1>2, <2>1, <2>2, <2>3
<1>10. ASSUME NEW r \in Caller, WritesData(r) PROVE TypeOK'
  <2>1. Moved(caller[r], "columns") \in Changing /\ caller[r].new \in OTP
    BY <1>10, MovedState DEF WritesData, Changing
  <2>2. row' \in Row
    BY <1>10, <2>1 DEF WritesData, Sealed, Row, TypeOK
  <2>3. Rest
    BY <1>10, <2>2 DEF Rest, WritesData, TypeOK
  <2> QED
    BY <1>1, <1>2, <1>10, <2>1, <2>3 DEF WritesData
<1>11. ASSUME NEW r \in Caller, WritesColumns(r) PROVE TypeOK'
  <2>1. caller[r].new \in OTP
    BY <1>11 DEF WritesColumns, Changing
  <2>2. row' \in Row
    BY <1>11, <2>1 DEF WritesColumns, Row, OTP, TypeOK
  <2>3. Rest
    BY <1>11, <2>2 DEF Rest, WritesColumns, TypeOK
  <2> QED
    BY <1>1, <1>2, <1>11, <2>3 DEF WritesColumns
<1>12. ASSUME NEW r \in Caller, StartsCommand(r) PROVE TypeOK'
  <2>1. PICK op \in Command : Sets(r, [pc |-> "write", op |-> op, owner |-> row])
    BY <1>12 DEF StartsCommand
  <2>2. [pc |-> "write", op |-> op, owner |-> row] \in Commanding
    BY DEF Commanding, TypeOK
  <2>3. Rest
    BY <1>12 DEF Rest, StartsCommand, TypeOK
  <2> QED
    BY <1>1, <1>2, <2>1, <2>2, <2>3
<1>13. ASSUME NEW r \in Caller, Rewrites(r) PROVE TypeOK'
  <2>1. Rest
    BY <1>13 DEF Rest, Rewrites, TypeOK
  <2> QED
    BY <1>1, <1>2, <1>13, <2>1 DEF Rewrites
<1>14. ASSUME Restarts PROVE TypeOK'
  <2>1. caller' \in [Caller -> CallerState]
    BY <1>2, <1>14 DEF Restarts, TypeOK, CallerState
  <2> QED
    BY <1>14, <2>1 DEF Restarts, TypeOK, CallerState
<1>15. (Forgets \/ UNCHANGED ownerVars) => TypeOK'
  BY DEF Forgets, ownerVars, TypeOK
<1> QED
  BY <1>4, <1>5, <1>6, <1>7, <1>8, <1>9, <1>10, <1>11, <1>12, <1>13, <1>14, <1>15 DEF OwnerMoves

\* The names of the callers' next states, field by field.
LEMMA Fields ==
    ASSUME TypeOK, NEW r \in Caller
    PROVE  /\ \A op \in Op : \A token, good : Begun(op, token, good).pc = "load" /\ Begun(op, token, good).op = op
                                         /\ Begun(op, token, good).token = token
           /\ \A c, good : /\ Read(c, good).pc \in {"fill", "act"} /\ Read(c, good).op = c.op
                           /\ Read(c, good).token = c.token /\ Read(c, good).was = good
                           /\ Read(c, good).owner = IF cached = NoEntry THEN row ELSE cached
                           /\ Read(c, good).seen = row
           /\ \A c : Again(c).pc = "load" /\ Again(c).op = c.op /\ Again(c).token = c.token
           /\ \A c, new : Changed(c, new).pc = "data" /\ Changed(c, new).new = new
           /\ Finished.pc = "done"
BY DEF Begun, Read, Again, Changed, Finished

LEMMA TokensStep == TypeOK /\ TokensInv /\ OwnerMoves => TokensInv'
<1> SUFFICES ASSUME TypeOK, TokensInv, OwnerMoves,
                    NEW q \in Caller, caller'[q].pc \in {"load", "fill", "act"}, caller'[q].op # "show"
             PROVE  caller'[q].token \in known'
  BY DEF TokensInv
<1> USE DEF TokensInv
<1>0. caller[q].pc \in {"load", "fill", "act"} /\ caller[q].op # "show" => caller[q].token \in known
  OBVIOUS
<1>1. ASSUME NEW r \in Caller, Starts(r) PROVE caller'[q].token \in known'
  <2>1. PICK op \in Op, token \in 0..MaxSecret, good \in BOOLEAN :
          Sets(r, Begun(op, token, good)) /\ (op = "show" \/ token \in known)
    BY <1>1 DEF Starts
  <2> QED
    BY <1>0, <1>1, <2>1, SetsOne, Fields DEF Starts
<1>2. ASSUME NEW r \in Caller, Reads(r) PROVE caller'[q].token \in known'
  <2>1. PICK good \in BOOLEAN : Sets(r, Read(caller[r], good))
    BY <1>2 DEF Reads
  <2> QED
    BY <1>0, <1>2, <2>1, SetsOne, Fields DEF Reads
<1>3. ASSUME NEW r \in Caller, Fills(r) PROVE caller'[q].token \in known'
  BY <1>0, <1>3, SetsOne, MovedState DEF Fills
<1>4. ASSUME NEW r \in Caller, Ends(r) PROVE caller'[q].token \in known'
  <2>1. Sets(r, Finished) /\ known \subseteq known'
    BY <1>4 DEF Ends
  <2> QED
    BY <1>0, <2>1, SetsOne, Fields
<1>5. ASSUME NEW r \in Caller, AsksAgain(r) PROVE caller'[q].token \in known'
  BY <1>0, <1>5, SetsOne, Fields DEF AsksAgain
<1>6. ASSUME NEW r \in Caller, Changes(r) PROVE caller'[q].token \in known'
  <2>1. PICK new \in OTP : Sets(r, Changed(caller[r], new))
    BY <1>6 DEF Changes
  <2> QED
    BY <1>0, <1>6, <2>1, SetsOne, Fields DEF Changes
<1>7. ASSUME NEW r \in Caller, WritesData(r) PROVE caller'[q].token \in known'
  BY <1>0, <1>7, SetsOne, MovedState DEF WritesData
<1>8. ASSUME NEW r \in Caller, WritesColumns(r) \/ Rewrites(r) PROVE caller'[q].token \in known'
  BY <1>0, <1>8, SetsOne, Fields DEF WritesColumns, Rewrites
<1>9. ASSUME NEW r \in Caller, StartsCommand(r) PROVE caller'[q].token \in known'
  <2>1. PICK op \in Command : Sets(r, [pc |-> "write", op |-> op, owner |-> row])
    BY <1>9 DEF StartsCommand
  <2> QED
    BY <1>0, <1>9, <2>1, SetsOne DEF StartsCommand
<1>10. (Restarts \/ Forgets \/ UNCHANGED ownerVars) => caller'[q].token \in known'
  BY <1>0, Fields DEF Restarts, Forgets, ownerVars
<1> QED
  BY <1>1, <1>2, <1>3, <1>4, <1>5, <1>6, <1>7, <1>8, <1>9, <1>10 DEF OwnerMoves

LEMMA RevokedStep == TypeOK /\ CacheInv /\ RevokedIsRefused /\ OwnerMoves => RevokedIsRefused'
<1> SUFFICES ASSUME TypeOK, CacheInv, RevokedIsRefused, OwnerMoves, "race" \notin excuses',
                    NEW a \in answers', a.what \in {"granted", "valid"}
             PROVE  a.good
  BY DEF RevokedIsRefused
<1>1. "race" \notin excuses
  BY DEF OwnerMoves, Starts, Reads, Fills, Ends, AsksAgain, Changes, WritesData, WritesColumns, StartsCommand,
     Rewrites, Restarts, Forgets, ownerVars
<1>2. CASE a \in answers
  BY <1>1, <1>2 DEF RevokedIsRefused
<1>3. CASE a \notin answers
  <2>1. PICK r \in Caller : Ends(r)
    BY <1>3 DEF OwnerMoves, Starts, Reads, Fills, AsksAgain, Changes, WritesData, WritesColumns, StartsCommand,
       Rewrites, Restarts, Forgets, ownerVars
  <2>2. /\ caller[r].pc = "act" /\ caller[r].owner.data.text.confirmed
        /\ caller[r].token = caller[r].owner.data.text.secret
        /\ caller[r].was => a.good
    BY <1>3, <2>1 DEF Ends
  <2>3. caller[r].was
    BY <1>1, <2>2 DEF CacheInv
  <2> QED
    BY <2>2, <2>3
<1> QED
  BY <1>2, <1>3

\* What the cache says is the row, as long as nothing raced.
CacheAgrees ==
    cached # NoEntry =>
        /\ cached.data.text = row.data.text
        /\ \A r \in Caller : /\ caller[r].pc \notin {"data", "columns"}
                             /\ caller[r].pc = "write" => caller[r].owner.data.text = row.data.text

ReadAgrees(r) ==
    caller[r].pc \in {"fill", "act"} =>
        /\ caller[r].owner.data.text = caller[r].seen.data.text
        /\ caller[r].owner.data.text.confirmed /\ caller[r].token = caller[r].owner.data.text.secret
             => caller[r].was

LEMMA CacheStep == TypeOK /\ CacheInv /\ OwnerMoves => CacheInv'
<1> SUFFICES ASSUME TypeOK, CacheInv, OwnerMoves, "race" \notin excuses'
             PROVE  CacheAgrees' /\ \A q \in Caller : ReadAgrees(q)'
  BY DEF CacheInv, CacheAgrees, ReadAgrees
<1>0. "race" \notin excuses
  BY DEF OwnerMoves, Starts, Reads, Fills, Ends, AsksAgain, Changes, WritesData, WritesColumns, StartsCommand,
     Rewrites, Restarts, Forgets, ownerVars
<1>i. CacheAgrees /\ \A q \in Caller : ReadAgrees(q)
  BY <1>0 DEF CacheInv, CacheAgrees, ReadAgrees
<1>1. ASSUME NEW r \in Caller, Starts(r) PROVE CacheAgrees' /\ \A q \in Caller : ReadAgrees(q)'
  <2>1. PICK op \in Op, token \in 0..MaxSecret, good \in BOOLEAN : Sets(r, Begun(op, token, good))
    BY <1>1 DEF Starts
  <2>2. CacheAgrees'
    BY <1>i, <1>1, <2>1, SetsOne, Fields DEF Starts, CacheAgrees
  <2>3. \A q \in Caller : ReadAgrees(q)'
    BY <1>i, <1>1, <2>1, SetsOne, Fields DEF Starts, ReadAgrees
  <2> QED
    BY <2>2, <2>3
<1>2. ASSUME NEW r \in Caller, Reads(r) PROVE CacheAgrees' /\ \A q \in Caller : ReadAgrees(q)'
  <2>1. PICK good \in BOOLEAN : Sets(r, Read(caller[r], good)) /\ (Current(caller[r].token) => good)
    BY <1>2 DEF Reads
  <2>2. CacheAgrees'
    BY <1>i, <1>2, <2>1, SetsOne, Fields DEF Reads, CacheAgrees
  <2>3. /\ caller'[r].owner.data.text = row.data.text /\ caller'[r].seen = row
        /\ caller'[r].was = good /\ caller'[r].token = caller[r].token
    BY <1>i, <2>1, SetsOne, Fields DEF CacheAgrees
  <2>4. row.data.text.confirmed /\ caller[r].token = row.data.text.secret => good
    BY <2>1 DEF Current, getOTPSecret, getOTPConfirmed
  <2>5. ReadAgrees(r)'
    BY <2>3, <2>4 DEF ReadAgrees
  <2>6. \A q \in Caller : ReadAgrees(q)'
    BY <1>i, <1>2, <2>1, <2>5, SetsOne DEF Reads, ReadAgrees
  <2> QED
    BY <2>2, <2>6
<1>3. ASSUME NEW r \in Caller, Fills(r) PROVE CacheAgrees' /\ \A q \in Caller : ReadAgrees(q)'
  <2>1. caller[r].owner = row /\ Writers = {} /\ cached' = row /\ row' = row
    BY <1>3 DEF Fills
  <2>2. \A q \in Caller : caller'[q].pc \notin {"data", "columns", "write"}
    BY <1>3, <2>1, SetsOne, MovedState DEF Fills, Writers
  <2>3. CacheAgrees'
    BY <2>1, <2>2 DEF CacheAgrees
  <2>4. \A q \in Caller : ReadAgrees(q)'
    BY <1>i, <1>3, SetsOne, MovedState DEF Fills, ReadAgrees
  <2> QED
    BY <2>3, <2>4
<1>4. ASSUME NEW r \in Caller, Ends(r) PROVE CacheAgrees' /\ \A q \in Caller : ReadAgrees(q)'
  <2>1. CacheAgrees'
    BY <1>i, <1>4, SetsOne, Fields DEF Ends, CacheAgrees
  <2>2. \A q \in Caller : ReadAgrees(q)'
    BY <1>i, <1>4, SetsOne, Fields DEF Ends, ReadAgrees
  <2> QED
    BY <2>1, <2>2
<1>5. ASSUME NEW r \in Caller, AsksAgain(r) PROVE CacheAgrees' /\ \A q \in Caller : ReadAgrees(q)'
  <2>1. CacheAgrees'
    BY <1>i, <1>5, SetsOne, Fields DEF AsksAgain, CacheAgrees
  <2>2. \A q \in Caller : ReadAgrees(q)'
    BY <1>i, <1>5, SetsOne, Fields DEF AsksAgain, ReadAgrees
  <2> QED
    BY <2>1, <2>2
<1>6. ASSUME NEW r \in Caller, Changes(r) PROVE CacheAgrees' /\ \A q \in Caller : ReadAgrees(q)'
  <2>1. PICK new \in OTP : Sets(r, Changed(caller[r], new))
    BY <1>6 DEF Changes
  <2>2. CacheAgrees'
    BY <1>6 DEF Changes, CacheAgrees
  <2>3. \A q \in Caller : ReadAgrees(q)'
    BY <1>i, <1>6, <2>1, SetsOne, Fields DEF Changes, ReadAgrees
  <2> QED
    BY <2>2, <2>3
<1>7. ASSUME NEW r \in Caller, WritesData(r) PROVE CacheAgrees' /\ \A q \in Caller : ReadAgrees(q)'
  <2>1. cached' = NoEntry
    BY <1>i, <1>7 DEF WritesData, CacheAgrees
  <2>2. \A q \in Caller : ReadAgrees(q)'
    BY <1>i, <1>7, SetsOne, MovedState DEF WritesData, ReadAgrees
  <2> QED
    BY <2>1, <2>2 DEF CacheAgrees
<1>8. ASSUME NEW r \in Caller, WritesColumns(r) PROVE CacheAgrees' /\ \A q \in Caller : ReadAgrees(q)'
  <2>1. cached' = NoEntry
    BY <1>i, <1>8 DEF WritesColumns, CacheAgrees
  <2>2. \A q \in Caller : ReadAgrees(q)'
    BY <1>i, <1>8, SetsOne, Fields DEF WritesColumns, ReadAgrees
  <2> QED
    BY <2>1, <2>2 DEF CacheAgrees
<1>9. ASSUME NEW r \in Caller, StartsCommand(r) PROVE CacheAgrees' /\ \A q \in Caller : ReadAgrees(q)'
  <2>1. PICK op \in Command : Sets(r, [pc |-> "write", op |-> op, owner |-> row])
    BY <1>9 DEF StartsCommand
  <2>2. CacheAgrees'
    BY <1>i, <1>9, <2>1, SetsOne DEF StartsCommand, CacheAgrees
  <2>3. \A q \in Caller : ReadAgrees(q)'
    BY <1>i, <1>9, <2>1, SetsOne DEF StartsCommand, ReadAgrees
  <2> QED
    BY <2>2, <2>3
<1>10. ASSUME NEW r \in Caller, Rewrites(r) PROVE CacheAgrees' /\ \A q \in Caller : ReadAgrees(q)'
  <2>1. cached' # NoEntry => row'.data.text = row.data.text
    BY <1>i, <1>10 DEF Rewrites, CacheAgrees
  <2>2. CacheAgrees'
    BY <1>i, <1>10, <2>1, SetsOne, Fields DEF Rewrites, CacheAgrees
  <2>3. \A q \in Caller : ReadAgrees(q)'
    BY <1>i, <1>10, SetsOne, Fields DEF Rewrites, ReadAgrees
  <2> QED
    BY <2>2, <2>3
<1>11. Restarts => CacheAgrees' /\ \A q \in Caller : ReadAgrees(q)'
  BY <1>i, Fields DEF Restarts, CacheAgrees, ReadAgrees
<1>12. (Forgets \/ UNCHANGED ownerVars) => CacheAgrees' /\ \A q \in Caller : ReadAgrees(q)'
  BY <1>i DEF Forgets, ownerVars, CacheAgrees, ReadAgrees
<1> QED
  BY <1>1, <1>2, <1>3, <1>4, <1>5, <1>6, <1>7, <1>8, <1>9, <1>10, <1>11, <1>12 DEF OwnerMoves

\* What a writer relies on: between its check and its last write nothing of the
\* authentication changes but by itself.
WriterAgrees(r) ==
    /\ caller[r].pc = "data" /\ caller[r].new.confirmed =>
          caller[r].new.secret = row.secret /\ row.secret \in known
    /\ caller[r].pc = "columns" =>
          /\ row.data.text = caller[r].new
          /\ caller[r].new.confirmed => caller[r].new.secret = row.secret /\ row.secret \in known
    /\ caller[r].pc = "write" => caller[r].owner.data.text = row.data.text

Orderly ==
    /\ \A r, q \in Writers : r = q
    /\ (\A r \in Caller : caller[r].pc # "columns") => Agree
    /\ \A r \in Caller : WriterAgrees(r)

LEMMA ChangeStep == TypeOK /\ CacheInv /\ TokensInv /\ ChangeInv /\ OwnerMoves => ChangeInv'
<1> SUFFICES ASSUME TypeOK, CacheInv, TokensInv, ChangeInv, OwnerMoves, excuses' = {}
             PROVE  Orderly'
  BY DEF ChangeInv, Orderly, WriterAgrees
<1>0. excuses = {}
  BY DEF OwnerMoves, Starts, Reads, Fills, Ends, AsksAgain, Changes, WritesData, WritesColumns, StartsCommand,
     Rewrites, Restarts, Forgets, ownerVars
<1>i. Orderly
  BY <1>0 DEF ChangeInv, Orderly, WriterAgrees
<1>c. ASSUME NEW r \in Caller, NEW x, Sets(r, x), x.pc \notin {"data", "columns", "write"},
             row' = row, known \subseteq known', caller[r].pc # "columns"
      PROVE  Orderly'
  <2>1. Writers' \subseteq Writers
    BY <1>c, SetsOne DEF Writers
  <2>2. \A q \in Caller : caller'[q].pc = "columns" <=> caller[q].pc = "columns"
    BY <1>c, SetsOne
  <2>3. Agree => Agree'
    BY <1>c DEF Agree
  <2>4. \A q \in Caller : WriterAgrees(q)'
    BY <1>c, <1>i, SetsOne DEF Orderly, WriterAgrees
  <2> QED
    BY <1>i, <2>1, <2>2, <2>3, <2>4 DEF Orderly
<1>1. ASSUME NEW r \in Caller, Starts(r) PROVE Orderly'
  <2>1. PICK op \in Op, token \in 0..MaxSecret, good \in BOOLEAN : Sets(r, Begun(op, token, good))
    BY <1>1 DEF Starts
  <2> QED
    BY <1>1, <1>c, <2>1, Fields DEF Starts
<1>2. ASSUME NEW r \in Caller, Reads(r) PROVE Orderly'
  <2>1. PICK good \in BOOLEAN : Sets(r, Read(caller[r], good))
    BY <1>2 DEF Reads
  <2> QED
    BY <1>2, <1>c, <2>1, Fields DEF Reads
<1>3. ASSUME NEW r \in Caller, Fills(r) PROVE Orderly'
  BY <1>3, <1>c, MovedState DEF Fills
<1>4. ASSUME NEW r \in Caller, Ends(r) PROVE Orderly'
  <2>1. Sets(r, Finished) /\ row' = row /\ known \subseteq known' /\ caller[r].pc # "columns"
    BY <1>4 DEF Ends
  <2> QED
    BY <1>c, <2>1, Fields
<1>5. ASSUME NEW r \in Caller, AsksAgain(r) PROVE Orderly'
  BY <1>5, <1>c, Fields DEF AsksAgain
<1>6. ASSUME NEW r \in Caller, Changes(r) PROVE Orderly'
  <2>1. PICK new \in OTP : /\ Sets(r, Changed(caller[r], new))
                           /\ new.confirmed => /\ new.secret = caller[r].owner.data.text.secret
                                               /\ caller[r].token = caller[r].owner.data.text.secret
    BY <1>6 DEF Changes
  <2>2. Writers = {} /\ caller[r].seen = row /\ row' = row /\ known' = known
    BY <1>6 DEF Changes
  <2>3. Agree /\ \A q \in Caller : caller[q].pc \notin {"data", "columns", "write"}
    BY <1>i, <2>2 DEF Orderly, Writers
  <2>4. caller[r].token \in known /\ caller[r].owner.data.text = row.data.text
    BY <1>0, <1>6, <2>2 DEF Changes, TokensInv, CacheInv
  <2>5. new.confirmed => new.secret = row.secret /\ row.secret \in known
    BY <2>1, <2>3, <2>4 DEF Agree
  <2>6. Writers' = {r}
    BY <2>1, <2>3, SetsOne, Fields DEF Writers
  <2>7. \A q \in Caller : WriterAgrees(q)'
    BY <2>1, <2>2, <2>3, <2>5, SetsOne, Fields DEF WriterAgrees
  <2>8. Agree'
    BY <2>2, <2>3 DEF Agree
  <2> QED
    BY <2>6, <2>7, <2>8 DEF Orderly
<1>7. ASSUME NEW r \in Caller, WritesData(r) PROVE Orderly'
  <2>1. \A q \in Caller : q # r => caller[q].pc \notin {"data", "columns", "write"}
    BY <1>7, <1>i DEF Orderly, Writers, WritesData
  <2>2. Agree
    BY <1>7, <1>i, <2>1 DEF Orderly, WritesData
  <2>3. row'.data.text = caller[r].new /\ row'.secret = row.secret /\ row'.confirmed = row.confirmed
    BY <1>7 DEF WritesData, Sealed, TypeOK, Row
  <2>4. caller'[r].pc = "columns" /\ caller'[r].new = caller[r].new
    BY <1>7, SetsOne, MovedState DEF WritesData
  <2>5. \A q \in Caller : q # r => caller'[q] = caller[q]
    BY <1>7, SetsOne DEF WritesData
  <2>6. \A q, s \in Writers' : q = s
    BY <2>1, <2>5 DEF Writers
  <2>7. WriterAgrees(r)
    BY <1>i DEF Orderly
  <2>8. WriterAgrees(r)'
    BY <1>7, <2>3, <2>4, <2>7 DEF WriterAgrees, WritesData
  <2>9. \A q \in Caller : WriterAgrees(q)'
    BY <2>1, <2>5, <2>8 DEF WriterAgrees
  <2> QED
    BY <2>4, <2>6, <2>9 DEF Orderly
<1>8. ASSUME NEW r \in Caller, WritesColumns(r) PROVE Orderly'
  <2>1. \A q \in Caller : q # r => caller[q].pc \notin {"data", "columns", "write"}
    BY <1>8, <1>i DEF Orderly, Writers, WritesColumns
  <2>2. Sets(r, Finished) /\ caller'[r].pc = "done" /\ \A q \in Caller : q # r => caller'[q] = caller[q]
    BY <1>8, SetsOne, Fields DEF WritesColumns
  <2>3. Writers' = {}
    BY <2>1, <2>2 DEF Writers
  <2>4. /\ row.data.text = caller[r].new
        /\ caller[r].new.confirmed => caller[r].new.secret = row.secret /\ row.secret \in known
    BY <1>8, <1>i DEF Orderly, WriterAgrees, WritesColumns
  <2>5. row'.data = row.data /\ known' = known
    BY <1>8 DEF WritesColumns, TypeOK, Row
  <2>6. Agree'
    <3>1. CASE caller[r].new.confirmed
      <4>1. row'.confirmed = TRUE /\ row'.secret = row.secret
        BY <1>8, <3>1 DEF WritesColumns, TypeOK, Row
      <4>2. caller[r].new.confirmed = TRUE
        BY <1>8, <3>1 DEF WritesColumns, Changing, OTP
      <4> QED
        BY <2>4, <2>5, <3>1, <4>1, <4>2 DEF Agree
    <3>2. CASE ~caller[r].new.confirmed
      <4>1. row'.confirmed = FALSE /\ row'.secret = caller[r].new.secret
        BY <1>8, <3>2 DEF WritesColumns, TypeOK, Row
      <4>2. caller[r].new.confirmed = FALSE
        BY <1>8, <3>2 DEF WritesColumns, Changing, OTP
      <4> QED
        BY <2>4, <2>5, <4>1, <4>2 DEF Agree
    <3> QED
      BY <3>1, <3>2
  <2>7. \A q \in Caller : WriterAgrees(q)'
    BY <2>3 DEF WriterAgrees, Writers
  <2> QED
    BY <2>3, <2>6, <2>7 DEF Orderly
<1>9. ASSUME NEW r \in Caller, StartsCommand(r) PROVE Orderly'
  <2>1. PICK op \in Command : Sets(r, [pc |-> "write", op |-> op, owner |-> row])
    BY <1>9 DEF StartsCommand
  <2>2. Writers = {} /\ row' = row /\ known' = known
    BY <1>9 DEF StartsCommand
  <2>3. Agree /\ \A q \in Caller : caller[q].pc \notin {"data", "columns", "write"}
    BY <1>i, <2>2 DEF Orderly, Writers
  <2>4. Writers' = {r}
    BY <2>1, <2>3, SetsOne DEF Writers
  <2>5. \A q \in Caller : WriterAgrees(q)'
    BY <2>1, <2>2, <2>3, SetsOne DEF WriterAgrees
  <2>6. Agree'
    BY <2>2, <2>3 DEF Agree
  <2> QED
    BY <2>4, <2>5, <2>6 DEF Orderly
<1>10. ASSUME NEW r \in Caller, Rewrites(r) PROVE Orderly'
  <2>1. \A q \in Caller : q # r => caller[q].pc \notin {"data", "columns", "write"}
    BY <1>10, <1>i DEF Orderly, Writers, Rewrites
  <2>2. caller'[r].pc = "done" /\ \A q \in Caller : q # r => caller'[q] = caller[q]
    BY <1>10, SetsOne, Fields DEF Rewrites
  <2>3. Writers' = {}
    BY <2>1, <2>2 DEF Writers
  <2>4. /\ row'.data.text = row.data.text /\ row'.secret = row.secret
        /\ row'.confirmed = row.confirmed /\ known' = known
    BY <1>10, <1>i DEF Rewrites, Orderly, WriterAgrees
  <2>5. Agree
    BY <1>10, <1>i, <2>1 DEF Orderly, Rewrites
  <2>6. Agree'
    BY <2>4, <2>5 DEF Agree
  <2>7. \A q \in Caller : WriterAgrees(q)'
    BY <2>3 DEF WriterAgrees, Writers
  <2> QED
    BY <2>3, <2>6, <2>7 DEF Orderly
<1>11. ASSUME Restarts PROVE Orderly'
  <2>1. Writers = {}
    BY <1>11 DEF Restarts
  <2>2. Agree /\ \A q \in Caller : caller[q].pc \notin {"data", "columns", "write"}
    BY <1>i, <2>1 DEF Orderly, Writers
  <2>3. Writers' = {}
    BY <1>11, <2>2, Fields DEF Restarts, Writers
  <2>4. Agree'
    BY <1>11, <2>2 DEF Restarts, Agree
  <2>5. \A q \in Caller : WriterAgrees(q)'
    BY <2>3 DEF WriterAgrees, Writers
  <2> QED
    BY <2>3, <2>4, <2>5 DEF Orderly
<1>12. (Forgets \/ UNCHANGED ownerVars) => Orderly'
  BY <1>i DEF Forgets, ownerVars, Orderly, WriterAgrees, Agree, Writers
<1> QED
  BY <1>1, <1>2, <1>3, <1>4, <1>5, <1>6, <1>7, <1>8, <1>9, <1>10, <1>11, <1>12 DEF OwnerMoves

LEMMA OwnerInductive == SpecOwner => []OwnerInv
<1>1. OwnerInv /\ [NextOwner]_ownerVars => OwnerInv'
  BY OwnerSteps, OwnerTypes, CacheStep, TokensStep, ChangeStep, RevokedStep DEF OwnerInv
<1> QED
  BY <1>1, InitOwnerInv, PTL DEF SpecOwner

\* The variables of the owner keep their types: a caller that has read the owner has
\* a whole one, and only calls that ask for a token are answered with keys.
THEOREM OwnerTypeCorrect == SpecOwner => []TypeOK
<1>1. OwnerInv => TypeOK
  BY DEF OwnerInv
<1> QED
  BY <1>1, OwnerInductive, PTL

\* For any number of calls, commands, restarts and failed statements: as long as no
\* change was cut off, ran into another one or began from an owner that was cached
\* too early, the two places of the row agree whenever nothing is being written, and
\* a confirmed secret is one that the owner was shown.
THEOREM OwnersAuthenticate == SpecOwner => []OwnerCanAuthenticate
<1>1. OwnerInv => OwnerCanAuthenticate
  <2> SUFFICES ASSUME OwnerInv, Writers = {}, excuses = {}
               PROVE  /\ row.secret = getOTPSecret(row) /\ row.confirmed = getOTPConfirmed(row)
                      /\ row.confirmed => row.secret \in known
    BY DEF OwnerCanAuthenticate
  <2>1. \A r \in Caller : caller[r].pc # "columns"
    BY DEF Writers
  <2>2. Agree
    BY <2>1 DEF OwnerInv, ChangeInv
  <2> QED
    BY <2>2 DEF Agree, getOTPSecret, getOTPConfirmed
<1> QED
  BY <1>1, OwnerInductive, PTL

\* For any number of calls, commands, restarts and failed statements: unless an owner
\* was cached while it was being changed, keys and seeds are given only for a token
\* that was good at some time during the call.
THEOREM RevokedSecretsAreRefused == SpecOwner => []RevokedIsRefused
<1>1. OwnerInv => RevokedIsRefused
  BY DEF OwnerInv
<1> QED
  BY <1>1, OwnerInductive, PTL

(***************************************************************************)
(* Types                                                                   *)
(***************************************************************************)

\* The types of the addresses of a chain.
TypesOf(b) == IF b \in Typed THEN AddressType ELSE {""}

KeySpace == [seed : {Seed[o] : o \in Owner}, purpose : {44, 49, 84, 86},
         coin : {0, 2, 3, 60, 145, 195}, n : Nat]

Address == [network : {"evm"} \cup AllBlockchains, type : {""} \cup AddressType, key : KeySpace]

Maker == Request \cup {"init"}

HotRows ==
    [owner : Owner, chain : Blockchain, address : Address, seq : Nat, ext : External,
     dirty : BOOLEAN, activated : BOOLEAN, by : Request]

ProcessingRows ==
    [owner : Owner, chain : Blockchain, address : Address, seq : Nat, by : Maker]

ColdRows == [owner : Owner, chain : Blockchain, address : ColdAddress, by : Request]

HotAsked ==
    [kind : {"hot"}, pc : {"sequence"}, owner : Owner, chain : Blockchain,
     type : {""} \cup AddressType, ext : External]

HotMade == [kind : {"hot"}, derived : Address, pc : {"evm", "insert", "store"}, row : HotRows]

MissingAsked == [kind : {"missing"}, pc : {"sequence"}, todo : SUBSET (Owner \X Blockchain)]

MissingMade ==
    [kind : {"missing"}, pc : {"insert", "store"}, todo : SUBSET (Owner \X Blockchain),
     row : ProcessingRows]

OwnerMade ==
    [kind : {"owner"}, pc : {"create"}, owner : Owner, todo : SUBSET Blockchain,
     rows : SUBSET ProcessingRows]

ColdMade ==
    [kind : {"cold"}, pc : {"delete", "insert", "commit"}, owner : Owner, chain : Blockchain,
     gone : SUBSET ColdRows, rows : SUBSET ColdRows]

CallState ==
    {Idle, Done} \cup HotAsked \cup HotMade \cup MissingAsked \cup MissingMade \cup OwnerMade
    \cup ColdMade

Rows == HotRows \cup ProcessingRows \cup ColdRows

PartState == {Quiet} \cup [pc : {"find", "store", "sweep"}, rows : [Kind -> SUBSET Rows]]

WalletsTypeOK ==
    /\ owners \subseteq Owner
    /\ hot \subseteq HotRows /\ processing \subseteq ProcessingRows /\ cold \subseteq ColdRows
    /\ DOMAIN cache = Kind /\ ready \in BOOLEAN /\ checked \in BOOLEAN /\ still \in BOOLEAN
    /\ call \in [Request -> CallState]
    /\ part \in [Pass -> PartState]
    /\ overlap \subseteq SUBSET Request
    /\ faults \in Nat

\* Sequences have a bound, without which there is no highest one.
BoundBy(N) ==
    /\ \A w \in hot \cup processing : w.seq <= N
    /\ \A r \in Request : call[r].kind = "owner" => \A w \in call[r].rows : w.seq <= N

SeqBound == \E N \in Nat : BoundBy(N)

(***************************************************************************)
(* The cache                                                               *)
(***************************************************************************)

KeysOf(R) == {KeyOf(w) : w \in R}

\* Passes exclude each other.
Alone == \A p, q \in Pass : part[p] # Quiet /\ part[q] # Quiet => p = q

LoadedInv ==
    /\ \A x \in loaded : x[1] \in Kind
    /\ \A k \in {"hot", "processing"} :
          /\ \A x \in loaded : x[1] = k => x[2] \in DOMAIN cache[k] /\ x[2] \in KeysOf(Table(k))
          /\ \A p \in Pass : part[p].pc \in {"store", "sweep"} =>
                /\ KeysOf(part[p].rows[k]) \subseteq KeysOf(Table(k))
                /\ \A x \in loaded : x[1] = k => x[2] \in KeysOf(part[p].rows[k])

\* What is in the cache under the keys of a table is in the table.
Agrees(k) ==
    /\ KeysOf(Table(k)) \subseteq DOMAIN cache[k]
    /\ \A x \in KeysOf(Table(k)) : cache[k][x] \in Table(k) /\ KeyOf(cache[k][x]) = x

Busy == \E p \in Pass : part[p].pc \in {"store", "sweep"}

AgreeInv ==
    still => \A k \in Kind :
       /\ \A p \in Pass : part[p].pc \in {"store", "sweep"} => part[p].rows[k] = Table(k)
       /\ \A p \in Pass : part[p].pc = "sweep" => Agrees(k)
       /\ ~Busy => Agrees(k) /\ DOMAIN cache[k] = KeysOf(Table(k))

(***************************************************************************)
(* Addresses                                                               *)
(***************************************************************************)

\* The address of a row is derived from its sequence, for its chain or, all EVM
\* chains being one network, another.
Derived(w) ==
    \E t \in TypesOf(w.chain) : w.address = AddressWallet(w.chain, t, Seed[w.owner], w.seq)

Processed(w) ==
    w.address = AddressWallet(w.chain, AddressTypeByBlockchain(w.chain), Seed[w.owner], w.seq)

KeyInv ==
    /\ \A w \in hot : Derived(w)
    /\ \A w \in processing : Processed(w)
    /\ \A r \in Request :
          /\ call[r].kind = "hot" /\ call[r].pc = "evm" => call[r].row.chain \in EVMBlockchains
          /\ call[r].kind = "hot" /\ call[r].pc # "sequence" => Derived(call[r].row)
          /\ call[r].kind = "missing" /\ call[r].pc # "sequence" => Processed(call[r].row)
          /\ call[r].kind = "owner" => \A w \in call[r].rows : Processed(w)

(***************************************************************************)
(* Who makes which row, and when                                           *)
(***************************************************************************)

\* Two calls that are running have run at the same time.
OverlapInv ==
    \A r, q \in Request : r # q /\ Running(r) /\ Running(q) => {r, q} \in overlap

ByInv ==
    \A r \in Request :
       /\ call[r].kind \in {"hot", "missing"} /\ call[r].pc # "sequence" => call[r].row.by = r
       /\ call[r].kind = "owner" => \A w \in call[r].rows : w.by = r /\ w.owner = call[r].owner

\* Rows belong to owners that are there, and new owners have all their processing
\* wallets at once.
OwnedInv ==
    /\ Existing \subseteq owners
    /\ \A w \in hot \cup processing : w.owner \in owners
    /\ \A w \in processing : w.owner \notin Existing \/ w.chain \notin Upgraded => w.seq = 0
    /\ \A o \in owners, b \in Blockchain :
          o \notin Existing \/ b \notin Upgraded => FindProcessing(o, b) # {}
    /\ \A r \in Request :
          /\ call[r].kind = "hot" /\ call[r].pc = "sequence" => call[r].owner \in owners
          /\ call[r].kind = "hot" /\ call[r].pc # "sequence" => call[r].row.owner \in owners
          /\ call[r].kind = "missing" => \A x \in call[r].todo : x[1] \in Existing /\ x[2] \in Upgraded
          /\ call[r].kind = "missing" /\ call[r].pc # "sequence" =>
                call[r].row.owner \in Existing /\ call[r].row.chain \in Upgraded

\* An owner that is being created is no owner yet, and is created by one call.
NewOwnerInv ==
    /\ \A r \in Request : call[r].kind = "owner" =>
          /\ call[r].owner \notin owners
          /\ \A w \in call[r].rows : w.seq = 0 /\ w.chain \notin call[r].todo
          /\ \A v, w \in call[r].rows : v.chain = w.chain => v = w
          /\ \A b \in Blockchain \ call[r].todo : \E w \in call[r].rows : w.chain = b
    /\ \A r, q \in Request :
          call[r].kind = "owner" /\ call[q].kind = "owner" /\ call[r].owner = call[q].owner => r = q

\* The processing wallets that were missing are made once.
MissingInv ==
    /\ \A r \in Request : call[r].kind = "missing" =>
          /\ checked
          /\ \A x \in call[r].todo : FindProcessing(x[1], x[2]) = {}
          /\ call[r].pc = "insert" =>
               /\ FindProcessing(call[r].row.owner, call[r].row.chain) = {}
               /\ <<call[r].row.owner, call[r].row.chain>> \notin call[r].todo
    /\ \A r, q \in Request : call[r].kind = "missing" /\ call[q].kind = "missing" => r = q

ProcessingUnique ==
    \A v, w \in processing : v.owner = w.owner /\ v.chain = w.chain => v = w

HotUnique ==
    \A v, w \in hot : v.owner = w.owner /\ v.chain = w.chain /\ v.address = w.address => v = w

(***************************************************************************)
(* Owners with one seed                                                    *)
(***************************************************************************)

\* They were created at the same time.
SeedsApart ==
    \A p, q \in processing : p.owner # q.owner /\ Seed[p.owner] = Seed[q.owner] =>
       p.owner \notin Existing /\ q.owner \notin Existing /\ Overlapped(p, q)

\* The call that creates one has not seen the other on any chain.
PendingApart ==
    \A r \in Request : call[r].kind = "owner" =>
       \A w \in call[r].rows, p \in processing :
          p.owner # w.owner /\ Seed[p.owner] = Seed[w.owner] =>
             IF p.owner \in Existing THEN w.chain \in Upgraded ELSE Overlapped(w, p)

(***************************************************************************)
(* Sequences                                                               *)
(***************************************************************************)

SameChain(v, w) == v.owner = w.owner /\ v.chain = w.chain

Above(p) == p.seq > 0 => \E h \in hot : SameChain(h, p) /\ h.seq < p.seq

Fresh(x) == \A p \in processing : SameChain(p, x) => p.seq < x.seq \/ Overlapped(p, x)

Borrowed(x) ==
    /\ x.chain \in EVMBlockchains
    /\ \E w \in hot : w.chain \in EVMBlockchains /\ w.owner = x.owner /\ w.seq = x.seq

SequenceInv ==
    /\ \A p \in processing : Above(p)
    /\ \A x \in hot : x.chain \in EVMBlockchains /\ x.seq = 0 => HotFirst(x.owner)
    /\ \A r \in Request :
          /\ call[r].kind = "missing" /\ call[r].pc = "insert" =>
               /\ Above(call[r].row)
               /\ \A x \in hot : SameChain(x, call[r].row) =>
                     x.seq < call[r].row.seq \/ Overlapped(x, call[r].row)
          /\ call[r].kind = "hot" /\ call[r].pc \in {"evm", "insert"} =>
               Fresh(call[r].row) \/ Borrowed(call[r].row)
    /\ \A x \in hot, p \in processing : SameChain(x, p) /\ x.seq = p.seq =>
          Overlapped(x, p) \/ (x.chain \in EVMBlockchains /\ HotFirst(x.owner))


(***************************************************************************)
(* Numbers                                                                 *)
(***************************************************************************)

\* The natural numbers are well ordered.
LEMMA HasSmallest ==
    ASSUME NEW T \in SUBSET Nat, T # {}
    PROVE  \E x \in T : \A y \in T : x <= y
<1> DEFINE R == OpToRel(<, Nat)
           N == Nat
<1>1. IsWellFoundedOn(R, N) /\ T \subseteq N
  BY NatLessThanWellFounded
<1>2. \A x, y \in N : y < x => <<y, x>> \in R
  BY DEF OpToRel
<1>3. PICK x \in T : \A y \in T : <<y, x>> \notin R
  <2> HIDE DEF R, N
  <2> QED
    BY <1>1, WFMin
<1>4. ASSUME NEW y \in T PROVE x <= y
  <2>1. ~(y < x)
    <3> HIDE DEF R
    <3> QED
      BY <1>2, <1>3
  <2> QED
    BY <2>1
<1> QED
  BY <1>4

\* A bounded set of numbers has a greatest one, which Max chooses.
LEMMA MaxOf ==
    ASSUME NEW S, S \subseteq Nat \cup {-1}, S # {}, NEW N \in Nat, \A x \in S : x <= N
    PROVE  Max(S) \in S /\ \A x \in S : x <= Max(S)
<1> DEFINE T == {u \in Nat : \A x \in S : x < u}
<1>1. N + 1 \in T
  OBVIOUS
<1>2. PICK u \in T : \A y \in T : u <= y
  BY <1>1, HasSmallest
<1>3. \E m \in S : \A x \in S : m >= x
  <2>1. CASE u = 0
    <3>1. \A x \in S : x = -1
      BY <2>1, <1>2
    <3>2. PICK m \in S : TRUE
      OBVIOUS
    <3> QED
      BY <3>1, <3>2
  <2>2. CASE u > 0 /\ \A x \in S : x < u - 1
    <3>1. u - 1 \in T
      BY <2>2
    <3> QED
      BY <3>1, <1>2
  <2>3. CASE \E x \in S : ~(x < u - 1)
    BY <2>3, <1>2
  <2> QED
    BY <2>1, <2>2, <2>3, <1>2
<1> QED
  BY <1>3 DEF Max

(***************************************************************************)
(* The states of a call                                                    *)
(***************************************************************************)

LEMMA KindsOfCalls ==
    /\ \A c \in HotAsked : c.kind = "hot" /\ c.pc = "sequence"
    /\ \A c \in HotMade : c.kind = "hot" /\ c.pc \in {"evm", "insert", "store"}
    /\ \A c \in MissingAsked : c.kind = "missing" /\ c.pc = "sequence"
    /\ \A c \in MissingMade : c.kind = "missing" /\ c.pc \in {"insert", "store"}
    /\ \A c \in OwnerMade : c.kind = "owner" /\ c.pc = "create"
    /\ \A c \in ColdMade : c.kind = "cold" /\ c.pc \in {"delete", "insert", "commit"}
    /\ \A c \in {Idle, Done} : c.kind = "none" /\ c.pc \in {"idle", "done"}
<1>1. \A c \in HotAsked : c.kind = "hot" /\ c.pc = "sequence"
  BY DEF HotAsked
<1>2. \A c \in HotMade : c.kind = "hot" /\ c.pc \in {"evm", "insert", "store"}
  BY DEF HotMade
<1>3. \A c \in MissingAsked : c.kind = "missing" /\ c.pc = "sequence"
  BY DEF MissingAsked
<1>4. \A c \in MissingMade : c.kind = "missing" /\ c.pc \in {"insert", "store"}
  BY DEF MissingMade
<1>5. \A c \in OwnerMade : c.kind = "owner" /\ c.pc = "create"
  BY DEF OwnerMade
<1>6. \A c \in ColdMade : c.kind = "cold" /\ c.pc \in {"delete", "insert", "commit"}
  BY DEF ColdMade
<1>7. \A c \in {Idle, Done} : c.kind = "none" /\ c.pc \in {"idle", "done"}
  BY DEF Idle, Done
<1> QED
  BY <1>1, <1>2, <1>3, <1>4, <1>5, <1>6, <1>7

LEMMA CallStateOf ==
    ASSUME WalletsTypeOK, NEW r \in Request
    PROVE  /\ call[r].kind = "hot" /\ call[r].pc = "sequence" => call[r] \in HotAsked
           /\ call[r].kind = "hot" /\ call[r].pc # "sequence" => call[r] \in HotMade
           /\ call[r].kind = "missing" /\ call[r].pc = "sequence" => call[r] \in MissingAsked
           /\ call[r].kind = "missing" /\ call[r].pc # "sequence" => call[r] \in MissingMade
           /\ call[r].kind = "owner" => call[r] \in OwnerMade
           /\ call[r].kind = "cold" => call[r] \in ColdMade
           /\ call[r].kind = "none" => call[r] \in {Idle, Done}
           /\ call[r].kind \in {"none", "hot", "missing", "owner", "cold"}
           /\ Running(r) <=> call[r].kind # "none"
<1>1. call[r] \in CallState
  BY DEF WalletsTypeOK
<1>2. Running(r) <=> call[r].pc \notin {"idle", "done"}
  BY DEF Running
<1> DEFINE c == call[r]
<1> HIDE DEF c
<1>3. c \in CallState
  BY <1>1 DEF c
<1>4. /\ c.kind = "hot" /\ c.pc = "sequence" => c \in HotAsked
      /\ c.kind = "hot" /\ c.pc # "sequence" => c \in HotMade
      /\ c.kind = "missing" /\ c.pc = "sequence" => c \in MissingAsked
      /\ c.kind = "missing" /\ c.pc # "sequence" => c \in MissingMade
      /\ c.kind = "owner" => c \in OwnerMade
      /\ c.kind = "cold" => c \in ColdMade
      /\ c.kind = "none" => c \in {Idle, Done}
      /\ c.kind \in {"none", "hot", "missing", "owner", "cold"}
      /\ c.pc \notin {"idle", "done"} <=> c.kind # "none"
  BY <1>3, KindsOfCalls DEF CallState
<1> QED
  BY <1>2, <1>4 DEF c

\* What a step does to one call, and to no other.
Puts(r, x) == call' = [call EXCEPT ![r] = x]

LEMMA PutsOne ==
    ASSUME WalletsTypeOK, NEW r \in Request, NEW x, Puts(r, x)
    PROVE  /\ call'[r] = x
           /\ \A q \in Request : q # r => call'[q] = call[q]
           /\ x \in CallState => call' \in [Request -> CallState]
BY DEF WalletsTypeOK, Puts

\* The states of a call after a step, by name.
HotTodo(o, b, t, e) ==
    [kind |-> "hot", pc |-> "sequence", owner |-> o, chain |-> b, type |-> t, ext |-> e]

HotDerived(c, r) ==
    LET n == MaxSequence(c.owner, c.chain) + 1
        a == AddressWallet(c.chain, c.type, Seed[c.owner], n)
    IN  [kind |-> "hot", derived |-> a, pc |-> IF c.chain \in EVMBlockchains THEN "evm" ELSE "insert",
         row |-> HotRow(c.owner, c.chain, a, n, c.ext, r)]

MovedTo(c, p) == [c EXCEPT !.pc = p]

HotBorrowed(c, w) ==
    [c EXCEPT !.pc = "insert", !.row = [c.row EXCEPT !.address = w.address, !.seq = w.seq]]

MissingTodo(todo) == [kind |-> "missing", pc |-> "sequence", todo |-> todo]

MissingRow(todo, w) == [kind |-> "missing", pc |-> "insert", todo |-> todo, row |-> w]

OwnerTodo(o) ==
    [kind |-> "owner", pc |-> "create", owner |-> o, todo |-> Blockchain, rows |-> {}]

OwnerMore(c, b, w) == [c EXCEPT !.todo = @ \ {b}, !.rows = @ \cup {w}]

(***************************************************************************)
(* The steps, each as what it does to the rows and to its call             *)
(***************************************************************************)

Tables == UNCHANGED <<owners, hot, processing, overlap, checked>>

Begins(r, c) ==
    /\ call[r] = Idle /\ Puts(r, c)
    /\ overlap' = overlap \cup {{r, q} : q \in {x \in Request : Running(x)}}
    /\ UNCHANGED <<owners, hot, processing>>

AsksHot(r) ==
    \E o \in owners, b \in Blockchain, e \in External : \E t \in TypesOf(b) :
       Begins(r, HotTodo(o, b, t, e)) /\ UNCHANGED checked

AsksMissing(r) == ~checked /\ checked' = TRUE /\ Begins(r, MissingTodo(GetAllNotCreatedWallets))

AsksOwner(r) ==
    \E o \in Owner \ owners :
       /\ \A q \in Request : call[q].kind = "owner" => call[q].owner # o
       /\ Begins(r, OwnerTodo(o)) /\ UNCHANGED checked

AsksCold(r) == \E c \in ColdMade : Begins(r, c) /\ UNCHANGED checked

Derives(r) ==
    /\ call[r].kind = "hot" /\ call[r].pc = "sequence"
    /\ Puts(r, HotDerived(call[r], r)) /\ Tables

Borrows(r) ==
    /\ call[r].kind = "hot" /\ call[r].pc = "evm" /\ Tables
    /\ \/ Puts(r, MovedTo(call[r], "insert"))
       \/ \E w \in FindEVMByExternalID(call[r].row.owner, call[r].row.ext) :
             Puts(r, HotBorrowed(call[r], w))

AddsHot(r) ==
    /\ call[r].kind = "hot" /\ call[r].pc = "insert" /\ ~Taken(hot, call[r].row)
    /\ hot' = hot \cup {call[r].row} /\ Puts(r, MovedTo(call[r], "store"))
    /\ UNCHANGED <<owners, processing, overlap, checked>>

LooksUp(r) ==
    /\ call[r].kind = "missing" /\ call[r].pc = "sequence" /\ Tables
    /\ \E x \in call[r].todo :
          /\ ~IsTakenByAnotherOwner(x[1], ProcessingWallet(x[1], x[2], r).address)
          /\ Puts(r, MissingRow(call[r].todo \ {x}, ProcessingWallet(x[1], x[2], r)))

AddsMissing(r) ==
    /\ call[r].kind = "missing" /\ call[r].pc = "insert"
    /\ processing' = processing \cup {call[r].row} /\ Puts(r, MovedTo(call[r], "store"))
    /\ UNCHANGED <<owners, hot, overlap, checked>>

GoesOn(r) ==
    /\ call[r].kind = "missing" /\ call[r].pc = "store"
    /\ Puts(r, MissingTodo(call[r].todo)) /\ Tables

AddsToOwner(r) ==
    /\ call[r].kind = "owner" /\ Tables
    /\ \E b \in call[r].todo :
          /\ ~IsTakenByAnotherOwner(call[r].owner, ProcessingWallet(call[r].owner, b, r).address)
          /\ Puts(r, OwnerMore(call[r], b, ProcessingWallet(call[r].owner, b, r)))

Commits(r) ==
    /\ call[r].kind = "owner" /\ call[r].todo = {}
    /\ owners' = owners \cup {call[r].owner} /\ processing' = processing \cup call[r].rows
    /\ Puts(r, Done) /\ UNCHANGED <<hot, overlap, checked>>

Finishes(r) == Running(r) /\ Puts(r, Done) /\ Tables

MovesCold(r) ==
    /\ call[r].kind = "cold" /\ Tables
    /\ \E d \in ColdMade : Puts(r, d)

\* The columns is_dirty and is_activated change, and nothing else.
Relabels ==
    /\ \E f \in [hot -> HotRows] :
          /\ hot' = {f[w] : w \in hot}
          /\ \A w \in hot : /\ f[w].owner = w.owner /\ f[w].chain = w.chain
                            /\ f[w].address = w.address /\ f[w].seq = w.seq /\ f[w].by = w.by
    /\ UNCHANGED <<owners, processing, call, overlap, checked>>

Rests == UNCHANGED <<owners, hot, processing, call, overlap, checked>>

RequestMoves(r) ==
    \/ AsksHot(r) \/ AsksMissing(r) \/ AsksOwner(r) \/ AsksCold(r) \/ Derives(r) \/ Borrows(r)
    \/ AddsHot(r) \/ LooksUp(r) \/ AddsMissing(r) \/ GoesOn(r) \/ AddsToOwner(r) \/ Commits(r)
    \/ Finishes(r) \/ MovesCold(r)

LEMMA TypesAsked ==
    ASSUME NEW b \in Blockchain, NEW wt \in IF b \in Typed THEN WalletType ELSE {"UNSPECIFIED"}
    PROVE  addressType(b, wt) \in TypesOf(b)
BY DEF addressType, TypesOf, Typed, AddressType, convertBitcoinWalletType, convertLitecoinWalletType

LEMMA Relabelling ==
    ASSUME NEW M \in SUBSET hot, hot \subseteq HotRows, NEW g \in [hot -> HotRows],
           \A w \in hot : /\ g[w].owner = w.owner /\ g[w].chain = w.chain
                          /\ g[w].address = w.address /\ g[w].seq = w.seq /\ g[w].by = w.by,
           hot' = (hot \ M) \cup {g[w] : w \in M},
           UNCHANGED <<owners, processing, call, overlap, checked>>
    PROVE  Relabels
<1> DEFINE f == [w \in hot |-> IF w \in M THEN g[w] ELSE w]
<1>1. f \in [hot -> HotRows]
  OBVIOUS
<1>2. hot' = {f[w] : w \in hot}
  OBVIOUS
<1>3. \A w \in hot : /\ f[w].owner = w.owner /\ f[w].chain = w.chain
                     /\ f[w].address = w.address /\ f[w].seq = w.seq /\ f[w].by = w.by
  OBVIOUS
<1> HIDE DEF f
<1> QED
  BY <1>1, <1>2, <1>3 DEF Relabels

LEMMA WalletMoves ==
    ASSUME WalletsTypeOK, Next
    PROVE  (\E r \in Request : RequestMoves(r)) \/ Relabels \/ Rests
<1> USE DEF RequestMoves, tables, cacher, begun, Tables, Rests, Puts
<1>1. ASSUME NEW r \in Request, NEW o \in Owner, NEW b \in Blockchain, NEW e \in External,
             NEW wt \in IF b \in Typed THEN WalletType ELSE {"UNSPECIFIED"}, BeginHot(r, o, b, wt, e)
      PROVE  AsksHot(r)
  <2>1. addressType(b, wt) \in TypesOf(b)
    BY TypesAsked
  <2>2. Begins(r, HotTodo(o, b, addressType(b, wt), e)) /\ o \in owners /\ UNCHANGED checked
    BY <1>1 DEF BeginHot, Begin, Begins, HotTodo
  <2> QED
    BY <2>1, <2>2 DEF AsksHot
<1>2. ASSUME NEW r \in Request, NEW o \in Owner, BeginOwner(r, o) PROVE AsksOwner(r)
  <2>1. Begins(r, OwnerTodo(o)) /\ o \notin owners /\ UNCHANGED checked
    BY <1>2 DEF BeginOwner, Begin, Begins, OwnerTodo
  <2> QED
    BY <1>2, <2>1 DEF AsksOwner, BeginOwner
<1>3. ASSUME NEW r \in Request, BeginMissing(r) PROVE AsksMissing(r)
  BY <1>3 DEF BeginMissing, Begin, Begins, AsksMissing, MissingTodo
<1>4. ASSUME NEW r \in Request, NEW o \in Owner, NEW b \in Blockchain, NEW A \in SUBSET ColdAddress,
             BeginCold(r, o, b, A)
      PROVE  AsksCold(r)
  <2> DEFINE c == [kind |-> "cold", pc |-> "delete", owner |-> o, chain |-> b,
                   gone |-> {}, rows |-> {ColdRow(o, b, a, r) : a \in A}]
  <2>1. c \in ColdMade
    BY DEF ColdMade, ColdRow, ColdRows
  <2>2. Begins(r, c) /\ UNCHANGED checked
    BY <1>4 DEF BeginCold, Begin, Begins
  <2> HIDE DEF c
  <2> QED
    BY <2>1, <2>2 DEF AsksCold
<1>5. ASSUME NEW r \in Request, Call(r) PROVE RequestMoves(r)
  <2>1. ASSUME ReadSequence(r) PROVE Derives(r)
    BY <2>1 DEF ReadSequence, Derives, HotDerived
  <2>2. ASSUME ReuseAddress(r) PROVE Borrows(r)
    BY <2>2 DEF ReuseAddress, Borrows, HotBorrowed, MovedTo
  <2>3. ASSUME InsertHot(r) PROVE AddsHot(r) \/ Finishes(r)
    BY <2>3 DEF InsertHot, AddsHot, Finishes, MovedTo, Running
  <2>4. ASSUME StoreHot(r) PROVE Finishes(r)
    BY <2>4 DEF StoreHot, Finishes, Running
  <2>5. ASSUME ReadMissing(r) PROVE LooksUp(r) \/ Finishes(r)
    <3>1. CASE call[r].todo = {}
      BY <2>5, <3>1 DEF ReadMissing, Finishes, Running
    <3>2. CASE call[r].todo # {}
      <4>1. PICK x \in call[r].todo :
              Puts(r, IF IsTakenByAnotherOwner(ProcessingWallet(x[1], x[2], r).owner, ProcessingWallet(x[1], x[2], r).address)
                      THEN Done ELSE MissingRow(call[r].todo \ {x}, ProcessingWallet(x[1], x[2], r)))
        BY <2>5, <3>2 DEF ReadMissing, MissingRow
      <4>2. ProcessingWallet(x[1], x[2], r).owner = x[1]
        BY DEF ProcessingWallet, ProcessingRow
      <4> QED
        BY <2>5, <4>1, <4>2 DEF ReadMissing, LooksUp, Finishes, Running
    <3> QED
      BY <3>1, <3>2
  <2>6. ASSUME InsertMissing(r) PROVE AddsMissing(r) \/ Finishes(r)
    BY <2>6 DEF InsertMissing, AddsMissing, Finishes, MovedTo, Running
  <2>7. ASSUME StoreMissing(r) PROVE GoesOn(r)
    BY <2>7 DEF StoreMissing, GoesOn, MissingTodo
  <2>8. ASSUME CreateProcessing(r) PROVE AddsToOwner(r) \/ Finishes(r)
    <3> DEFINE b == CHOOSE x \in call[r].todo : TRUE
    <3>1. b \in call[r].todo
      BY <2>8 DEF CreateProcessing
    <3>2. \/ Puts(r, Done)
          \/ /\ ~IsTakenByAnotherOwner(call[r].owner, ProcessingWallet(call[r].owner, b, r).address)
             /\ Puts(r, OwnerMore(call[r], b, ProcessingWallet(call[r].owner, b, r)))
      BY <2>8 DEF CreateProcessing, OwnerMore
    <3>3. call[r].kind = "owner" /\ Running(r) /\ Tables
      BY <2>8 DEF CreateProcessing, Running
    <3> HIDE DEF b
    <3> QED
      BY <3>1, <3>2, <3>3 DEF AddsToOwner, Finishes
  <2>9. ASSUME CommitOwner(r) PROVE Commits(r)
    BY <2>9 DEF CommitOwner, Commits
  <2>10. ASSUME DeleteCold(r) PROVE MovesCold(r)
    <3>1. call[r] \in ColdMade
      BY <2>10, CallStateOf DEF DeleteCold
    <3> DEFINE d == [call[r] EXCEPT !.pc = "insert", !.gone = FindCold(call[r].owner, call[r].chain)]
    <3>2. d \in ColdMade
      BY <3>1 DEF ColdMade, FindCold, WalletsTypeOK
    <3>3. Puts(r, d) /\ call[r].kind = "cold" /\ Tables
      BY <2>10 DEF DeleteCold
    <3> HIDE DEF d
    <3> QED
      BY <3>2, <3>3 DEF MovesCold
  <2>11. ASSUME InsertCold(r) PROVE MovesCold(r) \/ Finishes(r)
    <3>1. call[r] \in ColdMade
      BY <2>11, CallStateOf DEF InsertCold
    <3> DEFINE d == [call[r] EXCEPT !.pc = "commit"]
    <3>2. d \in ColdMade
      BY <3>1 DEF ColdMade
    <3>3. (Puts(r, d) \/ Puts(r, Done)) /\ call[r].kind = "cold" /\ Running(r) /\ Tables
      BY <2>11 DEF InsertCold, Running
    <3> HIDE DEF d
    <3> QED
      BY <3>2, <3>3 DEF MovesCold, Finishes
  <2>12. ASSUME CommitCold(r) PROVE Finishes(r)
    BY <2>12 DEF CommitCold, Finishes, Running
  <2> QED
    BY <1>5, <2>1, <2>2, <2>3, <2>4, <2>5, <2>6, <2>7, <2>8, <2>9, <2>10, <2>11, <2>12 DEF Call
<1>6. ASSUME NEW r \in Request, CallFails(r) PROVE Finishes(r)
  BY <1>6 DEF CallFails, Finishes
<1>7. ASSUME NEW w \in hot, MarkDirty(w) PROVE Relabels
  <2> DEFINE g == [v \in hot |-> [v EXCEPT !.dirty = TRUE]]
  <2>1. hot \subseteq HotRows
    BY DEF WalletsTypeOK
  <2>2. g \in [hot -> HotRows]
    BY <2>1 DEF HotRows
  <2>3. \A v \in hot : /\ g[v].owner = v.owner /\ g[v].chain = v.chain
                       /\ g[v].address = v.address /\ g[v].seq = v.seq /\ g[v].by = v.by
    BY <2>1 DEF HotRows
  <2>4. /\ hot' = (hot \ {w}) \cup {g[v] : v \in {w}}
        /\ UNCHANGED <<owners, processing, call, overlap, checked>>
    BY <1>7 DEF MarkDirty
  <2> HIDE DEF g
  <2> QED
    BY <2>1, <2>2, <2>3, <2>4, Relabelling
<1>8. ASSUME NEW x \in DOMAIN cache["hot"], ActivateWallet(x[1], x[2]) PROVE Relabels
  <2> DEFINE g == [v \in hot |-> [v EXCEPT !.activated = TRUE]]
  <2>1. hot \subseteq HotRows
    BY DEF WalletsTypeOK
  <2>2. g \in [hot -> HotRows]
    BY <2>1 DEF HotRows
  <2>3. \A v \in hot : /\ g[v].owner = v.owner /\ g[v].chain = v.chain
                       /\ g[v].address = v.address /\ g[v].seq = v.seq /\ g[v].by = v.by
    BY <2>1 DEF HotRows
  <2>4. PICK M \in SUBSET hot : /\ hot' = (hot \ M) \cup {g[v] : v \in M}
                                /\ UNCHANGED <<owners, processing, call, overlap, checked>>
    <3>1. PICK M \in SUBSET hot : hot' = (hot \ M) \cup {[v EXCEPT !.activated = TRUE] : v \in M}
      BY <1>8 DEF ActivateWallet, HotByAddress
    <3> QED
      BY <1>8, <3>1 DEF ActivateWallet
  <2> HIDE DEF g
  <2> QED
    BY <2>1, <2>2, <2>3, <2>4, Relabelling
<1>9. ASSUME NEW p \in Pass, Cacher(p) \/ CacheFindFails(p) PROVE Rests
  BY <1>9 DEF Cacher, CacheFindFails, BeginPass, CacheFind, CacheStore, CacheSweep
<1> QED
  BY <1>1, <1>2, <1>3, <1>4, <1>5, <1>6, <1>7, <1>8, <1>9 DEF Next

(***************************************************************************)
(* Types                                                                   *)
(***************************************************************************)

CoinOf(b) ==
    CASE b = "bitcoin" -> 0 [] b = "litecoin" -> 2 [] b = "bitcoincash" -> 145
      [] b = "dogecoin" -> 3 [] b \in EVMBlockchains -> 60 [] b = "tron" -> 195

PurposeOf(b, t) == IF b \in Typed THEN Purpose(t) ELSE 44

KeyFor(b, t, seed, n) == Key(seed, PurposeOf(b, t), CoinOf(b), n)

\* What the generators of the chains have in common.
LEMMA AddressForm ==
    ASSUME NEW b \in AllBlockchains, NEW t \in TypesOf(b), NEW seed, NEW n
    PROVE  AddressWallet(b, t, seed, n) = [network |-> Network(b), type |-> t, key |-> KeyFor(b, t, seed, n)]
<1> USE DEF KeyFor, PurposeOf, CoinOf, Typed, TypesOf, Generated, Network
<1>1. CASE b = "bitcoin"
  BY <1>1 DEF AddressWallet, BtcGenerateAddress, EVMBlockchains
<1>2. CASE b = "litecoin"
  BY <1>2 DEF AddressWallet, LtcGenerateAddress, EVMBlockchains
<1>3. CASE b = "bitcoincash"
  BY <1>3 DEF AddressWallet, BchGenerateAddress, EVMBlockchains
<1>4. CASE b = "dogecoin"
  BY <1>4 DEF AddressWallet, DogeGenerateAddress, EVMBlockchains
<1>5. CASE b \in EVMBlockchains
  BY <1>5 DEF AddressWallet, EvmWalletPubKeyHash, EVMBlockchains
<1>6. CASE b = "tron"
  BY <1>6 DEF AddressWallet, TronWalletPubKeyHash, EVMBlockchains
<1> QED
  BY <1>1, <1>2, <1>3, <1>4, <1>5, <1>6 DEF AllBlockchains

LEMMA GeneratedIsAddress ==
    ASSUME NEW b \in Blockchain, NEW t \in TypesOf(b), NEW o \in Owner, NEW n \in Nat
    PROVE  AddressWallet(b, t, Seed[o], n) \in Address
<1>1. b \in AllBlockchains
  BY WalletsAssumption
<1>2. CoinOf(b) \in {0, 2, 3, 60, 145, 195}
  BY <1>1 DEF CoinOf, AllBlockchains
<1>3. PurposeOf(b, t) \in {44, 49, 84, 86}
  BY DEF PurposeOf, TypesOf, Purpose, AddressType
<1>4. KeyFor(b, t, Seed[o], n) \in KeySpace
  BY <1>2, <1>3 DEF KeyFor, Key, KeySpace
<1>5. Network(b) \in {"evm"} \cup AllBlockchains /\ t \in {""} \cup AddressType
  BY <1>1 DEF Network, TypesOf
<1>6. AddressWallet(b, t, Seed[o], n)
        = [network |-> Network(b), type |-> t, key |-> KeyFor(b, t, Seed[o], n)]
  BY <1>1, AddressForm
<1>7. \A x \in {"evm"} \cup AllBlockchains, y \in {""} \cup AddressType, k \in KeySpace :
        [network |-> x, type |-> y, key |-> k] \in Address
  BY DEF Address
<1> QED
  BY <1>4, <1>5, <1>6, <1>7

LEMMA ProcessingType == \A b : AddressTypeByBlockchain(b) \in TypesOf(b)
BY DEF AddressTypeByBlockchain, TypesOf, AddressType

LEMMA SequenceIsHighest ==
    ASSUME WalletsTypeOK, SeqBound, NEW o, NEW b
    PROVE  /\ MaxSequence(o, b) \in Nat \cup {-1}
           /\ \A w \in FindHot(o, b) \cup FindProcessing(o, b) : w.seq <= MaxSequence(o, b)
           /\ MaxSequence(o, b) # -1 =>
                \E w \in FindHot(o, b) \cup FindProcessing(o, b) : w.seq = MaxSequence(o, b)
           /\ FindHot(o, b) \cup FindProcessing(o, b) = {} => MaxSequence(o, b) = -1
<1> DEFINE R == FindHot(o, b) \cup FindProcessing(o, b)
           S == {-1} \cup {w.seq : w \in R}
<1>1. \A w \in R : w.seq \in Nat
  BY DEF FindHot, FindProcessing, WalletsTypeOK, HotRows, ProcessingRows
<1>2. PICK N \in Nat : \A w \in R : w.seq <= N
  BY DEF SeqBound, BoundBy, FindHot, FindProcessing
<1>3. S \subseteq Nat \cup {-1} /\ S # {} /\ \A x \in S : x <= N
  BY <1>1, <1>2
<1>4. MaxSequence(o, b) = Max(S)
  BY DEF MaxSequence
<1>5. Max(S) \in S /\ \A x \in S : x <= Max(S)
  <2> HIDE DEF S
  <2> QED
    BY <1>3, MaxOf
<1> QED
  BY <1>3, <1>4, <1>5

LEMMA ProcessingRowType ==
    ASSUME WalletsTypeOK, SeqBound, NEW o \in Owner, NEW b \in Blockchain, NEW r \in Request
    PROVE  /\ ProcessingWallet(o, b, r) \in ProcessingRows
           /\ ProcessingWallet(o, b, r).owner = o /\ ProcessingWallet(o, b, r).chain = b
           /\ ProcessingWallet(o, b, r).by = r
           /\ ProcessingWallet(o, b, r).seq = MaxSequence(o, b) + 1
           /\ Processed(ProcessingWallet(o, b, r))
<1>1. MaxSequence(o, b) + 1 \in Nat
  BY SequenceIsHighest
<1> DEFINE n == MaxSequence(o, b) + 1
           a == AddressWallet(b, AddressTypeByBlockchain(b), Seed[o], n)
<1>2. a \in Address
  BY <1>1, GeneratedIsAddress, ProcessingType
<1>3. ProcessingWallet(o, b, r) = ProcessingRow(o, b, a, n, r)
  BY DEF ProcessingWallet
<1>4. n \in Nat /\ n = MaxSequence(o, b) + 1
  BY <1>1
<1>5. a = AddressWallet(b, AddressTypeByBlockchain(b), Seed[o], n)
  OBVIOUS
<1> HIDE DEF n, a
<1> QED
  BY <1>2, <1>3, <1>4, <1>5 DEF ProcessingRow, ProcessingRows, Maker, Processed

LEMMA HotDerivedType ==
    ASSUME WalletsTypeOK, SeqBound, NEW r \in Request, NEW c \in HotAsked, c.type \in TypesOf(c.chain)
    PROVE  /\ HotDerived(c, r) \in HotMade
           /\ HotDerived(c, r).pc \in {"evm", "insert"}
           /\ HotDerived(c, r).pc = "evm" => c.chain \in EVMBlockchains
           /\ HotDerived(c, r).row.owner = c.owner /\ HotDerived(c, r).row.chain = c.chain
           /\ HotDerived(c, r).row.by = r
           /\ HotDerived(c, r).row.seq = MaxSequence(c.owner, c.chain) + 1
           /\ Derived(HotDerived(c, r).row)
<1>1. MaxSequence(c.owner, c.chain) + 1 \in Nat
  BY SequenceIsHighest
<1> DEFINE n == MaxSequence(c.owner, c.chain) + 1
           a == AddressWallet(c.chain, c.type, Seed[c.owner], n)
<1>2. c.owner \in Owner /\ c.chain \in Blockchain /\ c.ext \in External
  BY DEF HotAsked
<1>3. a \in Address
  BY <1>1, <1>2, GeneratedIsAddress
<1>4. HotDerived(c, r) =
        [kind |-> "hot", derived |-> a, pc |-> IF c.chain \in EVMBlockchains THEN "evm" ELSE "insert",
         row |-> HotRow(c.owner, c.chain, a, n, c.ext, r)]
  BY DEF HotDerived
<1>5. n \in Nat /\ n = MaxSequence(c.owner, c.chain) + 1
  BY <1>1
<1>6. a = AddressWallet(c.chain, c.type, Seed[c.owner], n)
  OBVIOUS
<1> HIDE DEF n, a
<1>7. /\ HotRow(c.owner, c.chain, a, n, c.ext, r) \in HotRows
      /\ Derived(HotRow(c.owner, c.chain, a, n, c.ext, r))
  BY <1>2, <1>3, <1>5, <1>6 DEF HotRow, HotRows, Derived
<1> QED
  BY <1>3, <1>4, <1>5, <1>7 DEF HotMade, HotRow

LEMMA MovedToType ==
    /\ \A c \in HotMade, p \in {"insert", "store"} :
          MovedTo(c, p) \in HotMade /\ MovedTo(c, p).row = c.row /\ MovedTo(c, p).pc = p
    /\ \A c \in MissingMade :
          /\ MovedTo(c, "store") \in MissingMade /\ MovedTo(c, "store").row = c.row
          /\ MovedTo(c, "store").pc = "store" /\ MovedTo(c, "store").todo = c.todo
<1>1. ASSUME NEW c \in HotMade, NEW p \in {"insert", "store"}
      PROVE  MovedTo(c, p) \in HotMade /\ MovedTo(c, p).row = c.row /\ MovedTo(c, p).pc = p
  BY DEF MovedTo, HotMade
<1>2. ASSUME NEW c \in MissingMade
      PROVE  /\ MovedTo(c, "store") \in MissingMade /\ MovedTo(c, "store").row = c.row
             /\ MovedTo(c, "store").pc = "store" /\ MovedTo(c, "store").todo = c.todo
  BY DEF MovedTo, MissingMade
<1> QED
  BY <1>1, <1>2

LEMMA HotBorrowedType ==
    ASSUME NEW c \in HotMade, NEW w \in HotRows
    PROVE  /\ HotBorrowed(c, w) \in HotMade /\ HotBorrowed(c, w).pc = "insert"
           /\ HotBorrowed(c, w).row.owner = c.row.owner /\ HotBorrowed(c, w).row.chain = c.row.chain
           /\ HotBorrowed(c, w).row.by = c.row.by /\ HotBorrowed(c, w).row.ext = c.row.ext
           /\ HotBorrowed(c, w).row.address = w.address /\ HotBorrowed(c, w).row.seq = w.seq
<1> DEFINE x == [c.row EXCEPT !.address = w.address, !.seq = w.seq]
<1>1. c.row \in HotRows
  BY DEF HotMade
<1>2. /\ x \in HotRows /\ x.owner = c.row.owner /\ x.chain = c.row.chain /\ x.by = c.row.by
      /\ x.ext = c.row.ext /\ x.address = w.address /\ x.seq = w.seq
  BY <1>1 DEF HotRows
<1>3. HotBorrowed(c, w) = [c EXCEPT !.pc = "insert", !.row = x]
  BY DEF HotBorrowed
<1> HIDE DEF x
<1> QED
  BY <1>2, <1>3 DEF HotMade

LEMMA OwnerMoreType ==
    ASSUME NEW c \in OwnerMade, NEW b \in c.todo, NEW w \in ProcessingRows
    PROVE  /\ OwnerMore(c, b, w) \in OwnerMade
           /\ OwnerMore(c, b, w).owner = c.owner
           /\ OwnerMore(c, b, w).todo = c.todo \ {b} /\ OwnerMore(c, b, w).rows = c.rows \cup {w}
BY DEF OwnerMore, OwnerMade

LEMMA TodoTypes ==
    /\ \A todo \in SUBSET (Owner \X Blockchain) :
          MissingTodo(todo) \in MissingAsked /\ MissingTodo(todo).todo = todo
    /\ \A todo \in SUBSET (Owner \X Blockchain), w \in ProcessingRows :
          /\ MissingRow(todo, w) \in MissingMade /\ MissingRow(todo, w).todo = todo
          /\ MissingRow(todo, w).row = w /\ MissingRow(todo, w).pc = "insert"
    /\ \A o \in Owner : /\ OwnerTodo(o) \in OwnerMade /\ OwnerTodo(o).owner = o
                        /\ OwnerTodo(o).todo = Blockchain /\ OwnerTodo(o).rows = {}
    /\ \A o \in Owner, b \in Blockchain, e \in External : \A t \in TypesOf(b) :
          /\ HotTodo(o, b, t, e) \in HotAsked /\ HotTodo(o, b, t, e).owner = o
          /\ HotTodo(o, b, t, e).type = t /\ HotTodo(o, b, t, e).chain = b
<1>1. ASSUME NEW todo \in SUBSET (Owner \X Blockchain)
      PROVE  MissingTodo(todo) \in MissingAsked /\ MissingTodo(todo).todo = todo
  BY DEF MissingTodo, MissingAsked
<1>2. ASSUME NEW todo \in SUBSET (Owner \X Blockchain), NEW w \in ProcessingRows
      PROVE  /\ MissingRow(todo, w) \in MissingMade /\ MissingRow(todo, w).todo = todo
             /\ MissingRow(todo, w).row = w /\ MissingRow(todo, w).pc = "insert"
  BY DEF MissingRow, MissingMade
<1>3. ASSUME NEW o \in Owner
      PROVE  /\ OwnerTodo(o) \in OwnerMade /\ OwnerTodo(o).owner = o
             /\ OwnerTodo(o).todo = Blockchain /\ OwnerTodo(o).rows = {}
  BY DEF OwnerTodo, OwnerMade
<1>4. ASSUME NEW o \in Owner, NEW b \in Blockchain, NEW e \in External, NEW t \in TypesOf(b)
      PROVE  /\ HotTodo(o, b, t, e) \in HotAsked /\ HotTodo(o, b, t, e).owner = o
             /\ HotTodo(o, b, t, e).type = t /\ HotTodo(o, b, t, e).chain = b
  <2>1. t \in {""} \cup AddressType
    BY DEF TypesOf
  <2> QED
    BY <2>1 DEF HotTodo, HotAsked
<1> QED
  BY <1>1, <1>2, <1>3, <1>4

\* The part of KeyInv that the types need.
Asked ==
    \A r \in Request :
       call[r].kind = "hot" /\ call[r].pc = "sequence" => call[r].type \in TypesOf(call[r].chain)

TypeInv == WalletsTypeOK /\ SeqBound /\ Asked

(***************************************************************************)
(* What each step makes of the state of its call                           *)
(***************************************************************************)

LEMMA OthersStay ==
    ASSUME WalletsTypeOK, NEW r \in Request, RequestMoves(r)
    PROVE  \A q \in Request : q # r => call'[q] = call[q]
<1>1. \E x : Puts(r, x)
  BY DEF RequestMoves, AsksHot, AsksMissing, AsksOwner, AsksCold, Begins, Derives, Borrows, AddsHot,
         LooksUp, AddsMissing, GoesOn, AddsToOwner, Commits, Finishes, MovesCold
<1> QED
  BY <1>1, PutsOne

LEMMA AsksHotMakes ==
    ASSUME TypeInv, NEW r \in Request, AsksHot(r)
    PROVE  /\ call'[r] \in HotAsked /\ call'[r].owner \in owners
           /\ call'[r].type \in TypesOf(call'[r].chain)
BY PutsOne, TodoTypes DEF AsksHot, Begins, TypeInv, WalletsTypeOK

LEMMA AsksMissingMakes ==
    ASSUME TypeInv, NEW r \in Request, AsksMissing(r)
    PROVE  call'[r] \in MissingAsked /\ call'[r].todo = GetAllNotCreatedWallets
<1>1. GetAllNotCreatedWallets \in SUBSET (Owner \X Blockchain)
  BY DEF GetAllNotCreatedWallets, WalletsTypeOK, TypeInv
<1> QED
  BY <1>1, PutsOne, TodoTypes DEF AsksMissing, Begins, TypeInv

LEMMA AsksOwnerMakes ==
    ASSUME TypeInv, NEW r \in Request, AsksOwner(r)
    PROVE  /\ call'[r] \in OwnerMade /\ call'[r].owner \notin owners
           /\ call'[r].todo = Blockchain /\ call'[r].rows = {}
           /\ \A q \in Request : call[q].kind = "owner" => call[q].owner # call'[r].owner
BY PutsOne, TodoTypes DEF AsksOwner, Begins, TypeInv

LEMMA AsksColdMakes ==
    ASSUME TypeInv, NEW r \in Request, AsksCold(r) \/ MovesCold(r)
    PROVE  call'[r] \in ColdMade
BY PutsOne DEF AsksCold, MovesCold, Begins, TypeInv

LEMMA DerivesMakes ==
    ASSUME TypeInv, NEW r \in Request, Derives(r)
    PROVE  /\ call[r] \in HotAsked /\ call'[r] \in HotMade
           /\ call'[r].pc \in {"evm", "insert"}
           /\ call'[r].pc = "evm" => call[r].chain \in EVMBlockchains
           /\ call'[r].row.owner = call[r].owner /\ call'[r].row.chain = call[r].chain
           /\ call'[r].row.by = r
           /\ call'[r].row.seq = MaxSequence(call[r].owner, call[r].chain) + 1
           /\ Derived(call'[r].row)
<1>1. call[r] \in HotAsked /\ call[r].type \in TypesOf(call[r].chain)
  BY CallStateOf DEF Derives, TypeInv, Asked
<1>2. call'[r] = HotDerived(call[r], r)
  BY PutsOne DEF Derives, TypeInv
<1> QED
  BY <1>1, <1>2, HotDerivedType DEF TypeInv

LEMMA BorrowsMakes ==
    ASSUME TypeInv, NEW r \in Request, Borrows(r)
    PROVE  /\ call[r] \in HotMade /\ call'[r] \in HotMade /\ call'[r].pc = "insert"
           /\ call'[r].row.owner = call[r].row.owner /\ call'[r].row.chain = call[r].row.chain
           /\ call'[r].row.by = call[r].row.by
           /\ \/ call'[r].row = call[r].row
              \/ \E w \in FindEVMByExternalID(call[r].row.owner, call[r].row.ext) :
                    call'[r].row.address = w.address /\ call'[r].row.seq = w.seq
<1>1. call[r] \in HotMade
  BY CallStateOf DEF Borrows, TypeInv
<1>2. CASE Puts(r, MovedTo(call[r], "insert"))
  BY <1>1, <1>2, PutsOne, MovedToType DEF TypeInv
<1>3. ASSUME NEW w \in FindEVMByExternalID(call[r].row.owner, call[r].row.ext),
             Puts(r, HotBorrowed(call[r], w))
      PROVE  /\ call'[r] \in HotMade /\ call'[r].pc = "insert"
             /\ call'[r].row.owner = call[r].row.owner /\ call'[r].row.chain = call[r].row.chain
             /\ call'[r].row.by = call[r].row.by
             /\ call'[r].row.address = w.address /\ call'[r].row.seq = w.seq
  <2>1. w \in HotRows
    BY DEF FindEVMByExternalID, TypeInv, WalletsTypeOK
  <2> QED
    BY <1>1, <1>3, <2>1, PutsOne, HotBorrowedType DEF TypeInv
<1> QED
  BY <1>1, <1>2, <1>3 DEF Borrows

LEMMA AddsHotMakes ==
    ASSUME TypeInv, NEW r \in Request, AddsHot(r)
    PROVE  /\ call[r] \in HotMade /\ call'[r] \in HotMade
           /\ call'[r].pc = "store" /\ call'[r].row = call[r].row
BY CallStateOf, PutsOne, MovedToType DEF AddsHot, TypeInv

LEMMA LooksUpMakes ==
    ASSUME TypeInv, NEW r \in Request, LooksUp(r)
    PROVE  /\ call[r] \in MissingAsked /\ call'[r] \in MissingMade /\ call'[r].pc = "insert"
           /\ \E x \in call[r].todo :
                /\ x \in Owner \X Blockchain
                /\ ~IsTakenByAnotherOwner(x[1], call'[r].row.address)
                /\ call'[r].todo = call[r].todo \ {x}
                /\ call'[r].row \in ProcessingRows
                /\ call'[r].row.owner = x[1] /\ call'[r].row.chain = x[2] /\ call'[r].row.by = r
                /\ call'[r].row.seq = MaxSequence(x[1], x[2]) + 1
                /\ Processed(call'[r].row)
<1>1. PICK x \in call[r].todo :
          /\ ~IsTakenByAnotherOwner(x[1], ProcessingWallet(x[1], x[2], r).address)
          /\ Puts(r, MissingRow(call[r].todo \ {x}, ProcessingWallet(x[1], x[2], r)))
  BY DEF LooksUp
<1>2. call[r] \in MissingAsked
  BY CallStateOf DEF LooksUp, TypeInv
<1>3. call[r].todo \in SUBSET (Owner \X Blockchain)
  BY <1>2 DEF MissingAsked
<1>4. /\ x[1] \in Owner /\ x[2] \in Blockchain /\ x \in Owner \X Blockchain
      /\ call[r].todo \ {x} \in SUBSET (Owner \X Blockchain)
  BY <1>3
<1> DEFINE w == ProcessingWallet(x[1], x[2], r)
           todo == call[r].todo \ {x}
<1>5. /\ w \in ProcessingRows /\ w.owner = x[1] /\ w.chain = x[2] /\ w.by = r
      /\ w.seq = MaxSequence(x[1], x[2]) + 1 /\ Processed(w)
  BY <1>4, ProcessingRowType DEF TypeInv
<1>6. call'[r] = MissingRow(todo, w) /\ todo = call[r].todo \ {x}
  BY <1>1, PutsOne DEF TypeInv
<1>7. ~IsTakenByAnotherOwner(x[1], w.address) /\ todo \in SUBSET (Owner \X Blockchain)
  BY <1>1, <1>4
<1> HIDE DEF w, todo
<1>8. call'[r] \in MissingMade /\ call'[r].todo = todo /\ call'[r].row = w /\ call'[r].pc = "insert"
  BY <1>5, <1>6, <1>7, TodoTypes
<1> QED
  BY <1>2, <1>4, <1>5, <1>6, <1>7, <1>8

LEMMA AddsMissingMakes ==
    ASSUME TypeInv, NEW r \in Request, AddsMissing(r)
    PROVE  /\ call[r] \in MissingMade /\ call'[r] \in MissingMade
           /\ call'[r].pc = "store" /\ call'[r].row = call[r].row /\ call'[r].todo = call[r].todo
BY CallStateOf, PutsOne, MovedToType DEF AddsMissing, TypeInv

LEMMA GoesOnMakes ==
    ASSUME TypeInv, NEW r \in Request, GoesOn(r)
    PROVE  call[r] \in MissingMade /\ call'[r] \in MissingAsked /\ call'[r].todo = call[r].todo
<1>1. call[r] \in MissingMade
  BY CallStateOf DEF GoesOn, TypeInv
<1>2. call[r].todo \in SUBSET (Owner \X Blockchain)
  BY <1>1 DEF MissingMade
<1> QED
  BY <1>1, <1>2, PutsOne, TodoTypes DEF GoesOn, TypeInv

LEMMA AddsToOwnerMakes ==
    ASSUME TypeInv, NEW r \in Request, AddsToOwner(r)
    PROVE  /\ call[r] \in OwnerMade /\ call'[r] \in OwnerMade /\ call'[r].owner = call[r].owner
           /\ \E b \in call[r].todo, w \in ProcessingRows :
                /\ b \in Blockchain
                /\ ~IsTakenByAnotherOwner(call[r].owner, w.address)
                /\ call'[r].todo = call[r].todo \ {b} /\ call'[r].rows = call[r].rows \cup {w}
                /\ w.owner = call[r].owner /\ w.chain = b /\ w.by = r
                /\ w.seq = MaxSequence(call[r].owner, b) + 1
                /\ Processed(w)
<1>1. PICK b \in call[r].todo :
          /\ ~IsTakenByAnotherOwner(call[r].owner, ProcessingWallet(call[r].owner, b, r).address)
          /\ Puts(r, OwnerMore(call[r], b, ProcessingWallet(call[r].owner, b, r)))
  BY DEF AddsToOwner
<1>2. call[r] \in OwnerMade
  BY CallStateOf DEF AddsToOwner, TypeInv
<1>3. call[r].owner \in Owner /\ b \in Blockchain
  BY <1>2 DEF OwnerMade
<1> DEFINE w == ProcessingWallet(call[r].owner, b, r)
<1>4. /\ w \in ProcessingRows /\ w.owner = call[r].owner /\ w.chain = b /\ w.by = r
      /\ w.seq = MaxSequence(call[r].owner, b) + 1 /\ Processed(w)
  BY <1>3, ProcessingRowType DEF TypeInv
<1>5. call'[r] = OwnerMore(call[r], b, w)
  BY <1>1, PutsOne DEF TypeInv
<1>6. ~IsTakenByAnotherOwner(call[r].owner, w.address)
  BY <1>1
<1> HIDE DEF w
<1>7. /\ call'[r] \in OwnerMade /\ call'[r].owner = call[r].owner
      /\ call'[r].todo = call[r].todo \ {b} /\ call'[r].rows = call[r].rows \cup {w}
  BY <1>2, <1>4, <1>5, OwnerMoreType
<1> QED
  BY <1>2, <1>3, <1>4, <1>6, <1>7

LEMMA CommitsMakes ==
    ASSUME TypeInv, NEW r \in Request, Commits(r)
    PROVE  call[r] \in OwnerMade /\ call'[r] = Done
BY CallStateOf, PutsOne DEF Commits, TypeInv

LEMMA FinishesMakes ==
    ASSUME TypeInv, NEW r \in Request, Finishes(r)
    PROVE  call'[r] = Done
BY PutsOne DEF Finishes, TypeInv

\* By the kind of what comes next.
LEMMA CallTypes ==
    ASSUME TypeInv, NEW r \in Request, RequestMoves(r)
    PROVE  /\ call' \in [Request -> CallState]
           /\ call'[r].kind = "hot" /\ call'[r].pc = "sequence" => AsksHot(r)
           /\ call'[r].kind = "owner" => AsksOwner(r) \/ AddsToOwner(r)
           /\ call'[r].kind = "hot" /\ call'[r].pc \in {"evm", "insert"} => Derives(r) \/ Borrows(r)
           /\ call'[r].kind = "hot" /\ call'[r].pc = "store" => AddsHot(r)
           /\ call'[r].kind = "missing" /\ call'[r].pc = "sequence" => AsksMissing(r) \/ GoesOn(r)
           /\ call'[r].kind = "missing" /\ call'[r].pc = "insert" => LooksUp(r)
           /\ call'[r].kind = "missing" /\ call'[r].pc = "store" => AddsMissing(r)
           /\ call'[r].kind = "hot" /\ call'[r].pc # "sequence" => Derives(r) \/ Borrows(r) \/ AddsHot(r)
           /\ call'[r].kind = "missing" /\ call'[r].pc # "sequence" => LooksUp(r) \/ AddsMissing(r)
           /\ call'[r].kind \in {"none", "hot", "missing", "owner", "cold"}
<1> USE KindsOfCalls
<1>1. /\ call'[r] \in CallState
      /\ call'[r].kind = "hot" /\ call'[r].pc = "sequence" => AsksHot(r)
      /\ call'[r].kind = "owner" => AsksOwner(r) \/ AddsToOwner(r)
      /\ call'[r].kind = "hot" /\ call'[r].pc \in {"evm", "insert"} => Derives(r) \/ Borrows(r)
      /\ call'[r].kind = "hot" /\ call'[r].pc = "store" => AddsHot(r)
      /\ call'[r].kind = "missing" /\ call'[r].pc = "sequence" => AsksMissing(r) \/ GoesOn(r)
      /\ call'[r].kind = "missing" /\ call'[r].pc = "insert" => LooksUp(r)
      /\ call'[r].kind = "missing" /\ call'[r].pc = "store" => AddsMissing(r)
      /\ call'[r].kind = "hot" /\ call'[r].pc # "sequence" => Derives(r) \/ Borrows(r) \/ AddsHot(r)
      /\ call'[r].kind = "missing" /\ call'[r].pc # "sequence" => LooksUp(r) \/ AddsMissing(r)
      /\ call'[r].kind \in {"none", "hot", "missing", "owner", "cold"}
  <2>1. CASE AsksHot(r)
    BY <2>1, AsksHotMakes DEF CallState
  <2>2. CASE AsksMissing(r)
    BY <2>2, AsksMissingMakes DEF CallState
  <2>3. CASE AsksOwner(r)
    BY <2>3, AsksOwnerMakes DEF CallState
  <2>4. CASE AsksCold(r) \/ MovesCold(r)
    BY <2>4, AsksColdMakes DEF CallState
  <2>5. CASE Derives(r)
    BY <2>5, DerivesMakes DEF CallState
  <2>6. CASE Borrows(r)
    BY <2>6, BorrowsMakes DEF CallState
  <2>7. CASE AddsHot(r)
    BY <2>7, AddsHotMakes DEF CallState
  <2>8. CASE LooksUp(r)
    BY <2>8, LooksUpMakes DEF CallState
  <2>9. CASE AddsMissing(r)
    BY <2>9, AddsMissingMakes DEF CallState
  <2>10. CASE GoesOn(r)
    BY <2>10, GoesOnMakes DEF CallState
  <2>11. CASE AddsToOwner(r)
    BY <2>11, AddsToOwnerMakes DEF CallState
  <2>12. CASE Commits(r)
    BY <2>12, CommitsMakes DEF CallState
  <2>13. CASE Finishes(r)
    BY <2>13, FinishesMakes DEF CallState
  <2> QED
    BY <2>1, <2>2, <2>3, <2>4, <2>5, <2>6, <2>7, <2>8, <2>9, <2>10, <2>11, <2>12, <2>13 DEF RequestMoves
<1>2. PICK x : Puts(r, x)
  BY DEF RequestMoves, AsksHot, AsksMissing, AsksOwner, AsksCold, Begins, Derives, Borrows, AddsHot,
         LooksUp, AddsMissing, GoesOn, AddsToOwner, Commits, Finishes, MovesCold
<1>3. call' \in [Request -> CallState]
  BY <1>1, <1>2, PutsOne DEF TypeInv
<1> QED
  BY <1>1, <1>3

LEMMA RowTypes ==
    ASSUME WalletsTypeOK, SeqBound, NEW r \in Request, RequestMoves(r)
    PROVE  /\ owners' \subseteq Owner
           /\ hot' \subseteq HotRows /\ processing' \subseteq ProcessingRows
           /\ overlap' \subseteq SUBSET Request /\ checked' \in BOOLEAN
<1> USE DEF WalletsTypeOK
<1>1. call[r].kind = "owner" => call[r].owner \in Owner /\ call[r].rows \subseteq ProcessingRows
  BY CallStateOf DEF OwnerMade
<1>2. call[r].kind = "hot" /\ call[r].pc = "insert" => call[r].row \in HotRows
  BY CallStateOf DEF HotMade
<1>3. call[r].kind = "missing" /\ call[r].pc = "insert" => call[r].row \in ProcessingRows
  BY CallStateOf DEF MissingMade
<1>4. overlap' \subseteq SUBSET Request
  BY DEF RequestMoves, AsksHot, AsksMissing, AsksOwner, AsksCold, Begins, Derives, Borrows, AddsHot, LooksUp,
         AddsMissing, GoesOn, AddsToOwner, Commits, Finishes, MovesCold, Tables
<1>5. checked' \in BOOLEAN
  BY DEF RequestMoves, AsksHot, AsksMissing, AsksOwner, AsksCold, Begins, Derives, Borrows, AddsHot, LooksUp,
         AddsMissing, GoesOn, AddsToOwner, Commits, Finishes, MovesCold, Tables
<1>6. owners' \subseteq Owner
  BY <1>1 DEF RequestMoves, AsksHot, AsksMissing, AsksOwner, AsksCold, Begins, Derives, Borrows, AddsHot,
         LooksUp, AddsMissing, GoesOn, AddsToOwner, Commits, Finishes, MovesCold, Tables
<1>7. hot' \subseteq HotRows
  BY <1>2 DEF RequestMoves, AsksHot, AsksMissing, AsksOwner, AsksCold, Begins, Derives, Borrows, AddsHot,
         LooksUp, AddsMissing, GoesOn, AddsToOwner, Commits, Finishes, MovesCold, Tables
<1>8. processing' \subseteq ProcessingRows
  BY <1>1, <1>3 DEF RequestMoves, AsksHot, AsksMissing, AsksOwner, AsksCold, Begins, Derives, Borrows,
         AddsHot, LooksUp, AddsMissing, GoesOn, AddsToOwner, Commits, Finishes, MovesCold, Tables
<1> QED
  BY <1>4, <1>5, <1>6, <1>7, <1>8

\* Without the steps of a call, only the columns of hot wallets change.
LEMMA OtherTypes ==
    ASSUME WalletsTypeOK, Relabels \/ Rests
    PROVE  /\ owners' \subseteq Owner
           /\ hot' \subseteq HotRows /\ processing' \subseteq ProcessingRows
           /\ overlap' \subseteq SUBSET Request /\ checked' \in BOOLEAN
           /\ call' = call
BY DEF WalletsTypeOK, Relabels, Rests

(***************************************************************************)
(* The steps, each as what it does to the tables and the cache             *)
(***************************************************************************)

cacheVars == <<cold, cache, part, ready, loaded, still>>

Reading == UNCHANGED <<hot, processing, cacheVars>> /\ faults' \in Nat

\* A call writes a table or a cache: the keys of hot and processing wallets stay.
Writing ==
    /\ KeysOf(hot) \subseteq KeysOf(hot') /\ KeysOf(processing) \subseteq KeysOf(processing')
    /\ cold' \subseteq ColdRows
    /\ DOMAIN cache' = Kind
    /\ \A k \in {"hot", "processing"} : DOMAIN cache[k] \subseteq DOMAIN cache'[k]
    /\ still' = FALSE
    /\ UNCHANGED <<part, ready, loaded, faults>>

Passing(p) == BeginPass(p) \/ CacheFind(p) \/ CacheFindFails(p) \/ CacheStore(p) \/ CacheSweep(p)

LEMMA PuttingGrows ==
    ASSUME WalletsTypeOK, NEW k \in {"hot", "processing"}, NEW x, NEW w,
           cache' = [cache EXCEPT ![k] = Put(@, x, w)]
    PROVE  /\ DOMAIN cache' = Kind
           /\ \A l \in {"hot", "processing"} : DOMAIN cache[l] \subseteq DOMAIN cache'[l]
BY DEF WalletsTypeOK, Put, Kind

LEMMA ClearingCold ==
    ASSUME WalletsTypeOK, NEW d, cache' = [cache EXCEPT !["cold"] = d]
    PROVE  /\ DOMAIN cache' = Kind
           /\ \A l \in {"hot", "processing"} : DOMAIN cache[l] \subseteq DOMAIN cache'[l]
BY DEF WalletsTypeOK

LEMMA SameCache ==
    ASSUME WalletsTypeOK, cache' = cache
    PROVE  /\ DOMAIN cache' = Kind
           /\ \A l \in {"hot", "processing"} : DOMAIN cache[l] \subseteq DOMAIN cache'[l]
BY DEF WalletsTypeOK

LEMMA CacheMoves ==
    ASSUME WalletsTypeOK, Next
    PROVE  Reading \/ Writing \/ \E p \in Pass : Passing(p)
<1> USE DEF tables, cacher, begun
<1> cold \subseteq ColdRows /\ faults \in Nat
  BY DEF WalletsTypeOK
<1>1. ASSUME NEW r \in Request, NEW o \in Owner, NEW b \in Blockchain, NEW e \in External,
             NEW wt \in IF b \in Typed THEN WalletType ELSE {"UNSPECIFIED"}, BeginHot(r, o, b, wt, e)
      PROVE  Reading
  BY <1>1 DEF BeginHot, Reading, cacheVars
<1>2. ASSUME NEW r \in Request, NEW o \in Owner, BeginOwner(r, o) PROVE Reading
  BY <1>2 DEF BeginOwner, Reading, cacheVars
<1>3. ASSUME NEW r \in Request, BeginMissing(r) PROVE Reading
  BY <1>3 DEF BeginMissing, Reading, cacheVars
<1>4. ASSUME NEW r \in Request, NEW o \in Owner, NEW b \in Blockchain, NEW A \in SUBSET ColdAddress,
             BeginCold(r, o, b, A)
      PROVE  Writing
  BY <1>4, ClearingCold DEF BeginCold, Writing
<1>5. ASSUME NEW r \in Request, Call(r) PROVE Reading \/ Writing
  <2>1. ASSUME ReadSequence(r) \/ ReuseAddress(r) \/ ReadMissing(r) \/ DeleteCold(r) PROVE Reading
    <3>1. CASE ReadSequence(r)
      BY <3>1 DEF ReadSequence, Reading, cacheVars
    <3>2. CASE ReuseAddress(r)
      BY <3>2 DEF ReuseAddress, Reading, cacheVars
    <3>3. CASE ReadMissing(r)
      BY <3>3 DEF ReadMissing, Reading, cacheVars
    <3>4. CASE DeleteCold(r)
      BY <3>4 DEF DeleteCold, Reading, cacheVars
    <3> QED
      BY <2>1, <3>1, <3>2, <3>3, <3>4
  <2>2. ASSUME InsertHot(r) PROVE Writing
    BY <2>2, SameCache DEF InsertHot, Writing, KeysOf
  <2>3. ASSUME InsertMissing(r) PROVE Writing
    BY <2>3, SameCache DEF InsertMissing, Writing, KeysOf
  <2>4. ASSUME CommitOwner(r) PROVE Writing
    BY <2>4, SameCache DEF CommitOwner, Writing, KeysOf
  <2>5. ASSUME StoreHot(r) PROVE Writing
    BY <2>5, PuttingGrows DEF StoreHot, Writing
  <2>6. ASSUME StoreMissing(r) PROVE Writing
    BY <2>6, PuttingGrows DEF StoreMissing, Writing
  <2>7. ASSUME CreateProcessing(r) PROVE Writing
    BY <2>7, PuttingGrows, SameCache DEF CreateProcessing, Writing
  <2>8. ASSUME InsertCold(r) PROVE Writing
    BY <2>8, ClearingCold, SameCache DEF InsertCold, Writing
  <2>9. ASSUME CommitCold(r) PROVE Writing
    <3>1. call[r] \in ColdMade
      BY <2>9, CallStateOf DEF CommitCold
    <3>2. call[r].rows \subseteq ColdRows
      BY <3>1 DEF ColdMade
    <3> QED
      BY <2>9, <3>2, SameCache DEF CommitCold, Writing
  <2> QED
    BY <1>5, <2>1, <2>2, <2>3, <2>4, <2>5, <2>6, <2>7, <2>8, <2>9 DEF Call
<1>6. ASSUME NEW r \in Request, CallFails(r) PROVE Reading
  BY <1>6 DEF CallFails, Reading, cacheVars
<1>7. ASSUME NEW w \in hot, MarkDirty(w) PROVE Writing
  <2>1. \A v \in hot : KeyOf([v EXCEPT !.dirty = TRUE]) = KeyOf(v)
    BY DEF WalletsTypeOK, HotRows, KeyOf
  <2>2. KeysOf(hot) \subseteq KeysOf(hot')
    BY <1>7, <2>1 DEF MarkDirty, KeysOf
  <2> QED
    BY <1>7, <2>2, SameCache DEF MarkDirty, Writing
<1>8. ASSUME NEW x \in DOMAIN cache["hot"], ActivateWallet(x[1], x[2]) PROVE Writing
  <2>1. \A v \in hot : KeyOf([v EXCEPT !.activated = TRUE]) = KeyOf(v)
    BY DEF WalletsTypeOK, HotRows, KeyOf
  <2>2. PICK M \in SUBSET hot : hot' = (hot \ M) \cup {[v EXCEPT !.activated = TRUE] : v \in M}
    BY <1>8 DEF ActivateWallet, HotByAddress
  <2>3. KeysOf(hot) \subseteq KeysOf(hot')
    BY <2>1, <2>2 DEF KeysOf
  <2> QED
    BY <1>8, <2>3, SameCache DEF ActivateWallet, Writing
<1> QED
  BY <1>1, <1>2, <1>3, <1>4, <1>5, <1>6, <1>7, <1>8 DEF Next, Cacher, Passing

\* What is not about the calls.
LEMMA CacherTypes ==
    ASSUME WalletsTypeOK, Next
    PROVE  /\ cold' \subseteq ColdRows
           /\ DOMAIN cache' = Kind /\ ready' \in BOOLEAN /\ still' \in BOOLEAN
           /\ part' \in [Pass -> PartState]
           /\ faults' \in Nat
<1>1. CASE Reading
  BY <1>1 DEF Reading, cacheVars, WalletsTypeOK
<1>2. CASE Writing
  BY <1>2 DEF Writing, WalletsTypeOK
<1>3. ASSUME NEW p \in Pass, Passing(p)
      PROVE  /\ cold' \subseteq ColdRows
             /\ DOMAIN cache' = Kind /\ ready' \in BOOLEAN /\ still' \in BOOLEAN
             /\ part' \in [Pass -> PartState]
             /\ faults' \in Nat
  <2> USE DEF tables
  <2>1. part \in [Pass -> PartState]
    BY DEF WalletsTypeOK
  <2>2. CASE BeginPass(p)
    BY <2>1, <2>2 DEF BeginPass, Load, PartState, WalletsTypeOK
  <2>3. CASE CacheFind(p)
    <3>1. [k \in Kind |-> Table(k)] \in [Kind -> SUBSET Rows]
      BY DEF Table, Kind, Rows, WalletsTypeOK
    <3> QED
      BY <2>1, <2>3, <3>1 DEF CacheFind, PartState, WalletsTypeOK
  <2>4. CASE CacheStore(p)
    <3>1. [part[p] EXCEPT !.pc = "sweep"] \in PartState
      BY <2>1, <2>4 DEF CacheStore, PartState, Quiet
    <3>2. part' = [part EXCEPT ![p] = [part[p] EXCEPT !.pc = "sweep"]]
      BY <2>4 DEF CacheStore
    <3>3. DOMAIN cache' = Kind
      BY <2>4 DEF CacheStore, Kind
    <3> QED
      BY <2>1, <2>4, <3>1, <3>2, <3>3 DEF CacheStore, WalletsTypeOK
  <2>5. CASE CacheSweep(p)
    BY <2>1, <2>5 DEF CacheSweep, PartState, WalletsTypeOK
  <2>6. CASE CacheFindFails(p)
    BY <2>1, <2>6 DEF CacheFindFails, PartState, WalletsTypeOK
  <2> QED
    BY <1>3, <2>2, <2>3, <2>4, <2>5, <2>6 DEF Passing
<1> QED
  BY <1>1, <1>2, <1>3, CacheMoves

LEMMA BoundGrows ==
    ASSUME SeqBound, NEW m \in Nat,
           \A N \in Nat : BoundBy(N) =>
              /\ \A w \in hot' \cup processing' : w.seq \in Nat /\ (w.seq <= N \/ w.seq <= m)
              /\ \A q \in Request : call'[q].kind = "owner" =>
                    \A w \in call'[q].rows : w.seq \in Nat /\ (w.seq <= N \/ w.seq <= m)
    PROVE  SeqBound'
<1>1. PICK N \in Nat : BoundBy(N)
  BY DEF SeqBound
<1> DEFINE M == N + m
<1>2. M \in Nat /\ \A x \in Nat : x <= N \/ x <= m => x <= M
  OBVIOUS
<1> HIDE DEF M
<1>3. \A w \in hot' \cup processing' : w.seq <= M
  BY <1>1, <1>2
<1>4. \A q \in Request : call'[q].kind = "owner" => \A w \in call'[q].rows : w.seq <= M
  BY <1>1, <1>2
<1>5. BoundBy(M)'
  BY <1>3, <1>4 DEF BoundBy
<1> QED
  BY <1>2, <1>5 DEF SeqBound

LEMMA RowsAreNumbered ==
    ASSUME WalletsTypeOK
    PROVE  /\ \A w \in hot \cup processing : w.seq \in Nat
           /\ \A r \in Request : call[r].kind = "owner" => \A w \in call[r].rows : w.seq \in Nat
<1>1. ASSUME NEW r \in Request, call[r].kind = "owner" PROVE \A w \in call[r].rows : w.seq \in Nat
  BY <1>1, CallStateOf DEF OwnerMade, ProcessingRows
<1> QED
  BY <1>1 DEF WalletsTypeOK, HotRows, ProcessingRows

LEMMA BoundStep ==
    ASSUME TypeInv, NEW r \in Request, RequestMoves(r)
    PROVE  SeqBound'
<1> USE RowsAreNumbered DEF TypeInv
<1>1. \A q \in Request : q # r => call'[q] = call[q]
  BY OthersStay
<1>2. CASE AddsHot(r)
  <2>1. call[r].row.seq \in Nat /\ call'[r].kind # "owner"
    BY <1>2, AddsHotMakes, KindsOfCalls DEF HotMade, HotRows
  <2> QED
    BY <1>1, <1>2, <2>1, BoundGrows DEF AddsHot, BoundBy
<1>3. CASE AddsMissing(r)
  <2>1. call[r].row.seq \in Nat /\ call'[r].kind # "owner"
    BY <1>3, AddsMissingMakes, KindsOfCalls DEF MissingMade, ProcessingRows
  <2> QED
    BY <1>1, <1>3, <2>1, BoundGrows DEF AddsMissing, BoundBy
<1>4. CASE AddsToOwner(r)
  <2>1. PICK w \in ProcessingRows : call'[r].rows = call[r].rows \cup {w}
    BY <1>4, AddsToOwnerMakes
  <2>2. w.seq \in Nat
    BY DEF ProcessingRows
  <2>3. hot' = hot /\ processing' = processing /\ call[r].kind = "owner"
    BY <1>4 DEF AddsToOwner, Tables
  <2>4. ASSUME NEW N \in Nat, BoundBy(N), NEW q \in Request, call'[q].kind = "owner", NEW v \in call'[q].rows
        PROVE  v.seq \in Nat /\ (v.seq <= N \/ v.seq <= w.seq)
    <3>1. CASE q = r
      BY <2>1, <2>2, <2>3, <2>4, <3>1 DEF BoundBy
    <3>2. CASE q # r
      BY <1>1, <2>4, <3>2 DEF BoundBy
    <3> QED
      BY <3>1, <3>2
  <2> QED
    BY <2>2, <2>3, <2>4, BoundGrows DEF BoundBy
<1>5. CASE Commits(r)
  <2>1. call'[r].kind # "owner"
    BY <1>5, CommitsMakes, KindsOfCalls
  <2> QED
    BY <1>1, <1>5, <2>1, BoundGrows DEF Commits, BoundBy
<1>6. CASE ~(AddsHot(r) \/ AddsMissing(r) \/ AddsToOwner(r) \/ Commits(r))
  <2>1. hot' = hot /\ processing' = processing
    BY <1>6 DEF RequestMoves, AsksHot, AsksMissing, AsksOwner, AsksCold, Begins, Derives, Borrows,
                LooksUp, GoesOn, Finishes, MovesCold, Tables
  <2>2. call'[r].kind = "owner" => call'[r].rows = {}
    BY <1>6, CallTypes, AsksOwnerMakes
  <2> QED
    BY <1>1, <2>1, <2>2, BoundGrows DEF BoundBy
<1> QED
  BY <1>2, <1>3, <1>4, <1>5, <1>6

LEMMA BoundOther ==
    ASSUME WalletsTypeOK, SeqBound, Relabels \/ Rests
    PROVE  SeqBound'
<1>1. PICK N \in Nat : BoundBy(N)
  BY DEF SeqBound
<1>2. BoundBy(N)'
  BY <1>1 DEF BoundBy, Relabels, Rests
<1> QED
  BY <1>2 DEF SeqBound

LEMMA AskedStep ==
    ASSUME TypeInv, NEW r \in Request, RequestMoves(r)
    PROVE  Asked'
<1>1. call'[r].kind = "hot" /\ call'[r].pc = "sequence" => call'[r].type \in TypesOf(call'[r].chain)
  BY CallTypes, AsksHotMakes
<1> QED
  BY <1>1, OthersStay DEF Asked, TypeInv

LEMMA TypeInvInit == Init => TypeInv
<1> SUFFICES ASSUME Init PROVE TypeInv
  OBVIOUS
<1>1. processing \subseteq ProcessingRows /\ \A w \in processing : w.seq = 0
  <2>1. \A o \in Existing, b \in Blockchain :
          AddressWallet(b, AddressTypeByBlockchain(b), Seed[o], 0) \in Address
    BY GeneratedIsAddress, ProcessingType, WalletsAssumption
  <2> QED
    BY <2>1, WalletsAssumption DEF Init, ProcessingRow, ProcessingRows, Maker
<1>2. \A r \in Request : call[r].kind = "none" /\ call[r] \in CallState
  BY DEF Init, Idle, CallState
<1>3. WalletsTypeOK
  BY <1>1, <1>2, WalletsAssumption DEF Init, WalletsTypeOK, Idle, CallState, PartState
<1>4. BoundBy(0)
  BY <1>1, <1>2 DEF Init, BoundBy
<1>5. SeqBound /\ Asked
  BY <1>2, <1>4 DEF SeqBound, Asked
<1> QED
  BY <1>3, <1>5 DEF TypeInv

LEMMA TypeInvStep == TypeInv /\ [Next]_vars => TypeInv'
<1> SUFFICES ASSUME TypeInv, [Next]_vars PROVE TypeInv'
  OBVIOUS
<1> USE DEF TypeInv
<1>1. CASE Next
  <2>1. ASSUME NEW r \in Request, RequestMoves(r) PROVE TypeInv'
    <3>1. call' \in [Request -> CallState]
      BY <2>1, CallTypes
    <3>2. WalletsTypeOK'
      BY <1>1, <2>1, <3>1, RowTypes, CacherTypes DEF WalletsTypeOK
    <3> QED
      BY <2>1, <3>2, BoundStep, AskedStep
  <2>2. ASSUME Relabels \/ Rests PROVE TypeInv'
    <3>1. WalletsTypeOK'
      BY <1>1, <2>2, OtherTypes, CacherTypes DEF WalletsTypeOK
    <3> QED
      BY <2>2, <3>1, OtherTypes, BoundOther DEF Asked
  <2> QED
    BY <1>1, <2>1, <2>2, WalletMoves
<1>2. CASE UNCHANGED vars
  BY <1>2 DEF vars, tables, cacher, begun, WalletsTypeOK, SeqBound, BoundBy, Asked
<1> QED
  BY <1>1, <1>2

\* The tables, the caches and the states of calls and passes keep their types, for
\* any owners, chains, calls and passes, and every sequence has a bound.
THEOREM WalletTypeCorrect == Spec => []WalletsTypeOK
<1>1. TypeInv => WalletsTypeOK
  BY DEF TypeInv
<1> QED
  BY <1>1, TypeInvInit, TypeInvStep, PTL DEF Spec

(***************************************************************************)
(* The cache                                                               *)
(***************************************************************************)

LEMMA PartOf ==
    ASSUME WalletsTypeOK, NEW p \in Pass
    PROVE  /\ part[p] # Quiet => part[p] \in [pc : {"find", "store", "sweep"}, rows : [Kind -> SUBSET Rows]]
           /\ part[p].pc \in {"idle", "find", "store", "sweep"}
           /\ part[p].pc = "idle" <=> part[p] = Quiet
<1>1. part[p] \in PartState
  BY DEF WalletsTypeOK
<1> QED
  BY <1>1 DEF PartState, Quiet

LEMMA AloneStep ==
    ASSUME WalletsTypeOK, Alone, Next
    PROVE  Alone'
<1>1. CASE Reading \/ Writing
  BY <1>1 DEF Reading, Writing, cacheVars, Alone
<1>2. ASSUME NEW p \in Pass, Passing(p) PROVE Alone'
  <2>1. part \in [Pass -> PartState]
    BY DEF WalletsTypeOK
  <2>2. CASE BeginPass(p)
    BY <2>1, <2>2 DEF BeginPass, Load, Alone
  <2>3. CASE ~BeginPass(p)
    <3>1. \A q \in Pass : part'[q] # Quiet => part[q] # Quiet
      <4>1. part[p].pc \in {"find", "store", "sweep"}
        BY <1>2, <2>3 DEF Passing, CacheFind, CacheFindFails, CacheStore, CacheSweep
      <4>2. part[p] # Quiet
        BY <4>1 DEF Quiet
      <4>3. \A q \in Pass : q # p => part'[q] = part[q]
        BY <1>2, <2>1, <2>3 DEF Passing, CacheFind, CacheFindFails, CacheStore, CacheSweep
      <4> QED
        BY <4>2, <4>3
    <3> QED
      BY <3>1 DEF Alone
  <2> QED
    BY <2>2, <2>3
<1> QED
  BY <1>1, <1>2, CacheMoves

\* What PutAll returns has the keys of both, and under a new key a new row.
LEMMA PutAllPuts ==
    ASSUME NEW c, NEW R, NEW d \in PutAll(c, R)
    PROVE  /\ DOMAIN d = DOMAIN c \cup KeysOf(R)
           /\ \A x \in KeysOf(R) : d[x] \in R /\ KeyOf(d[x]) = x
<1> DEFINE keys == {KeyOf(w) : w \in R}
           last == {S \in SUBSET R : \A x \in keys : Cardinality({w \in S : KeyOf(w) = x}) = 1}
<1>1. PICK S \in last :
        d = [x \in DOMAIN c \cup keys |-> IF x \in keys THEN CHOOSE w \in S : KeyOf(w) = x ELSE c[x]]
  BY DEF PutAll
<1>2. keys = KeysOf(R)
  BY DEF KeysOf
<1>3. ASSUME NEW x \in keys PROVE d[x] \in R /\ KeyOf(d[x]) = x
  <2>1. Cardinality({w \in S : KeyOf(w) = x}) = 1
    BY <1>1
  <2>2. {w \in S : KeyOf(w) = x} # {}
    BY <2>1, FS_EmptySet
  <2>3. PICK w \in S : KeyOf(w) = x
    BY <2>2
  <2>4. d[x] = CHOOSE v \in S : KeyOf(v) = x
    BY <1>1
  <2> QED
    BY <1>1, <2>3, <2>4
<1> QED
  BY <1>1, <1>2, <1>3

\* What the two steps of a pass make of the caches.
LEMMA StoreMakes ==
    ASSUME WalletsTypeOK, NEW p \in Pass, CacheStore(p)
    PROVE  /\ \A k \in Kind : cache'[k] \in PutAll(cache[k], part[p].rows[k])
           /\ loaded' = loaded \cup UNION {{<<k, KeyOf(w)>> : w \in part[p].rows[k]} : k \in Kind}
           /\ part'[p].pc = "sweep" /\ part'[p].rows = part[p].rows
           /\ \A q \in Pass : q # p => part'[q] = part[q]
           /\ UNCHANGED <<owners, hot, processing, cold, ready, still>>
<1>1. \A k \in Kind : cache'[k] \in PutAll(cache[k], part[p].rows[k])
  BY DEF CacheStore, Kind
<1>2. part[p] \in [pc : {"find", "store", "sweep"}, rows : [Kind -> SUBSET Rows]]
  BY PartOf DEF CacheStore
<1>3. part'[p].pc = "sweep" /\ part'[p].rows = part[p].rows
  BY <1>2 DEF CacheStore, WalletsTypeOK
<1> QED
  BY <1>1, <1>3 DEF CacheStore, WalletsTypeOK, tables

LEMMA SweepMakes ==
    ASSUME WalletsTypeOK, NEW p \in Pass, CacheSweep(p)
    PROVE  /\ \A k \in Kind :
                /\ DOMAIN cache'[k] = DOMAIN cache[k] \cap KeysOf(part[p].rows[k])
                /\ \A x \in DOMAIN cache'[k] : cache'[k][x] = cache[k][x]
           /\ part'[p].pc = "idle"
           /\ \A q \in Pass : q # p => part'[q] = part[q]
           /\ UNCHANGED <<owners, hot, processing, cold, loaded, still>>
<1>1. \A k \in Kind : cache'[k] = Only(cache[k], KeysOf(part[p].rows[k]))
  BY DEF CacheSweep, KeysOf
<1>2. part'[p].pc = "idle" /\ \A q \in Pass : q # p => part'[q] = part[q]
  BY DEF CacheSweep, WalletsTypeOK, Quiet
<1> QED
  BY <1>1, <1>2 DEF CacheSweep, Only, tables

LEMMA LoadedStep ==
    ASSUME WalletsTypeOK, Alone, LoadedInv, Next
    PROVE  LoadedInv'
<1> DEFINE HP == {"hot", "processing"}
<1>0. HP \subseteq Kind /\ Table("hot") = hot /\ Table("processing") = processing
  BY DEF Kind, Table
<1>0p. Table("hot")' = hot' /\ Table("processing")' = processing'
  BY DEF Table
<1>a. \A x \in loaded' : x[1] \in Kind
  <2>1. CASE Reading \/ Writing
    BY <2>1 DEF Reading, Writing, cacheVars, LoadedInv
  <2>2. ASSUME NEW p \in Pass, Passing(p) PROVE \A x \in loaded' : x[1] \in Kind
    <3>1. CASE CacheStore(p)
      BY <3>1, StoreMakes DEF LoadedInv
    <3>2. CASE ~CacheStore(p)
      BY <2>2, <3>2 DEF Passing, BeginPass, CacheFind, CacheFindFails, CacheSweep, LoadedInv
    <3> QED
      BY <3>1, <3>2
  <2> QED
    BY <2>1, <2>2, CacheMoves
<1> SUFFICES ASSUME NEW k \in HP
             PROVE  /\ \A x \in loaded' : x[1] = k =>
                          x[2] \in DOMAIN cache'[k] /\ x[2] \in KeysOf(Table(k)')
                    /\ \A p \in Pass : part'[p].pc \in {"store", "sweep"} =>
                          /\ KeysOf(part'[p].rows[k]) \subseteq KeysOf(Table(k)')
                          /\ \A x \in loaded' : x[1] = k => x[2] \in KeysOf(part'[p].rows[k])
  BY <1>a DEF LoadedInv, KeysOf
<1>00. /\ \A x \in loaded : x[1] = k => x[2] \in DOMAIN cache[k] /\ x[2] \in KeysOf(Table(k))
       /\ \A p \in Pass : part[p].pc \in {"store", "sweep"} =>
             /\ KeysOf(part[p].rows[k]) \subseteq KeysOf(Table(k))
             /\ \A x \in loaded : x[1] = k => x[2] \in KeysOf(part[p].rows[k])
  BY DEF LoadedInv
<1>1. CASE Reading
  <2>1. Table(k)' = Table(k)
    BY <1>1, <1>0, <1>0p DEF Reading
  <2> QED
    BY <1>00, <1>1, <2>1 DEF Reading, cacheVars
<1>2. CASE Writing
  <2>1. KeysOf(Table(k)) \subseteq KeysOf(Table(k)')
    BY <1>2, <1>0, <1>0p DEF Writing
  <2> QED
    BY <1>00, <1>2, <2>1 DEF Writing
<1>3. ASSUME NEW p \in Pass, Passing(p)
      PROVE  /\ \A x \in loaded' : x[1] = k =>
                   x[2] \in DOMAIN cache'[k] /\ x[2] \in KeysOf(Table(k)')
             /\ \A q \in Pass : part'[q].pc \in {"store", "sweep"} =>
                   /\ KeysOf(part'[q].rows[k]) \subseteq KeysOf(Table(k)')
                   /\ \A x \in loaded' : x[1] = k => x[2] \in KeysOf(part'[q].rows[k])
  <2>0. part \in [Pass -> PartState] /\ k \in Kind
    BY <1>0 DEF WalletsTypeOK
  <2>00. hot' = hot /\ processing' = processing
    BY <1>3 DEF Passing, BeginPass, CacheFind, CacheFindFails, CacheStore, CacheSweep, tables
  <2>1. Table(k)' = Table(k)
    BY <1>0, <1>0p, <2>00
  <2>2. CASE BeginPass(p)
    BY <1>00, <2>0, <2>1, <2>2 DEF BeginPass, Load
  <2>3. CASE CacheFind(p)
    <3>1. part'[p].rows[k] = Table(k) /\ \A q \in Pass : q # p => part'[q] = part[q]
      BY <2>0, <2>3 DEF CacheFind
    <3> QED
      BY <1>00, <2>1, <2>3, <3>1 DEF CacheFind
  <2>4. CASE CacheFindFails(p)
    BY <1>00, <2>0, <2>1, <2>4 DEF CacheFindFails, Quiet
  <2>5. CASE CacheStore(p)
    <3>1. part[p].pc = "store"
      BY <2>5 DEF CacheStore
    <3>2. DOMAIN cache'[k] = DOMAIN cache[k] \cup KeysOf(part[p].rows[k])
      <4>1. cache'[k] \in PutAll(cache[k], part[p].rows[k])
        BY <2>0, <2>5, StoreMakes
      <4> QED
        BY <4>1, PutAllPuts
    <3>3. \A x \in loaded' : x[1] = k => x \in loaded \/ x[2] \in KeysOf(part[p].rows[k])
      BY <2>5, StoreMakes DEF KeysOf
    <3>4. \A q \in Pass : part'[q].pc \in {"store", "sweep"} => q = p
      <4> SUFFICES ASSUME NEW q \in Pass, q # p, part'[q].pc \in {"store", "sweep"} PROVE FALSE
        OBVIOUS
      <4>1. part[q].pc \in {"store", "sweep"}
        BY <2>5, StoreMakes
      <4> QED
        BY <3>1, <4>1 DEF Alone, Quiet
    <3> QED
      BY <1>00, <2>1, <2>5, <3>1, <3>2, <3>3, <3>4, StoreMakes
  <2>6. CASE CacheSweep(p)
    <3>1. part[p].pc = "sweep"
      BY <2>6 DEF CacheSweep
    <3>2. DOMAIN cache'[k] = DOMAIN cache[k] \cap KeysOf(part[p].rows[k])
      BY <2>0, <2>6, SweepMakes
    <3> QED
      BY <1>00, <2>1, <2>6, <3>1, <3>2, SweepMakes
  <2> QED
    BY <1>3, <2>2, <2>3, <2>4, <2>5, <2>6 DEF Passing
<1> QED
  BY <1>1, <1>2, <1>3, CacheMoves

\* A pass begins only when it was not there.
LEMMA BeginsQuiet ==
    ASSUME NEW p \in Pass, part[p].pc # "idle"
    PROVE  part[p] # Quiet /\ ~BeginPass(p)
BY DEF BeginPass, Quiet

CacheAgreement == TypeInv /\ Alone /\ LoadedInv /\ AgreeInv

LEMMA TablesStay ==
    ASSUME NEW k, hot' = hot, processing' = processing, cold' = cold
    PROVE  Table(k)' = Table(k) /\ KeysOf(Table(k)') = KeysOf(Table(k))
BY DEF Table

LEMMA AgreeStep ==
    ASSUME WalletsTypeOK, Alone, AgreeInv, Next
    PROVE  AgreeInv'
<1> SUFFICES ASSUME still', NEW k \in Kind
             PROVE  /\ \A p \in Pass : part'[p].pc \in {"store", "sweep"} => part'[p].rows[k] = Table(k)'
                    /\ \A p \in Pass : part'[p].pc = "sweep" => Agrees(k)'
                    /\ (\A p \in Pass : part'[p].pc \notin {"store", "sweep"}) =>
                          Agrees(k)' /\ DOMAIN cache'[k] = KeysOf(Table(k)')
  BY DEF AgreeInv, Busy, KeysOf
<1>0. still => /\ \A p \in Pass : part[p].pc \in {"store", "sweep"} => part[p].rows[k] = Table(k)
               /\ \A p \in Pass : part[p].pc = "sweep" => Agrees(k)
               /\ (\A p \in Pass : part[p].pc \notin {"store", "sweep"}) =>
                     Agrees(k) /\ DOMAIN cache[k] = KeysOf(Table(k))
  BY DEF AgreeInv, Busy
<1>00. Agrees(k)' <=> /\ KeysOf(Table(k)') \subseteq DOMAIN cache'[k]
                      /\ \A x \in KeysOf(Table(k)') : cache'[k][x] \in Table(k)' /\ KeyOf(cache'[k][x]) = x
  BY DEF Agrees, KeysOf, KeyOf, cacherKey
<1>1. CASE Reading
  <2>1. Table(k)' = Table(k) /\ KeysOf(Table(k)') = KeysOf(Table(k))
    BY <1>1, TablesStay DEF Reading, cacheVars
  <2> QED
    BY <1>0, <1>00, <1>1, <2>1 DEF Reading, cacheVars, Agrees
<1>2. CASE Writing
  BY <1>2 DEF Writing
<1>3. ASSUME NEW p \in Pass, Passing(p)
      PROVE  /\ \A q \in Pass : part'[q].pc \in {"store", "sweep"} => part'[q].rows[k] = Table(k)'
             /\ \A q \in Pass : part'[q].pc = "sweep" => Agrees(k)'
             /\ (\A q \in Pass : part'[q].pc \notin {"store", "sweep"}) =>
                   Agrees(k)' /\ DOMAIN cache'[k] = KeysOf(Table(k)')
  <2>0. part \in [Pass -> PartState]
    BY DEF WalletsTypeOK
  <2>00. hot' = hot /\ processing' = processing /\ cold' = cold
    BY <1>3 DEF Passing, BeginPass, CacheFind, CacheFindFails, CacheStore, CacheSweep, tables
  <2>1. Table(k)' = Table(k) /\ KeysOf(Table(k)') = KeysOf(Table(k))
    BY <2>00, TablesStay
  <2>01. ~BeginPass(p) => \A q \in Pass : q # p => part'[q] = Quiet /\ part[q] = Quiet
    <3> SUFFICES ASSUME ~BeginPass(p), NEW q \in Pass, q # p PROVE part'[q] = Quiet /\ part[q] = Quiet
      OBVIOUS
    <3>0. part[p].pc # "idle"
      BY <1>3 DEF Passing, CacheFind, CacheFindFails, CacheStore, CacheSweep
    <3>1. part[p] # Quiet
      BY <3>0, BeginsQuiet
    <3>2. part'[q] = part[q]
      BY <1>3, <2>0 DEF Passing, CacheFind, CacheFindFails, CacheStore, CacheSweep
    <3> QED
      BY <3>1, <3>2 DEF Alone
  <2>2. CASE BeginPass(p)
    <3>1. \A q \in Pass : part[q].pc = "idle" /\ part'[q].pc \in {"idle", "find"}
      BY <2>0, <2>2 DEF BeginPass, Load, Quiet
    <3>2. cache' = cache /\ still
      BY <2>2 DEF BeginPass
    <3> QED
      BY <1>0, <1>00, <2>1, <3>1, <3>2 DEF Agrees
  <2>3. CASE CacheFind(p)
    <3>1. part'[p].rows[k] = Table(k) /\ part'[p].pc = "store"
      BY <2>0, <2>3 DEF CacheFind
    <3>0. part[p].pc = "find"
      BY <2>3 DEF CacheFind
    <3>2. ~BeginPass(p)
      BY <3>0, BeginsQuiet
    <3> QED
      BY <2>01, <2>1, <3>1, <3>2 DEF Quiet
  <2>4. CASE CacheFindFails(p)
    <3>0. part[p].pc = "find" /\ cache' = cache /\ still
      BY <2>4 DEF CacheFindFails
    <3>1. ~BeginPass(p) /\ cache' = cache /\ still
      BY <3>0, BeginsQuiet
    <3>2. \A q \in Pass : part[q].pc \in {"idle", "find"} /\ part'[q].pc = "idle"
      BY <2>0, <2>01, <2>4, <3>1 DEF CacheFindFails, Quiet
    <3> QED
      BY <1>0, <1>00, <2>1, <3>1, <3>2 DEF Agrees
  <2>5. CASE CacheStore(p)
    <3>0. part[p].pc = "store"
      BY <2>5 DEF CacheStore
    <3>1. part[p].pc = "store" /\ ~BeginPass(p)
      BY <3>0, BeginsQuiet
    <3>2. still /\ part'[p].pc = "sweep" /\ part'[p].rows = part[p].rows
      BY <2>5, StoreMakes
    <3>3. part[p].rows[k] = Table(k)
      BY <1>0, <3>1, <3>2
    <3>4. cache'[k] \in PutAll(cache[k], Table(k))
      BY <2>5, <3>3, StoreMakes
    <3>5a. /\ DOMAIN cache'[k] = DOMAIN cache[k] \cup KeysOf(Table(k))
           /\ \A x \in KeysOf(Table(k)) : cache'[k][x] \in Table(k) /\ KeyOf(cache'[k][x]) = x
      BY <3>4, PutAllPuts
    <3>5. Agrees(k)'
      BY <1>00, <2>1, <3>5a
    <3> QED
      BY <2>01, <2>1, <3>1, <3>2, <3>3, <3>5 DEF Quiet
  <2>6. CASE CacheSweep(p)
    <3>0. part[p].pc = "sweep"
      BY <2>6 DEF CacheSweep
    <3>1. part[p].pc = "sweep" /\ ~BeginPass(p)
      BY <3>0, BeginsQuiet
    <3>2. still /\ part'[p].pc = "idle"
      BY <2>6, SweepMakes
    <3>3. part[p].rows[k] = Table(k) /\ Agrees(k)
      BY <1>0, <3>1, <3>2
    <3>4. /\ DOMAIN cache'[k] = DOMAIN cache[k] \cap KeysOf(Table(k))
          /\ \A x \in DOMAIN cache'[k] : cache'[k][x] = cache[k][x]
      BY <2>6, <3>3, SweepMakes
    <3>5. Agrees(k)' /\ DOMAIN cache'[k] = KeysOf(Table(k)')
      BY <1>00, <2>1, <3>3, <3>4 DEF Agrees
    <3> QED
      BY <2>01, <3>1, <3>2, <3>5 DEF Quiet
  <2> QED
    BY <1>3, <2>2, <2>3, <2>4, <2>5, <2>6 DEF Passing
<1> QED
  BY <1>1, <1>2, <1>3, CacheMoves

LEMMA CacheInvInit == Init => CacheAgreement
<1> SUFFICES ASSUME Init PROVE CacheAgreement
  OBVIOUS
<1>1. Alone /\ LoadedInv /\ AgreeInv
  BY DEF Init, Alone, LoadedInv, AgreeInv, Quiet
<1> QED
  BY <1>1, TypeInvInit DEF CacheAgreement

LEMMA CacheInvStep == CacheAgreement /\ [Next]_vars => CacheAgreement'
<1> SUFFICES ASSUME CacheAgreement, [Next]_vars PROVE CacheAgreement'
  OBVIOUS
<1> USE DEF CacheAgreement
<1>1. WalletsTypeOK /\ TypeInv'
  BY TypeInvStep DEF TypeInv
<1>2. CASE Next
  BY <1>1, <1>2, AloneStep, LoadedStep, AgreeStep
<1>3. CASE UNCHANGED vars
  <2>1. Alone' /\ LoadedInv' /\ AgreeInv'
    BY <1>3 DEF vars, tables, cacher, begun, Alone, LoadedInv, AgreeInv, Agrees, Busy, KeysOf, Table
  <2> QED
    BY <1>1, <2>1
<1> QED
  BY <1>2, <1>3

\* What a pass of the cacher has stored stays in the cache, whatever calls and
\* further passes do meanwhile: the keys of hot and processing wallets are never
\* taken out of their tables, and a pass sweeps only what is not in the table it
\* has read.
THEOREM LoadedWalletsStayVisible == Spec => []LoadedStaysVisible
<1>1. ASSUME CacheAgreement, NEW x \in loaded, x[1] # "cold" PROVE x[2] \in DOMAIN cache[x[1]]
  <2>1. x[1] \in {"hot", "processing"}
    BY <1>1 DEF CacheAgreement, LoadedInv, Kind
  <2> QED
    BY <1>1, <2>1 DEF CacheAgreement, LoadedInv
<1>2. CacheAgreement => LoadedStaysVisible
  BY <1>1 DEF LoadedStaysVisible
<1> QED
  BY <1>2, CacheInvInit, CacheInvStep, PTL DEF Spec

\* A pass that nothing disturbs leaves the cache with the answers of the database.
THEOREM QuietPassLeavesAgreement == Spec => []QuietPassAgrees
<1>1. ASSUME CacheAgreement, still, ready, \A p \in Pass : part[p] = Quiet,
             NEW x \in (UNION {DOMAIN cache[k] : k \in Kind})
                       \cup {KeyOf(w) : w \in hot \cup processing \cup cold}
      PROVE  /\ CheckWallet(x[1], x[2]) # {}
             /\ CheckWallet(x[1], x[2]) \subseteq checkWalletInDatabase(x[1], x[2])
  <2>1. \A k \in Kind : Agrees(k) /\ DOMAIN cache[k] = KeysOf(Table(k))
    BY <1>1 DEF CacheAgreement, AgreeInv, Busy, Quiet
  <2>2. /\ Table("hot") = hot /\ Table("processing") = processing /\ Table("cold") = cold
        /\ "hot" \in Kind /\ "processing" \in Kind /\ "cold" \in Kind
    BY DEF Table, Kind
  <2>3. x \in KeysOf(hot) \/ x \in KeysOf(processing) \/ x \in KeysOf(cold)
    <3>1. CASE x \in {KeyOf(w) : w \in hot \cup processing \cup cold}
      BY <3>1 DEF KeysOf
    <3>2. CASE x \in UNION {DOMAIN cache[k] : k \in Kind}
      <4>1. PICK k \in Kind : x \in DOMAIN cache[k]
        BY <3>2
      <4>2. x \in KeysOf(Table(k))
        BY <2>1, <4>1
      <4> QED
        BY <2>2, <4>2 DEF Kind
    <3> QED
      BY <1>1, <3>1, <3>2
  <2>4. x = cacherKey(x[1], x[2])
    BY <2>3 DEF KeysOf, KeyOf, cacherKey
  <2>5. \A w : KeyOf(w) = x <=> w.chain = x[1] /\ w.address = x[2]
    BY <2>4 DEF KeyOf, cacherKey
  <2>6. /\ x \in KeysOf(hot) <=> HotByAddress(x[1], x[2]) # {}
        /\ x \in KeysOf(processing) <=> ProcessingByAddress(x[1], x[2]) # {}
        /\ x \in KeysOf(cold) <=> ColdByAddress(x[1], x[2]) # {}
    BY <2>5 DEF KeysOf, HotByAddress, ProcessingByAddress, ColdByAddress
  <2>7. CheckWallet(x[1], x[2]) = checkWalletInCache(x[1], x[2])
    BY <1>1 DEF CheckWallet
  <2>8. CASE x \in KeysOf(hot)
    <3>1. x \in DOMAIN cache["hot"] /\ cache["hot"][x] \in HotByAddress(x[1], x[2])
      BY <2>1, <2>2, <2>5, <2>8 DEF Agrees, HotByAddress
    <3> QED
      BY <2>4, <2>7, <3>1 DEF checkWalletInCache, checkWalletInDatabase
  <2>9. CASE x \notin KeysOf(hot) /\ x \in KeysOf(processing)
    <3>1. /\ x \notin DOMAIN cache["hot"] /\ x \in DOMAIN cache["processing"]
          /\ cache["processing"][x] \in ProcessingByAddress(x[1], x[2])
      BY <2>1, <2>2, <2>5, <2>9 DEF Agrees, ProcessingByAddress
    <3> QED
      BY <2>4, <2>6, <2>7, <2>9, <3>1 DEF checkWalletInCache, checkWalletInDatabase
  <2>10. CASE x \notin KeysOf(hot) /\ x \notin KeysOf(processing)
    <3>1. /\ x \notin DOMAIN cache["hot"] /\ x \notin DOMAIN cache["processing"]
          /\ x \in DOMAIN cache["cold"] /\ cache["cold"][x] \in ColdByAddress(x[1], x[2])
      BY <2>1, <2>2, <2>3, <2>5, <2>10 DEF Agrees, ColdByAddress
    <3> QED
      BY <2>4, <2>6, <2>7, <2>10, <3>1 DEF checkWalletInCache, checkWalletInDatabase
  <2> QED
    BY <2>8, <2>9, <2>10
<1>2. CacheAgreement => QuietPassAgrees
  BY <1>1 DEF QuietPassAgrees
<1> QED
  BY <1>2, CacheInvInit, CacheInvStep, PTL DEF Spec

(***************************************************************************)
(* Keys                                                                    *)
(***************************************************************************)

\* Where the rows of the next state come from.
LEMMA NewRows ==
    ASSUME TypeInv, NEW r \in Request, RequestMoves(r)
    PROVE  /\ \A w \in hot' : w \in hot \/ (AddsHot(r) /\ w = call[r].row)
           /\ \A w \in processing' : \/ w \in processing
                                     \/ AddsMissing(r) /\ w = call[r].row
                                     \/ Commits(r) /\ w \in call[r].rows
           /\ hot \subseteq hot' /\ processing \subseteq processing' /\ overlap \subseteq overlap'
           /\ owners \subseteq owners'
           /\ AddsHot(r) \/ hot' = hot
           /\ AddsMissing(r) \/ Commits(r) \/ processing' = processing
           /\ Commits(r) \/ owners' = owners
<1> USE DEF RequestMoves, Begins, Tables
<1>1. \A w \in hot' : w \in hot \/ (AddsHot(r) /\ w = call[r].row)
  BY DEF AsksHot, AsksMissing, AsksOwner, AsksCold, Derives, Borrows, AddsHot, LooksUp, AddsMissing, GoesOn,
         AddsToOwner, Commits, Finishes, MovesCold
<1>2. \A w \in processing' : \/ w \in processing
                             \/ AddsMissing(r) /\ w = call[r].row
                             \/ Commits(r) /\ w \in call[r].rows
  BY DEF AsksHot, AsksMissing, AsksOwner, AsksCold, Derives, Borrows, AddsHot, LooksUp, AddsMissing, GoesOn,
         AddsToOwner, Commits, Finishes, MovesCold
<1>3. hot \subseteq hot' /\ processing \subseteq processing' /\ overlap \subseteq overlap' /\ owners \subseteq owners'
  BY DEF AsksHot, AsksMissing, AsksOwner, AsksCold, Derives, Borrows, AddsHot, LooksUp, AddsMissing, GoesOn,
         AddsToOwner, Commits, Finishes, MovesCold
<1>4. AddsHot(r) \/ hot' = hot
  BY DEF AsksHot, AsksMissing, AsksOwner, AsksCold, Derives, Borrows, LooksUp, AddsMissing, GoesOn,
         AddsToOwner, Commits, Finishes, MovesCold
<1>5. AddsMissing(r) \/ Commits(r) \/ processing' = processing
  BY DEF AsksHot, AsksMissing, AsksOwner, AsksCold, Derives, Borrows, AddsHot, LooksUp, GoesOn,
         AddsToOwner, Finishes, MovesCold
<1>6. Commits(r) \/ owners' = owners
  BY DEF AsksHot, AsksMissing, AsksOwner, AsksCold, Derives, Borrows, AddsHot, LooksUp, AddsMissing, GoesOn,
         AddsToOwner, Finishes, MovesCold
<1> QED
  BY <1>1, <1>2, <1>3, <1>4, <1>5, <1>6

\* All EVM chains derive one address.
LEMMA EvmAddressesAreOne ==
    ASSUME NEW w \in HotRows, NEW x \in HotRows, Derived(w), w.owner = x.owner,
           w.chain \in EVMBlockchains, x.chain \in EVMBlockchains,
           x.address = w.address, x.seq = w.seq
    PROVE  Derived(x)
<1>1. TypesOf(w.chain) = {""} /\ TypesOf(x.chain) = {""}
  BY DEF TypesOf, Typed, EVMBlockchains
<1>2. w.address = AddressWallet(w.chain, "", Seed[w.owner], w.seq)
  BY <1>1 DEF Derived
<1>3. AddressWallet(w.chain, "", Seed[w.owner], w.seq) = AddressWallet(x.chain, "", Seed[w.owner], w.seq)
  BY DEF AddressWallet, EVMBlockchains
<1> QED
  BY <1>1, <1>2, <1>3 DEF Derived

LEMMA KeyStep ==
    ASSUME TypeInv, KeyInv, Next
    PROVE  KeyInv'
<1> WalletsTypeOK
  BY DEF TypeInv
<1>1. ASSUME NEW r \in Request, RequestMoves(r) PROVE KeyInv'
  <2>1. \A w \in hot' : Derived(w)
    BY <1>1, NewRows DEF KeyInv, AddsHot
  <2>2. \A w \in processing' : Processed(w)
    BY <1>1, NewRows DEF KeyInv, AddsMissing, Commits
  <2>3. ASSUME call'[r].kind = "hot", call'[r].pc # "sequence" PROVE Derived(call'[r].row)
    <3>1. CASE Derives(r)
      BY <3>1, DerivesMakes
    <3>2. CASE Borrows(r)
      <4>1. Derived(call[r].row)
        BY <3>2 DEF KeyInv, Borrows
      <4>2. CASE call'[r].row = call[r].row
        BY <4>1, <4>2
      <4>3. ASSUME NEW w \in FindEVMByExternalID(call[r].row.owner, call[r].row.ext),
                   call'[r].row.address = w.address, call'[r].row.seq = w.seq
            PROVE  Derived(call'[r].row)
        <5>1. w \in HotRows /\ Derived(w) /\ w.owner = call[r].row.owner /\ w.chain \in EVMBlockchains
          BY DEF FindEVMByExternalID, WalletsTypeOK, KeyInv
        <5>2. call[r].row.chain \in EVMBlockchains
          BY <3>2 DEF KeyInv, Borrows
        <5>3. call'[r].row \in HotRows
          BY <3>2, BorrowsMakes DEF HotMade
        <5> QED
          BY <3>2, <4>3, <5>1, <5>2, <5>3, BorrowsMakes, EvmAddressesAreOne
      <4> QED
        BY <3>2, <4>2, <4>3, BorrowsMakes
    <3>3. CASE AddsHot(r)
      BY <3>3, AddsHotMakes DEF KeyInv, AddsHot
    <3> QED
      BY <1>1, <2>3, <3>1, <3>2, <3>3, CallTypes
  <2>3a. ASSUME call'[r].kind = "hot", call'[r].pc = "evm" PROVE call'[r].row.chain \in EVMBlockchains
    <3>1. CASE Derives(r)
      BY <2>3a, <3>1, DerivesMakes
    <3>2. CASE Borrows(r)
      BY <2>3a, <3>2, BorrowsMakes
    <3> QED
      BY <1>1, <2>3a, <3>1, <3>2, CallTypes
  <2>4. ASSUME call'[r].kind = "missing", call'[r].pc # "sequence" PROVE Processed(call'[r].row)
    <3>1. CASE LooksUp(r)
      BY <3>1, LooksUpMakes
    <3>2. CASE AddsMissing(r)
      BY <3>2, AddsMissingMakes DEF KeyInv, AddsMissing
    <3> QED
      BY <1>1, <2>4, <3>1, <3>2, CallTypes
  <2>5. ASSUME call'[r].kind = "owner" PROVE \A w \in call'[r].rows : Processed(w)
    <3>1. CASE AsksOwner(r)
      BY <3>1, AsksOwnerMakes
    <3>2. CASE AddsToOwner(r)
      BY <3>2, AddsToOwnerMakes DEF KeyInv, AddsToOwner
    <3> QED
      BY <1>1, <2>5, <3>1, <3>2, CallTypes
  <2>6. \A q \in Request : q # r => call'[q] = call[q]
    BY <1>1, OthersStay
  <2>7. \A q \in Request :
          /\ call'[q].kind = "hot" /\ call'[q].pc = "evm" => call'[q].row.chain \in EVMBlockchains
          /\ call'[q].kind = "hot" /\ call'[q].pc # "sequence" => Derived(call'[q].row)
          /\ call'[q].kind = "missing" /\ call'[q].pc # "sequence" => Processed(call'[q].row)
          /\ call'[q].kind = "owner" => \A w \in call'[q].rows : Processed(w)
    BY <2>3, <2>3a, <2>4, <2>5, <2>6 DEF KeyInv
  <2> QED
    BY <2>1, <2>2, <2>7 DEF KeyInv, Derived, Processed
<1>2. CASE Relabels
  <2>1. \A w \in hot' : Derived(w)
    BY <1>2 DEF Relabels, KeyInv, Derived
  <2>2. processing' = processing /\ call' = call
    BY <1>2 DEF Relabels
  <2> QED
    BY <2>1, <2>2 DEF KeyInv, Derived, Processed
<1>3. CASE Rests
  BY <1>3 DEF Rests, KeyInv, Derived, Processed
<1> QED
  BY <1>1, <1>2, <1>3, WalletMoves

LEMMA KeyInit == Init => KeyInv
<1> SUFFICES ASSUME Init PROVE KeyInv
  OBVIOUS
<1>1. hot = {} /\ \A r \in Request : call[r].kind = "none"
  BY DEF Init, Idle
<1>2. ASSUME NEW w \in processing PROVE Processed(w)
  <2>1. PICK o \in Existing, b \in Blockchain :
          w = ProcessingRow(o, b, AddressWallet(b, AddressTypeByBlockchain(b), Seed[o], 0), 0, "init")
    BY <1>2 DEF Init
  <2> QED
    BY <2>1 DEF ProcessingRow, Processed
<1> QED
  BY <1>1, <1>2 DEF KeyInv

\* From its address and its sequence a wallet gets its key again.
LEMMA KeyIsDerivedAgain ==
    ASSUME NEW b \in AllBlockchains, NEW t \in TypesOf(b), NEW seed, NEW n, NEW a,
           a = AddressWallet(b, t, seed, n)
    PROVE  AddressSecret(b, a, seed, n) = a.key /\ AddressPublic(b, a, seed, n) = PublicKey(a.key)
<1> USE DEF Generated, Network
<1>1. CASE b = "bitcoin"
  BY <1>1 DEF AddressWallet, AddressSecret, AddressPublic, BtcGenerateAddress, BtcDecodeAddressType, EVMBlockchains
<1>2. CASE b = "litecoin"
  BY <1>2 DEF AddressWallet, AddressSecret, AddressPublic, LtcGenerateAddress, LtcDecodeAddressType, EVMBlockchains
<1>3. CASE b = "bitcoincash"
  BY <1>3 DEF AddressWallet, AddressSecret, AddressPublic, BchGenerateAddress, EVMBlockchains
<1>4. CASE b = "dogecoin"
  BY <1>4 DEF AddressWallet, AddressSecret, AddressPublic, DogeGenerateAddress, EVMBlockchains
<1>5. CASE b \in EVMBlockchains
  BY <1>5 DEF AddressWallet, AddressSecret, AddressPublic, EvmWalletPubKeyHash, EvmAddressSecret,
              EvmAddressPublic, EVMBlockchains
<1>6. CASE b = "tron"
  BY <1>6 DEF AddressWallet, AddressSecret, AddressPublic, TronWalletPubKeyHash, TronAddressSecret,
              TronAddressPublic, EVMBlockchains
<1> QED
  BY <1>1, <1>2, <1>3, <1>4, <1>5, <1>6 DEF AllBlockchains

\* The key signs for its own address, unless that is a nested SegWit address.
LEMMA KeySigns ==
    ASSUME NEW b \in UtxoChains, NEW t \in TypesOf(b), NEW seed, NEW n, NEW a,
           a = AddressWallet(b, t, seed, n)
    PROVE  SignTxIn(b, TxInput(1, a.key, Script(a), 1)) <=> a.type # "P2SH"
<1>1. a = [network |-> Network(b), type |-> t, key |-> KeyFor(b, t, seed, n)]
  BY AddressForm DEF UtxoChains, AllBlockchains
<1>2. a.type = t /\ t \in {"", "P2PKH", "P2SH", "P2WPKH", "P2TR"} /\ (b \notin Typed => t = "")
  <2>1. a.type = t
    BY <1>1
  <2>2. t \in {"", "P2PKH", "P2SH", "P2WPKH", "P2TR"} /\ (b \notin Typed => t = "")
    BY DEF TypesOf, AddressType
  <2> QED
    BY <2>1, <2>2
<1>3. /\ Script(a).key = a.key /\ Script(a).kind = (IF t = "" THEN "P2PKH" ELSE t)
      /\ t = "P2SH" => Script(a).redeem = "OP_0 key hash"
  BY <1>2 DEF Script
<1>4. TxInput(1, a.key, Script(a), 1).key = a.key /\ TxInput(1, a.key, Script(a), 1).script = Script(a)
  BY DEF TxInput
<1>5. CASE b = "bitcoin"
  BY <1>2, <1>3, <1>4, <1>5 DEF SignTxIn, BtcSigns
<1>6. CASE b = "litecoin"
  BY <1>2, <1>3, <1>4, <1>6 DEF SignTxIn, LtcSigns
<1>7. CASE b = "bitcoincash"
  BY <1>2, <1>3, <1>4, <1>7 DEF SignTxIn, BchSigns, Typed
<1>8. CASE b = "dogecoin"
  BY <1>2, <1>3, <1>4, <1>8 DEF SignTxIn, DogeSigns, Typed
<1> QED
  BY <1>5, <1>6, <1>7, <1>8 DEF UtxoChains

KeyTypeInv == TypeInv /\ KeyInv

LEMMA EveryRowIsDerived ==
    ASSUME KeyTypeInv
    PROVE  \A w \in hot \cup processing : w.chain \in AllBlockchains /\ Derived(w)
<1>1. \A w \in hot \cup processing : w.chain \in AllBlockchains
  BY WalletsAssumption DEF KeyTypeInv, TypeInv, WalletsTypeOK, HotRows, ProcessingRows
<1>2. \A w \in processing : Derived(w)
  BY ProcessingType DEF KeyTypeInv, KeyInv, Processed, Derived
<1> QED
  BY <1>1, <1>2 DEF KeyTypeInv, KeyInv

LEMMA KeysAreRight == KeyTypeInv => KeyControlsAddress
<1> SUFFICES ASSUME KeyTypeInv PROVE KeyControlsAddress
  OBVIOUS
<1>1. ASSUME NEW k \in {"hot", "processing"}, NEW w \in Table(k)
      PROVE  LET key == AddressSecret(w.chain, w.address, Seed[w.owner],
                                      GetSequenceByWalletType(k, w.owner, w.chain, w.address))
             IN  /\ key = w.address.key
                 /\ w.chain \in UtxoChains =>
                      (SignTxIn(w.chain, TxInput(1, key, Script(w.address), 1)) <=> w.address.type # "P2SH")
  <2> DEFINE v == CHOOSE x \in Table(k) : x.owner = w.owner /\ x.chain = w.chain /\ x.address = w.address
  <2>1. v \in Table(k) /\ v.owner = w.owner /\ v.chain = w.chain /\ v.address = w.address
    OBVIOUS
  <2>2. GetSequenceByWalletType(k, w.owner, w.chain, w.address) = v.seq
    BY DEF GetSequenceByWalletType
  <2> HIDE DEF v
  <2>3. v \in hot \cup processing
    BY <2>1 DEF Table
  <2>4. PICK t \in TypesOf(v.chain) : v.address = AddressWallet(v.chain, t, Seed[v.owner], v.seq)
    BY <2>3, EveryRowIsDerived DEF Derived
  <2>5. v.chain \in AllBlockchains
    BY <2>3, EveryRowIsDerived
  <2>6. AddressSecret(w.chain, w.address, Seed[w.owner], v.seq) = w.address.key
    BY <2>1, <2>4, <2>5, KeyIsDerivedAgain
  <2>7. w.chain \in UtxoChains =>
          (SignTxIn(w.chain, TxInput(1, w.address.key, Script(w.address), 1)) <=> w.address.type # "P2SH")
    BY <2>1, <2>4, KeySigns
  <2> QED
    BY <2>2, <2>6, <2>7
<1>2. ASSUME NEW w \in hot \cup processing
      PROVE  /\ PrivateKeysItem(w).address = w.address /\ PrivateKeysItem(w).private = w.address.key
             /\ PrivateKeysItem(w).public = PublicKey(w.address.key)
  <2>1. PICK t \in TypesOf(w.chain) : w.address = AddressWallet(w.chain, t, Seed[w.owner], w.seq)
    BY EveryRowIsDerived DEF Derived
  <2> QED
    BY <2>1, EveryRowIsDerived, KeyIsDerivedAgain DEF PrivateKeysItem
<1>3. ASSUME NEW o \in owners
      PROVE  LET items == HotPrivateKeys(o) \cup ProcessingPrivateKeys(o) IN
             /\ \A w \in hot \cup processing : w.owner = o => \E i \in items : i.address = w.address
             /\ \A i \in items : i.private = i.address.key /\ i.public = PublicKey(i.private)
             /\ HotPrivateKeysByIDs(o, {w.address : w \in hot}) = HotPrivateKeys(o)
  <2> DEFINE items == HotPrivateKeys(o) \cup ProcessingPrivateKeys(o)
  <2>1. \A w \in hot \cup processing : w.owner = o => PrivateKeysItem(w) \in items
    BY DEF HotPrivateKeys, ProcessingPrivateKeys
  <2>2. \A i \in items : \E w \in hot \cup processing : i = PrivateKeysItem(w)
    BY DEF HotPrivateKeys, ProcessingPrivateKeys
  <2>3. HotPrivateKeysByIDs(o, {w.address : w \in hot}) = HotPrivateKeys(o)
    <3>1. {v \in hot : v.owner = o /\ v.address \in {w.address : w \in hot}} = {v \in hot : v.owner = o}
      OBVIOUS
    <3> QED
      BY <3>1 DEF HotPrivateKeys, HotPrivateKeysByIDs
  <2> HIDE DEF items
  <2>4. /\ \A w \in hot \cup processing : w.owner = o => \E i \in items : i.address = w.address
        /\ \A i \in items : i.private = i.address.key /\ i.public = PublicKey(i.private)
    BY <1>2, <2>1, <2>2
  <2> QED
    BY <2>3, <2>4 DEF items
<1> QED
  BY <1>1, <1>3 DEF KeyControlsAddress

LEMMA KeyTypeStep == KeyTypeInv /\ [Next]_vars => KeyTypeInv'
<1> SUFFICES ASSUME KeyTypeInv, [Next]_vars PROVE KeyTypeInv'
  OBVIOUS
<1>1. TypeInv'
  BY TypeInvStep DEF KeyTypeInv
<1>2. CASE Next
  BY <1>1, <1>2, KeyStep DEF KeyTypeInv
<1>3. CASE UNCHANGED vars
  <2>1. KeyInv'
    BY <1>3 DEF KeyTypeInv, KeyInv, vars, tables, Derived, Processed
  <2> QED
    BY <1>1, <2>1 DEF KeyTypeInv
<1> QED
  BY <1>2, <1>3

\* The key that the transfers derive for a hot or a processing wallet controls its
\* address, whatever calls have filled the tables and in whichever order, and also
\* when the address was taken over from another EVM chain.
THEOREM KeysControlAddresses == Spec => []KeyControlsAddress
<1>1. Init => KeyTypeInv
  BY KeyInit, TypeInvInit DEF KeyTypeInv
<1> QED
  BY <1>1, KeyTypeStep, KeysAreRight, PTL DEF Spec

(***************************************************************************)
(* The rows of the calls                                                   *)
(***************************************************************************)

SharedInv ==
    /\ KeyTypeInv /\ OverlapInv /\ ByInv
    /\ OwnedInv /\ NewOwnerInv /\ MissingInv
    /\ ProcessingUnique /\ HotUnique
    /\ SeedsApart /\ PendingApart /\ SequenceInv

Asks(r) == AsksHot(r) \/ AsksMissing(r) \/ AsksOwner(r) \/ AsksCold(r)

LEMMA WhoRuns ==
    ASSUME TypeInv, NEW r \in Request, RequestMoves(r)
    PROVE  /\ Asks(r) => /\ call[r].kind = "none"
                         /\ overlap' = overlap \cup {{r, q} : q \in {x \in Request : Running(x)}}
           /\ ~Asks(r) => Running(r)
<1>1. Asks(r) => /\ call[r].kind = "none"
                 /\ overlap' = overlap \cup {{r, q} : q \in {x \in Request : Running(x)}}
  BY DEF Asks, AsksHot, AsksMissing, AsksOwner, AsksCold, Begins, Idle
<1>2. ASSUME ~Asks(r) PROVE Running(r)
  <2>1. Running(r) <=> call[r].kind # "none"
    BY CallStateOf DEF TypeInv
  <2> QED
    BY <1>2, <2>1 DEF RequestMoves, Asks, Derives, Borrows, AddsHot, LooksUp, AddsMissing, GoesOn, AddsToOwner,
         Commits, Finishes, MovesCold
<1> QED
  BY <1>1, <1>2

LEMMA OverlapStep ==
    ASSUME TypeInv, OverlapInv, NEW r \in Request, RequestMoves(r)
    PROVE  OverlapInv'
<1>1. \A q \in Request : q # r => call'[q] = call[q]
  BY OthersStay DEF TypeInv
<1>2. overlap \subseteq overlap'
  BY NewRows
<1>3. ASSUME NEW q \in Request, q # r, Running(q) PROVE {r, q} \in overlap'
  <2>1. CASE Asks(r)
    BY <1>3, <2>1, WhoRuns
  <2>2. CASE ~Asks(r)
    BY <1>2, <1>3, <2>2, WhoRuns DEF OverlapInv
  <2> QED
    BY <2>1, <2>2
<1> SUFFICES ASSUME NEW a \in Request, NEW b \in Request, a # b, Running(a)', Running(b)'
             PROVE  {a, b} \in overlap'
  BY DEF OverlapInv
<1>4. a # r => Running(a)
  BY <1>1 DEF Running
<1>5. b # r => Running(b)
  BY <1>1 DEF Running
<1>6. CASE a = r
  BY <1>3, <1>5, <1>6
<1>7. CASE b = r
  BY <1>3, <1>4, <1>7
<1>8. CASE a # r /\ b # r
  BY <1>2, <1>4, <1>5, <1>8 DEF OverlapInv
<1> QED
  BY <1>6, <1>7, <1>8

LEMMA ByStep ==
    ASSUME TypeInv, ByInv, NEW r \in Request, RequestMoves(r)
    PROVE  ByInv'
<1>1. \A q \in Request : q # r => call'[q] = call[q]
  BY OthersStay DEF TypeInv
<1>2. ASSUME call'[r].kind = "hot", call'[r].pc # "sequence" PROVE call'[r].row.by = r
  <2>1. CASE Derives(r)
    BY <2>1, DerivesMakes
  <2>2. CASE Borrows(r)
    BY <2>2, BorrowsMakes, KindsOfCalls DEF ByInv
  <2>3. CASE AddsHot(r)
    BY <2>3, AddsHotMakes DEF ByInv, AddsHot
  <2> QED
    BY <1>2, <2>1, <2>2, <2>3, CallTypes
<1>3. ASSUME call'[r].kind = "missing", call'[r].pc # "sequence" PROVE call'[r].row.by = r
  <2>1. CASE LooksUp(r)
    BY <2>1, LooksUpMakes
  <2>2. CASE AddsMissing(r)
    BY <2>2, AddsMissingMakes DEF ByInv, AddsMissing
  <2> QED
    BY <1>3, <2>1, <2>2, CallTypes
<1>4. ASSUME call'[r].kind = "owner", NEW w \in call'[r].rows PROVE w.by = r /\ w.owner = call'[r].owner
  <2>1. CASE AsksOwner(r)
    BY <1>4, <2>1, AsksOwnerMakes
  <2>2. CASE AddsToOwner(r)
    BY <1>4, <2>2, AddsToOwnerMakes DEF ByInv, AddsToOwner
  <2> QED
    BY <1>4, <2>1, <2>2, CallTypes
<1> QED
  BY <1>1, <1>2, <1>3, <1>4 DEF ByInv

\* The processing wallets of the owners that are there.
LEMMA Committed ==
    ASSUME SharedInv, NEW r \in Request, Commits(r)
    PROVE  /\ call[r].kind = "owner" /\ call[r].owner \notin owners /\ call[r].owner \notin Existing
           /\ \A w \in call[r].rows : w.owner = call[r].owner /\ w.by = r /\ w.seq = 0
           /\ \A b \in Blockchain : \E w \in call[r].rows : w.chain = b
           /\ \A w \in hot \cup processing : w.owner # call[r].owner
BY DEF Commits, SharedInv, NewOwnerInv, OwnedInv, ByInv

LEMMA OwnedStep ==
    ASSUME SharedInv, NEW r \in Request, RequestMoves(r)
    PROVE  OwnedInv'
<1> USE DEF SharedInv, KeyTypeInv
<1>0. TypeInv /\ WalletsTypeOK
  BY DEF TypeInv
<1>1. \A q \in Request : q # r => call'[q] = call[q]
  BY <1>0, OthersStay
<1>2. /\ owners \subseteq owners' /\ processing \subseteq processing'
      /\ \A w \in hot' : w \in hot \/ (AddsHot(r) /\ w = call[r].row)
      /\ \A w \in processing' : \/ w \in processing
                                \/ AddsMissing(r) /\ w = call[r].row
                                \/ Commits(r) /\ w \in call[r].rows
      /\ Commits(r) \/ owners' = owners
  BY <1>0, NewRows
<1>3. Existing \subseteq owners'
  BY <1>2 DEF OwnedInv
<1>4. ASSUME NEW w \in hot' \cup processing' PROVE w.owner \in owners'
  <2>1. CASE w \in hot \cup processing
    BY <1>2, <2>1 DEF OwnedInv
  <2>2. CASE AddsHot(r) /\ w = call[r].row
    BY <1>2, <2>2 DEF OwnedInv, AddsHot
  <2>3. CASE AddsMissing(r) /\ w = call[r].row
    BY <1>2, <2>3 DEF OwnedInv, AddsMissing
  <2>4. CASE Commits(r) /\ w \in call[r].rows
    BY <2>4, Committed DEF Commits
  <2> QED
    BY <1>2, <1>4, <2>1, <2>2, <2>3, <2>4
<1>5. ASSUME NEW w \in processing', w.owner \notin Existing \/ w.chain \notin Upgraded PROVE w.seq = 0
  <2>1. CASE AddsMissing(r) /\ w = call[r].row
    BY <1>5, <2>1 DEF OwnedInv, AddsMissing
  <2> QED
    BY <1>2, <1>5, <2>1, Committed DEF OwnedInv
<1>6. ASSUME NEW o \in owners', NEW b \in Blockchain, o \notin Existing \/ b \notin Upgraded
      PROVE  \E w \in processing' : w.owner = o /\ w.chain = b
  <2>1. CASE o \in owners
    BY <1>2, <1>6, <2>1 DEF OwnedInv, FindProcessing
  <2>2. CASE Commits(r) /\ o = call[r].owner
    BY <2>2, Committed DEF Commits
  <2> QED
    BY <1>2, <2>1, <2>2 DEF Commits
<1>7. ASSUME call'[r].kind = "hot", call'[r].pc = "sequence" PROVE call'[r].owner \in owners
  BY <1>0, <1>7, AsksHotMakes, CallTypes
<1>8. ASSUME call'[r].kind = "hot", call'[r].pc # "sequence" PROVE call'[r].row.owner \in owners
  <2>1. CASE Derives(r)
    BY <1>0, <2>1, DerivesMakes DEF OwnedInv, Derives
  <2>2. CASE Borrows(r)
    BY <1>0, <2>2, BorrowsMakes DEF OwnedInv, Borrows
  <2>3. CASE AddsHot(r)
    BY <1>0, <2>3, AddsHotMakes DEF OwnedInv, AddsHot
  <2> QED
    BY <1>0, <1>8, <2>1, <2>2, <2>3, CallTypes
<1>9. ASSUME call'[r].kind = "missing", NEW x \in call'[r].todo PROVE x[1] \in Existing /\ x[2] \in Upgraded
  <2>1. CASE AsksMissing(r)
    BY <1>0, <1>9, <2>1, AsksMissingMakes DEF GetAllNotCreatedWallets, OwnedInv
  <2>2. CASE LooksUp(r)
    BY <1>0, <1>9, <2>2, LooksUpMakes DEF LooksUp, OwnedInv
  <2>3. CASE AddsMissing(r)
    BY <1>0, <1>9, <2>3, AddsMissingMakes DEF AddsMissing, OwnedInv
  <2>4. CASE GoesOn(r)
    BY <1>0, <1>9, <2>4, GoesOnMakes DEF GoesOn, OwnedInv
  <2> QED
    BY <1>0, <1>9, <2>1, <2>2, <2>3, <2>4, CallTypes
<1>10. ASSUME call'[r].kind = "missing", call'[r].pc # "sequence"
       PROVE  call'[r].row.owner \in Existing /\ call'[r].row.chain \in Upgraded
  <2>1. CASE LooksUp(r)
    BY <1>0, <2>1, LooksUpMakes DEF LooksUp, OwnedInv
  <2>2. CASE AddsMissing(r)
    BY <1>0, <2>2, AddsMissingMakes DEF AddsMissing, OwnedInv
  <2> QED
    BY <1>0, <1>10, <2>1, <2>2, CallTypes
<1>11. \A q \in Request :
          /\ call'[q].kind = "hot" /\ call'[q].pc = "sequence" => call'[q].owner \in owners'
          /\ call'[q].kind = "hot" /\ call'[q].pc # "sequence" => call'[q].row.owner \in owners'
          /\ call'[q].kind = "missing" => \A x \in call'[q].todo : x[1] \in Existing /\ x[2] \in Upgraded
          /\ call'[q].kind = "missing" /\ call'[q].pc # "sequence" =>
                call'[q].row.owner \in Existing /\ call'[q].row.chain \in Upgraded
  BY <1>1, <1>2, <1>7, <1>8, <1>9, <1>10 DEF OwnedInv
<1>12. \A o \in owners', b \in Blockchain :
          o \notin Existing \/ b \notin Upgraded => FindProcessing(o, b)' # {}
  BY <1>6 DEF FindProcessing
<1> QED
  BY <1>3, <1>4, <1>5, <1>11, <1>12 DEF OwnedInv, FindProcessing

\* An owner that is being created has no wallets yet.
LEMMA AddedToOwner ==
    ASSUME SharedInv, NEW r \in Request, AddsToOwner(r)
    PROVE  /\ call[r] \in OwnerMade /\ call'[r] \in OwnerMade /\ call'[r].owner = call[r].owner
           /\ \E b \in call[r].todo, w \in ProcessingRows :
                /\ ~IsTakenByAnotherOwner(call[r].owner, w.address)
                /\ call'[r].todo = call[r].todo \ {b} /\ call'[r].rows = call[r].rows \cup {w}
                /\ w.owner = call[r].owner /\ w.chain = b /\ w.by = r /\ w.seq = 0 /\ Processed(w)
                /\ b \in Blockchain
<1> USE DEF SharedInv, KeyTypeInv
<1>1. PICK b \in call[r].todo, w \in ProcessingRows :
         /\ b \in Blockchain
         /\ ~IsTakenByAnotherOwner(call[r].owner, w.address)
         /\ call'[r].todo = call[r].todo \ {b} /\ call'[r].rows = call[r].rows \cup {w}
         /\ w.owner = call[r].owner /\ w.chain = b /\ w.by = r
         /\ w.seq = MaxSequence(call[r].owner, b) + 1
         /\ Processed(w)
  BY AddsToOwnerMakes
<1>2. FindHot(call[r].owner, b) \cup FindProcessing(call[r].owner, b) = {}
  BY DEF AddsToOwner, NewOwnerInv, OwnedInv, FindHot, FindProcessing
<1>3. MaxSequence(call[r].owner, b) = -1
  BY <1>2, SequenceIsHighest DEF TypeInv
<1>4. w.seq = 0
  BY <1>1, <1>3
<1> QED
  BY <1>1, <1>4, AddsToOwnerMakes

LEMMA NewOwnerStep ==
    ASSUME SharedInv, NEW r \in Request, RequestMoves(r)
    PROVE  NewOwnerInv'
<1> USE DEF SharedInv, KeyTypeInv
<1>0. TypeInv /\ WalletsTypeOK
  BY DEF TypeInv
<1>1. \A q \in Request : q # r => call'[q] = call[q]
  BY <1>0, OthersStay
<1>2. ASSUME NEW q \in Request, call'[q].kind = "owner" PROVE call'[q].owner \notin owners'
  <2>1. CASE Commits(r)
    <3>1. q # r
      BY <1>0, <1>2, <2>1, CommitsMakes DEF Done
    <3>2. call[q].kind = "owner" /\ call'[q].owner = call[q].owner /\ call[q].owner \notin owners
      BY <1>1, <1>2, <3>1 DEF NewOwnerInv
    <3>3. call[q].owner # call[r].owner
      BY <2>1, <3>1, <3>2 DEF NewOwnerInv, Commits
    <3> QED
      BY <2>1, <3>2, <3>3 DEF Commits
  <2>2. CASE ~Commits(r)
    <3>1. owners' = owners
      BY <1>0, <2>2, NewRows
    <3>2. CASE q # r
      BY <1>1, <1>2, <3>1, <3>2 DEF NewOwnerInv
    <3>3. CASE q = r /\ AsksOwner(r)
      BY <1>0, <3>1, <3>3, AsksOwnerMakes
    <3>4. CASE q = r /\ AddsToOwner(r)
      BY <3>1, <3>4, AddedToOwner DEF NewOwnerInv, AddsToOwner
    <3> QED
      BY <1>0, <1>2, <3>2, <3>3, <3>4, CallTypes
  <2> QED
    BY <2>1, <2>2
<1>3. ASSUME call'[r].kind = "owner"
      PROVE  /\ \A w \in call'[r].rows : w.seq = 0 /\ w.chain \notin call'[r].todo
             /\ \A v, w \in call'[r].rows : v.chain = w.chain => v = w
             /\ \A b \in Blockchain \ call'[r].todo : \E w \in call'[r].rows : w.chain = b
  <2>1. CASE AsksOwner(r)
    BY <1>0, <2>1, AsksOwnerMakes
  <2>2. CASE AddsToOwner(r)
    <3>1. call[r].kind = "owner"
      BY <2>2 DEF AddsToOwner
    <3> QED
      BY <2>2, <3>1, AddedToOwner DEF NewOwnerInv
  <2> QED
    BY <1>0, <1>3, <2>1, <2>2, CallTypes
<1>4. ASSUME NEW q \in Request, q # r, call'[r].kind = "owner", call'[q].kind = "owner"
      PROVE  call'[r].owner # call'[q].owner
  <2>1. CASE AsksOwner(r)
    BY <1>0, <1>1, <1>4, <2>1, AsksOwnerMakes
  <2>2. CASE AddsToOwner(r)
    BY <1>1, <1>4, <2>2, AddedToOwner DEF NewOwnerInv, AddsToOwner
  <2> QED
    BY <1>0, <1>4, <2>1, <2>2, CallTypes
<1>5. \A q \in Request : call'[q].kind = "owner" =>
          /\ \A w \in call'[q].rows : w.seq = 0 /\ w.chain \notin call'[q].todo
          /\ \A v, w \in call'[q].rows : v.chain = w.chain => v = w
          /\ \A b \in Blockchain \ call'[q].todo : \E w \in call'[q].rows : w.chain = b
  BY <1>1, <1>3 DEF NewOwnerInv
<1>6. \A p, q \in Request :
         call'[p].kind = "owner" /\ call'[q].kind = "owner" /\ call'[p].owner = call'[q].owner => p = q
  BY <1>1, <1>4 DEF NewOwnerInv
<1> QED
  BY <1>2, <1>5, <1>6 DEF NewOwnerInv

LEMMA MissingStep ==
    ASSUME SharedInv, NEW r \in Request, RequestMoves(r)
    PROVE  MissingInv'
<1> USE DEF SharedInv, KeyTypeInv
<1>0. TypeInv /\ WalletsTypeOK
  BY DEF TypeInv
<1>1. \A q \in Request : q # r => call'[q] = call[q]
  BY <1>0, OthersStay
<1>2. checked => checked'
  BY DEF RequestMoves, AsksHot, AsksMissing, AsksOwner, AsksCold, Begins, Derives, Borrows, AddsHot,
         LooksUp, AddsMissing, GoesOn, AddsToOwner, Commits, Finishes, MovesCold, Tables
<1>3. ASSUME call'[r].kind = "missing" PROVE checked' /\ (AsksMissing(r) \/ call[r].kind = "missing")
  BY <1>0, <1>2, <1>3, CallTypes DEF MissingInv, AsksMissing, LooksUp, AddsMissing, GoesOn
<1>4. ASSUME NEW q \in Request, NEW p \in Request, call'[q].kind = "missing", call'[p].kind = "missing"
      PROVE  q = p
  <2>1. CASE AsksMissing(r)
    <3>1. \A x \in Request : call[x].kind # "missing"
      BY <2>1 DEF AsksMissing, MissingInv
    <3> QED
      BY <1>1, <1>4, <3>1
  <2>2. CASE ~AsksMissing(r)
    <3>1. \A x \in Request : call'[x].kind = "missing" => call[x].kind = "missing"
      BY <1>1, <1>3, <2>2
    <3> QED
      BY <1>4, <3>1 DEF MissingInv
  <2> QED
    BY <2>1, <2>2
\* What is not there does not come by another call.
<1>5. ASSUME NEW o \in Existing, NEW b, FindProcessing(o, b) = {}, ~AddsMissing(r)
      PROVE  \A w \in processing' : ~(w.owner = o /\ w.chain = b)
  <2> SUFFICES ASSUME NEW w \in processing', w.owner = o, w.chain = b PROVE FALSE
    OBVIOUS
  <2>1. w \notin processing
    BY <1>5 DEF FindProcessing
  <2>2. Commits(r) /\ w \in call[r].rows
    BY <1>0, <1>5, <2>1, NewRows
  <2> QED
    BY <2>2, Committed
<1>6. ASSUME NEW q \in Request, q # r, call[q].kind = "missing"
      PROVE  /\ \A x \in call[q].todo : \A w \in processing' : ~(w.owner = x[1] /\ w.chain = x[2])
             /\ call[q].pc = "insert" =>
                  \A w \in processing' : ~(w.owner = call[q].row.owner /\ w.chain = call[q].row.chain)
  <2>1. ~AddsMissing(r)
    BY <1>6 DEF MissingInv, AddsMissing
  <2>2. /\ \A x \in call[q].todo : x[1] \in Existing /\ FindProcessing(x[1], x[2]) = {}
        /\ call[q].pc = "insert" =>
             /\ call[q].row.owner \in Existing
             /\ FindProcessing(call[q].row.owner, call[q].row.chain) = {}
    BY <1>6 DEF MissingInv, OwnedInv
  <2> QED
    BY <1>5, <2>1, <2>2
<1>7. ASSUME call'[r].kind = "missing"
      PROVE  /\ \A x \in call'[r].todo : \A w \in processing' : ~(w.owner = x[1] /\ w.chain = x[2])
             /\ call'[r].pc = "insert" =>
                  /\ \A w \in processing' : ~(w.owner = call'[r].row.owner /\ w.chain = call'[r].row.chain)
                  /\ <<call'[r].row.owner, call'[r].row.chain>> \notin call'[r].todo
  <2>1. CASE AsksMissing(r)
    <3>1. processing' = processing /\ call'[r].todo = GetAllNotCreatedWallets /\ call'[r] \in MissingAsked
      BY <1>0, <2>1, AsksMissingMakes DEF AsksMissing, Begins
    <3> QED
      BY <3>1, KindsOfCalls DEF GetAllNotCreatedWallets, FindProcessing
  <2>2. CASE LooksUp(r)
    <3>1. processing' = processing
      BY <2>2 DEF LooksUp, Tables
    <3>2. PICK x \in call[r].todo :
            /\ x \in Owner \X Blockchain /\ call'[r].todo = call[r].todo \ {x}
            /\ call'[r].row.owner = x[1] /\ call'[r].row.chain = x[2]
      BY <1>0, <2>2, LooksUpMakes
    <3>3. \A y \in call[r].todo : FindProcessing(y[1], y[2]) = {}
      BY <2>2 DEF LooksUp, MissingInv
    <3>4. x = <<x[1], x[2]>>
      BY <3>2
    <3> QED
      BY <3>1, <3>2, <3>3, <3>4 DEF FindProcessing
  <2>3. CASE AddsMissing(r)
    <3>1. /\ call'[r].todo = call[r].todo /\ call'[r].pc = "store"
          /\ processing' = processing \cup {call[r].row}
      BY <1>0, <2>3, AddsMissingMakes DEF AddsMissing
    <3>2. /\ \A x \in call[r].todo : FindProcessing(x[1], x[2]) = {}
          /\ <<call[r].row.owner, call[r].row.chain>> \notin call[r].todo
      BY <2>3 DEF AddsMissing, MissingInv
    <3>3. call[r].todo \subseteq Owner \X Blockchain
      BY <1>0, <2>3, AddsMissingMakes DEF MissingMade
    <3>4. \A x \in call[r].todo : x = <<x[1], x[2]>>
      BY <3>3
    <3> QED
      BY <3>1, <3>2, <3>4 DEF FindProcessing
  <2>4. CASE GoesOn(r)
    <3>1. processing' = processing /\ call'[r].todo = call[r].todo /\ call'[r] \in MissingAsked
      BY <1>0, <2>4, GoesOnMakes DEF GoesOn, Tables
    <3>2. \A x \in call[r].todo : FindProcessing(x[1], x[2]) = {}
      BY <2>4 DEF GoesOn, MissingInv
    <3> QED
      BY <3>1, <3>2, KindsOfCalls DEF FindProcessing
  <2> QED
    BY <1>0, <1>7, <2>1, <2>2, <2>3, <2>4, CallTypes
<1>8. \A q \in Request : call'[q].kind = "missing" =>
          /\ checked'
          /\ \A x \in call'[q].todo : \A w \in processing' : ~(w.owner = x[1] /\ w.chain = x[2])
          /\ call'[q].pc = "insert" =>
               /\ \A w \in processing' : ~(w.owner = call'[q].row.owner /\ w.chain = call'[q].row.chain)
               /\ <<call'[q].row.owner, call'[q].row.chain>> \notin call'[q].todo
  <2> SUFFICES ASSUME NEW q \in Request, call'[q].kind = "missing"
               PROVE  /\ checked'
                      /\ \A x \in call'[q].todo : \A w \in processing' : ~(w.owner = x[1] /\ w.chain = x[2])
                      /\ call'[q].pc = "insert" =>
                           /\ \A w \in processing' : ~(w.owner = call'[q].row.owner /\ w.chain = call'[q].row.chain)
                           /\ <<call'[q].row.owner, call'[q].row.chain>> \notin call'[q].todo
    OBVIOUS
  <2>1. CASE q = r
    BY <1>3, <1>7, <2>1
  <2>2. CASE q # r
    <3>1. call'[q] = call[q] /\ call[q].kind = "missing"
      BY <1>1, <2>2
    <3>2. checked' /\ (call[q].pc = "insert" => <<call[q].row.owner, call[q].row.chain>> \notin call[q].todo)
      BY <1>2, <3>1 DEF MissingInv
    <3> QED
      BY <1>6, <2>2, <3>1, <3>2
  <2> QED
    BY <2>1, <2>2
<1> QED
  BY <1>4, <1>8 DEF MissingInv, FindProcessing

LEMMA UniqueStep ==
    ASSUME SharedInv, NEW r \in Request, RequestMoves(r)
    PROVE  ProcessingUnique' /\ HotUnique'
<1> USE DEF SharedInv, KeyTypeInv
<1>1. ASSUME NEW v \in processing', NEW w \in processing', v.owner = w.owner, v.chain = w.chain
      PROVE  v = w
  <2>1. CASE AddsMissing(r)
    <3>1. \A x \in processing : ~(x.owner = call[r].row.owner /\ x.chain = call[r].row.chain)
      BY <2>1 DEF AddsMissing, MissingInv, FindProcessing
    <3> QED
      BY <1>1, <2>1, <3>1 DEF AddsMissing, ProcessingUnique
  <2>2. CASE Commits(r)
    <3>1. \A x, y \in call[r].rows : x.chain = y.chain => x = y
      BY <2>2 DEF Commits, NewOwnerInv
    <3>2. /\ \A x \in call[r].rows : x.owner = call[r].owner
          /\ \A x \in processing : x.owner # call[r].owner
      BY <2>2, Committed
    <3> QED
      BY <1>1, <2>2, <3>1, <3>2 DEF Commits, ProcessingUnique
  <2>3. CASE ~AddsMissing(r) /\ ~Commits(r)
    BY <1>1, <2>3, NewRows DEF ProcessingUnique
  <2> QED
    BY <2>1, <2>2, <2>3
<1>2. ASSUME NEW v \in hot', NEW w \in hot', v.owner = w.owner, v.chain = w.chain, v.address = w.address
      PROVE  v = w
  <2>1. CASE AddsHot(r)
    BY <1>2, <2>1 DEF AddsHot, Taken, HotUnique
  <2>2. CASE ~AddsHot(r)
    BY <1>2, <2>2, NewRows DEF HotUnique
  <2> QED
    BY <2>1, <2>2
<1> QED
  BY <1>1, <1>2 DEF ProcessingUnique, HotUnique

(***************************************************************************)
(* Owners with one seed                                                    *)
(***************************************************************************)

LEMMA OverlapIsSymmetric == \A v, w : Overlapped(v, w) <=> Overlapped(w, v)
<1>1. ASSUME NEW v, NEW w PROVE {v.by, w.by} = {w.by, v.by}
  OBVIOUS
<1> QED
  BY <1>1 DEF Overlapped

\* An owner of an earlier run has a processing wallet on a chain that is not new.
LEMMA OlderWallet ==
    ASSUME OwnedInv, NEW o \in Existing
    PROVE  \E b \in Blockchain \ Upgraded : \E p \in processing : p.owner = o /\ p.chain = b
<1>1. PICK b \in Blockchain : b \notin Upgraded
  BY WalletsAssumption, ExistingAssumption
<1> QED
  BY <1>1 DEF OwnedInv, FindProcessing

\* The wallet that is made for a new owner has an address of its own among those
\* that are there: no owner with the same seed is, unless he waits for the chain.
LEMMA ApartFromOthers ==
    ASSUME SharedInv, NEW w, NEW p \in processing, NEW o,
           w.owner = o, w.chain \in Blockchain, w.seq = 0, Processed(w),
           ~IsTakenByAnotherOwner(o, w.address), p.owner # o, Seed[p.owner] = Seed[o]
    PROVE  p.owner \in Existing /\ w.chain \in Upgraded
<1> USE DEF SharedInv
<1> SUFFICES ASSUME p.owner \notin Existing \/ w.chain \notin Upgraded PROVE FALSE
  OBVIOUS
<1>1. p.owner \in owners
  BY DEF OwnedInv
<1>2. PICK q \in processing : q.owner = p.owner /\ q.chain = w.chain
  BY <1>1 DEF OwnedInv, FindProcessing
<1>3. q.seq = 0
  BY <1>2 DEF OwnedInv
<1>4. q.address = AddressWallet(q.chain, AddressTypeByBlockchain(q.chain), Seed[q.owner], q.seq)
  BY DEF KeyTypeInv, KeyInv, Processed
<1>5. w.address = AddressWallet(w.chain, AddressTypeByBlockchain(w.chain), Seed[w.owner], w.seq)
  BY DEF Processed
<1>6. q.address = w.address
  BY <1>2, <1>3, <1>4, <1>5
<1> QED
  BY <1>2, <1>6 DEF IsTakenByAnotherOwner

LEMMA OverlapGrows ==
    ASSUME TypeInv, NEW r \in Request, RequestMoves(r)
    PROVE  \A v, w : Overlapped(v, w) => Overlapped(v, w)'
<1>1. overlap \subseteq overlap'
  BY NewRows
<1> QED
  BY <1>1 DEF Overlapped

LEMMA PendingStep ==
    ASSUME SharedInv, NEW r \in Request, RequestMoves(r)
    PROVE  PendingApart'
<1> USE DEF SharedInv, KeyTypeInv
<1>1. \A q \in Request : q # r => call'[q] = call[q]
  BY OthersStay DEF TypeInv
<1>2. \A v, w : Overlapped(v, w) => {v.by, w.by} \in overlap'
  BY NewRows DEF Overlapped
<1> SUFFICES ASSUME NEW q \in Request, call'[q].kind = "owner", NEW w \in call'[q].rows,
                    NEW p \in processing', p.owner # w.owner, Seed[p.owner] = Seed[w.owner]
             PROVE  IF p.owner \in Existing THEN w.chain \in Upgraded ELSE {w.by, p.by} \in overlap'
  BY DEF PendingApart, Overlapped
<1>3. CASE q = r /\ AsksOwner(r)
  BY <1>3, AsksOwnerMakes
<1>4. CASE q = r /\ AddsToOwner(r)
  <2>1. processing' = processing /\ call[r].kind = "owner"
    BY <1>4 DEF AddsToOwner, Tables
  <2>2. CASE w \in call[r].rows
    BY <1>2, <2>1, <2>2 DEF PendingApart
  <2>3. CASE w \notin call[r].rows
    <3>1. /\ ~IsTakenByAnotherOwner(call[r].owner, w.address)
          /\ w.owner = call[r].owner /\ w.chain \in Blockchain /\ w.seq = 0 /\ Processed(w)
      BY <1>4, <2>3, AddedToOwner
    <3> QED
      BY <2>1, <3>1, ApartFromOthers
  <2> QED
    BY <2>2, <2>3
<1>5. CASE q # r
  <2>1. call[q].kind = "owner" /\ w \in call[q].rows
    BY <1>1, <1>5
  <2>2. CASE p \in processing
    BY <1>2, <2>1, <2>2 DEF PendingApart
  <2>3. CASE AddsMissing(r) /\ p = call[r].row
    <3>1. p.owner \in Existing
      BY <2>3 DEF OwnedInv, AddsMissing
    <3>2. PICK x \in processing : x.owner = p.owner
      BY <3>1, OlderWallet
    <3> QED
      BY <2>1, <3>1, <3>2 DEF PendingApart
  <2>4. CASE Commits(r) /\ p \in call[r].rows
    <3>1. p.by = r /\ p.owner \notin Existing
      BY <2>4, Committed
    <3>2. w.by = q
      BY <2>1 DEF ByInv
    <3>3. Running(r) /\ Running(q)
      BY <2>1, <2>4, CallStateOf DEF TypeInv, Commits
    <3> QED
      BY <1>2, <1>5, <3>1, <3>2, <3>3, NewRows DEF OverlapInv
  <2> QED
    BY <2>2, <2>3, <2>4, NewRows
<1> QED
  BY <1>3, <1>4, <1>5, CallTypes

LEMMA SeedsStep ==
    ASSUME SharedInv, NEW r \in Request, RequestMoves(r)
    PROVE  SeedsApart'
<1> USE DEF SharedInv, KeyTypeInv
<1>1. \A v, w : Overlapped(v, w) => {v.by, w.by} \in overlap' /\ {w.by, v.by} \in overlap'
  BY NewRows, OverlapIsSymmetric DEF Overlapped
\* A new row and one that is there.
<1>2. ASSUME NEW p \in processing', p \notin processing, NEW q \in processing,
             p.owner # q.owner, Seed[p.owner] = Seed[q.owner]
      PROVE  p.owner \notin Existing /\ q.owner \notin Existing /\ Overlapped(p, q)
  <2>1. CASE AddsMissing(r) /\ p = call[r].row
    <3>1. p.owner \in Existing
      BY <2>1 DEF OwnedInv, AddsMissing
    <3>2. PICK x \in processing : x.owner = p.owner
      BY <3>1, OlderWallet
    <3>3. q.owner \notin Existing
      BY <1>2, <3>1, ExistingAssumption
    <3> QED
      BY <1>2, <3>1, <3>2 DEF SeedsApart
  <2>2. CASE Commits(r) /\ p \in call[r].rows
    <3>1. p.owner = call[r].owner /\ p.owner \notin Existing /\ call[r].kind = "owner"
      BY <2>2, Committed
    <3>2. q.owner \notin Existing
      <4> SUFFICES ASSUME q.owner \in Existing PROVE FALSE
        OBVIOUS
      <4>1. PICK b \in Blockchain : b \notin Upgraded
        BY WalletsAssumption, ExistingAssumption
      <4>2. PICK x \in call[r].rows : x.chain = b
        BY <2>2, Committed
      <4>3. x.owner = p.owner
        BY <2>2, <3>1, Committed
      <4>4. x.chain \in Upgraded
        BY <1>2, <3>1, <4>3 DEF PendingApart
      <4> QED
        BY <4>1, <4>2, <4>4
    <3>3. Overlapped(p, q)
      BY <1>2, <2>2, <3>1, <3>2 DEF PendingApart
    <3> QED
      BY <3>1, <3>2, <3>3
  <2> QED
    BY <1>2, <2>1, <2>2, NewRows
\* New rows have one owner.
<1>3. ASSUME NEW p \in processing', p \notin processing, NEW q \in processing', q \notin processing
      PROVE  p.owner = q.owner
  <2>1. CASE AddsMissing(r)
    BY <1>3, <2>1 DEF AddsMissing
  <2>2. CASE Commits(r)
    BY <1>3, <2>2, Committed DEF Commits
  <2> QED
    BY <1>3, <2>1, <2>2, NewRows
<1> SUFFICES ASSUME NEW p \in processing', NEW q \in processing', p.owner # q.owner, Seed[p.owner] = Seed[q.owner]
             PROVE  p.owner \notin Existing /\ q.owner \notin Existing /\ {p.by, q.by} \in overlap'
  BY DEF SeedsApart, Overlapped
<1>4. CASE p \in processing /\ q \in processing
  BY <1>1, <1>4 DEF SeedsApart
<1>5. CASE p \notin processing /\ q \in processing
  BY <1>1, <1>2, <1>5
<1>6. CASE p \in processing /\ q \notin processing
  BY <1>1, <1>2, <1>6
<1>7. CASE p \notin processing /\ q \notin processing
  BY <1>3, <1>7
<1> QED
  BY <1>4, <1>5, <1>6, <1>7

(***************************************************************************)
(* Sequences                                                               *)
(***************************************************************************)

\* A wallet that a call has ready, and one that another call adds meanwhile.
LEMMA MadeMeanwhile ==
    ASSUME SharedInv, NEW r \in Request, RequestMoves(r), NEW q \in Request, q # r, Running(q),
           NEW x, x.by = q
    PROVE  /\ \A p \in processing' \ processing : Overlapped(p, x) /\ Overlapped(x, p)
           /\ \A p \in hot' \ hot : Overlapped(p, x) /\ Overlapped(x, p)
<1> USE DEF SharedInv, KeyTypeInv
<1>1. ASSUME NEW p, p \in (processing' \ processing) \cup (hot' \ hot)
      PROVE  p.by = r /\ Running(r)
  <2>1. CASE AddsHot(r) /\ p = call[r].row
    BY <2>1, WhoRuns DEF AddsHot, ByInv, Asks, AsksHot, AsksMissing, AsksOwner, AsksCold, Begins, Idle
  <2>2. CASE AddsMissing(r) /\ p = call[r].row
    BY <2>2, WhoRuns DEF AddsMissing, ByInv, Asks, AsksHot, AsksMissing, AsksOwner, AsksCold, Begins, Idle
  <2>3. CASE Commits(r) /\ p \in call[r].rows
    BY <2>3, Committed, WhoRuns DEF Asks, AsksHot, AsksMissing, AsksOwner, AsksCold, Begins, Idle
  <2> QED
    BY <1>1, <2>1, <2>2, <2>3, NewRows
<1>2. Running(r) => {r, q} \in overlap
  BY DEF OverlapInv
<1>3. \A p : p.by = r /\ Running(r) => Overlapped(p, x)
  BY <1>2 DEF Overlapped
<1> QED
  BY <1>1, <1>3, OverlapIsSymmetric

LEMMA HotFirstStays ==
    ASSUME SharedInv, NEW r \in Request, RequestMoves(r), NEW o, HotFirst(o)
    PROVE  HotFirst(o)'
<1> USE DEF SharedInv, KeyTypeInv
<1>1. PICK w \in hot : /\ w.owner = o /\ w.chain \in EVMBlockchains
                       /\ \A p \in FindProcessing(o, w.chain) : w.seq < p.seq \/ Overlapped(w, p)
  BY DEF HotFirst
<1>2. w \in hot'
  BY NewRows
<1>3. ASSUME NEW p \in processing', p.owner = o, p.chain = w.chain
      PROVE  w.seq < p.seq \/ Overlapped(w, p)
  <2>1. CASE p \in processing
    BY <1>1, <1>3, <2>1 DEF FindProcessing
  <2>2. CASE AddsMissing(r) /\ p = call[r].row
    BY <1>1, <1>3, <2>2 DEF AddsMissing, SequenceInv, SameChain
  <2>3. CASE Commits(r) /\ p \in call[r].rows
    BY <1>1, <1>3, <2>3, Committed
  <2> QED
    BY <2>1, <2>2, <2>3, NewRows
<1>4. \A p \in processing' : p.owner = o /\ p.chain = w.chain => w.seq < p.seq \/ {w.by, p.by} \in overlap'
  BY <1>3, NewRows DEF Overlapped
<1>5. \E x \in hot' : /\ x.owner = o /\ x.chain \in EVMBlockchains
                      /\ \A p \in processing' : p.owner = o /\ p.chain = x.chain =>
                            x.seq < p.seq \/ {x.by, p.by} \in overlap'
  BY <1>1, <1>2, <1>4
<1> QED
  BY <1>5 DEF HotFirst, FindProcessing, Overlapped

\* The hot wallet that a call adds makes its owner one whose hot wallet came
\* first, where its sequence is not above that of the processing wallet.
LEMMA AddedHot ==
    ASSUME SharedInv, NEW r \in Request, AddsHot(r), NEW x, x = call[r].row
    PROVE  /\ x.chain \in EVMBlockchains /\ x.seq = 0 => HotFirst(x.owner)'
           /\ \A p \in processing : SameChain(x, p) /\ x.seq = p.seq =>
                 Overlapped(x, p) \/ (x.chain \in EVMBlockchains /\ HotFirst(x.owner)')
<1> USE DEF SharedInv, KeyTypeInv
<1>1. RequestMoves(r) /\ x \in hot' /\ processing' = processing /\ overlap' = overlap /\ x \in HotRows
  BY AddsHotMakes DEF RequestMoves, AddsHot, HotMade
<1>2. Fresh(x) \/ Borrowed(x)
  BY DEF SequenceInv, AddsHot
<1>3. \A p \in processing : p \in ProcessingRows
  BY DEF TypeInv, WalletsTypeOK
<1>4. ASSUME x.chain \in EVMBlockchains, x.seq = 0 PROVE HotFirst(x.owner)'
  <2>1. CASE Fresh(x)
    <3>1. \A p \in processing' : p.owner = x.owner /\ p.chain = x.chain => Overlapped(x, p)
      <4> SUFFICES ASSUME NEW p \in processing, p.owner = x.owner, p.chain = x.chain PROVE Overlapped(x, p)
        BY <1>1
      <4>1. p.seq < 0 \/ Overlapped(p, x)
        BY <1>4, <2>1 DEF Fresh, SameChain
      <4>2. p.seq \in Nat
        BY <1>3 DEF ProcessingRows
      <4> QED
        BY <4>1, <4>2, OverlapIsSymmetric
    <3>2. \A p \in processing' : p.owner = x.owner /\ p.chain = x.chain => {x.by, p.by} \in overlap'
      BY <1>1, <3>1 DEF Overlapped
    <3> QED
      BY <1>1, <1>4, <3>2 DEF HotFirst, FindProcessing, Overlapped
  <2>2. CASE Borrowed(x)
    <3>1. HotFirst(x.owner)
      BY <1>4, <2>2 DEF Borrowed, SequenceInv
    <3> QED
      BY <1>1, <3>1, HotFirstStays
  <2> QED
    BY <1>2, <2>1, <2>2
<1>5. ASSUME NEW p \in processing, SameChain(x, p), x.seq = p.seq
      PROVE  Overlapped(x, p) \/ (x.chain \in EVMBlockchains /\ HotFirst(x.owner)')
  <2>0. p.seq \in Nat
    BY <1>3 DEF ProcessingRows
  <2>1. CASE Fresh(x)
    BY <1>5, <2>0, <2>1, OverlapIsSymmetric DEF Fresh, SameChain
  <2>2. CASE Borrowed(x) /\ x.seq = 0
    BY <1>4, <2>2 DEF Borrowed
  <2>3. CASE Borrowed(x) /\ x.seq > 0
    <3>1. PICK h \in hot : SameChain(h, p) /\ h.seq < p.seq
      BY <1>5, <2>3 DEF SequenceInv, Above
    <3>2. x.chain \in EVMBlockchains
      BY <2>3 DEF Borrowed
    <3>3. h.owner = x.owner /\ h.chain = x.chain
      BY <1>5, <3>1 DEF SameChain
    <3>4. \A q \in FindProcessing(x.owner, h.chain) : h.seq < q.seq \/ Overlapped(h, q)
      BY <1>5, <3>1, <3>3 DEF FindProcessing, ProcessingUnique, SameChain
    <3>5. HotFirst(x.owner)
      BY <3>2, <3>3, <3>4 DEF HotFirst
    <3> QED
      BY <1>1, <3>2, <3>5, HotFirstStays
  <2> QED
    BY <1>2, <1>5, <2>0, <2>1, <2>2, <2>3
<1> QED
  BY <1>4, <1>5

LEMMA RowsStep ==
    ASSUME SharedInv, NEW r \in Request, RequestMoves(r)
    PROVE  /\ \A p \in processing' : Above(p)'
           /\ \A x \in hot' : x.chain \in EVMBlockchains /\ x.seq = 0 => HotFirst(x.owner)'
           /\ \A x \in hot', p \in processing' : SameChain(x, p) /\ x.seq = p.seq =>
                 Overlapped(x, p)' \/ (x.chain \in EVMBlockchains /\ HotFirst(x.owner)')
<1> USE DEF SharedInv, KeyTypeInv
<1>1. ASSUME NEW p \in processing' PROVE Above(p)'
  <2>1. p \in processing \/ (AddsMissing(r) /\ p = call[r].row) => Above(p)
    BY DEF SequenceInv, AddsMissing
  <2>2. Commits(r) /\ p \in call[r].rows => p.seq = 0
    BY Committed
  <2>3. Above(p) => Above(p)'
    BY NewRows DEF Above
  <2> QED
    BY <2>1, <2>2, <2>3, NewRows DEF Above
<1>2. ASSUME NEW x \in hot', x.chain \in EVMBlockchains, x.seq = 0 PROVE HotFirst(x.owner)'
  <2>1. CASE x \in hot
    BY <1>2, <2>1, HotFirstStays DEF SequenceInv
  <2>2. CASE AddsHot(r) /\ x = call[r].row
    BY <1>2, <2>2, AddedHot
  <2> QED
    BY <2>1, <2>2, NewRows
<1>3. ASSUME NEW x \in hot', NEW p \in processing', SameChain(x, p), x.seq = p.seq
      PROVE  Overlapped(x, p)' \/ (x.chain \in EVMBlockchains /\ HotFirst(x.owner)')
  <2>0. Overlapped(x, p) => Overlapped(x, p)'
    BY OverlapGrows
  <2>1. CASE x \in hot /\ p \in processing
    BY <1>3, <2>0, <2>1, HotFirstStays DEF SequenceInv
  <2>2. CASE AddsHot(r) /\ x = call[r].row
    <3>1. processing' = processing
      BY <2>2 DEF AddsHot
    <3> QED
      BY <1>3, <2>0, <2>2, <3>1, AddedHot
  <2>3. CASE AddsMissing(r) /\ p = call[r].row
    <3>1. hot' = hot /\ x \in HotRows
      BY <2>3 DEF AddsMissing, TypeInv, WalletsTypeOK
    <3>2. x.seq < p.seq \/ Overlapped(x, p)
      BY <1>3, <2>3, <3>1 DEF AddsMissing, SequenceInv
    <3>3. x.seq \in Nat
      BY <3>1 DEF HotRows
    <3> QED
      BY <1>3, <2>0, <3>2, <3>3
  <2>4. CASE Commits(r) /\ p \in call[r].rows
    <3>1. hot' = hot
      BY <2>4 DEF Commits
    <3> QED
      BY <1>3, <2>4, <3>1, Committed DEF SameChain
  <2> QED
    BY <2>1, <2>2, <2>3, <2>4, NewRows
<1> QED
  BY <1>1, <1>2, <1>3

\* The wallets that calls have ready.
LEMMA MissingReady ==
    ASSUME SharedInv, NEW r \in Request, RequestMoves(r), NEW q \in Request,
           call'[q].kind = "missing", call'[q].pc = "insert"
    PROVE  /\ call'[q].row.seq > 0 =>
                 \E h \in hot' : SameChain(h, call'[q].row) /\ h.seq < call'[q].row.seq
           /\ \A x \in hot' : SameChain(x, call'[q].row) =>
                 x.seq < call'[q].row.seq \/ {x.by, call'[q].row.by} \in overlap'
<1> USE DEF SharedInv, KeyTypeInv
<1>1. CASE q = r
  <2>1. LooksUp(r)
    BY <1>1, CallTypes
  <2>2. PICK y \in call[r].todo :
          /\ call'[r].row.owner = y[1] /\ call'[r].row.chain = y[2]
          /\ call'[r].row.seq = MaxSequence(y[1], y[2]) + 1
    BY <2>1, LooksUpMakes
  <2>3. hot' = hot /\ FindProcessing(y[1], y[2]) = {}
    BY <2>1 DEF LooksUp, Tables, MissingInv
  <2>4. /\ MaxSequence(y[1], y[2]) \in Nat \cup {-1}
        /\ \A w \in FindHot(y[1], y[2]) : w.seq <= MaxSequence(y[1], y[2])
        /\ MaxSequence(y[1], y[2]) # -1 => \E w \in FindHot(y[1], y[2]) : w.seq = MaxSequence(y[1], y[2])
    BY <2>3, SequenceIsHighest DEF TypeInv
  <2>5. \A x \in hot : x.seq \in Nat
    BY DEF TypeInv, WalletsTypeOK, HotRows
  <2>6. ASSUME NEW x \in hot, SameChain(x, call'[r].row) PROVE x.seq < call'[r].row.seq
    <3>1. x \in FindHot(y[1], y[2])
      BY <2>2, <2>6 DEF SameChain, FindHot
    <3>2. x.seq <= MaxSequence(y[1], y[2]) /\ x.seq \in Nat
      BY <2>4, <2>5, <3>1
    <3> QED
      BY <2>2, <2>4, <3>2
  <2>7. call'[r].row.seq > 0 => \E h \in hot : SameChain(h, call'[r].row) /\ h.seq < call'[r].row.seq
    <3> SUFFICES ASSUME call'[r].row.seq > 0
                 PROVE  \E h \in hot : SameChain(h, call'[r].row) /\ h.seq < call'[r].row.seq
      OBVIOUS
    <3>1. MaxSequence(y[1], y[2]) # -1
      BY <2>2
    <3>2. PICK h \in FindHot(y[1], y[2]) : h.seq = MaxSequence(y[1], y[2])
      BY <2>4, <3>1
    <3>3. h \in hot /\ SameChain(h, call'[r].row)
      BY <2>2, <3>2 DEF FindHot, SameChain
    <3> QED
      BY <2>6, <3>3
  <2> QED
    BY <1>1, <2>3, <2>6, <2>7
<1>2. CASE q # r
  <2>1. call'[q] = call[q]
    BY <1>2, OthersStay DEF TypeInv
  <2>2. /\ Above(call[q].row)
        /\ \A x \in hot : SameChain(x, call[q].row) => x.seq < call[q].row.seq \/ Overlapped(x, call[q].row)
    BY <2>1 DEF SequenceInv
  <2>3. call'[q].row.seq > 0 => \E h \in hot' : SameChain(h, call'[q].row) /\ h.seq < call'[q].row.seq
    BY <2>1, <2>2, NewRows DEF Above
  <2>4. call[q].row.by = q /\ Running(q)
    BY <2>1, CallStateOf DEF ByInv, TypeInv
  <2>5. \A x \in hot' : x \in hot \/ Overlapped(x, call[q].row)
    BY <1>2, <2>4, MadeMeanwhile
  <2>6. \A x : Overlapped(x, call[q].row) => {x.by, call'[q].row.by} \in overlap'
    BY <2>1, NewRows DEF Overlapped
  <2>7. \A x \in hot' : SameChain(x, call'[q].row) =>
           x.seq < call'[q].row.seq \/ {x.by, call'[q].row.by} \in overlap'
    BY <2>1, <2>2, <2>5, <2>6
  <2> QED
    BY <2>3, <2>7
<1> QED
  BY <1>1, <1>2

LEMMA HotReady ==
    ASSUME SharedInv, NEW r \in Request, RequestMoves(r), NEW q \in Request,
           call'[q].kind = "hot", call'[q].pc \in {"evm", "insert"}
    PROVE  \/ \A p \in processing' : SameChain(p, call'[q].row) =>
                 p.seq < call'[q].row.seq \/ {p.by, call'[q].row.by} \in overlap'
           \/ /\ call'[q].row.chain \in EVMBlockchains
              /\ \E w \in hot' : /\ w.chain \in EVMBlockchains /\ w.owner = call'[q].row.owner
                                 /\ w.seq = call'[q].row.seq
<1> USE DEF SharedInv, KeyTypeInv
<1>1. CASE q = r /\ Derives(r)
  <2> DEFINE o == call[r].owner
             b == call[r].chain
  <2>1. /\ call'[r].row.owner = o /\ call'[r].row.chain = b
        /\ call'[r].row.seq = MaxSequence(o, b) + 1
    BY <1>1, DerivesMakes
  <2>2. processing' = processing
    BY <1>1 DEF Derives, Tables
  <2>3. /\ MaxSequence(o, b) \in Nat \cup {-1}
        /\ \A w \in FindProcessing(o, b) : w.seq <= MaxSequence(o, b)
    BY SequenceIsHighest DEF TypeInv
  <2>4. \A x \in processing : x.seq \in Nat
    BY DEF TypeInv, WalletsTypeOK, ProcessingRows
  <2>5. \A p \in processing : SameChain(p, call'[r].row) => p \in FindProcessing(o, b)
    BY <2>1 DEF SameChain, FindProcessing
  <2> HIDE DEF o, b
  <2>6. \A p \in processing : SameChain(p, call'[r].row) => p.seq < call'[r].row.seq
    BY <2>1, <2>3, <2>4, <2>5
  <2> QED
    BY <1>1, <2>2, <2>6
<1>2. CASE q = r /\ Borrows(r)
  <2>1. /\ hot' = hot /\ processing' = processing /\ overlap' = overlap
        /\ call[r].kind = "hot" /\ call[r].pc = "evm"
    BY <1>2 DEF Borrows, Tables
  <2>2. Fresh(call[r].row) \/ Borrowed(call[r].row)
    BY <2>1 DEF SequenceInv
  <2>3. CASE call'[r].row = call[r].row
    BY <1>2, <2>1, <2>2, <2>3 DEF Fresh, Borrowed, Overlapped
  <2>4. ASSUME NEW w \in FindEVMByExternalID(call[r].row.owner, call[r].row.ext), call'[r].row.seq = w.seq
        PROVE  /\ call'[q].row.chain \in EVMBlockchains
               /\ \E x \in hot' : /\ x.chain \in EVMBlockchains /\ x.owner = call'[q].row.owner
                                  /\ x.seq = call'[q].row.seq
    <3>1. w \in hot /\ w.owner = call[r].row.owner /\ w.chain \in EVMBlockchains
      BY DEF FindEVMByExternalID
    <3>2. call[r].row.chain \in EVMBlockchains
      BY <2>1 DEF KeyInv
    <3> QED
      BY <1>2, <2>1, <2>4, <3>1, <3>2, BorrowsMakes
  <2> QED
    BY <1>2, <2>3, <2>4, BorrowsMakes
<1>3. CASE q # r
  <2>1. call'[q] = call[q]
    BY <1>3, OthersStay DEF TypeInv
  <2>2. Fresh(call[q].row) \/ Borrowed(call[q].row)
    BY <2>1 DEF SequenceInv
  <2>3. call[q].row.by = q /\ Running(q)
    BY <2>1, CallStateOf DEF ByInv, TypeInv
  <2>4. \A p \in processing' : p \in processing \/ Overlapped(p, call[q].row)
    BY <1>3, <2>3, MadeMeanwhile
  <2>5. \A p : Overlapped(p, call[q].row) => {p.by, call'[q].row.by} \in overlap'
    BY <2>1, NewRows DEF Overlapped
  <2>6. CASE Fresh(call[q].row)
    BY <2>1, <2>4, <2>5, <2>6 DEF Fresh
  <2>7. CASE Borrowed(call[q].row)
    BY <2>1, <2>7, NewRows DEF Borrowed
  <2> QED
    BY <2>2, <2>6, <2>7
<1> QED
  BY <1>1, <1>2, <1>3, CallTypes

LEMMA SequenceStep ==
    ASSUME SharedInv, NEW r \in Request, RequestMoves(r)
    PROVE  SequenceInv'
<1>1. \A q \in Request : call'[q].kind = "missing" /\ call'[q].pc = "insert" =>
         /\ call'[q].row.seq > 0 => \E h \in hot' : SameChain(h, call'[q].row) /\ h.seq < call'[q].row.seq
         /\ \A x \in hot' : SameChain(x, call'[q].row) =>
               x.seq < call'[q].row.seq \/ {x.by, call'[q].row.by} \in overlap'
  BY MissingReady
<1>2. \A q \in Request : call'[q].kind = "hot" /\ call'[q].pc \in {"evm", "insert"} =>
         \/ \A p \in processing' : SameChain(p, call'[q].row) =>
               p.seq < call'[q].row.seq \/ {p.by, call'[q].row.by} \in overlap'
         \/ /\ call'[q].row.chain \in EVMBlockchains
            /\ \E w \in hot' : /\ w.chain \in EVMBlockchains /\ w.owner = call'[q].row.owner
                               /\ w.seq = call'[q].row.seq
  BY HotReady
<1>3. /\ \A p \in processing' : p.seq > 0 => \E h \in hot' : SameChain(h, p) /\ h.seq < p.seq
      /\ \A x \in hot' : x.chain \in EVMBlockchains /\ x.seq = 0 => HotFirst(x.owner)'
      /\ \A x \in hot', p \in processing' : SameChain(x, p) /\ x.seq = p.seq =>
            {x.by, p.by} \in overlap' \/ (x.chain \in EVMBlockchains /\ HotFirst(x.owner)')
  BY RowsStep DEF Above, SameChain, Overlapped
<1> QED
  BY <1>1, <1>2, <1>3 DEF SequenceInv, Above, Fresh, Borrowed, SameChain, Overlapped

(***************************************************************************)
(* The steps that are of no call                                           *)
(***************************************************************************)

Like(v, w) ==
    v.owner = w.owner /\ v.chain = w.chain /\ v.address = w.address /\ v.seq = w.seq /\ v.by = w.by

LEMMA RelabelsKeep ==
    ASSUME Relabels
    PROVE  /\ \A w \in hot' : \E v \in hot : Like(v, w)
           /\ \A v \in hot : \E w \in hot' : Like(v, w)
           /\ HotUnique => HotUnique'
           /\ UNCHANGED <<owners, processing, call, overlap, checked>>
<1>1. PICK f \in [hot -> HotRows] :
         /\ hot' = {f[w] : w \in hot}
         /\ \A w \in hot : /\ f[w].owner = w.owner /\ f[w].chain = w.chain
                           /\ f[w].address = w.address /\ f[w].seq = w.seq /\ f[w].by = w.by
  BY DEF Relabels
<1>2. \A w \in hot : Like(w, f[w])
  BY <1>1 DEF Like
<1>3. HotUnique => HotUnique'
  <2> SUFFICES ASSUME HotUnique, NEW v \in hot, NEW w \in hot,
                      f[v].owner = f[w].owner, f[v].chain = f[w].chain, f[v].address = f[w].address
               PROVE  f[v] = f[w]
    BY <1>1 DEF HotUnique
  <2> QED
    BY <1>1 DEF HotUnique
<1> QED
  BY <1>1, <1>2, <1>3 DEF Relabels

LEMMA WithoutHot ==
    ASSUME SharedInv, UNCHANGED <<owners, processing, call, overlap, checked>>
    PROVE  /\ OverlapInv' /\ ByInv' /\ NewOwnerInv' /\ MissingInv'
           /\ ProcessingUnique' /\ SeedsApart' /\ PendingApart'
<1> USE DEF SharedInv
<1>1. OverlapInv' /\ ByInv'
  BY DEF OverlapInv, ByInv, Running
<1>2. NewOwnerInv'
  BY DEF NewOwnerInv
<1>3. MissingInv'
  BY DEF MissingInv, FindProcessing
<1>4. ProcessingUnique' /\ SeedsApart' /\ PendingApart'
  BY DEF ProcessingUnique, SeedsApart, PendingApart, Overlapped
<1> QED
  BY <1>1, <1>2, <1>3, <1>4

LEMMA RelabelsStep ==
    ASSUME SharedInv, Relabels
    PROVE  OwnedInv' /\ HotUnique' /\ SequenceInv'
<1> USE DEF SharedInv, Like
<1>1. OwnedInv'
  BY RelabelsKeep DEF OwnedInv, FindProcessing
<1>2. ASSUME NEW o, HotFirst(o) PROVE HotFirst(o)'
  <2>1. PICK w \in hot : /\ w.owner = o /\ w.chain \in EVMBlockchains
                         /\ \A p \in FindProcessing(o, w.chain) : w.seq < p.seq \/ Overlapped(w, p)
    BY <1>2 DEF HotFirst
  <2>2. PICK x \in hot' : Like(w, x)
    BY RelabelsKeep
  <2>3. processing' = processing /\ overlap' = overlap
    BY RelabelsKeep
  <2> QED
    BY <2>1, <2>2, <2>3 DEF HotFirst, FindProcessing, Overlapped
<1>3. \A p : Above(p) => Above(p)'
  BY RelabelsKeep DEF Above, SameChain
<1>4. processing' = processing /\ overlap' = overlap /\ call' = call
  BY RelabelsKeep
<1>5. \A p \in processing' : Above(p)'
  BY <1>3, <1>4 DEF SequenceInv
<1>6. \A x \in hot' : x.chain \in EVMBlockchains /\ x.seq = 0 => HotFirst(x.owner)'
  BY <1>2, RelabelsKeep DEF SequenceInv
<1>7. \A x \in hot', p \in processing' : SameChain(x, p) /\ x.seq = p.seq =>
            {x.by, p.by} \in overlap' \/ (x.chain \in EVMBlockchains /\ HotFirst(x.owner)')
  <2> SUFFICES ASSUME NEW x \in hot', NEW p \in processing, SameChain(x, p), x.seq = p.seq
               PROVE  {x.by, p.by} \in overlap \/ (x.chain \in EVMBlockchains /\ HotFirst(x.owner)')
    BY <1>4
  <2>1. PICK v \in hot : Like(v, x)
    BY RelabelsKeep
  <2>2. {v.by, p.by} \in overlap \/ (v.chain \in EVMBlockchains /\ HotFirst(v.owner))
    BY <2>1 DEF SequenceInv, SameChain, Overlapped
  <2> QED
    BY <1>2, <2>1, <2>2
<1>8. ASSUME NEW q \in Request, call[q].kind = "missing", call[q].pc = "insert"
      PROVE  /\ call[q].row.seq > 0 => \E h \in hot' : SameChain(h, call[q].row) /\ h.seq < call[q].row.seq
             /\ \A x \in hot' : SameChain(x, call[q].row) =>
                   x.seq < call[q].row.seq \/ {x.by, call[q].row.by} \in overlap
  <2>1. /\ Above(call[q].row)
        /\ \A x \in hot : SameChain(x, call[q].row) => x.seq < call[q].row.seq \/ Overlapped(x, call[q].row)
    BY <1>8 DEF SequenceInv
  <2> QED
    BY <2>1, RelabelsKeep DEF Above, SameChain, Overlapped
<1>9. ASSUME NEW q \in Request, call[q].kind = "hot", call[q].pc \in {"evm", "insert"}
      PROVE  \/ \A p \in processing : SameChain(p, call[q].row) =>
                   p.seq < call[q].row.seq \/ {p.by, call[q].row.by} \in overlap
             \/ /\ call[q].row.chain \in EVMBlockchains
                /\ \E w \in hot' : /\ w.chain \in EVMBlockchains /\ w.owner = call[q].row.owner
                                   /\ w.seq = call[q].row.seq
  <2>1. Fresh(call[q].row) \/ Borrowed(call[q].row)
    BY <1>9 DEF SequenceInv
  <2> QED
    BY <2>1, RelabelsKeep DEF Fresh, Borrowed, Overlapped
<1>10. SequenceInv'
  BY <1>4, <1>5, <1>6, <1>7, <1>8, <1>9 DEF SequenceInv, Above, Fresh, Borrowed, SameChain, Overlapped
<1> QED
  BY <1>1, <1>10, RelabelsKeep

LEMMA RestsStep ==
    ASSUME SharedInv, UNCHANGED <<owners, hot, processing, call, overlap, checked>>
    PROVE  OwnedInv' /\ HotUnique' /\ SequenceInv'
<1> USE DEF SharedInv
<1>1. OwnedInv'
  BY DEF OwnedInv, FindProcessing
<1>2. HotUnique'
  BY DEF HotUnique
<1>3. \A o : HotFirst(o)' <=> HotFirst(o)
  BY DEF HotFirst, FindProcessing, Overlapped
<1>4. SequenceInv'
  BY <1>3 DEF SequenceInv, Above, Fresh, Borrowed, SameChain, Overlapped
<1> QED
  BY <1>1, <1>2, <1>4

LEMMA SharedInit == Init => SharedInv
<1> SUFFICES ASSUME Init PROVE SharedInv
  OBVIOUS
<1>1. KeyTypeInv
  BY KeyInit, TypeInvInit DEF KeyTypeInv
<1>2. /\ hot = {} /\ owners = Existing
      /\ \A r \in Request : call[r].kind = "none" /\ ~Running(r)
  BY DEF Init, Idle, Running
<1>3. \A w : w \in processing <=> \E o \in Existing, b \in Blockchain \ Upgraded :
         w = ProcessingRow(o, b, AddressWallet(b, AddressTypeByBlockchain(b), Seed[o], 0), 0, "init")
  BY DEF Init
<1>4. \A w \in processing : w.owner \in Existing /\ w.seq = 0
  BY <1>3 DEF ProcessingRow
<1>5. \A v, w \in processing : v.owner = w.owner /\ v.chain = w.chain => v = w
  BY <1>3 DEF ProcessingRow
<1>6. ASSUME NEW o \in Existing, NEW b \in Blockchain, b \notin Upgraded
      PROVE  \E w \in processing : w.owner = o /\ w.chain = b
  <2> DEFINE x == ProcessingRow(o, b, AddressWallet(b, AddressTypeByBlockchain(b), Seed[o], 0), 0, "init")
  <2>1. x \in processing
    <3>1. b \in Blockchain \ Upgraded
      BY <1>6
    <3> QED
      BY <3>1 DEF Init
  <2>2. x.owner = o /\ x.chain = b
    BY DEF ProcessingRow
  <2> QED
    BY <2>1, <2>2
<1>7. OverlapInv /\ ByInv /\ NewOwnerInv /\ MissingInv /\ PendingApart
  BY <1>2 DEF OverlapInv, ByInv, NewOwnerInv, MissingInv, PendingApart
<1>8. OwnedInv
  BY <1>2, <1>4, <1>6 DEF OwnedInv, FindProcessing
<1>9. ProcessingUnique /\ HotUnique
  BY <1>2, <1>5 DEF ProcessingUnique, HotUnique
<1>10. SeedsApart
  BY <1>4, ExistingAssumption DEF SeedsApart
<1>11. SequenceInv
  BY <1>2, <1>4 DEF SequenceInv, Above
<1> QED
  BY <1>1, <1>7, <1>8, <1>9, <1>10, <1>11 DEF SharedInv

LEMMA SharedStep == SharedInv /\ [Next]_vars => SharedInv'
<1> SUFFICES ASSUME SharedInv, [Next]_vars PROVE SharedInv'
  OBVIOUS
<1>0. TypeInv /\ KeyInv /\ WalletsTypeOK
  BY DEF SharedInv, KeyTypeInv, TypeInv
<1>1. KeyTypeInv'
  BY KeyTypeStep DEF SharedInv
<1>2. ASSUME NEW r \in Request, RequestMoves(r) PROVE SharedInv'
  <2>1. OverlapInv' /\ ByInv' /\ OwnedInv' /\ NewOwnerInv' /\ MissingInv'
    BY <1>0, <1>2, OverlapStep, ByStep, OwnedStep, NewOwnerStep, MissingStep DEF SharedInv
  <2>2. ProcessingUnique' /\ HotUnique' /\ SeedsApart' /\ PendingApart' /\ SequenceInv'
    BY <1>2, UniqueStep, SeedsStep, PendingStep, SequenceStep
  <2> QED
    BY <1>1, <2>1, <2>2 DEF SharedInv
<1>3. CASE Relabels
  BY <1>1, <1>3, WithoutHot, RelabelsStep DEF SharedInv, Relabels
<1>4. CASE UNCHANGED <<owners, hot, processing, call, overlap, checked>>
  BY <1>1, <1>4, WithoutHot, RestsStep DEF SharedInv
<1>5. CASE Next
  BY <1>0, <1>2, <1>3, <1>4, <1>5, WalletMoves DEF Rests
<1>6. CASE UNCHANGED vars
  BY <1>4, <1>6 DEF vars, tables, begun
<1> QED
  BY <1>5, <1>6

\* Everyone who is an owner has a processing wallet, where a chain is enabled.
LEMMA OwnersHaveWallets ==
    ASSUME SharedInv, NEW o \in owners, Blockchain # {}
    PROVE  \E p \in processing : p.owner = o
<1>1. CASE o \in Existing
  BY <1>1, OlderWallet DEF SharedInv
<1>2. CASE o \notin Existing
  <2>1. PICK b \in Blockchain : TRUE
    OBVIOUS
  <2> QED
    BY <1>2, <2>1 DEF SharedInv, OwnedInv, FindProcessing
<1> QED
  BY <1>1, <1>2

\* One address is of one seed and one sequence.
LEMMA SameAddress ==
    ASSUME KeyTypeInv, NEW v \in hot \cup processing, NEW w \in hot \cup processing,
           v.chain = w.chain, v.address = w.address
    PROVE  Seed[v.owner] = Seed[w.owner] /\ v.seq = w.seq
<1>1. PICK t \in TypesOf(v.chain) : v.address = AddressWallet(v.chain, t, Seed[v.owner], v.seq)
  BY EveryRowIsDerived DEF Derived
<1>2. PICK u \in TypesOf(w.chain) : w.address = AddressWallet(w.chain, u, Seed[w.owner], w.seq)
  BY EveryRowIsDerived DEF Derived
<1>3. v.address.key = KeyFor(v.chain, t, Seed[v.owner], v.seq)
  <2>1. v.address = [network |-> Network(v.chain), type |-> t, key |-> KeyFor(v.chain, t, Seed[v.owner], v.seq)]
    BY <1>1, AddressForm, EveryRowIsDerived
  <2> QED
    BY <2>1
<1>4. w.address.key = KeyFor(w.chain, u, Seed[w.owner], w.seq)
  <2>1. w.address = [network |-> Network(w.chain), type |-> u, key |-> KeyFor(w.chain, u, Seed[w.owner], w.seq)]
    BY <1>2, AddressForm, EveryRowIsDerived
  <2> QED
    BY <2>1
<1>5. /\ v.address.key.seed = Seed[v.owner] /\ v.address.key.n = v.seq
      /\ w.address.key.seed = Seed[w.owner] /\ w.address.key.n = w.seq
  BY <1>3, <1>4 DEF KeyFor, Key
<1> QED
  BY <1>5

\* On one chain an address belongs to one wallet, but for calls that ran at the
\* same time and for the shifted sequences of an EVM chain where a hot wallet came
\* first: the owners, chains and seeds, and the calls in flight, are any.
THEOREM AddressesAreNotShared == Spec => []AddressesNotShared
<1>1. ASSUME SharedInv PROVE AddressesNotShared
  <2> USE <1>1
  <2> SUFFICES ASSUME NEW v \in hot \cup processing, NEW w \in hot \cup processing,
                      v # w, v.chain = w.chain, v.address = w.address
               PROVE  \/ Overlapped(v, w)
                      \/ \E p, q \in processing :
                           p.owner = v.owner /\ q.owner = w.owner /\ v.owner # w.owner /\ Overlapped(p, q)
                      \/ v.chain \in EVMBlockchains /\ HotFirst(v.owner)
    BY DEF AddressesNotShared
  <2>1. Seed[v.owner] = Seed[w.owner] /\ v.seq = w.seq
    BY SameAddress DEF SharedInv
  <2>2. CASE v.owner # w.owner
    <3>1. v.owner \in owners /\ w.owner \in owners /\ v.chain \in Blockchain
      BY DEF SharedInv, OwnedInv, KeyTypeInv, TypeInv, WalletsTypeOK, HotRows, ProcessingRows
    <3>2. PICK p \in processing : p.owner = v.owner
      BY <3>1, OwnersHaveWallets
    <3>3. PICK q \in processing : q.owner = w.owner
      BY <3>1, OwnersHaveWallets
    <3>4. Overlapped(p, q)
      BY <2>1, <2>2, <3>2, <3>3 DEF SharedInv, SeedsApart
    <3> QED
      BY <2>2, <3>2, <3>3, <3>4
  <2>3. CASE v.owner = w.owner
    <3>1. ~(v \in hot /\ w \in hot)
      BY <2>3 DEF SharedInv, HotUnique
    <3>2. ~(v \in processing /\ w \in processing)
      BY <2>3 DEF SharedInv, ProcessingUnique
    <3>3. SameChain(v, w) /\ SameChain(w, v)
      BY <2>3 DEF SameChain
    <3>4. CASE v \in hot /\ w \in processing
      BY <2>1, <3>3, <3>4 DEF SharedInv, SequenceInv
    <3>5. CASE w \in hot /\ v \in processing
      BY <2>1, <2>3, <3>3, <3>5, OverlapIsSymmetric DEF SharedInv, SequenceInv
    <3> QED
      BY <3>1, <3>2, <3>4, <3>5
  <2> QED
    BY <2>2, <2>3
<1>2. SharedInv => AddressesNotShared
  BY <1>1
<1> QED
  BY <1>2, SharedInit, SharedStep, PTL DEF Spec

=============================================================================
