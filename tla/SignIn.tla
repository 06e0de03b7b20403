------------------------------- MODULE SignIn -------------------------------
(***************************************************************************)
(* Local sign-in and the self-service management of its factors:           *)
(* password, then TOTP or a recovery code (handle_auth_password.go); a     *)
(* passkey (handle_auth.go); step-up (handle_sudo.go); and the /me         *)
(* handlers that add, replace and remove factors.  An attempt that ends    *)
(* before it changed anything is no step.                                  *)
(***************************************************************************)
EXTENDS Directory, Sequences

CONSTANTS
    Tokens,       \* ceremony tokens
    Drift,        \* TOTP steps accepted on either side of the current one
    Schedule,     \* lockout after the n-th failure in a row
    CeremonyTTL,  \* lifetime of a partial session, ceremony or sudo intent
    MaxBegun,     \* bound: sudo intents of a session that bought nothing
    MaxSign       \* bound: signature counters are 0..MaxSign

ASSUME SignInAssumption ==
    /\ Drift \in Nat /\ Schedule \in Seq(Nat) /\ Schedule # <<>>
    /\ CeremonyTTL \in Nat \ {0} /\ MaxBegun \in Nat /\ MaxSign \in Nat

VARIABLES
    throttle,  \* auth_throttle, per account and factor
    partial,   \* KV partial_session:<token>
    ceremony,  \* KV webauthn_ceremony:login:<token>
    intent,    \* KV sudo_intent:<session>
    challenge, \* KV webauthn_ceremony:sudo:<session>
    adding,    \* KV webauthn_ceremony:add:<session>
    minted,    \* ceremony tokens handed out
    uses,      \* history: codes the current authenticator got accepted, how often
    spent,     \* history: how often a recovery code was redeemed
    redeemed,  \* history: sign-ins completed with a partial session or ceremony
    owed,      \* history: sudo intents stored less sudo grants
    overrun,   \* history: failures counted while the factor was locked
    retired,   \* history: passwords the account replaced or removed
    revived    \* history: retired passwords a rehash wrote back

stashes == <<partial, ceremony, intent, challenge, adding, minted>>
signInHistory == <<uses, spent, redeemed, owed, overrun, retired, revived>>
signInVars == <<throttle, stashes, signInHistory>>

Factors == {"password", "totp", "recovery_code"}
NoRow == [n |-> 0, until |-> 0]
\* Codes an authenticator computes, and one that is none.
Steps == 1..(MaxClock + Drift)
Codes == [sec : Secrets, step : Steps] \cup {NoCode}

Blank == [op |-> "none", a |-> None, s |-> 1, tok |-> None, pwd |-> None,
          row |-> NoPw, code |-> NoCode, cred |-> NoTotp, ok |-> TRUE, rc |-> 0,
          k |-> None, n |-> 0, seen |-> {}]

SignInPcs == {"pwVerify", "totpGet", "totpUpdate", "totpDone", "rcTx", "rcDone",
              "keyUse", "addDel", "regenTx", "regenCommit"}

Finish(p) == Goto(p, "idle") /\ Set(p, Blank)

SignInInit ==
    /\ throttle = [x \in Accounts \X Factors |-> NoRow]
    /\ ceremony = [t \in Tokens |-> NoEntry]
    /\ intent = [s \in Sids |-> NoEntry] /\ challenge = [s \in Sids |-> NoEntry]
    /\ adding = [s \in Sids |-> NoEntry]
    /\ uses = [a \in Accounts |-> [c \in Codes |-> 0]]
    /\ spent = [c \in 1..MaxCode |-> 0] /\ redeemed = [t \in Tokens |-> 0]
    /\ owed = [s \in Sids |-> 0] /\ overrun = [x \in Accounts \X Factors |-> 0]
    /\ retired = [a \in Accounts |-> {}] /\ revived = [a \in Accounts |-> {}]

-----------------------------------------------------------------------------
(* Throttle                                                                  *)

\* CheckLocked: locked_until lies in the future.
LockedNever(a, f) == FALSE
Locked(a, f) == clock < throttle[<<a, f>>].until

\* BumpAuthThrottle: one statement counts the failure and sets the lock of the
\* schedule's entry (the last one for all later failures; 0 is no lock).
BumpAuthThrottle(r) ==
    LET n == IF r.n < Len(Schedule) THEN r.n + 1 ELSE Len(Schedule)
    IN  [n |-> n, until |-> IF Schedule[n] > 0 THEN clock + Schedule[n] ELSE 0]

RegisterFailure(a, f) ==
    /\ throttle' = [throttle EXCEPT ![<<a, f>>] = BumpAuthThrottle(@)]
    /\ overrun' = [overrun EXCEPT ![<<a, f>>] = IF clock < throttle[<<a, f>>].until THEN @ + 1 ELSE 0]

\* ResetAuthThrottle: the row is deleted.
ResetThrottle(a, f) ==
    /\ throttle' = [throttle EXCEPT ![<<a, f>>] = NoRow]
    /\ overrun' = [overrun EXCEPT ![<<a, f>>] = 0]

-----------------------------------------------------------------------------
(* Password: the first factor of a sign-in, and of a step-up.                *)

PasswordBegin(p, a, v) ==
    /\ Idle(p, "password") /\ Enabled(a)
    /\ ~Locked(a, "password") /\ pw[a].val # None
    /\ Set(p, [Blank EXCEPT !.op = "signin", !.a = a, !.pwd = v, !.row = pw[a]])
    /\ Goto(p, "pwVerify")
    /\ UNCHANGED <<tables, signInVars>>

PasswordFails(p) ==
    /\ pc[p] = "pwVerify" /\ loc[p].pwd # loc[p].row.val
    /\ RegisterFailure(loc[p].a, "password")
    /\ Finish(p)
    /\ UNCHANGED <<tables, stashes, uses, spent,
                   redeemed, owed, retired, revived>>

\* A hash made with other parameters is replaced, whatever row is there by now.
Rehash(a, v) ==
    /\ pw' = [pw EXCEPT ![a] = IF @.val # None THEN [val |-> v, old |-> FALSE] ELSE @]
    /\ revived' = [revived EXCEPT ![a] =
                      IF pw[a].val # None THEN @ \cup ({v} \cap retired[a]) ELSE @]

PasswordVerified(p) ==
    /\ pc[p] = "pwVerify" /\ loc[p].pwd = loc[p].row.val
    /\ ResetThrottle(loc[p].a, "password")
    /\ IF loc[p].row.old THEN Rehash(loc[p].a, loc[p].pwd) ELSE UNCHANGED <<pw, revived>>
    /\ UNCHANGED <<totp, codes, nextCode, keys>>

PasswordCompletes(p, t) ==
    /\ PasswordVerified(p) /\ loc[p].op = "signin"
    /\ t \notin minted
    /\ minted' = minted \cup {t}
    /\ partial' = SetEx(partial, t, loc[p].a, CeremonyTTL, clock)
    /\ Finish(p)
    /\ UNCHANGED <<clock, ops, maint, acct, sess, federated, ceremony, intent, challenge,
                   adding, uses, spent, redeemed, owed, retired>>

PasswordSudo(p) ==
    /\ PasswordVerified(p) /\ loc[p].op = "sudo"
    /\ Goto(p, "totpGet") /\ UNCHANGED loc
    /\ UNCHANGED <<clock, ops, maint, acct, sess, federated, stashes, uses, spent, redeemed,
                   owed, retired>>

-----------------------------------------------------------------------------
(* TOTP                                                                      *)

\* Some step of the drift window computes the submitted code.
Window == (clock - Drift)..(clock + Drift)
Matches(code, sec) == code.sec = sec /\ code.step \in Window

\* Verify's reads: a locked factor or a missing credential ends the attempt.
TotpGet(p, l) ==
    IF ~Locked(l.a, "totp") /\ totp[l.a].sec # 0
    THEN /\ Set(p, [l EXCEPT !.cred = totp[l.a], !.ok = Matches(l.code, totp[l.a].sec)])
         /\ Goto(p, "totpUpdate")
    ELSE Finish(p)

\* consumePartialSession: an atomic get-and-delete.
PopPartialGet(t) == Found(partial, t, clock) /\ UNCHANGED partial
PopPartial(t) == Found(partial, t, clock) /\ partial' = Del(partial, t)

TotpVerify(p, t, c) ==
    /\ Idle(p, "totp") /\ PopPartial(t)
    /\ LET a == partial[t].val
           l == [Blank EXCEPT !.op = "signin", !.a = a, !.tok = t, !.code = c]
       IN  IF Enabled(a) THEN TotpGet(p, l) ELSE UNCHANGED frame
    /\ UNCHANGED <<tables, throttle, ceremony,
                   intent, challenge, adding, minted, signInHistory>>

TotpSudo(p) ==
    /\ pc[p] = "totpGet"
    /\ TotpGet(p, loc[p])
    /\ UNCHANGED <<tables, signInVars>>

\* UpdateTOTPLastStep: WHERE account_id = $1 AND $2 > last_step.
LastStepMovesUnguarded(a, step) == totp[a].sec # 0
LastStepMoves(a, step) == totp[a].sec # 0 /\ step > totp[a].last

TotpAccepted(p) == loc[p].ok /\ loc[p].code.step > loc[p].cred.last

TotpUpdate(p) ==
    /\ pc[p] = "totpUpdate" /\ TotpAccepted(p)
    /\ LastStepMoves(loc[p].a, loc[p].code.step)
    /\ totp' = [totp EXCEPT ![loc[p].a].last = loc[p].code.step]
    /\ uses' = [uses EXCEPT ![loc[p].a][loc[p].code] = @ + 1]
    /\ Goto(p, "totpDone") /\ UNCHANGED loc
    /\ UNCHANGED <<clock, ops, maint, acct, sess, pw, codes, nextCode, keys, federated,
                   throttle, stashes, spent, redeemed, owed, overrun, retired, revived>>

TotpFails(p) ==
    /\ pc[p] = "totpUpdate"
    /\ ~(TotpAccepted(p) /\ LastStepMoves(loc[p].a, loc[p].code.step))
    /\ RegisterFailure(loc[p].a, "totp")
    /\ Finish(p)
    /\ UNCHANGED <<tables, stashes, uses, spent,
                   redeemed, owed, retired, revived>>

\* The session of a completed sign-in, unless maintenance keeps the account out.
IssueUnlessLockedOut(a, t) ==
    IF MaintenanceLockout(a) THEN UNCHANGED <<sess, redeemed>>
    ELSE IssueSession(a) /\ redeemed' = [redeemed EXCEPT ![t] = @ + 1]

TotpSignsIn(p) ==
    /\ pc[p] = "totpDone" /\ loc[p].op = "signin"
    /\ ResetThrottle(loc[p].a, "totp")
    /\ IssueUnlessLockedOut(loc[p].a, loc[p].tok)
    /\ Finish(p)
    /\ UNCHANGED <<clock, ops, maint, acct, factors, federated, stashes, uses, spent, owed,
                   retired, revived>>

-----------------------------------------------------------------------------
(* Recovery codes: sec = 0 is a plain redemption, otherwise the authenticator *)
(* is replaced by sec in the transaction that redeems the code.               *)

RecoveryVerify(p, t, rc, c) ==
    /\ Idle(p, "recovery") /\ PopPartial(t)
    /\ LET a == partial[t].val
           ok == rc \in codes[a]
       IN  IF /\ Enabled(a) /\ ~MaintenanceLockout(a) /\ ~Locked(a, "recovery_code")
              /\ ok => c = NoCode \/ Matches(c, c.sec)
           THEN /\ Set(p, [Blank EXCEPT !.op = "signin", !.a = a, !.tok = t, !.rc = rc,
                                        !.code = IF ok THEN c ELSE NoCode, !.ok = ok])
                /\ Goto(p, "rcTx")
           ELSE UNCHANGED frame
    /\ UNCHANGED <<tables, throttle, ceremony,
                   intent, challenge, adding, minted, signInHistory>>

\* ConsumeRecoveryCode: WHERE id = $1 AND used_at IS NULL.
CodeUnusedUnchecked(a, rc) == TRUE
CodeUnused(a, rc) == rc \in codes[a]

RecoveryRedeem(p) ==
    LET a == loc[p].a
        c == loc[p].code
    IN  /\ pc[p] = "rcTx" /\ loc[p].ok /\ Enabled(a) /\ CodeUnused(a, loc[p].rc)
        /\ IF c.sec = 0
           THEN /\ codes' = [codes EXCEPT ![a] = @ \ {loc[p].rc}]
                /\ UNCHANGED <<totp, nextCode, uses>>
           ELSE /\ EnrollConfirmed(a, c.sec, c.step)
                /\ uses' = [uses EXCEPT ![a] = [x \in Codes |-> 0]]
        /\ spent' = [spent EXCEPT ![loc[p].rc] = @ + 1]
        /\ Goto(p, "rcDone") /\ UNCHANGED loc
        /\ UNCHANGED <<clock, ops, maint, acct, sess, pw, keys, federated, throttle, stashes,
                       redeemed, owed, overrun, retired, revived>>

\* No code matched, or another request consumed or replaced it since.
RecoveryFails(p) ==
    /\ pc[p] = "rcTx"
    /\ ~loc[p].ok \/ (Enabled(loc[p].a) /\ ~CodeUnused(loc[p].a, loc[p].rc))
    /\ RegisterFailure(loc[p].a, "recovery_code")
    /\ Finish(p)
    /\ UNCHANGED <<tables, stashes, uses, spent,
                   redeemed, owed, retired, revived>>

RecoverySignsIn(p) ==
    /\ pc[p] = "rcDone"
    /\ ResetThrottle(loc[p].a, "recovery_code")
    /\ IssueSession(loc[p].a)
    /\ redeemed' = [redeemed EXCEPT ![loc[p].tok] = @ + 1]
    /\ Finish(p)
    /\ UNCHANGED <<clock, ops, maint, acct, factors, federated, stashes, uses, spent, owed,
                   retired, revived>>

-----------------------------------------------------------------------------
(* Passkeys.  The library verifies the assertion and reports its counter n.   *)

HasAnyActiveAdmin == \E a \in Accounts : Enabled(a) /\ acct[a].admin

LoginBegin(t) ==
    /\ "passkey" \in ops /\ HasAnyActiveAdmin /\ t \notin minted
    /\ minted' = minted \cup {t}
    /\ ceremony' = SetEx(ceremony, t, TRUE, CeremonyTTL, clock)
    /\ UNCHANGED <<directory, throttle, partial, intent, challenge, adding, signInHistory>>

LoginComplete(p, t, k, n) ==
    /\ Idle(p, "passkey") /\ Found(ceremony, t, clock)
    /\ ceremony' = Del(ceremony, t)
    /\ LET a == keys[k].a
       IN  IF a # None /\ Enabled(a) /\ ~MaintenanceLockout(a)
           THEN /\ Set(p, [Blank EXCEPT !.op = "signin", !.a = a, !.tok = t, !.k = k, !.n = n,
                                        !.ok = n < keys[k].n])
                /\ Goto(p, "keyUse")
           ELSE UNCHANGED frame
    /\ UNCHANGED <<tables, throttle, partial,
                   intent, challenge, adding, minted, signInHistory>>

\* SetCredentialCloneWarning when the counter ran backwards (ok), then
\* UpdateCredentialUsage; both statements ignore a credential deleted since.
UseKey(p) ==
    keys' = [keys EXCEPT ![loc[p].k] =
                IF @.a = loc[p].a
                THEN [@ EXCEPT !.n = loc[p].n, !.clone = @ \/ loc[p].ok]
                ELSE @]

PasskeySignsIn(p) ==
    /\ pc[p] = "keyUse" /\ loc[p].op = "signin"
    /\ UseKey(p)
    /\ IssueSession(loc[p].a)
    /\ redeemed' = [redeemed EXCEPT ![loc[p].tok] = @ + 1]
    /\ Finish(p)
    /\ UNCHANGED <<clock, ops, maint, acct, pw, totp, codes, nextCode, federated, throttle,
                   stashes, uses, spent, owed, overrun, retired, revived>>

-----------------------------------------------------------------------------
(* Sudo: an intent names the method, one completion consumes it.              *)

SudoMethods(a) == AvailableMethods(a) \ {"federation_oidc"}

SudoBegin(s, m) ==
    /\ "sudo" \in ops /\ Caller(s) /\ m \in SudoMethods(sess[s].a) /\ owed[s] < MaxBegun
    /\ intent' = SetEx(intent, s, m, CeremonyTTL, clock)
    /\ challenge' = IF m = "webauthn" THEN SetEx(challenge, s, TRUE, CeremonyTTL, clock)
                    ELSE challenge
    /\ owed' = [owed EXCEPT ![s] = @ + 1]
    /\ UNCHANGED <<directory, throttle, partial, ceremony, adding, minted, uses, spent,
                   redeemed, overrun, retired, revived>>

PopIntentGet(s, m) == Found(intent, s, clock) /\ intent[s].val = m /\ UNCHANGED intent
PopIntent(s, m) ==
    Found(intent, s, clock) /\ intent[s].val = m /\ intent' = Del(intent, s)

SudoCompletePassword(p, s, v, c) ==
    /\ Idle(p, "sudo") /\ Caller(s)
    /\ PopIntent(s, "password_totp")
    /\ LET a == sess[s].a
       IN  IF ~Locked(a, "password") /\ pw[a].val # None
           THEN /\ Set(p, [Blank EXCEPT !.op = "sudo", !.a = a, !.s = s, !.pwd = v,
                                        !.row = pw[a], !.code = c])
                /\ Goto(p, "pwVerify")
           ELSE UNCHANGED frame
    /\ UNCHANGED <<tables, throttle, partial,
                   ceremony, challenge, adding, minted, signInHistory>>

SudoCompleteKey(p, s, k, n) ==
    /\ Idle(p, "sudo") /\ Caller(s)
    /\ PopIntent(s, "webauthn")
    /\ challenge' = Del(challenge, s)
    /\ IF Found(challenge, s, clock) /\ keys[k].a = sess[s].a
       THEN /\ Set(p, [Blank EXCEPT !.op = "sudo", !.a = sess[s].a, !.s = s, !.k = k, !.n = n,
                                    !.ok = n < keys[k].n])
            /\ Goto(p, "keyUse")
       ELSE UNCHANGED frame
    /\ UNCHANGED <<tables, throttle, partial,
                   ceremony, adding, minted, signInHistory>>

\* applySudoGrant: the session is loaded again; a session revoked meanwhile gets
\* no grant.
SudoGrant(s) ==
    IF sess[s].live
    THEN /\ sess' = [sess EXCEPT ![s].sudo = clock + SudoTTL]
         /\ challenge' = Del(challenge, s)
         /\ owed' = [owed EXCEPT ![s] = @ - 1]
    ELSE UNCHANGED <<sess, challenge, owed>>

SudoByTotp(p) ==
    /\ pc[p] = "totpDone" /\ loc[p].op = "sudo"
    /\ ResetThrottle(loc[p].a, "totp")
    /\ SudoGrant(loc[p].s)
    /\ Finish(p)
    /\ UNCHANGED <<clock, ops, maint, acct, factors, federated, partial, ceremony, intent,
                   adding, minted, uses, spent, redeemed, retired, revived>>

SudoByKey(p) ==
    /\ pc[p] = "keyUse" /\ loc[p].op = "sudo"
    /\ UseKey(p)
    /\ SudoGrant(loc[p].s)
    /\ Finish(p)
    /\ UNCHANGED <<clock, ops, maint, acct, pw, totp, codes, nextCode, federated, throttle,
                   partial, ceremony, intent, adding, minted, uses, spent, redeemed, overrun,
                   retired, revived>>

-----------------------------------------------------------------------------
(* The account's own factors                                                  *)

Retire(a) == retired' = [retired EXCEPT ![a] = @ \cup ({pw[a].val} \ {None})]

\* UpsertPasswordCredential: a password the account chooses again is current.
SetPasswordOnce(a, v) ==
    /\ pw' = [pw EXCEPT ![a] = IF @.val = None THEN [val |-> v, old |-> FALSE] ELSE @]
    /\ retired' = [retired EXCEPT ![a] = (@ \cup ({pw[a].val} \ {None})) \ {v}]
    /\ revived' = [revived EXCEPT ![a] = @ \ {v}]

SetPassword(a, v) ==
    /\ pw' = [pw EXCEPT ![a] = [val |-> v, old |-> FALSE]]
    /\ retired' = [retired EXCEPT ![a] = (@ \cup ({pw[a].val} \ {None})) \ {v}]
    /\ revived' = [revived EXCEPT ![a] = @ \ {v}]

PasswordSet(s, v) ==
    /\ Me(s, "setpw")
    /\ SetPassword(sess[s].a, v)
    /\ UNCHANGED <<clock, ops, maint, acct, sess, totp, codes, nextCode, keys, federated,
                   frame, throttle, stashes, uses, spent, redeemed, owed, overrun>>

NewAuthenticator(a, c) ==
    /\ EnrollConfirmed(a, c.sec, c.step)
    /\ uses' = [uses EXCEPT ![a] = [x \in Codes |-> 0]]

PasswordTotpEnroll(s, v, c) ==
    /\ Me(s, "totpenroll") /\ Matches(c, c.sec) /\ c.sec # 0
    /\ SetPassword(sess[s].a, v)
    /\ NewAuthenticator(sess[s].a, c)
    /\ UNCHANGED <<clock, ops, maint, acct, sess, keys, federated, frame, throttle, stashes,
                   spent, redeemed, owed, overrun>>

TotpReenroll(s, c) ==
    /\ Me(s, "reenroll") /\ Matches(c, c.sec) /\ c.sec # 0 /\ totp[sess[s].a].sec # 0
    /\ NewAuthenticator(sess[s].a, c)
    /\ UNCHANGED <<clock, ops, maint, acct, sess, pw, keys, federated, frame, throttle,
                   stashes, spent, redeemed, owed, overrun, retired, revived>>

\* The authenticator is checked first; then, without a lock on the account, one
\* transaction deletes the rows its statement sees and inserts the new ones.
RegenerateBegin(p, s) ==
    /\ Idle(p, "regenerate") /\ Me(s, "regenerate") /\ totp[sess[s].a].sec # 0
    /\ Set(p, [Blank EXCEPT !.op = "regenerate", !.a = sess[s].a])
    /\ Goto(p, "regenTx")
    /\ UNCHANGED <<tables, signInVars>>

RegenerateDelete(p) ==
    /\ pc[p] = "regenTx"
    /\ Set(p, [loc[p] EXCEPT !.seen = codes[loc[p].a]])
    /\ Goto(p, "regenCommit")
    /\ UNCHANGED <<tables, signInVars>>

RegenerateCommit(p) ==
    /\ pc[p] = "regenCommit" /\ nextCode <= MaxCode /\ acct[loc[p].a].on
    /\ codes' = [codes EXCEPT ![loc[p].a] = (@ \ loc[p].seen) \cup {nextCode}]
    /\ nextCode' = nextCode + 1
    /\ Finish(p)
    /\ UNCHANGED <<clock, ops, maint, acct, sess, pw, totp, keys, federated, signInVars>>

\* DisableNonWebAuthnFallbacks, under the account's row lock.
RevokePwdTotp(s) ==
    LET a == sess[s].a
    IN  /\ Me(s, "fallbacks")
        /\ KeysOf(a) # {} \/ UsableSignIn(a, links) # {}
        /\ codes' = [codes EXCEPT ![a] = {}]
        /\ totp' = [totp EXCEPT ![a] = NoTotp]
        /\ pw' = [pw EXCEPT ![a] = NoPw]
        /\ Retire(a)
        /\ UNCHANGED <<clock, ops, maint, acct, sess, nextCode, keys, federated, frame,
                       throttle, stashes, uses, spent, redeemed, owed, overrun, revived>>

AddKeyBegin(s) ==
    /\ Me(s, "keys")
    /\ adding' = SetEx(adding, s, TRUE, CeremonyTTL, clock)
    /\ UNCHANGED <<directory, throttle, partial, ceremony, intent, challenge, minted,
                   signInHistory>>

\* The ceremony is read, not popped: it is deleted after the insert.
AddKeyInsert(p, s, k) ==
    /\ Idle(p, "keys") /\ Caller(s) /\ Found(adding, s, clock) /\ keys[k].a = None
    /\ keys' = [keys EXCEPT ![k] = InsertCredential(sess[s].a)]
    /\ Set(p, [Blank EXCEPT !.op = "keys", !.s = s])
    /\ Goto(p, "addDel")
    /\ UNCHANGED <<clock, ops, maint, acct, sess, pw, totp, codes, nextCode, federated,
                   signInVars>>

AddKeyDone(p) ==
    /\ pc[p] = "addDel"
    /\ adding' = Del(adding, loc[p].s)
    /\ Finish(p)
    /\ UNCHANGED <<tables, throttle, partial,
                   ceremony, intent, challenge, minted, signInHistory>>

\* Under the account's row lock; the last passkey stays.
LastPasskeyGuardOffByOne(a) == Cardinality(KeysOf(a)) > 0
LastPasskeyGuard(a) == Cardinality(KeysOf(a)) > 1

DeleteKey(s, k) ==
    /\ Me(s, "keys")
    /\ LastPasskeyGuard(sess[s].a) /\ keys[k].a = sess[s].a
    /\ keys' = [keys EXCEPT ![k] = NoKey]
    /\ UNCHANGED <<clock, ops, maint, acct, sess, pw, totp, codes, nextCode, federated, frame,
                   signInVars>>

\* The identity is deleted first; the transaction is rolled back when no method
\* is left.
Unlink(s, l) ==
    LET a == sess[s].a
    IN  /\ Me(s, "keys") /\ l \in links /\ l.a = a
        /\ MethodsOf(a, KeysOf(a), pw[a], totp[a], links \ {l}) # {}
        /\ links' = links \ {l}
        /\ UNCHANGED <<clock, ops, maint, acct, sess, factors, idps, frame, signInVars>>

-----------------------------------------------------------------------------
(* Leaving                                                                    *)

\* Logout and the revocation of one of the account's own sessions.
EndSession(s) == sess' = [sess EXCEPT ![s].live = FALSE]

Logout(s) ==
    /\ "logout" \in ops /\ sess[s].live
    /\ EndSession(s)
    /\ UNCHANGED <<clock, ops, maint, acct, factors, federated, frame, signInVars>>

RevokeMySession(s, t) ==
    /\ "logout" \in ops /\ Caller(s) /\ sess[t].live /\ sess[t].a = sess[s].a
    /\ EndSession(t)
    /\ UNCHANGED <<clock, ops, maint, acct, factors, federated, frame, signInVars>>

-----------------------------------------------------------------------------

PasswordStep(p) ==
    \/ \E a \in Accounts, v \in Passwords : PasswordBegin(p, a, v)
    \/ \E t \in Tokens : PasswordCompletes(p, t)
    \/ PasswordFails(p) \/ PasswordSudo(p)

TotpStep(p) ==
    \/ \E t \in Tokens, c \in Codes : TotpVerify(p, t, c)
    \/ TotpSudo(p) \/ TotpUpdate(p) \/ TotpFails(p) \/ TotpSignsIn(p)

RecoveryStep(p) ==
    \/ \E t \in Tokens, rc \in 1..MaxCode, c \in Codes : RecoveryVerify(p, t, rc, c)
    \/ RecoveryRedeem(p) \/ RecoveryFails(p) \/ RecoverySignsIn(p)

PasskeyStep(p) ==
    \/ \E t \in Tokens, k \in Creds, n \in 0..MaxSign : LoginComplete(p, t, k, n)
    \/ PasskeySignsIn(p)

SudoStep(p) ==
    \/ \E s \in Sids, v \in Passwords, c \in Codes : SudoCompletePassword(p, s, v, c)
    \/ \E s \in Sids, k \in Creds, n \in 0..MaxSign : SudoCompleteKey(p, s, k, n)
    \/ SudoByTotp(p) \/ SudoByKey(p)

FactorStep(p) ==
    \/ \E s \in Sids : RegenerateBegin(p, s) \/ \E k \in Creds : AddKeyInsert(p, s, k)
    \/ RegenerateDelete(p) \/ RegenerateCommit(p) \/ AddKeyDone(p)

SignInNext ==
    \/ \E p \in Procs : PasswordStep(p) \/ TotpStep(p) \/ RecoveryStep(p) \/ PasskeyStep(p)
                        \/ SudoStep(p) \/ FactorStep(p)
    \/ \E t \in Tokens : LoginBegin(t)
    \/ \E s \in Sids, m \in {"webauthn", "password_totp"} : SudoBegin(s, m)
    \/ \E s \in Sids, v \in Passwords :
        PasswordSet(s, v) \/ \E c \in Codes : PasswordTotpEnroll(s, v, c)
    \/ \E s \in Sids, c \in Codes : TotpReenroll(s, c)
    \/ \E s \in Sids : RevokePwdTotp(s) \/ AddKeyBegin(s) \/ Logout(s)
    \/ \E s, t \in Sids : RevokeMySession(s, t)
    \/ \E s \in Sids, k \in Creds : DeleteKey(s, k)
    \/ \E s \in Sids, l \in links : Unlink(s, l)
=============================================================================
