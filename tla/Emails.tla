------------------------------- MODULE Emails -------------------------------
(***************************************************************************)
(* E-mail addresses of accounts (pkg/account/email, handle_me_emails.go,   *)
(* handle_admin_account_emails.go).  The rules run in one transaction that *)
(* holds the account's row lock, and the unique index on verified          *)
(* addresses serialises two accounts: each is one step.  The verification  *)
(* code lives in KV and its check is a chain of separate KV calls.         *)
(***************************************************************************)
EXTENDS SignIn

CONSTANTS
    Addresses,        \* normalised addresses
    MaxMail,          \* address rows are 1..MaxMail
    MaxPerAccount,    \* rows one account may have
    CodeTTL,          \* lifetime of a verification code, renewed by each guess
    MaxCodeAttempts,  \* guesses one code allows
    MaxIssued         \* codes sent, 1..MaxIssued

VARIABLES
    mail,      \* account_email: account, address, verified
    nextMail,  \* the next row id
    prim,      \* account.primary_email_id, 0 for NULL
    mailCode,  \* KV email-code:<row>: the code (gen), account, attempts
    issued,    \* codes sent so far
    tries,     \* history: guesses compared with a code
    wins,      \* history: guesses a code accepted, and when it was sent
    sentAt

emailVars == <<mail, nextMail, prim, mailCode, issued, tries, wins, sentAt>>

Mails == 1..MaxMail
NoMail == [a |-> None, addr |-> None, ver |-> FALSE]
EmailPcs == {"codeClaim", "codeCompare", "mailVerify"}

EmailInit ==
    /\ prim = [a \in Accounts |-> 0]
    /\ mailCode = [m \in Mails |-> NoEntry] /\ issued = 0
    /\ tries = [g \in 1..MaxIssued |-> 0] /\ wins = [g \in 1..MaxIssued |-> 0]
    /\ sentAt = [g \in 1..MaxIssued |-> 0]

codeVars == <<mailCode, issued, tries, wins, sentAt>>

-----------------------------------------------------------------------------
(* The rules                                                                 *)

MailOf(a) == {m \in Mails : mail[m].a = a}
ByAddress(a, addr) == {m \in MailOf(a) : mail[m].addr = addr}
TakenElsewhere(a, addr) == \E m \in Mails : mail[m].addr = addr /\ mail[m].ver /\ mail[m].a # a

\* The account's primary address when m has just been verified.
EnsurePrimary(a, m) == prim' = [prim EXCEPT ![a] = IF @ = 0 THEN m ELSE @]

Insert(a, addr, ver) ==
    /\ nextMail <= MaxMail /\ Cardinality(MailOf(a)) < MaxPerAccount /\ ByAddress(a, addr) = {}
    /\ mail' = [mail EXCEPT ![nextMail] = [a |-> a, addr |-> addr, ver |-> ver]]
    /\ nextMail' = nextMail + 1

Add(a, addr) == Insert(a, addr, FALSE) /\ UNCHANGED prim

AdminAdd(a, addr, ver, primary) ==
    /\ primary => ver
    /\ IF ByAddress(a, addr) = {}
       THEN /\ ver => ~TakenElsewhere(a, addr)
            /\ Insert(a, addr, ver)
            /\ CASE primary -> prim' = [prim EXCEPT ![a] = nextMail]
                 [] ver /\ ~primary -> EnsurePrimary(a, nextMail)
                 [] OTHER -> UNCHANGED prim
       ELSE \E m \in ByAddress(a, addr) :
            /\ ver /\ ~mail[m].ver /\ Cardinality(MailOf(a)) < MaxPerAccount
            /\ ~TakenElsewhere(a, addr)
            /\ mail' = [mail EXCEPT ![m].ver = TRUE]
            /\ IF primary THEN prim' = [prim EXCEPT ![a] = m] ELSE EnsurePrimary(a, m)
            /\ UNCHANGED nextMail

Verifiable(a, m) == mail[m].a = a /\ ~mail[m].ver /\ ~TakenElsewhere(a, mail[m].addr)

AssertVerified(a, m) ==
    /\ Verifiable(a, m)
    /\ mail' = [mail EXCEPT ![m].ver = TRUE]
    /\ EnsurePrimary(a, m)
    /\ UNCHANGED nextMail

SetPrimary(a, m) ==
    /\ mail[m].a = a /\ mail[m].ver /\ prim[a] # m
    /\ prim' = [prim EXCEPT ![a] = m]
    /\ UNCHANGED <<mail, nextMail>>

\* PickFallbackPrimary: another verified address, if there is one.
NoFallback(a, m) == {0}
Fallbacks(a, m) ==
    LET F == {x \in MailOf(a) \ {m} : mail[x].ver} IN IF F = {} THEN {0} ELSE F

Remove(a, m, allowPrimary) ==
    /\ mail[m].a = a
    /\ prim[a] = m => allowPrimary
    /\ \E f \in Fallbacks(a, m) : prim' = [prim EXCEPT ![a] = IF @ = m THEN f ELSE @]
    /\ mail' = [mail EXCEPT ![m] = NoMail]
    /\ UNCHANGED nextMail

\* AbsorbUpstream: the verified address of an upstream identity, skipped when it
\* is taken or the account is full.
Absorb(a, addr) ==
    LET known == ByAddress(a, addr)
    IN  IF addr = None \/ TakenElsewhere(a, addr) \/ (\E m \in known : mail[m].ver)
           \/ (known = {} /\ Cardinality(MailOf(a)) >= MaxPerAccount)
        THEN UNCHANGED <<mail, nextMail, prim>>
        ELSE IF known = {}
             THEN Insert(a, addr, TRUE) /\ EnsurePrimary(a, nextMail)
             ELSE \E m \in known : AssertVerified(a, m)

-----------------------------------------------------------------------------
(* Codes.  A guess carries whether it is the code that was sent.              *)

\* The code is stored, then mailed; a failed delivery takes it back.
SendMyEmailCode(s, m, delivered) ==
    /\ "emailcode" \in ops /\ Caller(s) /\ issued < MaxIssued
    /\ mail[m].a = sess[s].a /\ ~mail[m].ver
    /\ issued' = issued + 1
    /\ sentAt' = [sentAt EXCEPT ![issued + 1] = clock]
    /\ mailCode' = IF delivered
                   THEN SetEx(mailCode, m, [gen |-> issued + 1, a |-> sess[s].a, n |-> 0],
                              CodeTTL, clock)
                   ELSE Del(mailCode, m)
    /\ UNCHANGED <<directory, mail, nextMail, prim, tries, wins>>

\* Verify reads the record, ...
VerifyMyEmail(p, s, m, right) ==
    /\ Idle(p, "emailcode") /\ Caller(s) /\ Found(mailCode, m, clock)
    /\ LET rec == mailCode[m].val
       IN  /\ rec.a = sess[s].a /\ rec.n < MaxCodeAttempts
           /\ Set(p, [op |-> "emailcode", a |-> rec.a, m |-> m, rec |-> rec, right |-> right])
    /\ Goto(p, "codeClaim")
    /\ UNCHANGED <<tables, emailVars>>

\* ... claims one of its attempts by compare-and-swap, ...
Claimed(rec) == [rec EXCEPT !.n = @ + 1]
ClaimUnconditional(m, rec) == Found(mailCode, m, clock)
ClaimWins(m, rec) == Holds(mailCode, m, rec, clock)

CodeClaim(p) ==
    LET m == loc[p].m
    IN  /\ pc[p] = "codeClaim"
        /\ IF ClaimWins(m, loc[p].rec)
           THEN /\ mailCode' = SetEx(mailCode, m, Claimed(loc[p].rec), CodeTTL, clock)
                /\ tries' = [tries EXCEPT ![loc[p].rec.gen] = @ + 1]
                /\ Set(p, [loc[p] EXCEPT !.rec = Claimed(@)])
                /\ Goto(p, "codeCompare")
           ELSE Finish(p) /\ UNCHANGED <<mailCode, tries>>
        /\ UNCHANGED <<tables, mail, nextMail, prim, issued, wins, sentAt>>

\* ... and consumes the code when the guess is right or was the last one.
CodeCompare(p) ==
    LET m == loc[p].m
        own == Holds(mailCode, m, loc[p].rec, clock)
        last == loc[p].rec.n >= MaxCodeAttempts
    IN  /\ pc[p] = "codeCompare"
        /\ mailCode' = IF own /\ (loc[p].right \/ last) THEN Del(mailCode, m) ELSE mailCode
        /\ IF loc[p].right /\ own
           THEN /\ wins' = [wins EXCEPT ![loc[p].rec.gen] = @ + 1]
                /\ Goto(p, "mailVerify") /\ UNCHANGED loc
           ELSE Finish(p) /\ UNCHANGED wins
        /\ UNCHANGED <<tables, mail, nextMail, prim, issued, tries, sentAt>>

\* The code is spent; the address may have been removed or taken meanwhile.
MailVerify(p) ==
    /\ pc[p] = "mailVerify"
    /\ IF Verifiable(loc[p].a, loc[p].m) THEN AssertVerified(loc[p].a, loc[p].m)
       ELSE UNCHANGED <<mail, nextMail, prim>>
    /\ Finish(p)
    /\ UNCHANGED <<tables, codeVars>>

-----------------------------------------------------------------------------
(* Handlers                                                                   *)

AddMyEmail(s, addr) ==
    /\ "emails" \in ops /\ Caller(s)
    /\ Add(sess[s].a, addr)
    /\ UNCHANGED <<directory, codeVars>>

SetMyEmailPrimary(s, m) ==
    /\ "emails" \in ops /\ Caller(s)
    /\ SetPrimary(sess[s].a, m)
    /\ UNCHANGED <<directory, codeVars>>

DeleteMyEmail(s, m) ==
    /\ "emails" \in ops /\ Caller(s)
    /\ Remove(sess[s].a, m, FALSE)
    /\ UNCHANGED <<directory, codeVars>>

AddAccountEmail(s, a, addr, ver, primary) ==
    /\ Admin(s, "adminemails") /\ acct[a].on
    /\ AdminAdd(a, addr, ver, primary)
    /\ UNCHANGED <<directory, codeVars>>

VerifyAccountEmail(s, m) ==
    /\ Admin(s, "adminemails") /\ mail[m].a # None
    /\ AssertVerified(mail[m].a, m)
    /\ UNCHANGED <<directory, codeVars>>

SetAccountEmailPrimary(s, m) ==
    /\ Admin(s, "adminemails") /\ mail[m].a # None
    /\ SetPrimary(mail[m].a, m)
    /\ UNCHANGED <<directory, codeVars>>

DeleteAccountEmail(s, m) ==
    /\ Admin(s, "adminemails") /\ mail[m].a # None
    /\ Remove(mail[m].a, m, TRUE)
    /\ UNCHANGED <<directory, codeVars>>

MailStep(s, m) ==
    \/ SetMyEmailPrimary(s, m) \/ DeleteMyEmail(s, m)
    \/ VerifyAccountEmail(s, m) \/ SetAccountEmailPrimary(s, m) \/ DeleteAccountEmail(s, m)
    \/ \E delivered \in BOOLEAN : SendMyEmailCode(s, m, delivered)
    \/ \E p \in Procs, right \in BOOLEAN : VerifyMyEmail(p, s, m, right)

EmailNext ==
    /\ \/ \E s \in Sids, m \in Mails : MailStep(s, m)
       \/ \E s \in Sids, addr \in Addresses : AddMyEmail(s, addr)
       \/ \E s \in Sids, a \in Accounts, addr \in Addresses, ver, primary \in BOOLEAN :
            AddAccountEmail(s, a, addr, ver, primary)
       \/ \E p \in Procs : CodeClaim(p) \/ CodeCompare(p) \/ MailVerify(p)
    /\ UNCHANGED signInVars
=============================================================================
