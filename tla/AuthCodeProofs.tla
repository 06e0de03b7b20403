--------------------------- MODULE AuthCodeProofs ---------------------------
(***************************************************************************)
(* AuthCode: single use, a killed family stays dead, the marker outlives   *)
(* the code and the standing is re-checked, for any number of requests,    *)
(* codes and clients and any lifetimes.                                    *)
(***************************************************************************)
EXTENDS AuthCode, KvProofs

\* Requests that are minting a code, that hold a popped code, and that hold one
\* whose family is not written yet.
Authorizing == {"authAccess", "authRow", "authMint"}
Exchanging == {"check", "mint", "issue", "mark", "respond"}
Unissued == {"check", "mint", "issue"}

\* Nothing came of code c so far, and no request holds it.
Untouched(c) ==
    /\ answers[c] = 0
    /\ \A m \in minted : m.code # c
    /\ \A p \in Procs : pc[p] \in Exchanging => loc[p].code # c

\* What the stores and the history say about one code.
CodeFacts(c) ==
    /\ born[c] <= clock /\ answers[c] <= 1
    /\ born[c] = -1 => ~(0 < code[c].exp)
    /\ born[c] = -1 \/ 0 < code[c].exp => Untouched(c)
    /\ c \in marked => born[c] # -1 /\ born[c] + CodeTTL + Grace <= used[c].exp
    /\ 0 < used[c].exp => [fid |-> used[c].val, code |-> c] \in minted
    /\ c \in killed => (\E m \in minted : m.code = c) /\ (\A f \in fams : f.code # c)

\* What a request knows about the code it holds.
RequestFacts(p) ==
    /\ pc[p] \in Authorizing =>
        /\ born[loc[p].code] = -1
        /\ \A q \in Procs \ {p} : pc[q] \in Authorizing => loc[q].code # loc[p].code
    /\ pc[p] \in Exchanging =>
        /\ answers[loc[p].code] = 0 /\ born[loc[p].code] # -1
        /\ \A q \in Procs \ {p} : pc[q] \in Exchanging => loc[q].code # loc[p].code
    /\ pc[p] \in Unissued => \A m \in minted : m.code # loc[p].code
    /\ pc[p] \in {"mark", "replayDel"} => [fid |-> loc[p].fid, code |-> loc[p].code] \in minted

\* What is left of the conditions that were lost when its code was popped.
StandingFacts(p) ==
    /\ loc[p].low \subseteq lost
    /\ pc[p] = "check" => \A j \in 1 .. Checks : j < loc[p].i => CheckAt(j) \notin loc[p].low
    /\ pc[p] \in {"mint", "issue", "mark", "respond"} => loc[p].low = {}

FamilyInv ==
    /\ fams \subseteq minted
    /\ \A m, n \in minted : m.code = n.code => m = n

AuthInv ==
    /\ TypeOK
    /\ FamilyInv
    /\ \A c \in Codes : CodeFacts(c)
    /\ \A p \in Procs : RequestFacts(p) /\ StandingFacts(p)

-----------------------------------------------------------------------------

LEMMA RequestTyped ==
    /\ \A c \in Codes : /\ Request(c) \in Locals /\ Request(c).code = c
                        /\ Request(c).low = {} /\ Request(c).i = 1
    /\ Blank \in Locals /\ Blank.low = {}
<1>1. \A c \in Codes : /\ Request(c) \in Locals /\ Request(c).code = c
                        /\ Request(c).low = {} /\ Request(c).i = 1
  BY CodeAssumption DEF Request, Locals, Checks
<1>2. PICK c \in Codes : TRUE  BY CodeAssumption
<1>3. (CHOOSE x \in Codes : TRUE) \in Codes  BY <1>2
<1> QED  BY <1>1, <1>3 DEF Blank

\* A step of p that changes nothing but its own control state: it is enough to
\* look at p, and p may come to hold a popped code only by holding it already.
LEMMA OwnStep ==
    ASSUME AuthInv, NEW p \in Procs,
           UNCHANGED <<clock, store, nextFid, sessKv, lost, born, minted, answers, marked, killed>>,
           replayed' \subseteq Codes,
           pc' \in [Procs -> Pcs], loc' \in [Procs -> Locals],
           \A q \in Procs \ {p} : pc'[q] = pc[q] /\ loc'[q] = loc[q],
           pc'[p] \in Exchanging => pc[p] \in Exchanging /\ loc'[p].code = loc[p].code,
           RequestFacts(p)', StandingFacts(p)'
    PROVE  AuthInv'
<1>0. UNCHANGED <<code, used, fams>>  BY DEF store
<1>1. TypeOK'  BY <1>0 DEF AuthInv, TypeOK
<1>2. FamilyInv'  BY <1>0 DEF AuthInv, FamilyInv
<1>3. ASSUME NEW c \in Codes PROVE CodeFacts(c)'
  <2>1. CodeFacts(c)  BY DEF AuthInv
  <2>2. Untouched(c) => Untouched(c)'
    <3>1. ASSUME Untouched(c), NEW q \in Procs, pc'[q] \in Exchanging PROVE loc'[q].code # c
      BY <3>1 DEF Untouched
    <3> QED  BY <3>1 DEF Untouched
  <2> QED  BY <1>0, <2>1, <2>2 DEF CodeFacts
<1>4. ASSUME NEW q \in Procs \ {p} PROVE RequestFacts(q)' /\ StandingFacts(q)'
  <2>1. RequestFacts(q) /\ StandingFacts(q) /\ pc'[q] = pc[q] /\ loc'[q] = loc[q]
    BY DEF AuthInv
  <2>2. StandingFacts(q)'  BY <2>1 DEF StandingFacts
  <2>3. pc[q] \in Authorizing /\ pc'[p] \in Authorizing => loc'[p].code # loc[q].code
    BY <2>1 DEF RequestFacts
  <2>4. pc[q] \in Exchanging /\ pc'[p] \in Exchanging => loc'[p].code # loc[q].code
    BY <2>1 DEF RequestFacts
  <2>5. RequestFacts(q)'  BY <2>1, <2>3, <2>4 DEF RequestFacts
  <2> QED  BY <2>2, <2>5
<1> QED  BY <1>1, <1>2, <1>3, <1>4 DEF AuthInv

\* A request that ends holds nothing.
LEMMA FinishFacts ==
    ASSUME AuthInv, NEW p \in Procs, Finish(p)
    PROVE  /\ pc' \in [Procs -> Pcs] /\ loc' \in [Procs -> Locals]
           /\ pc'[p] = "idle" /\ loc'[p].low = {}
           /\ \A q \in Procs \ {p} : pc'[q] = pc[q] /\ loc'[q] = loc[q]
           /\ pc'[p] \notin Exchanging
           /\ RequestFacts(p)' /\ StandingFacts(p)'
<1>1. pc \in [Procs -> Pcs] /\ loc \in [Procs -> Locals]  BY DEF AuthInv, TypeOK
<1>2. pc' = [pc EXCEPT ![p] = "idle"] /\ loc' = [loc EXCEPT ![p] = Blank]
  BY DEF Finish, Goto, Set
<1>3. /\ pc' \in [Procs -> Pcs] /\ loc' \in [Procs -> Locals]
      /\ pc'[p] = "idle" /\ loc'[p].low = {}
      /\ \A q \in Procs \ {p} : pc'[q] = pc[q] /\ loc'[q] = loc[q]
  BY <1>1, <1>2, RequestTyped DEF Pcs
<1>4. RequestFacts(p)'  BY <1>3 DEF RequestFacts, Authorizing, Exchanging, Unissued
<1>5. StandingFacts(p)'  BY <1>3 DEF StandingFacts
<1> QED  BY <1>3, <1>4, <1>5 DEF Exchanging

LEMMA FinishOnly ==
    ASSUME AuthInv, NEW p \in Procs, Finish(p),
           UNCHANGED <<clock, store, nextFid, sessKv, lost, history>>
    PROVE  AuthInv'
<1>1. UNCHANGED <<born, minted, answers, marked, replayed, killed>>  BY DEF history
<1>2. replayed' \subseteq Codes  BY <1>1 DEF AuthInv, TypeOK
<1> QED  BY <1>1, <1>2, FinishFacts, OwnStep

-----------------------------------------------------------------------------
(* HandleAuthorize                                                           *)

LEMMA AuthorizeSessionKeeps ==
    ASSUME AuthInv, NEW p \in Procs, NEW c \in Codes, NEW cl \in Clients, AuthorizeSession(p, c, cl)
    PROVE  AuthInv'
<1> DEFINE l == [Request(c) EXCEPT !.client = cl]
<1>1. l \in Locals /\ l.code = c /\ l.low = {}  BY RequestTyped DEF Locals
<1>2. /\ pc' = [pc EXCEPT ![p] = "authAccess"] /\ loc' = [loc EXCEPT ![p] = l]
      /\ born[c] = -1
      /\ \A q \in Procs : pc[q] \in Authorizing => loc[q].code # c
      /\ UNCHANGED <<clock, store, nextFid, sessKv, lost, born, minted, answers, marked,
                     replayed, killed>>
  BY DEF AuthorizeSession, Goto, Set, Authorizing, history
<1> HIDE DEF l
<1>3. pc \in [Procs -> Pcs] /\ loc \in [Procs -> Locals] /\ replayed' \subseteq Codes
  BY <1>2 DEF AuthInv, TypeOK
<1>4. /\ pc' \in [Procs -> Pcs] /\ loc' \in [Procs -> Locals]
      /\ pc'[p] = "authAccess" /\ loc'[p] = l
      /\ \A q \in Procs \ {p} : pc'[q] = pc[q] /\ loc'[q] = loc[q]
  BY <1>1, <1>2, <1>3 DEF Pcs
<1>5. RequestFacts(p)'
  BY <1>1, <1>2, <1>4 DEF RequestFacts, Authorizing, Exchanging, Unissued
<1>6. StandingFacts(p)'  BY <1>1, <1>4 DEF StandingFacts
<1> QED  BY <1>2, <1>3, <1>4, <1>5, <1>6, OwnStep DEF Exchanging

\* The two gates after it only move on or give up.
LEMMA AuthorizeGatesKeep ==
    ASSUME AuthInv, NEW p \in Procs, AuthorizeAccess(p) \/ AuthorizeRow(p)
    PROVE  AuthInv'
<1>1. UNCHANGED <<clock, store, nextFid, sessKv, lost, history>>
  BY DEF AuthorizeAccess, AuthorizeRow
<1>2. CASE Finish(p)  BY <1>1, <1>2, FinishOnly
<1>3. CASE ~Finish(p)
  <2>1. /\ pc[p] \in Authorizing /\ loc' = loc
        /\ pc' = [pc EXCEPT ![p] = "authRow"] \/ pc' = [pc EXCEPT ![p] = "authMint"]
    BY <1>3 DEF AuthorizeAccess, AuthorizeRow, Goto, Authorizing
  <2>2. /\ pc \in [Procs -> Pcs] /\ loc \in [Procs -> Locals]
        /\ replayed \subseteq Codes /\ RequestFacts(p) /\ StandingFacts(p)
    BY DEF AuthInv, TypeOK
  <2>3. /\ pc' \in [Procs -> Pcs] /\ pc'[p] \in {"authRow", "authMint"}
        /\ \A q \in Procs \ {p} : pc'[q] = pc[q]
    BY <2>1, <2>2 DEF Pcs
  <2>4. RequestFacts(p)'
    BY <1>1, <2>1, <2>2, <2>3 DEF RequestFacts, Authorizing, Exchanging, Unissued, history
  <2>5. StandingFacts(p)'  BY <1>1, <2>1, <2>2, <2>3 DEF StandingFacts
  <2>6. pc'[p] \notin Exchanging  BY <2>3 DEF Exchanging
  <2> QED  BY <1>1, <2>1, <2>2, <2>3, <2>4, <2>5, <2>6, OwnStep DEF history
<1> QED  BY <1>2, <1>3

\* The code is stored once: it was not born, so nothing came of it before.
LEMMA MintCodeKeeps ==
    ASSUME AuthInv, NEW p \in Procs, MintCode(p)
    PROVE  AuthInv'
<1> SUFFICES ASSUME NEW c, c = loc[p].code PROVE AuthInv'
  OBVIOUS
<1>1. /\ pc[p] = "authMint" /\ Finish(p)
      /\ code' = SetEx(code, c, loc[p].client, CodeTTL, clock)
      /\ born' = [born EXCEPT ![c] = clock]
      /\ UNCHANGED <<clock, used, fams, nextFid, sessKv, lost, minted, answers, marked,
                     replayed, killed>>
  BY DEF MintCode
<1>2. /\ c \in Codes /\ loc[p].client \in Clients /\ clock \in Nat
      /\ code \in [Codes -> Cells(Clients)] /\ born \in [Codes -> Int]
  BY DEF AuthInv, TypeOK, Locals
<1>3. /\ code' \in [Codes -> Cells(Clients)]
      /\ \A d \in Codes \ {c} : code'[d] = code[d]
  <2>1. /\ SetEx(code, c, loc[p].client, CodeTTL, clock) \in [Codes -> Cells(Clients)]
        /\ \A d \in Codes \ {c} : SetEx(code, c, loc[p].client, CodeTTL, clock)[d] = code[d]
    <3>1. Entry(loc[p].client, clock + CodeTTL) \in Cells(Clients)
      BY <1>2, CodeAssumption DEF Entry, Cells
    <3> QED  BY <1>2, <3>1 DEF SetEx
  <2> QED  BY <1>1, <2>1
<1>4. /\ born' \in [Codes -> Int] /\ born'[c] = clock
      /\ \A d \in Codes \ {c} : born'[d] = born[d]
  BY <1>1, <1>2
<1>5. /\ born[c] = -1 /\ Untouched(c) /\ CodeFacts(c)
      /\ \A q \in Procs \ {p} : pc[q] \in Authorizing => loc[q].code # c
  BY <1>1, <1>2 DEF AuthInv, RequestFacts, CodeFacts, Authorizing
<1>6. /\ pc' \in [Procs -> Pcs] /\ loc' \in [Procs -> Locals]
      /\ pc'[p] = "idle" /\ loc'[p].low = {}
      /\ \A q \in Procs \ {p} : pc'[q] = pc[q] /\ loc'[q] = loc[q]
  BY <1>1, FinishFacts
<1>7. TypeOK'  BY <1>1, <1>3, <1>4, <1>6 DEF AuthInv, TypeOK
<1>8. FamilyInv'  BY <1>1 DEF AuthInv, FamilyInv
<1>9. ASSUME NEW d \in Codes PROVE CodeFacts(d)'
  <2>1. Untouched(d) => Untouched(d)'
    BY <1>1, <1>6 DEF Untouched, Exchanging
  <2>2. CASE d # c
    <3>1. CodeFacts(d) /\ code'[d] = code[d] /\ born'[d] = born[d]  BY <1>3, <1>4, <2>2 DEF AuthInv
    <3> QED  BY <1>1, <2>1, <3>1 DEF CodeFacts
  <2>3. CASE d = c
    <3>1. Untouched(c)'  BY <1>5, <2>1, <2>3
    <3>2. c \notin marked  BY <1>5 DEF CodeFacts
    <3> QED  BY <1>1, <1>2, <1>4, <1>5, <2>3, <3>1, <3>2 DEF CodeFacts
  <2> QED  BY <2>2, <2>3
<1>10. ASSUME NEW q \in Procs PROVE RequestFacts(q)' /\ StandingFacts(q)'
  <2>1. CASE q = p  BY <1>1, <2>1, FinishFacts
  <2>2. CASE q # p
    <3>1. /\ RequestFacts(q) /\ StandingFacts(q) /\ pc'[q] = pc[q] /\ loc'[q] = loc[q]
          /\ loc[q].code \in Codes
      BY <1>6, <2>2 DEF AuthInv, TypeOK, Locals
    <3>2. StandingFacts(q)'  BY <1>1, <3>1 DEF StandingFacts
    <3>3. pc[q] \in Exchanging => loc[q].code # c  BY <1>5, <2>2 DEF Untouched
    <3>4. RequestFacts(q)'
      BY <1>1, <1>4, <1>5, <1>6, <2>2, <3>1, <3>3 DEF RequestFacts, Authorizing, Exchanging
    <3> QED  BY <3>2, <3>4
  <2> QED  BY <2>1, <2>2
<1> QED  BY <1>7, <1>8, <1>9, <1>10 DEF AuthInv

-----------------------------------------------------------------------------
(* grantAuthorizationCode                                                    *)

\* The pop takes the code away from every other request for good.
LEMMA ConsumeCodeKeeps ==
    ASSUME AuthInv, NEW p \in Procs, NEW c \in Codes, NEW cl \in Clients, NEW fits \in BOOLEAN,
           ConsumeCode(p, c, cl, fits)
    PROVE  AuthInv'
<1> DEFINE l == [Request(c) EXCEPT !.client = cl, !.low = lost, !.dead = ~sessKv]
<1>1. /\ pc[p] = "idle" /\ Found(code, c, clock) /\ code' = Del(code, c)
      /\ UNCHANGED <<clock, used, fams, nextFid, sessKv, lost, born, minted, answers, marked,
                     replayed, killed>>
  BY DEF ConsumeCode, history
<1>2. /\ pc \in [Procs -> Pcs] /\ loc \in [Procs -> Locals] /\ clock \in Nat
      /\ code \in [Codes -> Cells(Clients)] /\ lost \subseteq Conditions /\ sessKv \in BOOLEAN
  BY DEF AuthInv, TypeOK
<1>3. l \in Locals /\ l.code = c /\ l.low = lost /\ l.i = 1
  BY <1>2, RequestTyped DEF Locals
<1>4. /\ code' \in [Codes -> Cells(Clients)] /\ code'[c].exp = 0
      /\ \A d \in Codes \ {c} : code'[d] = code[d]
  BY <1>1, <1>2, DelTyped
<1>5. 0 < code[c].exp  BY <1>1, <1>2, FoundTyped
<1>6. Untouched(c) /\ CodeFacts(c) /\ born[c] # -1  BY <1>5 DEF AuthInv, CodeFacts
<1>7. \/ UNCHANGED <<pc, loc>>
      \/ pc' = [pc EXCEPT ![p] = "check"] /\ loc' = [loc EXCEPT ![p] = l]
  BY DEF ConsumeCode, Exchange, Goto, Set
<1> HIDE DEF l
<1>8. /\ pc' \in [Procs -> Pcs] /\ loc' \in [Procs -> Locals]
      /\ \/ pc'[p] = "idle" /\ loc'[p] = loc[p]
         \/ pc'[p] = "check" /\ loc'[p] = l
      /\ \A q \in Procs \ {p} : pc'[q] = pc[q] /\ loc'[q] = loc[q]
  BY <1>1, <1>2, <1>3, <1>7 DEF Pcs
<1>9. TypeOK'  BY <1>1, <1>4, <1>8 DEF AuthInv, TypeOK
<1>10. FamilyInv'  BY <1>1 DEF AuthInv, FamilyInv
<1>11. ASSUME NEW d \in Codes PROVE CodeFacts(d)'
  <2>1. CASE d # c
    <3>1. CodeFacts(d) /\ code'[d] = code[d]  BY <1>4, <2>1 DEF AuthInv
    <3>2. Untouched(d) => Untouched(d)'
      BY <1>1, <1>3, <1>8, <2>1 DEF Untouched, Exchanging
    <3> QED  BY <1>1, <3>1, <3>2 DEF CodeFacts
  <2>2. CASE d = c  BY <1>1, <1>4, <1>6, <2>2 DEF CodeFacts
  <2> QED  BY <2>1, <2>2
<1>12. ASSUME NEW q \in Procs \ {p} PROVE RequestFacts(q)' /\ StandingFacts(q)'
  <2>1. RequestFacts(q) /\ StandingFacts(q) /\ pc'[q] = pc[q] /\ loc'[q] = loc[q]
    BY <1>8 DEF AuthInv
  <2>2. pc[q] \in Exchanging => loc[q].code # c  BY <1>6 DEF Untouched
  <2>3. RequestFacts(q)'
    BY <1>1, <1>3, <1>8, <2>1, <2>2 DEF RequestFacts, Authorizing, Exchanging
  <2> QED  BY <1>1, <2>1, <2>3 DEF StandingFacts
<1>13. RequestFacts(p)' /\ StandingFacts(p)'
  <2>1. CASE pc'[p] = "idle" /\ loc'[p] = loc[p]
    BY <1>1, <2>1 DEF AuthInv, RequestFacts, StandingFacts, Authorizing, Exchanging, Unissued
  <2>2. CASE pc'[p] = "check" /\ loc'[p] = l
    <3>1. \A q \in Procs \ {p} : pc[q] \in Exchanging => loc[q].code # c
      BY <1>6 DEF Untouched
    <3>2. RequestFacts(p)'
      BY <1>1, <1>3, <1>6, <1>8, <2>2, <3>1
      DEF RequestFacts, Untouched, Authorizing, Exchanging, Unissued
    <3>3. StandingFacts(p)'  BY <1>1, <1>3, <2>2 DEF StandingFacts, Checks
    <3> QED  BY <3>2, <3>3
  <2> QED  BY <1>8, <2>1, <2>2
<1> QED  BY <1>9, <1>10, <1>11, <1>12, <1>13 DEF AuthInv

LEMMA ConsumeCodeMissesKeeps ==
    ASSUME AuthInv, NEW p \in Procs, NEW c \in Codes, NEW cl \in Clients, ConsumeCodeMisses(p, c, cl)
    PROVE  AuthInv'
<1> DEFINE l == [Request(c) EXCEPT !.client = cl]
<1>1. l \in Locals /\ l.low = {}  BY RequestTyped DEF Locals
<1>2. /\ pc' = [pc EXCEPT ![p] = "usedGet"] /\ loc' = [loc EXCEPT ![p] = l]
      /\ UNCHANGED <<clock, store, nextFid, sessKv, lost, born, minted, answers, marked, killed>>
  BY DEF ConsumeCodeMisses, Goto, Set
<1>3. replayed' \subseteq Codes  BY DEF ConsumeCodeMisses, AuthInv, TypeOK
<1> HIDE DEF l
<1>4. /\ pc' \in [Procs -> Pcs] /\ loc' \in [Procs -> Locals]
      /\ pc'[p] = "usedGet" /\ loc'[p].low = {}
      /\ \A q \in Procs \ {p} : pc'[q] = pc[q] /\ loc'[q] = loc[q]
  BY <1>1, <1>2 DEF AuthInv, TypeOK, Pcs
<1>5. RequestFacts(p)'  BY <1>4 DEF RequestFacts, Authorizing, Exchanging, Unissued
<1>6. StandingFacts(p)'  BY <1>4 DEF StandingFacts
<1> QED  BY <1>2, <1>3, <1>4, <1>5, <1>6, OwnStep DEF Exchanging

\* The marker names the one family of its code.
LEMMA UsedFamilyKeeps ==
    ASSUME AuthInv, NEW p \in Procs, UsedFamily(p)
    PROVE  AuthInv'
<1> SUFFICES ASSUME NEW c, c = loc[p].code PROVE AuthInv'
  OBVIOUS
<1>1. UNCHANGED <<clock, store, nextFid, sessKv, lost, history>>  BY DEF UsedFamily
<1>2. CASE ~Found(used, c, clock)  BY <1>1, <1>2, FinishOnly DEF UsedFamily
<1>3. CASE Found(used, c, clock)
  <2> DEFINE l == [loc[p] EXCEPT !.fid = used[c].val]
  <2>1. /\ pc \in [Procs -> Pcs] /\ loc \in [Procs -> Locals] /\ clock \in Nat
        /\ used \in [Codes -> Cells(Nat)] /\ c \in Codes /\ replayed \subseteq Codes
        /\ StandingFacts(p)
    BY DEF AuthInv, TypeOK, Locals
  <2>2. used[c].val \in Nat /\ 0 < used[c].exp  BY <1>3, <2>1, FoundTyped
  <2>3. [fid |-> used[c].val, code |-> c] \in minted  BY <2>1, <2>2 DEF AuthInv, CodeFacts
  <2>4. l \in Locals /\ l.code = c /\ l.fid = used[c].val /\ l.low = loc[p].low
    BY <2>1, <2>2 DEF Locals
  <2>5. pc' = [pc EXCEPT ![p] = "replayDel"] /\ loc' = [loc EXCEPT ![p] = l]
    BY <1>3 DEF UsedFamily, Goto, Set
  <2> HIDE DEF l
  <2>6. /\ pc' \in [Procs -> Pcs] /\ loc' \in [Procs -> Locals]
        /\ pc'[p] = "replayDel" /\ loc'[p] = l
        /\ \A q \in Procs \ {p} : pc'[q] = pc[q] /\ loc'[q] = loc[q]
    BY <2>1, <2>4, <2>5 DEF Pcs
  <2>7. RequestFacts(p)'
    BY <1>1, <2>3, <2>4, <2>6 DEF RequestFacts, Authorizing, Exchanging, Unissued, history
  <2>8. StandingFacts(p)'  BY <1>1, <2>1, <2>4, <2>6 DEF StandingFacts
  <2> QED  BY <1>1, <2>1, <2>6, <2>7, <2>8, OwnStep DEF Exchanging, history
<1> QED  BY <1>2, <1>3

\* The family of a replayed code is the only one it will ever have.
LEMMA RevokeReplayedKeeps ==
    ASSUME AuthInv, NEW p \in Procs, RevokeReplayed(p)
    PROVE  AuthInv'
<1> SUFFICES ASSUME NEW c, NEW x, c = loc[p].code, x = loc[p].fid PROVE AuthInv'
  OBVIOUS
<1>1. /\ pc[p] = "replayDel" /\ Finish(p)
      /\ UNCHANGED <<clock, code, used, nextFid, sessKv, lost, born, minted, answers, marked,
                     replayed>>
      /\ \/ fams' = {f \in fams : f.fid # x} /\ killed' = killed \cup {c}
         \/ UNCHANGED <<fams, killed>>
  BY DEF RevokeReplayed
<1>2. c \in Codes /\ [fid |-> x, code |-> c] \in minted
  BY <1>1 DEF AuthInv, TypeOK, Locals, RequestFacts
<1>3. \A f \in fams : f.code = c => f.fid = x
  <2>1. \A f \in fams : f.code = c => f = [fid |-> x, code |-> c]
    BY <1>2 DEF AuthInv, FamilyInv
  <2> QED  BY <2>1
<1>4. /\ pc' \in [Procs -> Pcs] /\ loc' \in [Procs -> Locals] /\ pc'[p] = "idle"
      /\ \A q \in Procs \ {p} : pc'[q] = pc[q] /\ loc'[q] = loc[q]
  BY <1>1, FinishFacts
<1>5. fams' \subseteq fams /\ (c \in killed' => \A f \in fams' : f.code # c)
  BY <1>1, <1>2, <1>3 DEF AuthInv, CodeFacts
<1>6. TypeOK'
  <2>1. killed' \subseteq Codes  BY <1>1, <1>2 DEF AuthInv, TypeOK
  <2> QED  BY <1>1, <1>4, <1>5, <2>1 DEF AuthInv, TypeOK
<1>7. FamilyInv'  BY <1>1, <1>5 DEF AuthInv, FamilyInv
<1>8. ASSUME NEW d \in Codes PROVE CodeFacts(d)'
  <2>1. CodeFacts(d)  BY DEF AuthInv
  <2>2. Untouched(d) => Untouched(d)'  BY <1>1, <1>4 DEF Untouched, Exchanging
  <2>3. d \in killed' => (\E m \in minted' : m.code = d) /\ (\A f \in fams' : f.code # d)
    <3>1. CASE d = c  BY <1>1, <1>2, <1>5, <3>1
    <3>2. CASE d # c  BY <1>1, <1>5, <2>1, <3>2 DEF CodeFacts
    <3> QED  BY <3>1, <3>2
  <2> QED  BY <1>1, <2>1, <2>2, <2>3 DEF CodeFacts
<1>9. ASSUME NEW q \in Procs PROVE RequestFacts(q)' /\ StandingFacts(q)'
  <2>1. CASE q = p  BY <1>1, <2>1, FinishFacts
  <2>2. CASE q # p
    <3>1. RequestFacts(q) /\ StandingFacts(q) /\ pc'[q] = pc[q] /\ loc'[q] = loc[q]
      BY <1>4, <2>2 DEF AuthInv
    <3>2. RequestFacts(q)'
      BY <1>1, <1>4, <3>1 DEF RequestFacts, Authorizing, Exchanging
    <3> QED  BY <1>1, <3>1, <3>2 DEF StandingFacts
  <2> QED  BY <2>1, <2>2
<1> QED  BY <1>6, <1>7, <1>8, <1>9 DEF AuthInv

\* Each re-check removes one condition; after the last none is left.
LEMMA CheckGrantKeeps ==
    ASSUME AuthInv, NEW p \in Procs, CheckGrant(p)
    PROVE  AuthInv'
<1>1. pc[p] = "check" /\ UNCHANGED <<clock, store, nextFid, sessKv, lost, history>>
  BY DEF CheckGrant
<1>2. /\ pc \in [Procs -> Pcs] /\ loc \in [Procs -> Locals] /\ replayed \subseteq Codes
      /\ RequestFacts(p) /\ StandingFacts(p) /\ loc[p] \in Locals
  BY DEF AuthInv, TypeOK
<1>3. loc[p].i \in 1 .. 3 /\ loc[p].low \subseteq Conditions  BY <1>2 DEF Locals, Checks
<1>4. CASE CheckAt(loc[p].i) \in lost  BY <1>1, <1>4, FinishOnly DEF CheckGrant
<1>5. CASE CheckAt(loc[p].i) \notin lost /\ loc[p].i = Checks
  <2>1. pc' = [pc EXCEPT ![p] = "mint"] /\ loc' = loc
    BY <1>5 DEF CheckGrant, Goto
  <2>2. /\ pc' \in [Procs -> Pcs] /\ pc'[p] = "mint"
        /\ \A q \in Procs \ {p} : pc'[q] = pc[q]
    BY <1>2, <2>1 DEF Pcs
  <2>3. loc[p].low = {}
    <3>1. CheckAt(1) \notin loc[p].low /\ CheckAt(2) \notin loc[p].low /\ CheckAt(3) \notin loc[p].low
      BY <1>1, <1>2, <1>5 DEF StandingFacts, Checks
    <3>2. CheckAt(1) = "account" /\ CheckAt(2) = "session" /\ CheckAt(3) = "access"
      BY DEF CheckAt
    <3> QED  BY <1>3, <3>1, <3>2 DEF Conditions
  <2>4. RequestFacts(p)'
    BY <1>1, <1>2, <2>1, <2>2 DEF RequestFacts, Authorizing, Exchanging, Unissued, history
  <2>5. StandingFacts(p)'  BY <1>1, <1>2, <2>1, <2>2, <2>3 DEF StandingFacts
  <2> QED  BY <1>1, <1>2, <2>1, <2>2, <2>4, <2>5, OwnStep DEF Exchanging, history
<1>6. CASE CheckAt(loc[p].i) \notin lost /\ loc[p].i # Checks
  <2> DEFINE l == [loc[p] EXCEPT !.i = @ + 1]
  <2>1. pc' = pc /\ loc' = [loc EXCEPT ![p] = l]  BY <1>6 DEF CheckGrant, Set
  <2>2. /\ l \in Locals /\ l.code = loc[p].code /\ l.low = loc[p].low /\ l.i = loc[p].i + 1
    BY <1>2, <1>3, <1>6 DEF Locals, Checks
  <2> HIDE DEF l
  <2>3. /\ loc' \in [Procs -> Locals] /\ loc'[p] = l
        /\ \A q \in Procs \ {p} : loc'[q] = loc[q]
    BY <1>2, <2>1, <2>2
  <2>4. RequestFacts(p)'
    BY <1>1, <1>2, <2>1, <2>2, <2>3 DEF RequestFacts, Authorizing, Exchanging, Unissued, history
  <2>5. \A j \in 1 .. Checks : j < l.i => CheckAt(j) \notin l.low
    <3> SUFFICES ASSUME NEW j \in 1 .. Checks, j < l.i PROVE CheckAt(j) \notin l.low
      OBVIOUS
    <3>1. j < loc[p].i \/ j = loc[p].i  BY <1>3, <2>2 DEF Checks
    <3>2. CASE j < loc[p].i  BY <1>1, <1>2, <2>2, <3>2 DEF StandingFacts
    <3>3. CASE j = loc[p].i  BY <1>2, <1>6, <2>2, <3>3 DEF StandingFacts
    <3> QED  BY <3>1, <3>2, <3>3
  <2>6. StandingFacts(p)'  BY <1>1, <1>2, <2>1, <2>2, <2>3, <2>5 DEF StandingFacts
  <2> QED  BY <1>1, <1>2, <2>1, <2>2, <2>3, <2>4, <2>6, OwnStep DEF Exchanging, history
<1> QED  BY <1>4, <1>5, <1>6

LEMMA MintTokensKeeps ==
    ASSUME AuthInv, NEW p \in Procs, MintTokens(p)
    PROVE  AuthInv'
<1>1. /\ pc[p] = "mint" /\ loc' = loc
      /\ UNCHANGED <<clock, store, nextFid, sessKv, lost, history>>
  BY DEF MintTokens
<1>2. /\ pc \in [Procs -> Pcs] /\ loc \in [Procs -> Locals] /\ replayed \subseteq Codes
      /\ RequestFacts(p) /\ StandingFacts(p)
  BY DEF AuthInv, TypeOK
<1>3. pc' = [pc EXCEPT ![p] = "issue"] \/ pc' = [pc EXCEPT ![p] = "respond"]
  BY DEF MintTokens, Goto
<1>4. /\ pc' \in [Procs -> Pcs] /\ pc'[p] \in {"issue", "respond"}
      /\ \A q \in Procs \ {p} : pc'[q] = pc[q]
  BY <1>2, <1>3 DEF Pcs
<1>5. RequestFacts(p)'
  BY <1>1, <1>2, <1>4 DEF RequestFacts, Authorizing, Exchanging, Unissued, history
<1>6. StandingFacts(p)'  BY <1>1, <1>2, <1>4 DEF StandingFacts
<1> QED  BY <1>1, <1>2, <1>4, <1>5, <1>6, OwnStep DEF Exchanging, history

\* The family that is written is the first of its code, and the code was popped
\* before, so no replay killed it.
LEMMA IssueFamilyKeeps ==
    ASSUME AuthInv, NEW p \in Procs, IssueFamily(p)
    PROVE  AuthInv'
<1> SUFFICES ASSUME NEW c, NEW x, c = loc[p].code, x = nextFid PROVE AuthInv'
  OBVIOUS
<1> DEFINE f == [fid |-> x, code |-> c]
           l == [loc[p] EXCEPT !.fid = x]
<1>1. /\ pc[p] = "issue" /\ fams' = fams \cup {f} /\ minted' = minted \cup {f}
      /\ nextFid' = x + 1
      /\ pc' = [pc EXCEPT ![p] = "mark"] /\ loc' = [loc EXCEPT ![p] = l]
      /\ UNCHANGED <<clock, code, used, sessKv, lost, born, answers, marked, replayed, killed>>
  BY DEF IssueFamily, Goto, Set
<1>2. /\ pc \in [Procs -> Pcs] /\ loc \in [Procs -> Locals] /\ x \in Nat \ {0} /\ c \in Codes
      /\ RequestFacts(p) /\ StandingFacts(p)
  BY DEF AuthInv, TypeOK, Locals
<1>3. /\ l \in Locals /\ l.code = c /\ l.fid = x /\ l.low = loc[p].low
  BY <1>2 DEF Locals
<1>4. f \in Fam /\ f.code = c  BY <1>2 DEF Fam
<1>5. /\ \A m \in minted : m.code # c
      /\ answers[c] = 0 /\ born[c] # -1 /\ loc[p].low = {}
      /\ \A q \in Procs \ {p} : pc[q] \in Exchanging => loc[q].code # c
  BY <1>1, <1>2 DEF RequestFacts, StandingFacts, Exchanging, Unissued
<1> HIDE DEF f, l
<1>6. /\ pc' \in [Procs -> Pcs] /\ loc' \in [Procs -> Locals]
      /\ pc'[p] = "mark" /\ loc'[p] = l
      /\ \A q \in Procs \ {p} : pc'[q] = pc[q] /\ loc'[q] = loc[q]
  BY <1>1, <1>2, <1>3 DEF Pcs
<1>7. TypeOK'
  <2>1. nextFid' \in Nat \ {0}  BY <1>1, <1>2
  <2>2. fams' \subseteq Fam /\ minted' \subseteq Fam  BY <1>1, <1>4 DEF AuthInv, TypeOK
  <2> QED  BY <1>1, <1>6, <2>1, <2>2 DEF AuthInv, TypeOK
<1>8. FamilyInv'  BY <1>1, <1>4, <1>5 DEF AuthInv, FamilyInv
<1>9. ~(0 < code[c].exp)
  BY <1>1, <1>2 DEF AuthInv, CodeFacts, Untouched, Exchanging
<1>10. ASSUME NEW d \in Codes PROVE CodeFacts(d)'
  <2>1. CodeFacts(d)  BY DEF AuthInv
  <2>2. CASE d = c
    <3>1. c \notin killed  BY <1>5, <2>1, <2>2 DEF CodeFacts
    <3> QED  BY <1>1, <1>5, <1>9, <2>1, <2>2, <3>1 DEF CodeFacts
  <2>3. CASE d # c
    <3>1. Untouched(d) => Untouched(d)'
      BY <1>1, <1>3, <1>4, <1>6, <2>3 DEF Untouched
    <3> QED  BY <1>1, <1>4, <2>1, <2>3, <3>1 DEF CodeFacts
  <2> QED  BY <2>2, <2>3
<1>11. ASSUME NEW q \in Procs \ {p} PROVE RequestFacts(q)' /\ StandingFacts(q)'
  <2>1. RequestFacts(q) /\ StandingFacts(q) /\ pc'[q] = pc[q] /\ loc'[q] = loc[q]
    BY <1>6 DEF AuthInv
  <2>2. RequestFacts(q)'
    BY <1>1, <1>3, <1>4, <1>5, <1>6, <2>1 DEF RequestFacts, Authorizing, Exchanging, Unissued
  <2> QED  BY <1>1, <2>1, <2>2 DEF StandingFacts
<1>12. RequestFacts(p)'
  <2>1. [fid |-> l.fid, code |-> l.code] \in minted'  BY <1>1, <1>3 DEF f
  <2> QED  BY <1>1, <1>3, <1>5, <1>6, <2>1 DEF RequestFacts, Authorizing, Exchanging, Unissued
<1>13. StandingFacts(p)'  BY <1>1, <1>3, <1>5, <1>6 DEF StandingFacts
<1> QED  BY <1>7, <1>8, <1>10, <1>11, <1>12, <1>13 DEF AuthInv

\* The marker lasts from now for the lifetime of a code and the grace, and the
\* code was minted before now.
LEMMA MarkCodeUsedKeeps ==
    ASSUME AuthInv, NEW p \in Procs, MarkCodeUsed(p)
    PROVE  AuthInv'
<1> SUFFICES ASSUME NEW c, NEW x, c = loc[p].code, x = loc[p].fid PROVE AuthInv'
  OBVIOUS
<1>1. /\ pc[p] = "mark" /\ pc' = [pc EXCEPT ![p] = "respond"] /\ loc' = loc
      /\ UNCHANGED <<clock, code, fams, nextFid, sessKv, lost, born, minted, answers, replayed,
                     killed>>
      /\ \/ used' = SetEx(used, c, x, MarkerTtl, clock) /\ marked' = marked \cup {c}
         \/ UNCHANGED <<used, marked>>
  BY DEF MarkCodeUsed, Goto
<1>2. /\ pc \in [Procs -> Pcs] /\ loc \in [Procs -> Locals] /\ x \in Nat /\ c \in Codes
      /\ clock \in Nat /\ used \in [Codes -> Cells(Nat)] /\ born \in [Codes -> Int]
      /\ RequestFacts(p) /\ StandingFacts(p) /\ CodeFacts(c)
  BY DEF AuthInv, TypeOK, Locals
<1>3. CodeTTL \in Nat /\ Grace \in Nat /\ MarkerTtl \in Nat /\ MarkerTtl = CodeTTL + Grace
  BY CodeAssumption DEF MarkerTtl
<1>4. /\ SetEx(used, c, x, MarkerTtl, clock) \in [Codes -> Cells(Nat)]
      /\ SetEx(used, c, x, MarkerTtl, clock)[c] = [val |-> x, exp |-> clock + MarkerTtl]
      /\ \A d \in Codes \ {c} : SetEx(used, c, x, MarkerTtl, clock)[d] = used[d]
  <2>1. Entry(x, clock + MarkerTtl) \in Cells(Nat)  BY <1>2, <1>3 DEF Entry, Cells
  <2> QED  BY <1>2, <2>1 DEF SetEx, Entry
<1>5. /\ used' \in [Codes -> Cells(Nat)]
      /\ \/ used'[c].val = x /\ used'[c].exp = clock + MarkerTtl /\ marked' = marked \cup {c}
         \/ used'[c] = used[c] /\ marked' = marked
      /\ \A d \in Codes \ {c} : used'[d] = used[d] /\ (d \in marked' => d \in marked)
  BY <1>1, <1>2, <1>4
<1>6. /\ pc' \in [Procs -> Pcs] /\ pc'[p] = "respond"
      /\ \A q \in Procs \ {p} : pc'[q] = pc[q]
  BY <1>1, <1>2 DEF Pcs
<1>7. born[c] # -1 /\ [fid |-> x, code |-> c] \in minted
  BY <1>1, <1>2 DEF RequestFacts, Exchanging
<1>8. TypeOK'
  <2>1. marked' \subseteq Codes  BY <1>1, <1>2 DEF AuthInv, TypeOK
  <2> QED  BY <1>1, <1>5, <1>6, <2>1 DEF AuthInv, TypeOK
<1>9. FamilyInv'  BY <1>1 DEF AuthInv, FamilyInv
<1>10. ASSUME NEW d \in Codes PROVE CodeFacts(d)'
  <2>1. CodeFacts(d)  BY DEF AuthInv
  <2>2. Untouched(d) => Untouched(d)'  BY <1>1, <1>6 DEF Untouched, Exchanging
  <2>3. d \in marked' => born'[d] # -1 /\ born'[d] + CodeTTL + Grace <= used'[d].exp
    <3>1. CASE d # c  BY <1>1, <1>5, <2>1, <3>1 DEF CodeFacts
    <3>2. CASE d = c /\ used'[c] = used[c] /\ marked' = marked
      BY <1>1, <2>1, <3>2 DEF CodeFacts
    <3>3. CASE d = c /\ used'[c].exp = clock + MarkerTtl
      <4>1. born[c] <= clock /\ born[c] \in Int  BY <1>2 DEF CodeFacts
      <4>2. born[c] + CodeTTL + Grace <= clock + MarkerTtl  BY <1>2, <1>3, <4>1
      <4> QED  BY <1>1, <1>7, <3>3, <4>2
    <3> QED  BY <1>5, <3>1, <3>2, <3>3
  <2>4. 0 < used'[d].exp => [fid |-> used'[d].val, code |-> d] \in minted'
    <3>1. CASE d # c  BY <1>1, <1>5, <2>1, <3>1 DEF CodeFacts
    <3>2. CASE d = c  BY <1>1, <1>5, <1>7, <2>1, <3>2 DEF CodeFacts
    <3> QED  BY <3>1, <3>2
  <2> QED  BY <1>1, <2>1, <2>2, <2>3, <2>4 DEF CodeFacts
<1>11. ASSUME NEW q \in Procs PROVE RequestFacts(q)' /\ StandingFacts(q)'
  <2>1. RequestFacts(q) /\ StandingFacts(q)  BY DEF AuthInv
  <2>2. RequestFacts(q)'
    BY <1>1, <1>6, <2>1 DEF RequestFacts, Authorizing, Exchanging, Unissued
  <2>3. StandingFacts(q)'  BY <1>1, <1>6, <2>1 DEF StandingFacts
  <2> QED  BY <2>2, <2>3
<1> QED  BY <1>8, <1>9, <1>10, <1>11 DEF AuthInv

LEMMA RespondKeeps ==
    ASSUME AuthInv, NEW p \in Procs, Respond(p)
    PROVE  AuthInv'
<1> SUFFICES ASSUME NEW c, c = loc[p].code PROVE AuthInv'
  OBVIOUS
<1>1. /\ pc[p] = "respond" /\ Finish(p) /\ answers' = [answers EXCEPT ![c] = @ + 1]
      /\ UNCHANGED <<clock, code, used, fams, nextFid, sessKv, lost, born, minted, marked,
                     replayed, killed>>
  BY DEF Respond, store
<1>2. /\ c \in Codes /\ answers \in [Codes -> Nat] /\ answers[c] = 0 /\ born[c] # -1
      /\ \A q \in Procs \ {p} : pc[q] \in Exchanging => loc[q].code # c
  BY <1>1 DEF AuthInv, TypeOK, Locals, RequestFacts, Exchanging
<1>3. /\ answers' \in [Codes -> Nat] /\ answers'[c] = 1
      /\ \A d \in Codes \ {c} : answers'[d] = answers[d]
  BY <1>1, <1>2
<1>4. /\ pc' \in [Procs -> Pcs] /\ loc' \in [Procs -> Locals] /\ pc'[p] = "idle"
      /\ \A q \in Procs \ {p} : pc'[q] = pc[q] /\ loc'[q] = loc[q]
  BY <1>1, FinishFacts
<1>5. ~(0 < code[c].exp)
  BY <1>1, <1>2 DEF AuthInv, CodeFacts, Untouched, Exchanging
<1>6. TypeOK'  BY <1>1, <1>3, <1>4 DEF AuthInv, TypeOK
<1>7. FamilyInv'  BY <1>1 DEF AuthInv, FamilyInv
<1>8. ASSUME NEW d \in Codes PROVE CodeFacts(d)'
  <2>1. CodeFacts(d)  BY DEF AuthInv
  <2>2. CASE d = c  BY <1>1, <1>2, <1>3, <1>5, <2>1, <2>2 DEF CodeFacts
  <2>3. CASE d # c
    <3>1. Untouched(d) => Untouched(d)'
      BY <1>1, <1>3, <1>4, <2>3 DEF Untouched, Exchanging
    <3> QED  BY <1>1, <1>3, <2>1, <2>3, <3>1 DEF CodeFacts
  <2> QED  BY <2>2, <2>3
<1>9. ASSUME NEW q \in Procs PROVE RequestFacts(q)' /\ StandingFacts(q)'
  <2>1. CASE q = p  BY <1>1, <2>1, FinishFacts
  <2>2. CASE q # p
    <3>1. /\ RequestFacts(q) /\ StandingFacts(q) /\ pc'[q] = pc[q] /\ loc'[q] = loc[q]
          /\ loc[q].code \in Codes
      BY <1>4, <2>2 DEF AuthInv, TypeOK, Locals
    <3>2. RequestFacts(q)'
      BY <1>1, <1>2, <1>3, <1>4, <2>2, <3>1 DEF RequestFacts, Authorizing, Exchanging
    <3> QED  BY <1>1, <3>1, <3>2 DEF StandingFacts
  <2> QED  BY <2>1, <2>2
<1> QED  BY <1>6, <1>7, <1>8, <1>9 DEF AuthInv

-----------------------------------------------------------------------------
(* The environment                                                           *)

\* Conditions and families come and go, time passes.
LEMMA EnvironmentKeeps ==
    ASSUME AuthInv,
           \/ EndSession \/ StampSession \/ Tick
           \/ \E c \in Conditions : Lose(c)
           \/ \E f \in fams : EndFamily(f)
           \/ UNCHANGED vars
    PROVE  AuthInv'
<1>1. /\ UNCHANGED <<code, used, nextFid, pc, loc, born, minted, answers, marked, replayed, killed>>
      /\ fams' \subseteq fams /\ lost \subseteq lost'
  BY DEF EndSession, StampSession, Tick, Lose, EndFamily, vars, store, history
<1>2. lost' \subseteq Conditions /\ sessKv' \in BOOLEAN
  BY DEF EndSession, StampSession, Tick, Lose, EndFamily, vars, store, AuthInv, TypeOK, Conditions
<1>3. clock \in Nat /\ clock' \in Nat /\ clock <= clock'
  BY DEF EndSession, StampSession, Tick, Lose, EndFamily, vars, store, AuthInv, TypeOK
<1>4. TypeOK'  BY <1>1, <1>2, <1>3 DEF AuthInv, TypeOK
<1>5. FamilyInv'  BY <1>1 DEF AuthInv, FamilyInv
<1>6. ASSUME NEW c \in Codes PROVE CodeFacts(c)'
  <2>1. CodeFacts(c) /\ born[c] \in Int  BY DEF AuthInv, TypeOK
  <2>2. Untouched(c) => Untouched(c)'  BY <1>1 DEF Untouched
  <2>3. born'[c] <= clock'  BY <1>1, <1>3, <2>1 DEF CodeFacts
  <2> QED  BY <1>1, <2>1, <2>2, <2>3 DEF CodeFacts
<1>7. ASSUME NEW p \in Procs PROVE RequestFacts(p)' /\ StandingFacts(p)'
  <2>1. RequestFacts(p) /\ StandingFacts(p)  BY DEF AuthInv
  <2> QED  BY <1>1, <2>1 DEF RequestFacts, StandingFacts
<1> QED  BY <1>4, <1>5, <1>6, <1>7 DEF AuthInv

\* What comes back is no longer lost for anybody.
LEMMA RestoreKeeps ==
    ASSUME AuthInv, NEW x \in Conditions, Restore(x)
    PROVE  AuthInv'
<1>1. /\ lost' = lost \ {x}
      /\ loc' = [p \in Procs |-> [loc[p] EXCEPT !.low = @ \ {x}]]
      /\ UNCHANGED <<clock, code, used, fams, nextFid, sessKv, pc, born, minted, answers, marked,
                     replayed, killed>>
  BY DEF Restore, store, history
<1>2. \A p \in Procs : /\ loc'[p] \in Locals /\ loc'[p].low = loc[p].low \ {x}
                       /\ loc'[p].code = loc[p].code /\ loc'[p].fid = loc[p].fid
                       /\ loc'[p].i = loc[p].i
  BY <1>1 DEF AuthInv, TypeOK, Locals
<1>3. loc' \in [Procs -> Locals]  BY <1>1, <1>2
<1>4. TypeOK'  BY <1>1, <1>3 DEF AuthInv, TypeOK
<1>5. FamilyInv'  BY <1>1 DEF AuthInv, FamilyInv
<1>6. ASSUME NEW c \in Codes PROVE CodeFacts(c)'
  <2>1. CodeFacts(c)  BY DEF AuthInv
  <2>2. Untouched(c) => Untouched(c)'  BY <1>1, <1>2 DEF Untouched
  <2> QED  BY <1>1, <2>1, <2>2 DEF CodeFacts
<1>7. ASSUME NEW p \in Procs PROVE RequestFacts(p)' /\ StandingFacts(p)'
  <2>1. RequestFacts(p) /\ StandingFacts(p)  BY DEF AuthInv
  <2>2. RequestFacts(p)'  BY <1>1, <1>2, <2>1 DEF RequestFacts
  <2>3. StandingFacts(p)'  BY <1>1, <1>2, <2>1 DEF StandingFacts
  <2> QED  BY <2>2, <2>3
<1> QED  BY <1>4, <1>5, <1>6, <1>7 DEF AuthInv

-----------------------------------------------------------------------------
(* The results.                                                              *)

\* The grant starts with nothing minted and nobody at work.
THEOREM InitAuthCode == Init => AuthInv
<1> SUFFICES ASSUME Init PROVE AuthInv  OBVIOUS
<1>1. NoEntry \in Cells(Clients) /\ NoEntry \in Cells(Nat) /\ ~(0 < NoEntry.exp)
  BY DEF Cells, NoEntry
<1>2. TypeOK  BY <1>1, RequestTyped DEF Init, TypeOK, Pcs, Conditions
<1>3. FamilyInv  BY DEF Init, FamilyInv
<1>4. ASSUME NEW c \in Codes PROVE CodeFacts(c)
  BY <1>1 DEF Init, CodeFacts, Untouched, Exchanging
<1>5. ASSUME NEW p \in Procs PROVE RequestFacts(p) /\ StandingFacts(p)
  BY RequestTyped DEF Init, RequestFacts, StandingFacts, Authorizing, Exchanging, Unissued
<1> QED  BY <1>2, <1>3, <1>4, <1>5 DEF AuthInv

\* Every step of authorization, exchange, replay and environment preserves it.
THEOREM NextAuthCode == AuthInv /\ [Next]_vars => AuthInv'
<1> SUFFICES ASSUME AuthInv, [Next]_vars PROVE AuthInv'  OBVIOUS
<1>1. ASSUME NEW p \in Procs, Authorize(p) PROVE AuthInv'
  BY <1>1, AuthorizeSessionKeeps, AuthorizeGatesKeep, MintCodeKeeps DEF Authorize
<1>2. ASSUME NEW p \in Procs, Redeem(p) PROVE AuthInv'
  <2>1. ASSUME NEW c \in Codes, NEW cl \in Clients, NEW fits \in BOOLEAN, ConsumeCode(p, c, cl, fits)
        PROVE  AuthInv'
    BY <2>1, ConsumeCodeKeeps
  <2>2. ASSUME NEW c \in Codes, NEW cl \in Clients, ConsumeCodeMisses(p, c, cl) PROVE AuthInv'
    BY <2>2, ConsumeCodeMissesKeeps
  <2>3. CASE UsedFamily(p)  BY <2>3, UsedFamilyKeeps
  <2>4. CASE RevokeReplayed(p)  BY <2>4, RevokeReplayedKeeps
  <2>5. CASE CheckGrant(p)  BY <2>5, CheckGrantKeeps
  <2>6. CASE MintTokens(p)  BY <2>6, MintTokensKeeps
  <2>7. CASE IssueThenMark(p)  BY <2>7, IssueFamilyKeeps, MarkCodeUsedKeeps DEF IssueThenMark
  <2>8. CASE Respond(p)  BY <2>8, RespondKeeps
  <2> QED  BY <1>2, <2>1, <2>2, <2>3, <2>4, <2>5, <2>6, <2>7, <2>8 DEF Redeem
<1>3. ASSUME NEW p \in Procs, Abort(p) PROVE AuthInv'  BY <1>3, FinishOnly DEF Abort
<1>4. ASSUME NEW c \in Conditions, Restore(c) PROVE AuthInv'  BY <1>4, RestoreKeeps
<1>5. CASE \/ EndSession \/ StampSession \/ Tick
           \/ \E c \in Conditions : Lose(c)
           \/ \E f \in fams : EndFamily(f)
           \/ UNCHANGED vars
  BY <1>5, EnvironmentKeeps
<1> QED  BY <1>1, <1>2, <1>3, <1>4, <1>5 DEF Next

\* The invariant holds throughout every behaviour of the grant.
THEOREM AlwaysAuthInv == Spec => []AuthInv
BY InitAuthCode, NextAuthCode, PTL DEF Spec

\* Codes, markers, families and local variables keep their types (codes.go,
\* token.go).
THEOREM CodeTypes == Spec => []TypeOK
<1>1. AuthInv => TypeOK  BY DEF AuthInv
<1> QED  BY <1>1, AlwaysAuthInv, PTL

\* A code is exchanged at most once, for one response and one family (codes.go,
\* consumeCode).
THEOREM CodeSingleUse == Spec => []SingleUse
<1>1. AuthInv => SingleUse  BY DEF AuthInv, SingleUse, CodeFacts, FamilyInv
<1> QED  BY <1>1, AlwaysAuthInv, PTL

\* A family that a recognized replay deleted never lives again (token.go,
\* grantAuthorizationCode).
THEOREM CodeKilledStaysKilled == Spec => []KilledStaysKilled
<1>1. AuthInv => KilledStaysKilled
  BY DEF AuthInv, TypeOK, KilledStaysKilled, CodeFacts
<1> QED  BY <1>1, AlwaysAuthInv, PTL

\* The marker covers the lifetime of its code and the grace (codes.go,
\* usedMarkerGrace).
THEOREM CodeMarkerOutlivesCode == Spec => []MarkerOutlivesCode
<1>1. AuthInv => MarkerOutlivesCode
  <2> SUFFICES ASSUME AuthInv, NEW c \in marked, clock < born[c] + CodeTTL + Grace
               PROVE  clock < used[c].exp
    BY DEF MarkerOutlivesCode, Found
  <2>1. c \in Codes /\ clock \in Nat /\ born[c] \in Int  BY DEF AuthInv, TypeOK
  <2>2. CodeTTL \in Nat /\ Grace \in Nat  BY CodeAssumption
  <2>3. born[c] + CodeTTL + Grace <= used[c].exp  BY <2>1 DEF AuthInv, CodeFacts
  <2>4. used[c] \in Cells(Nat)  BY <2>1 DEF AuthInv, TypeOK
  <2>5. used[c].exp \in Int  BY <2>4 DEF Cells, NoEntry
  <2> QED  BY <2>1, <2>2, <2>3, <2>5
<1> QED  BY <1>1, AlwaysAuthInv, PTL

\* Nothing that was lost when the code was popped, and stayed lost, gets past
\* the re-checks (token.go, grantAuthorizationCode).
THEOREM CodeExchangeInGoodStanding == Spec => []ExchangeInGoodStanding
<1>1. AuthInv => ExchangeInGoodStanding  BY DEF AuthInv, ExchangeInGoodStanding, StandingFacts
<1> QED  BY <1>1, AlwaysAuthInv, PTL
=============================================================================
