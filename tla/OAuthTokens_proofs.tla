------------------------- MODULE OAuthTokens_proofs -------------------------
(* Proofs about the token endpoint, for every number of clients, requests,  *)
(* tokens and failures.                                                     *)
EXTENDS OAuthTokens, TLAPS

(* The code or refresh token behind a grant can no longer be redeemed.      *)
Spent(g) ==
    \/ \E c \in Codes : g = <<"code", c>> /\ codes[c] # None /\ codes[c].consumed
    \/ \E p \in Issued : g = <<"refresh", p>> /\ refresh[p].consumed

Usable(p) == ~refresh[p].consumed /\ ~refresh[p].revoked

(* Handlers that consumed their grant and have yet to store the pair.       *)
Issuing == {h \in Handlers : pc[h] \in {"access", "refresh"}}

(* Handlers that stored an access token without its refresh token.          *)
HalfDone == {h \in Handlers : pc[h] \in {"refresh", "compensate"}}

HandlersOK ==
    \A h \in Handlers :
        /\ pc[h] \in {"consume", "reuse"} =>
             \E p \in Issued : /\ job[h].grant = <<"refresh", p>>
                               /\ refresh[p].family = job[h].family
        /\ h \in Issuing => Spent(job[h].grant)
        /\ h \in HalfDone => /\ job[h].pair \in Pairs
                             /\ access[job[h].pair] # "absent"
                             /\ refresh[job[h].pair] = None

PairsOK == \A g, h \in HalfDone : job[g].pair = job[h].pair => g = h

RowsOK == \A p \in Issued : access[p] # "absent" /\ Spent(refresh[p].grant)

GrantsOK ==
    /\ \A g, h \in Issuing : job[g].grant = job[h].grant => g = h
    /\ \A h \in Issuing, p \in Issued : job[h].grant # refresh[p].grant
    /\ GrantYieldsOnePair

FamiliesOK ==
    /\ \A g, h \in Issuing : job[g].family = job[h].family => g = h
    /\ \A h \in Issuing, p \in Issued : Usable(p) => refresh[p].family # job[h].family
    /\ OneUsableRefreshToken

IInv == /\ TypeOK /\ HandlersOK /\ PairsOK /\ RowsOK
        /\ GrantsOK /\ FamiliesOK /\ RevokedFamilyIsDead

-----------------------------------------------------------------------------
(* Revoking the rows of a family keeps the tables well-formed: the same     *)
(* rows exist, with the same family, grant and use.                         *)
LEMMA RevokeRowsLemma ==
    ASSUME NEW f, TypeOK, RevokeRows(f)
    PROVE  /\ access' \in [Pairs -> {"absent", "live", "revoked"}]
           /\ refresh' \in [Pairs -> RefreshRows \cup {None}]
           /\ Issued' = Issued
           /\ \A p \in Issued : /\ refresh'[p].family = refresh[p].family
                                /\ refresh'[p].grant = refresh[p].grant
                                /\ refresh'[p].consumed = refresh[p].consumed
                                /\ refresh[p].revoked => refresh'[p].revoked
                                /\ refresh[p].family = f =>
                                     refresh'[p].revoked /\ access'[p] = "revoked"
                                /\ access[p] = "revoked" => access'[p] = "revoked"
           /\ \A p \in Pairs : refresh[p] = None => access'[p] = access[p] /\ refresh'[p] = None
           /\ \A p \in Issued : access'[p] = "absent" => access[p] = "absent"
<1> USE NoneIsNoRecord DEF RevokeRows, FamilyRows, Issued
<1>1. access' \in [Pairs -> {"absent", "live", "revoked"}]
  BY DEF TypeOK
<1>2. \A p \in FamilyRows(f) : [refresh[p] EXCEPT !.revoked = TRUE] \in RefreshRows
  BY DEF TypeOK, RefreshRows
<1>3. refresh' \in [Pairs -> RefreshRows \cup {None}]
  BY <1>2 DEF TypeOK
<1>4. \A p \in Pairs : (refresh'[p] # None) <=> (refresh[p] # None)
  BY <1>2
<1>5. \A p \in Issued : /\ refresh'[p].family = refresh[p].family
                        /\ refresh'[p].grant = refresh[p].grant
                        /\ refresh'[p].consumed = refresh[p].consumed
                        /\ refresh[p].revoked => refresh'[p].revoked
                        /\ refresh[p].family = f =>
                             refresh'[p].revoked /\ access'[p] = "revoked"
                        /\ access[p] = "revoked" => access'[p] = "revoked"
  BY DEF TypeOK, RefreshRows
<1> QED BY <1>1, <1>3, <1>4, <1>5

(* What the families and grants owe to a step that only revokes.            *)
LEMMA RevocationKeepsInv ==
    ASSUME IInv, NEW f \in Families, RevokeRows(f), UNCHANGED codes,
           revoked' \in {revoked, revoked \cup {f}},
           \A h \in Handlers : \/ pc'[h] = "idle"
                               \/ pc'[h] = pc[h] /\ job'[h] = job[h]
    PROVE  (HandlersOK /\ PairsOK /\ RowsOK /\ GrantsOK /\ FamiliesOK /\ RevokedFamilyIsDead)'
<1> USE DEF IInv
<1>0. TypeOK OBVIOUS
<1>1. \A g : Spent(g) => Spent(g)'
  BY <1>0, RevokeRowsLemma DEF Spent
<1>2. HandlersOK'
  BY <1>0, <1>1, RevokeRowsLemma DEF HandlersOK, Issuing, HalfDone
<1>3. PairsOK'
  BY DEF PairsOK, HalfDone
<1>4. RowsOK'
  BY <1>0, <1>1, RevokeRowsLemma DEF RowsOK
<1>5. GrantsOK'
  BY <1>0, RevokeRowsLemma DEF GrantsOK, GrantYieldsOnePair, Issuing
<1>6. FamiliesOK'
  BY <1>0, RevokeRowsLemma DEF FamiliesOK, OneUsableRefreshToken, Issuing, Usable
<1>7. RevokedFamilyIsDead'
  BY <1>0, RevokeRowsLemma DEF RevokedFamilyIsDead, Dead
<1> QED BY <1>2, <1>3, <1>4, <1>5, <1>6, <1>7

(* A step that touches no table and only lets requests stop keeps the rest. *)
LEMMA RequestsStopKeepsInv ==
    ASSUME IInv, UNCHANGED tables,
           \A h \in Handlers : \/ pc'[h] = "idle"
                               \/ pc'[h] = pc[h] /\ job'[h] = job[h]
                               \/ pc[h] = "refresh" /\ pc'[h] = "compensate" /\ job'[h] = job[h]
    PROVE  (HandlersOK /\ PairsOK /\ RowsOK /\ GrantsOK /\ FamiliesOK /\ RevokedFamilyIsDead)'
<1> USE DEF IInv, tables
<1>1. \A g : Spent(g)' <=> Spent(g)
  BY DEF Spent, Issued
<1>2. HandlersOK'
  BY <1>1 DEF HandlersOK, Issuing, HalfDone, Issued
<1>3. PairsOK'
  BY DEF PairsOK, HalfDone
<1>4. RowsOK'
  BY <1>1 DEF RowsOK, Issued
<1>5. GrantsOK'
  BY DEF GrantsOK, GrantYieldsOnePair, Issuing, Issued
<1>6. FamiliesOK'
  BY DEF FamiliesOK, OneUsableRefreshToken, Issuing, Usable, Issued
<1>7. RevokedFamilyIsDead'
  BY DEF RevokedFamilyIsDead, Dead, Issued
<1> QED BY <1>2, <1>3, <1>4, <1>5, <1>6, <1>7

(* A code is stored.                                                        *)
LEMMA ApproveKeepsInv ==
    ASSUME IInv, NEW c \in Codes, NEW client \in Clients, ApproveAuthorization(c, client)
    PROVE  IInv'
<1> USE OAuthAssumption, NoneIsNoRecord DEF IInv, ApproveAuthorization
<1>1. TypeOK'
  BY DEF TypeOK, CodeRows, InFlight
<1>2. \A g : Spent(g) => Spent(g)'
  BY DEF TypeOK, Spent, Issued
<1>3. HandlersOK' /\ PairsOK' /\ RowsOK'
  BY <1>2 DEF HandlersOK, PairsOK, RowsOK, Issuing, HalfDone, Issued
<1>4. GrantsOK' /\ FamiliesOK' /\ RevokedFamilyIsDead'
  BY DEF GrantsOK, GrantYieldsOnePair, FamiliesOK, OneUsableRefreshToken, Usable,
         RevokedFamilyIsDead, Dead, Issuing, Issued
<1> QED BY <1>1, <1>3, <1>4

(* A code is consumed: nothing was issued for it before, and its family is  *)
(* new.                                                                     *)
LEMMA RedeemKeepsInv ==
    ASSUME IInv, NEW h \in Handlers, NEW c \in Codes, NEW client \in Clients,
           RedeemCode(h, c, client)
    PROVE  IInv'
<1> USE NoneIsNoRecord DEF IInv
<1>1. PICK f \in FreshFamilies :
        Step(h, [grant |-> <<"code", c>>, client |-> client, family |-> f,
                 pair |-> None], "access")
  BY DEF RedeemCode
<1> DEFINE j == [grant |-> <<"code", c>>, client |-> client, family |-> f, pair |-> None]
<1>2. j \in Jobs /\ j.grant = <<"code", c>> /\ j.family = f
  BY DEF Jobs, Grants, FreshFamilies
<1> HIDE DEF j
<1>3. /\ job' = [job EXCEPT ![h] = j] /\ pc' = [pc EXCEPT ![h] = "access"]
      /\ UNCHANGED <<access, refresh, revoked, faults, now, crashes>>
      /\ codes[c] # None /\ ~codes[c].consumed
      /\ codes' = [codes EXCEPT ![c].consumed = TRUE]
  BY <1>1 DEF RedeemCode, CodeRedeemable, Step, j
<1>4. TypeOK'
  <2>1. codes' \in [Codes -> CodeRows \cup {None}]
    BY <1>3 DEF TypeOK, CodeRows
  <2>2. job' \in [Handlers -> Jobs \cup {None}] /\ \A g \in InFlight' : job'[g] # None
    BY <1>2, <1>3 DEF TypeOK, InFlight
  <2> QED BY <1>3, <2>1, <2>2 DEF TypeOK, Labels
<1>5. codes'[c] # None /\ codes'[c].consumed
  BY <1>3 DEF TypeOK, CodeRows
<1>6. ~Spent(<<"code", c>>) /\ Spent(<<"code", c>>)'
  BY <1>3, <1>5 DEF Spent
<1>7. \A g : Spent(g) => Spent(g)'
  BY <1>3, <1>5 DEF Spent, Issued, TypeOK
<1>8. pc'[h] = "access" /\ job'[h] = j /\ \A g \in Handlers \ {h} : pc'[g] = pc[g] /\ job'[g] = job[g]
  BY <1>3 DEF TypeOK
<1>9. HandlersOK'
  BY <1>2, <1>3, <1>6, <1>7, <1>8 DEF HandlersOK, Issuing, HalfDone, Issued
<1>10. PairsOK' /\ RowsOK'
  BY <1>3, <1>7, <1>8 DEF PairsOK, RowsOK, HalfDone, Issued
<1>11. GrantsOK'
  <2>1. \A g \in Issuing : job[g].grant # <<"code", c>>
    BY <1>6 DEF HandlersOK, Issuing
  <2>2. \A p \in Issued : refresh[p].grant # <<"code", c>>
    BY <1>6 DEF RowsOK
  <2> QED BY <1>2, <1>3, <1>8, <2>1, <2>2 DEF GrantsOK, GrantYieldsOnePair, Issuing, Issued
<1>12. FamiliesOK'
  <2>1. \A g \in Issuing : job[g].family # f
    BY DEF FreshFamilies, InFlight, Issuing
  <2>2. \A p \in Issued : refresh[p].family # f
    <3>1. FamilyRows(f) = {}
      BY DEF FreshFamilies
    <3> QED BY <3>1 DEF FamilyRows
  <2> QED BY <1>2, <1>3, <1>8, <2>1, <2>2
        DEF FamiliesOK, OneUsableRefreshToken, Usable, Issuing, Issued
<1>13. RevokedFamilyIsDead'
  BY <1>3 DEF RevokedFamilyIsDead, Dead, Issued
<1> QED BY <1>4, <1>9, <1>10, <1>11, <1>12, <1>13

(* A refresh request reads its row.                                         *)
LEMMA ReadKeepsInv ==
    ASSUME IInv, NEW h \in Handlers, NEW p \in Pairs, NEW client \in Clients,
           ReadRefresh(h, p, client)
    PROVE  IInv'
<1> USE NoneIsNoRecord DEF IInv
<1> DEFINE j == [grant |-> <<"refresh", p>>, client |-> client,
                 family |-> refresh[p].family, pair |-> None]
<1>1. PICK next \in {"reuse", "consume"} : Step(h, j, next)
  BY DEF ReadRefresh
<1>2. p \in Issued /\ UNCHANGED <<tables, faults>>
  BY DEF ReadRefresh, Issued
<1>3. j \in Jobs /\ j.grant = <<"refresh", p>> /\ j.family = refresh[p].family
  BY <1>2 DEF Jobs, Grants, Issued, TypeOK, RefreshRows
<1> HIDE DEF j
<1>4. TypeOK'
  BY <1>1, <1>2, <1>3 DEF TypeOK, Step, tables, InFlight, Labels
<1>5. /\ pc'[h] = next /\ job'[h] = j
      /\ \A g \in Handlers \ {h} : pc'[g] = pc[g] /\ job'[g] = job[g]
  BY <1>1 DEF Step, TypeOK
<1>6. Issuing' \subseteq Issuing /\ HalfDone' \subseteq HalfDone /\ h \notin Issuing' \cup HalfDone'
  BY <1>5 DEF Issuing, HalfDone
<1>7. \A g : Spent(g)' <=> Spent(g)
  BY <1>2 DEF Spent, Issued, tables
<1>8. HandlersOK' /\ PairsOK' /\ RowsOK'
  BY <1>2, <1>3, <1>5, <1>6, <1>7 DEF HandlersOK, PairsOK, RowsOK, Issued, tables, Issuing, HalfDone
<1>9. GrantsOK' /\ FamiliesOK' /\ RevokedFamilyIsDead'
  BY <1>2, <1>5, <1>6 DEF GrantsOK, GrantYieldsOnePair, FamiliesOK, OneUsableRefreshToken,
        Usable, RevokedFamilyIsDead, Dead, Issued, tables, Issuing
<1> QED BY <1>4, <1>8, <1>9

(* A refresh token is consumed, or lost to another request.                 *)
LEMMA ConsumeKeepsInv ==
    ASSUME IInv, NEW h \in Handlers, ConsumeRefresh(h)
    PROVE  IInv'
<1> USE NoneIsNoRecord DEF IInv
<1>1. PICK p \in Issued : job[h].grant = <<"refresh", p>> /\ refresh[p].family = job[h].family
  BY DEF ConsumeRefresh, HandlersOK
<1>2. job[h].grant[2] = p /\ pc[h] = "consume" /\ job[h] \in Jobs
  BY <1>1 DEF ConsumeRefresh, TypeOK, InFlight
<1>3. CASE ~RefreshConsumable(p)
  <2>1. /\ UNCHANGED <<codes, access, refresh, revoked, faults, now, crashes, job>>
        /\ pc' = [pc EXCEPT ![h] = "reuse"]
    BY <1>2, <1>3 DEF ConsumeRefresh, LostRace, Step, TypeOK
  <2>2. TypeOK'
    BY <1>2, <2>1 DEF TypeOK, InFlight, Labels
  <2>3. Issuing' = Issuing /\ HalfDone' = HalfDone /\ \A g : Spent(g)' <=> Spent(g)
    BY <1>2, <2>1 DEF Issuing, HalfDone, Spent, Issued, TypeOK
  <2>4. HandlersOK' /\ PairsOK' /\ RowsOK'
    BY <1>1, <1>2, <2>1, <2>3 DEF HandlersOK, PairsOK, RowsOK, Issued, TypeOK
  <2>5. GrantsOK' /\ FamiliesOK' /\ RevokedFamilyIsDead'
    BY <2>1, <2>3 DEF GrantsOK, GrantYieldsOnePair, FamiliesOK, OneUsableRefreshToken,
          Usable, RevokedFamilyIsDead, Dead, Issued
  <2> QED BY <2>2, <2>4, <2>5
<1>4. CASE RefreshConsumable(p)
  <2>1. /\ UNCHANGED <<codes, access, revoked, faults, now, crashes, job>>
        /\ refresh' = [refresh EXCEPT ![p].consumed = TRUE]
        /\ pc' = [pc EXCEPT ![h] = "access"]
        /\ Usable(p)
    BY <1>2, <1>4 DEF ConsumeRefresh, LostRace, Step, TypeOK, RefreshConsumable, Usable
  <2>2. /\ refresh' \in [Pairs -> RefreshRows \cup {None}]
        /\ Issued' = Issued
        /\ refresh'[p].consumed
        /\ \A q \in Issued : /\ refresh'[q].family = refresh[q].family
                             /\ refresh'[q].grant = refresh[q].grant
                             /\ refresh'[q].revoked = refresh[q].revoked
                             /\ refresh[q].consumed => refresh'[q].consumed
                             /\ q # p => refresh'[q] = refresh[q]
        /\ \A q \in Pairs : refresh[q] = None => refresh'[q] = None
    <3>1. p \in Pairs /\ refresh[p] \in RefreshRows /\ refresh \in [Pairs -> RefreshRows \cup {None}]
      BY DEF TypeOK, Issued
    <3> DEFINE row == [refresh[p] EXCEPT !.consumed = TRUE]
    <3>2. /\ row \in RefreshRows /\ row.consumed /\ row.family = refresh[p].family
          /\ row.grant = refresh[p].grant /\ row.revoked = refresh[p].revoked
      BY <3>1 DEF RefreshRows
    <3>3. refresh' = [refresh EXCEPT ![p] = row]
      BY <2>1
    <3> QED BY <3>1, <3>2, <3>3 DEF Issued
  <2>3. TypeOK'
    BY <1>2, <2>1, <2>2 DEF TypeOK, InFlight, Labels
  <2>4. (\A g : Spent(g) => Spent(g)') /\ ~Spent(job[h].grant) /\ Spent(job[h].grant)'
    <3>1. \A g : Spent(g) => Spent(g)'
      BY <2>1, <2>2 DEF Spent
    <3>2. ~Spent(<<"refresh", p>>) /\ Spent(<<"refresh", p>>)'
      BY <2>1, <2>2 DEF Spent, Usable
    <3> QED BY <1>1, <2>1, <3>1, <3>2
  <2>5. Issuing' = Issuing \cup {h} /\ HalfDone' = HalfDone /\ h \notin Issuing
    BY <1>2, <2>1 DEF Issuing, HalfDone, TypeOK
  <2>6. HandlersOK'
    BY <1>2, <2>1, <2>2, <2>4, <2>5 DEF HandlersOK, TypeOK
  <2>7. PairsOK' /\ RowsOK'
    BY <2>1, <2>2, <2>4, <2>5 DEF PairsOK, RowsOK
  <2>8. GrantsOK'
    <3>1. \A g \in Issuing : job[g].grant # job[h].grant
      BY <2>4 DEF HandlersOK, Issuing
    <3>2. \A q \in Issued : refresh[q].grant # job[h].grant
      BY <2>4 DEF RowsOK
    <3> QED BY <2>1, <2>2, <2>5, <3>1, <3>2 DEF GrantsOK, GrantYieldsOnePair
  <2>9. FamiliesOK'
    <3>1. \A g \in Issuing : job[g].family # job[h].family
      BY <1>1, <2>1 DEF FamiliesOK
    <3>2. \A q \in Issued : Usable(q)' => Usable(q) /\ q # p /\ refresh[q].family # job[h].family
      BY <1>1, <2>1, <2>2 DEF FamiliesOK, OneUsableRefreshToken, Usable
    <3> QED BY <2>1, <2>2, <2>5, <3>1, <3>2 DEF FamiliesOK, OneUsableRefreshToken, Usable
  <2>10. RevokedFamilyIsDead'
    BY <2>1, <2>2 DEF RevokedFamilyIsDead, Dead
  <2> QED BY <2>3, <2>6, <2>7, <2>8, <2>9, <2>10
<1> QED BY <1>3, <1>4

(* The access token of a new pair is stored.                                *)
LEMMA CreateAccessKeepsInv ==
    ASSUME IInv, NEW h \in Handlers, CreateAccess(h)
    PROVE  IInv'
<1> USE NoneIsNoRecord DEF IInv
<1>1. PICK p \in FreshPairs : /\ access' = [access EXCEPT ![p] = "live"]
                              /\ Step(h, [job[h] EXCEPT !.pair = p], "refresh")
  BY DEF CreateAccess
<1> DEFINE j == [job[h] EXCEPT !.pair = p]
<1>2. p \in Pairs /\ access[p] = "absent" /\ refresh[p] = None
  BY DEF FreshPairs, RowsOK, Issued
<1>3. job[h] \in Jobs /\ pc[h] = "access"
  BY DEF CreateAccess, TypeOK, InFlight
<1>4. /\ j \in Jobs /\ j.pair = p /\ j.grant = job[h].grant /\ j.family = job[h].family
  BY <1>2, <1>3 DEF Jobs
<1> HIDE DEF j
<1>5. /\ job' = [job EXCEPT ![h] = j] /\ pc' = [pc EXCEPT ![h] = "refresh"]
      /\ UNCHANGED <<codes, refresh, revoked, faults, now, crashes>>
  BY <1>1 DEF CreateAccess, Step, j
<1>6. TypeOK'
  BY <1>1, <1>2, <1>4, <1>5 DEF TypeOK, InFlight, Labels
<1>7. Issuing' = Issuing /\ HalfDone' = HalfDone \cup {h} /\ h \notin HalfDone /\ h \in Issuing
  BY <1>3, <1>5 DEF Issuing, HalfDone, TypeOK
<1>8. Issued' = Issued /\ (\A g : Spent(g)' <=> Spent(g))
  BY <1>5 DEF Spent, Issued
<1>9. /\ job'[h] = j /\ pc'[h] = "refresh"
      /\ \A g \in Handlers \ {h} : job'[g] = job[g] /\ pc'[g] = pc[g]
      /\ access'[p] = "live" /\ \A q \in Pairs \ {p} : access'[q] = access[q]
  BY <1>1, <1>2, <1>5 DEF TypeOK
<1>10. \A g \in HalfDone : job[g].pair # p
  BY <1>2 DEF HandlersOK, HalfDone
<1>11. HandlersOK'
  BY <1>2, <1>4, <1>5, <1>7, <1>8, <1>9 DEF HandlersOK
<1>12. PairsOK'
  BY <1>4, <1>7, <1>9, <1>10 DEF PairsOK, HalfDone
<1>13. RowsOK'
  BY <1>2, <1>5, <1>8, <1>9 DEF RowsOK, Issued
<1>14. GrantsOK'
  BY <1>4, <1>5, <1>7, <1>8, <1>9 DEF GrantsOK, GrantYieldsOnePair, Issuing
<1>15. FamiliesOK'
  BY <1>4, <1>5, <1>7, <1>8, <1>9 DEF FamiliesOK, OneUsableRefreshToken, Usable, Issuing
<1>16. RevokedFamilyIsDead'
  BY <1>2, <1>5, <1>8, <1>9 DEF RevokedFamilyIsDead, Dead, Issued
<1> QED BY <1>6, <1>11, <1>12, <1>13, <1>14, <1>15, <1>16

(* The refresh token of a new pair is stored, revoked if its family is.     *)
LEMMA CreateRefreshKeepsInv ==
    ASSUME IInv, NEW h \in Handlers, CreateRefresh(h)
    PROVE  IInv'
<1> USE NoneIsNoRecord DEF IInv
<1> DEFINE p == job[h].pair
           row == [family |-> job[h].family, client |-> job[h].client,
                   expires |-> now + RefreshTTL, consumed |-> FALSE,
                   revoked |-> job[h].family \in revoked, grant |-> job[h].grant]
<1>1. pc[h] = "refresh" /\ job[h] \in Jobs /\ h \in Issuing /\ h \in HalfDone
  BY DEF CreateRefresh, TypeOK, InFlight, Issuing, HalfDone
<1>2. p \in Pairs /\ access[p] # "absent" /\ refresh[p] = None
  BY <1>1 DEF HandlersOK
<1>3. /\ row \in RefreshRows /\ row.family = job[h].family /\ row.grant = job[h].grant
      /\ row.revoked = (job[h].family \in revoked)
  BY <1>1, OAuthAssumption DEF TypeOK, Jobs, RefreshRows
<1>4. /\ refresh' = [refresh EXCEPT ![p] = row]
      /\ access' = IF job[h].family \in revoked
                   THEN [access EXCEPT ![p] = "revoked"] ELSE access
      /\ job' = [job EXCEPT ![h] = None] /\ pc' = [pc EXCEPT ![h] = "idle"]
      /\ UNCHANGED <<codes, revoked, faults, now, crashes>>
  BY DEF CreateRefresh, create_oauth_refresh_token, RevokedAtBirth, Answer, Step
<1> HIDE DEF p, row
<1>5. TypeOK'
  BY <1>2, <1>3, <1>4 DEF TypeOK, InFlight, Labels
<1>6. /\ Issued' = Issued \cup {p} /\ p \notin Issued /\ refresh'[p] = row
      /\ \A q \in Issued : refresh'[q] = refresh[q] /\ access'[q] = access[q]
      /\ \A q \in Pairs \ {p} : refresh'[q] = refresh[q]
      /\ \A q \in Pairs : access'[q] = "absent" => access[q] = "absent"
  BY <1>2, <1>3, <1>4 DEF Issued, TypeOK
<1>7. /\ Issuing' = Issuing \ {h} /\ HalfDone' = HalfDone \ {h}
      /\ \A g \in Handlers \ {h} : pc'[g] = pc[g] /\ job'[g] = job[g]
      /\ pc'[h] = "idle"
  BY <1>4 DEF Issuing, HalfDone, TypeOK
<1>8. \A g : Spent(g) => Spent(g)'
  BY <1>4, <1>6 DEF Spent
<1>9. HandlersOK'
  <2>1. \A g \in HalfDone' : job[g].pair # p
    BY <1>1, <1>7 DEF PairsOK, p
  <2> QED BY <1>6, <1>7, <1>8, <2>1 DEF HandlersOK, Issuing, HalfDone
<1>10. PairsOK'
  BY <1>7 DEF PairsOK, HalfDone
<1>11. RowsOK'
  <2>1. \A g : g = job[h].grant => Spent(g)'
    BY <1>1, <1>8 DEF HandlersOK
  <2>2. \A q \in Issued' : access'[q] # "absent"
    BY <1>2, <1>6 DEF RowsOK, Issued
  <2>3. \A q \in Issued' : \A g : refresh'[q].grant = g => Spent(g)'
    BY <1>3, <1>6, <1>8, <2>1 DEF RowsOK
  <2> QED BY <2>2, <2>3 DEF RowsOK
<1>12. GrantsOK'
  BY <1>1, <1>3, <1>6, <1>7 DEF GrantsOK, GrantYieldsOnePair, Issuing
<1>13. FamiliesOK'
  <2>1. \A q \in Issued : Usable(q)' <=> Usable(q)
    BY <1>6 DEF Usable
  <2>2. \A g \in Issuing' : g \in Issuing /\ job'[g] = job[g] /\ job[g].family # row.family
    BY <1>1, <1>3, <1>7 DEF FamiliesOK, Issuing
  <2>3. \A q \in Issued : Usable(q) => refresh[q].family # row.family
    BY <1>1, <1>3 DEF FamiliesOK
  <2>4. \A g \in Issuing', q \in Issued' : Usable(q)' => refresh'[q].family # job'[g].family
    BY <1>6, <2>1, <2>2 DEF FamiliesOK
  <2>5. OneUsableRefreshToken'
    BY <1>6, <2>1, <2>3 DEF FamiliesOK, OneUsableRefreshToken, Usable
  <2> QED BY <2>2, <2>4, <2>5 DEF FamiliesOK
<1>14. RevokedFamilyIsDead'
  <2>1. row.family \in revoked => row.revoked /\ access'[p] = "revoked"
    BY <1>2, <1>3, <1>4 DEF TypeOK
  <2>2. revoked' = revoked
    BY <1>4
  <2>3. \A q \in Issued : refresh'[q].family \in revoked =>
            refresh'[q].revoked /\ access'[q] = "revoked"
    BY <1>6 DEF RevokedFamilyIsDead, Dead
  <2> QED BY <1>6, <2>1, <2>2, <2>3 DEF RevokedFamilyIsDead, Dead
<1> QED BY <1>5, <1>9, <1>10, <1>11, <1>12, <1>13, <1>14

(* One access token is revoked, by the command line or in compensation.     *)
LEMMA RevokeOneKeepsInv ==
    ASSUME IInv, NEW p \in Pairs, access[p] # "absent",
           access' = [access EXCEPT ![p] = "revoked"],
           UNCHANGED <<codes, refresh, revoked>>,
           \A h \in Handlers : \/ pc'[h] = "idle"
                               \/ pc'[h] = pc[h] /\ job'[h] = job[h]
    PROVE  (HandlersOK /\ PairsOK /\ RowsOK /\ GrantsOK /\ FamiliesOK /\ RevokedFamilyIsDead)'
<1> USE DEF IInv
<1>1. \A g : Spent(g)' <=> Spent(g)
  BY DEF Spent, Issued
<1>2. \A q \in Pairs : /\ access'[q] = "absent" => access[q] = "absent"
                       /\ access[q] = "revoked" => access'[q] = "revoked"
  BY DEF TypeOK
<1>3. HandlersOK' /\ PairsOK' /\ RowsOK'
  BY <1>1, <1>2 DEF HandlersOK, PairsOK, RowsOK, Issuing, HalfDone, Issued
<1>4. GrantsOK' /\ FamiliesOK'
  BY DEF GrantsOK, GrantYieldsOnePair, FamiliesOK, OneUsableRefreshToken, Usable, Issuing, Issued
<1>5. RevokedFamilyIsDead'
  BY <1>2 DEF RevokedFamilyIsDead, Dead, Issued
<1> QED BY <1>3, <1>4, <1>5

(* Every step keeps the inductive invariant.                                *)
LEMMA StepKeepsInv == IInv /\ [Next]_vars => IInv'
<1> SUFFICES ASSUME IInv, [Next]_vars PROVE IInv'
  OBVIOUS
<1>0. TypeOK BY DEF IInv
<1> USE NoneIsNoRecord, OAuthAssumption
<1>1. ASSUME NEW c \in Codes, NEW client \in Clients, ApproveAuthorization(c, client)
      PROVE  IInv'
  BY <1>1, ApproveKeepsInv
<1>2. ASSUME NEW h \in Handlers, NEW c \in Codes, NEW client \in Clients,
             RedeemCode(h, c, client)
      PROVE  IInv'
  BY <1>2, RedeemKeepsInv
<1>3. ASSUME NEW h \in Handlers, NEW p \in Pairs, NEW client \in Clients,
             ReadRefresh(h, p, client)
      PROVE  IInv'
  BY <1>3, ReadKeepsInv
<1>4. ASSUME NEW h \in Handlers, Handle(h) PROVE IInv'
  <2>1. CASE ConsumeRefresh(h)
    BY <2>1, ConsumeKeepsInv
  <2>2. CASE RevokeReused(h)
    <3>1. job[h].family \in Families
      BY <1>0, <2>2 DEF RevokeReused, TypeOK, InFlight, Jobs
    <3>2. /\ RevokeRows(job[h].family) /\ revoked' = revoked \cup {job[h].family}
          /\ UNCHANGED <<codes, faults, now, crashes>>
          /\ job' = [job EXCEPT ![h] = None] /\ pc' = [pc EXCEPT ![h] = "idle"]
      BY <2>2 DEF RevokeReused, revoke_oauth_refresh_token_family, Answer, Step
    <3>3. TypeOK'
      BY <1>0, <3>1, <3>2, RevokeRowsLemma DEF TypeOK, InFlight, Labels
    <3>4. \A g \in Handlers : pc'[g] = "idle" \/ (pc'[g] = pc[g] /\ job'[g] = job[g])
      BY <1>0, <3>2 DEF TypeOK
    <3> QED BY <3>1, <3>2, <3>3, <3>4, RevocationKeepsInv DEF IInv
  <2>3. CASE CreateAccess(h)
    BY <2>3, CreateAccessKeepsInv
  <2>4. CASE CreateRefresh(h)
    BY <2>4, CreateRefreshKeepsInv
  <2>5. CASE Compensate(h)
    <3>1. job[h].pair \in Pairs /\ access[job[h].pair] # "absent"
      BY <2>5 DEF IInv, HandlersOK, HalfDone, Compensate
    <3>2. /\ access' = [access EXCEPT ![job[h].pair] = "revoked"]
          /\ UNCHANGED <<codes, refresh, revoked, faults, now, crashes>>
          /\ job' = [job EXCEPT ![h] = None] /\ pc' = [pc EXCEPT ![h] = "idle"]
      BY <2>5 DEF Compensate, Answer, Step
    <3>3. TypeOK'
      BY <1>0, <3>1, <3>2 DEF TypeOK, InFlight, Labels
    <3>4. \A g \in Handlers : pc'[g] = "idle" \/ (pc'[g] = pc[g] /\ job'[g] = job[g])
      BY <1>0, <3>2 DEF TypeOK
    <3> QED BY <3>1, <3>2, <3>3, <3>4, RevokeOneKeepsInv DEF IInv
  <2> QED BY <1>4, <2>1, <2>2, <2>3, <2>4, <2>5 DEF Handle
<1>5. ASSUME NEW h \in Handlers, StoreFails(h) PROVE IInv'
  <2>1. TypeOK'
    BY <1>0, <1>5 DEF TypeOK, StoreFails, AfterFailure, Answer, Step, tables, InFlight, Labels
  <2>2. UNCHANGED tables /\
        \A g \in Handlers : \/ pc'[g] = "idle"
                            \/ pc'[g] = pc[g] /\ job'[g] = job[g]
                            \/ pc[g] = "refresh" /\ pc'[g] = "compensate" /\ job'[g] = job[g]
    BY <1>0, <1>5 DEF TypeOK, StoreFails, AfterFailure, Answer, Step
  <2> QED BY <2>1, <2>2, RequestsStopKeepsInv DEF IInv
<1>6. ASSUME NEW p \in Pairs, RevokeByRefresh(p) \/ RevokeByAccess(p) PROVE IInv'
  <2>1. refresh[p].family \in Families
    BY <1>0, <1>6 DEF RevokeByRefresh, RevokeByAccess, TypeOK, RefreshRows
  <2>2. /\ RevokeRows(refresh[p].family)
        /\ revoked' \in {revoked, revoked \cup {refresh[p].family}}
        /\ UNCHANGED <<codes, pc, job, now, faults, crashes>>
    BY <1>6 DEF RevokeByRefresh, RevokeByAccess, revoke_oauth_refresh_token_family
  <2>3. TypeOK'
    BY <1>0, <2>1, <2>2, RevokeRowsLemma DEF TypeOK, InFlight
  <2> QED BY <2>1, <2>2, <2>3, RevocationKeepsInv DEF IInv
<1>7. ASSUME NEW p \in Pairs, RevokeToken(p) PROVE IInv'
  <2>1. TypeOK'
    BY <1>0, <1>7 DEF TypeOK, RevokeToken, InFlight
  <2> QED BY <1>7, <2>1, RevokeOneKeepsInv DEF IInv, RevokeToken
<1>8. CASE Tick \/ Crash \/ UNCHANGED vars
  <2>1. TypeOK'
    BY <1>0, <1>8 DEF TypeOK, Tick, Crash, vars, tables, InFlight, Labels
  <2>2. UNCHANGED tables /\
        \A g \in Handlers : pc'[g] = "idle" \/ (pc'[g] = pc[g] /\ job'[g] = job[g])
    BY <1>8 DEF Tick, Crash, vars
  <2> QED BY <2>1, <2>2, RequestsStopKeepsInv DEF IInv
<1> QED BY <1>1, <1>2, <1>3, <1>4, <1>5, <1>6, <1>7, <1>8 DEF Next

(* The empty tables satisfy the inductive invariant.                       *)
LEMMA InitHasInv == Init => IInv
<1> SUFFICES ASSUME Init PROVE IInv
  OBVIOUS
<1>1. TypeOK
  BY OAuthAssumption DEF Init, TypeOK, Labels, InFlight
<1>2. Issued = {} /\ Issuing = {} /\ HalfDone = {} /\ \A h \in Handlers : pc[h] = "idle"
  BY DEF Init, Issued, Issuing, HalfDone
<1> QED BY <1>1, <1>2 DEF IInv, HandlersOK, PairsOK, RowsOK, GrantsOK, GrantYieldsOnePair,
       FamiliesOK, OneUsableRefreshToken, RevokedFamilyIsDead

(* The inductive invariant holds in every reachable state of the token      *)
(* endpoint.                                                                *)
THEOREM Inductive == Spec => []IInv
BY InitHasInv, StepKeepsInv, PTL DEF Spec

-----------------------------------------------------------------------------
(* The token tables and the requests in flight are always well-formed.      *)
THEOREM TypeCorrect == Spec => []TypeOK
<1>1. IInv => TypeOK BY DEF IInv
<1> QED BY <1>1, Inductive, PTL

(* No token of a revoked family is or becomes live, whatever refreshes were *)
(* in flight when the family was revoked.                                   *)
THEOREM RevocationIsComplete == Spec => []RevokedFamilyIsDead
<1>1. IInv => RevokedFamilyIsDead BY DEF IInv
<1> QED BY <1>1, Inductive, PTL

(* A code or a refresh token yields at most one pair, however many requests *)
(* present it.                                                              *)
THEOREM GrantsAreSingleUse == Spec => []GrantYieldsOnePair
<1>1. IInv => GrantYieldsOnePair BY DEF IInv, GrantsOK
<1> QED BY <1>1, Inductive, PTL

(* A family has at most one refresh token that can still be exchanged.      *)
THEOREM FamiliesNeverFork == Spec => []OneUsableRefreshToken
<1>1. IInv => OneUsableRefreshToken BY DEF IInv, FamiliesOK
<1> QED BY <1>1, Inductive, PTL

-----------------------------------------------------------------------------
(* An access token without its refresh token is in the hands of a request,  *)
(* or its request was lost to a crash or to two failed calls: the one that  *)
(* stores the refresh token and the one that compensates.                   *)
Claimed(p) == \E h \in HalfDone : job[h].pair = p

OrphansOK ==
    /\ \A h \in InFlight : job[h].pair # None => h \in HalfDone
    /\ \A h \in Handlers : pc[h] = "compensate" => faults >= 1
    /\ \A p \in Pairs : access[p] = "live" /\ refresh[p] = None /\ ~Claimed(p)
                          => faults >= 2 \/ crashes >= 1

(* A step that adds no access token, takes no refresh token away and lets   *)
(* no claim go keeps it.                                                    *)
LEMMA ClaimsKept ==
    ASSUME OrphansOK, faults \in Nat, crashes \in Nat, faults' \in Nat, crashes' \in Nat,
           faults <= faults', crashes <= crashes',
           \A h \in InFlight' : job'[h].pair # None => h \in HalfDone',
           \A h \in Handlers : pc'[h] = "compensate" => faults' >= 1,
           \A p \in Pairs : access'[p] = "live" /\ refresh'[p] = None /\ ~Claimed(p)' =>
                              \/ access[p] = "live" /\ refresh[p] = None /\ ~Claimed(p)
                              \/ faults' >= 2 \/ crashes' >= 1
    PROVE  OrphansOK'
BY DEF OrphansOK

(* Every step keeps it.                                                     *)
LEMMA StepKeepsOrphans == IInv /\ OrphansOK /\ [Next]_vars => OrphansOK'
<1> SUFFICES ASSUME IInv, OrphansOK, [Next]_vars PROVE OrphansOK'
  OBVIOUS
<1>0. TypeOK /\ HandlersOK /\ PairsOK
  BY DEF IInv
<1> USE NoneIsNoRecord, OAuthAssumption
<1>1. ASSUME UNCHANGED <<pc, job, faults, crashes>>,
             \A p \in Pairs : access'[p] = "live" /\ refresh'[p] = None =>
                                access[p] = "live" /\ refresh[p] = None
      PROVE  OrphansOK'
  BY <1>0, <1>1, ClaimsKept DEF TypeOK, OrphansOK, InFlight, HalfDone, Claimed
<1>2. ASSUME NEW h \in Handlers, NEW j, NEW next, Step(h, j, next), faults' = faults,
             h \notin HalfDone, next \notin {"refresh", "compensate"},
             next # "idle" => j.pair = None,
             \A p \in Pairs : access'[p] = "live" /\ refresh'[p] = None =>
                                access[p] = "live" /\ refresh[p] = None
      PROVE  OrphansOK'
  <2>1. \A g \in Handlers : g # h => pc'[g] = pc[g] /\ job'[g] = job[g]
    BY <1>0, <1>2 DEF Step, TypeOK
  <2>2. pc'[h] = next /\ job'[h] = j
    BY <1>0, <1>2 DEF Step, TypeOK
  <2>3. \A p \in Pairs : Claimed(p) => Claimed(p)'
    BY <1>2, <2>1 DEF Claimed, HalfDone
  <2> QED
    BY <1>0, <1>2, <2>1, <2>2, <2>3, ClaimsKept DEF TypeOK, OrphansOK, InFlight, HalfDone, Step
<1>3. ASSUME NEW c \in Codes, NEW client \in Clients, ApproveAuthorization(c, client)
      PROVE  OrphansOK'
  BY <1>1, <1>3 DEF ApproveAuthorization
<1>4. ASSUME NEW h \in Handlers, NEW c \in Codes, NEW client \in Clients,
             RedeemCode(h, c, client)
      PROVE  OrphansOK'
  BY <1>2, <1>4 DEF RedeemCode, HalfDone
<1>5. ASSUME NEW h \in Handlers, NEW p \in Pairs, NEW client \in Clients,
             ReadRefresh(h, p, client)
      PROVE  OrphansOK'
  BY <1>2, <1>5 DEF ReadRefresh, HalfDone, tables
<1>6. ASSUME NEW h \in Handlers, Handle(h) PROVE OrphansOK'
  <2>1. CASE ConsumeRefresh(h)
    <3>1. job[h].pair = None
      BY <2>1 DEF ConsumeRefresh, OrphansOK, InFlight, HalfDone
    <3>2. \A q \in Pairs : refresh'[q] = None => refresh[q] = None
      <4>1. PICK p \in Issued : job[h].grant = <<"refresh", p>>
        BY <1>0, <2>1 DEF ConsumeRefresh, HandlersOK
      <4>2. refresh[p] \in RefreshRows /\ p \in Pairs
        BY <1>0 DEF TypeOK, Issued
      <4>3. [refresh[p] EXCEPT !.consumed = TRUE] # None
        BY <4>2 DEF RefreshRows
      <4>4. refresh' = [refresh EXCEPT ![p] = [@ EXCEPT !.consumed = TRUE]] \/ refresh' = refresh
        BY <2>1, <4>1 DEF ConsumeRefresh
      <4> QED
        BY <1>0, <4>2, <4>3, <4>4 DEF TypeOK
    <3> QED
      BY <1>2, <2>1, <3>1, <3>2 DEF ConsumeRefresh, LostRace, HalfDone
  <2>2. CASE RevokeReused(h)
    <3>1. \A q \in Pairs : access'[q] = "live" /\ refresh'[q] = None =>
                             access[q] = "live" /\ refresh[q] = None
      BY <1>0, <2>2 DEF RevokeReused, revoke_oauth_refresh_token_family, RevokeRows,
                        FamilyRows, Issued, TypeOK, RefreshRows
    <3> QED
      BY <1>2, <2>2, <3>1 DEF RevokeReused, Answer, HalfDone
  <2>3. CASE CreateAccess(h)
    <3>1. PICK p \in FreshPairs : /\ access' = [access EXCEPT ![p] = "live"]
                                  /\ Step(h, [job[h] EXCEPT !.pair = p], "refresh")
      BY <2>3 DEF CreateAccess
    <3>2. UNCHANGED <<refresh, faults, crashes>> /\ h \notin HalfDone /\ job[h] \in Jobs
      BY <1>0, <2>3, <3>1 DEF CreateAccess, Step, HalfDone, TypeOK, InFlight
    <3>3. \A g \in Handlers : g # h => pc'[g] = pc[g] /\ job'[g] = job[g]
      BY <1>0, <3>1 DEF Step, TypeOK
    <3>4. pc'[h] = "refresh" /\ job'[h].pair = p
      BY <1>0, <3>1, <3>2 DEF Step, TypeOK, Jobs
    <3>5. \A q \in Pairs : (Claimed(q) => Claimed(q)') /\ (q = p => Claimed(q)')
      BY <3>2, <3>3, <3>4 DEF Claimed, HalfDone
    <3>6. \A q \in Pairs : q # p => access'[q] = access[q]
      BY <1>0, <3>1 DEF TypeOK
    <3> QED
      BY <1>0, <3>2, <3>3, <3>4, <3>5, <3>6, ClaimsKept DEF TypeOK, OrphansOK, InFlight, HalfDone
  <2>4. CASE CreateRefresh(h)
    <3>1. /\ UNCHANGED <<faults, crashes>> /\ pc' = [pc EXCEPT ![h] = "idle"]
          /\ job' = [job EXCEPT ![h] = None]
      BY <2>4 DEF CreateRefresh, Answer, Step
    <3>2. \A g \in Handlers : g # h => pc'[g] = pc[g] /\ job'[g] = job[g]
      BY <1>0, <3>1 DEF TypeOK
    <3>3. pc'[h] = "idle"
      BY <1>0, <3>1 DEF TypeOK
    <3>4. h \in HalfDone /\ job[h].pair \in Pairs
      BY <1>0, <2>4 DEF CreateRefresh, HandlersOK, HalfDone
    <3>5. refresh'[job[h].pair] # None
      <4> DEFINE row == [family |-> job[h].family, client |-> job[h].client,
                         expires |-> now + RefreshTTL, consumed |-> FALSE,
                         revoked |-> job[h].family \in revoked, grant |-> job[h].grant]
      <4>1. job[h] \in Jobs
        BY <1>0, <2>4 DEF CreateRefresh, TypeOK, InFlight
      <4>2. row \in RefreshRows
        BY <1>0, <4>1 DEF TypeOK, Jobs, RefreshRows
      <4>3. refresh' = [refresh EXCEPT ![job[h].pair] = row]
        BY <2>4 DEF CreateRefresh, create_oauth_refresh_token, RevokedAtBirth
      <4> QED
        BY <1>0, <3>4, <4>2, <4>3 DEF TypeOK
    <3>6. \A q \in Pairs : q # job[h].pair =>
                             /\ refresh'[q] = refresh[q] /\ access'[q] = access[q]
                             /\ Claimed(q) => Claimed(q)'
      BY <1>0, <2>4, <3>2 DEF CreateRefresh, create_oauth_refresh_token, TypeOK, Claimed, HalfDone
    <3> QED
      BY <1>0, <3>1, <3>2, <3>3, <3>5, <3>6, ClaimsKept DEF TypeOK, OrphansOK, InFlight, HalfDone
  <2>5. CASE Compensate(h)
    <3>1. /\ UNCHANGED <<faults, crashes, refresh>> /\ pc' = [pc EXCEPT ![h] = "idle"]
          /\ job' = [job EXCEPT ![h] = None]
          /\ access' = [access EXCEPT ![job[h].pair] = "revoked"]
      BY <2>5 DEF Compensate, Answer, Step
    <3>2. \A g \in Handlers : g # h => pc'[g] = pc[g] /\ job'[g] = job[g]
      BY <1>0, <3>1 DEF TypeOK
    <3>3. pc'[h] = "idle"
      BY <1>0, <3>1 DEF TypeOK
    <3>4. \A q \in Pairs : /\ q # job[h].pair => access'[q] = access[q] /\ (Claimed(q) => Claimed(q)')
                           /\ q = job[h].pair => access'[q] # "live"
      BY <1>0, <3>1, <3>2 DEF TypeOK, Claimed, HalfDone
    <3> QED
      BY <1>0, <3>1, <3>2, <3>3, <3>4, ClaimsKept DEF TypeOK, OrphansOK, InFlight, HalfDone
  <2> QED BY <1>6, <2>1, <2>2, <2>3, <2>4, <2>5 DEF Handle
<1>7. ASSUME NEW h \in Handlers, StoreFails(h) PROVE OrphansOK'
  <2>1. UNCHANGED <<access, refresh, crashes>> /\ faults' = faults + 1
    BY <1>7 DEF StoreFails, AfterFailure, Answer, Step, tables
  <2>2. \A g \in Handlers : g # h => pc'[g] = pc[g] /\ job'[g] = job[g]
    BY <1>0, <1>7 DEF StoreFails, AfterFailure, Answer, Step, TypeOK
  <2>3. CASE pc[h] = "refresh"
    <3>1. pc'[h] = "compensate" /\ job'[h] = job[h]
      BY <1>0, <1>7, <2>3 DEF StoreFails, AfterFailure, Step, TypeOK
    <3>2. \A q \in Pairs : Claimed(q) => Claimed(q)'
      BY <2>2, <3>1 DEF Claimed, HalfDone
    <3> QED
      BY <1>0, <2>1, <2>2, <3>1, <3>2, ClaimsKept DEF TypeOK, OrphansOK, InFlight, HalfDone
  <2>4. CASE pc[h] # "refresh"
    <3>1. pc'[h] = "idle"
      BY <1>0, <1>7, <2>4 DEF StoreFails, AfterFailure, Answer, Step, TypeOK
    <3>2. \A q \in Pairs : Claimed(q) => Claimed(q)' \/ faults' >= 2
      BY <1>0, <2>1, <2>2, <2>4 DEF Claimed, HalfDone, OrphansOK, TypeOK
    <3> QED
      BY <1>0, <2>1, <2>2, <3>1, <3>2, ClaimsKept DEF TypeOK, OrphansOK, InFlight, HalfDone
  <2> QED BY <2>3, <2>4
<1>8. ASSUME NEW p \in Pairs, RevokeByRefresh(p) \/ RevokeByAccess(p) \/ RevokeToken(p)
      PROVE  OrphansOK'
  <2>1. UNCHANGED <<pc, job, faults, crashes>>
    BY <1>8 DEF RevokeByRefresh, RevokeByAccess, RevokeToken
  <2>2. \A q \in Pairs : access'[q] = "live" /\ refresh'[q] = None =>
                           access[q] = "live" /\ refresh[q] = None
    BY <1>0, <1>8 DEF RevokeByRefresh, RevokeByAccess, RevokeToken, RevokeRows, FamilyRows,
           revoke_oauth_refresh_token_family, Issued, TypeOK, RefreshRows
  <2> QED BY <1>1, <2>1, <2>2
<1>9. CASE Tick \/ UNCHANGED vars
  BY <1>1, <1>9 DEF Tick, vars, tables
<1>10. CASE Crash
  <2>1. faults' = faults /\ crashes' = crashes + 1 /\ \A h \in Handlers : pc'[h] = "idle"
    BY <1>10 DEF Crash
  <2> QED
    BY <1>0, <2>1, ClaimsKept DEF TypeOK, InFlight
<1> QED BY <1>3, <1>4, <1>5, <1>6, <1>7, <1>8, <1>9, <1>10 DEF Next

(* A live access token that no family revocation would reach is left behind *)
(* only by a crash, or by a failed call whose compensation failed as well   *)
(* (oauth_authorization.py, _issue_access_and_refresh_tokens).              *)
THEOREM OrphansNeedTwoFailures == Spec => []OrphanNeedsTwoFailures
<1>1. Init => OrphansOK
  BY OAuthAssumption DEF Init, OrphansOK, InFlight
<1>2. IInv /\ OrphansOK => OrphanNeedsTwoFailures
  BY DEF OrphansOK, OrphanNeedsTwoFailures, Claimed, HalfDone, InFlight
<1> QED BY <1>1, <1>2, StepKeepsOrphans, Inductive, PTL DEF Spec
=============================================================================
