---------------------------- MODULE OAuthTokens ----------------------------
(***************************************************************************)
(* The token endpoint of the hub's authorization server.  A grant is a     *)
(* sequence of separate awaited store calls, each one transaction, so the  *)
(* requests of one hub process interleave between them.  An access token   *)
(* and the refresh token issued with it form a pair; the pairs that descend *)
(* from one authorization code form a family.                              *)
(***************************************************************************)
EXTENDS Integers, FiniteSets

CONSTANTS
    Handlers,       \* token requests the hub serves at the same time
    Clients,        \* OAuth clients
    Codes,          \* authorization codes
    Families,       \* refresh-token family ids
    Pairs,          \* pairs of an access token and a refresh token
    CodeTTL, RefreshTTL, \* lifetimes, in clock ticks
    Day,            \* clock ticks in a day
    TextTimestamps, \* the store compares timestamps as text (SQLite)
    MaxTime, MaxFaults, MaxCrashes, \* bounds of the exploration
    None            \* absent value

ASSUME OAuthAssumption ==
    /\ CodeTTL \in Nat /\ RefreshTTL \in Nat /\ Day \in Nat \ {0}
    /\ TextTimestamps \in BOOLEAN
    /\ MaxTime \in Nat /\ MaxFaults \in Nat /\ MaxCrashes \in Nat
    /\ None \notin Pairs

VARIABLES
    codes,     \* oauth_authorization_codes
    access,    \* auth_tokens: "absent", "live" or "revoked"
    refresh,   \* oauth_refresh_tokens
    revoked,   \* oauth_refresh_token_families: revoked families
    pc, job,   \* the token request each handler serves, and its locals
    now,       \* the clock
    faults, crashes \* counters that bound the exploration

tables == <<codes, access, refresh, revoked>>
vars == <<tables, pc, job, now, faults, crashes>>

CodeRows == [client: Clients, expires: Nat, consumed: BOOLEAN]

(* What a pair was issued for: a code, or the refresh token of a pair.      *)
Grants == ({"code"} \X Codes) \cup ({"refresh"} \X Pairs)

(* "grant" is not a column: it records what the row was issued for.         *)
RefreshRows == [family: Families, client: Clients, expires: Nat,
                consumed: BOOLEAN, revoked: BOOLEAN, grant: Grants]

Jobs == [grant: Grants, client: Clients, family: Families, pair: Pairs \cup {None}]

ASSUME NoneIsNoRecord == None \notin CodeRows \cup RefreshRows \cup Jobs

Issued == {p \in Pairs : refresh[p] # None}
FamilyRows(f) == {p \in Issued : refresh[p].family = f}
InFlight == {h \in Handlers : pc[h] # "idle"}

(* Ids are random, so a new one is one that nothing uses yet.               *)
FreshFamilies == {f \in Families : /\ f \notin revoked
                                   /\ FamilyRows(f) = {}
                                   /\ \A h \in InFlight : job[h].family # f}
FreshPairs == {p \in Pairs : access[p] = "absent"}

-----------------------------------------------------------------------------
(* Expiry.  The endpoint compares instants.  SQLite compares the text       *)
(* "2026-01-01T10:05:00+00:00" with "2026-01-01 10:10:00": the dates decide, *)
(* and within one date "T" is greater than the blank.                       *)

timestamp_is_expired(expires) == expires <= now

UnexpiredInStore(expires) ==
    IF TextTimestamps THEN expires \div Day >= now \div Day ELSE expires > now

-----------------------------------------------------------------------------
(* Store transactions.                                                      *)

CodeRedeemable(c, client) ==
    /\ codes[c] # None
    /\ codes[c].client = client
    /\ ~codes[c].consumed
    /\ UnexpiredInStore(codes[c].expires)

(* Mutant: two requests that both read the unused row may both consume it.  *)
RefreshConsumableTwice(p) ==
    /\ ~refresh[p].revoked
    /\ UnexpiredInStore(refresh[p].expires)

RefreshConsumable(p) ==
    /\ ~refresh[p].consumed /\ ~refresh[p].revoked
    /\ UnexpiredInStore(refresh[p].expires)

RevokeRows(f) ==
    /\ access' = [p \in Pairs |-> IF p \in FamilyRows(f) THEN "revoked" ELSE access[p]]
    /\ refresh' = [p \in Pairs |-> IF p \in FamilyRows(f)
                                   THEN [refresh[p] EXCEPT !.revoked = TRUE] ELSE refresh[p]]

revoke_oauth_refresh_token_family(f) ==
    /\ revoked' = revoked \cup {f}
    /\ RevokeRows(f)

(* Mutant: the record of revoked families is not consulted.                 *)
NeverRevokedAtBirth(j) == FALSE

RevokedAtBirth(j) == j.family \in revoked

(* A row added to a revoked family is revoked at birth, with its access     *)
(* token.                                                                   *)
create_oauth_refresh_token(j) ==
    /\ refresh' = [refresh EXCEPT ![j.pair] =
                     [family |-> j.family, client |-> j.client,
                      expires |-> now + RefreshTTL, consumed |-> FALSE,
                      revoked |-> RevokedAtBirth(j), grant |-> j.grant]]
    /\ access' = IF RevokedAtBirth(j)
                 THEN [access EXCEPT ![j.pair] = "revoked"] ELSE access

-----------------------------------------------------------------------------
Init ==
    /\ codes = [c \in Codes |-> None]
    /\ access = [p \in Pairs |-> "absent"]
    /\ refresh = [p \in Pairs |-> None]
    /\ revoked = {}
    /\ pc = [h \in Handlers |-> "idle"]
    /\ job = [h \in Handlers |-> None]
    /\ now = 0 /\ faults = 0 /\ crashes = 0

Step(h, j, next) ==
    /\ job' = [job EXCEPT ![h] = j]
    /\ pc' = [pc EXCEPT ![h] = next]
    /\ UNCHANGED <<now, crashes>>

Answer(h) == Step(h, None, "idle")

(* The resource owner approves: a code is stored for the client.            *)
ApproveAuthorization(c, client) ==
    /\ codes[c] = None
    /\ codes' = [codes EXCEPT ![c] = [client |-> client, expires |-> now + CodeTTL,
                                      consumed |-> FALSE]]
    /\ UNCHANGED <<access, refresh, revoked, pc, job, now, faults, crashes>>

(* grant_type=authorization_code.  A code that cannot be consumed is        *)
(* answered with invalid_grant and changes nothing.                         *)
RedeemCode(h, c, client) ==
    /\ pc[h] = "idle"
    /\ CodeRedeemable(c, client)
    /\ codes' = [codes EXCEPT ![c].consumed = TRUE]
    /\ \E f \in FreshFamilies :
         Step(h, [grant |-> <<"code", c>>, client |-> client, family |-> f, pair |-> None],
              "access")
    /\ UNCHANGED <<access, refresh, revoked, faults>>

(* grant_type=refresh_token.  An unknown token, another client's token and  *)
(* an expired one are answered with invalid_grant and change nothing.       *)
ReadRefresh(h, p, client) ==
    LET row == refresh[p]
        j == [grant |-> <<"refresh", p>>, client |-> client, family |-> row.family,
              pair |-> None]
    IN  /\ pc[h] = "idle"
        /\ row # None
        /\ row.client = client
        /\ \/ (row.revoked \/ row.consumed) /\ Step(h, j, "reuse")
           \/ /\ ~row.revoked /\ ~row.consumed /\ ~timestamp_is_expired(row.expires)
              /\ Step(h, j, "consume")
        /\ UNCHANGED <<tables, faults>>

(* Mutant: the loser of the race is only refused.                           *)
RefuseOnly(h) == Answer(h)

LostRace(h) == Step(h, job[h], "reuse")

(* Lost the race for the token: it counts as reuse.                         *)
ConsumeRefresh(h) ==
    LET p == job[h].grant[2]
    IN  /\ pc[h] = "consume"
        /\ IF RefreshConsumable(p)
           THEN /\ refresh' = [refresh EXCEPT ![p].consumed = TRUE]
                /\ Step(h, job[h], "access")
           ELSE LostRace(h) /\ UNCHANGED refresh
        /\ UNCHANGED <<codes, access, revoked, faults>>

RevokeReused(h) ==
    /\ pc[h] = "reuse"
    /\ revoke_oauth_refresh_token_family(job[h].family)
    /\ Answer(h)
    /\ UNCHANGED <<codes, faults>>

CreateAccess(h) ==
    /\ pc[h] = "access"
    /\ \E p \in FreshPairs :
         /\ access' = [access EXCEPT ![p] = "live"]
         /\ Step(h, [job[h] EXCEPT !.pair = p], "refresh")
    /\ UNCHANGED <<codes, refresh, revoked, faults>>

CreateRefresh(h) ==
    /\ pc[h] = "refresh"
    /\ create_oauth_refresh_token(job[h])
    /\ Answer(h)
    /\ UNCHANGED <<codes, revoked, faults>>

(* Mutant: a failed refresh token is not compensated.                       *)
FailUncompensated(h) == Answer(h)

AfterFailure(h) == IF pc[h] = "refresh" THEN Step(h, job[h], "compensate") ELSE Answer(h)

(* A store call raises: the request fails, except that a failed refresh     *)
(* token is compensated by revoking the access token stored before it.      *)
StoreFails(h) ==
    /\ pc[h] # "idle"
    /\ faults < MaxFaults
    /\ faults' = faults + 1
    /\ AfterFailure(h)
    /\ UNCHANGED tables

Compensate(h) ==
    /\ pc[h] = "compensate"
    /\ access' = [access EXCEPT ![job[h].pair] = "revoked"]
    /\ Answer(h)
    /\ UNCHANGED <<codes, refresh, revoked, faults>>

(* /oauth/revoke with a refresh token, and with an access token.  Only the  *)
(* former records the family as revoked.                                    *)
RevokeByRefresh(p) ==
    /\ refresh[p] # None
    /\ revoke_oauth_refresh_token_family(refresh[p].family)
    /\ UNCHANGED <<codes, pc, job, now, faults, crashes>>

RevokeByAccess(p) ==
    /\ refresh[p] # None
    /\ RevokeRows(refresh[p].family)
    /\ UNCHANGED <<codes, revoked, pc, job, now, faults, crashes>>

(* The command line revokes one listed access token.                        *)
RevokeToken(p) ==
    /\ access[p] = "live"
    /\ access' = [access EXCEPT ![p] = "revoked"]
    /\ UNCHANGED <<codes, refresh, revoked, pc, job, now, faults, crashes>>

Tick ==
    /\ now < MaxTime
    /\ now' = now + 1
    /\ UNCHANGED <<tables, pc, job, faults, crashes>>

(* The hub process stops and is restarted: requests in flight are gone.     *)
Crash ==
    /\ crashes < MaxCrashes
    /\ crashes' = crashes + 1
    /\ pc' = [h \in Handlers |-> "idle"]
    /\ job' = [h \in Handlers |-> None]
    /\ UNCHANGED <<tables, now, faults>>

Handle(h) == \/ ConsumeRefresh(h) \/ RevokeReused(h) \/ CreateAccess(h)
             \/ CreateRefresh(h) \/ Compensate(h)

Next ==
    \/ \E c \in Codes, client \in Clients : ApproveAuthorization(c, client)
    \/ \E h \in Handlers :
         \/ \E c \in Codes, client \in Clients : RedeemCode(h, c, client)
         \/ \E p \in Pairs, client \in Clients : ReadRefresh(h, p, client)
         \/ Handle(h)
         \/ StoreFails(h)
    \/ \E p \in Pairs : RevokeByRefresh(p) \/ RevokeByAccess(p) \/ RevokeToken(p)
    \/ Tick \/ Crash

Spec == Init /\ [][Next]_vars

(* A request that is being served keeps running unless the hub stops.       *)
FairSpec == Spec /\ \A h \in Handlers : WF_vars(Handle(h))

-----------------------------------------------------------------------------
(* Properties.                                                              *)

Labels == {"idle", "consume", "reuse", "access", "refresh", "compensate"}

TypeOK ==
    /\ codes \in [Codes -> CodeRows \cup {None}]
    /\ access \in [Pairs -> {"absent", "live", "revoked"}]
    /\ refresh \in [Pairs -> RefreshRows \cup {None}]
    /\ revoked \subseteq Families
    /\ pc \in [Handlers -> Labels]
    /\ job \in [Handlers -> Jobs \cup {None}]
    /\ \A h \in InFlight : job[h] # None
    /\ now \in Nat /\ faults \in Nat /\ crashes \in Nat

Dead(p) == refresh[p].revoked /\ access[p] = "revoked"

(* Once a family is recorded as revoked, none of its refresh tokens and no  *)
(* linked access token is live, and none becomes live again: also not the   *)
(* pair of a refresh that was in flight when a reuse was detected.          *)
RevokedFamilyIsDead == \A p \in Issued : refresh[p].family \in revoked => Dead(p)

(* Rotation is linear: however many requests present the same code or the   *)
(* same refresh token at the same time, at most one pair is issued for it.  *)
GrantYieldsOnePair ==
    \A p, q \in Issued : refresh[p].grant = refresh[q].grant => p = q

(* A family never forks: at most one of its refresh tokens can still be     *)
(* exchanged.                                                               *)
OneUsableRefreshToken ==
    \A p, q \in Issued :
        /\ refresh[p].family = refresh[q].family
        /\ ~refresh[p].consumed /\ ~refresh[p].revoked
        /\ ~refresh[q].consumed /\ ~refresh[q].revoked
        => p = q

(* A live access token without a refresh token, which no family revocation  *)
(* would reach, is left behind only by a crash or by a failed compensation. *)
OrphanNeedsTwoFailures ==
    \A p \in Pairs :
        (access[p] = "live" /\ refresh[p] = None
           /\ \A h \in InFlight : job[h].pair # p)
        => faults >= 2 \/ crashes >= 1

(* Two requests that present the same refresh token at the same time cost   *)
(* it its family, whichever of them wins and wherever the loser finds out,  *)
(* unless a store call fails or the hub stops.                              *)
ReuseRevokes ==
    \A g, h \in Handlers, f \in Families :
        (/\ g # h /\ {g, h} \subseteq InFlight
         /\ job[g].grant = job[h].grant /\ job[g].family = f)
        ~> f \in revoked \/ faults > 0 \/ crashes > 0

=============================================================================
