-------------------------------- MODULE Login --------------------------------
(***************************************************************************)
(* Signing in to the hub from a browser.  A browser registers an OAuth     *)
(* client, asks to authorize it or to sign in, is sent to an identity      *)
(* provider with a state that the hub stores, and comes back with that      *)
(* state and a provider code to get a web session, and either a bearer      *)
(* token or the page that approves the client.  A request is a sequence of  *)
(* awaited store calls, so the requests of several tabs and browsers        *)
(* interleave between them; the cookie of the OAuth browser session is a    *)
(* value the browser sends with a request and gets back with its answer.    *)
(***************************************************************************)
EXTENDS Integers, FiniteSets

CONSTANTS
    Handlers,           \* requests the hub serves at the same time
    Browsers,           \* also the values of oauth_browser_session_id
    Subjects,           \* identities at the provider, also the hub's users
    AllowedSubjects,    \* the ones allowed_domains and allowed_emails admit
    States,             \* provider states
    Sessions,           \* web session ids, each with its CSRF token
    Tokens,             \* hub bearer tokens
    Clients,            \* OAuth client ids
    Codes,              \* authorization codes
    StateTTL, SessionTTL, TokenTTL, ClientTTL, \* lifetimes in clock ticks
    Day,                \* clock ticks in a day
    TextTimestamps,     \* the store compares timestamps as text (SQLite)
    MaxStatesOfBrowser, \* OAUTH_STATE_MAX_RECORDS
    MaxStates,          \* OAUTH_STATE_GLOBAL_MAX_RECORDS
    MaxClients,         \* OAUTH_CLIENT_MAX_RECORDS
    MaxTime, MaxFaults, MaxRequests, \* bounds of the exploration
    None                \* absent value

ASSUME LoginAssumption ==
    /\ AllowedSubjects \subseteq Subjects
    /\ StateTTL \in Nat /\ SessionTTL \in Nat /\ TokenTTL \in Nat /\ ClientTTL \in Nat
    /\ Day \in Nat \ {0} /\ TextTimestamps \in BOOLEAN
    /\ MaxStatesOfBrowser \in Nat /\ MaxStates \in Nat /\ MaxClients \in Nat
    /\ MaxTime \in Nat /\ MaxFaults \in Nat /\ MaxRequests \in Nat
    /\ None \notin Browsers \cup Subjects \cup States \cup Sessions \cup Tokens \cup Clients
    /\ Sessions \cap Tokens = {}

VARIABLES
    clients,    \* oauth_clients: the expiry of a registered client
    states,     \* oauth_provider_states
    sessions,   \* web_sessions
    tokens,     \* auth_tokens of the Connect page
    codes,      \* oauth_authorization_codes
    users,      \* users and oauth_identities
    cookies,    \* what each browser keeps
    answered,   \* external: whom the provider signed in for a state
    pc, job,    \* the request each handler serves, and its locals
    began,      \* history: the browser that was sent to the provider
    asked,      \* history: the clients a browser asked to authorize
    loggedOut,  \* history: what the answered logouts carried
    now,        \* the clock
    faults, requests \* counters that bound the exploration

tables == <<clients, states, sessions, tokens, codes, users>>
history == <<began, asked, loggedOut>>
vars == <<tables, cookies, answered, pc, job, history, now, faults, requests>>

StateRows == [browser: Browsers, pending: Clients \cup {None}, expires: Nat,
              consumed: BOOLEAN]
(* "via" and "browser" are not columns: they record the login of the row.   *)
SessionRows == [user: Subjects, expires: Nat, revoked: BOOLEAN, via: States]
TokenRows == [owner: Subjects, expires: Nat, revoked: BOOLEAN]
CodeRows == [client: Clients, owner: Subjects, browser: Browsers]

(* amh_oauth_session (the browser session id and the pending request), the  *)
(* Connect session with its CSRF token, and amh_token_id.                   *)
Jars == [id: BOOLEAN, pending: Clients \cup {None},
         session: Sessions \cup {None}, token: Tokens \cup {None}]
EmptyJar == [id |-> FALSE, pending |-> None, session |-> None, token |-> None]

ASSUME NoneIsNoRecord ==
    None \notin StateRows \cup SessionRows \cup TokenRows \cup CodeRows \cup Jars

-----------------------------------------------------------------------------
(* Reads of the store.  SQLite compares ISO text with its own format: the   *)
(* dates decide, and within one date the ISO text is the greater one.       *)

UnexpiredInStore(expires) ==
    IF TextTimestamps THEN expires \div Day >= now \div Day ELSE expires > now

oauth_client(c) == clients[c] # None /\ UnexpiredInStore(clients[c])

web_session_for_hash(s) ==
    s # None /\ sessions[s] # None /\ ~sessions[s].revoked
      /\ UnexpiredInStore(sessions[s].expires)

auth_context_for_token(t) ==
    tokens[t] # None /\ ~tokens[t].revoked /\ UnexpiredInStore(tokens[t].expires)

ActiveStates == {s \in States : /\ states[s] # None /\ ~states[s].consumed
                                /\ UnexpiredInStore(states[s].expires)}

state_quota_exceeded(b) ==
    \/ Cardinality(ActiveStates) >= MaxStates
    \/ Cardinality({s \in ActiveStates : states[s].browser = b}) >= MaxStatesOfBrowser

client_quota_exceeded == Cardinality({c \in Clients : oauth_client(c)}) >= MaxClients

(* Mutant: the state is accepted from whichever browser brings it.          *)
ConsumableAnywhere(s, b) ==
    states[s] # None /\ ~states[s].consumed /\ UnexpiredInStore(states[s].expires)

consumable_state(s, b) ==
    /\ states[s] # None
    /\ states[s].browser = b
    /\ ~states[s].consumed
    /\ UnexpiredInStore(states[s].expires)

-----------------------------------------------------------------------------
(* What a request is allowed to do.                                         *)

(* The claims of a hub token are checked first, with exact times, and then  *)
(* the row stored for it.                                                   *)
validate_oauth_access_token(t) == tokens[t].expires > now

authenticate(t) ==
    tokens[t] # None /\ validate_oauth_access_token(t) /\ auth_context_for_token(t)

(* POST /memory/import with the session cookie and its CSRF token.          *)
authenticate_connect_session(s) == web_session_for_hash(s)

-----------------------------------------------------------------------------
Init ==
    /\ clients = [c \in Clients |-> None]
    /\ states = [s \in States |-> None]
    /\ sessions = [s \in Sessions |-> None]
    /\ tokens = [t \in Tokens |-> None]
    /\ codes = [c \in Codes |-> None]
    /\ users = {}
    /\ cookies = [b \in Browsers |-> EmptyJar]
    /\ answered = [s \in States |-> None]
    /\ pc = [h \in Handlers |-> "idle"]
    /\ job = [h \in Handlers |-> None]
    /\ began = [s \in States |-> None]
    /\ asked = [b \in Browsers |-> {}]
    /\ loggedOut = {}
    /\ now = 0 /\ faults = 0 /\ requests = 0

(* The locals of a request: the browser and the cookies it sent, the        *)
(* client to authorize, the provider state and code it came back with, and  *)
(* what it has stored so far.                                               *)
Request(b) == [browser |-> b, jar |-> cookies[b], client |-> None, state |-> None,
               code |-> None, user |-> None, session |-> None, token |-> None]

Goto(h, j, next) ==
    /\ job' = [job EXCEPT ![h] = j]
    /\ pc' = [pc EXCEPT ![h] = next]

(* The answer carries the OAuth browser session as the request left it.     *)
Answer(h, jar) ==
    /\ cookies' = [cookies EXCEPT ![job[h].browser] =
                     [@ EXCEPT !.id = jar.id, !.pending = jar.pending]]
    /\ Goto(h, None, "idle")

(* A request arrives with the cookies of its browser.                       *)
Arrive(h, j, next) ==
    /\ pc[h] = "idle"
    /\ requests < MaxRequests
    /\ requests' = requests + 1
    /\ Goto(h, j, next)
    /\ UNCHANGED <<tables, cookies, answered, began, loggedOut, now, faults>>

SameStore == UNCHANGED tables
SameRest == UNCHANGED <<answered, history, now, faults, requests>>

-----------------------------------------------------------------------------
(* Registration, and the two ways to the provider.                          *)

(* POST /oauth/register: one transaction counts and inserts.  At the quota  *)
(* the registration is refused and changes nothing.                         *)
Register(c) ==
    /\ clients[c] = None
    /\ ~client_quota_exceeded
    /\ clients' = [clients EXCEPT ![c] = now + ClientTTL]
    /\ UNCHANGED <<states, sessions, tokens, codes, users, cookies, pc, job>> /\ SameRest

browser_session_id(jar) == [jar EXCEPT !.id = TRUE]

(* GET /oauth/authorize: the client is validated, the request is put in the *)
(* cookie, and the provider state is about to be stored.                    *)
Authorize(h, b, c) ==
    /\ oauth_client(c)
    /\ asked' = [asked EXCEPT ![b] = @ \cup {c}]
    /\ LET r == Request(b)
       IN  Arrive(h, [r EXCEPT !.client = c,
                               !.jar = browser_session_id([r.jar EXCEPT !.pending = c])],
                  "redirect")

(* GET /auth/{provider}                                                     *)
BeginLogin(h, b) ==
    /\ LET r == Request(b)
       IN  Arrive(h, [r EXCEPT !.jar = browser_session_id(r.jar)], "redirect")
    /\ UNCHANGED asked

(* The states that are consumed or expired are deleted, the quotas counted  *)
(* and the new state inserted in one transaction.                           *)
create_oauth_provider_state(s, b, client) ==
    states' = [t \in States |->
                 IF t = s THEN [browser |-> b, pending |-> client,
                                expires |-> now + StateTTL, consumed |-> FALSE]
                 ELSE IF t \in ActiveStates THEN states[t] ELSE None]

AuthorizeRedirect(h) ==
    /\ pc[h] = "redirect"
    /\ LET b == job[h].browser
       IN  IF state_quota_exceeded(b)
           THEN SameStore /\ UNCHANGED began
           ELSE \E s \in States :
                  /\ began[s] = None
                  /\ create_oauth_provider_state(s, b, job[h].client)
                  /\ began' = [began EXCEPT ![s] = b]
                  /\ UNCHANGED <<clients, sessions, tokens, codes, users>>
    /\ Answer(h, job[h].jar)
    /\ UNCHANGED <<answered, asked, loggedOut, now, faults, requests>>

(* External: the provider signs somebody in for a state it was sent and     *)
(* returns a code bound to its nonce and code challenge.                    *)
ProviderAnswers(s, u) ==
    /\ began[s] # None
    /\ answered[s] = None
    /\ answered' = [answered EXCEPT ![s] = u]
    /\ SameStore /\ UNCHANGED <<cookies, pc, job, history, now, faults, requests>>

-----------------------------------------------------------------------------
(* GET /auth/{provider}/callback.  The link may be opened twice, in another *)
(* browser, and with the code of another login.                             *)

Callback(h, b, s, g) ==
    /\ began[s] # None /\ answered[g] # None
    /\ Arrive(h, [Request(b) EXCEPT !.state = s, !.code = g], "consume")
    /\ UNCHANGED asked

consume_oauth_provider_state(s) == states' = [states EXCEPT ![s].consumed = TRUE]

(* Without a browser session id, or with a state that is not stored, used,  *)
(* expired or another browser's, the request is refused.                    *)
StateData(h) ==
    LET j == job[h]
    IN  /\ pc[h] = "consume"
        /\ IF j.jar.id /\ consumable_state(j.state, j.browser)
           THEN /\ consume_oauth_provider_state(j.state)
                /\ Goto(h, [j EXCEPT !.client = states[j.state].pending], "exchange")
                /\ UNCHANGED <<clients, sessions, tokens, codes, users, cookies>>
           ELSE Answer(h, j.jar) /\ SameStore
        /\ SameRest

(* The provider only exchanges a code for the verifier of its own login,    *)
(* and the nonce of the identity token must be the one of the state.        *)
exchange_code_for_token(j) == j.code = j.state
validate_oidc_nonce(j) == j.code = j.state
validate_provider_claims(u) == u \in AllowedSubjects

CallbackClaims(h) ==
    LET j == job[h]
        u == answered[j.code]
    IN  /\ pc[h] = "exchange"
        /\ IF exchange_code_for_token(j) /\ validate_oidc_nonce(j) /\ validate_provider_claims(u)
           THEN Goto(h, [j EXCEPT !.user = u], "identity") /\ UNCHANGED cookies
           ELSE Answer(h, j.jar)
        /\ SameStore /\ SameRest

(* complete_login: the identity, the session and, when no client waits to   *)
(* be authorized, a bearer token, each in a transaction of its own.         *)
FindOrCreateIdentity(h) ==
    /\ pc[h] = "identity"
    /\ users' = users \cup {job[h].user}
    /\ Goto(h, job[h], "session")
    /\ UNCHANGED <<clients, states, sessions, tokens, codes, cookies>> /\ SameRest

has_pending_mcp_authorization(j) == j.client # None \/ j.jar.pending # None

CreateWebSession(h) ==
    LET j == job[h]
    IN  /\ pc[h] = "session"
        /\ \E s \in Sessions :
             /\ sessions[s] = None
             /\ sessions' = [sessions EXCEPT ![s] =
                               [user |-> j.user, expires |-> now + SessionTTL,
                                revoked |-> FALSE, via |-> j.state]]
             /\ Goto(h, [j EXCEPT !.session = s],
                     IF has_pending_mcp_authorization(j) THEN "cookies" ELSE "token")
        /\ UNCHANGED <<clients, states, tokens, codes, users, cookies>> /\ SameRest

issue_hub_token(u) == [owner |-> u, expires |-> now + TokenTTL, revoked |-> FALSE]

create_auth_token(t, u) == tokens' = [tokens EXCEPT ![t] = issue_hub_token(u)]

CreateAuthToken(h) ==
    /\ pc[h] = "token"
    /\ \E t \in Tokens :
         /\ tokens[t] = None
         /\ create_auth_token(t, job[h].user)
         /\ Goto(h, [job[h] EXCEPT !.token = t], "cookies")
    /\ UNCHANGED <<clients, states, sessions, codes, users, cookies>> /\ SameRest

pending_authorization_redirect(j) == IF j.client # None THEN j.client ELSE j.jar.pending

SetCookies(h) ==
    LET j == job[h]
    IN  /\ pc[h] = "cookies"
        /\ cookies' = [cookies EXCEPT ![j.browser] =
                         [id |-> j.jar.id,
                          pending |-> pending_authorization_redirect(j),
                          session |-> j.session,
                          token |-> IF j.token # None THEN j.token ELSE @.token]]
        /\ Goto(h, None, "idle")
        /\ SameStore /\ SameRest

-----------------------------------------------------------------------------
(* POST /oauth/authorize/approve and /deny: the session and its CSRF token, *)
(* then the pending request, which is validated once more.                  *)

Decide(h, b, decision) ==
    /\ web_session_for_hash(cookies[b].session)
    /\ LET r == Request(b)
       IN  Arrive(h, [r EXCEPT !.client = r.jar.pending, !.jar.pending = None,
                               !.user = sessions[r.jar.session].user],
                  decision)
    /\ UNCHANGED asked

validated_pending_authorization_request(j) == j.client # None /\ oauth_client(j.client)

Approve(h) ==
    /\ pc[h] = "approve"
    /\ IF validated_pending_authorization_request(job[h])
       THEN Goto(h, job[h], "code") /\ UNCHANGED cookies
       ELSE Answer(h, job[h].jar)
    /\ SameStore /\ SameRest

AuthorizationCodeRedirect(h) ==
    LET j == job[h]
    IN  /\ pc[h] = "code"
        /\ \E c \in Codes :
             /\ codes[c] = None
             /\ codes' = [codes EXCEPT ![c] = [client |-> j.client, owner |-> j.user,
                                               browser |-> j.browser]]
        /\ Answer(h, j.jar)
        /\ UNCHANGED <<clients, states, sessions, tokens, users>> /\ SameRest

Deny(h) ==
    /\ pc[h] = "deny"
    /\ Answer(h, job[h].jar)
    /\ SameStore /\ SameRest

-----------------------------------------------------------------------------
(* POST /auth/logout.  A session that is no longer valid needs no CSRF      *)
(* token; the session and the token the cookies name are revoked.           *)

Logout(h, b) ==
    /\ cookies[b].session # None \/ cookies[b].token # None
    /\ Arrive(h, Request(b), "revoke_session")
    /\ UNCHANGED asked

RevokeWebSession(h) ==
    LET s == job[h].jar.session
    IN  /\ pc[h] = "revoke_session"
        /\ sessions' = IF s = None THEN sessions
                       ELSE [sessions EXCEPT ![s].revoked = TRUE]
        /\ Goto(h, job[h], "revoke_token")
        /\ UNCHANGED <<clients, states, tokens, codes, users, cookies>> /\ SameRest

(* Mutant: the token is only revoked together with a session.               *)
RevokeWithSession(j) == j.jar.token # None /\ j.jar.session # None

revokes_auth_token(j) == j.jar.token # None

RevokeAuthToken(h) ==
    LET j == job[h]
    IN  /\ pc[h] = "revoke_token"
        /\ tokens' = IF revokes_auth_token(j)
                     THEN [tokens EXCEPT ![j.jar.token].revoked = TRUE] ELSE tokens
        /\ loggedOut' = loggedOut \cup ({j.jar.session, j.jar.token} \ {None})
        /\ cookies' = [cookies EXCEPT ![j.browser] =
                         [j.jar EXCEPT !.session = None, !.token = None]]
        /\ Goto(h, None, "idle")
        /\ UNCHANGED <<clients, states, sessions, codes, users, answered, began, asked,
                       now, faults, requests>>

(* aim token revoke                                                         *)
RevokeListedToken(t) ==
    /\ tokens[t] # None /\ ~tokens[t].revoked
    /\ tokens' = [tokens EXCEPT ![t].revoked = TRUE]
    /\ UNCHANGED <<clients, states, sessions, codes, users, cookies, pc, job>> /\ SameRest

-----------------------------------------------------------------------------
(* A store call or the provider fails: the request is answered with an      *)
(* error that changes no cookie, and what it stored before stays.           *)
Fails(h) ==
    /\ pc[h] # "idle"
    /\ faults < MaxFaults
    /\ faults' = faults + 1
    /\ Goto(h, None, "idle")
    /\ SameStore /\ UNCHANGED <<cookies, answered, history, now, requests>>

Tick ==
    /\ now < MaxTime
    /\ now' = now + 1
    /\ SameStore /\ UNCHANGED <<cookies, answered, pc, job, history, faults, requests>>

(* The session cookie of a browser is dropped when its lifetime is over.    *)
CookieExpires(b) ==
    /\ cookies[b].session # None
    /\ sessions[cookies[b].session].expires <= now
    /\ cookies' = [cookies EXCEPT ![b].session = None]
    /\ SameStore /\ SameRest /\ UNCHANGED <<pc, job>>

Handle(h) ==
    \/ AuthorizeRedirect(h) \/ StateData(h) \/ CallbackClaims(h)
    \/ FindOrCreateIdentity(h) \/ CreateWebSession(h) \/ CreateAuthToken(h) \/ SetCookies(h)
    \/ Approve(h) \/ AuthorizationCodeRedirect(h) \/ Deny(h)
    \/ RevokeWebSession(h) \/ RevokeAuthToken(h)

Next ==
    \/ \E c \in Clients : Register(c)
    \/ \E s \in States, u \in Subjects : ProviderAnswers(s, u)
    \/ \E h \in Handlers :
         \/ \E b \in Browsers :
              \/ BeginLogin(h, b)
              \/ \E c \in Clients : Authorize(h, b, c)
              \/ \E s, g \in States : Callback(h, b, s, g)
              \/ \E decision \in {"approve", "deny"} : Decide(h, b, decision)
              \/ Logout(h, b)
         \/ Handle(h)
         \/ Fails(h)
    \/ \E t \in Tokens : RevokeListedToken(t)
    \/ \E b \in Browsers : CookieExpires(b)
    \/ Tick

Spec == Init /\ [][Next]_vars

-----------------------------------------------------------------------------
(* Properties.                                                              *)

(* A browser signs in through a login of its own: its session was made for  *)
(* the identity the provider signed in for a state that this browser was    *)
(* sent away with, however callbacks are repeated, mixed up or opened       *)
(* elsewhere; and no state makes two sessions.                              *)
SignsInThroughItsOwnLogin ==
    /\ \A b \in Browsers :
         LET s == cookies[b].session
         IN  s # None => /\ began[sessions[s].via] = b
                         /\ answered[sessions[s].via] = sessions[s].user
    /\ \A s, t \in Sessions :
         sessions[s] # None /\ sessions[t] # None /\ sessions[s].via = sessions[t].via => s = t

(* An authorization code is only ever stored for a client that the          *)
(* approving browser asked to authorize, and for a user who signed in       *)
(* there, also when several requests wait in several tabs.                  *)
CodeIsForWhatWasAsked ==
    \A c \in Codes : codes[c] # None =>
        /\ codes[c].client \in asked[codes[c].browser]
        /\ \E s \in States : began[s] = codes[c].browser /\ answered[s] = codes[c].owner

(* Once a logout is answered, nothing the request carried authenticates any *)
(* more: neither its session nor its token, also when the session had       *)
(* already expired and when an earlier attempt failed half way.             *)
LogoutIsComplete ==
    \A x \in loggedOut : IF x \in Sessions THEN ~authenticate_connect_session(x)
                                           ELSE ~authenticate(x)
=============================================================================
