---------------------------- MODULE ExternalOIDC ----------------------------
(***************************************************************************)
(* Tokens of an identity provider outside the hub, checked with the         *)
(* provider's published keys.  Two caches of those keys are kept by a hub   *)
(* process: the one of the bearer tokens of api.auth = oidc_resource_server *)
(* ("bearer") and the one of the identity tokens of a browser login         *)
(* ("login").  A fetch takes time, other requests run while it is awaited,  *)
(* and the provider rotates its keys meanwhile.                             *)
(***************************************************************************)
EXTENDS Integers, FiniteSets

CONSTANTS
    Checkers,    \* requests the hub serves at the same time
    Keys,        \* signing keys of the provider
    KidOf,       \* the kid of a key and of the tokens it signs, or Absent
    FirstKey,    \* the one published at the start
    Owners,      \* subjects the tokens are issued for
    TTL,         \* oidc.cache_ttl_seconds, OIDC_CACHE_TTL_SECONDS
    NotReadyTTL, \* 30 seconds in the code
    MaxClock, MaxChecks, MaxKeys, \* bounds of the exploration
    Absent       \* no value

ASSUME OIDCAssumption ==
    /\ FirstKey \in Keys /\ DOMAIN KidOf = Keys
    /\ TTL \in Nat /\ NotReadyTTL \in Nat
    /\ MaxClock \in Nat /\ MaxChecks \in Nat /\ MaxKeys \in Nat
    /\ Absent \notin Nat \cup Keys

Kinds == {"bearer", "login"}

VARIABLES
    jwks,      \* _jwks_cache of each kind: the keys and the expiry, or Absent
    metadata,  \* expiry of the cached discovery document of each kind, or Absent
    ready,     \* _readiness_cache
    profiles,  \* _external_identity_profiles
    identities, \* users and oauth_identities of the store
    published, \* external: when each key was published, or Absent
    retired,   \* external: when each key was withdrawn, or Absent
    stage, check, \* the request each checker serves, and its locals
    verdict,   \* history: the answer given by the last step, if any
    begun,     \* counter that bounds the exploration
    clock

provider == <<published, retired>>
caches == <<jwks, metadata, ready, profiles>>
oidcVars == <<caches, identities, provider, stage, check, verdict, begun, clock>>

Published == {k \in Keys : published[k] # Absent /\ retired[k] = Absent}

-----------------------------------------------------------------------------
OIDCInit ==
    /\ jwks = [d \in Kinds |-> Absent] /\ metadata = [d \in Kinds |-> Absent]
    /\ ready = Absent
    /\ profiles = {} /\ identities = {}
    /\ published = [k \in Keys |-> IF k = FirstKey THEN 0 ELSE Absent]
    /\ retired = [k \in Keys |-> Absent]
    /\ stage = [h \in Checkers |-> "idle"] /\ check = [h \in Checkers |-> Absent]
    /\ verdict = Absent
    /\ begun = 0 /\ clock = 0

Proceed(h, j, next) == /\ check' = [check EXCEPT ![h] = j]
                       /\ stage' = [stage EXCEPT ![h] = next]
Same == UNCHANGED <<identities, provider, begun, clock>>

(* An answer records with what it was reached: when the token was judged,  *)
(* whether its key was among the keys, and since when they were asked for   *)
(* if this request fetched them itself.                                     *)
Judge(h, ok, how) ==
    /\ verdict' = [kind |-> check[h].kind, key |-> check[h].key, ok |-> ok, how |-> how]
    /\ Proceed(h, Absent, "idle")

(* A request with a token signed by key k, which is still published.        *)
TokenArrives(h, d, k, o) ==
    /\ stage[h] = "idle" /\ begun < MaxChecks
    /\ k \in Published
    /\ begun' = begun + 1
    /\ Proceed(h, [kind |-> d, key |-> k, owner |-> o, retried |-> FALSE, keys |-> {},
                   start |-> 0, since |-> Absent], "jwks")
    /\ UNCHANGED <<caches, identities, provider, clock>> /\ verdict' = Absent

fresh(cached) == cached # Absent /\ cached.expires > clock

(* The Connect page asks whether the provider is ready.                     *)
AskReadiness(h) ==
    /\ stage[h] = "idle" /\ begun < MaxChecks
    /\ ~fresh(ready)
    /\ begun' = begun + 1
    /\ Proceed(h, [kind |-> "bearer", key |-> Absent, owner |-> Absent, retried |-> TRUE,
                   keys |-> {}, start |-> 0, since |-> Absent], "jwks")
    /\ UNCHANGED <<caches, identities, provider, clock>> /\ verdict' = Absent

-----------------------------------------------------------------------------
(* Keys: from the cache while it is fresh, else from the provider, whose    *)
(* address comes from a discovery document that is cached the same way.  A  *)
(* bearer token looks for keys first and a login for the document.  Nothing *)
(* else runs between having the keys and using them.                        *)

RequestKeys(h, j) ==
    Proceed(h, [j EXCEPT !.start = clock],
            IF fresh(metadata[j.kind]) THEN "read" ELSE "discover")

cache_readiness(ok) == [expires |-> clock + (IF ok THEN TTL ELSE NotReadyTTL), ok |-> ok]

(* External: the library tries the token with one of the keys of its kid,   *)
(* or with any key when the token names none.                               *)
candidates(j) == {k \in j.keys : KidOf[j.key] = Absent \/ KidOf[k] = KidOf[j.key]}
may_verify(j) == j.key \in candidates(j)
may_fail(j) == candidates(j) # {j.key}

(* A token that names no kid counts as one of a known key.                  *)
jwks_contains_token_key(j) ==
    KidOf[j.key] = Absent \/ \E k \in j.keys : KidOf[k] = KidOf[j.key]

(* Mutant: a token of an unknown key is refused at once.                    *)
NeverRefetch(j) == FALSE

(* Only a bearer token refreshes the cache for a key it does not know, and  *)
(* only once.                                                               *)
refetch_keys(j) == j.kind = "bearer" /\ ~j.retried /\ ~jwks_contains_token_key(j)

(* The request has the keys j.keys, and "cache" is what is cached now.      *)
(* Having keys counts as ready, except for the second try of a token.       *)
decode_token(h, j, cache) ==
    LET how == [failed |-> FALSE, at |-> clock, known |-> j.key \in j.keys, since |-> j.since]
    IN  \/ /\ j.key = Absent
           /\ ready' = cache_readiness(TRUE)
           /\ Judge(h, TRUE, how)
           /\ jwks' = cache
        \/ /\ j.key # Absent
           /\ ready' = IF j.kind = "bearer" /\ ~j.retried THEN cache_readiness(TRUE) ELSE ready
           /\ \/ /\ may_verify(j)
                 /\ Proceed(h, [j EXCEPT !.start = clock, !.keys = {}, !.retried = FALSE], "identity")
                 /\ jwks' = cache /\ verdict' = Absent
              \/ /\ may_fail(j) /\ refetch_keys(j)
                 /\ RequestKeys(h, [j EXCEPT !.retried = TRUE, !.keys = {}, !.since = Absent])
                 /\ jwks' = [cache EXCEPT ![j.kind] = Absent] /\ verdict' = Absent
              \/ /\ may_fail(j) /\ ~refetch_keys(j)
                 /\ Judge(h, FALSE, how)
                 /\ jwks' = cache

KeysAreCached(d) == fresh(jwks[d]) /\ (d = "login" => fresh(metadata[d]))

jwks_cached(h) ==
    LET d == check[h].kind
    IN  /\ stage[h] = "jwks"
        /\ KeysAreCached(d)
        /\ decode_token(h, [check[h] EXCEPT !.keys = jwks[d].keys], jwks)
        /\ Same /\ UNCHANGED <<metadata, profiles>>

jwks_request(h) ==
    /\ stage[h] = "jwks"
    /\ ~KeysAreCached(check[h].kind)
    /\ RequestKeys(h, check[h])
    /\ Same /\ UNCHANGED <<caches>> /\ verdict' = Absent

(* A login looks for cached keys only now.                                  *)
metadata_fetch(h) ==
    LET j == check[h]
    IN  /\ stage[h] = "discover"
        /\ metadata' = [metadata EXCEPT ![j.kind] = [expires |-> j.start + TTL]]
        /\ \/ /\ j.kind = "login" /\ fresh(jwks[j.kind])
              /\ decode_token(h, [j EXCEPT !.keys = jwks[j.kind].keys], jwks)
           \/ /\ ~(j.kind = "login" /\ fresh(jwks[j.kind]))
              /\ Proceed(h, [j EXCEPT !.start = IF j.kind = "login" THEN clock ELSE @], "read")
              /\ UNCHANGED <<jwks, ready>> /\ verdict' = Absent
        /\ Same /\ UNCHANGED profiles

(* External: the provider answers with the keys it publishes now.           *)
ProviderReads(h) ==
    /\ stage[h] = "read"
    /\ Proceed(h, [check[h] EXCEPT !.keys = Published], "arrive")
    /\ Same /\ UNCHANGED <<caches>> /\ verdict' = Absent

(* Mutant: the lifetime of the cached keys begins when they arrive.         *)
ExpiresAfterArrival(j) == clock + TTL

jwks_expiry(j) == j.start + TTL

jwks_arrive(h) ==
    LET j == check[h]
    IN  /\ stage[h] = "arrive"
        /\ decode_token(h, [j EXCEPT !.since = j.start], [jwks EXCEPT ![j.kind] =
                               [keys |-> j.keys, expires |-> jwks_expiry(j)]])
        /\ Same /\ UNCHANGED <<metadata, profiles>>

(* A fetch that fails: a bearer token is refused, a login is answered with  *)
(* an error, and a readiness check reports and caches it.                   *)
fetch_fails(h) ==
    /\ stage[h] \in {"discover", "read", "arrive"}
    /\ ready' = IF check[h].key = Absent THEN cache_readiness(FALSE) ELSE ready
    /\ Judge(h, FALSE, [failed |-> TRUE, at |-> clock, known |-> FALSE, since |-> Absent])
    /\ Same /\ UNCHANGED <<jwks, metadata, profiles>>

(* The claims are valid: the owner's identity is stored the first time this *)
(* process sees its profile.                                                *)
sync_external_oidc_identity(h) ==
    LET j == check[h]
    IN  /\ stage[h] = "identity"
        /\ IF j.kind = "bearer" /\ j.owner \in profiles
           THEN UNCHANGED <<identities, profiles>>
           ELSE /\ identities' = identities \cup {j.owner}
                /\ profiles' = IF j.kind = "bearer" THEN profiles \cup {j.owner} ELSE profiles
        /\ Judge(h, TRUE, [failed |-> FALSE, at |-> j.start, known |-> TRUE, since |-> j.since])
        /\ UNCHANGED <<jwks, metadata, ready, provider, begun, clock>>

(* find_or_create_oauth_identity raises: the request fails, and the profile *)
(* is not remembered as stored.                                             *)
identity_fails(h) ==
    /\ stage[h] = "identity"
    /\ check[h].kind = "login" \/ check[h].owner \notin profiles
    /\ Proceed(h, Absent, "idle")
    /\ Same /\ UNCHANGED <<caches>> /\ verdict' = Absent

-----------------------------------------------------------------------------
(* External: the provider publishes a key, and withdraws one when another   *)
(* is published.                                                            *)
MorePublished == Cardinality({k \in Keys : published[k] # Absent}) < MaxKeys

PublishKey(k) ==
    /\ published[k] = Absent /\ MorePublished
    /\ published' = [published EXCEPT ![k] = clock]
    /\ UNCHANGED <<caches, identities, retired, stage, check, begun, clock>> /\ verdict' = Absent

RetireKey(k) ==
    /\ k \in Published /\ Published # {k}
    /\ retired' = [retired EXCEPT ![k] = clock]
    /\ UNCHANGED <<caches, identities, published, stage, check, begun, clock>> /\ verdict' = Absent

TimePasses ==
    /\ clock < MaxClock
    /\ clock' = clock + 1
    /\ UNCHANGED <<caches, identities, provider, stage, check, begun>> /\ verdict' = Absent

CheckStep(h) ==
    \/ jwks_cached(h) \/ jwks_request(h) \/ metadata_fetch(h) \/ ProviderReads(h)
    \/ jwks_arrive(h) \/ fetch_fails(h) \/ sync_external_oidc_identity(h)
    \/ identity_fails(h)

OIDCNext ==
    \/ \E h \in Checkers : \/ \E d \in Kinds, k \in Keys, o \in Owners : TokenArrives(h, d, k, o)
                           \/ AskReadiness(h)
                           \/ CheckStep(h)
    \/ \E k \in Keys : PublishKey(k) \/ RetireKey(k)
    \/ TimePasses

OIDCSpec == OIDCInit /\ [][OIDCNext]_oidcVars

-----------------------------------------------------------------------------
(* Properties.                                                              *)

(* A token of a withdrawn key is not accepted any more once the keys could  *)
(* have been cached for their whole lifetime, whatever fetches were in      *)
(* flight when it was withdrawn, however long they take and in whichever    *)
(* order they end: except by the request whose own fetch began before the   *)
(* withdrawal, since what it fetches it uses without asking for its age.    *)
RetiredKeyDies ==
    (verdict # Absent /\ verdict.ok /\ verdict.key # Absent /\ retired[verdict.key] # Absent)
      => \/ verdict.how.at < retired[verdict.key] + TTL
         \/ verdict.how.since # Absent /\ verdict.how.since <= retired[verdict.key]

(* Tokens of this key name a kid that no other key ever has.                *)
HasOwnKid(k) == KidOf[k] # Absent /\ \A i \in Keys \ {k} : KidOf[i] # KidOf[k]

(* Rotation is not an outage: a token of a key that is published is refused *)
(* without a failed fetch at most for the lifetime of the cache after its   *)
(* key was published, and a bearer token that names a kid of its own not    *)
(* at all.  Longer than that it takes a second key that fits the token and  *)
(* is tried in its place.                                                   *)
PublishedKeyIsAccepted ==
    (verdict # Absent /\ ~verdict.ok /\ ~verdict.how.failed /\ verdict.key \in Published)
      => /\ HasOwnKid(verdict.key) => verdict.kind = "login" /\ ~verdict.how.known
         /\ verdict.how.known \/ verdict.how.at < published[verdict.key] + TTL

=============================================================================
